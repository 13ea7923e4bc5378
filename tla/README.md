# CortexAgent: a verification project

TLA+ models of the parts of CortexAgent that share state: files that several
processes rewrite, sockets that several clients use, threads that overtake each
other, processes that die half-way. TLC checks the models on small instances;
TLAPS proves the main invariants for every size. `PROJECT.json` maps every
definition to the lines it stands for and lists runs, mutants, hazards and
theorems.

Contents: 1 the system · 2 what is modelled · 3 the modules · 4 the runs ·
5 the proofs · 6 where the code and its words differ · 7 what is not modelled ·
8 what is left to do.

## 1. The system

CortexAgent is an agent harness: a loop of model answers and tool calls, around
which run a daemon, a background overseer, a memory, a prompt queue and some
servers. It is written in Python; the processes of one machine meet in the files
of `~/.cortexagent` and at two local sockets. There is no database server and no
broker: what holds the system together is rename, append, `flock`, threads and
timeouts.

| Component | State | Operations | Meets others through |
|---|---|---|---|
| Prompt queue (`lib/prompt_queue.py`) | `prompt_queue.json`, its temporary file, archives, a lock file | submit, done, drop, clear, list | hooks of every session, the command line, the daemon |
| Scheduler store (`lib/scheduler/store.py`) | event log, snapshot, state file with the generation, executions | create, update, pause, resume, cancel, archive, run now, clear test tasks, reconcile | overseer and command line open a store each |
| Scheduler recovery (`lib/scheduler/recovery.py`) | the same files | recover: replay, repair, mark interrupted | run at the overseer's start, or by hand |
| Control server (`lib/control.py`) | a socket, 16 worker slots | serve, shed, one request per connection | every client of the daemon |
| Daemon (`lib/daemon.py`) | session claims in memory, pid file, the model server's process | start, run, stop; session start, end, reset, status; pruner and reaper threads | the control server's workers, `ps`, `pgrep`, signals |
| Memory append (`lib/memory_thin.py`, `lib/memory_daemon.py`) | the hot memory file, a socket, a pid file | append, by the daemon or directly | every process that remembers something |
| Memory readers, tiers, database (`lib/memory_readers.py`, `memory/`, `lib/cold_distiller.py`) | the JSONL files, an SQLite file and its mirror | tail, search, copy, distil, migrate, add a message | the memory files |
| Workflow engine (`engine/`) | a plan in memory and in `workflow_state.json` | run, status, clear | the overseer's dispatch threads, through that file |
| Overseer (`lib/overseer.py`) | task queue, schedules, plan, state file, worker pool | tick, dispatch, workers, drain, queue, schedule and plan commands | scheduler store, workflow file, session bridge |
| Reasoning loop (`lib/react_loop.py`, `lib/tool_registry.py`) | the conversation, counters | step, tool call, retry, gate | model server, tools |
| Session bridge and event feed (`lib/session_bridge.py`, `lib/event_feed.py`) | a file of lines, a ring of the last events, clients | append, follow, greet, push | all sessions, viewers |
| Fetch lane (`actions/fetch.py`) | a partial file, a checksum | measure, resume, verify, publish | the web |
| Verified downloads (`lib/download_verified.py`) | part files, the manifest of a directory | download in chunks or in one piece, verify, record | the web, the model's tools |
| Research lane (`research/`) | nothing that lasts | search with a ladder of backends, read pages with another | the web |
| Security data (`lib/cve_intel.py`, `lib/soar_playbooks.py`, `lib/sec_controls.py`) | the intel file, the file of commands, the state of the firewall's helper | poll, act, show, dismiss, block | the helper, which is another program |
| MCP client and proxies (`lib/mcp_client.py`, two proxies) | a session per server, child processes | call, drop, close | other programs, by their standard streams |
| Browser lane (`lib/browser_control.py`) | a driver, a link, a list of tabs | connect, list, open, close, use, reap | Chrome and its user |
| Console window (`lib/browser_console.py`) | the record of the open window, the task it shows | start, show, refresh, close | the scheduler's files |
| Doctor and configuration (`lib/doctor.py`, `lib/config.py`, `bin/cortexagent`) | `settings.json`, `mcp.json`, copies of them | check, repair, render | each launch, the user's editor |
| Retry and circuit breaker (`lib/reliability.py`) | failures, time of opening | call, success, failure | nothing yet |
| Answer checks, observability, display, documents, hooks, installer, scripts | little or none of their own | | |

What is hard about it:

- **Read, change, write.** Most state files are loaded, changed in memory and
  written back. Some writers hold a lock, some do not, and some of them share one
  temporary file (prompt queue, overseer queue, workflow file, manifest,
  configuration).
- **Processes die.** Between an event and its snapshot, between emptying a file
  and writing it, with a lock in hand, with a request half sent, within a line.
- **Two ways to the same file.** Memory is appended by a daemon or, after two
  seconds, by the client itself; the first may still happen later. Two programs
  render one configuration file, each in its own way.
- **Identity over process ids.** Claims name a pid and its parent; pids are handed
  on, parents change, several sessions can have one parent, and a pid file
  outlives the process it names.
- **Bounded resources.** 16 workers, a backlog of 8 or 16, a disk that fills.
- **Overlap.** The overseer starts threads that outlive its tick, a tool that has
  timed out runs on, polls of one feed overlap.
- **Answers without a name.** The proxies take the next line for the answer.
- **Views that age.** A list of tabs, an alert's card, the helper's progress, the
  task on the pane: each was true when it was read.

What makes each component correct is what the properties of section 4 say.

## 2. What is modelled

| Component | Modules | Status |
|---|---|---|
| Prompt queue | `PromptConflict`, `PromptQueueOps`, `PromptQueueSpec`, `PromptQueue` | modelled |
| Scheduler store | `SchedulerLog`, `SchedulerStore` | partly: no migration of the old format, no `.bak` copies, no computing of times |
| Scheduler recovery | the same | modelled |
| Control server | `ControlServer` | modelled |
| Daemon session claims | `DaemonSessions` | modelled |
| Daemon life cycle and model reaper | `DaemonLife`, `ModelReaper` | modelled |
| Memory append and memory daemon | `MemoryAppend` | modelled |
| Memory readers | `MemoryFiles` | modelled |
| Memory database and tiers | `WarmCopy`, `ColdDistiller`, `MemoryDb` | partly: no statistics, no clean-up (nothing calls it) |
| Workflow engine and dispatch | `DagScheduler`, `Workflow` | modelled |
| Overseer | `OverseerQueue`, `Timetable`, `WorkerPool`, and the two above | partly: no health probes, statistics, status lines |
| Reasoning loop | `AgentTurn` | modelled |
| Session coordinator and bridge | `EventFeed` | partly: not the coordinator's messages, which only its own command line reads |
| Fetch lane | `FetchLane` | modelled |
| Verified downloads | `Downloader` | partly: not the side file a hash may come from |
| Research lane | `ResearchLane` | partly: not the registries of tasks and slots, not the page builder |
| Security data and controls | `CveIntel`, `SecurityDesk` | partly: not the checks of the host |
| MCP client and proxies | `StdioProxy`, `McpSessions` | partly: not what a proxy answers of itself, nor a server that closes its input and lives on |
| Browser lane | `BrowserLane` | partly: not what a page does, nor the second way to its text |
| Console window | `ConsoleWindow` | partly: not layout and themes, nor what nothing calls |
| Doctor and configuration | `ConfigFiles` | partly: not the checks that only look |
| Scheduler UI; daemon panels and configuration commands; retry and circuit breaker; answer checks; observability; command line and hooks; documents, knowledge base and display; installer, tools and scripts | | not modelled (section 7) |

Proofs: `PromptQueue_proofs`, `SchedulerStore_proofs`, `Daemon_proofs`,
`MemoryAppend_proofs`, `Workflow_proofs`, `OverseerQueue_proofs`, `Lanes_proofs`,
`Parts_proofs`.

`MCPromptQueue` and `MCSchedulerStore` give one module its values for TLC.
`MCServices`, `MCParts`, `MCLanes` and `MCTools` put several parts that share no
state beside each other: an initial choice says which of them runs, the others
stay as they are, and each property is about the part that bears its name. Such
a run is as good as one for every part, and is only shorter to write down. Where
parts do meet they are in one part: the reaper and the claims, the turn of the
model and the registry of its tools, the overseer's queue and the store's task
it fires, both proxies and the server behind them.

Names ending in `_Something` (`Acquire_NoLock`, `Waited_NoKill`) are mutated
forms of the definition before the underscore. No specification uses them; they
show that each property notices a plausible mistake in the code it is about.

Common to all modules: an action is as much of a handler as no other actor can
see the middle of. A call that only computes is one step; each access to a shared
file or socket is a step of its own. Text, wording, logging and times of day are
left out. Counters called `Max...` bound the runs and nothing in the code.

## 3. The modules

### Prompt queue

`PromptConflict` is `_directive` and `_conflict_between`: when a part of a prompt
contradicts an earlier one. `PromptQueueOps` has the operations on one list: the
next id, the item a revision supersedes, marking. `PromptQueueSpec` is the promise:
one list, changed in one step by each operation, and archives that stay.

`PromptQueue` is how the code keeps it. Path names lead to inodes, since an open
descriptor follows its inode through a rename:

| Code | Model |
|---|---|
| `_locked` | `Acquire`, `Unlock`; only submit, done and drop take it |
| `_load`, `_archive_corrupt` | `LookUp`, `LoadNothing`, `Load`, `LoadCorrupt`, `ArchiveCorrupt` |
| submit's loop over the parts | `StartLoop`, `ConsiderPart`, `LinkSuperseded` |
| `mark_done`, `drop` | `MarkItem` |
| `clear` | `ArchiveCleared`, then a save |
| `_save`: open the temporary file, write, rename | `Open`, `Write`, `Replace` |
| death of a session, which frees the lock | `Crash` |

Two sessions that write the same inode leave a list or a torn file; a write to an
inode that was renamed goes where the name went. `AtomicQueue` says the module
implements `PromptQueueSpec` with the queue file's content as the list: each
locked cycle takes effect at its rename.

### Scheduler store

`SchedulerLog` has tasks and events and the different readings of one event: in memory
(`Changed`, `Written`), by `_rebuild_snapshot` (`Rebuilt`), by the recovery's
replay (`Replayed`), with the repairs of `reconcile` (`Reconciled`) and of the
recovery (`Repaired`, `Settled`). They are not the same function: replay gives
pause, cancel and archive no effect, for instance.

`SchedulerStore` has the processes. A process opens a store (which reads the
snapshot once), changes its copy, and then takes the steps of `_write` in order:
lock (tried once), append the event, count it in the state file, save the whole
copy, release. Maintenance (`ClearTestTasks`, `Reconcile`, `Recover`, `Settle`)
saves without the lock. `Crash` forgets the copy and frees the lock.

### Control server and daemon

`ControlServer` follows a connection through its phases: queued by the kernel,
accepted, given a slot or shed, read with a deadline, handled, answered, closed.
The thread that accepts is an actor of its own, and so is each worker and each
client, who may stall, send part of a line, rubbish, or hang up. A thread may fail
to start after its slot was taken (`StartFails`).

`DaemonSessions` has the claims and the processes they name. Processes are born
with any parent, die, are re-parented, and their pids are used again. The lock of
`_handle` makes a request one step, except for the count in the answer of a
session-start, which is taken again after the lock was given back (`LiveSessions`).
The programs that have sessions (`Program`) end them from any process, with the claim
id or without, again, or without having begun one. The last is what the launcher does:
`bin/cortexagent` sends a session-end without an id when it ends, and nothing in the
repository sends a session-start. `unclear` counts the requests after which nobody can
say whose claim was meant: an end that had no session, or did not name the claim while
the caller's processes had another one or none; and a start under the pid of a claim
somebody still holds. `SessionReset` was the watchdog's, which is retired.
`ModelReaper` extends it with the thread that stops the idle model server. A round
looks, one after the other, at the claims, for the terminal interface and for a
request in work (`LookAtClaims`, `LookForTui`, `LookAtSlot`); after as many quiet
rounds as the idle time has it looks again, though not at the claims, and signals
the model (`StopModel`), which it kills after 15 seconds if it is still the same
(`Waited`). An error of `pgrep` there ends the thread (`WaitFails`).

`DaemonLife` has the commands start, run and stop and the daemons they make: each
looks at the pid file (`Look`) and acts on what it saw; a daemon takes the socket's
path for its own and clears pid file and path away when it ends, whosever they are
by then (`Bind`, `ClearPath`, `Leave`). Daemons are signalled and killed, and the
pid of a dead one may go to another program.

Server and claims are one program: `Handle` of the first stands for any request of
the second. They are checked apart, as no property of one depends on the other: the
server promises that a handler runs at most once per connection and comes back.

### Memory

`MemoryAppend` has the clients' threads (`Connect`, `Send`, `Receive`, `GiveUp`,
`Direct`, `DirectSync`), the daemons from their single-instance check to their death,
other connections that send nothing, and the file: pieces of lines, of which a
crash keeps any prefix that is at least as long as what was synced. A line is two
pieces, so that a write can be cut short and another line can get in between.

`MemoryFiles` has the hot and the cold file with those who append, tear a row,
clear and read: `Measure` takes the size, `TakeTail` opens, seeks and parses, while
the file changes in between; the reference is `LastOf` the rows that are in the file.
`WarmCopy` is the copy the overseer's tick keeps of a hot file, by the lengths of
the two (`Measure`, `ReadGap`, `AppendGap`), byte by byte at a row's ends.
`ColdDistiller` has the distillers, which share a file of facts seen (`Load`,
`Scan`, `WriteFact`, `BeginSave`, `EndSave`). `MemoryDb` has the database's
migration by every process that opens it (`Look`, `Count`, `Drop`, `Make`) and the
message that is added meanwhile (`InsertHot`, `Mirror`, `InsertCheckpoint`).

### Workflow and overseer

`DagScheduler` has the plans `decompose` can make (all eight), the topological
sort and the cutting into batches. `Workflow` has the executors: the engine, which
makes a plan and executes it batch by batch, and the overseer's threads, which
load the saved plan, execute up to two ready tasks and save the plan as they have
it. Executing a task takes time (`Begin`, `End`); a save empties the file first
(`OpenFile`) and then writes (`Write`); `Clear` unlinks the file under all of them;
`Die` ends an engine, a thread or the whole overseer.

`OverseerQueue` has the task queue, a JSON file that three kinds of actors load,
change and save as a whole: the tick (`CleanUp`, `Fire`, `MarkFired`, `Dispatch`,
`TakeNext`, `Execute`, `QueueDone`, `Report`), the workers (`Claim`,
`WorkerExecute`, `Settle`) and the command line (`AddTask`, `RemoveTask`,
`ClearQueue`, and the clean-up by hand, `CleanUpByHand`). A save has two halves
(`Saving`, `EndSave`) because of the one temporary file. A run that raises in a worker
leaves its entry as it is (`WorkerRaises`), one in the schedules ends the tick
(`TickFails`). The overseer stops, drains, is killed and starts again. Of the
scheduler's store one task is there, which a tick fires and reports.

`Timetable` has the schedules and the plan: what the commands make of them and what
a tick finds due, for the schedules in the old file and for those in the store. A
command and a tick have a copy each, which they save whole; a tick has one for all its
entries. `stale` is what another has changed of it since, `disturbed` what was saved
over that way.
`WorkerPool` has the threads of the pool, their records and the check of their
heartbeats.

### Reasoning loop

`AgentTurn` is a task a model works on. The registry is a part of the module: the
tools by what registers them, in the order of registration, with those a call can
change something by (`Performing`) and those that only answer (`Answering`). The
loop: what the model says (`AnswerDirect`, `AnswerText`, `AnswerCalls`), in one of
the forms the parsers know (`Form`, `NameIn`); the call (`Take`, `Unknown`,
`Refused`, `Ran`, `Left`, `TimedOut`, `LateEnd`); the end of a step, the retry of the
whole turn, the gate. What the model says and what a tool does is chosen freely.

### Feeds, files and pages from elsewhere

`EventFeed` has the session bridge file and its writers, the thread that follows it,
the thread that compares states, and the thread that greets clients: the snapshot,
then the ring and the registration under one lock.

`FetchLane` has the runs of one download: the checksum, the size, aria2c or a stream
that resumes, the end of a body that comes too soon, the check, the rename; the
remote file changes, the process dies. A file is a sequence of chunks, each of a
version. `Downloader` has the other downloader: a part file for each worker, merged
in order, or one stream; the hash; the manifest that several downloads rewrite.

`CveIntel` has the polls of four feeds as processes: `Ask` reads the file and drops
what is in it, `WriteEntry` and `WriteRest` append the rest in pieces, and a poll
dies between any two; the playbooks act on what is recent (`Recent`, `Act`), and an
entry is critical if CISA lists it or NVD rates it 9.0 or more (`Rated`).
`ResearchLane` has the two ladders, of search backends and of ways to a page, with what
each drops on its own account. A host is a sequence of labels; `Domain` is what
`_domain` makes of it, the last two labels and the port, and `IsOne` whether that is on
a list.

### Windows and other programs

`SecurityDesk` is the tracker's window, which merges three stores of alerts, and the
firewall's helper, whose state file the window rewrites from a copy; a refresh may
raise before it has set the status line or in the middle of the cards. `BrowserLane`
is the connection all threads share: the driver, started under a lock, the link, a
cache of tabs kept without one, the idle reaper. `ConsoleWindow` has the windows with
the record of the open one, and the pane that reads snapshot and log while the store
writes them. `ConfigFiles` has the two files doctor and launcher render, with the
copies each makes.

`StdioProxy` has both proxies around one server that is late, says something
nobody asked for or nobody can use (`Raises`), or ends. `McpSessions` has the sessions
several threads share under a server's name, found and taken in two steps (`Begin`,
`Take`) and closed together while others take them (`CloseAll`, `ForgetAll`).

## 4. The runs

Twelve runs; each property of a passing run also has a mutant that violates it.

| Run | Question | Instance |
|---|---|---|
| `queue` | Is the locked queue atomic, and does every call return? | two sessions, four calls, one death; a clear has a second of its own (`QuietSpec`) |
| `queue_race` | What survives the unlocked `clear`? And, beside it: the schedules and the plan, the console, the downloads, the polls, the configuration files | four calls, two seconds; three names in two minutes; three consoles; two downloads and one of another file; two polls of two entries; two of the doctors and launches at once |
| `queue_lost` | Does the lock cover every cycle? *(violated)* | two sessions, three calls |
| `store_recover` | Does recovery find everything, whatever came before? | one process, three events, two maintenance runs, one death |
| `services` | Are clients served, slots kept, the idle model stopped, tasks taken, appends and drivers ended? | two connections, one slot, TCP; one pid, two programs and the reaper, one unclear request; two tasks and a command line; two appends, a guest, a disk of two or three pieces; two callers and one tab |
| `parts` | Do claims, daemons, the overseer's queue, copies, proxies, windows keep their promises? | two pids and an anonymous caller, two programs, one unclear request; two terminals, two daemons; two tasks and a worker or a command line; rows of two and three bytes; two distillers, three runs; two calls, one stray line; two threads, three sessions; four rows, a window of five pieces; two alerts; two tabs, two drivers, three uses |
| `sessions_sid` | Does a session-end take only the claim it names? *(violated)* | three pids |
| `lanes` | Is what is stored, reported, shown, fetched, found or saved what it is said to be? | two appends, two memory daemons, a crash; two steps of the model; two viewers, three events; three chunks, two versions; two searches, two pages of seven addresses; three messages, two processes at the database; two processes at the scheduler's store |
| `memory_full` | Is an acknowledged line in the file? *(violated)* | two appends, room for three pieces |
| `workflow` | What do overlapping executors do to a plan? | one engine, two threads, the website plan, one death, clear |
| `agent_native` | Does a call the model makes reach its tool? *(violated)* | three tools, two steps |
| `pool_replaces` | Are workers that were replaced dead? *(violated)* | three workers |

What the properties say, apart from the types (`PartsTypeOK`, `LanesTypeOK`: the type
of whichever part runs):

- **Prompt queue.** `SubmittedItemsKept`: an item submit reported is in the queue or
  an archive. `IdsIdentify`: one id, one item. `ListsAreConsistent`: a superseded
  item points at a later item, and no two at the same (`SupersededByLater`); no two
  live items contradict each other, if no prompt contradicts itself
  (`LiveItemsAgree`). `AtomicQueue`: the refinement. `CallsReturn`: every call
  returns though the lock's holder dies. `ClearsCostOneArchive`: a clear
  that no other call runs beside costs nothing but the archive of an earlier clear in
  the same second (archives are named by the second), and every other item a submit
  ever reported is in the queue or an archive. What a clear costs that runs beside
  another call is in `queue_lost`.
- **Scheduler store.** `StoreIsOrdered`: until somebody maintains the store, every
  version in the snapshot is in the log (`WriteAhead`), and no increment is lost
  under the lock (`GenerationCounts`). `SnapshotIsExplained`: the snapshot says what a
  rebuild from the log would say, as long as nobody died and nobody maintained, and
  of two tasks with one idempotency key the creator of one died between its event and
  its save (`KeysIdentify`). `RecoveryRepeats`:
  recovering again changes nothing. `RecoveryFindsAll`: with one process at the store,
  every task ever created is there after a recovery.
- **Control server.** `SlotsAccounted`: free slots and busy connections add up.
  `HandledWasAllowed`: over TCP only a request with the token and a permitted
  command is handled. `WaitingClientsAnswered`: who waits gets an answer.
  `ConnectionsEnd`: every connection ends, though clients stall.
- **Daemon.** `OpenSessionsClaimed`: the open sessions without a claim are at most as
  many as the requests that did not tell whose claim they meant; so if every program
  names its claim or is known by its processes, an open session has its claim.
  `DeadClaimsPruned`: a claim of dead processes goes, or one of its pids revives.
  `OneDaemonInReach`: as long as commands take turns and wait for what went before, no
  second daemon serves beside the first, and when all is quiet the one there is can be
  reached, whatever daemon was killed. `SeenSessionsKeepTheModel`: the reaper stops the
  model only under sessions that began after it had looked, and under as many others as
  there were such requests. `IdleModelStopped`: if nothing happens the model ends,
  unless the reaper's thread has ended.
- **Memory.** `StoredWhole`: what append returned is there in one piece and a crash
  does not take it. `AppendsEnd`: every append ends, on a full disk and beside a
  connection that is never closed. `StoresAreSound`: a line is in the file once, or
  as often as a timeout or a failed write accounts for (`CopiesExplained`); in the
  database a row is lost only to a process that was opening it, every line and every
  checkpoint repeats a row, and a session resumes with the newest command
  (`MemoryDbIsSound`); and `StoreIsOrdered` again, of two processes. `CopiesFollow`:
  the warm copy has the rows of a hot file that only grows (`WarmFollowsHot`), a fact
  is in the cold table once but for deaths and overlaps (`FactsOnce`), and a reader
  gets the newest rows there were (`ReadsNewest`).
- **Workflow.** `StartedAfterDependencies`: nobody begins a task before all it
  depends on was completed, by whomever. `FileTellsTrue`: what the file has as
  completed was completed, together with all it depends on; this survives lost
  updates because every save is of a whole plan that was itself consistent.
  `RepeatedOnlyIfDisturbed`: a task runs twice only if executors overlapped or one
  died. `PlansSettle`: the overseer comes to an end with a plan even if stale saves
  keep undoing work, since each save is ahead of what its thread had loaded.
- **Overseer.** `QueueTellsTrue`: what the queue has as finished was executed; a queue
  nobody disturbed is exact: no added task is missing that was not taken out, none is
  executed twice, and what it calls running is run, or was when the overseer was
  stopped, or its run in a worker has raised;
  the store's task is fired once and reported as it ended. `QueuedTasksTaken`: a
  queued task is executed or removed. `TimetableIsKept`: an entry fires once in its
  minute, none that is due is forgotten, edits last and plans count their steps, but
  for the entries that somebody saved an outdated copy of: of those a save may undo
  the note that they fired, and they fire again.
- **Reasoning loop.** `CallsReportedTruly`: a tool the model is told succeeded has run
  and done what it does, at most as often as it was asked for; a disabled one never
  runs; results bear their mark of trust.
- **From elsewhere.** `PublishedIsRemote`: a file with a checksum is published only
  whole and as the server had it. `AnswersAreSound`: a viewer gets every event
  once and in order, but for lines read half-written (`FeedIsComplete`); and a page of
  an excluded host gets into an answer, by whichever rung, only if the host is listed
  with three labels or the address names a port, which `_domain` does not recognise, or
  if another page redirects to it (`ResearchIsSound`).
  `IntelIsComplete`: entries a poll reported are in the file, but for the lines a dead
  poll left torn, the playbooks always take an entry for the same, and for critical only
  what CISA lists or NVD rates so. `CallsRelayedTruly`: what comes back is the answer to its call,
  unless the server writes out of turn; children end; a session that was given up on
  is not used again.
- **Windows and tools.** `WindowsAreSound`: after a refresh that raised nothing the
  cards are those of the alerts counted, and no command to the helper is passed over;
  every driver ever started is the one in use or has ended, or is the one being started,
  and a list of tabs does not bring back a closed one, unless it was made across the
  closing. `UnusedDriverEnds`: the process of a driver ends once the browser is unused,
  unless its stop raised: then it is forgotten and lives on. `ToolsAreSound`: the
  console's record and its pane tell what was so (`ConsoleIsSound`), a file called
  verified is one whole version (`DownloadsAreSound`), a repair of the configuration
  holds, keeps what it does not own, and was preceded by a copy (`ConfigIsKept`).

**Why the bounds are enough.** The hazards are pairs: two writers, a writer and a
death, a request and a timeout. Two processes give every pair; two pids give a
process and its parent, and two programs a session and another that ends it, with one
request that leaves open whose. Three events give create, change and
a change after it; two tasks give one that is touched and one that must not be. One
slot for two connections makes the server shed. A backlog of two with two messages and
a guest makes it overflow. One death is enough for the crash properties, as each
speaks of the state the death leaves and recovery is itself checked to repeat. The
website plan is the one with tasks side by side, a task of an unknown engine that
takes a place among the two, and a batch boundary at each task. Rows of different
lengths, and a window that ends within one, make the readers meet every border. Three
chunks give a first, a middle and a last one. Where a theorem of section 5 states a
property, the bounds matter only for finding mistakes early.

**Fairness.** `PromptQueue`: a session that can step does (weak), and the lock goes
round (strong fairness of `Acquire`: `flock` serves its waiters in order).
`ControlServer`: the accepting thread and the workers run, the deadline of a request
passes; nothing is assumed of clients. `DaemonSessions`, `ModelReaper`: the pruner's
and the reaper's loops go on. `OverseerQueue`: the tick goes on and an overseer that
is down is started again. `MemoryAppend`: appending threads run and their timeouts
expire; nothing is assumed of daemons or guests. `Workflow`: executors go on, since
commands and requests have timeouts; the overseer ticks on. `BrowserLane`: callers go
on, an unused browser comes to be unused for long, and the reaper wakes. A deadlock check is off where the system may rest: all
calls done, nothing submitted.

**Symmetry** is used in runs without liveness only: of polls; of daemons,
callers and commands; of messages, daemons and processes.

## 5. The proofs

Each theorem holds for any number of processes, messages, tasks and slots and for
any value of the bounds, under the module's named assumptions on its constants (that
null values are not members, that some sets are finite). What else a theorem needs is
said in its statement and here. TLC has checked every inductive invariant, or the
conjuncts it is made of, on an instance first.

Most properties are not inductive as they stand. The strengthening says, as a rule,
what each actor may have in its hands at each of its steps, and why.

**`PromptQueue_proofs`.** `PromptQueueTyped`. `IdsAlwaysIdentify`: a submit numbers
its items from the largest id of the list in its memory, so the invariant
`NumberedInv` says that in every list, on disk or in memory, the item at place i has
id i. It is closed under appending with `NextId` (`NextIdIsNext`), marking and
linking, and says nothing about who holds the lock, which is why it survives the
unlocked clear. `ListsStayConsistent`: `StoryInv` says of every list, in memory and in
files, that its links lead on, and follows submit's loop part by part (`SessionsTold`,
`FilesTold`). `SubmittedItemsStay`: as long as no session clears (`Clearer = {}`),
`SubmittedItemsKept`. Its invariant `DurableInv` says that whoever saves holds the lock
(`HoldersLock`), that the temporary file is then its own (`TmpOwned`), that the queue
file is whole (`QueueWhole`) and that the list being saved contains the list in the
file (`Carried`). `QueueIsAtomic`, the refinement `AtomicQueue` under the same
hypothesis: the rename is one submit or mark of the abstract list and every other
step a stutter; `AtomicInv` relates a running submit's list, part by part, to the
parts that contradict no live item of the list in the file. `ConflictIsSymmetric` and
`PlainOppositesConflict` are about the conflict rule, for all parts and any reading of
"one role contains the other". The last needs both mechanisms of the code: two pairs of
the table of exclusive verbs are never found, because they are looked up sorted and
stored unsorted; the polarities of the verbs make up for it.

**`SchedulerStore_proofs`.** `StoreKeepsOrder`: `StoreIsOrdered`, which speaks of a
store nobody has maintained, for any number of processes and tasks and deaths at any
step. `StoreInv` says what the copy of each process may be at each step of a write:
its versions are in the log, or are the one it is about to log.

**`Daemon_proofs`.** The control server: `EverySlotAccounted`, `ControlTyped`,
`OnlyAllowedRequestsHandled`, `WaitersAnswered`. The count of busy connections changes
by one when one connection changes its phase (`EnterCounts`); the invariant adds that a
connection is in the kernel's queue once and only in the phase "queued"
(`QueuedOnce`), without which accepting could count one twice. The claims:
`OpenSessionsKeepTheirClaims`, of any programs. `ClaimsInv` says that the processes of
an open session live (`LivingInv`), that the claim it holds names them or names nobody
(`HeldInv`), so that the pruner keeps it, and that of two claims one is older
(`OrderInv`), so that a request takes at most one; then a request that tells whose claim
it means takes no other, and one that does not adds one to `unclear` and to the sessions
without a claim at most one. The reaper beside them: `SeenSessionsAlwaysKeepTheModel`;
`ReaperInv` adds to `ClaimsInv` that a round past its look at the claims has found
none, so that who was open then had lost its claim, and all others began since. The life
cycle: `LifeTyped`, `OneDaemonAtATime`; `LifeInv` says, of behaviours in which commands
took turns, whose the pid file and the path are at every step of a command and of a
daemon (`Orderly`), also where the pid in the file is another program's by now.

**`MemoryAppend_proofs`.** `MemoryTyped`. `ReturnedIsStoredWhole`: where the disk
does not fill, `StoredWhole`. The invariant says that whoever is going to say "stored"
(the daemon before its answer, the answer on its way, the thread before it returns)
says it of a line that is whole, and after the fsync of one that is safe.
`CopiesAlwaysExplained`, on a disk that fills as well: a line is in the file once, or
more often by as many as failed first attempts and untold clients account for. Its
invariant counts: copies in the file and copies that may yet be written.
`DatabaseAlwaysSound`: `MemoryDbIsSound`, for any number of processes that open the
database and add messages. `DbInv` says that whoever is about to drop a table has
counted no row of the older schema in it and was opening the file when every newer row
was made (`DroppersKnown`), that a message is added by one process at a time
(`AddedOnce`), and that the newest checkpoint was added before none of the others began
(`MarksOrdered`). `StoresAlwaysSound` is `StoresAreSound` of the lanes together: each
step of theirs is one of appending, of the database or of the scheduler's store, or
leaves it alone; for the last, `SchedulerStore_proofs` is instantiated with the
parameters of the lanes (`SameStore`).

**`Workflow_proofs`.** `DependenciesFirst`, `FileIsTrue`, `OnceUnlessDisturbed`, for
any number of executors, any dispatch limit and deaths at any step, of each of the
plans there are. `TruthInv` says of every plan, in the file, half-written or in an
executor's hands, that what it has as completed was completed with all it depends
on; `OnceInv` adds whose the plan is while nobody overlapped. What the recursive
schedule of each of the eight plans is, is a closed formula
(`ScheduleAssumption`, `ChoiceAssumption`) that the module assumes and TLC evaluates.

**`OverseerQueue_proofs`.** `QueueTyped`, `QueueAlwaysTellsTrue`: `QueueTellsTrue`, for
any number of tasks, workers, command lines, removals, stops and deaths. `ShapeInv` says
what the list in an actor's hands can be at every stage, `HonestInv` that what any list
has as finished was executed, `FiredInv` follows the store's task from firing to report,
and `ExactInv`, while no save was outdated or robbed, that file, hands and executions
agree entry by entry, but for those whose run in a worker has raised.

**`Lanes_proofs`.** `TurnTyped`, `CallsAreReportedTruly`, for any choice of registered
and of disabled tools: what was told is covered by runs, what ran by requests, for
each tool (`CallsCovered`). `FetchTyped`, `PublishedFilesAreRemote`: the partial file is
made of chunks of versions the server had, and what was verified is whole
(`PartialInv`). `IntelTyped`, `IntelAlwaysComplete`: for polls that do not overlap,
which entries the file, the one poll at work and the torn lines account for
(`IntelInv`).

**`Parts_proofs`.** `FactsAlwaysOnce`: the copies of a fact, and the distillers that
may yet write it, are at most one more than the disturbed runs.
`CallsAlwaysRelayedTruly`, of proxies and client at once: while the server is in step
what it has to say is the answer to what was asked (`InStep`), a child lives only in a
call or after a failed handshake (`ChildInv`), and the session a caller opened is its
own until it is kept (`OpenerInv`).
The windows, as parts of the composition `PartsSpec`: `WindowsAlwaysSound`, since a step
of either window is a step of its own module and every other step leaves it alone
(`WindowsStep`). `DeskInv` says that what lies behind the helper, in the state file
and in the window's copy of it, has been tried (`Tried`), and that of the alerts no
more than fit have fewer than that many above them (`FewAreMerged`). For the browser,
`LinkInv`: who connects has the lock and a driver; `TabsInv`: no closed tab, and none
that is about to be reported closed, is among the tabs, and a list that is kept, told or
about to be kept shows a closed tab only if it was closed across the making of a list.

**What is left to TLC, and why.**

- Liveness, all of it: the properties under fairness need ENABLED, which the prover
  does not have.
- What a recursive definition computes for every input. The recovery folds over the
  log, so `RecoveryRepeats`, `RecoveryFindsAll`, `SnapshotIsExplained` need induction over
  the log; the library's induction theorems take an operator as a parameter, which no
  installed prover can instantiate.
- What is filtered or sorted out of a sequence (`SelectSeq`, `SetToSortSeq`): the
  schedules of `Timetable`, the lines of `FeedIsComplete`, the rows of `ReadsNewest`.
- `ClearsCostOneArchive`, whose memory of overlapping calls is in `MCTools`.
  `ToolsAreSound` (but for its type of the
  intel file, `IntelTyped`), `CopiesFollow` and `AnswersAreSound` are proved in part or not yet
  (section 8).

## 6. Where the code and its words differ

Shown by a run:

1. **`clear` takes no lock** (`queue_lost`, `lib/prompt_queue.py:366`). The docstring
   of `_locked` speaks of "every read-modify-write cycle"; an item submitted while
   another session clears can end in neither the queue nor an archive.
2. **A session-end can take another session's claim** (`sessions_sid`,
   `lib/daemon.py:331`). The comment says a session-end targets "that exact claim"; if the
   claim has been pruned meanwhile, the request falls through to the oldest claim.
3. **The daemon acknowledges a line it did not write** (`memory_full`,
   `lib/memory_daemon.py:76`). The result of `os.write` is not looked at; the client's
   docstring promises that memory is never lost.
4. **A call of the model can lose its name** (`agent_native`, `lib/overseer.py:423`).
   Of two forms of a call the parsers make records without the field the loop reads,
   though the comment at 463-464 says they are "function-wrapped".
5. **A worker that is replaced is not dead** (`pool_replaces`, `lib/overseer.py:2316`).
   Heartbeats come only with tasks; an idle worker is replaced, reported as dead, and
   runs on.

Met while modelling, without a run of their own:

- *Prompt queue, scheduler.* Archives are named by the second and can replace each
  other (`prompt_queue.py:369`). The recovery's replay re-enables paused and canceled
  tasks. The overseer reports "completed", a state the store does not know and
  `reconcile` sets back.
- *Daemon.* The launcher ends its session without a claim id and without ever having
  begun one, from a child of its own (`bin/cortexagent:79-80`): the daemon takes the
  oldest claim of whatever session (`daemon.py:330`), though the comment above says
  "overlapping sessions must not pop each other's claims". An error of `pgrep` after the
  model was told to end stops the reaper for good.
- *Workflow.* The overseer's threads execute tasks twice when they overlap, undo each
  other's saves and leave tasks of engines other than the model's and the shell's
  pending for good; a death between emptying and writing the file loses the plan.
- *Overseer's queue and schedules.* Two tasks may get one id (same second and, after a
  removal, same length, `overseer.py:1019`); a worker then settles the first entry with
  that id, and its own stays "running". Recurring tasks of the store fire once, or again when
  a save of an outdated copy undoes the note that they did. A
  malformed value ends every tick before the queue is looked at. A task whose run raises
  in a worker stays "running" in the file (`overseer.py:2285`). `schedule_remove`
  cancels the first title that contains the name, canceled ones included. In a cron
  field 7 never matches and "1,3-5" raises. A plan step's number may jump back.
- *Memory.* Two memory daemons pass the single-instance check at once; a request that is
  JSON but no object ends the daemon. Two processes that open an old, empty database
  together can drop each other's new table with its rows. A failure of the mirror
  raises after the commit, so that there is no checkpoint. After `memory_clear` the warm
  copy stops until the hot file has outgrown it. `memory_thin.search` compares text with
  bytes. The agent's `memory_clear` leaves the markdown file, and says "cleared" of a
  tier it does not know.
- *Reasoning loop.* The set of calls seen is never filled, so "loop" is never reported.
  The converted tools of one adapter import a name that is not there and are skipped.
  Converted tools keep their parameters where `execute_tool` does not look for required
  ones. `cve_poll_now` reports success though its cold write failed.
- *Security.* An unusable answer of the KEV feed is cached as an empty list for six
  hours; entries of OSV alone never get its mark. A character cut by a dead poll makes every
  later poll and reader raise. The playbooks append text lines to the file of JSON
  commands. The window adds a card per alert at every refresh; its pause button has no
  effect.
- *Fetch and downloads.* A complete partial file with the wrong content is taken as it
  is by every later run, so the "next corrected download" of the comment at
  `actions/fetch.py:151` never starts over. The other downloader reuses part files of
  another version or number of workers, takes a short body where there is no hash, and
  a second download empties a verified file while the manifest still calls it verified.
- *Research, feed.* A single search backend does not drop duplicates, though the
  server's description says so; hosts of three labels on the list of exclusions never
  match, nor does any that is named with its port (`pipeline.py:426-431`), and where a
  page redirects to is not looked at. A line that is read half-written is never shown.
- *Proxies, browser.* A silent server blocks the lazy proxy for good. After a failed
  first connection the browser's driver is never reaped, and one whose stop raises is
  forgotten and lives on, though the reaper's comment says that closing reaps it
  (`browser_control.py:119-122`, 301). Closing the pipe to a server that has closed its
  input may raise, and then the firecrawl proxy does not end it. An id of no tab means the first
  tab, so closing a stale id closes that one. The guard looks for a name the controller
  does not have.
- *Console, configuration.* The recorded window is not looked for, so that a second
  console opens beside it, and one that closes marks another's record closed. Doctor
  and launcher render one file in two ways, and each takes the other's for drift;
  `doctor --fix` takes the shim away that the launcher puts in front of the servers.
  The launcher drops servers of the user.
- *Retry and breaker.* `retry` with no attempts left trips its own assertion; the
  breaker does not open again after a failed trial.

## 7. What is not modelled, and why

- **Text.** What a prompt, a task, a page or a result says, except for what is decided
  by it; parsing, formatting, display, charts, reports. The answer checks are patterns
  over text, with a cache.
- **Other programs.** The model server, browsers, search engines, SQLite, MCP servers
  and the firewall's helper behave as the code's use of them shows, or not at all.
- **Files as bytes.** A document is whole, empty or torn; a line or a row is two or
  three pieces. Names of files, permissions and directories are left out.
- **Write errors of the small state files.** Where an exception there ends the call
  the modules have deaths at every step instead, which leave the same files; where the
  code catches it (warm copy, manifest, configuration copies, intel) it is an action or an
  outcome of one.
- **Commands that die.** `DaemonLife` has daemons that are killed, and commands that run
  to their end: one that dies between launching a daemon and writing its pid leaves a
  daemon that no pid file names.
- **Restarts of the daemon** and its claims: `DaemonSessions` is one life of it, as
  claims are in memory; `DaemonLife` has many lives and no claims.
- **Retry and circuit breaker.** A small state machine that nothing but its own smoke
  test opens.
- **Without state others depend on.** The scheduler's UI, panels, statistics, logs,
  token counts, heartbeat files, profiles, documents and their index, installer,
  scripts. The hooks and the command line are the callers: their calls are the inputs
  of the models.

## 8. What is left to do

Proofs, in the order of what they would say: `WarmFollowsHot`, `PaneShowsTruth` and `RecordIsTrue` of the console; `RepairHolds` and `OthersKept` of the configuration; `VerifiedIsWhole` of the
downloads. `Timetable`, `EventFeed` and `MemoryFiles` would first have to be written
without filters and sorting.

Models: the coordinator's messages once something reads them; the breaker once
something opens it; deletion of the scheduler's files.

When a component is added, it joins the `MC` module whose run has time left, as a part
of its own or beside what it meets.
