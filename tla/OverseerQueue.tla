----------------------------- MODULE OverseerQueue ----------------------------
(***************************************************************************)
(* The task queue of the overseer (lib/overseer.py): a JSON file that the  *)
(* tick thread, the worker threads and the command line load, change and   *)
(* save as a whole, without a lock between them. The tick turns due tasks  *)
(* of the scheduler's store into queued ones, runs the tasks it finds      *)
(* queued, and reports those of the store; a worker runs one after the     *)
(* other; the command line adds, removes, clears and cleans up. The        *)
(* overseer is stopped, or dies, and is started again.                     *)
(***************************************************************************)
EXTENDS Integers, Sequences, FiniteSetsExt

CONSTANTS
  Tick,                \* the thread of _daemon_loop
  Pool,                \* the threads of the worker pool
  Cli,                 \* command line processes, each runs one command
  Crews,               \* the sets of these that a run may have
  MaxTasks,            \* bound on tasks ever created
  MaxStops,            \* bound on stops and deaths of the overseer
  DrainLimit,          \* a stopping dispatcher leaves more than this many: 5
  KeepFirst,           \* _cleanup_queue keeps this many, however old: 10
  Unreadable           \* the file when it is no JSON

Actor == {Tick} \cup Pool \cup Cli
Task == 1..MaxTasks
Status == {"queued", "running", "completed", "succeeded", "failed"}
Finished == {"completed", "succeeded", "failed"}
Entry == [task : Task, status : Status]

ASSUME QueueConstants ==
  /\ Tick \notin Pool \cup Cli /\ Pool \cap Cli = {}
  /\ {MaxTasks, MaxStops, DrainLimit, KeepFirst} \subseteq Nat
  /\ Unreadable \notin Seq(Entry)

VARIABLES
  crew,                \* the workers and command lines of this run
  file,                \* what is in overseer_queue.json
  copy,                \* the list every actor has in its hands
  stage,               \* what every actor is about to do
  job,                 \* the position, in the own copy, of the task in work
  todo,                \* the positions _process_queue has yet to go through
  robbed,              \* the savers whose temporary file another has renamed
  made,                \* number of tasks created so far
  ids,                 \* the id of every task
  due,                 \* the state of the scheduler's task
  fired,               \* the queue tasks made for it
  ran,                 \* how often every task has been executed: never, once, more
  added, removed,      \* the tasks whose entry has been saved, and taken out on purpose,
                       \* as long as nothing was disturbed
  unmarked,            \* whether a task was queued and the store not told
  stopping, stops,     \* _SHUTDOWN, and the number of stops
  unsettled,           \* tasks whose run in a worker raised, as long as nothing was
                       \* disturbed and the overseer was not started again
  stale,               \* the actors whose copy another save has outdated
  disturbed            \* whether an outdated copy was saved, or saves overlapped

disk == <<file, robbed>>
hands == <<copy, stage, job, todo>>
births == <<made, ids, fired>>
history == <<ran, added, removed, stale, disturbed>>
store == <<due, unmarked>>
lives == <<stopping, stops, unsettled>>
queueVars == <<crew, disk, hands, births, history, store, lives>>

\* _load_json: a file that cannot be parsed is an empty queue.
Loaded == IF file = Unreadable THEN <<>> ELSE file

Positions(q, status) == {i \in DOMAIN q : q[i].status = status}
WithStatus(q, i, status) == [q EXCEPT ![i].status = status]

\* The entries of q at the positions in keep, in their order.
Place(keep, k) == CHOOSE i \in keep : Cardinality({j \in keep : j <= i}) = k
Sublist(q, keep) == [k \in 1..Cardinality(keep) |-> q[Place(keep, k)]]

Enter(a, s) == stage' = [stage EXCEPT ![a] = s]
Hold(a, q) == copy' = [copy EXCEPT ![a] = q]
Fresh(a) == stale' = stale \ {a}

\* The stages between opening the temporary file of _save_queue and its rename,
\* and what follows when that succeeds or, the file being gone, raises.
Saves == {"fire", "claim", "settle", "worker claim", "worker settle", "cleanup", "command"}
After(s, ok) ==
  CASE s = "fire" -> IF ok THEN "mark fired" ELSE "asleep"
    [] s = "claim" -> IF ok THEN "execute" ELSE "asleep"
    [] s = "settle" -> IF ok THEN "report" ELSE "asleep"
    [] s = "cleanup" -> IF ok THEN "schedule" ELSE "asleep"
    [] s = "worker claim" -> IF ok THEN "worker execute" ELSE "idle"
    [] s = "worker settle" -> "idle"
    [] s = "command" -> "done"

QueueInit ==
  /\ crew \in Crews
  /\ file = <<>>
  /\ robbed = {}
  /\ copy = [a \in Actor |-> <<>>]
  /\ stage = [a \in Actor |-> IF a \in Cli THEN "idle" ELSE "off"]
  /\ job = [a \in Actor |-> 0]
  /\ todo = {}
  /\ made = 0 /\ ids = <<>> /\ fired = {}
  /\ due = "scheduled" /\ unmarked = FALSE
  /\ ran = [t \in Task |-> 0]
  /\ added = {} /\ removed = {} /\ stale = {} /\ disturbed = FALSE
  /\ stopping = FALSE /\ stops = 0 /\ unsettled = {}

-------------------------------------------------------------------------------
\* _save_json: open the one temporary file, write, rename. Savers that have it
\* open together write into one file: what the first rename puts into place is
\* what one of them wrote, or no JSON. The others have nothing to rename, or the
\* file of one who came later, and what they still write goes into the queue.

Saving == {a \in Actor : stage[a] \in Saves}

\* The savers whose temporary file is the one at the path.
Sharing == Saving \ robbed

\* What the file may be afterwards, whether os.replace found a file, and the
\* savers left without one.
Outcome(a) ==
  IF a \notin robbed
  THEN {[file |-> f, ok |-> TRUE, robbed |-> robbed \cup (Sharing \ {a})] :
          f \in IF Sharing = {a} THEN {copy[a]}
                ELSE {copy[b] : b \in Sharing} \cup {Unreadable}}
  ELSE IF Sharing = {}
  THEN {[file |-> f, ok |-> FALSE, robbed |-> robbed \ {a}] : f \in {file, copy[a], Unreadable}}
  ELSE {[file |-> f, ok |-> TRUE, robbed |-> Saving \ {a}] :
          f \in {copy[b] : b \in Sharing} \cup {Unreadable}}

\* Actors that hold a list they are going to save.
Holding == Saving \cup {a \in {Tick} : stage[a] \in {"next", "execute", "report"}}

Tasks(q) == {q[i].task : i \in DOMAIN q}

EndSave(a) ==
  /\ a \in Saving
  /\ \E outcome \in Outcome(a) :
       LET next == After(stage[a], outcome.ok)
       IN /\ file' = outcome.file
          /\ robbed' = outcome.robbed
          /\ Enter(a, next)
          /\ IF next \in {"asleep", "idle", "done"}
               THEN Hold(a, <<>>) /\ job' = [job EXCEPT ![a] = 0] ELSE UNCHANGED <<copy, job>>
          /\ todo' = IF next = "asleep" THEN {} ELSE todo
          /\ unmarked' = (unmarked \/ (stage[a] = "fire" /\ ~outcome.ok))
  /\ disturbed' = (disturbed \/ Sharing # {a} \/ a \in stale)
  /\ IF disturbed' THEN added' = {} /\ removed' = {} /\ stale' = {} /\ unsettled' = {}
     ELSE /\ added' = added \cup Tasks(copy[a])
          /\ removed' = IF stage[a] \in {"command", "cleanup"}
                        THEN removed \cup (Tasks(Loaded) \ Tasks(copy[a])) ELSE removed
          /\ stale' = (stale \cup Holding) \ {a} /\ UNCHANGED unsettled
  /\ UNCHANGED <<crew, births, ran, due, stopping, stops>>

-------------------------------------------------------------------------------
\* queue_add: an id is made of the second, that of the last task or a later one,
\* and the length of the list.

NewTask(a) ==
  /\ made < MaxTasks
  /\ made' = made + 1
  /\ \E second \in IF made = 0 THEN {1} ELSE {ids[made][1], ids[made][1] + 1} :
       ids' = Append(ids, <<second, Len(Loaded)>>)
  /\ Hold(a, Append(Loaded, [task |-> made + 1, status |-> "queued"]))
  /\ Fresh(a)

\* The command line: queue add, remove, clear; cleanup and prune are further down.
AddTask(c) ==
  /\ c \in Cli \cap crew /\ stage[c] = "idle"
  /\ NewTask(c)
  /\ Enter(c, "command")
  /\ UNCHANGED <<crew, disk, job, todo, fired, ran, added, removed, disturbed, store, lives>>

RemoveTask(c) ==
  /\ c \in Cli \cap crew /\ stage[c] = "idle"
  /\ \E t \in 1..made : Hold(c, Sublist(Loaded, {i \in DOMAIN Loaded : ids[Loaded[i].task] # ids[t]}))
  /\ Fresh(c)
  /\ Enter(c, "command")
  /\ UNCHANGED <<crew, disk, job, todo, births, ran, added, removed, disturbed, store, lives>>

ClearQueue(c) ==
  /\ c \in Cli \cap crew /\ stage[c] = "idle"
  /\ Hold(c, <<>>)
  /\ Fresh(c)
  /\ Enter(c, "command")
  /\ UNCHANGED <<crew, disk, job, todo, births, ran, added, removed, disturbed, store, lives>>

-------------------------------------------------------------------------------
\* A tick of the daemon: now and then a clean-up, then the schedule, then the
\* queue. An exception ends the tick.

\* Finished entries older than an hour go, but for the first ones: these are kept, so
\* that behind them enough have been.
Thinned(q, old) ==
  Sublist(q, {i \in DOMAIN q : i \notin old \/ q[i].status \notin Finished \/ i <= KeepFirst})

CleanUpByHand(c) ==
  /\ c \in Cli \cap crew /\ stage[c] = "idle"
  /\ \E old \in SUBSET DOMAIN Loaded :
       /\ Thinned(Loaded, old) # Loaded
       /\ Hold(c, Thinned(Loaded, old))
  /\ Fresh(c)
  /\ Enter(c, "command")
  /\ UNCHANGED <<crew, disk, job, todo, births, ran, added, removed, disturbed, store, lives>>

\* A tick that has come to _check_schedule, after a clean-up or at once.
Ticks == stage[Tick] = "schedule" \/ (stage[Tick] = "asleep" /\ ~stopping)

CleanUp ==
  /\ stage[Tick] = "asleep" /\ ~stopping
  /\ \E old \in SUBSET DOMAIN Loaded :
       /\ Thinned(Loaded, old) # Loaded
       /\ Hold(Tick, Thinned(Loaded, old))
  /\ Fresh(Tick)
  /\ Enter(Tick, "cleanup")
  /\ UNCHANGED <<crew, disk, job, todo, births, ran, added, removed, disturbed, store, lives>>

\* What _check_schedule or something before it raises ends the tick.
TickFails ==
  /\ stage[Tick] = "schedule"
  /\ Hold(Tick, <<>>)
  /\ Enter(Tick, "asleep")
  /\ UNCHANGED <<crew, disk, job, todo, births, history, store, lives>>

Fire_AnyState ==                                         \* mutated form
  /\ Ticks /\ NewTask(Tick)
  /\ fired' = fired \cup {made + 1}
  /\ Enter(Tick, "fire")
  /\ UNCHANGED <<crew, disk, job, todo, ran, added, removed, disturbed, store, lives>>

\* The scheduler's task is due: queue_add.
Fire ==
  /\ Ticks /\ due = "scheduled"
  /\ NewTask(Tick)
  /\ fired' = fired \cup {made + 1}
  /\ Enter(Tick, "fire")
  /\ UNCHANGED <<crew, disk, job, todo, ran, added, removed, disturbed, store, lives>>

\* Store.update: done, refused for its version, or the lock is not to be had.
MarkFired ==
  /\ stage[Tick] = "mark fired"
  /\ \/ due' = "queued" /\ Enter(Tick, "dispatch") /\ UNCHANGED unmarked
     \/ due' = due /\ Enter(Tick, "dispatch") /\ unmarked' = TRUE
     \/ due' = due /\ Enter(Tick, "asleep") /\ unmarked' = TRUE
  /\ UNCHANGED <<crew, disk, copy, job, todo, births, history, lives>>

Queued_NotFirst(q) == Positions(q, "queued") \ {1}       \* mutated form

Queued(q) == Positions(q, "queued")

\* _process_queue
Dispatch ==
  /\ stage[Tick] = "dispatch" \/ Ticks       \* nothing is due
  /\ Hold(Tick, Loaded) /\ Fresh(Tick)
  /\ todo' = Queued(Loaded)
  /\ Enter(Tick, IF todo' = {} THEN "asleep" ELSE "next")
  /\ UNCHANGED <<crew, disk, job, births, ran, added, removed, disturbed, store, lives>>

TakeNext ==
  /\ stage[Tick] = "next" /\ todo # {}
  /\ ~(stopping /\ Cardinality(Queued(copy[Tick])) > DrainLimit)
  /\ job' = [job EXCEPT ![Tick] = Min(todo)]
  /\ todo' = todo \ {Min(todo)}
  /\ Hold(Tick, WithStatus(copy[Tick], Min(todo), "running"))
  /\ Enter(Tick, "claim")
  /\ UNCHANGED <<crew, disk, births, history, store, lives>>

QueueDone ==
  /\ stage[Tick] = "next"
  /\ todo = {} \/ (stopping /\ Cardinality(Queued(copy[Tick])) > DrainLimit)
  /\ todo' = {} /\ Hold(Tick, <<>>) /\ job' = [job EXCEPT ![Tick] = 0]
  /\ Enter(Tick, "asleep")
  /\ UNCHANGED <<crew, disk, births, history, store, lives>>

InWork(a) == copy[a][job[a]].task
Ran(t) == ran' = [ran EXCEPT ![t] = IF @ = 2 THEN 2 ELSE @ + 1]

\* _execute_task; what it raises counts as a failure.
Execute ==
  /\ stage[Tick] = "execute"
  /\ Ran(InWork(Tick))
  /\ \E status \in {"completed", "failed"} :
       Hold(Tick, WithStatus(copy[Tick], job[Tick], status))
  /\ Enter(Tick, "settle")
  /\ UNCHANGED <<crew, disk, job, todo, births, added, removed, stale, disturbed, store, lives>>

\* _sync_scheduler_result, whose failures are swallowed.
Report ==
  /\ stage[Tick] = "report"
  /\ due' \in IF InWork(Tick) \in fired THEN {due, copy[Tick][job[Tick]].status} ELSE {due}
  /\ Enter(Tick, "next")
  /\ UNCHANGED <<crew, disk, copy, job, todo, births, history, unmarked, lives>>

-------------------------------------------------------------------------------
\* WorkerPool._worker_loop

Claim(w) ==
  /\ stage[w] = "idle" /\ w \in Pool
  /\ Queued(Loaded) # {}
  /\ LET first == Min(Queued(Loaded))
     IN job' = [job EXCEPT ![w] = first] /\ Hold(w, WithStatus(Loaded, first, "running"))
  /\ Fresh(w)
  /\ Enter(w, "worker claim")
  /\ UNCHANGED <<crew, disk, todo, births, ran, added, removed, disturbed, store, lives>>

WorkerExecute(w) ==
  /\ stage[w] = "worker execute"
  /\ Ran(InWork(w))
  /\ \E status \in {"succeeded", "failed"} : Hold(w, WithStatus(copy[w], job[w], status))
  /\ Enter(w, "worker executed")
  /\ UNCHANGED <<crew, disk, job, todo, births, added, removed, stale, disturbed, store, lives>>

\* What _execute_task raises is logged, and the entry stays as it is.
WorkerRaises(w) ==
  /\ stage[w] = "worker execute"
  /\ Ran(InWork(w))
  /\ unsettled' = IF disturbed THEN {} ELSE unsettled \cup {InWork(w)}
  /\ Hold(w, <<>>) /\ job' = [job EXCEPT ![w] = 0]
  /\ Enter(w, "idle")
  /\ UNCHANGED <<crew, disk, todo, births, added, removed, stale, disturbed, store, stopping, stops>>

\* Entries of one id.
SameId(q, t) == {i \in DOMAIN q : ids[q[i].task] = ids[t]}

\* The list is loaded again; the first entry with the id gets the result.
Settle(w) ==
  /\ stage[w] = "worker executed"
  /\ LET same == SameId(Loaded, InWork(w))
         at == IF same = {} THEN 0 ELSE Min(same)
     IN /\ job' = [job EXCEPT ![w] = at]
        /\ Hold(w, IF at = 0 THEN Loaded ELSE WithStatus(Loaded, at, copy[w][job[w]].status))
  /\ Fresh(w)
  /\ Enter(w, "worker settle")
  /\ UNCHANGED <<crew, disk, todo, births, ran, added, removed, disturbed, store, lives>>

-------------------------------------------------------------------------------
\* The process of the overseer.

Start ==
  /\ stage[Tick] = "off"
  /\ stage' = [a \in Actor |-> IF a = Tick THEN "asleep" ELSE IF a \in Pool \cap crew THEN "idle" ELSE stage[a]]
  /\ stopping' = FALSE
  /\ UNCHANGED <<crew, disk, copy, job, todo, births, history, store, stops, unsettled>>

\* SIGTERM: the loop ends with its tick.
Stop ==
  /\ stage[Tick] # "off" /\ ~stopping /\ stops < MaxStops
  /\ stopping' = TRUE
  /\ UNCHANGED <<crew, disk, hands, births, history, store, stops, unsettled>>

\* The threads end with the process, wherever they are.
Down ==
  /\ stage' = [a \in Actor |-> IF a \in Cli THEN stage[a] ELSE "off"]
  /\ unmarked' = (unmarked \/ stage[Tick] \in {"fire", "mark fired"})
  /\ robbed' = robbed \cap Cli
  /\ job' = [a \in Actor |-> 0] /\ todo' = {}
  /\ copy' = [a \in Actor |-> IF a \in Cli THEN copy[a] ELSE <<>>]
  /\ stopping' = FALSE /\ stops' = stops + 1 /\ unsettled' = {}
  /\ stale' = stale \cap Cli
  /\ UNCHANGED <<crew, file, births, ran, added, removed, disturbed, due>>

Exit == stopping /\ stage[Tick] = "asleep" /\ Down

\* SIGKILL, of _stop after 45 seconds or of anyone.
KilledAnywhere == stage[Tick] # "off" /\ stops < MaxStops /\ Down

TickStep ==
  CleanUp \/ TickFails \/ Fire \/ MarkFired \/ Dispatch \/ TakeNext
  \/ QueueDone \/ Execute \/ Report
WorkerStep(w) == Claim(w) \/ WorkerExecute(w) \/ WorkerRaises(w) \/ Settle(w)
CliStep(c) == AddTask(c) \/ RemoveTask(c) \/ ClearQueue(c) \/ CleanUpByHand(c)

QueueNext ==
  \/ TickStep \/ Start \/ Stop \/ Exit \/ KilledAnywhere
  \/ \E w \in Pool : WorkerStep(w)
  \/ \E c \in Cli : CliStep(c)
  \/ \E a \in Actor : EndSave(a)

QueueSpec == QueueInit /\ [][QueueNext]_queueVars

\* Threads that can run do run, tasks end (every tool has a timeout), an overseer
\* that is down is started again, and not every one of its ticks raises.
QueueFairness ==
  /\ WF_queueVars(TickStep) /\ WF_queueVars(Start) /\ WF_queueVars(Exit)
  /\ \A w \in Pool : WF_queueVars(WorkerStep(w))
  /\ \A a \in Actor : WF_queueVars(EndSave(a))

QueueFairSpec == QueueSpec /\ QueueFairness

-------------------------------------------------------------------------------
Stage == Saves \cup {"off", "idle", "asleep", "done", "schedule", "mark fired", "dispatch", "next",
                     "execute", "report", "worker execute", "worker executed"}

QueueTypeOK ==
  /\ file = Unreadable \/ file \in Seq(Entry)
  /\ copy \in [Actor -> Seq(Entry)]
  /\ stage \in [Actor -> Stage]
  /\ \A a \in Actor : job[a] \in {0} \cup DOMAIN copy[a]
  /\ todo \subseteq DOMAIN copy[Tick]
  /\ robbed \subseteq Saving /\ stale \subseteq Actor
  /\ due \in {"scheduled", "queued", "completed", "failed"}
  /\ made \in 0..MaxTasks /\ Len(ids) = made
  /\ ran \in [Task -> 0..2]

\* "status": an entry says that a task came to its end only if a task of that
\* id did, however saves overlap, threads die and lists are out of date.
FinishedWasExecuted ==
  \A i \in DOMAIN Loaded :
    Loaded[i].status \in Finished =>
      \E t \in 1..made : ids[t] = ids[Loaded[i].task] /\ ran[t] > 0

\* All that goes wrong with the queue comes from saves that overlap or write a
\* list that is out of date: while there was none, every task that was added is
\* in the file or was taken out on purpose, none is executed twice, and what the
\* file calls running is being run, or was when the overseer went down, or its run
\* in a worker raised. The last only if no two tasks were given one id, as may happen
\* within one second when entries are taken out: a worker then settles the first entry
\* of the id.
UndisturbedQueueIsExact ==
  ~disturbed =>
    /\ added \subseteq Tasks(Loaded) \cup removed
    /\ \A t \in Task : ran[t] <= 1
    /\ (\A t, u \in 1..made : ids[t] = ids[u] => t = u) =>
         \A i \in Positions(Loaded, "running") :
           \/ stops > 0 \/ Loaded[i].task \in unsettled
           \/ \E a \in Actor \ Cli : job[a] > 0 /\ InWork(a) = Loaded[i].task

\* The store's task is turned into a second queue task only if the store was not
\* told of the first; and it says completed or failed only after a run.
FiredOnceAndReportedTruly ==
  /\ Cardinality(fired) > 1 => unmarked
  /\ due \in {"completed", "failed"} => \E t \in fired : ran[t] > 0

\* The queue tells the truth about what was executed, fired and kept.
QueueTellsTrue == FinishedWasExecuted /\ UndisturbedQueueIsExact /\ FiredOnceAndReportedTruly

\* No task waits in the file for ever without being run: again and again every
\* task has been, or is not queued.
QueuedTasksTaken ==
  []<>(\A t \in Task : ran[t] > 0 \/ t \notin {Loaded[i].task : i \in Positions(Loaded, "queued")})
===============================================================================
