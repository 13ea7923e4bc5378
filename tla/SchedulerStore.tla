---------------------------- MODULE SchedulerStore ----------------------------
(***************************************************************************)
(* The scheduler's store as the processes of one machine use it            *)
(* (lib/scheduler/store.py, lib/scheduler/recovery.py). A process opens a  *)
(* Store, which reads the snapshot once, changes its copy, appends an event*)
(* to the log under the lock, and saves its whole copy as the snapshot.    *)
(* clear_test_tasks, reconcile and the recovery save without the lock and, *)
(* but for the counter of the state file, without an event. Every file is  *)
(* replaced or appended to in one step.                                    *)
(***************************************************************************)
EXTENDS SchedulerLog, FiniteSets

CONSTANTS
  Proc, NoProc,        \* the processes, and nobody
  Maintains,           \* processes that clear test tasks, reconcile or recover
  NewTasks,            \* the kinds of tasks created: <<timed, test>>
  Reports,             \* the states that update() is called with
  MaxEvents, MaxMaintenance, MaxCrashes, MaxClock      \* bounds

ASSUME StoreConstants ==
  /\ NoProc \notin Proc /\ Maintains \subseteq Proc
  /\ NewTasks \subseteq BOOLEAN \X BOOLEAN /\ Reports \subseteq Reported
  /\ NoKey \notin Key
  /\ MaxEvents \in Nat /\ MaxMaintenance \in Nat
  /\ MaxCrashes \in Nat /\ MaxClock \in Nat

VARIABLES
  lock,                \* holder of the lock file
  log,                 \* tasks.events.jsonl
  snapshot,            \* tasks.json
  generation,          \* the counter in state.json
  ran,                 \* the tasks that executions.jsonl names
  clock,
  session,             \* "closed", a Store that is "open", or a "recover" run
  tasks,               \* the process's copy of the tasks
  event,               \* the event it is about to log
  todo,                \* the steps its operation still has to take
  seen,                \* the generation it has read
  last,                \* what the last complete recovery found and left
  maintained, crashes  \* counters the bounds apply to

disk == <<log, snapshot, generation, ran>>
local == <<session, tasks, event, todo, seen>>
bounds == <<maintained, crashes>>
vars == <<lock, disk, clock, local, last, bounds>>

NoEvent == [type |-> "none", id |-> 0, version |-> 0, data |-> NoData]

Init ==
  /\ lock = NoProc
  /\ log = <<>> /\ snapshot = NoTasks /\ generation = 0 /\ ran = {}
  /\ clock = 0 /\ maintained = 0 /\ crashes = 0
  /\ session = [p \in Proc |-> "closed"]
  /\ tasks = [p \in Proc |-> NoTasks]
  /\ event = [p \in Proc |-> NoEvent]
  /\ todo = [p \in Proc |-> <<>>]
  /\ seen = [p \in Proc |-> 0]
  /\ last = [length |-> 0, clock |-> 0, tasks |-> NoTasks]

Ready(p) == session[p] = "open" /\ todo[p] = <<>>

At(p, step) == todo[p] # <<>> /\ Head(todo[p]) = step

StepDone(p) == todo' = [todo EXCEPT ![p] = Tail(@)]

\* Store(): the snapshot is read once.
Open(p) ==
  /\ session[p] = "closed"
  /\ session' = [session EXCEPT ![p] = "open"]
  /\ tasks' = [tasks EXCEPT ![p] = snapshot]
  /\ UNCHANGED <<lock, disk, clock, event, todo, seen, last, bounds>>

\* The process ends, or the exception of a lock that is held ends its use.
Forget(p) ==
  /\ session' = [session EXCEPT ![p] = "closed"]
  /\ tasks' = [tasks EXCEPT ![p] = NoTasks]
  /\ event' = [event EXCEPT ![p] = NoEvent]
  /\ todo' = [todo EXCEPT ![p] = <<>>]
  /\ seen' = [seen EXCEPT ![p] = 0]

Close(p) ==
  /\ Ready(p)
  /\ Forget(p)
  /\ UNCHANGED <<lock, disk, clock, last, bounds>>

-------------------------------------------------------------------------------
\* Operations that log an event.

\* Mutated form: the snapshot is saved ahead of the log.
WriteSteps_SnapshotFirst == <<"lock", "save", "append", "count", "bump">>

WriteSteps == <<"lock", "append", "count", "bump", "save">>

Pending == {event[p].id : p \in {r \in Proc : todo[r] # <<>>}}

UsedIds == {log[i].id : i \in DOMAIN log} \cup Pending

Logged(p, e, after) ==
  /\ Len(log) + Cardinality({r \in Proc \ {p} : todo[r] # <<>>}) < MaxEvents
  /\ event' = [event EXCEPT ![p] = e]
  /\ tasks' = [tasks EXCEPT ![p] = after]
  /\ todo' = [todo EXCEPT ![p] = WriteSteps]
  /\ UNCHANGED <<lock, disk, clock, session, seen, last, bounds>>

CreateEvent(id, timed, test, key) ==
  [type |-> "create", id |-> id, version |-> 1,
   data |-> [state |-> "scheduled", timed |-> timed, test |-> test, key |-> key,
             visible |-> TRUE, due |-> NextRun([timed |-> timed], clock)]]

\* create() refuses a key that a task of its own copy has.
Create(p, timed, test, key) ==
  /\ Ready(p)
  /\ key # NoKey => \A id \in DOMAIN tasks[p] : tasks[p][id].key # key
  /\ \E id \in TaskId \ UsedIds :
       /\ \A other \in TaskId \ UsedIds : id <= other
       /\ Logged(p, CreateEvent(id, timed, test, key), tasks[p])

Change(p, id, type, data) ==
  /\ Ready(p)
  /\ id \in DOMAIN tasks[p]
  /\ LET e == [type |-> type, id |-> id, version |-> tasks[p][id].version + 1, data |-> data]
     IN  Logged(p, e, [tasks[p] EXCEPT ![id] = Changed(@, e)])

\* update() with the version the caller read from the same Store; any other
\* version is refused and changes nothing.
Update(p, id, state) == Change(p, id, "update", [state |-> state])
Pause(p, id) == Change(p, id, "pause", NoData)
Resume(p, id) ==
  /\ id \in DOMAIN tasks[p]
  /\ Change(p, id, "resume", [due |-> NextRun(tasks[p][id], clock)])
Cancel(p, id) == Change(p, id, "cancel", NoData)
Archive(p, id) == Change(p, id, "archive", NoData)

\* run_now() and record_execution() only append to executions.jsonl.
Execute(p, id) ==
  /\ Ready(p)
  /\ id \in DOMAIN tasks[p] \ ran
  /\ ran' = ran \cup {id}
  /\ UNCHANGED <<lock, log, snapshot, generation, clock, local, last, bounds>>

\* flock(LOCK_EX | LOCK_NB)
TakeLock(p) ==
  /\ At(p, "lock")
  /\ lock = NoProc
  /\ lock' = p
  /\ StepDone(p)
  /\ UNCHANGED <<disk, clock, session, tasks, event, seen, last, bounds>>

\* RuntimeError("Scheduler lock held by another process"): the callers make a
\* Store for every use, so the copy that was already changed is dropped.
LockHeld(p) ==
  /\ At(p, "lock")
  /\ lock # NoProc
  /\ Forget(p)
  /\ UNCHANGED <<lock, disk, clock, last, bounds>>

AppendEvent(p) ==
  /\ At(p, "append")
  /\ log' = Append(log, event[p])
  /\ StepDone(p)
  /\ UNCHANGED <<lock, snapshot, generation, ran, clock, session, tasks, event, seen,
                 last, bounds>>

-------------------------------------------------------------------------------
\* Operations that log nothing and take no lock.

Maintenance(p) ==
  /\ p \in Maintains
  /\ maintained < MaxMaintenance
  /\ maintained' = maintained + 1
  /\ UNCHANGED crashes

\* clear_test_tasks(): ephemeral test tasks are canceled in the snapshot only.
ClearTestTasks(p) ==
  /\ Ready(p)
  /\ Maintenance(p)
  /\ \E id \in DOMAIN tasks[p] : tasks[p][id].test
  /\ tasks' = [tasks EXCEPT ![p] = [id \in DOMAIN @ |->
       IF @[id].test THEN [@[id] EXCEPT !.state = "canceled", !.visible = FALSE]
                     ELSE @[id]]]
  /\ todo' = [todo EXCEPT ![p] = <<"save", "count", "bump">>]
  /\ UNCHANGED <<lock, disk, clock, session, event, seen, last>>

Reconcile(p) ==
  /\ Ready(p)
  /\ Maintenance(p)
  /\ LET known == IF tasks[p] = NoTasks THEN RebuildAll(log) ELSE tasks[p]
     IN  tasks' = [tasks EXCEPT ![p] =
                     [id \in DOMAIN known |-> Reconciled(known[id], clock)]]
  /\ seen' = [seen EXCEPT ![p] = generation]
  /\ todo' = [todo EXCEPT ![p] = <<"save", "bump">>]
  /\ UNCHANGED <<lock, disk, clock, session, event, last>>

Recover_OnTop(p) ==                                      \* mutated form
  /\ session[p] = "closed"
  /\ Maintenance(p)
  /\ session' = [session EXCEPT ![p] = "recover"]
  /\ tasks' = [tasks EXCEPT ![p] = IF snapshot = NoTasks THEN ReplayAll(NoTasks, log)
                                   ELSE Repaired(snapshot)]
  /\ seen' = [seen EXCEPT ![p] = generation]
  /\ todo' = [todo EXCEPT ![p] = <<"save", "settle", "bump">>]
  /\ UNCHANGED <<lock, disk, clock, event, last>>

\* recover(): the snapshot, or an empty one rebuilt, is repaired and then the
\* whole log is replayed over it.
Recover(p) ==
  /\ session[p] = "closed"
  /\ Maintenance(p)
  /\ session' = [session EXCEPT ![p] = "recover"]
  /\ LET known == IF snapshot = NoTasks THEN RebuildAll(log) ELSE snapshot
     IN  tasks' = [tasks EXCEPT ![p] = ReplayAll(Repaired(known), log)]
  /\ seen' = [seen EXCEPT ![p] = generation]
  /\ todo' = [todo EXCEPT ![p] = IF log = <<>> THEN <<"settle", "bump">>
                                 ELSE <<"save", "settle", "bump">>]
  /\ UNCHANGED <<lock, disk, clock, event, last>>

\* The recovery marks what was interrupted or is due, and saves again.
Settle(p) ==
  /\ At(p, "settle")
  /\ tasks' = [tasks EXCEPT ![p] = Settled(@, clock)]
  /\ snapshot' = tasks'[p]
  /\ last' = [length |-> Len(log), clock |-> clock, tasks |-> tasks'[p]]
  /\ StepDone(p)
  /\ UNCHANGED <<lock, log, generation, ran, clock, session, event, seen, bounds>>

-------------------------------------------------------------------------------
\* Steps that several operations share.

\* _load_state of _append_event and clear_test_tasks.
Count(p) ==
  /\ At(p, "count")
  /\ seen' = [seen EXCEPT ![p] = generation]
  /\ StepDone(p)
  /\ UNCHANGED <<lock, disk, clock, session, tasks, event, last, bounds>>

\* _save_state; it ends clear_test_tasks, reconcile and the recovery.
Bump(p) ==
  /\ At(p, "bump")
  /\ generation' = seen[p] + 1
  /\ IF session[p] = "recover" THEN Forget(p)
     ELSE StepDone(p) /\ UNCHANGED <<session, tasks, event, seen>>
  /\ lock' = IF lock = p /\ Tail(todo[p]) = <<>> THEN NoProc ELSE lock
  /\ UNCHANGED <<log, snapshot, ran, clock, last, bounds>>

\* _save_snapshot; it ends _write, which applies its event first and releases
\* the lock after.
Save(p) ==
  /\ At(p, "save")
  /\ tasks' = [tasks EXCEPT ![p] = IF lock = p THEN Written(@, event[p]) ELSE @]
  /\ snapshot' = tasks'[p]
  /\ StepDone(p)
  /\ lock' = IF lock = p /\ Tail(todo[p]) = <<>> THEN NoProc ELSE lock
  /\ event' = IF Tail(todo[p]) = <<>> THEN [event EXCEPT ![p] = NoEvent] ELSE event
  /\ UNCHANGED <<log, generation, ran, clock, session, seen, last, bounds>>

Crash(p) ==
  /\ session[p] # "closed"
  /\ crashes < MaxCrashes
  /\ crashes' = crashes + 1
  /\ lock' = IF lock = p THEN NoProc ELSE lock
  /\ Forget(p)
  /\ UNCHANGED <<disk, clock, last, maintained>>

Tick ==
  /\ clock < MaxClock
  /\ clock' = clock + 1
  /\ UNCHANGED <<lock, disk, local, last, bounds>>

Operation(p) ==
  \/ \E new \in NewTasks, key \in Key \cup {NoKey} : Create(p, new[1], new[2], key)
  \/ \E id \in TaskId :
       \/ \E state \in Reports : Update(p, id, state)
       \/ Pause(p, id) \/ Resume(p, id) \/ Cancel(p, id) \/ Archive(p, id)
       \/ Execute(p, id)
  \/ ClearTestTasks(p) \/ Reconcile(p) \/ Recover(p)

Step(p) ==
  \/ TakeLock(p) \/ LockHeld(p) \/ AppendEvent(p) \/ Count(p) \/ Bump(p) \/ Save(p)
  \/ Settle(p)

Next ==
  \/ \E p \in Proc : Open(p) \/ Close(p) \/ Operation(p) \/ Step(p) \/ Crash(p)
  \/ Tick

Spec == Init /\ [][Next]_vars

-------------------------------------------------------------------------------
TasksOK(t) == DOMAIN t \subseteq TaskId /\ \A id \in DOMAIN t : t[id] \in Task

TypeOK ==
  /\ lock \in Proc \cup {NoProc}
  /\ \A i \in DOMAIN log : IsEvent(log[i])
  /\ TasksOK(snapshot) /\ generation \in Nat /\ ran \subseteq TaskId
  /\ clock \in 0..MaxClock /\ maintained \in 0..MaxMaintenance /\ crashes \in 0..MaxCrashes
  /\ session \in [Proc -> {"closed", "open", "recover"}]
  /\ \A p \in Proc : TasksOK(tasks[p])
  /\ \A p \in Proc : event[p] = NoEvent \/ IsEvent(event[p])
  /\ seen \in [Proc -> Nat]

\* The log is written ahead of the snapshot: a task of the snapshot has its
\* create event in the log, and a version of it that an operation made has an
\* event of that version, whoever else writes, fails to or dies meanwhile.
WriteAhead ==
  \A id \in DOMAIN snapshot :
    /\ \E i \in DOMAIN log : log[i].id = id /\ log[i].type = "create"
    /\ snapshot[id].version = 0
         \/ \E i \in DOMAIN log : log[i].id = id /\ log[i].version = snapshot[id].version

\* Under the lock no increment of the generation is lost: it counts the events of
\* the log, but for those whose writer died before it could count them.
GenerationCounts ==
  lock = NoProc => generation <= Len(log) /\ Len(log) <= generation + crashes

\* The order of the log, the snapshot and the counter for as long as nobody
\* maintains the store.
StoreIsOrdered == maintained = 0 => WriteAhead /\ GenerationCounts

\* What a reader of the snapshot decides on.
Says(task) == [state |-> task.state, enabled |-> task.enabled, due |-> task.due]

\* Without crashes, concurrent sessions and maintenance the snapshot says what
\* _rebuild_snapshot would make of the log.
SnapshotIsLog ==
  crashes = 0 /\ maintained = 0 /\ (\A p \in Proc : todo[p] = <<>>) =>
    LET rebuilt == RebuildAll(log)
    IN  /\ DOMAIN snapshot = DOMAIN rebuilt
        /\ \A id \in DOMAIN snapshot : Says(snapshot[id]) = Says(rebuilt[id])

\* A recovery that finds the log as the last one left it leaves the same tasks,
\* whatever was saved, or lost, in the snapshot between them.
RecoveryRepeats ==
  [][last' # last /\ last.length = Len(log) /\ last.clock = clock
       /\ last.length > 0 => snapshot' = last.tasks]_vars

\* When one process is at the store: after a recovery every task that was ever created is
\* in the snapshot, also one whose creator died before it was saved, or that was cleared.
\* (What others log while a recovery is at work, its save leaves out.)
RecoveryFindsAll ==
  [][last' # last => \A i \in DOMAIN log : log[i].id \in DOMAIN snapshot']_vars
===============================================================================
