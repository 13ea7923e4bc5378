----------------------------- MODULE SchedulerLog -----------------------------
(***************************************************************************)
(* The tasks of the scheduler, the events that change them, and the four   *)
(* readings the code has of one event: what Store._write makes of it in    *)
(* memory, what _rebuild_snapshot makes of it, what Recovery._replay_events*)
(* makes of it, and what the operation did in memory before it was logged  *)
(* (lib/scheduler/store.py, lib/scheduler/recovery.py).                    *)
(*                                                                         *)
(* A task is a record of the fields the code decides on. A field the JSON  *)
(* object lacks has the default its readers give it: enabled TRUE, version *)
(* 0, visible TRUE. due is next_run_at as a tick of the clock, 0 for None. *)
(***************************************************************************)
EXTENDS Integers, Sequences, SequencesExt

CONSTANTS
  TaskId,              \* the uuids tasks may get
  Key, NoKey           \* the idempotency keys, and the empty one

States == {"scheduled", "queued", "running", "succeeded", "failed", "paused",
           "canceled", "archived", "interrupted", "retry_wait"}

\* The overseer reports "completed", which VALID_STATES does not list.
Reported == {"queued", "completed", "failed"}

Task == [state : States \cup Reported, enabled : BOOLEAN, version : Nat, due : Nat,
         visible : BOOLEAN, timed : BOOLEAN, test : BOOLEAN, key : Key \cup {NoKey}]

Blank == [state |-> "scheduled", enabled |-> TRUE, version |-> 0, due |-> 0,
          visible |-> TRUE, timed |-> FALSE, test |-> FALSE, key |-> NoKey]

EventType == {"create", "update", "pause", "resume", "cancel", "archive"}

NoData == [field \in {} |-> 0]

\* dict.update: the fields of data replace those of the task.
Merge(task, data) ==
  LET New(field) == IF field \in DOMAIN data THEN data[field] ELSE task[field]
  IN  [state |-> New("state"), enabled |-> New("enabled"), version |-> New("version"),
       due |-> New("due"), visible |-> New("visible"), timed |-> New("timed"),
       test |-> New("test"), key |-> New("key")]

\* An event carries new values for some fields of a task.
IsEvent(e) ==
  /\ e.type \in EventType /\ e.id \in TaskId /\ e.version \in Nat
  /\ Merge(Blank, e.data) \in Task

With(tasks, id, task) ==
  [i \in DOMAIN tasks \cup {id} |-> IF i = id THEN task ELSE tasks[i]]

\* _next_run: triggers that know a time get one in the future.
NextRun(task, now) == IF task.timed THEN now + 1 ELSE 0

Changed_Misspelt(task, event) ==                         \* mutated form
  IF event.type = "cancel"
    THEN [task EXCEPT !.state = "cancelled", !.enabled = FALSE, !.version = event.version]
  ELSE IF event.type = "archive"
    THEN [task EXCEPT !.state = "archived", !.visible = FALSE, !.version = event.version]
  ELSE [Merge(task, event.data) EXCEPT !.version = event.version]

\* What create, update, pause, ... do to the task in memory before the lock.
Changed(task, event) ==
  CASE event.type = "update" -> [Merge(task, event.data) EXCEPT !.version = event.version]
    [] event.type = "pause" -> [task EXCEPT !.enabled = FALSE, !.version = event.version]
    [] event.type = "resume" ->
         [task EXCEPT !.enabled = TRUE, !.due = event.data.due, !.version = event.version]
    [] event.type = "cancel" ->
         [task EXCEPT !.state = "canceled", !.enabled = FALSE, !.version = event.version]
    [] event.type = "archive" ->
         [task EXCEPT !.state = "archived", !.visible = FALSE, !.version = event.version]

\* What _write does to the tasks in memory after the event was logged.
Written(tasks, event) ==
  IF event.type = "create" THEN With(tasks, event.id, Merge(Blank, event.data))
  ELSE IF event.id \notin DOMAIN tasks THEN tasks
  ELSE IF event.type = "archive"
    THEN [tasks EXCEPT ![event.id].state = "archived", ![event.id].version = event.version]
  ELSE [tasks EXCEPT ![event.id] = [Merge(@, event.data) EXCEPT !.version = event.version]]

Rebuilt_KeepsEnabled(tasks, event) ==                    \* mutated form
  IF event.type = "create"
    THEN With(tasks, event.id,
           [Merge(Blank, event.data) EXCEPT !.state = "scheduled", !.key = NoKey,
                                            !.version = event.version])
  ELSE IF event.id \notin DOMAIN tasks THEN tasks
  ELSE [tasks EXCEPT ![event.id] =
          IF event.type = "cancel"
            THEN [@ EXCEPT !.state = "canceled", !.version = event.version]
            ELSE [Changed(@, event) EXCEPT !.visible = tasks[event.id].visible]]

\* _rebuild_snapshot reads every kind of event for what it means, but knows
\* neither the idempotency key of a task nor that archive hides it.
Rebuilt(tasks, event) ==
  IF event.type = "create"
    THEN With(tasks, event.id,
           [Merge(Blank, event.data) EXCEPT !.state = "scheduled", !.key = NoKey,
                                            !.version = event.version])
  ELSE IF event.id \notin DOMAIN tasks THEN tasks
  ELSE [tasks EXCEPT ![event.id] =
          [Changed(@, event) EXCEPT !.visible = tasks[event.id].visible]]

Replayed_OntoTask(tasks, event) ==                       \* mutated form
  IF event.type = "create" /\ event.id \notin DOMAIN tasks
    THEN With(tasks, event.id, Merge(Blank, event.data))
  ELSE IF event.id \notin DOMAIN tasks THEN tasks
  ELSE [tasks EXCEPT ![event.id] = [@ EXCEPT !.version = event.version]]

\* _replay_events reads the data of an event and not its kind, so pause, cancel
\* and archive, whose data is empty, leave only their version.
Replayed(tasks, event) ==
  IF event.type = "create" THEN With(tasks, event.id, Merge(Blank, event.data))
  ELSE IF event.id \notin DOMAIN tasks THEN tasks
  ELSE [tasks EXCEPT ![event.id] = [Merge(@, event.data) EXCEPT !.version = event.version]]

NoTasks == [id \in {} |-> Blank]

RebuildAll(events) == FoldLeft(Rebuilt, NoTasks, events)

\* _validate_and_repair: a state nobody knows becomes "scheduled".
Repaired(tasks) ==
  [id \in DOMAIN tasks |->
     IF tasks[id].state \in States THEN tasks[id]
     ELSE [tasks[id] EXCEPT !.state = "scheduled"]]

ReplayAll(tasks, events) == FoldLeft(Replayed, tasks, events)

\* _mark_interrupted and _recalculate_next_run of the recovery.
Settled(tasks, now) ==
  [id \in DOMAIN tasks |->
     LET task == tasks[id]
         known == IF task.state = "running"
                    THEN [task EXCEPT !.state = "interrupted", !.enabled = TRUE] ELSE task
     IN  IF known.state \notin {"scheduled", "queued"} \/ ~known.enabled THEN known
         ELSE IF known.due = 0 THEN [known EXCEPT !.due = NextRun(known, now)]
         ELSE IF known.due <= now
           THEN [known EXCEPT !.state = "queued", !.due = NextRun(known, now)]
         ELSE known]

\* Store.reconcile on one task.
Reconciled(task, now) ==
  LET known == IF task.state \in States THEN task
               ELSE [task EXCEPT !.state = "scheduled", !.enabled = TRUE]
      stopped == IF known.state = "running"
                   THEN [known EXCEPT !.state = "interrupted", !.enabled = TRUE] ELSE known
  IN  IF stopped.state = "scheduled" /\ stopped.enabled /\ stopped.due <= now
        THEN [stopped EXCEPT !.state = "queued", !.due = NextRun(stopped, now)]
        ELSE stopped
===============================================================================
