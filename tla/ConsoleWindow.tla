----------------------------- MODULE ConsoleWindow -----------------------------
(***************************************************************************)
(* The console window (lib/browser_console.py): windows that are started,  *)
(* look for one that is there, keep a record of the open one in a file and *)
(* close it; and the pane in which a window shows, every few seconds, one  *)
(* task of the scheduler: it reads the store's snapshot and then its log,  *)
(* while the store writes the one and then the other.                      *)
(***************************************************************************)
EXTENDS Integers, Sequences, FiniteSetsExt, SequencesExt

CONSTANTS
  Console, Nobody,     \* processes with a window each; the window id 0
  Work, TimedWork,     \* tasks of the scheduler, and those that have a next run
  MaxWrites,           \* bound on the store's writes
  MaxSlips             \* bound on searches and writes that fail

VARIABLES
  topic,               \* the windows, or the pane of one of them
  record,              \* overlay_state.json: the window's id and whether it is open
  stage, held,         \* what each process does; the record it read
  blind, slips,        \* whether windows were not seen, or looked for at once; failures so far
  killed,              \* processes that were killed, or whose last write failed
  clock, tasks,        \* the store: its tasks, in the memory of a process that writes,
  snapshot, log,       \* the file of them and the events
  dirty,               \* whether the snapshot is yet to follow the log
  glanced, shown,      \* the snapshot the pane has read; what it shows
  had,                 \* the states a task has had since the pane began to read
  canceled             \* tasks that were ever canceled

windows == <<record, stage, held, blind, slips, killed>>
store == <<clock, tasks, snapshot, log, dirty, canceled>>
pane == <<glanced, shown, had>>
vars == <<topic, windows, store, pane>>

Nothing == [win |-> Nobody, open |-> FALSE]

Init ==
  /\ topic \in {"windows", "pane"}
  /\ record = Nothing
  /\ stage = [w \in Console |-> "off"] /\ held = [w \in Console |-> Nothing]
  /\ blind = FALSE /\ slips = 0 /\ killed = {}
  /\ clock = 0 /\ tasks = <<>> /\ snapshot = <<>> /\ log = <<>> /\ dirty = FALSE /\ canceled = {}
  /\ glanced = <<>> /\ shown = <<>> /\ had = [t \in Work |-> {}]

Enter(w, s) == stage' = [stage EXCEPT ![w] = s]
Visible == {w \in Console : stage[w] \in {"shown", "open", "closing", "marking"}}
Slip == slips < MaxSlips /\ slips' = slips + 1

-------------------------------------------------------------------------------
\* build_window: windows of the name that are on the screen, but for the recorded one,
\* are raised, and there the process ends.
Start(w) ==
  /\ stage[w] = "off"
  /\ \/ /\ Enter(w, IF Visible \ {record.win} = {} THEN "built" ELSE "gone")
        /\ blind' = (blind \/ \E v \in Console : stage[v] = "built") /\ UNCHANGED slips
     \/ Slip /\ Enter(w, "built") /\ blind' = TRUE
  /\ UNCHANGED <<record, held, killed>>

Show(w) ==
  /\ stage[w] = "built" /\ Enter(w, "shown")
  /\ UNCHANGED <<record, held, blind, slips, killed>>

\* _record_lifecycle, once the window is idle; clear_pending finds nothing pending.
RecordOpen(w) ==
  /\ stage[w] = "shown" /\ Enter(w, "open")
  /\ \/ record' \in {[win |-> id, open |-> TRUE] : id \in {w, Nobody}} /\ UNCHANGED slips
     \/ Slip /\ UNCHANGED record
  /\ UNCHANGED <<held, blind, killed>>

\* The button calls _record_close, and so do the destroyed window and the exit; a window
\* that is closed otherwise does without the first, and SIGTERM does only that: so it is
\* called once or more often.
Close(w) ==
  /\ stage[w] \in {"shown", "open"} /\ Enter(w, "closing")
  /\ UNCHANGED <<record, held, blind, slips, killed>>

\* _record_close reads the record of whichever window is recorded,
ReadRecord(w) ==
  /\ stage[w] \in {"closing", "unseen"}
  /\ held' = [held EXCEPT ![w] = record]
  /\ Enter(w, IF stage[w] = "closing" THEN "marking" ELSE "marking again")
  /\ UNCHANGED <<record, blind, slips, killed>>

\* and writes it back as closed. What fails is passed over.
WriteClosed(w) ==
  /\ stage[w] \in {"marking", "marking again"}
  /\ Enter(w, "gone") \/ Enter(w, "unseen")
  /\ \/ record' = [held[w] EXCEPT !.open = FALSE] /\ UNCHANGED <<slips, killed>>
     \/ Slip /\ killed' = killed \cup {w} /\ UNCHANGED record
  /\ held' = [held EXCEPT ![w] = Nothing] /\ UNCHANGED blind

Killed(w) ==
  /\ stage[w] \notin {"off", "gone"} /\ Enter(w, "gone") /\ killed' = killed \cup {w}
  /\ held' = [held EXCEPT ![w] = Nothing]
  /\ UNCHANGED <<record, blind, slips>>

-------------------------------------------------------------------------------
\* The store, as far as the pane can see it: the event is logged, then the snapshot
\* saved; reconcile saves one without an event.

Stamp(t) == IF t \in TimedWork THEN tasks[t].next ELSE tasks[t].updated
Had(t, s) == had' = [had EXCEPT ![t] = @ \cup {s}]

Write(t, type, state, stamp) ==
  /\ ~dirty /\ clock < MaxWrites /\ clock' = clock + 1 /\ dirty' = TRUE
  /\ log' = Append(log, [id |-> t, type |-> type, ts |-> stamp])
  /\ Had(t, state)
  /\ canceled' = IF type = "cancel" THEN canceled \cup {t} ELSE canceled
  /\ UNCHANGED <<snapshot, glanced, shown>>

\* A task that is created has no time of change, and the next run may be near.
Create(t) ==
  /\ t \notin DOMAIN tasks /\ Write(t, "create", "scheduled", 2 * clock + 1)
  /\ \E next \in {2 * clock + 2, 2 * MaxWrites} :
       tasks' = [u \in DOMAIN tasks \cup {t} |->
                   IF u = t THEN [state |-> "scheduled", updated |-> 0, next |-> next] ELSE tasks[u]]

\* The time of the change is taken just before that of the event.
Change(t, type, state) ==
  /\ t \in DOMAIN tasks /\ \E later \in 0..1 : Write(t, type, state, 2 * clock + later)
  /\ tasks' = [tasks EXCEPT ![t].state = state, ![t].updated = 2 * clock]

Update(t) == \E s \in {"queued", "running", "completed"} : Change(t, "update", s)
Cancel(t) == Change(t, "cancel", "canceled")

SaveSnapshot ==
  /\ dirty /\ dirty' = FALSE /\ snapshot' = [t \in DOMAIN tasks |-> [state |-> tasks[t].state, ts |-> Stamp(t)]]
  /\ UNCHANGED <<clock, tasks, log, canceled, pane>>

\* "completed" is not among its states, and nothing runs when it is called.
Reconcile ==
  /\ ~dirty /\ clock < MaxWrites /\ clock' = clock + 1 /\ dirty' = TRUE
  /\ LET states == [t \in DOMAIN tasks |-> CASE tasks[t].state = "completed" -> "scheduled"
                                              [] tasks[t].state = "running" -> "interrupted"
                                              [] OTHER -> tasks[t].state]
     IN /\ \E t \in DOMAIN tasks : states[t] # tasks[t].state
        /\ tasks' = [t \in DOMAIN tasks |-> [tasks[t] EXCEPT !.state = states[t]]]
        /\ had' = [t \in Work |-> IF t \in DOMAIN tasks THEN had[t] \cup {states[t]} ELSE had[t]]
  /\ UNCHANGED <<snapshot, log, canceled, glanced, shown>>

-------------------------------------------------------------------------------
\* _live_primary_task

After_Anew(known, e) ==                                  \* mutated form
  LET state == CASE e.type = "create" -> "scheduled"
                 [] e.type = "cancel" -> "canceled"
                 [] OTHER -> IF e.id \in DOMAIN known THEN known[e.id].state ELSE "scheduled"
  IN [t \in DOMAIN known \cup {e.id} |-> IF t = e.id THEN [state |-> state, ts |-> e.ts] ELSE known[t]]

\* One event, for what is known of its task: an older one is passed over, and the
\* update, which the pane does not know, changes the time only.
After(known, e) ==
  IF e.id \in DOMAIN known /\ known[e.id].ts > 0 /\ known[e.id].ts >= e.ts THEN known
  ELSE LET state == CASE e.type = "create" -> "scheduled"
                      [] e.type = "cancel" -> "canceled"
                      [] OTHER -> IF e.id \in DOMAIN known THEN known[e.id].state ELSE "scheduled"
       IN [t \in DOMAIN known \cup {e.id} |-> IF t = e.id THEN [state |-> state, ts |-> e.ts] ELSE known[t]]

Known(view) == FoldLeft(After, view, log)

\* One that runs, or else one that is queued, or else any; of these the latest.
Primary(view) ==
  LET In(states) == {t \in DOMAIN view : view[t].state \in states}
      among == IF In({"running"}) # {} THEN In({"running"})
               ELSE IF In({"queued"}) # {} THEN In({"queued"}) ELSE DOMAIN view
  IN {t \in among : \A u \in among : view[u].ts <= view[t].ts}

Glance ==
  /\ glanced = <<>> /\ snapshot # <<>> /\ glanced' = snapshot
  /\ had' = [t \in Work |-> (IF t \in DOMAIN tasks THEN {tasks[t].state} ELSE {})
                            \cup (IF t \in DOMAIN snapshot THEN {snapshot[t].state} ELSE {})]
  /\ shown' = <<>> /\ UNCHANGED store

Refresh ==
  /\ glanced # <<>> /\ glanced' = <<>>
  /\ LET view == Known(glanced)
     IN \E t \in Primary(view) : shown' = [id |-> t, state |-> view[t].state]
  /\ UNCHANGED <<store, had>>

Next ==
  \/ /\ topic = "windows" /\ UNCHANGED <<topic, store, pane>>
     /\ \E w \in Console :
          \/ Start(w) \/ Show(w) \/ RecordOpen(w) \/ Close(w) \/ ReadRecord(w) \/ WriteClosed(w)
          \/ Killed(w)
  \/ /\ topic = "pane" /\ UNCHANGED <<topic, windows>>
     /\ \/ \E t \in Work : Create(t) \/ Update(t) \/ Cancel(t)
        \/ SaveSnapshot \/ Reconcile \/ Glance \/ Refresh

Spec == Init /\ [][Next]_vars

-------------------------------------------------------------------------------
States == {"scheduled", "queued", "running", "completed", "interrupted", "canceled"}

TypeOK ==
  /\ record \in [win : Console \cup {Nobody}, open : BOOLEAN]
  /\ stage \in [Console -> {"off", "built", "shown", "open", "closing", "marking", "unseen", "marking again",
                        "gone"}]
  /\ \A t \in DOMAIN tasks : tasks[t].state \in States
  /\ shown = <<>> \/ (shown.id \in Work /\ shown.state \in States)

\* The record calls a window open only while it is, or if its process had no chance to write
\* that it closed: processes that close write back what they read of another's record, but
\* never that it is open.
RecordIsTrue ==
  record.open /\ record.win # Nobody => stage[record.win] \notin {"off", "built", "gone"}
                                        \/ record.win \in killed

\* A process that finds a window ends; as the recorded one does not count, there are two at
\* most, if windows can be seen and are not started together.
FewWindows == ~blind => Cardinality(Visible) <= 2

\* What the pane shows of a task is a state it had while the pane was reading, however the
\* reading and the writing fell together; only of a task whose next run has passed it may
\* show a cancel that was overruled since. Of the others, what ran
\* throughout comes first.
PaneShowsTruth ==
  glanced = <<>> /\ shown # <<>> =>
    /\ \/ shown.state \in had[shown.id]
       \/ shown.id \in TimedWork \cap canceled /\ shown.state = "canceled"
    /\ (\E t \in Work \ (TimedWork \cap canceled) : had[t] = {"running"}) => shown.state = "running"

ConsoleIsSound == RecordIsTrue /\ FewWindows /\ PaneShowsTruth
===============================================================================
