------------------------------ MODULE WorkerPool ------------------------------
(***************************************************************************)
(* The worker pool of the overseer (lib/overseer.py): threads that take    *)
(* queued tasks, a record of each with its last heartbeat, and the check   *)
(* at every tick that puts a new thread in the place of one whose          *)
(* heartbeat is old. A thread beats when it takes a task and when it is    *)
(* done with it, and finds its record by its name. What becomes of the     *)
(* queue is in OverseerQueue.                                              *)
(***************************************************************************)
EXTENDS Integers, Sequences, SequencesExt

CONSTANTS
  MaxWorkers,          \* max_workers
  Old,                 \* the age at which a heartbeat counts as lost: two intervals
  MaxThreads           \* bound on the threads started

Thread == 1..MaxThreads

VARIABLES
  workers,             \* the records, each of an id, a thread and the age of its heartbeat
  name,                \* the name of every thread started
  doing,               \* what it does
  replaced,            \* the threads whose record gave way to another
  stopping             \* _stop_event

vars == <<workers, name, doing, replaced, stopping>>

Record(id, thread) == [id |-> id, thread |-> thread, age |-> 0]

\* start: ids and names differ.
Init ==
  /\ workers = [i \in 1..MaxWorkers |-> Record(i - 1, i)]
  /\ name = [t \in 1..MaxWorkers |-> <<"worker", t - 1>>]
  /\ doing = [t \in 1..MaxWorkers |-> "look"]
  /\ replaced = {} /\ stopping = FALSE

\* _update_heartbeat: the first record whose thread has this name.
Named(t) == {i \in DOMAIN workers : name[workers[i].thread] = name[t]}

Beats(t) ==
  workers' = [i \in DOMAIN workers |->
                IF i \in Named(t) /\ \A j \in Named(t) : i <= j
                THEN [workers[i] EXCEPT !.age = 0] ELSE workers[i]]

\* _worker_loop: a thread that finds no task sleeps, and looks again.
Take(t) ==
  /\ doing[t] = "look" /\ ~stopping
  /\ doing' = [doing EXCEPT ![t] = "execute"]
  /\ Beats(t)
  /\ UNCHANGED <<name, replaced, stopping>>

Done(t) ==
  /\ doing[t] = "execute"
  /\ doing' = [doing EXCEPT ![t] = "look"]
  /\ Beats(t)
  /\ UNCHANGED <<name, replaced, stopping>>

Ends(t) ==
  /\ doing[t] = "look" /\ stopping
  /\ doing' = [doing EXCEPT ![t] = "ended"]
  /\ Beats(t)
  /\ UNCHANGED <<name, replaced, stopping>>

TimePasses ==
  /\ \E i \in DOMAIN workers : workers[i].age < Old
  /\ workers' = [i \in DOMAIN workers |-> [workers[i] EXCEPT !.age = IF @ < Old THEN @ + 1 ELSE Old]]
  /\ UNCHANGED <<name, doing, replaced, stopping>>

\* One turn of heartbeat_check: every record of the id goes, and the new one has
\* the number of those that are left.
Replace(pool, id) ==
  LET left == SelectSeq(pool.workers, LAMBDA w : w.id # id)
      t == Len(pool.name) + 1
  IN  [workers |-> Append(left, Record(Len(left), t)),
       name |-> Append(pool.name, <<"w", Len(left)>>)]

Lost == SelectSeq(workers, LAMBDA w : w.age = Old)

HeartbeatCheck ==
  /\ ~stopping /\ Lost # <<>> /\ Len(name) + Len(Lost) <= MaxThreads
  /\ LET pool == FoldLeft(LAMBDA p, w : Replace(p, w.id), [workers |-> workers, name |-> name], Lost) IN
     /\ workers' = pool.workers /\ name' = pool.name
     /\ doing' = [t \in DOMAIN pool.name |-> IF t \in DOMAIN doing THEN doing[t] ELSE "look"]
     /\ replaced' = DOMAIN name' \ {workers'[i].thread : i \in DOMAIN workers'}
  /\ UNCHANGED stopping

\* stop waits ten seconds for each thread that has a record, and forgets them all.
Stop ==
  /\ ~stopping /\ stopping' = TRUE
  /\ UNCHANGED <<workers, name, doing, replaced>>

Forget ==
  /\ stopping /\ workers # <<>>
  /\ workers' = <<>>
  /\ UNCHANGED <<name, doing, replaced, stopping>>

Next ==
  \/ \E t \in DOMAIN name : Take(t) \/ Done(t) \/ Ends(t)
  \/ TimePasses \/ HeartbeatCheck \/ Stop \/ Forget

Spec == Init /\ [][Next]_vars

-------------------------------------------------------------------------------
TypeOK ==
  /\ Len(workers) <= MaxWorkers
  /\ \A i \in DOMAIN workers : /\ workers[i].id \in 0..MaxWorkers - 1
                               /\ workers[i].thread \in DOMAIN name /\ workers[i].age \in 0..Old
  /\ DOMAIN name \subseteq Thread
  /\ doing \in [DOMAIN name -> {"look", "execute", "ended"}]
  /\ replaced \subseteq DOMAIN name /\ stopping \in BOOLEAN

\* A worker that was replaced is dead: its thread has ended.
ReplacedAreDead == \A t \in replaced : doing[t] = "ended"
===============================================================================
