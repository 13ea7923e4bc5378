------------------------------- MODULE Workflow -------------------------------
(***************************************************************************)
(* A workflow and those who execute it (engine/workflow.py and             *)
(* _dispatch_workflow in lib/overseer.py).                                 *)
(*                                                                         *)
(* The engine, run from the command line, makes a plan of a goal and       *)
(* executes it batch by batch; it saves the plan before the first batch,   *)
(* after each and at the end. At each of its ticks the overseer looks      *)
(* whether the saved plan has pending tasks, and if so starts a thread that *)
(* loads the plan, executes up to two tasks that are ready and saves the   *)
(* plan as it has it by then. Nothing keeps them apart: each has a copy of *)
(* its own, and the last one to save wins. A save is not atomic either:    *)
(* write_text() first empties the file.                                    *)
(***************************************************************************)
EXTENDS DagScheduler, FiniteSets

CONSTANTS
  Engine,        \* processes that execute a plan from the command line
  Thread,        \* threads of the overseer
  Goals,         \* the goals plans are made for
  DispatchMax,   \* WORKFLOW_DISPATCH_MAX
  Absent,        \* there is no workflow file
  Empty,         \* the file has been emptied by a save that has not written yet
  Torn,          \* the file is a mixture of two saves
  NoPlan,
  MaxRuns,       \* bound: plans that are made
  MaxCrashes     \* bound: deaths of engines, threads and the overseer

Executor == Engine \cup Thread

ASSUME WorkflowAssumption ==
  /\ Engine \cap Thread = {}
  /\ Goals \subseteq GoalKind
  /\ DispatchMax \in Nat \ {0}
  /\ MaxRuns \in Nat /\ MaxCrashes \in Nat

VARIABLES
  file,          \* WORKFLOW_FILE: a plan, Absent, Empty or Torn
  pc,            \* where each executor is
  plan,          \* its copy of the plan
  work,          \* the batches it has still to execute; it saves after each one
  orphan,        \* executors whose open file has been unlinked
  runs,          \* plans made so far
  crashes,
  begun,         \* <<run, task>>: somebody began it
  repeated,      \* <<run, task>>: somebody began it once more
  completed,     \* <<run, task>>: somebody completed it
  disturbed      \* runs that two executors held at once, or one died holding

vars == <<file, pc, plan, work, orphan, runs, crashes,
          begun, repeated, completed, disturbed>>

history == <<begun, repeated, completed, disturbed>>

Status == {"PENDING", "RUNNING", "COMPLETED", "FAILED"}

NewPlan(run, goal) ==
  [run |-> run, goal |-> goal, status |-> [t \in TaskOf(goal) |-> "PENDING"]]

IsPlan(p) ==
  /\ DOMAIN p = {"run", "goal", "status"}
  /\ p.run \in 1..MaxRuns /\ p.goal \in Goals
  /\ p.status \in [TaskOf(p.goal) -> Status]

\* What _load_workflow() gets from the file; None unless it is a whole plan.
Loaded == IF file \in {Absent, Empty, Torn} THEN NoPlan ELSE file

Having(p, status) == {t \in DOMAIN p.status : p.status[t] = status}

Init ==
  /\ file = Absent
  /\ pc = [x \in Executor |-> "idle"]
  /\ plan = [x \in Executor |-> NoPlan]
  /\ work = [x \in Executor |-> <<>>]
  /\ orphan = {}
  /\ runs = 0 /\ crashes = 0
  /\ begun = {} /\ repeated = {} /\ completed = {} /\ disturbed = {}

\* The executors that hold a copy of the plan of a run.
Holders(run) == {x \in Executor : plan[x] # NoPlan /\ plan[x].run = run}

-------------------------------------------------------------------------------

\* WorkflowEngine.run() up to its first save: a plan for a goal, in batches.
\* The empty batches stand for the saves before the first and after the last.
Run(e) ==
  /\ pc[e] = "idle" /\ runs < MaxRuns
  /\ runs' = runs + 1
  /\ \E goal \in Goals :
       /\ plan' = [plan EXCEPT ![e] = NewPlan(runs', goal)]
       /\ work' = [work EXCEPT ![e] = << <<>> >> \o OptimizeSchedule(goal) \o << <<>> >>]
  /\ pc' = [pc EXCEPT ![e] = "ready"]
  /\ UNCHANGED <<file, orphan, crashes, history>>

\* The overseer's tick: get_status() loads the file, and a thread is started
\* when a task is pending, whether or not another thread is still at work.
Spawn(d) ==
  /\ pc[d] = "idle"
  /\ Loaded # NoPlan /\ Having(Loaded, "PENDING") # {}
  /\ pc' = [pc EXCEPT ![d] = "spawned"]
  /\ UNCHANGED <<file, plan, work, orphan, runs, crashes, history>>

\* Mutated form: the dependencies are not looked at.
Ready_AnyPending(p) == Having(p, "PENDING")

Ready(p) ==
  {t \in Having(p, "PENDING") : DependsOn(p.goal, t) \subseteq Having(p, "COMPLETED")}

ByPriority(goal, tasks) ==
  FlattenSeq([k \in 1..6 |->
    InPlanOrder(goal, {t \in tasks : Decompose[goal][t].priority = k})])

Supported(goal, t) == EngineOf(goal, t) \in LlmEngine \cup {"SYSTEM_EXEC"}

\* Mutated form: the limit counts from zero.
Chosen_OneLess(goal, ready) ==
  LET sorted == ByPriority(goal, ready)
      few == SubSeq(sorted, 1, IF Len(sorted) < DispatchMax THEN Len(sorted)
                               ELSE DispatchMax - 1)
  IN SelectSeq(few, LAMBDA t : Supported(goal, t))

\* Of the ready tasks a thread executes the first ones by priority, less those
\* of the engines it does not know, which keep their place in the count.
Chosen(goal, ready) ==
  LET sorted == ByPriority(goal, ready)
      few == IF Len(sorted) < DispatchMax THEN sorted ELSE SubSeq(sorted, 1, DispatchMax)
  IN SelectSeq(few, LAMBDA t : Supported(goal, t))

ASSUME ChoiceAssumption ==
  \A goal \in GoalKind : \A ready \in SUBSET TaskOf(goal) :
    /\ Chosen(goal, ready) \in Seq(ready)
    /\ \A i, j \in DOMAIN Chosen(goal, ready) :
         Chosen(goal, ready)[i] = Chosen(goal, ready)[j] => i = j

Dispatched(p) == Chosen(p.goal, Ready(p))

\* The thread loads the plan, which may have changed or gone since the tick.
\* Without a task to execute it is over: it saves nothing.
Load(d) ==
  /\ pc[d] = "spawned"
  /\ IF Loaded = NoPlan \/ (Loaded # NoPlan /\ Dispatched(Loaded) = <<>>)
       THEN /\ pc' = [pc EXCEPT ![d] = "idle"]
            /\ UNCHANGED <<plan, work, disturbed>>
       ELSE /\ pc' = [pc EXCEPT ![d] = "ready"]
            /\ plan' = [plan EXCEPT ![d] = Loaded]
            /\ work' = [work EXCEPT ![d] = <<Dispatched(Loaded)>>]
            /\ disturbed' = IF Holders(Loaded.run) = {} THEN disturbed
                            ELSE disturbed \cup {Loaded.run}
  /\ UNCHANGED <<file, orphan, runs, crashes, begun, repeated, completed>>

-------------------------------------------------------------------------------

Current(x) == Head(Head(work[x]))
Key(x) == <<plan[x].run, Current(x)>>

\* The next task of the batch. Only the engine notes that it is running.
Begin(x) ==
  /\ pc[x] = "ready" /\ Head(work[x]) # <<>>
  /\ pc' = [pc EXCEPT ![x] = "busy"]
  /\ plan' = IF x \in Engine
             THEN [plan EXCEPT ![x].status[Current(x)] = "RUNNING"] ELSE plan
  /\ begun' = begun \cup {Key(x)}
  /\ repeated' = IF Key(x) \in begun THEN repeated \cup {Key(x)} ELSE repeated
  /\ UNCHANGED <<file, work, orphan, runs, crashes, completed, disturbed>>

\* The task is over. The engine's tasks never fail: what goes wrong in a
\* command becomes its result.
End(x) ==
  /\ pc[x] = "busy"
  /\ \E outcome \in {"COMPLETED"} \cup (IF x \in Thread THEN {"FAILED"} ELSE {}) :
       /\ plan' = [plan EXCEPT ![x].status[Current(x)] = outcome]
       /\ completed' = IF outcome = "COMPLETED" THEN completed \cup {Key(x)}
                       ELSE completed
  /\ work' = [work EXCEPT ![x] = <<Tail(Head(@))>> \o Tail(@)]
  /\ pc' = [pc EXCEPT ![x] = "ready"]
  /\ UNCHANGED <<file, orphan, runs, crashes, begun, repeated, disturbed>>

\* _save_workflow(): the file is opened and emptied, or created ...
OpenFile(x) ==
  /\ pc[x] = "ready" /\ Head(work[x]) = <<>>
  /\ file' = Empty
  /\ pc' = [pc EXCEPT ![x] = "open"]
  /\ UNCHANGED <<plan, work, orphan, runs, crashes, history>>

\* Mutated form: what the engine executes are not the tasks of the plan it saves.
Saved_OtherTasks(x) ==
  IF x \in Engine THEN NewPlan(plan[x].run, plan[x].goal) ELSE plan[x]

\* Mutated form: the answer of the subagent is not looked at.
Saved_FailedToo(x) ==
  [plan[x] EXCEPT !.status = [t \in DOMAIN @ |->
     IF @[t] = "FAILED" THEN "COMPLETED" ELSE @[t]]]

\* What the executor saves: the whole plan, as it has it.
Saved(x) == plan[x]

\* ... and the plan is written. Over what another save has written in between
\* it may leave the end of the longer one. A file that has been unlinked since
\* it was opened takes the plan with it.
Write(x) ==
  /\ pc[x] = "open"
  /\ IF x \in orphan THEN UNCHANGED file
     ELSE file' \in {Saved(x)} \cup (IF file = Empty THEN {} ELSE {Torn})
  /\ orphan' = orphan \ {x}
  /\ work' = [work EXCEPT ![x] = Tail(@)]
  /\ IF Len(work[x]) > 1
     THEN /\ pc' = [pc EXCEPT ![x] = "ready"]
          /\ UNCHANGED plan
     ELSE /\ pc' = [pc EXCEPT ![x] = "idle"]
          /\ plan' = [plan EXCEPT ![x] = NoPlan]
  /\ UNCHANGED <<runs, crashes, history>>

-------------------------------------------------------------------------------

\* The command `workflow clear`.
Clear ==
  /\ file # Absent
  /\ file' = Absent
  /\ orphan' = {x \in Executor : pc[x] = "open"}
  /\ UNCHANGED <<pc, plan, work, runs, crashes, history>>

\* A process dies with all it holds: an engine, or the overseer with its
\* threads. An exception outside a task's execution (the disk is full, the log
\* cannot be written) does the same to one thread: its handler just returns.
Die(gone) ==
  /\ crashes < MaxCrashes
  /\ \E x \in gone : pc[x] # "idle"
  /\ pc' = [x \in Executor |-> IF x \in gone THEN "idle" ELSE pc[x]]
  /\ plan' = [x \in Executor |-> IF x \in gone THEN NoPlan ELSE plan[x]]
  /\ work' = [x \in Executor |-> IF x \in gone THEN <<>> ELSE work[x]]
  /\ orphan' = orphan \ gone
  /\ crashes' = crashes + 1
  /\ disturbed' = disturbed \cup {plan[x].run : x \in {y \in gone : plan[y] # NoPlan}}
  /\ UNCHANGED <<file, runs, begun, repeated, completed>>

Execute(x) == Begin(x) \/ End(x) \/ OpenFile(x) \/ Write(x)
Tick == \E d \in Thread : Spawn(d)

Next ==
  \/ \E e \in Engine : Run(e) \/ Die({e})
  \/ Tick
  \/ \E d \in Thread : Load(d) \/ Die({d})
  \/ \E x \in Executor : Execute(x)
  \/ Clear
  \/ Die(Thread)

Spec == Init /\ [][Next]_vars

\* An executor goes on: commands and requests have a timeout. The overseer
\* ticks on, in a thread of its own.
Fairness ==
  /\ \A x \in Executor : WF_vars(Execute(x))
  /\ \A d \in Thread : WF_vars(Load(d))
  /\ WF_vars(Tick)

FairSpec == Spec /\ Fairness

-------------------------------------------------------------------------------

\* Every variable keeps its type; an executor that is at work has a plan and
\* a batch, one that is not has neither.
TypeOK ==
  /\ file \in {Absent, Empty, Torn} \/ IsPlan(file)
  /\ pc \in [Executor -> {"idle", "spawned", "ready", "busy", "open"}]
  /\ \A e \in Engine : pc[e] # "spawned"
  /\ \A x \in Executor :
       IF pc[x] \in {"idle", "spawned"} THEN plan[x] = NoPlan /\ work[x] = <<>>
       ELSE IsPlan(plan[x]) /\ work[x] # <<>>
  /\ orphan \subseteq {x \in Executor : pc[x] = "open"}
  /\ runs \in 0..MaxRuns /\ crashes \in 0..MaxCrashes
  /\ repeated \cup completed \subseteq begun
  /\ disturbed \subseteq 1..runs

\* Nobody begins a task before all the tasks it depends on have been completed,
\* by whomever: neither the engine with its batches nor a thread with a plan
\* that is out of date (engine/dag.py optimize_schedule, lib/overseer.py
\* _dispatch_workflow).
StartedAfterDependencies ==
  \A x \in Executor : pc[x] = "busy" =>
    \A t \in DependsOn(plan[x].goal, Current(x)) : <<plan[x].run, t>> \in completed

\* What the file says is true and makes sense, though saves overwrite each
\* other: a task it has as completed was completed, and so are, in the file,
\* the tasks it depends on (engine/workflow.py _save_workflow).
FileTellsTrue ==
  Loaded # NoPlan =>
    \A t \in Having(Loaded, "COMPLETED") :
      /\ <<Loaded.run, t>> \in completed
      /\ DependsOn(Loaded.goal, t) \subseteq Having(Loaded, "COMPLETED")

\* A task is executed a second time only if two executors were at work on its
\* plan at once, or one died at it: on its own a thread, or the engine, leaves
\* a plan that has nothing to be done again, failed tasks included
\* (lib/overseer.py _dispatch_workflow).
RepeatedOnlyIfDisturbed == \A key \in repeated : key[1] \in disturbed

\* However the ticks overlap and whatever the threads' saves undo, the overseer
\* comes to an end with a plan: from some time on the file holds no plan, or one
\* that has no task left the overseer could execute (lib/overseer.py
\* _dispatch_workflow and the tick of _daemon_loop).
Settled ==
  Loaded # NoPlan => {t \in Ready(Loaded) : Supported(Loaded.goal, t)} = {}

PlansSettle == <>[]Settled
===============================================================================
