----------------------------- MODULE DagScheduler -----------------------------
(***************************************************************************)
(* The order in which the workflow engine executes the tasks of a plan     *)
(* (engine/dag.py), and the plans there are (engine/workflow.py).          *)
(*                                                                         *)
(* A plan is a sequence of tasks; a task is known by its place in it, which *)
(* is also the order in which add_task() has seen it.                      *)
(***************************************************************************)
EXTENDS Naturals, SequencesExt

LlmEngine == {"LLM_REASONING", "LLM_CODE"}
EngineType == LlmEngine \cup {"WEB_RESEARCH", "IMAGE_GEN", "SYSTEM_EXEC", "DOCKER"}

NewTask(engine, dependsOn, priority) ==
  [engine |-> engine, dependsOn |-> dependsOn, priority |-> priority]

\* A plan whose every task waits for the one before it.
Chain(engines) ==
  [i \in DOMAIN engines |-> NewTask(engines[i], {i - 1} \ {0}, i)]

\* What decompose() makes of a goal, by the kind of goal it takes it for.
Decompose ==
  [website |->
     << NewTask("LLM_REASONING", {}, 1), NewTask("WEB_RESEARCH", {1}, 2),
        NewTask("LLM_CODE", {1}, 2),     NewTask("LLM_REASONING", {2}, 3),
        NewTask("IMAGE_GEN", {4}, 4),    NewTask("DOCKER", {3, 5}, 5) >>,
   api |->
     << NewTask("LLM_REASONING", {}, 1), NewTask("LLM_CODE", {1}, 2),
        NewTask("LLM_CODE", {1}, 2),     NewTask("LLM_CODE", {1}, 2),
        NewTask("LLM_REASONING", {3, 4}, 3), NewTask("DOCKER", {5}, 4) >>,
   research |-> Chain(<<"LLM_REASONING", "WEB_RESEARCH", "LLM_REASONING",
                        "LLM_REASONING">>),
   pentest  |-> Chain(<<"LLM_REASONING", "SYSTEM_EXEC", "LLM_REASONING",
                        "LLM_CODE", "LLM_REASONING", "LLM_REASONING">>),
   social   |-> Chain(<<"WEB_RESEARCH", "LLM_REASONING", "LLM_CODE",
                        "SYSTEM_EXEC", "LLM_REASONING">>),
   malware  |-> Chain(<<"LLM_REASONING", "SYSTEM_EXEC", "LLM_CODE",
                        "LLM_REASONING", "LLM_REASONING">>),
   network  |-> Chain(<<"SYSTEM_EXEC", "SYSTEM_EXEC", "LLM_REASONING",
                        "SYSTEM_EXEC", "LLM_REASONING", "LLM_REASONING">>),
   generic  |-> Chain(<<"LLM_REASONING", "LLM_CODE", "SYSTEM_EXEC">>)]

GoalKind == DOMAIN Decompose
TaskOf(goal) == DOMAIN Decompose[goal]
DependsOn(goal, t) == Decompose[goal][t].dependsOn

-------------------------------------------------------------------------------

InPlanOrder(goal, tasks) ==
  SelectSeq([t \in TaskOf(goal) |-> t], LAMBDA t : t \in tasks)

\* The queue of _topological_sort() with all that has passed through it: once
\* the i-th task is taken out, its dependents whose in-degree falls to zero
\* with it come in, in the order of the plan. (No plan has a cycle, so the
\* queue holds every task at the end.)
TopologicalSort(goal) ==
  FoldLeft(
    LAMBDA queue, i :
      queue \o InPlanOrder(goal,
                 {t \in TaskOf(goal) :
                    /\ queue[i] \in DependsOn(goal, t)
                    /\ DependsOn(goal, t) \subseteq {queue[j] : j \in 1..i}}),
    InPlanOrder(goal, {t \in TaskOf(goal) : DependsOn(goal, t) = {}}),
    [t \in TaskOf(goal) |-> t])

EngineOf(goal, t) == Decompose[goal][t].engine

\* The sorted tasks, cut where the engine changes.
OptimizeSchedule(goal) ==
  FoldLeft(
    LAMBDA batches, t :
      IF batches # <<>> /\ EngineOf(goal, Last(Last(batches))) = EngineOf(goal, t)
      THEN Append(Front(batches), Append(Last(batches), t))
      ELSE Append(batches, <<t>>),
    <<>>, TopologicalSort(goal))

-------------------------------------------------------------------------------
Before(i, j, k, l) == i < k \/ (i = k /\ j < l)

\* What the executors rely on, of each of the plans: the batches have no task
\* twice, and the tasks one depends on come before it.
InOrder(goal, batches) ==
  /\ batches \in Seq(Seq(TaskOf(goal)))
  /\ \A k \in DOMAIN batches : \A l \in DOMAIN batches[k] :
       /\ \A i \in DOMAIN batches : \A j \in DOMAIN batches[i] :
            batches[i][j] = batches[k][l] => i = k /\ j = l
       /\ \A t \in DependsOn(goal, batches[k][l]) :
            \E i \in DOMAIN batches : \E j \in DOMAIN batches[i] :
              Before(i, j, k, l) /\ batches[i][j] = t

ASSUME ScheduleAssumption ==
  \A goal \in GoalKind : InOrder(goal, OptimizeSchedule(goal))
===============================================================================
