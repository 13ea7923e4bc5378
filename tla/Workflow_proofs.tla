---------------------------- MODULE Workflow_proofs ----------------------------
(***************************************************************************)
(* Proofs about a workflow and those who execute it, for any number of     *)
(* engines and of threads that overlap, and deaths at any of their steps.  *)
(* What the folds of DagScheduler compute is taken from the assumptions    *)
(* ScheduleAssumption and ChoiceAssumption, which TLC evaluates for all    *)
(* the plans there are.                                                    *)
(***************************************************************************)
EXTENDS Workflow, TLAPS

AtWork(x) == pc[x] \in {"ready", "busy", "open"}
NotAPlan == {Absent, Empty, Torn}

\* A plan says only of tasks that were ever completed that they are, and has what
\* they depend on completed too.
Truthful(p, ever) ==
  /\ IsPlan(p)
  /\ \A t \in Having(p, "COMPLETED") :
       <<p.run, t>> \in ever /\ DependsOn(p.goal, t) \subseteq Having(p, "COMPLETED")

\* The batches can be executed from where they are: no task is in them twice or is
\* done, and what one depends on is done, or, unless it is strict, comes before it.
Doable(goal, done, batches, strict) ==
  \A k \in DOMAIN batches : \A l \in DOMAIN batches[k] :
    /\ batches[k][l] \notin done
    /\ \A i \in DOMAIN batches : \A j \in DOMAIN batches[i] :
         batches[i][j] = batches[k][l] => i = k /\ j = l
    /\ \A t \in DependsOn(goal, batches[k][l]) :
         \/ t \in done
         \/ ~strict /\ \E i \in DOMAIN batches : \E j \in DOMAIN batches[i] :
                         Before(i, j, k, l) /\ batches[i][j] = t

Fits(p, batches, strict) ==
  /\ batches \in Seq(Seq(TaskOf(p.goal))) /\ batches # <<>>
  /\ Doable(p.goal, Having(p, "COMPLETED"), batches, strict)

WorkInv(x) ==
  /\ Truthful(plan[x], completed)
  /\ Fits(plan[x], work[x], x \in Thread)
  /\ pc[x] = "busy" => Head(work[x]) # <<>>
  /\ pc[x] = "open" => Head(work[x]) = <<>>

Shape ==
  /\ pc \in [Executor -> {"idle", "spawned", "ready", "busy", "open"}]
  /\ DOMAIN plan = Executor /\ DOMAIN work = Executor
  /\ runs \in Nat

TruthInv ==
  /\ Shape
  /\ file \in NotAPlan \/ Truthful(file, completed)
  /\ \A x \in Executor : AtWork(x) => WorkInv(x)

\* The tasks of p that were begun are no longer pending.
NoneAgain(p) == \A t \in TaskOf(p.goal) : <<p.run, t>> \in begun => p.status[t] # "PENDING"

\* While nobody disturbs x, no task it has still to begin was begun.
OwnInv(x) ==
  /\ plan[x].run <= runs
  /\ plan[x].run \notin disturbed =>
       /\ \A k \in DOMAIN work[x] : \A l \in DOMAIN work[x][k] :
            <<plan[x].run, work[x][k][l]>> \in begun => pc[x] = "busy" /\ k = 1 /\ l = 1
       /\ \A t \in TaskOf(plan[x].goal) :
            <<plan[x].run, t>> \in begun /\ plan[x].status[t] = "PENDING" =>
              pc[x] = "busy" /\ t = Current(x)
       /\ \A y \in Executor : y # x /\ AtWork(y) => plan[y].run # plan[x].run
       /\ pc[x] = "open" => file \in NotAPlan \/ file.run # plan[x].run

FileInv ==
  file \notin NotAPlan =>
    /\ file.run <= runs
    /\ file.run \in disturbed \/ (\E x \in Executor : AtWork(x) /\ plan[x].run = file.run)
         \/ NoneAgain(file)

OnceInv ==
  /\ \A key \in begun : key[1] \in Nat /\ key[1] <= runs
  /\ \A x \in Executor : AtWork(x) => OwnInv(x)
  /\ FileInv
  /\ RepeatedOnlyIfDisturbed

WorkflowInv == TruthInv /\ OnceInv

\* What stands for no plan is not one.
NoPlanIsNone == ~IsPlan(NoPlan)

-------------------------------------------------------------------------------
\* About sequences of batches.

LEMMA FirstTaken ==
  ASSUME NEW S, NEW b \in Seq(Seq(S)), b # <<>>, b[1] # <<>>, NEW b2,
         b2 = <<Tail(b[1])>> \o Tail(b)
  PROVE  /\ b2 \in Seq(Seq(S)) /\ b2 # <<>> /\ DOMAIN b2 = DOMAIN b
         /\ b2[1] = Tail(b[1]) /\ \A k \in DOMAIN b \ {1} : b2[k] = b[k]
         /\ \A l \in DOMAIN Tail(b[1]) : l + 1 \in DOMAIN b[1] /\ Tail(b[1])[l] = b[1][l + 1]
         /\ 1 \in DOMAIN b /\ 1 \in DOMAIN b[1] /\ Head(b[1]) = b[1][1]
         /\ \A l \in DOMAIN b[1] \ {1} : l - 1 \in DOMAIN Tail(b[1])
<1>1. b[1] \in Seq(S) /\ Len(b) \in Nat \ {0} /\ Len(b[1]) \in Nat \ {0}
  OBVIOUS
<1>2. Tail(b[1]) \in Seq(S) /\ Len(Tail(b[1])) = Len(b[1]) - 1
  BY <1>1
<1>3. Tail(b) \in Seq(Seq(S)) /\ Len(Tail(b)) = Len(b) - 1
  BY <1>1
<1>4. \A k \in 1..Len(b) - 1 : Tail(b)[k] = b[k + 1]
  BY <1>1
<1>5. b2 \in Seq(Seq(S)) /\ Len(b2) = Len(b)
  BY <1>2, <1>3
<1>6. b2[1] = Tail(b[1])
  BY <1>2, <1>3
<1>7. ASSUME NEW k \in 2..Len(b) PROVE b2[k] = b[k]
  <2>1. b2[k] = Tail(b)[k - 1]
    BY <1>1, <1>2, <1>3
  <2> QED BY <1>1, <1>4, <2>1
<1>8. DOMAIN b2 = DOMAIN b /\ DOMAIN b \ {1} = 2..Len(b)
  BY <1>1, <1>5
<1>9. \A l \in DOMAIN Tail(b[1]) : l + 1 \in DOMAIN b[1] /\ Tail(b[1])[l] = b[1][l + 1]
  BY <1>1, <1>2
<1>10. 1 \in DOMAIN b /\ 1 \in DOMAIN b[1] /\ Head(b[1]) = b[1][1]
  BY <1>1
<1>11. \A l \in DOMAIN b[1] \ {1} : l - 1 \in DOMAIN Tail(b[1])
  BY <1>1, <1>2
<1>12. b2 # <<>>
  BY <1>1, <1>5
<1> QED BY <1>5, <1>6, <1>7, <1>8, <1>9, <1>10, <1>11, <1>12

LEMMA BatchDropped ==
  ASSUME NEW S, NEW b \in Seq(Seq(S)), b # <<>>, b[1] = <<>>
  PROVE  /\ Tail(b) \in Seq(Seq(S)) /\ (Len(b) > 1 => Tail(b) # <<>>)
         /\ \A k \in DOMAIN Tail(b) : k + 1 \in DOMAIN b /\ Tail(b)[k] = b[k + 1]
         /\ \A k \in DOMAIN b : k - 1 \in DOMAIN Tail(b) \/ DOMAIN b[k] = {}
<1>1. Len(b) \in Nat \ {0} /\ Tail(b) \in Seq(Seq(S)) /\ Len(Tail(b)) = Len(b) - 1
  OBVIOUS
<1>2. Len(b) > 1 => Tail(b) # <<>>
  <2>1. ASSUME Len(b) > 1 PROVE 1 \in DOMAIN Tail(b)
    BY <1>1, <2>1
  <2>2. \A s : 1 \in DOMAIN s => s # <<>>
    OBVIOUS
  <2> QED BY <2>1, <2>2
<1>3. \A k \in DOMAIN Tail(b) : k + 1 \in DOMAIN b /\ Tail(b)[k] = b[k + 1]
  BY <1>1
<1>4. DOMAIN b[1] = {}
  OBVIOUS
<1>5. DOMAIN Tail(b) = 1..Len(b) - 1 /\ DOMAIN b = 1..Len(b)
  BY <1>1
<1>6. \A k \in 1..Len(b) : k - 1 \in 1..Len(b) - 1 \/ k = 1
  BY <1>1
<1> QED BY <1>1, <1>2, <1>3, <1>4, <1>5, <1>6

LEMMA DoableNext ==
  ASSUME NEW goal, NEW done, NEW S, NEW b \in Seq(Seq(S)), b # <<>>, b[1] # <<>>,
         NEW strict \in BOOLEAN, Doable(goal, done, b, strict),
         NEW done2, done2 = done \cup {Head(b[1])} \/ (strict /\ done2 = done)
  PROVE  Doable(goal, done2, <<Tail(b[1])>> \o Tail(b), strict)
<1> DEFINE b2 == <<Tail(b[1])>> \o Tail(b)
           From(k, l) == IF k = 1 THEN l + 1 ELSE l
<1>1. /\ b2 \in Seq(Seq(S)) /\ DOMAIN b2 = DOMAIN b
      /\ b2[1] = Tail(b[1]) /\ \A k \in DOMAIN b \ {1} : b2[k] = b[k]
      /\ \A l \in DOMAIN Tail(b[1]) : l + 1 \in DOMAIN b[1] /\ Tail(b[1])[l] = b[1][l + 1]
      /\ 1 \in DOMAIN b /\ 1 \in DOMAIN b[1] /\ Head(b[1]) = b[1][1]
      /\ \A l \in DOMAIN b[1] \ {1} : l - 1 \in DOMAIN Tail(b[1])
  BY FirstTaken
<1> HIDE DEF b2
<1>2. \A k \in DOMAIN b2 : \A l \in DOMAIN b2[k] :
        /\ k \in DOMAIN b /\ From(k, l) \in DOMAIN b[k] /\ b2[k][l] = b[k][From(k, l)]
  BY <1>1
<1>3. /\ DOMAIN b = 1..Len(b) /\ DOMAIN b2 = 1..Len(b2) /\ DOMAIN Tail(b[1]) \subseteq Nat \ {0}
      /\ \A k \in DOMAIN b : DOMAIN b[k] \subseteq Nat \ {0}
      /\ \A k \in DOMAIN b2 : DOMAIN b2[k] \subseteq Nat \ {0}
  <2>1. DOMAIN b = 1..Len(b) /\ DOMAIN b2 = 1..Len(b2)
    BY <1>1
  <2>2. \A s \in Seq(S) : DOMAIN s \subseteq Nat \ {0}
    OBVIOUS
  <2>3. \A k \in DOMAIN b : b[k] \in Seq(S)
    OBVIOUS
  <2>4. \A k \in DOMAIN b2 : b2[k] \in Seq(S)
    BY <1>1
  <2>5. Tail(b[1]) \in Seq(S)
    BY <1>1, <2>4
  <2> QED BY <2>1, <2>2, <2>3, <2>4, <2>5
<1>4. ASSUME NEW k \in DOMAIN b2, NEW l \in DOMAIN b2[k] PROVE b2[k][l] \notin done2
  <2>1. k \in DOMAIN b /\ From(k, l) \in DOMAIN b[k] /\ b2[k][l] = b[k][From(k, l)]
    BY <1>2
  <2>2. ~(k = 1 /\ From(k, l) = 1)
    BY <1>3
  <2>3. b[k][From(k, l)] \notin done /\ b[k][From(k, l)] # b[1][1]
    BY <1>1, <2>1, <2>2 DEF Doable
  <2> QED BY <1>1, <2>1, <2>3
<1>5. ASSUME NEW k \in DOMAIN b2, NEW l \in DOMAIN b2[k], NEW i \in DOMAIN b2,
             NEW j \in DOMAIN b2[i], b2[i][j] = b2[k][l]
      PROVE  i = k /\ j = l
  <2>1. k \in DOMAIN b /\ From(k, l) \in DOMAIN b[k] /\ b2[k][l] = b[k][From(k, l)]
    BY <1>2
  <2>2. i \in DOMAIN b /\ From(i, j) \in DOMAIN b[i] /\ b2[i][j] = b[i][From(i, j)]
    BY <1>2
  <2>3. i = k /\ From(i, j) = From(k, l)
    BY <1>5, <2>1, <2>2 DEF Doable
  <2>4. j \in Nat /\ l \in Nat
    BY <1>3
  <2> QED BY <2>3, <2>4
<1>6. ASSUME NEW k \in DOMAIN b2, NEW l \in DOMAIN b2[k], NEW t \in DependsOn(goal, b2[k][l])
      PROVE  \/ t \in done2
             \/ ~strict /\ \E i \in DOMAIN b2 : \E j \in DOMAIN b2[i] :
                             Before(i, j, k, l) /\ b2[i][j] = t
  <2>1. k \in DOMAIN b /\ From(k, l) \in DOMAIN b[k] /\ b2[k][l] = b[k][From(k, l)]
    BY <1>2
  <2>2. \/ t \in done
        \/ ~strict /\ \E i \in DOMAIN b : \E j \in DOMAIN b[i] :
                        Before(i, j, k, From(k, l)) /\ b[i][j] = t
    BY <2>1 DEF Doable
  <2>3. CASE t \in done
    BY <2>3
  <2>4. ASSUME ~strict, NEW i \in DOMAIN b, NEW j \in DOMAIN b[i],
               Before(i, j, k, From(k, l)), b[i][j] = t
        PROVE  t \in done2 \/ \E m \in DOMAIN b2 : \E n \in DOMAIN b2[m] :
                                Before(m, n, k, l) /\ b2[m][n] = t
    <3>1. CASE i = 1 /\ j = 1
      BY <1>1, <2>4, <3>1
    <3>2. CASE i = 1 /\ j # 1
      <4>1. j - 1 \in DOMAIN b2[1] /\ 1 \in DOMAIN b2 /\ j \in Nat
        BY <1>1, <1>3, <3>2
      <4>2. b2[1][j - 1] = t
        <5>1. b2[1][j - 1] = b[1][(j - 1) + 1]
          BY <1>1, <4>1
        <5> QED BY <2>4, <3>2, <4>1, <5>1
      <4>3. k \in Nat /\ l \in Nat
        BY <1>3
      <4>4. Before(1, j - 1, k, l)
        BY <2>4, <3>2, <4>1, <4>3 DEF Before
      <4> QED BY <4>1, <4>2, <4>4
    <3>3. CASE i # 1
      <4>1. i \in DOMAIN b2 /\ j \in DOMAIN b2[i] /\ b2[i][j] = t
        BY <1>1, <2>4, <3>3
      <4>2. k \in Nat \ {0} /\ l \in Nat /\ i \in Nat \ {0} /\ j \in Nat
        BY <1>3
      <4>3. Before(i, j, k, l)
        BY <2>4, <3>3, <4>2 DEF Before
      <4> QED BY <4>1, <4>3
    <3> QED BY <3>1, <3>2, <3>3
  <2> QED BY <2>2, <2>3, <2>4
<1>7. Doable(goal, done2, b2, strict)
  BY <1>4, <1>5, <1>6 DEF Doable
<1> QED BY <1>7 DEF b2

LEMMA DoableLater ==
  ASSUME NEW goal, NEW done, NEW S, NEW b \in Seq(Seq(S)), b # <<>>, b[1] = <<>>,
         NEW strict \in BOOLEAN, Doable(goal, done, b, strict)
  PROVE  Doable(goal, done, Tail(b), strict)
<1> DEFINE b2 == Tail(b)
<1>1. /\ \A k \in DOMAIN b2 : k + 1 \in DOMAIN b /\ b2[k] = b[k + 1]
      /\ \A k \in DOMAIN b : k - 1 \in DOMAIN b2 \/ DOMAIN b[k] = {}
  BY BatchDropped
<1>2. DOMAIN b \subseteq Nat /\ DOMAIN b2 \subseteq Nat
  OBVIOUS
<1> HIDE DEF b2
<1>3. ASSUME NEW k \in DOMAIN b2, NEW l \in DOMAIN b2[k], NEW i \in DOMAIN b2,
             NEW j \in DOMAIN b2[i], b2[i][j] = b2[k][l]
      PROVE  i = k /\ j = l
  <2>1. k + 1 = i + 1 /\ j = l
    BY <1>1, <1>3 DEF Doable
  <2> QED BY <1>2, <2>1
<1>4. ASSUME NEW k \in DOMAIN b2, NEW l \in DOMAIN b2[k], NEW t \in DependsOn(goal, b2[k][l])
      PROVE  \/ t \in done
             \/ ~strict /\ \E i \in DOMAIN b2 : \E j \in DOMAIN b2[i] :
                             Before(i, j, k, l) /\ b2[i][j] = t
  <2>1. k + 1 \in DOMAIN b /\ b2[k] = b[k + 1]
    BY <1>1
  <2>2. \/ t \in done
        \/ ~strict /\ \E i \in DOMAIN b : \E j \in DOMAIN b[i] :
                        Before(i, j, k + 1, l) /\ b[i][j] = t
    BY <2>1 DEF Doable
  <2>3. ASSUME NEW i \in DOMAIN b, NEW j \in DOMAIN b[i], Before(i, j, k + 1, l), b[i][j] = t
        PROVE  \E m \in DOMAIN b2 : \E n \in DOMAIN b2[m] : Before(m, n, k, l) /\ b2[m][n] = t
    <3>1. i - 1 \in DOMAIN b2 /\ (i - 1) + 1 = i /\ i \in Nat /\ k \in Nat
      BY <1>1, <1>2
    <3>2. j \in DOMAIN b2[i - 1] /\ b2[i - 1][j] = t
      BY <1>1, <2>3, <3>1
    <3>3. Before(i - 1, j, k, l)
      BY <2>3, <3>1 DEF Before
    <3> QED BY <3>1, <3>2, <3>3
  <2> QED BY <2>2, <2>3
<1>5. \A k \in DOMAIN b2 : \A l \in DOMAIN b2[k] : b2[k][l] \notin done
  BY <1>1 DEF Doable
<1>6. Doable(goal, done, b2, strict)
  BY <1>3, <1>4, <1>5 DEF Doable
<1> QED BY <1>6 DEF b2

\* What an engine sets out to execute, between its first save and its last.
LEMMA ScheduleIsDoable ==
  ASSUME NEW goal \in GoalKind
  PROVE  /\ << <<>> >> \o OptimizeSchedule(goal) \o << <<>> >> \in Seq(Seq(TaskOf(goal)))
         /\ << <<>> >> \o OptimizeSchedule(goal) \o << <<>> >> # <<>>
         /\ Head(<< <<>> >> \o OptimizeSchedule(goal) \o << <<>> >>) = <<>>
         /\ Doable(goal, {}, << <<>> >> \o OptimizeSchedule(goal) \o << <<>> >>, FALSE)
<1> DEFINE S == TaskOf(goal)
           s == OptimizeSchedule(goal)
           b == << <<>> >> \o s \o << <<>> >>
<1>1. InOrder(goal, s)
  BY ScheduleAssumption
<1>2. s \in Seq(Seq(S))
  BY <1>1 DEF InOrder
<1> HIDE DEF s, S
<1>3. << <<>> >> \in Seq(Seq(S))
  <2>1. <<>> \in Seq(S)
    OBVIOUS
  <2> QED BY <2>1
<1>4. Len(s) \in Nat /\ DOMAIN s = 1..Len(s)
  BY <1>2
<1>5. << <<>> >> \o s \in Seq(Seq(S)) /\ Len(<< <<>> >> \o s) = Len(s) + 1
  BY <1>2, <1>3
<1>6. b \in Seq(Seq(S)) /\ Len(b) = Len(s) + 2
  BY <1>3, <1>5
<1>7. DOMAIN b = 1..Len(s) + 2
  BY <1>6
<1>8. b[1] = <<>>
  <2>1. b[1] = (<< <<>> >> \o s)[1]
    BY <1>3, <1>4, <1>5
  <2> QED BY <1>2, <2>1
<1>9. b[Len(s) + 2] = <<>>
  BY <1>4, <1>5
<1>10. ASSUME NEW k \in 2..Len(s) + 1 PROVE b[k] = s[k - 1]
  <2>1. b[k] = (<< <<>> >> \o s)[k]
    BY <1>4, <1>5
  <2> QED BY <1>2, <1>4, <2>1
<1>11. b # <<>>
  <2>1. 1 \in DOMAIN b
    BY <1>4, <1>7
  <2>2. \A r : 1 \in DOMAIN r => r # <<>>
    OBVIOUS
  <2> QED BY <2>1, <2>2
<1>12. Head(b) = <<>>
  BY <1>6, <1>8, <1>11
<1> HIDE DEF b
<1>13. \A k \in DOMAIN b : \A l \in DOMAIN b[k] :
         k - 1 \in DOMAIN s /\ (k - 1) + 1 = k /\ b[k] = s[k - 1]
  <2>1. DOMAIN <<>> = {}
    OBVIOUS
  <2>2. \A k \in DOMAIN b : k = 1 \/ k = Len(s) + 2 \/ k \in 2..Len(s) + 1
    BY <1>4, <1>7
  <2>3. \A k \in 2..Len(s) + 1 : k - 1 \in 1..Len(s) /\ (k - 1) + 1 = k
    BY <1>4
  <2> QED BY <1>4, <1>8, <1>9, <1>10, <2>1, <2>2, <2>3
<1>14. \A i \in DOMAIN s : i + 1 \in DOMAIN b /\ b[i + 1] = s[i]
  <2>1. \A i \in 1..Len(s) : i + 1 \in 2..Len(s) + 1 /\ (i + 1) - 1 = i /\ i + 1 \in 1..Len(s) + 2
    BY <1>4
  <2> QED BY <1>4, <1>7, <1>10, <2>1
<1>15. ASSUME NEW k \in DOMAIN b, NEW l \in DOMAIN b[k], NEW i \in DOMAIN b, NEW j \in DOMAIN b[i],
              b[i][j] = b[k][l]
       PROVE  i = k /\ j = l
  <2>1. i - 1 = k - 1 /\ j = l
    BY <1>1, <1>13, <1>15 DEF InOrder
  <2>2. i \in Nat /\ k \in Nat
    BY <1>7
  <2> QED BY <2>1, <2>2
<1>16. ASSUME NEW k \in DOMAIN b, NEW l \in DOMAIN b[k], NEW t \in DependsOn(goal, b[k][l])
       PROVE  \E i \in DOMAIN b : \E j \in DOMAIN b[i] : Before(i, j, k, l) /\ b[i][j] = t
  <2>1. k - 1 \in DOMAIN s /\ b[k] = s[k - 1]
    BY <1>13
  <2>2. PICK i \in DOMAIN s : \E j \in DOMAIN s[i] : Before(i, j, k - 1, l) /\ s[i][j] = t
    BY <1>1, <2>1 DEF InOrder
  <2>3. i \in Nat /\ k \in Nat
    BY <1>4, <1>7
  <2>4. \A j : Before(i, j, k - 1, l) => Before(i + 1, j, k, l)
    BY <2>3 DEF Before
  <2> QED BY <1>14, <2>2, <2>4
<1>17. Doable(goal, {}, b, FALSE)
  BY <1>15, <1>16 DEF Doable
<1> QED BY <1>6, <1>11, <1>12, <1>17 DEF b, s, S

\* What a thread sets out to execute.
LEMMA ChoiceIsDoable ==
  ASSUME NEW goal \in GoalKind, NEW ready \in SUBSET TaskOf(goal), NEW done,
         \A t \in ready : t \notin done /\ DependsOn(goal, t) \subseteq done,
         Chosen(goal, ready) # <<>>
  PROVE  /\ <<Chosen(goal, ready)>> \in Seq(Seq(TaskOf(goal)))
         /\ \A k \in DOMAIN <<Chosen(goal, ready)>> : \A l \in DOMAIN <<Chosen(goal, ready)>>[k] :
              <<Chosen(goal, ready)>>[k][l] \in ready
         /\ Doable(goal, done, <<Chosen(goal, ready)>>, TRUE)
<1> DEFINE c == Chosen(goal, ready)
           S == TaskOf(goal)
           b == <<c>>
<1>1. c \in Seq(ready) /\ \A i, j \in DOMAIN c : c[i] = c[j] => i = j
  BY ChoiceAssumption
<1> HIDE DEF c, S
<1>2. c \in Seq(S)
  BY <1>1 DEF S
<1>3. b \in Seq(Seq(S)) /\ DOMAIN b = {1} /\ b[1] = c
  BY <1>2
<1> HIDE DEF b
<1>4. \A l \in DOMAIN c : c[l] \in ready
  BY <1>1
<1>5. \A k \in DOMAIN b : \A l \in DOMAIN b[k] : k = 1 /\ l \in DOMAIN c /\ b[k][l] = c[l]
  BY <1>3
<1>6. Doable(goal, done, b, TRUE)
  BY <1>1, <1>4, <1>5 DEF Doable
<1>7. \A k \in DOMAIN b : \A l \in DOMAIN b[k] : b[k][l] \in ready
  BY <1>4, <1>5
<1> QED BY <1>3, <1>6, <1>7 DEF b, c, S

-------------------------------------------------------------------------------
\* About plans.

LEMMA NewPlanFits ==
  ASSUME NEW goal \in Goals, NEW run \in 1..MaxRuns, NEW ever
  PROVE  /\ Truthful(NewPlan(run, goal), ever)
         /\ NewPlan(run, goal).run = run /\ NewPlan(run, goal).goal = goal
         /\ Having(NewPlan(run, goal), "COMPLETED") = {}
<1> DEFINE p == NewPlan(run, goal)
<1>1. DOMAIN p = {"run", "goal", "status"} /\ p.run = run /\ p.goal = goal
      /\ p.status = [t \in TaskOf(goal) |-> "PENDING"]
  BY DEF NewPlan
<1>2. p.status \in [TaskOf(p.goal) -> Status]
  BY <1>1 DEF Status
<1> HIDE DEF p
<1>3. IsPlan(p)
  BY <1>1, <1>2 DEF IsPlan
<1>4. Having(p, "COMPLETED") = {}
  BY <1>1 DEF Having
<1>5. Truthful(p, ever)
  BY <1>3, <1>4 DEF Truthful
<1> QED BY <1>1, <1>4, <1>5 DEF p

LEMMA StatusSet ==
  ASSUME NEW p, IsPlan(p), NEW t \in TaskOf(p.goal), NEW s \in Status, NEW q,
         q = [p EXCEPT !.status = [@ EXCEPT ![t] = s]]
  PROVE  /\ IsPlan(q) /\ q.run = p.run /\ q.goal = p.goal
         /\ q.status[t] = s /\ \A u \in TaskOf(p.goal) \ {t} : q.status[u] = p.status[u]
         /\ s = "COMPLETED" => Having(q, "COMPLETED") = Having(p, "COMPLETED") \cup {t}
         /\ s # "COMPLETED" /\ t \notin Having(p, "COMPLETED") =>
              Having(q, "COMPLETED") = Having(p, "COMPLETED")
<1>1. /\ DOMAIN q = {"run", "goal", "status"} /\ q.run = p.run /\ q.goal = p.goal
      /\ q.status = [p.status EXCEPT ![t] = s]
  BY DEF IsPlan
<1>2. p.status \in [TaskOf(p.goal) -> Status]
  BY DEF IsPlan
<1>3. q.status \in [TaskOf(p.goal) -> Status]
  BY <1>1, <1>2
<1>4. IsPlan(q)
  BY <1>1, <1>3 DEF IsPlan
<1>5. q.status[t] = s /\ \A u \in TaskOf(p.goal) \ {t} : q.status[u] = p.status[u]
  BY <1>1, <1>2
<1>6. DOMAIN q.status = TaskOf(p.goal) /\ DOMAIN p.status = TaskOf(p.goal)
  BY <1>2, <1>3
<1>7. /\ s = "COMPLETED" => Having(q, "COMPLETED") = Having(p, "COMPLETED") \cup {t}
      /\ s # "COMPLETED" /\ t \notin Having(p, "COMPLETED") =>
           Having(q, "COMPLETED") = Having(p, "COMPLETED")
  BY <1>5, <1>6 DEF Having
<1> QED BY <1>1, <1>4, <1>5, <1>7

LEMMA TruthGrows ==
  ASSUME NEW p, NEW ever, NEW more, ever \subseteq more, Truthful(p, ever)
  PROVE  Truthful(p, more)
BY DEF Truthful

\* The task in front: its dependencies are completed, and it is not.
LEMMA InFront ==
  ASSUME NEW p, IsPlan(p), NEW b, NEW strict \in BOOLEAN, Fits(p, b, strict), Head(b) # <<>>
  PROVE  /\ Head(Head(b)) \in TaskOf(p.goal) /\ Head(Head(b)) \notin Having(p, "COMPLETED")
         /\ DependsOn(p.goal, Head(Head(b))) \subseteq Having(p, "COMPLETED")
         /\ b[1] # <<>> /\ Head(b) = b[1] /\ Head(Head(b)) = b[1][1]
         /\ 1 \in DOMAIN b /\ 1 \in DOMAIN b[1]
<1> DEFINE S == TaskOf(p.goal)
<1>1. b \in Seq(Seq(S)) /\ b # <<>>
  BY DEF Fits
<1> HIDE DEF S
<1>2. b[1] \in Seq(S) /\ 1 \in DOMAIN b /\ Head(b) = b[1]
  BY <1>1
<1>3. b[1] # <<>>
  BY <1>2
<1>4. b[1][1] \in S /\ 1 \in DOMAIN b[1] /\ Head(b[1]) = b[1][1]
  BY <1>2, <1>3
<1>5. b[1][1] \notin Having(p, "COMPLETED")
  BY <1>2, <1>4 DEF Fits, Doable
<1>6. ASSUME NEW t \in DependsOn(p.goal, b[1][1]) PROVE t \in Having(p, "COMPLETED")
  <2>1. \/ t \in Having(p, "COMPLETED")
        \/ \E i \in DOMAIN b : \E j \in DOMAIN b[i] : Before(i, j, 1, 1)
    BY <1>2, <1>4 DEF Fits, Doable
  <2>2. \A i \in DOMAIN b : i \in Nat \ {0} /\ \A j \in DOMAIN b[i] : j \in Nat \ {0}
    BY <1>1
  <2>3. \A i, j \in Nat \ {0} : ~Before(i, j, 1, 1)
    BY DEF Before
  <2> QED BY <2>1, <2>2, <2>3
<1> QED BY <1>2, <1>3, <1>4, <1>5, <1>6 DEF S

-------------------------------------------------------------------------------
\* The truth of the plans.

LEMMA TruthInit == Init => TruthInv
<1> SUFFICES ASSUME Init PROVE TruthInv
  OBVIOUS
<1>1. \A x \in Executor : ~AtWork(x)
  BY DEF Init, AtWork
<1>2. Shape
  BY DEF Init, Shape
<1>3. file \in NotAPlan
  BY DEF Init, NotAPlan
<1> QED BY <1>1, <1>2, <1>3 DEF TruthInv

\* Whoever takes no part in a step keeps what it has.
LEMMA OthersWork ==
  ASSUME NEW y \in Executor, AtWork(y) => WorkInv(y),
         pc'[y] = pc[y], plan'[y] = plan[y], work'[y] = work[y], completed \subseteq completed'
  PROVE  (AtWork(y) => WorkInv(y))'
BY TruthGrows DEF AtWork, WorkInv

LEMMA TruthRun ==
  ASSUME TruthInv, NEW e \in Engine, Run(e)
  PROVE  TruthInv'
<1> USE DEF Run
<1>1. e \in Executor /\ e \notin Thread /\ runs + 1 \in 1..MaxRuns /\ runs' = runs + 1
  BY WorkflowAssumption DEF Executor, TruthInv, Shape
<1>2. PICK goal \in Goals :
        /\ plan' = [plan EXCEPT ![e] = NewPlan(runs', goal)]
        /\ work' = [work EXCEPT ![e] = << <<>> >> \o OptimizeSchedule(goal) \o << <<>> >>]
  OBVIOUS
<1> DEFINE p == NewPlan(runs', goal)
           b == << <<>> >> \o OptimizeSchedule(goal) \o << <<>> >>
<1>3. Shape'
  BY <1>1, <1>2 DEF TruthInv, Shape
<1>4. Truthful(p, completed) /\ p.goal = goal /\ Having(p, "COMPLETED") = {}
  BY <1>1, NewPlanFits
<1>5. /\ b \in Seq(Seq(TaskOf(goal))) /\ b # <<>> /\ Doable(goal, {}, b, FALSE)
  BY ScheduleIsDoable, WorkflowAssumption
<1>6. plan'[e] = p /\ work'[e] = b /\ pc'[e] = "ready"
  BY <1>1, <1>2 DEF TruthInv, Shape
<1> HIDE DEF p, b
<1>7. Fits(p, b, FALSE)
  BY <1>4, <1>5 DEF Fits
<1>8. (e \in Thread) = FALSE
  BY <1>1
<1>9. WorkInv(e)'
  <2>1. Truthful(plan'[e], completed')
    BY <1>4, <1>6 DEF history
  <2>2. Fits(plan'[e], work'[e], e \in Thread)
    BY <1>6, <1>7, <1>8
  <2> QED BY <1>6, <2>1, <2>2 DEF WorkInv
<1>10. ASSUME NEW y \in Executor, y # e PROVE (AtWork(y) => WorkInv(y))'
  <2>1. pc'[y] = pc[y] /\ plan'[y] = plan[y] /\ work'[y] = work[y] /\ completed' = completed
    BY <1>2, <1>10 DEF TruthInv, Shape, history
  <2> QED BY <2>1, OthersWork DEF TruthInv
<1>11. (file \in NotAPlan \/ Truthful(file, completed))'
  BY DEF TruthInv, history, NotAPlan
<1> QED BY <1>3, <1>9, <1>10, <1>11 DEF TruthInv

LEMMA TruthSpawn ==
  ASSUME TruthInv, NEW d \in Thread, Spawn(d)
  PROVE  TruthInv'
<1> USE DEF Spawn
<1>1. Shape'
  BY DEF TruthInv, Shape
<1>2. ASSUME NEW y \in Executor PROVE (AtWork(y) => WorkInv(y))'
  <2>1. CASE y = d
    BY <2>1 DEF TruthInv, Shape, AtWork
  <2>2. CASE y # d
    <3>1. pc'[y] = pc[y] /\ plan'[y] = plan[y] /\ work'[y] = work[y] /\ completed' = completed
      BY <2>2 DEF TruthInv, Shape, history
    <3> QED BY <3>1, OthersWork DEF TruthInv
  <2> QED BY <2>1, <2>2
<1>3. (file \in NotAPlan \/ Truthful(file, completed))'
  BY DEF TruthInv, history, NotAPlan
<1> QED BY <1>1, <1>2, <1>3 DEF TruthInv

\* What a thread loads and sets out to execute.
LEMMA LoadedFits ==
  ASSUME TruthInv, Loaded # NoPlan, Dispatched(Loaded) # <<>>
  PROVE  /\ Loaded = file /\ Truthful(file, completed)
         /\ Fits(file, <<Dispatched(file)>>, TRUE)
         /\ \A k \in DOMAIN <<Dispatched(file)>> : \A l \in DOMAIN <<Dispatched(file)>>[k] :
              <<Dispatched(file)>>[k][l] \in Having(file, "PENDING")
<1>1. Loaded = file /\ Truthful(file, completed)
  BY DEF Loaded, TruthInv, NotAPlan
<1>2. file.goal \in GoalKind /\ file.status \in [TaskOf(file.goal) -> Status]
  BY <1>1, WorkflowAssumption DEF Truthful, IsPlan
<1>3. Ready(file) \subseteq Having(file, "PENDING") /\ Ready(file) \subseteq TaskOf(file.goal)
  BY <1>2 DEF Ready, Having
<1>4. \A t \in Ready(file) : /\ t \notin Having(file, "COMPLETED")
                             /\ DependsOn(file.goal, t) \subseteq Having(file, "COMPLETED")
  BY DEF Ready, Having
<1>5. /\ <<Chosen(file.goal, Ready(file))>> \in Seq(Seq(TaskOf(file.goal)))
      /\ \A k \in DOMAIN <<Chosen(file.goal, Ready(file))>> :
           \A l \in DOMAIN <<Chosen(file.goal, Ready(file))>>[k] :
             <<Chosen(file.goal, Ready(file))>>[k][l] \in Ready(file)
      /\ Doable(file.goal, Having(file, "COMPLETED"), <<Chosen(file.goal, Ready(file))>>, TRUE)
  <2>1. Chosen(file.goal, Ready(file)) # <<>>
    BY <1>1 DEF Dispatched
  <2> QED BY <1>2, <1>3, <1>4, <2>1, ChoiceIsDoable
<1>6. \A s : <<s>> # <<>>
  OBVIOUS
<1>7. Fits(file, <<Dispatched(file)>>, TRUE)
  BY <1>5, <1>6 DEF Fits, Dispatched
<1> QED BY <1>1, <1>3, <1>5, <1>7 DEF Dispatched

LEMMA TruthLoad ==
  ASSUME TruthInv, NEW d \in Thread, Load(d)
  PROVE  TruthInv'
<1> USE DEF Load
<1>1. Shape'
  BY DEF TruthInv, Shape
<1>2. ASSUME NEW y \in Executor, y # d PROVE (AtWork(y) => WorkInv(y))'
  <2>1. pc'[y] = pc[y] /\ plan'[y] = plan[y] /\ work'[y] = work[y] /\ completed' = completed
    BY <1>2 DEF TruthInv, Shape
  <2> QED BY <2>1, OthersWork DEF TruthInv
<1>3. d \in Executor
  BY DEF Executor
<1>4. (AtWork(d) => WorkInv(d))'
  <2>1. CASE Loaded = NoPlan \/ (Loaded # NoPlan /\ Dispatched(Loaded) = <<>>)
    BY <1>3, <2>1 DEF TruthInv, Shape, AtWork
  <2>2. CASE Loaded # NoPlan /\ Dispatched(Loaded) # <<>>
    <3>1. Loaded = file /\ Truthful(file, completed) /\ Fits(file, <<Dispatched(file)>>, TRUE)
      BY <2>2, LoadedFits
    <3>2. pc'[d] = "ready" /\ plan'[d] = file /\ work'[d] = <<Dispatched(file)>>
      BY <1>3, <2>2, <3>1 DEF TruthInv, Shape
    <3>3. Truthful(plan'[d], completed')
      BY <3>1, <3>2
    <3>4. Fits(plan'[d], work'[d], TRUE) /\ (d \in Thread) = TRUE
      BY <3>1, <3>2
    <3>5. Fits(plan'[d], work'[d], d \in Thread)
      BY <3>4
    <3> QED BY <3>2, <3>3, <3>5 DEF WorkInv
  <2> QED BY <2>1, <2>2
<1>5. (file \in NotAPlan \/ Truthful(file, completed))'
  BY DEF TruthInv, NotAPlan
<1> QED BY <1>1, <1>2, <1>4, <1>5 DEF TruthInv

\* InFront of an executor.
LEMMA CurrentInFront ==
  ASSUME NEW x \in Executor, WorkInv(x), Head(work[x]) # <<>>
  PROVE  /\ Current(x) \in TaskOf(plan[x].goal)
         /\ Current(x) \notin Having(plan[x], "COMPLETED")
         /\ DependsOn(plan[x].goal, Current(x)) \subseteq Having(plan[x], "COMPLETED")
         /\ work[x][1] # <<>> /\ Head(work[x]) = work[x][1]
         /\ Current(x) = Head(work[x][1]) /\ Current(x) = work[x][1][1]
         /\ 1 \in DOMAIN work[x] /\ 1 \in DOMAIN work[x][1]
<1>1. IsPlan(plan[x])
  BY DEF WorkInv, Truthful
<1>2. Fits(plan[x], work[x], x \in Thread)
  BY DEF WorkInv
<1>3. PICK strict \in BOOLEAN : Fits(plan[x], work[x], strict)
  <2>1. CASE x \in Thread
    <3>1. (x \in Thread) = TRUE
      BY <2>1
    <3> QED BY <1>2, <3>1
  <2>2. CASE x \notin Thread
    <3>1. (x \in Thread) = FALSE
      BY <2>2
    <3> QED BY <1>2, <3>1
  <2> QED BY <2>1, <2>2
<1> QED BY <1>1, <1>3, InFront DEF Current

LEMMA TruthBegin ==
  ASSUME TruthInv, NEW x \in Executor, Begin(x)
  PROVE  TruthInv'
<1> USE DEF Begin
<1>1. WorkInv(x) /\ IsPlan(plan[x]) /\ x \in DOMAIN plan /\ x \in DOMAIN pc
  BY DEF TruthInv, AtWork, Truthful, WorkInv, Shape
<1>2. Shape'
  BY DEF TruthInv, Shape
<1>3. /\ Current(x) \in TaskOf(plan[x].goal)
      /\ Current(x) \notin Having(plan[x], "COMPLETED")
  BY <1>1, CurrentInFront
<1>4. /\ IsPlan(plan'[x]) /\ plan'[x].run = plan[x].run /\ plan'[x].goal = plan[x].goal
      /\ Having(plan'[x], "COMPLETED") = Having(plan[x], "COMPLETED")
  <2>1. CASE x \in Engine
    <3>1. plan'[x] = [plan[x] EXCEPT !.status = [@ EXCEPT ![Current(x)] = "RUNNING"]]
      BY <1>1, <2>1
    <3>2. "RUNNING" \in Status
      BY DEF Status
    <3> HIDE DEF Begin
    <3> QED BY <1>1, <1>3, <3>1, <3>2, StatusSet
  <2>2. CASE x \notin Engine
    BY <1>1, <2>2
  <2> QED BY <2>1, <2>2
<1>5. Truthful(plan'[x], completed') /\ Fits(plan'[x], work'[x], x \in Thread)
  BY <1>1, <1>4 DEF WorkInv, Truthful, Fits
<1>6. WorkInv(x)'
  BY <1>1, <1>5 DEF WorkInv
<1>7. ASSUME NEW y \in Executor, y # x PROVE (AtWork(y) => WorkInv(y))'
  <2>1. pc'[y] = pc[y] /\ plan'[y] = plan[y] /\ work'[y] = work[y] /\ completed' = completed
    BY <1>7 DEF TruthInv, Shape
  <2> QED BY <2>1, OthersWork DEF TruthInv
<1>8. (file \in NotAPlan \/ Truthful(file, completed))'
  BY DEF TruthInv, NotAPlan
<1> QED BY <1>2, <1>6, <1>7, <1>8 DEF TruthInv

LEMMA TruthEnd ==
  ASSUME TruthInv, NEW x \in Executor, End(x)
  PROVE  TruthInv'
<1>1. WorkInv(x) /\ IsPlan(plan[x]) /\ x \in DOMAIN plan /\ x \in DOMAIN pc /\ x \in DOMAIN work
  BY DEF TruthInv, AtWork, Truthful, WorkInv, Shape, End
<1>2. PICK outcome \in {"COMPLETED"} \cup (IF x \in Thread THEN {"FAILED"} ELSE {}) :
        /\ plan' = [plan EXCEPT ![x].status[Current(x)] = outcome]
        /\ completed' = IF outcome = "COMPLETED" THEN completed \cup {Key(x)} ELSE completed
  BY DEF End
<1>3. /\ pc'[x] = "ready" /\ file' = file
      /\ work' = [work EXCEPT ![x] = <<Tail(Head(@))>> \o Tail(@)]
  BY <1>1 DEF End
<1>4. Head(work[x]) # <<>>
  BY <1>1 DEF WorkInv, End
<1>5. /\ Current(x) \in TaskOf(plan[x].goal)
      /\ Current(x) \notin Having(plan[x], "COMPLETED")
      /\ DependsOn(plan[x].goal, Current(x)) \subseteq Having(plan[x], "COMPLETED")
      /\ work[x][1] # <<>> /\ Head(work[x]) = work[x][1] /\ Current(x) = Head(work[x][1])
  BY <1>1, <1>4, CurrentInFront
<1>6. outcome \in Status /\ (outcome # "COMPLETED" => x \in Thread)
  BY DEF Status
<1>7. plan'[x] = [plan[x] EXCEPT !.status = [@ EXCEPT ![Current(x)] = outcome]]
  BY <1>1, <1>2
<1>8. /\ IsPlan(plan'[x]) /\ plan'[x].run = plan[x].run /\ plan'[x].goal = plan[x].goal
      /\ outcome = "COMPLETED" =>
           Having(plan'[x], "COMPLETED") = Having(plan[x], "COMPLETED") \cup {Current(x)}
      /\ outcome # "COMPLETED" => Having(plan'[x], "COMPLETED") = Having(plan[x], "COMPLETED")
  BY <1>1, <1>5, <1>6, <1>7, StatusSet
<1>9. completed \subseteq completed'
  BY <1>2
<1>10. Truthful(plan'[x], completed')
  BY <1>1, <1>2, <1>5, <1>8, <1>9 DEF WorkInv, Truthful, Key
<1>11. work'[x] = <<Tail(work[x][1])>> \o Tail(work[x])
  BY <1>1, <1>3, <1>5
<1>12. Fits(plan'[x], work'[x], x \in Thread)
  <2> DEFINE S == TaskOf(plan[x].goal)
             b == work[x]
             b2 == <<Tail(b[1])>> \o Tail(b)
             strict == x \in Thread
             done == Having(plan[x], "COMPLETED")
             done2 == Having(plan'[x], "COMPLETED")
             goal == plan[x].goal
  <2>1. b \in Seq(Seq(S)) /\ b # <<>> /\ b[1] # <<>> /\ Doable(goal, done, b, strict)
    BY <1>1, <1>5 DEF WorkInv, Fits
  <2>2. done2 = done \cup {Head(b[1])} \/ (strict /\ done2 = done)
    BY <1>5, <1>6, <1>8
  <2>3. strict \in BOOLEAN
    OBVIOUS
  <2> HIDE DEF S, b, strict, done, done2, goal
  <2>4. Doable(goal, done2, b2, strict)
    BY <2>1, <2>2, <2>3, DoableNext
  <2>5. b2 \in Seq(Seq(S)) /\ b2 # <<>>
    BY <2>1, FirstTaken
  <2> QED BY <1>8, <1>11, <2>4, <2>5 DEF Fits, S, b, strict, done, done2, goal
<1>13. WorkInv(x)'
  BY <1>3, <1>10, <1>12 DEF WorkInv
<1>14. Shape'
  BY <1>2, <1>3 DEF TruthInv, Shape, End
<1>15. ASSUME NEW y \in Executor, y # x PROVE (AtWork(y) => WorkInv(y))'
  <2>1. pc'[y] = pc[y] /\ plan'[y] = plan[y] /\ work'[y] = work[y]
    BY <1>2, <1>3, <1>15 DEF TruthInv, Shape, End
  <2> QED BY <1>9, <2>1, OthersWork DEF TruthInv
<1>16. (file \in NotAPlan \/ Truthful(file, completed))'
  BY <1>3, <1>9, TruthGrows DEF TruthInv, NotAPlan
<1> QED BY <1>13, <1>14, <1>15, <1>16 DEF TruthInv

LEMMA TruthOpenFile ==
  ASSUME TruthInv, NEW x \in Executor, OpenFile(x)
  PROVE  TruthInv'
<1> USE DEF OpenFile
<1>1. Shape'
  BY DEF TruthInv, Shape
<1>2. WorkInv(x) /\ pc'[x] = "open"
  BY DEF TruthInv, AtWork, Shape
<1>3. WorkInv(x)'
  BY <1>2 DEF WorkInv, history
<1>4. ASSUME NEW y \in Executor, y # x PROVE (AtWork(y) => WorkInv(y))'
  <2>1. pc'[y] = pc[y] /\ plan'[y] = plan[y] /\ work'[y] = work[y] /\ completed' = completed
    BY <1>4 DEF TruthInv, Shape, history
  <2> QED BY <2>1, OthersWork DEF TruthInv
<1>5. file' \in NotAPlan
  BY DEF NotAPlan
<1> QED BY <1>1, <1>3, <1>4, <1>5 DEF TruthInv, NotAPlan

LEMMA TruthWrite ==
  ASSUME TruthInv, NEW x \in Executor, Write(x)
  PROVE  TruthInv'
<1> USE DEF Write
<1>1. WorkInv(x) /\ x \in DOMAIN plan /\ x \in DOMAIN pc /\ x \in DOMAIN work
  BY DEF TruthInv, AtWork, Shape
<1>2. Shape'
  BY DEF TruthInv, Shape
<1>3. (AtWork(x) => WorkInv(x))'
  <2>1. CASE Len(work[x]) > 1
    <3>1. /\ pc'[x] = "ready" /\ plan'[x] = plan[x] /\ work'[x] = Tail(work[x])
          /\ completed' = completed
      BY <1>1, <2>1 DEF history
    <3> DEFINE S == TaskOf(plan[x].goal)
               b == work[x]
               strict == x \in Thread
               done == Having(plan[x], "COMPLETED")
               goal == plan[x].goal
    <3>2. b \in Seq(Seq(S)) /\ b # <<>> /\ Doable(goal, done, b, strict) /\ Head(b) = <<>>
      BY <1>1 DEF WorkInv, Fits
    <3>3. strict \in BOOLEAN
      OBVIOUS
    <3> HIDE DEF S, b, strict, done, goal
    <3>4. b[1] = <<>>
      BY <3>2
    <3>5. Doable(goal, done, Tail(b), strict)
      BY <3>2, <3>3, <3>4, DoableLater
    <3>6. Tail(b) \in Seq(Seq(S)) /\ (Len(b) > 1 => Tail(b) # <<>>)
      BY <3>2, <3>4, BatchDropped
    <3>7. Fits(plan'[x], work'[x], x \in Thread)
      BY <2>1, <3>1, <3>5, <3>6 DEF Fits, S, b, strict, done, goal
    <3>8. Truthful(plan'[x], completed')
      BY <1>1, <3>1 DEF WorkInv
    <3> QED BY <3>1, <3>7, <3>8 DEF WorkInv
  <2>2. CASE ~(Len(work[x]) > 1)
    BY <1>1, <2>2 DEF AtWork
  <2> QED BY <2>1, <2>2
<1>4. ASSUME NEW y \in Executor, y # x PROVE (AtWork(y) => WorkInv(y))'
  <2>1. pc'[y] = pc[y] /\ plan'[y] = plan[y] /\ work'[y] = work[y] /\ completed' = completed
    BY <1>4 DEF TruthInv, Shape, history
  <2> QED BY <2>1, OthersWork DEF TruthInv
<1>5. (file \in NotAPlan \/ Truthful(file, completed))'
  <2>1. file' = file \/ file' = plan[x] \/ file' = Torn
    BY DEF Saved
  <2>2. Truthful(plan[x], completed) /\ completed' = completed
    BY <1>1 DEF WorkInv, history
  <2> QED BY <2>1, <2>2 DEF TruthInv, NotAPlan
<1> QED BY <1>2, <1>3, <1>4, <1>5 DEF TruthInv

LEMMA TruthClear ==
  ASSUME TruthInv, Clear
  PROVE  TruthInv'
<1> USE DEF Clear
<1>1. Shape'
  BY DEF TruthInv, Shape
<1>2. ASSUME NEW y \in Executor PROVE (AtWork(y) => WorkInv(y))'
  BY OthersWork DEF TruthInv, history
<1>3. file' \in NotAPlan
  BY DEF NotAPlan
<1> QED BY <1>1, <1>2, <1>3 DEF TruthInv, NotAPlan

LEMMA TruthDie ==
  ASSUME TruthInv, NEW gone \in SUBSET Executor, Die(gone)
  PROVE  TruthInv'
<1> USE DEF Die
<1>1. Shape'
  BY DEF TruthInv, Shape
<1>2. ASSUME NEW y \in Executor PROVE (AtWork(y) => WorkInv(y))'
  <2>1. CASE y \in gone
    BY <2>1 DEF AtWork
  <2>2. CASE y \notin gone
    <3>1. pc'[y] = pc[y] /\ plan'[y] = plan[y] /\ work'[y] = work[y] /\ completed' = completed
      BY <2>2
    <3> QED BY <3>1, OthersWork DEF TruthInv
  <2> QED BY <2>1, <2>2
<1>3. (file \in NotAPlan \/ Truthful(file, completed))'
  BY DEF TruthInv, NotAPlan
<1> QED BY <1>1, <1>2, <1>3 DEF TruthInv

LEMMA TruthStep == TruthInv /\ [Next]_vars => TruthInv'
<1> SUFFICES ASSUME TruthInv, [Next]_vars PROVE TruthInv'
  OBVIOUS
<1>1. ASSUME NEW e \in Engine, Run(e) \/ Die({e}) PROVE TruthInv'
  BY <1>1, TruthRun, TruthDie DEF Executor
<1>2. CASE Tick
  BY <1>2, TruthSpawn DEF Tick
<1>3. ASSUME NEW d \in Thread, Load(d) \/ Die({d}) PROVE TruthInv'
  BY <1>3, TruthLoad, TruthDie DEF Executor
<1>4. ASSUME NEW x \in Executor, Execute(x) PROVE TruthInv'
  BY <1>4, TruthBegin, TruthEnd, TruthOpenFile, TruthWrite DEF Execute
<1>5. CASE Clear
  BY <1>5, TruthClear
<1>6. CASE Die(Thread)
  BY <1>6, TruthDie DEF Executor
<1>7. CASE UNCHANGED vars
  <2>1. ASSUME NEW y \in Executor PROVE (AtWork(y) => WorkInv(y))'
    BY <1>7, OthersWork DEF TruthInv, vars
  <2>2. Shape' /\ (file \in NotAPlan \/ Truthful(file, completed))'
    BY <1>7 DEF TruthInv, Shape, NotAPlan, vars
  <2> QED BY <2>1, <2>2 DEF TruthInv
<1> QED BY <1>1, <1>2, <1>3, <1>4, <1>5, <1>6, <1>7 DEF Next

\* Nobody begins a task before all the tasks it depends on have been completed:
\* neither an engine with its batches nor a thread with a plan that is out of
\* date (engine/dag.py optimize_schedule, lib/overseer.py _dispatch_workflow).
THEOREM DependenciesFirst == Spec => []StartedAfterDependencies
<1>1. TruthInv => StartedAfterDependencies
  <2> SUFFICES ASSUME TruthInv, NEW x \in Executor, pc[x] = "busy",
                      NEW t \in DependsOn(plan[x].goal, Current(x))
               PROVE  <<plan[x].run, t>> \in completed
    BY DEF StartedAfterDependencies
  <2>1. WorkInv(x) /\ Head(work[x]) # <<>>
    BY DEF TruthInv, AtWork, WorkInv
  <2>2. t \in Having(plan[x], "COMPLETED")
    BY <2>1, CurrentInFront
  <2> QED BY <2>1, <2>2 DEF WorkInv, Truthful
<1> QED BY <1>1, TruthInit, TruthStep, PTL DEF Spec

\* What the workflow file says is true, whoever wrote it last: what it has as
\* completed was completed, and so is what that depends on
\* (engine/workflow.py _save_workflow).
THEOREM FileIsTrue == Spec => []FileTellsTrue
<1>1. TruthInv => FileTellsTrue
  BY DEF TruthInv, FileTellsTrue, Loaded, NotAPlan, Truthful
<1> QED BY <1>1, TruthInit, TruthStep, PTL DEF Spec

-------------------------------------------------------------------------------
\* What is executed once.

LEMMA OnceInit == Init => OnceInv
<1> SUFFICES ASSUME Init PROVE OnceInv
  OBVIOUS
<1>1. \A x \in Executor : ~AtWork(x)
  BY DEF Init, AtWork
<1>2. begun = {} /\ repeated = {} /\ file \in NotAPlan
  BY DEF Init, NotAPlan
<1> QED BY <1>1, <1>2 DEF OnceInv, FileInv, RepeatedOnlyIfDisturbed

\* At work: a plan of its own, of a run that was made.
LEMMA Holding ==
  ASSUME WorkflowInv, NEW x \in Executor, AtWork(x)
  PROVE  /\ WorkInv(x) /\ OwnInv(x) /\ IsPlan(plan[x])
         /\ plan[x].run \in Nat /\ plan[x].run <= runs /\ runs \in Nat
<1>1. WorkInv(x) /\ OwnInv(x) /\ runs \in Nat
  BY DEF WorkflowInv, TruthInv, OnceInv, Shape
<1>2. IsPlan(plan[x])
  BY <1>1 DEF WorkInv, Truthful
<1>3. plan[x].run \in Nat
  BY <1>2, WorkflowAssumption DEF IsPlan
<1> QED BY <1>1, <1>2, <1>3 DEF OwnInv

\* Whoever takes no part in a step keeps its run to itself, if the step begins none
\* of its tasks, gives nobody its plan and does not write it to the file.
LEMMA OthersOwn ==
  ASSUME WorkflowInv, NEW y \in Executor, AtWork(y),
         pc'[y] = pc[y], plan'[y] = plan[y], work'[y] = work[y],
         runs' \in Nat, runs <= runs', disturbed \subseteq disturbed',
         plan[y].run \notin disturbed' =>
           /\ \A t : <<plan[y].run, t>> \in begun' => <<plan[y].run, t>> \in begun
           /\ \A z \in Executor : z # y /\ AtWork(z)' => plan'[z].run # plan[y].run
           /\ pc[y] = "open" => file' \in NotAPlan \/ file'.run # plan[y].run
  PROVE  OwnInv(y)'
<1>1. OwnInv(y) /\ plan[y].run \in Nat /\ plan[y].run <= runs /\ runs \in Nat
  BY Holding
<1>2. plan[y].run <= runs'
  BY <1>1
<1>3. CASE plan[y].run \in disturbed'
  BY <1>2, <1>3 DEF OwnInv
<1>4. CASE plan[y].run \notin disturbed'
  <2>1. plan[y].run \notin disturbed
    BY <1>4
  <2>2. \A k \in DOMAIN work[y] : \A l \in DOMAIN work[y][k] :
          <<plan[y].run, work[y][k][l]>> \in begun' => pc[y] = "busy" /\ k = 1 /\ l = 1
    BY <1>1, <1>4, <2>1 DEF OwnInv
  <2>3. \A t \in TaskOf(plan[y].goal) :
          <<plan[y].run, t>> \in begun' /\ plan[y].status[t] = "PENDING" =>
            pc[y] = "busy" /\ t = Current(y)
    BY <1>1, <1>4, <2>1 DEF OwnInv
  <2>4. Current(y)' = Current(y)
    BY DEF Current
  <2>5. NotAPlan' = NotAPlan
    BY DEF NotAPlan
  <2> QED BY <1>2, <1>4, <2>2, <2>3, <2>4, <2>5 DEF OwnInv
<1> QED BY <1>3, <1>4

LEMMA OnceRun ==
  ASSUME WorkflowInv, NEW e \in Engine, Run(e)
  PROVE  OnceInv'
<1> USE DEF Run
<1>1. e \in Executor /\ runs' = runs + 1 /\ runs \in Nat /\ runs + 1 \in 1..MaxRuns
  BY WorkflowAssumption DEF Executor, WorkflowInv, TruthInv, Shape
<1>2. PICK goal \in Goals : plan' = [plan EXCEPT ![e] = NewPlan(runs', goal)]
  OBVIOUS
<1>3. /\ pc' = [pc EXCEPT ![e] = "ready"] /\ begun' = begun /\ disturbed' = disturbed
      /\ file' = file /\ repeated' = repeated
  BY DEF history
<1>4. DOMAIN pc = Executor /\ DOMAIN plan = Executor /\ DOMAIN work = Executor
  BY DEF WorkflowInv, TruthInv, Shape
<1>5. plan'[e].run = runs + 1 /\ pc'[e] = "ready"
  BY <1>1, <1>2, <1>3, <1>4 DEF NewPlan
<1>6. ASSUME NEW z \in Executor, z # e
      PROVE  pc'[z] = pc[z] /\ plan'[z] = plan[z] /\ work'[z] = work[z] /\ AtWork(z)' = AtWork(z)
  BY <1>2, <1>3, <1>4, <1>6 DEF AtWork
<1>7. \A key \in begun : key[1] \in Nat /\ key[1] <= runs
  BY DEF WorkflowInv, OnceInv
<1>8. \A key \in begun' : key[1] \in Nat /\ key[1] <= runs'
  BY <1>1, <1>3, <1>7
<1>9. \A t : <<runs + 1, t>> \notin begun
  <2>1. \A t : <<runs + 1, t>>[1] = runs + 1
    OBVIOUS
  <2> QED BY <1>1, <1>7, <2>1
<1>10. \A z \in Executor : z # e /\ AtWork(z)' => plan'[z].run # runs + 1
  <2> SUFFICES ASSUME NEW z \in Executor, z # e, AtWork(z) PROVE plan[z].run # runs + 1
    BY <1>6
  <2>1. plan[z].run \in Nat /\ plan[z].run <= runs
    BY Holding
  <2> QED BY <1>1, <2>1
<1>11. OwnInv(e)'
  BY <1>1, <1>3, <1>5, <1>9, <1>10 DEF OwnInv
<1>12. ASSUME NEW y \in Executor, y # e, AtWork(y)' PROVE OwnInv(y)'
  <2>1. AtWork(y) /\ pc'[y] = pc[y] /\ plan'[y] = plan[y] /\ work'[y] = work[y]
    BY <1>6, <1>12
  <2>2. OwnInv(y) /\ plan[y].run # runs + 1
    BY <1>10, <1>12, <2>1, Holding
  <2>3. \A z \in Executor : z # y /\ AtWork(z)' /\ plan[y].run \notin disturbed' =>
          plan'[z].run # plan[y].run
    BY <1>3, <1>5, <1>6, <2>2 DEF OwnInv
  <2>4. plan[y].run \notin disturbed' /\ pc[y] = "open" =>
          file' \in NotAPlan \/ file'.run # plan[y].run
    BY <1>3, <2>2 DEF OwnInv
  <2>5. runs' \in Nat /\ runs <= runs'
    BY <1>1
  <2> QED BY <1>3, <2>1, <2>3, <2>4, <2>5, OthersOwn
<1>13. FileInv'
  <2> SUFFICES ASSUME file \notin NotAPlan
               PROVE  /\ file.run <= runs'
                      /\ file.run \in disturbed
                         \/ (\E x \in Executor : AtWork(x)' /\ plan'[x].run = file.run)
                         \/ NoneAgain(file)
    BY <1>3 DEF FileInv, NotAPlan, NoneAgain
  <2>1. FileInv /\ file.run \in Nat
    BY WorkflowAssumption DEF WorkflowInv, OnceInv, TruthInv, Truthful, IsPlan
  <2>2. \A x \in Executor : AtWork(x) => x # e
    BY DEF AtWork
  <2>3. file.run <= runs'
    BY <1>1, <2>1 DEF FileInv
  <2> QED BY <1>6, <2>1, <2>2, <2>3 DEF FileInv
<1>14. RepeatedOnlyIfDisturbed'
  BY <1>3 DEF WorkflowInv, OnceInv, RepeatedOnlyIfDisturbed
<1> QED BY <1>8, <1>11, <1>12, <1>13, <1>14 DEF OnceInv

\* The file keeps what it is owed while it is left alone: whoever was at work on its
\* plan still is, or has disturbed it.
LEMMA FileLeft ==
  ASSUME WorkflowInv, file' = file, runs' = runs, disturbed \subseteq disturbed',
         \A t : <<file.run, t>> \in begun' \ begun =>
                  \E x \in Executor : AtWork(x)' /\ plan'[x].run = file.run,
         \A x \in Executor : AtWork(x) /\ plan[x].run = file.run =>
           \/ file \in NotAPlan \/ file.run \in disturbed'
           \/ AtWork(x)' /\ plan'[x].run = file.run
  PROVE  FileInv'
<1> SUFFICES ASSUME file \notin NotAPlan
             PROVE  /\ file.run <= runs
                    /\ file.run \in disturbed'
                       \/ (\E x \in Executor : AtWork(x)' /\ plan'[x].run = file.run)
                       \/ NoneAgain(file)'
  BY DEF FileInv, NotAPlan, NoneAgain
<1>1. /\ file.run <= runs
      /\ file.run \in disturbed \/ (\E x \in Executor : AtWork(x) /\ plan[x].run = file.run)
           \/ NoneAgain(file)
  BY DEF WorkflowInv, OnceInv, FileInv
<1>2. CASE file.run \in disturbed
  BY <1>1, <1>2
<1>3. ASSUME NEW x \in Executor, AtWork(x), plan[x].run = file.run
      PROVE  file.run \in disturbed'
             \/ (\E z \in Executor : AtWork(z)' /\ plan'[z].run = file.run)
  BY <1>3
<1>4. CASE NoneAgain(file)
  <2>1. CASE \E t : <<file.run, t>> \in begun' \ begun
    BY <1>1, <2>1
  <2>2. CASE ~ \E t : <<file.run, t>> \in begun' \ begun
    <3>1. NoneAgain(file)'
      BY <1>4, <2>2 DEF NoneAgain
    <3> QED BY <1>1, <3>1
  <2> QED BY <2>1, <2>2
<1> QED BY <1>1, <1>2, <1>3, <1>4

LEMMA OnceSpawn ==
  ASSUME WorkflowInv, NEW d \in Thread, Spawn(d)
  PROVE  OnceInv'
<1> USE DEF Spawn
<1>1. /\ begun' = begun /\ disturbed' = disturbed /\ file' = file /\ repeated' = repeated
      /\ runs' = runs /\ plan' = plan /\ work' = work /\ pc' = [pc EXCEPT ![d] = "spawned"]
  BY DEF history
<1>2. DOMAIN pc = Executor /\ runs \in Nat
  BY DEF WorkflowInv, TruthInv, Shape
<1>3. \A y \in Executor : AtWork(y)' = AtWork(y)
  BY <1>1, <1>2 DEF AtWork
<1>4. ASSUME NEW y \in Executor, AtWork(y)' PROVE OwnInv(y)'
  <2>1. AtWork(y) /\ OwnInv(y) /\ pc'[y] = pc[y]
    BY <1>1, <1>2, <1>3, <1>4, Holding DEF AtWork
  <2>2. plan[y].run \notin disturbed' =>
          \A z \in Executor : z # y /\ AtWork(z)' => plan'[z].run # plan[y].run
    BY <1>1, <1>3, <2>1 DEF OwnInv
  <2>3. plan[y].run \notin disturbed' /\ pc[y] = "open" =>
          file' \in NotAPlan \/ file'.run # plan[y].run
    BY <1>1, <2>1 DEF OwnInv
  <2> QED BY <1>1, <1>2, <2>1, <2>2, <2>3, OthersOwn
<1>5. FileInv'
  BY <1>1, <1>3, FileLeft
<1> QED BY <1>1, <1>4, <1>5 DEF WorkflowInv, OnceInv, RepeatedOnlyIfDisturbed

LEMMA OnceLoad ==
  ASSUME WorkflowInv, NoPlanIsNone, NEW d \in Thread, Load(d)
  PROVE  OnceInv'
<1>1. /\ begun' = begun /\ file' = file /\ repeated' = repeated /\ runs' = runs
      /\ runs \in Nat /\ d \in Executor /\ pc[d] = "spawned"
      /\ DOMAIN pc = Executor /\ DOMAIN plan = Executor /\ DOMAIN work = Executor
  BY DEF Load, WorkflowInv, TruthInv, Shape, Executor
<1>2. CASE Loaded = NoPlan \/ (Loaded # NoPlan /\ Dispatched(Loaded) = <<>>)
  <2>1. /\ pc' = [pc EXCEPT ![d] = "idle"] /\ plan' = plan /\ work' = work
        /\ disturbed' = disturbed
    BY <1>2 DEF Load
  <2>2. \A y \in Executor : AtWork(y)' = AtWork(y)
    BY <1>1, <2>1 DEF AtWork
  <2>3. ASSUME NEW y \in Executor, AtWork(y)' PROVE OwnInv(y)'
    <3>1. AtWork(y) /\ OwnInv(y) /\ pc'[y] = pc[y]
      BY <1>1, <2>1, <2>2, <2>3, Holding DEF AtWork
    <3>2. plan[y].run \notin disturbed' =>
            \A z \in Executor : z # y /\ AtWork(z)' => plan'[z].run # plan[y].run
      BY <2>1, <2>2, <3>1 DEF OwnInv
    <3>3. plan[y].run \notin disturbed' /\ pc[y] = "open" =>
            file' \in NotAPlan \/ file'.run # plan[y].run
      BY <1>1, <2>1, <3>1 DEF OwnInv
    <3> QED BY <1>1, <2>1, <3>1, <3>2, <3>3, OthersOwn
  <2>4. FileInv'
    BY <1>1, <2>1, <2>2, FileLeft
  <2> QED BY <1>1, <2>1, <2>3, <2>4 DEF WorkflowInv, OnceInv, RepeatedOnlyIfDisturbed
<1>3. CASE Loaded # NoPlan /\ Dispatched(Loaded) # <<>>
  <2>1. /\ Loaded = file /\ Truthful(file, completed)
        /\ \A k \in DOMAIN <<Dispatched(file)>> : \A l \in DOMAIN <<Dispatched(file)>>[k] :
             <<Dispatched(file)>>[k][l] \in Having(file, "PENDING")
    BY <1>3, LoadedFits DEF WorkflowInv
  <2>2. /\ pc' = [pc EXCEPT ![d] = "ready"] /\ plan' = [plan EXCEPT ![d] = file]
        /\ work' = [work EXCEPT ![d] = <<Dispatched(file)>>]
        /\ disturbed' = IF Holders(file.run) = {} THEN disturbed
                        ELSE disturbed \cup {file.run}
    BY <1>3, <2>1 DEF Load
  <2>3. file \notin NotAPlan /\ file.run <= runs
    BY <1>3 DEF Loaded, NotAPlan, WorkflowInv, OnceInv, FileInv
  <2>4. /\ pc'[d] = "ready" /\ plan'[d] = file /\ work'[d] = <<Dispatched(file)>>
        /\ AtWork(d)' /\ ~AtWork(d)
    BY <1>1, <2>2 DEF AtWork
  <2>5. ASSUME NEW y \in Executor, y # d
        PROVE  pc'[y] = pc[y] /\ plan'[y] = plan[y] /\ work'[y] = work[y] /\ AtWork(y)' = AtWork(y)
    BY <1>1, <2>2, <2>5 DEF AtWork
  <2>6. ASSUME NEW y \in Executor, AtWork(y), plan[y].run = file.run
        PROVE  file.run \in disturbed'
    <3>1. IsPlan(plan[y])
      BY <2>6, Holding
    <3>2. y \in Holders(file.run)
      BY <2>6, <3>1 DEF Holders, NoPlanIsNone
    <3> QED BY <2>2, <3>2
  <2>7. disturbed \subseteq disturbed'
    BY <2>2
  <2>8. OwnInv(d)'
    <3>1. CASE file.run \in disturbed'
      BY <1>1, <2>3, <2>4, <3>1 DEF OwnInv
    <3>2. CASE file.run \notin disturbed'
      <4>1. \A y \in Executor : y # d /\ AtWork(y)' => plan'[y].run # file.run
        BY <2>5, <2>6, <3>2
      <4>2. NoneAgain(file)
        BY <2>3, <2>6, <2>7, <3>2 DEF WorkflowInv, OnceInv, FileInv
      <4>3. file.status \in [TaskOf(file.goal) -> Status]
        BY <2>1 DEF Truthful, IsPlan
      <4>4. \A t \in Having(file, "PENDING") : <<file.run, t>> \notin begun
        BY <4>2, <4>3 DEF NoneAgain, Having
      <4>5. \A k \in DOMAIN work'[d] : \A l \in DOMAIN work'[d][k] :
              <<file.run, work'[d][k][l]>> \notin begun
        BY <2>1, <2>4, <4>4
      <4>6. \A t \in TaskOf(file.goal) :
              ~(<<file.run, t>> \in begun /\ file.status[t] = "PENDING")
        BY <4>2 DEF NoneAgain
      <4> QED BY <1>1, <2>3, <2>4, <4>1, <4>5, <4>6 DEF OwnInv
    <3> QED BY <3>1, <3>2
  <2>9. ASSUME NEW y \in Executor, y # d, AtWork(y)' PROVE OwnInv(y)'
    <3>1. AtWork(y) /\ OwnInv(y)
      BY <2>5, <2>9, Holding
    <3>2. plan[y].run \notin disturbed' =>
            \A z \in Executor : z # y /\ AtWork(z)' => plan'[z].run # plan[y].run
      BY <2>4, <2>5, <2>6, <2>7, <3>1 DEF OwnInv
    <3>3. plan[y].run \notin disturbed' /\ pc[y] = "open" =>
            file' \in NotAPlan \/ file'.run # plan[y].run
      BY <1>1, <2>7, <3>1 DEF OwnInv
    <3> QED BY <1>1, <2>5, <2>7, <2>9, <3>1, <3>2, <3>3, OthersOwn
  <2>10. FileInv'
    BY <1>1, <2>3, <2>4 DEF FileInv, NotAPlan
  <2>11. RepeatedOnlyIfDisturbed'
    BY <1>1, <2>7 DEF WorkflowInv, OnceInv, RepeatedOnlyIfDisturbed
  <2> QED BY <1>1, <2>8, <2>9, <2>10, <2>11 DEF WorkflowInv, OnceInv
<1> QED BY <1>2, <1>3

LEMMA OnceBegin ==
  ASSUME WorkflowInv, NEW x \in Executor, Begin(x)
  PROVE  OnceInv'
<1> DEFINE r == plan[x].run
           c == Current(x)
<1>1. /\ AtWork(x) /\ pc[x] = "ready" /\ Head(work[x]) # <<>>
      /\ DOMAIN pc = Executor /\ DOMAIN plan = Executor
      /\ pc' = [pc EXCEPT ![x] = "busy"] /\ work' = work
      /\ file' = file /\ runs' = runs /\ disturbed' = disturbed
      /\ plan' = IF x \in Engine THEN [plan EXCEPT ![x].status[c] = "RUNNING"] ELSE plan
      /\ begun' = begun \cup {<<r, c>>}
      /\ repeated' = IF <<r, c>> \in begun THEN repeated \cup {<<r, c>>} ELSE repeated
  BY DEF Begin, Key, AtWork, WorkflowInv, TruthInv, Shape
<1>2. /\ WorkInv(x) /\ OwnInv(x) /\ IsPlan(plan[x]) /\ r \in Nat /\ r <= runs /\ runs \in Nat
  BY <1>1, Holding
<1>3. /\ c \in TaskOf(plan[x].goal) /\ c = work[x][1][1]
      /\ 1 \in DOMAIN work[x] /\ 1 \in DOMAIN work[x][1]
  BY <1>1, <1>2, CurrentInFront
<1> HIDE DEF r, c
<1>4. /\ plan'[x].run = r /\ plan'[x].goal = plan[x].goal
      /\ \A t \in TaskOf(plan[x].goal) : t # c => plan'[x].status[t] = plan[x].status[t]
  <2>1. CASE x \in Engine
    <3>1. plan'[x] = [plan[x] EXCEPT !.status = [@ EXCEPT ![c] = "RUNNING"]]
      BY <1>1, <2>1
    <3>2. "RUNNING" \in Status
      BY DEF Status
    <3> QED BY <1>2, <1>3, <3>1, <3>2, StatusSet DEF r
  <2>2. CASE x \notin Engine
    BY <1>1, <2>2 DEF r
  <2> QED BY <2>1, <2>2
<1>5. \A y \in Executor : y # x => pc'[y] = pc[y] /\ plan'[y] = plan[y] /\ work'[y] = work[y]
  BY <1>1
<1>6. pc'[x] = "busy" /\ \A y \in Executor : AtWork(y)' = AtWork(y) /\ plan'[y].run = plan[y].run
  BY <1>1, <1>4, <1>5 DEF AtWork, r
<1>7. r \notin disturbed => <<r, c>> \notin begun
  BY <1>1, <1>2, <1>3 DEF OwnInv, r
<1>8. OwnInv(x)'
  <2>1. CASE r \in disturbed
    BY <1>1, <1>2, <1>4, <2>1 DEF OwnInv
  <2>2. CASE r \notin disturbed
    <3>1. \A k \in DOMAIN work[x] : \A l \in DOMAIN work[x][k] :
            <<r, work[x][k][l]>> \notin begun
      BY <1>1, <1>2, <2>2 DEF OwnInv, r
    <3>2. \A k \in DOMAIN work[x] : \A l \in DOMAIN work[x][k] :
            work[x][k][l] = c => k = 1 /\ l = 1
      BY <1>2, <1>3 DEF WorkInv, Fits, Doable
    <3>3. \A k \in DOMAIN work'[x] : \A l \in DOMAIN work'[x][k] :
            <<r, work'[x][k][l]>> \in begun' => k = 1 /\ l = 1
      BY <1>1, <3>1, <3>2
    <3>4. \A t \in TaskOf(plan[x].goal) : ~(<<r, t>> \in begun /\ plan[x].status[t] = "PENDING")
      BY <1>1, <1>2, <2>2 DEF OwnInv, r
    <3>5. \A t \in TaskOf(plan[x].goal) :
            <<r, t>> \in begun' /\ plan'[x].status[t] = "PENDING" => t = c
      BY <1>1, <1>4, <3>4
    <3>6. \A y \in Executor : y # x /\ AtWork(y)' => plan'[y].run # r
      BY <1>2, <1>6, <2>2 DEF OwnInv, r
    <3>7. Current(x)' = c
      BY <1>1 DEF Current, c
    <3> QED BY <1>1, <1>2, <1>4, <1>6, <3>3, <3>5, <3>6, <3>7 DEF OwnInv
  <2> QED BY <2>1, <2>2
<1>9. ASSUME NEW y \in Executor, y # x, AtWork(y)' PROVE OwnInv(y)'
  <2>1. AtWork(y) /\ OwnInv(y)
    BY <1>6, <1>9, Holding
  <2>2. plan[y].run \notin disturbed' =>
          \A z \in Executor : z # y /\ AtWork(z)' => plan'[z].run # plan[y].run
    BY <1>1, <1>6, <2>1 DEF OwnInv
  <2>3. plan[y].run \notin disturbed' => plan[y].run # r
    BY <1>1, <1>9, <2>1 DEF OwnInv, r
  <2>4. plan[y].run # r => \A t : <<plan[y].run, t>> \in begun' => <<plan[y].run, t>> \in begun
    BY <1>1
  <2>5. plan[y].run \notin disturbed' /\ pc[y] = "open" =>
          file' \in NotAPlan \/ file'.run # plan[y].run
    BY <1>1, <2>1 DEF OwnInv
  <2>6. runs' \in Nat /\ runs <= runs' /\ disturbed \subseteq disturbed'
    BY <1>1, <1>2
  <2> QED BY <1>5, <1>9, <2>1, <2>2, <2>3, <2>4, <2>5, <2>6, OthersOwn
<1>10. FileInv'
  <2>1. \A t : <<file.run, t>> \in begun' \ begun => file.run = r
    BY <1>1
  <2> QED BY <1>1, <1>4, <1>6, <2>1, FileLeft
<1>11. \A key \in begun' : key[1] \in Nat /\ key[1] <= runs'
  <2>1. <<r, c>>[1] = r
    OBVIOUS
  <2>2. \A key \in begun : key[1] \in Nat /\ key[1] <= runs
    BY DEF WorkflowInv, OnceInv
  <2> QED BY <1>1, <1>2, <2>1, <2>2 DEF r
<1>12. RepeatedOnlyIfDisturbed'
  <2>1. <<r, c>>[1] = r
    OBVIOUS
  <2>2. \A key \in repeated : key[1] \in disturbed
    BY DEF WorkflowInv, OnceInv, RepeatedOnlyIfDisturbed
  <2> QED BY <1>1, <1>7, <2>1, <2>2 DEF RepeatedOnlyIfDisturbed
<1> QED BY <1>8, <1>9, <1>10, <1>11, <1>12 DEF OnceInv

LEMMA OnceEnd ==
  ASSUME WorkflowInv, NEW x \in Executor, End(x)
  PROVE  OnceInv'
<1> DEFINE r == plan[x].run
           c == Current(x)
           b == work[x]
<1>1. /\ AtWork(x) /\ pc[x] = "busy"
      /\ DOMAIN pc = Executor /\ DOMAIN plan = Executor /\ DOMAIN work = Executor
      /\ pc' = [pc EXCEPT ![x] = "ready"]
      /\ work' = [work EXCEPT ![x] = <<Tail(Head(@))>> \o Tail(@)]
      /\ file' = file /\ runs' = runs /\ disturbed' = disturbed /\ begun' = begun
      /\ repeated' = repeated
  BY DEF End, AtWork, WorkflowInv, TruthInv, Shape
<1>2. PICK outcome \in {"COMPLETED", "FAILED"} : plan' = [plan EXCEPT ![x].status[c] = outcome]
  BY DEF End
<1>3. /\ WorkInv(x) /\ OwnInv(x) /\ IsPlan(plan[x]) /\ r \in Nat /\ r <= runs /\ runs \in Nat
  BY <1>1, Holding
<1>4. /\ c \in TaskOf(plan[x].goal) /\ b[1] # <<>> /\ Head(b) = b[1]
  BY <1>1, <1>3, CurrentInFront DEF WorkInv
<1>5. b \in Seq(Seq(TaskOf(plan[x].goal))) /\ b # <<>>
  BY <1>3 DEF WorkInv, Fits
<1>6. work'[x] = <<Tail(b[1])>> \o Tail(b)
  BY <1>1, <1>4
<1> HIDE DEF r, c, b
<1>7. /\ plan'[x].run = r /\ plan'[x].goal = plan[x].goal /\ plan'[x].status[c] = outcome
      /\ \A t \in TaskOf(plan[x].goal) : t # c => plan'[x].status[t] = plan[x].status[t]
  <2>1. plan'[x] = [plan[x] EXCEPT !.status = [@ EXCEPT ![c] = outcome]]
    BY <1>1, <1>2
  <2>2. outcome \in Status
    BY DEF Status
  <2>3. IsPlan(plan[x]) /\ c \in TaskOf(plan[x].goal)
    BY <1>3, <1>4
  <2>4. plan'[x].run = plan[x].run /\ plan'[x].goal = plan[x].goal
    BY <2>1, <2>2, <2>3, StatusSet
  <2>6. plan'[x].status[c] = outcome
    <3>1. plan'[x].status = [plan[x].status EXCEPT ![c] = outcome]
      BY <2>1, <2>3 DEF IsPlan
    <3>2. plan[x].status \in [TaskOf(plan[x].goal) -> Status]
      BY <2>3 DEF IsPlan
    <3> QED BY <2>3, <3>1, <3>2
  <2>5. \A t \in TaskOf(plan[x].goal) \ {c} : plan'[x].status[t] = plan[x].status[t]
    BY <2>1, <2>2, <2>3, StatusSet
  <2> QED BY <2>4, <2>5, <2>6 DEF r
<1>8. \A y \in Executor : y # x => pc'[y] = pc[y] /\ plan'[y] = plan[y] /\ work'[y] = work[y]
  BY <1>1, <1>2
<1>9. pc'[x] = "ready" /\ \A y \in Executor : AtWork(y)' = AtWork(y) /\ plan'[y].run = plan[y].run
  BY <1>1, <1>7, <1>8 DEF AtWork, r
<1>10. OwnInv(x)'
  <2>1. CASE r \in disturbed
    BY <1>1, <1>3, <1>7, <2>1 DEF OwnInv
  <2>2. CASE r \notin disturbed
    <3>1. \A k \in DOMAIN b : \A l \in DOMAIN b[k] : <<r, b[k][l]>> \in begun => k = 1 /\ l = 1
      BY <1>3, <2>2 DEF OwnInv, r, b
    <3>2. \A k \in DOMAIN work'[x] : \A l \in DOMAIN work'[x][k] :
            <<r, work'[x][k][l]>> \notin begun
      <4>1. /\ DOMAIN work'[x] = DOMAIN b /\ work'[x][1] = Tail(b[1])
            /\ \A k \in DOMAIN b \ {1} : work'[x][k] = b[k]
            /\ \A l \in DOMAIN Tail(b[1]) :
                 l + 1 \in DOMAIN b[1] /\ Tail(b[1])[l] = b[1][l + 1]
            /\ 1 \in DOMAIN b
        BY <1>4, <1>5, <1>6, FirstTaken
      <4>2. DOMAIN Tail(b[1]) \subseteq Nat \ {0}
        BY <1>4, <1>5, <4>1
      <4>3. \A l \in Nat \ {0} : l + 1 # 1
        OBVIOUS
      <4>4. ASSUME NEW k \in DOMAIN work'[x], NEW l \in DOMAIN work'[x][k]
            PROVE  <<r, work'[x][k][l]>> \notin begun
        <5>1. CASE k = 1
          <6>1. l \in DOMAIN Tail(b[1]) /\ work'[x][k][l] = b[1][l + 1] /\ l + 1 \in DOMAIN b[1]
            BY <4>1, <4>4, <5>1
          <6>2. l + 1 # 1
            BY <4>2, <4>3, <6>1
          <6> QED BY <3>1, <4>1, <6>1, <6>2
        <5>2. CASE k # 1
          <6>1. k \in DOMAIN b /\ l \in DOMAIN b[k] /\ work'[x][k][l] = b[k][l]
            BY <4>1, <4>4, <5>2
          <6> QED BY <3>1, <5>2, <6>1
        <5> QED BY <5>1, <5>2
      <4> QED BY <4>4
    <3>3. \A t \in TaskOf(plan[x].goal) :
            <<r, t>> \in begun /\ plan[x].status[t] = "PENDING" => t = c
      BY <1>3, <2>2 DEF OwnInv, r, c
    <3>4. \A t \in TaskOf(plan[x].goal) : ~(<<r, t>> \in begun /\ plan'[x].status[t] = "PENDING")
      BY <1>7, <3>3
    <3>5. \A y \in Executor : y # x /\ AtWork(y)' => plan'[y].run # r
      BY <1>3, <1>9, <2>2 DEF OwnInv, r
    <3> QED BY <1>1, <1>3, <1>7, <1>9, <3>2, <3>4, <3>5 DEF OwnInv
  <2> QED BY <2>1, <2>2
<1>11. ASSUME NEW y \in Executor, y # x, AtWork(y)' PROVE OwnInv(y)'
  <2>1. AtWork(y) /\ OwnInv(y)
    BY <1>9, <1>11, Holding
  <2>2. plan[y].run \notin disturbed' =>
          \A z \in Executor : z # y /\ AtWork(z)' => plan'[z].run # plan[y].run
    BY <1>1, <1>9, <2>1 DEF OwnInv
  <2>3. plan[y].run \notin disturbed' /\ pc[y] = "open" =>
          file' \in NotAPlan \/ file'.run # plan[y].run
    BY <1>1, <2>1 DEF OwnInv
  <2>4. runs' \in Nat /\ runs <= runs' /\ disturbed \subseteq disturbed' /\ begun' = begun
    BY <1>1, <1>3
  <2> QED BY <1>8, <1>11, <2>1, <2>2, <2>3, <2>4, OthersOwn
<1>12. FileInv'
  BY <1>1, <1>9, FileLeft
<1> QED BY <1>1, <1>10, <1>11, <1>12 DEF WorkflowInv, OnceInv, RepeatedOnlyIfDisturbed

LEMMA OnceOpenFile ==
  ASSUME WorkflowInv, NEW x \in Executor, OpenFile(x)
  PROVE  OnceInv'
<1>1. /\ AtWork(x) /\ pc[x] = "ready" /\ DOMAIN pc = Executor
      /\ pc' = [pc EXCEPT ![x] = "open"] /\ work' = work /\ plan' = plan
      /\ file' = Empty /\ runs' = runs /\ disturbed' = disturbed /\ begun' = begun
      /\ repeated' = repeated
  BY DEF OpenFile, history, AtWork, WorkflowInv, TruthInv, Shape
<1>2. \A y \in Executor : AtWork(y)' = AtWork(y)
  BY <1>1 DEF AtWork
<1>3. file' \in NotAPlan /\ NotAPlan' = NotAPlan
  BY <1>1 DEF NotAPlan
<1>4. OwnInv(x)'
  <2>1. OwnInv(x) /\ pc'[x] = "open"
    BY <1>1, Holding
  <2>2. Current(x)' = Current(x)
    BY <1>1 DEF Current
  <2>3. plan[x].run \notin disturbed =>
          /\ \A k \in DOMAIN work[x] : \A l \in DOMAIN work[x][k] :
               <<plan[x].run, work[x][k][l]>> \notin begun
          /\ \A t \in TaskOf(plan[x].goal) :
               ~(<<plan[x].run, t>> \in begun /\ plan[x].status[t] = "PENDING")
          /\ \A y \in Executor : y # x /\ AtWork(y) => plan[y].run # plan[x].run
    BY <1>1, <2>1 DEF OwnInv
  <2> QED BY <1>1, <1>2, <1>3, <2>1, <2>3 DEF OwnInv
<1>5. ASSUME NEW y \in Executor, y # x, AtWork(y)' PROVE OwnInv(y)'
  <2>1. AtWork(y) /\ OwnInv(y) /\ runs \in Nat /\ pc'[y] = pc[y]
    BY <1>1, <1>2, <1>5, Holding
  <2>2. plan[y].run \notin disturbed' =>
          \A z \in Executor : z # y /\ AtWork(z)' => plan'[z].run # plan[y].run
    BY <1>1, <1>2, <2>1 DEF OwnInv
  <2> QED BY <1>1, <1>3, <2>1, <2>2, OthersOwn
<1>6. FileInv'
  BY <1>3 DEF FileInv
<1> QED BY <1>1, <1>4, <1>5, <1>6 DEF WorkflowInv, OnceInv, RepeatedOnlyIfDisturbed

LEMMA OnceWrite ==
  ASSUME WorkflowInv, NEW x \in Executor, Write(x)
  PROVE  OnceInv'
<1> DEFINE r == plan[x].run
           b == work[x]
<1>1. /\ AtWork(x) /\ pc[x] = "open"
      /\ DOMAIN pc = Executor /\ DOMAIN plan = Executor /\ DOMAIN work = Executor
      /\ work' = [work EXCEPT ![x] = Tail(@)]
      /\ runs' = runs /\ disturbed' = disturbed /\ begun' = begun /\ repeated' = repeated
      /\ file' = file \/ file' = plan[x] \/ file' = Torn
  BY DEF Write, Saved, history, AtWork, WorkflowInv, TruthInv, Shape
<1>2. \/ pc' = [pc EXCEPT ![x] = "ready"] /\ plan' = plan
      \/ pc' = [pc EXCEPT ![x] = "idle"] /\ plan' = [plan EXCEPT ![x] = NoPlan]
  BY DEF Write
<1>3. /\ WorkInv(x) /\ OwnInv(x) /\ r \in Nat /\ r <= runs /\ runs \in Nat
  BY <1>1, Holding
<1>4. b \in Seq(Seq(TaskOf(plan[x].goal))) /\ b # <<>> /\ b[1] = <<>>
  BY <1>1, <1>3 DEF WorkInv, Fits
<1>5. work'[x] = Tail(b)
  BY <1>1
<1> HIDE DEF r, b
<1>6. \A y \in Executor : y # x => /\ pc'[y] = pc[y] /\ plan'[y] = plan[y] /\ work'[y] = work[y]
                                  /\ AtWork(y)' = AtWork(y)
  BY <1>1, <1>2 DEF AtWork
<1>7. r \notin disturbed =>
        /\ \A k \in DOMAIN b : \A l \in DOMAIN b[k] : <<r, b[k][l]>> \notin begun
        /\ \A t \in TaskOf(plan[x].goal) : ~(<<r, t>> \in begun /\ plan[x].status[t] = "PENDING")
        /\ \A y \in Executor : y # x /\ AtWork(y) => plan[y].run # r
        /\ file \in NotAPlan \/ file.run # r
  BY <1>1, <1>3 DEF OwnInv, r, b
<1>8. AtWork(x)' => pc'[x] = "ready" /\ plan'[x] = plan[x]
  BY <1>1, <1>2 DEF AtWork
<1>9. ASSUME AtWork(x)' PROVE OwnInv(x)'
  <2>1. CASE r \in disturbed
    BY <1>1, <1>3, <1>8, <1>9, <2>1 DEF OwnInv, r
  <2>2. CASE r \notin disturbed
    <3>1. \A k \in DOMAIN work'[x] : \A l \in DOMAIN work'[x][k] :
            <<r, work'[x][k][l]>> \notin begun
      <4>1. \A k \in DOMAIN Tail(b) : k + 1 \in DOMAIN b /\ Tail(b)[k] = b[k + 1]
        BY <1>4, BatchDropped
      <4> QED BY <1>5, <1>7, <2>2, <4>1
    <3>2. \A y \in Executor : y # x /\ AtWork(y)' => plan'[y].run # r
      BY <1>6, <1>7, <2>2
    <3> QED BY <1>1, <1>3, <1>7, <1>8, <1>9, <2>2, <3>1, <3>2 DEF OwnInv, r
  <2> QED BY <2>1, <2>2
<1>10. ASSUME NEW y \in Executor, y # x, AtWork(y)' PROVE OwnInv(y)'
  <2>1. AtWork(y) /\ OwnInv(y)
    BY <1>6, <1>10, Holding
  <2>2. plan[y].run \notin disturbed =>
          /\ \A z \in Executor : z # y /\ AtWork(z) => plan[z].run # plan[y].run
          /\ pc[y] = "open" => file \in NotAPlan \/ file.run # plan[y].run
    BY <2>1 DEF OwnInv
  <2>3. plan[y].run \notin disturbed => r # plan[y].run
    BY <1>1, <1>10, <2>2 DEF r
  <2>4. plan[y].run \notin disturbed' =>
          \A z \in Executor : z # y /\ AtWork(z)' => plan'[z].run # plan[y].run
    BY <1>1, <1>6, <1>8, <2>2, <2>3 DEF r
  <2>5. plan[y].run \notin disturbed' /\ pc[y] = "open" =>
          file' \in NotAPlan \/ file'.run # plan[y].run
    BY <1>1, <2>2, <2>3 DEF r, NotAPlan
  <2>6. runs' \in Nat /\ runs <= runs' /\ disturbed \subseteq disturbed' /\ begun' = begun
    BY <1>1, <1>3
  <2> QED BY <1>6, <1>10, <2>1, <2>4, <2>5, <2>6, OthersOwn
<1>11. FileInv'
  <2>1. CASE file' = file
    <3>1. AtWork(x) /\ plan[x].run = file.run =>
            file \in NotAPlan \/ file.run \in disturbed'
      BY <1>1, <1>7 DEF r
    <3> QED BY <1>1, <1>6, <2>1, <3>1, FileLeft
  <2>2. CASE file' = plan[x]
    <3>1. plan[x].run <= runs'
      BY <1>1, <1>3 DEF r
    <3>2. r \notin disturbed => NoneAgain(plan[x])
      BY <1>7 DEF NoneAgain, r
    <3>3. r \notin disturbed => NoneAgain(file)'
      BY <1>1, <2>2, <3>2 DEF NoneAgain
    <3> QED BY <1>1, <2>2, <3>1, <3>3 DEF FileInv, r
  <2>3. CASE file' = Torn
    BY <2>3 DEF FileInv, NotAPlan
  <2> QED BY <1>1, <2>1, <2>2, <2>3
<1> QED BY <1>1, <1>9, <1>10, <1>11 DEF WorkflowInv, OnceInv, RepeatedOnlyIfDisturbed

LEMMA OnceClear ==
  ASSUME WorkflowInv, Clear
  PROVE  OnceInv'
<1>1. /\ pc' = pc /\ work' = work /\ plan' = plan /\ file' = Absent
      /\ runs' = runs /\ disturbed' = disturbed /\ begun' = begun /\ repeated' = repeated
  BY DEF Clear, history
<1>2. \A y \in Executor : AtWork(y)' = AtWork(y)
  BY <1>1 DEF AtWork
<1>3. file' \in NotAPlan
  BY <1>1 DEF NotAPlan
<1>4. ASSUME NEW y \in Executor, AtWork(y)' PROVE OwnInv(y)'
  <2>1. AtWork(y) /\ OwnInv(y) /\ runs \in Nat /\ pc'[y] = pc[y]
    BY <1>1, <1>2, <1>4, Holding
  <2>2. plan[y].run \notin disturbed' =>
          \A z \in Executor : z # y /\ AtWork(z)' => plan'[z].run # plan[y].run
    BY <1>1, <1>2, <2>1 DEF OwnInv
  <2> QED BY <1>1, <1>3, <2>1, <2>2, OthersOwn
<1>5. FileInv'
  BY <1>3 DEF FileInv, NotAPlan
<1> QED BY <1>1, <1>4, <1>5 DEF WorkflowInv, OnceInv, RepeatedOnlyIfDisturbed

LEMMA OnceDie ==
  ASSUME WorkflowInv, NoPlanIsNone, NEW gone \in SUBSET Executor, Die(gone)
  PROVE  OnceInv'
<1>1. /\ file' = file /\ runs' = runs /\ begun' = begun /\ repeated' = repeated
      /\ disturbed' = disturbed \cup {plan[x].run : x \in {y \in gone : plan[y] # NoPlan}}
  BY DEF Die
<1>2. \A x \in Executor :
        IF x \in gone THEN pc'[x] = "idle"
        ELSE pc'[x] = pc[x] /\ plan'[x] = plan[x] /\ work'[x] = work[x]
  BY DEF Die
<1>3. \A x \in Executor : AtWork(x)' = (x \notin gone /\ AtWork(x))
  BY <1>2 DEF AtWork
<1>4. \A x \in gone : AtWork(x) => plan[x].run \in disturbed'
  <2> SUFFICES ASSUME NEW x \in gone, AtWork(x) PROVE plan[x].run \in disturbed'
    OBVIOUS
  <2>1. plan[x] # NoPlan
    BY Holding DEF NoPlanIsNone
  <2> QED BY <1>1, <2>1
<1>5. ASSUME NEW y \in Executor, AtWork(y)' PROVE OwnInv(y)'
  <2>1. AtWork(y) /\ OwnInv(y) /\ runs \in Nat /\ y \notin gone
    BY <1>3, <1>5, Holding
  <2>2. pc'[y] = pc[y] /\ plan'[y] = plan[y] /\ work'[y] = work[y]
    BY <1>2, <2>1
  <2>3. plan[y].run \notin disturbed' =>
          \A z \in Executor : z # y /\ AtWork(z)' => plan'[z].run # plan[y].run
    BY <1>1, <1>2, <1>3, <2>1 DEF OwnInv
  <2>4. plan[y].run \notin disturbed' /\ pc[y] = "open" =>
          file' \in NotAPlan \/ file'.run # plan[y].run
    BY <1>1, <2>1 DEF OwnInv
  <2>5. runs' \in Nat /\ runs <= runs' /\ disturbed \subseteq disturbed'
    BY <1>1, <2>1
  <2> QED BY <1>1, <2>1, <2>2, <2>3, <2>4, <2>5, OthersOwn
<1>6. FileInv'
  <2>1. \A x \in Executor : AtWork(x) /\ plan[x].run = file.run =>
          file.run \in disturbed' \/ (AtWork(x)' /\ plan'[x].run = file.run)
    BY <1>2, <1>3, <1>4
  <2> QED BY <1>1, <2>1, FileLeft
<1> QED BY <1>1, <1>5, <1>6 DEF WorkflowInv, OnceInv, RepeatedOnlyIfDisturbed

LEMMA OnceStutter ==
  ASSUME WorkflowInv, UNCHANGED vars
  PROVE  OnceInv'
<1>1. /\ pc' = pc /\ work' = work /\ plan' = plan /\ file' = file
      /\ runs' = runs /\ disturbed' = disturbed /\ begun' = begun /\ repeated' = repeated
  BY DEF vars
<1>2. \A y \in Executor : AtWork(y)' = AtWork(y)
  BY <1>1 DEF AtWork
<1>3. ASSUME NEW y \in Executor, AtWork(y)' PROVE OwnInv(y)'
  <2>1. OwnInv(y) /\ Current(y)' = Current(y) /\ NotAPlan' = NotAPlan
    BY <1>1, <1>2, <1>3, Holding DEF Current, NotAPlan
  <2> QED BY <1>1, <1>2, <2>1 DEF OwnInv
<1>4. FileInv'
  BY <1>1, <1>2, FileLeft
<1> QED BY <1>1, <1>3, <1>4 DEF WorkflowInv, OnceInv, RepeatedOnlyIfDisturbed

LEMMA OnceStep == NoPlanIsNone /\ WorkflowInv /\ [Next]_vars => OnceInv'
<1> SUFFICES ASSUME NoPlanIsNone, WorkflowInv, [Next]_vars PROVE OnceInv'
  OBVIOUS
<1>1. ASSUME NEW e \in Engine, Run(e) \/ Die({e}) PROVE OnceInv'
  BY <1>1, OnceRun, OnceDie DEF Executor
<1>2. CASE Tick
  BY <1>2, OnceSpawn DEF Tick
<1>3. ASSUME NEW d \in Thread, Load(d) \/ Die({d}) PROVE OnceInv'
  BY <1>3, OnceLoad, OnceDie DEF Executor
<1>4. ASSUME NEW x \in Executor, Execute(x) PROVE OnceInv'
  BY <1>4, OnceBegin, OnceEnd, OnceOpenFile, OnceWrite DEF Execute
<1>5. CASE Clear
  BY <1>5, OnceClear
<1>6. CASE Die(Thread)
  BY <1>6, OnceDie DEF Executor
<1>7. CASE UNCHANGED vars
  BY <1>7, OnceStutter
<1> QED BY <1>1, <1>2, <1>3, <1>4, <1>5, <1>6, <1>7 DEF Next

\* A task is executed a second time only if two executors were at work on its plan
\* at once, or one died at it (lib/overseer.py _dispatch_workflow).
THEOREM OnceUnlessDisturbed ==
  ASSUME NoPlanIsNone
  PROVE  Spec => []RepeatedOnlyIfDisturbed
<1>1. Init => WorkflowInv
  BY TruthInit, OnceInit DEF WorkflowInv
<1>2. WorkflowInv /\ [Next]_vars => WorkflowInv'
  BY NoPlanIsNone, TruthStep, OnceStep DEF WorkflowInv
<1>3. WorkflowInv => RepeatedOnlyIfDisturbed
  BY DEF WorkflowInv, OnceInv
<1> QED BY <1>1, <1>2, <1>3, PTL DEF Spec
===============================================================================
