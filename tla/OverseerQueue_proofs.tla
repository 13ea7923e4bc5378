------------------------- MODULE OverseerQueue_proofs -------------------------
(***************************************************************************)
(* Proofs about the overseer's queue, for any number of tasks, of pool     *)
(* workers, of removals and of deaths at any step, whether or not the tick *)
(* executes a task on its own thread: its types, and what the queue file,  *)
(* the store of the scheduler and the executions have to do with each      *)
(* other (QueueTellsTrue). The invariant says of every actor what the list *)
(* in its hands can be, in which stage; and of a queue nobody's save has   *)
(* disturbed, that file, hands and executions agree entry by entry.        *)
(***************************************************************************)
EXTENDS OverseerQueue, FiniteSetTheorems, TLAPS

\* Stages by what an actor has in its hands there.
Working == {"execute", "worker execute"}
Claims == {"claim", "worker claim"}
InHand == Working \cup {"settle", "worker executed", "worker settle"}
Judged == {"settle", "report", "worker executed", "worker settle"}

TickStages == {"off", "asleep", "schedule", "fire", "mark fired", "dispatch", "next", "claim",
               "execute", "settle", "report", "cleanup"}
PoolStages == {"off", "idle", "worker claim", "worker execute", "worker executed", "worker settle"}
CliStages == {"idle", "command", "done"}
Passing == {"next", "claim", "execute", "settle", "report"}
StagesOf(a) == IF a = Tick THEN TickStages ELSE IF a \in Pool THEN PoolStages ELSE CliStages

\* What the job of an actor is, in a stage, with a list in its hands.
JobFits(s, q, j) ==
  /\ j \in {0} \cup DOMAIN q
  /\ s \in Claims \cup InHand \cup {"report"} => j > 0 \/ s = "worker settle"
  /\ s \notin Claims \cup InHand \cup {"report", "next"} => j = 0
  /\ s \in Judged /\ j > 0 => q[j].status \in Finished

HandsInv ==
  /\ copy \in [Actor -> Seq(Entry)]
  /\ job \in [Actor -> Nat]
  /\ \A a \in Actor : JobFits(stage[a], copy[a], job[a])

StagesInv ==
  /\ stage \in [Actor -> Stage]
  /\ \A a \in Actor : stage[a] \in StagesOf(a)
  /\ \A w \in Pool : stage[Tick] = "off" => stage[w] = "off"

TodoInv ==
  /\ todo \subseteq Queued(copy[Tick])
  /\ stage[Tick] \notin Passing => todo = {}
  /\ stage[Tick] \in Passing \ {"next"} => job[Tick] \notin todo

BirthsInv ==
  /\ ids \in Seq(Nat \X Nat) /\ Len(ids) = made /\ made \in 0..MaxTasks
  /\ fired \subseteq 1..made
  /\ ran \in [Task -> 0..2] /\ \A t \in Task : t > made => ran[t] = 0

RestInv ==
  /\ file = Unreadable \/ file \in Seq(Entry)
  /\ robbed \subseteq Saving /\ stale \subseteq Actor
  /\ due \in {"scheduled", "queued", "completed", "failed"}
  /\ unmarked \in BOOLEAN /\ disturbed \in BOOLEAN /\ stopping \in BOOLEAN /\ stops \in Nat

ShapeInv == HandsInv /\ StagesInv /\ TodoInv /\ BirthsInv /\ RestInv

-------------------------------------------------------------------------------
\* Lists.

LEMMA NoEntries == <<>> \in Seq(Entry) /\ Len(<<>>) = 0 /\ DOMAIN <<>> = {}
OBVIOUS

LEMMA OneEntry ==
  ASSUME NEW t \in Task, NEW s \in Status
  PROVE  [task |-> t, status |-> s] \in Entry
BY DEF Entry

LEMMA EntryFacts ==
  ASSUME NEW q \in Seq(Entry), NEW i \in DOMAIN q
  PROVE  i \in Nat /\ i > 0 /\ q[i] \in Entry /\ q[i].task \in Task /\ q[i].status \in Status
<1>1. i \in Nat /\ i > 0 /\ q[i] \in Entry
  OBVIOUS
<1>2. \A e \in Entry : e.task \in Task /\ e.status \in Status
  BY DEF Entry
<1> QED BY <1>1, <1>2

LEMMA WithStatusFacts ==
  ASSUME NEW q \in Seq(Entry), NEW i \in DOMAIN q, NEW s \in Status
  PROVE  /\ WithStatus(q, i, s) \in Seq(Entry)
         /\ DOMAIN WithStatus(q, i, s) = DOMAIN q
         /\ \A j \in DOMAIN q : /\ WithStatus(q, i, s)[j].task = q[j].task
                                /\ j # i => WithStatus(q, i, s)[j] = q[j]
         /\ WithStatus(q, i, s)[i].status = s
<1> DEFINE e == [q[i] EXCEPT !.status = s]
<1>1. q[i] \in Entry
  OBVIOUS
<1>2. e \in Entry /\ e.task = q[i].task /\ e.status = s
  BY <1>1 DEF Entry
<1>3. WithStatus(q, i, s) = [q EXCEPT ![i] = e]
  BY DEF WithStatus
<1> HIDE DEF e
<1>4. /\ [q EXCEPT ![i] = e] \in Seq(Entry)
      /\ DOMAIN [q EXCEPT ![i] = e] = DOMAIN q
      /\ [q EXCEPT ![i] = e][i] = e
      /\ \A j \in DOMAIN q : j # i => [q EXCEPT ![i] = e][j] = q[j]
  BY <1>2
<1> QED BY <1>2, <1>3, <1>4

LEMMA AppendFacts ==
  ASSUME NEW q \in Seq(Entry), NEW e \in Entry
  PROVE  /\ Append(q, e) \in Seq(Entry)
         /\ DOMAIN Append(q, e) = DOMAIN q \cup {Len(q) + 1}
         /\ \A j \in DOMAIN q : Append(q, e)[j] = q[j]
         /\ Append(q, e)[Len(q) + 1] = e
         /\ Len(q) + 1 \notin DOMAIN q
OBVIOUS

\* The places of a set of positions are its elements, each once.
LEMMA Places ==
  ASSUME NEW q \in Seq(Entry), NEW keep \in SUBSET DOMAIN q
  PROVE  /\ Cardinality(keep) \in Nat
         /\ \A k \in 1..Cardinality(keep) :
              /\ Place(keep, k) \in keep
              /\ Cardinality({j \in keep : j <= Place(keep, k)}) = k
<1> DEFINE upto(i) == {j \in keep : j <= i}
           rank == [i \in keep |-> Cardinality(upto(i))]
           ranks == 1..Cardinality(keep)
<1>1. IsFiniteSet(keep) /\ Cardinality(keep) \in Nat
  <2>1. DOMAIN q = 1..Len(q) /\ Len(q) \in Nat
    OBVIOUS
  <2>2. IsFiniteSet(1..Len(q))
    BY <2>1, FS_Interval
  <2> QED BY <2>1, <2>2, FS_Subset, FS_CardinalityType
<1>2. \A i \in keep : i \in Nat /\ i \in upto(i) /\ upto(i) \in SUBSET keep
  OBVIOUS
<1>3. \A i \in keep : IsFiniteSet(upto(i)) /\ Cardinality(upto(i)) \in ranks
  <2> SUFFICES ASSUME NEW i \in keep PROVE IsFiniteSet(upto(i)) /\ Cardinality(upto(i)) \in ranks
    OBVIOUS
  <2>1. IsFiniteSet(upto(i)) /\ Cardinality(upto(i)) <= Cardinality(keep)
    BY <1>1, <1>2, FS_Subset
  <2>2. Cardinality(upto(i)) \in Nat /\ Cardinality(upto(i)) # 0
    BY <2>1, <1>2, FS_CardinalityType, FS_EmptySet
  <2> QED BY <1>1, <2>1, <2>2
<1>4. \A i, j \in keep : i < j => Cardinality(upto(i)) # Cardinality(upto(j))
  <2> SUFFICES ASSUME NEW i \in keep, NEW j \in keep, i < j,
                      Cardinality(upto(i)) = Cardinality(upto(j))
               PROVE  FALSE
    OBVIOUS
  <2>1. upto(i) \in SUBSET upto(j) /\ j \in upto(j) /\ j \notin upto(i)
    BY <1>2
  <2>2. upto(i) = upto(j)
    BY <2>1, <1>3, FS_Subset
  <2> QED BY <2>1, <2>2
<1>5. rank \in Injection(keep, ranks)
  <2>1. rank \in [keep -> ranks]
    BY <1>3
  <2>2. ASSUME NEW i \in keep, NEW j \in keep, i # j PROVE rank[i] # rank[j]
    <3>1. i < j \/ j < i
      BY <1>2, <2>2
    <3> QED BY <3>1, <1>4
  <2> QED BY <2>1, <2>2 DEF Injection, IsInjective
<1>6. rank \in Surjection(keep, ranks)
  <2>1. IsFiniteSet(ranks) /\ Cardinality(ranks) = Cardinality(keep)
    BY <1>1, FS_Interval
  <2> HIDE DEF rank, ranks
  <2> QED BY <2>1, <1>5, FS_Injection
<1>7. ASSUME NEW k \in ranks
      PROVE  Place(keep, k) \in keep /\ Cardinality({j \in keep : j <= Place(keep, k)}) = k
  <2>1. \E i \in keep : Cardinality({j \in keep : j <= i}) = k
    BY <1>6 DEF Surjection
  <2> QED BY <2>1 DEF Place
<1> QED BY <1>1, <1>7

LEMMA SublistFacts ==
  ASSUME NEW q \in Seq(Entry), NEW keep \in SUBSET DOMAIN q
  PROVE  /\ Sublist(q, keep) \in Seq(Entry)
         /\ \A k \in DOMAIN Sublist(q, keep) :
              Place(keep, k) \in keep /\ Sublist(q, keep)[k] = q[Place(keep, k)]
         /\ \A k, l \in DOMAIN Sublist(q, keep) : Place(keep, k) = Place(keep, l) => k = l
<1> DEFINE n == Cardinality(keep)
<1>1. n \in Nat /\ \A k \in 1..n : Place(keep, k) \in keep
  BY Places
<1>2. Sublist(q, keep) = [k \in 1..n |-> q[Place(keep, k)]]
  BY DEF Sublist
<1>3. \A k \in 1..n : q[Place(keep, k)] \in Entry
  BY <1>1
<1>4. DOMAIN Sublist(q, keep) = 1..n
  BY <1>2
<1>5. Sublist(q, keep) \in Seq(Entry)
  <2>1. Sublist(q, keep) \in [1..n -> Entry]
    BY <1>2, <1>3
  <2> HIDE DEF n
  <2> QED BY <2>1, <1>1
<1>6. ASSUME NEW k \in 1..n, NEW l \in 1..n, Place(keep, k) = Place(keep, l) PROVE k = l
  <2>1. /\ Cardinality({j \in keep : j <= Place(keep, k)}) = k
        /\ Cardinality({j \in keep : j <= Place(keep, l)}) = l
    BY Places
  <2> QED BY <2>1, <1>6
<1> QED BY <1>1, <1>2, <1>4, <1>5, <1>6

\* A set of positions has a first one.
LEMMA FirstOfBounded ==
  ASSUME NEW b \in Nat, NEW T \in SUBSET (0..b), T # {}
  PROVE  \E n \in T : \A m \in T : n <= m
<1> DEFINE W == {0..n : n \in T}
<1> DEFINE R == StrictSubsetOrdering(0..b)
<1> DEFINE F == FiniteSubsetsOf(0..b)
<1>1. IsWellFoundedOn(R, F)
  BY FS_StrictSubsetOrderingWellFounded
<1>2. W \subseteq F /\ W # {}
  <2>1. SUFFICES ASSUME NEW n \in T PROVE 0..n \in F
    OBVIOUS
  <2>2. IsFiniteSet(0..n)
    BY FS_Interval
  <2>3. 0..n \subseteq 0..b
    OBVIOUS
  <2> QED BY <2>2, <2>3 DEF FiniteSubsetsOf
<1>3. PICK w \in W : \A v \in W : ~ (<<v, w>> \in R)
  <2> HIDE DEF R, F, W
  <2> QED BY <1>1, <1>2, WFMin
<1>4. PICK n \in T : w = 0..n
  BY <1>3
<1>5. \A m \in T : n <= m
  <2> SUFFICES ASSUME NEW m \in T, m < n PROVE FALSE
    OBVIOUS
  <2>1. 0..m \in W
    OBVIOUS
  <2>2. n \in Nat /\ m \in Nat /\ n <= b /\ m <= b
    OBVIOUS
  <2>3. 0..m \subseteq 0..n /\ 0..n \subseteq 0..b /\ n \in 0..n /\ n \notin 0..m
    BY <2>2
  <2>4. <<0..m, w>> \in R
    BY <1>4, <2>3 DEF StrictSubsetOrdering
  <2> QED BY <1>3, <2>1, <2>4
<1> QED BY <1>5

LEMMA FirstPosition ==
  ASSUME NEW q \in Seq(Entry), NEW T \in SUBSET DOMAIN q, T # {}
  PROVE  Min(T) \in T /\ \A i \in T : Min(T) <= i
<1>1. Len(q) \in Nat /\ T \in SUBSET (0..Len(q))
  OBVIOUS
<1>2. \E n \in T : \A m \in T : n <= m
  BY <1>1, FirstOfBounded
<1> QED BY <1>2 DEF Min

-------------------------------------------------------------------------------
\* The shape of the state.

OnlyActs(a) ==
  \A b \in Actor \ {a} : copy'[b] = copy[b] /\ stage'[b] = stage[b] /\ job'[b] = job[b]

LEMMA LoadedSeq ==
  ASSUME RestInv PROVE Loaded \in Seq(Entry)
BY NoEntries DEF RestInv, Loaded

LEMMA Roles ==
  /\ Tick \in Actor /\ Pool \subseteq Actor /\ Cli \subseteq Actor
  /\ \A w \in Pool : w # Tick /\ w \notin Cli
  /\ \A c \in Cli : c # Tick /\ c \notin Pool
  /\ \A a \in Actor : a = Tick \/ a \in Pool \/ a \in Cli
BY QueueConstants DEF Actor

\* What becomes of the actor that acts.
LEMMA OneActor ==
  ASSUME HandsInv, StagesInv, NEW a \in Actor, NEW q \in Seq(Entry), NEW s \in Stage, NEW j,
         Hold(a, q), Enter(a, s), job' = [job EXCEPT ![a] = j],
         JobFits(s, q, j), s \in StagesOf(a), s # "off", a \in Pool => stage[Tick] # "off"
  PROVE  /\ HandsInv' /\ StagesInv'
         /\ copy'[a] = q /\ stage'[a] = s /\ job'[a] = j
         /\ OnlyActs(a)
<1>1. /\ copy'[a] = q /\ stage'[a] = s /\ job'[a] = j
      /\ OnlyActs(a)
  BY DEF OnlyActs, Hold, Enter, HandsInv, StagesInv
<1>2. copy' \in [Actor -> Seq(Entry)] /\ stage' \in [Actor -> Stage]
  BY DEF Hold, Enter, HandsInv, StagesInv
<1>3. job' \in [Actor -> Nat]
  <2>1. \A i \in DOMAIN q : i \in Nat
    OBVIOUS
  <2>2. j \in {0} \cup DOMAIN q
    BY DEF JobFits
  <2>3. j \in Nat
    BY <2>1, <2>2
  <2> QED BY <2>3 DEF HandsInv
<1>4. \A b \in Actor : JobFits(stage'[b], copy'[b], job'[b])
  BY <1>1 DEF OnlyActs, HandsInv
<1>5. HandsInv'
  BY <1>2, <1>3, <1>4 DEF HandsInv, JobFits
<1>6. \A b \in Actor : stage'[b] \in StagesOf(b)
  BY <1>1 DEF OnlyActs, StagesInv
<1>7. \A w \in Pool : stage'[Tick] = "off" => stage'[w] = "off"
  BY <1>1, Roles DEF OnlyActs, StagesInv
<1>8. StagesInv'
  BY <1>2, <1>6, <1>7 DEF StagesInv, StagesOf
<1> QED BY <1>1, <1>5, <1>8

LEMMA AfterFacts ==
  ASSUME NEW s \in Saves, NEW ok \in BOOLEAN
  PROVE  /\ After(s, ok) \in Stage \ (Saves \cup {"off"})
         /\ s \in TickStages => After(s, ok) \in TickStages
         /\ s \in PoolStages => After(s, ok) \in PoolStages
         /\ s \in CliStages => After(s, ok) \in CliStages
         /\ After(s, ok) \in {"asleep", "idle", "done"} \/ ok
         /\ s \in CliStages <=> After(s, ok) = "done"
         /\ After(s, TRUE) = "execute" <=> s = "claim"
         /\ After(s, TRUE) = "report" <=> s = "settle"
         /\ After(s, TRUE) = "worker execute" <=> s = "worker claim"
         /\ After(s, TRUE) = "mark fired" <=> s = "fire"
         /\ After(s, TRUE) = "schedule" <=> s = "cleanup"
         /\ After(s, ok) # "next"
         /\ s \in PoolStages => After(s, ok) # "asleep"
BY DEF After, Saves, Stage, TickStages, PoolStages, CliStages

LEMMA SavesApart ==
  /\ Saves \cap TickStages = {"fire", "claim", "settle", "cleanup"}
  /\ Saves \cap PoolStages = {"worker claim", "worker settle"}
  /\ Saves \cap CliStages = {"command"}
BY DEF Saves, TickStages, PoolStages, CliStages

LEMMA RestSame ==
  ASSUME RestInv, NEW a \in Actor, stage[a] \notin Saves,
         OnlyActs(a), UNCHANGED <<file, robbed, disturbed, stopping, stops>>, stale' \subseteq stale,
         due' \in {"scheduled", "queued", "completed", "failed"}, unmarked' \in BOOLEAN
  PROVE  RestInv'
<1>1. robbed' \subseteq Saving'
  BY DEF OnlyActs, RestInv, Saving
<1>2. /\ file' = Unreadable \/ file' \in Seq(Entry)
      /\ stale' \subseteq Actor /\ disturbed' \in BOOLEAN /\ stopping' \in BOOLEAN /\ stops' \in Nat
  BY DEF RestInv
<1> QED BY <1>1, <1>2 DEF RestInv

LEMMA BirthsSame ==
  ASSUME BirthsInv, UNCHANGED <<births, ran>>
  PROVE  BirthsInv'
BY DEF BirthsInv, births

\* The list does not belong to the tick, or the tick is on its way.
LEMMA TodoSame ==
  ASSUME TodoInv, NEW a \in Actor \ {Tick}, todo' = todo,
         OnlyActs(a)
  PROVE  TodoInv'
<1>1. copy'[Tick] = copy[Tick] /\ stage'[Tick] = stage[Tick] /\ job'[Tick] = job[Tick]
  BY Roles DEF OnlyActs
<1> QED BY <1>1 DEF TodoInv, Queued, Positions

LEMMA SameJob ==
  ASSUME HandsInv, NEW a \in Actor, UNCHANGED job
  PROVE  job' = [job EXCEPT ![a] = job[a]]
BY DEF HandsInv

LEMMA RanShape ==
  ASSUME BirthsInv, NEW t \in 1..made, Ran(t), UNCHANGED births
  PROVE  BirthsInv' /\ ran'[t] > 0 /\ \A u \in Task \ {t} : ran'[u] = ran[u]
<1>1. t \in Task /\ made \in Nat /\ made <= MaxTasks
  BY QueueConstants DEF BirthsInv, Task
<1>2. ran[t] \in 0..2
  BY <1>1 DEF BirthsInv
<1>3. ran' = [ran EXCEPT ![t] = IF ran[t] = 2 THEN 2 ELSE ran[t] + 1]
  BY DEF Ran
<1>4. ran'[t] \in 0..2 /\ ran'[t] > 0
  <2>1. ran'[t] = IF ran[t] = 2 THEN 2 ELSE ran[t] + 1
    BY <1>1, <1>3 DEF BirthsInv
  <2> QED BY <2>1, <1>2
<1>5. \A u \in Task \ {t} : ran'[u] = ran[u]
  BY <1>3 DEF BirthsInv
<1>6. ran' \in [Task -> 0..2]
  <2>1. (IF ran[t] = 2 THEN 2 ELSE ran[t] + 1) \in 0..2
    BY <1>2
  <2> QED BY <2>1, <1>3 DEF BirthsInv
<1>7. \A u \in Task : u > made => ran'[u] = 0
  BY <1>1, <1>5 DEF BirthsInv
<1> QED BY <1>4, <1>5, <1>6, <1>7 DEF BirthsInv, births

\* A new task: its number is the next, and it has not run.
LEMMA NewTaskShape ==
  ASSUME BirthsInv, RestInv, NEW a \in Actor, NewTask(a), UNCHANGED ran,
         fired' = fired \/ fired' = fired \cup {made + 1}
  PROVE  /\ BirthsInv' /\ made + 1 \in Task /\ made' = made + 1
         /\ \A t \in 1..made : ids'[t] = ids[t]
         /\ [task |-> made + 1, status |-> "queued"] \in Entry
         /\ ran[made + 1] = 0
<1>1. made \in Nat /\ made < MaxTasks /\ made' = made + 1 /\ MaxTasks \in Nat
  BY QueueConstants DEF NewTask, BirthsInv
<1>2. made + 1 \in Task
  BY <1>1 DEF Task
<1>3. Len(Loaded) \in Nat
  BY LoadedSeq
<1>4. made # 0 => ids[made] \in Nat \X Nat
  BY <1>1 DEF BirthsInv
<1>5. PICK second \in IF made = 0 THEN {1} ELSE {ids[made][1], ids[made][1] + 1} :
           ids' = Append(ids, <<second, Len(Loaded)>>)
  BY DEF NewTask
<1>6. second \in Nat
  <2>1. CASE made = 0
    BY <2>1
  <2>2. CASE made # 0
    <3>1. ids[made][1] \in Nat
      BY <2>2, <1>4
    <3> QED BY <2>2, <3>1
  <2> QED BY <2>1, <2>2
<1>7. /\ ids' \in Seq(Nat \X Nat) /\ Len(ids') = made'
      /\ \A t \in 1..made : ids'[t] = ids[t]
  <2> DEFINE id == <<second, Len(Loaded)>>
  <2>1. id \in Nat \X Nat
    BY <1>3, <1>6
  <2>2. ids' = Append(ids, id)
    BY <1>5
  <2> HIDE DEF id
  <2> QED BY <2>1, <2>2, <1>1 DEF BirthsInv
<1>8. fired' \subseteq 1..made'
  <2>1. 1..made \subseteq 1..made' /\ made + 1 \in 1..made'
    BY <1>1
  <2>2. fired \subseteq 1..made
    BY DEF BirthsInv
  <2> QED BY <2>1, <2>2
<1>9. ran' \in [Task -> 0..2] /\ \A t \in Task : t > made' => ran'[t] = 0
  <2>1. \A t \in Task : t > made + 1 => t > made
    BY <1>1 DEF Task
  <2> QED BY <2>1, <1>1 DEF BirthsInv
<1>10. ran[made + 1] = 0
  BY <1>1, <1>2 DEF BirthsInv
<1>11. BirthsInv'
  BY <1>1, <1>7, <1>8, <1>9 DEF BirthsInv
<1> QED BY <1>1, <1>2, <1>7, <1>10, <1>11, OneEntry DEF Status

-------------------------------------------------------------------------------
\* Command lines.

LEMMA CliShape ==
  ASSUME ShapeInv, NEW c \in Cli, stage[c] = "idle", NEW q \in Seq(Entry), Hold(c, q),
         Enter(c, "command"), UNCHANGED <<disk, job, todo, disturbed, store, lives>>, Fresh(c)
  PROVE  /\ HandsInv' /\ StagesInv' /\ TodoInv' /\ RestInv' /\ OnlyActs(c)
         /\ copy'[c] = q /\ stage'[c] = "command" /\ job'[c] = 0
<1>1. c \in Actor /\ c # Tick /\ c \notin Pool
  BY Roles
<1>2. job[c] = 0
  BY <1>1 DEF ShapeInv, HandsInv, JobFits, Claims, InHand, Working
<1>3. job' = [job EXCEPT ![c] = 0]
  BY <1>1, <1>2, SameJob DEF ShapeInv
<1>4. JobFits("command", q, 0)
  BY DEF JobFits, Claims, InHand, Working, Judged
<1>5. "command" \in StagesOf(c) /\ "command" \in Stage
  BY <1>1 DEF StagesOf, CliStages, Stage, Saves
<1>6. /\ HandsInv' /\ StagesInv' /\ OnlyActs(c)
      /\ copy'[c] = q /\ stage'[c] = "command" /\ job'[c] = 0
  BY <1>1, <1>3, <1>4, <1>5, OneActor DEF ShapeInv
<1>7. TodoInv'
  BY <1>1, <1>6, TodoSame DEF ShapeInv
<1>8. RestInv'
  BY <1>1, <1>6, RestSame DEF ShapeInv, disk, store, lives, Fresh, Saves, RestInv
<1> QED BY <1>6, <1>7, <1>8

LEMMA CliStepShape ==
  ASSUME ShapeInv, NEW c \in Cli, CliStep(c) PROVE ShapeInv' /\ OnlyActs(c)
<1>1. Loaded \in Seq(Entry) /\ c \in Actor
  BY LoadedSeq, Roles DEF ShapeInv
<1>2. CASE AddTask(c)
  <2>1. /\ BirthsInv' /\ [task |-> made + 1, status |-> "queued"] \in Entry
    BY <1>1, <1>2, NewTaskShape DEF AddTask, ShapeInv
  <2>2. Append(Loaded, [task |-> made + 1, status |-> "queued"]) \in Seq(Entry)
    BY <1>1, <2>1, AppendFacts
  <2>3. HandsInv' /\ StagesInv' /\ TodoInv' /\ RestInv' /\ OnlyActs(c)
    BY <1>2, <2>2, CliShape DEF AddTask, NewTask
  <2> QED BY <2>1, <2>3 DEF ShapeInv
<1>3. CASE RemoveTask(c)
  <2>1. PICK t \in 1..made :
          Hold(c, Sublist(Loaded, {i \in DOMAIN Loaded : ids[Loaded[i].task] # ids[t]}))
    BY <1>3 DEF RemoveTask
  <2>2. Sublist(Loaded, {i \in DOMAIN Loaded : ids[Loaded[i].task] # ids[t]}) \in Seq(Entry)
    BY <1>1, SublistFacts
  <2>3. HandsInv' /\ StagesInv' /\ TodoInv' /\ RestInv' /\ OnlyActs(c)
    BY <1>3, <2>1, <2>2, CliShape DEF RemoveTask
  <2>4. BirthsInv'
    BY <1>3, BirthsSame DEF RemoveTask, ShapeInv
  <2> QED BY <2>3, <2>4 DEF ShapeInv
<1>4. CASE ClearQueue(c)
  <2>1. HandsInv' /\ StagesInv' /\ TodoInv' /\ RestInv' /\ OnlyActs(c)
    BY <1>4, NoEntries, CliShape DEF ClearQueue
  <2>2. BirthsInv'
    BY <1>4, BirthsSame DEF ClearQueue, ShapeInv
  <2> QED BY <2>1, <2>2 DEF ShapeInv
<1>5. CASE CleanUpByHand(c)
  <2>1. PICK old \in SUBSET DOMAIN Loaded : Hold(c, Thinned(Loaded, old))
    BY <1>5 DEF CleanUpByHand
  <2>2. Thinned(Loaded, old) \in Seq(Entry)
    BY <1>1, SublistFacts DEF Thinned
  <2>3. HandsInv' /\ StagesInv' /\ TodoInv' /\ RestInv' /\ OnlyActs(c)
    BY <1>5, <2>1, <2>2, CliShape DEF CleanUpByHand
  <2>4. BirthsInv'
    BY <1>5, BirthsSame DEF CleanUpByHand, ShapeInv
  <2> QED BY <2>3, <2>4 DEF ShapeInv
<1> QED BY <1>2, <1>3, <1>4, <1>5 DEF CliStep

-------------------------------------------------------------------------------
\* The tick.

\* A tick takes a list, or has it changed, with no job in work and none to come.
LEMMA TickShape ==
  ASSUME ShapeInv, stage[Tick] \notin Saves \cup Passing \cup {"off"}, NEW q \in Seq(Entry),
         NEW s \in {"asleep", "cleanup", "fire", "dispatch", "next"}, Hold(Tick, q), Enter(Tick, s),
         UNCHANGED <<file, robbed, job, disturbed, stopping, stops>>, stale' \subseteq stale,
         todo' \subseteq Queued(q), s # "next" => todo' = {},
         due' \in {"scheduled", "queued", "completed", "failed"}, unmarked' \in BOOLEAN
  PROVE  /\ HandsInv' /\ StagesInv' /\ TodoInv' /\ RestInv' /\ OnlyActs(Tick)
         /\ copy'[Tick] = q /\ stage'[Tick] = s /\ job'[Tick] = 0
<1>1. Tick \in Actor /\ Tick \notin Pool
  BY Roles
<1>2. job[Tick] = 0
  BY <1>1 DEF ShapeInv, HandsInv, StagesInv, JobFits, Claims, InHand, Working, Saves, Passing,
             StagesOf, TickStages
<1>3. job' = [job EXCEPT ![Tick] = 0]
  BY <1>1, <1>2, SameJob DEF ShapeInv
<1>4. JobFits(s, q, 0)
  BY DEF JobFits, Claims, InHand, Working, Judged
<1>5. s \in StagesOf(Tick) /\ s \in Stage /\ s # "off"
  BY <1>1 DEF StagesOf, TickStages, Stage, Saves
<1>6. /\ HandsInv' /\ StagesInv' /\ OnlyActs(Tick)
      /\ copy'[Tick] = q /\ stage'[Tick] = s /\ job'[Tick] = 0
  BY <1>1, <1>3, <1>4, <1>5, OneActor DEF ShapeInv
<1>7. TodoInv'
  BY <1>6 DEF TodoInv, Passing
<1>8. RestInv'
  BY <1>1, <1>6, RestSame DEF ShapeInv
<1> QED BY <1>6, <1>7, <1>8

\* Between two tasks or asleep, the tick has nothing left of the last one.
LEMMA TicksStage ==
  ASSUME ShapeInv, Ticks \/ stage[Tick] = "mark fired" \/ stage[Tick] = "dispatch"
  PROVE  stage[Tick] \notin Saves \cup Passing \cup {"off"} /\ todo = {}
BY DEF Ticks, Saves, Passing, ShapeInv, TodoInv

LEMMA CleanUpShape ==
  ASSUME ShapeInv, CleanUp
  PROVE  ShapeInv' /\ OnlyActs(Tick) /\ copy'[Tick] \in Seq(Entry) /\ stage'[Tick] = "cleanup"
<1>1. PICK old \in SUBSET DOMAIN Loaded : Hold(Tick, Thinned(Loaded, old))
  BY DEF CleanUp
<1>2. Loaded \in Seq(Entry)
  BY LoadedSeq DEF ShapeInv
<1>3. Thinned(Loaded, old) \in Seq(Entry)
  BY <1>2, SublistFacts DEF Thinned
<1>4. Ticks /\ todo = {}
  BY TicksStage DEF CleanUp, Ticks
<1>5. stage[Tick] \notin Saves \cup Passing \cup {"off"}
  BY <1>4, TicksStage
<1>6. stale' \subseteq stale /\ todo' = {} /\ Enter(Tick, "cleanup")
  BY <1>4 DEF CleanUp, Fresh
<1>7. /\ UNCHANGED <<file, robbed, job, disturbed, stopping, stops>>
      /\ due' \in {"scheduled", "queued", "completed", "failed"} /\ unmarked' \in BOOLEAN
  BY DEF CleanUp, disk, store, lives, ShapeInv, RestInv
<1>8. /\ HandsInv' /\ StagesInv' /\ TodoInv' /\ RestInv' /\ OnlyActs(Tick)
      /\ copy'[Tick] = Thinned(Loaded, old) /\ stage'[Tick] = "cleanup"
  BY <1>1, <1>3, <1>5, <1>6, <1>7, TickShape
<1>9. BirthsInv'
  BY BirthsSame DEF CleanUp, ShapeInv
<1> QED BY <1>3, <1>8, <1>9 DEF ShapeInv

LEMMA TickFailsShape ==
  ASSUME ShapeInv, TickFails
  PROVE  ShapeInv' /\ OnlyActs(Tick) /\ copy'[Tick] = <<>> /\ stage'[Tick] = "asleep"
<1>1. Ticks /\ todo = {}
  BY TicksStage DEF TickFails, Ticks
<1>2. stage[Tick] \notin Saves \cup Passing \cup {"off"}
  BY <1>1, TicksStage
<1>3. Hold(Tick, <<>>) /\ Enter(Tick, "asleep") /\ todo' = {} /\ stale' \subseteq stale
  BY <1>1 DEF TickFails, history
<1>4. /\ UNCHANGED <<file, robbed, job, disturbed, stopping, stops>>
      /\ due' \in {"scheduled", "queued", "completed", "failed"} /\ unmarked' \in BOOLEAN
  BY DEF TickFails, disk, store, lives, history, ShapeInv, RestInv
<1>5. /\ HandsInv' /\ StagesInv' /\ TodoInv' /\ RestInv' /\ OnlyActs(Tick)
      /\ copy'[Tick] = <<>> /\ stage'[Tick] = "asleep"
  BY <1>2, <1>3, <1>4, NoEntries, TickShape
<1>6. BirthsInv'
  BY BirthsSame DEF TickFails, history, ShapeInv
<1> QED BY <1>5, <1>6 DEF ShapeInv

LEMMA FireShape ==
  ASSUME ShapeInv, Fire
  PROVE  ShapeInv' /\ OnlyActs(Tick) /\ stage'[Tick] = "fire" /\ job'[Tick] = 0
<1> DEFINE q == Append(Loaded, [task |-> made + 1, status |-> "queued"])
<1>1. Tick \in Actor
  BY Roles
<1>2. Loaded \in Seq(Entry)
  BY LoadedSeq DEF ShapeInv
<1>3. BirthsInv' /\ [task |-> made + 1, status |-> "queued"] \in Entry
  BY <1>1, NewTaskShape DEF Fire, ShapeInv
<1>4. q \in Seq(Entry)
  BY <1>2, <1>3, AppendFacts
<1>5. stage[Tick] \notin Saves \cup Passing \cup {"off"} /\ todo = {}
  BY TicksStage DEF Fire
<1>6. stale' \subseteq stale /\ todo' = {} /\ Enter(Tick, "fire") /\ Hold(Tick, q)
  BY <1>5 DEF Fire, NewTask, Fresh
<1>7. /\ UNCHANGED <<file, robbed, job, disturbed, stopping, stops>>
      /\ due' \in {"scheduled", "queued", "completed", "failed"} /\ unmarked' \in BOOLEAN
  BY DEF Fire, disk, store, lives, ShapeInv, RestInv
<1> HIDE DEF q
<1>8. /\ HandsInv' /\ StagesInv' /\ TodoInv' /\ RestInv' /\ OnlyActs(Tick)
      /\ stage'[Tick] = "fire" /\ job'[Tick] = 0
  BY <1>4, <1>5, <1>6, <1>7, TickShape
<1> QED BY <1>3, <1>8 DEF ShapeInv

LEMMA MarkFiredShape ==
  ASSUME ShapeInv, MarkFired
  PROVE  ShapeInv' /\ OnlyActs(Tick) /\ stage'[Tick] \in {"dispatch", "asleep"}
         /\ copy'[Tick] = copy[Tick] /\ job'[Tick] = 0
<1>1. Tick \in Actor
  BY Roles
<1>2. stage[Tick] \notin Saves \cup Passing \cup {"off"} /\ todo = {}
  BY TicksStage DEF MarkFired
<1>3. copy[Tick] \in Seq(Entry) /\ Hold(Tick, copy[Tick])
  BY <1>1 DEF MarkFired, Hold, ShapeInv, HandsInv
<1>4. PICK s \in {"asleep", "dispatch"} : Enter(Tick, s)
  BY DEF MarkFired
<1>5. /\ UNCHANGED <<file, robbed, job, disturbed, stopping, stops>> /\ stale' \subseteq stale
      /\ due' \in {"scheduled", "queued", "completed", "failed"} /\ unmarked' \in BOOLEAN
      /\ todo' = {} /\ todo' \subseteq Queued(copy[Tick])
  BY <1>2 DEF MarkFired, disk, lives, history, ShapeInv, RestInv
<1>6. /\ HandsInv' /\ StagesInv' /\ TodoInv' /\ RestInv' /\ OnlyActs(Tick)
      /\ copy'[Tick] = copy[Tick] /\ stage'[Tick] = s /\ job'[Tick] = 0
  BY <1>2, <1>3, <1>4, <1>5, TickShape
<1>7. BirthsInv'
  BY BirthsSame DEF MarkFired, history, ShapeInv
<1> QED BY <1>4, <1>6, <1>7 DEF ShapeInv

LEMMA DispatchShape ==
  ASSUME ShapeInv, Dispatch
  PROVE  ShapeInv' /\ OnlyActs(Tick) /\ stage'[Tick] \in {"next", "asleep"}
         /\ copy'[Tick] = Loaded /\ job'[Tick] = 0
<1>1. stage[Tick] \notin Saves \cup Passing \cup {"off"}
  BY TicksStage DEF Dispatch
<1>2. Loaded \in Seq(Entry) /\ Hold(Tick, Loaded)
  BY LoadedSeq DEF Dispatch, ShapeInv
<1>3. PICK s \in {"asleep", "next"} : Enter(Tick, s) /\ (s # "next" => todo' = {})
  <2>1. Enter(Tick, IF todo' = {} THEN "asleep" ELSE "next")
    BY DEF Dispatch
  <2>2. CASE todo' = {}
    BY <2>1, <2>2
  <2>3. CASE todo' # {}
    BY <2>1, <2>3
  <2> QED BY <2>2, <2>3
<1>4. /\ UNCHANGED <<file, robbed, job, disturbed, stopping, stops>> /\ stale' \subseteq stale
      /\ due' \in {"scheduled", "queued", "completed", "failed"} /\ unmarked' \in BOOLEAN
      /\ todo' \subseteq Queued(Loaded)
  BY DEF Dispatch, disk, lives, store, Fresh, ShapeInv, RestInv
<1>5. /\ HandsInv' /\ StagesInv' /\ TodoInv' /\ RestInv' /\ OnlyActs(Tick)
      /\ copy'[Tick] = Loaded /\ stage'[Tick] = s /\ job'[Tick] = 0
  BY <1>1, <1>2, <1>3, <1>4, TickShape
<1>6. BirthsInv'
  BY BirthsSame DEF Dispatch, ShapeInv
<1> QED BY <1>3, <1>5, <1>6 DEF ShapeInv

LEMMA QueuedFacts ==
  ASSUME NEW q \in Seq(Entry)
  PROVE  Queued(q) \subseteq DOMAIN q /\ \A i \in Queued(q) : q[i].status = "queued"
BY DEF Queued, Positions

LEMMA TakeNextShape ==
  ASSUME ShapeInv, TakeNext
  PROVE  /\ ShapeInv' /\ OnlyActs(Tick) /\ stage'[Tick] = "claim" /\ job'[Tick] = Min(todo)
         /\ Min(todo) \in todo /\ copy'[Tick] = WithStatus(copy[Tick], Min(todo), "running")
<1> DEFINE i == Min(todo)
           q == WithStatus(copy[Tick], i, "running")
<1>1. Tick \in Actor /\ Tick \notin Pool /\ copy[Tick] \in Seq(Entry)
  BY Roles DEF ShapeInv, HandsInv
<1>2. todo \subseteq Queued(copy[Tick]) /\ todo # {}
  BY DEF TakeNext, ShapeInv, TodoInv
<1>3. i \in todo /\ i \in DOMAIN copy[Tick]
  BY <1>1, <1>2, QueuedFacts, FirstPosition
<1>4. /\ q \in Seq(Entry) /\ DOMAIN q = DOMAIN copy[Tick]
      /\ \A j \in DOMAIN q : j # i => q[j] = copy[Tick][j]
  <2> HIDE DEF i
  <2>1. "running" \in Status
    BY DEF Status
  <2> QED BY <1>1, <1>3, <2>1, WithStatusFacts
<1>5. JobFits("claim", q, i)
  BY <1>3, <1>4, <1>1, EntryFacts DEF JobFits, Claims, InHand, Working, Judged
<1>6. "claim" \in StagesOf(Tick) /\ "claim" \in Stage
  BY <1>1 DEF StagesOf, TickStages, Stage, Saves
<1>7. Hold(Tick, q) /\ Enter(Tick, "claim") /\ job' = [job EXCEPT ![Tick] = i]
  BY DEF TakeNext
<1> HIDE DEF i, q
<1>8. /\ HandsInv' /\ StagesInv' /\ OnlyActs(Tick)
      /\ copy'[Tick] = q /\ stage'[Tick] = "claim" /\ job'[Tick] = i
  BY <1>1, <1>4, <1>5, <1>6, <1>7, OneActor DEF ShapeInv
<1>9. TodoInv'
  <2>1. todo' = todo \ {i}
    BY DEF TakeNext, i
  <2>2. \A j \in todo \ {i} : j \in DOMAIN q /\ q[j].status = "queued"
    BY <1>1, <1>2, <1>4, QueuedFacts
  <2>3. todo' \subseteq Queued(copy'[Tick])
    BY <2>1, <2>2, <1>8 DEF Queued, Positions
  <2>4. stage'[Tick] \in Passing /\ job'[Tick] \notin todo'
    BY <2>1, <1>8 DEF Passing
  <2>5. (todo \subseteq Queued(copy[Tick]))'
    BY <2>3 DEF Queued, Positions
  <2> QED BY <2>4, <2>5 DEF TodoInv
<1>10. RestInv'
  BY <1>1, <1>8, RestSame DEF TakeNext, ShapeInv, disk, store, lives, history, Saves, RestInv
<1>11. BirthsInv'
  BY BirthsSame DEF TakeNext, history, ShapeInv
<1> QED BY <1>3, <1>8, <1>9, <1>10, <1>11 DEF ShapeInv, i, q

LEMMA QueueDoneShape ==
  ASSUME ShapeInv, QueueDone
  PROVE  ShapeInv' /\ OnlyActs(Tick) /\ stage'[Tick] = "asleep" /\ job'[Tick] = 0
         /\ copy'[Tick] = <<>>
<1>1. Tick \in Actor /\ Tick \notin Pool
  BY Roles
<1>2. "asleep" \in StagesOf(Tick) /\ "asleep" \in Stage
  BY <1>1 DEF StagesOf, TickStages, Stage, Saves
<1>3. JobFits("asleep", <<>>, 0)
  BY DEF JobFits, Claims, InHand, Working, Judged
<1>4. Hold(Tick, <<>>) /\ Enter(Tick, "asleep") /\ job' = [job EXCEPT ![Tick] = 0] /\ todo' = {}
  BY DEF QueueDone
<1>5. /\ HandsInv' /\ StagesInv' /\ OnlyActs(Tick)
      /\ copy'[Tick] = <<>> /\ stage'[Tick] = "asleep" /\ job'[Tick] = 0
  BY <1>1, <1>2, <1>3, <1>4, NoEntries, OneActor DEF ShapeInv
<1>6. TodoInv'
  BY <1>4, <1>5 DEF TodoInv, Passing
<1>7. RestInv'
  BY <1>1, <1>5, RestSame DEF QueueDone, ShapeInv, disk, store, lives, history, Saves, RestInv
<1>8. BirthsInv'
  BY BirthsSame DEF QueueDone, history, ShapeInv
<1> QED BY <1>5, <1>6, <1>7, <1>8 DEF ShapeInv

\* Entries are those of tasks that were given an id, and if one says finished,
\* then a task of that id was executed.
Executed(t) == \E u \in 1..made : ids[u] = ids[t] /\ ran[u] > 0
Honest(q) == \A i \in DOMAIN q : q[i].task \in 1..made /\ (q[i].status \in Finished => Executed(q[i].task))
HonestInv == Honest(Loaded) /\ \A a \in Actor : Honest(copy[a])

\* The entry in work.
LEMMA InWorkFacts ==
  ASSUME ShapeInv, HonestInv, NEW a \in Actor, job[a] > 0
  PROVE  /\ job[a] \in DOMAIN copy[a] /\ InWork(a) = copy[a][job[a]].task
         /\ InWork(a) \in 1..made /\ InWork(a) \in Task
         /\ copy[a] \in Seq(Entry) /\ copy[a][job[a]] \in Entry
<1>1. copy[a] \in Seq(Entry) /\ job[a] \in DOMAIN copy[a]
  <2>1. job[a] # 0
    OBVIOUS
  <2> QED BY <2>1 DEF ShapeInv, HandsInv, JobFits
<1>2. InWork(a) \in 1..made
  BY <1>1 DEF HonestInv, Honest, InWork
<1>3. InWork(a) \in Task
  BY <1>1, EntryFacts DEF InWork
<1> QED BY <1>1, <1>2, <1>3 DEF InWork

LEMMA FinishedIsStatus == Finished \subseteq Status /\ "running" \in Status /\ "queued" \in Status
BY DEF Finished, Status

LEMMA ExecuteShape ==
  ASSUME ShapeInv, HonestInv, Execute
  PROVE  /\ ShapeInv' /\ OnlyActs(Tick) /\ stage'[Tick] = "settle" /\ job'[Tick] = job[Tick]
         /\ job[Tick] > 0 /\ Ran(InWork(Tick))
         /\ \E status \in {"completed", "failed"} :
              copy'[Tick] = WithStatus(copy[Tick], job[Tick], status)
<1>1. Tick \in Actor /\ Tick \notin Pool
  BY Roles
<1>2. job[Tick] > 0
  BY <1>1 DEF Execute, ShapeInv, HandsInv, JobFits, InHand, Working
<1>3. /\ job[Tick] \in DOMAIN copy[Tick] /\ InWork(Tick) \in 1..made /\ copy[Tick] \in Seq(Entry)
  BY <1>1, <1>2, InWorkFacts
<1>4. PICK status \in {"completed", "failed"} :
        Hold(Tick, WithStatus(copy[Tick], job[Tick], status))
  BY DEF Execute
<1> DEFINE q == WithStatus(copy[Tick], job[Tick], status)
<1>5. status \in Status /\ status \in Finished
  BY DEF Status, Finished
<1>6. /\ q \in Seq(Entry) /\ DOMAIN q = DOMAIN copy[Tick] /\ q[job[Tick]].status = status
      /\ \A j \in DOMAIN q : j # job[Tick] => q[j] = copy[Tick][j]
  BY <1>3, <1>5, WithStatusFacts
<1>7. Hold(Tick, q)
  BY <1>4
<1> HIDE DEF q
<1>8. JobFits("settle", q, job[Tick])
  BY <1>2, <1>3, <1>5, <1>6 DEF JobFits, Claims, InHand, Working
<1>9. "settle" \in StagesOf(Tick) /\ "settle" \in Stage
  BY DEF StagesOf, TickStages, Stage, Saves
<1>10. Enter(Tick, "settle") /\ job' = [job EXCEPT ![Tick] = job[Tick]]
  BY <1>1, SameJob DEF Execute, ShapeInv
<1>11. /\ HandsInv' /\ StagesInv' /\ OnlyActs(Tick)
       /\ copy'[Tick] = q /\ stage'[Tick] = "settle" /\ job'[Tick] = job[Tick]
  BY <1>1, <1>6, <1>7, <1>8, <1>9, <1>10, OneActor DEF ShapeInv
<1>12. TodoInv'
  <2>1. todo' = todo /\ todo \subseteq Queued(copy[Tick]) /\ job[Tick] \notin todo
    BY DEF Execute, ShapeInv, TodoInv, Passing
  <2>2. \A j \in todo : j \in DOMAIN q /\ q[j].status = "queued"
    BY <1>3, <1>6, <2>1, QueuedFacts
  <2>3. (todo \subseteq Queued(copy[Tick]))'
    BY <2>1, <2>2, <1>11 DEF Queued, Positions
  <2> QED BY <2>1, <2>3, <1>11 DEF TodoInv, Passing
<1>13. RestInv'
  BY <1>1, <1>11, RestSame DEF Execute, ShapeInv, disk, store, lives, Saves, RestInv
<1>14. BirthsInv' /\ Ran(InWork(Tick))
  BY <1>3, RanShape DEF Execute, ShapeInv
<1> QED BY <1>2, <1>11, <1>12, <1>13, <1>14 DEF ShapeInv, q

LEMMA ReportShape ==
  ASSUME ShapeInv, HonestInv, Report, copy[Tick][job[Tick]].status \in {"completed", "failed"}
  PROVE  /\ ShapeInv' /\ OnlyActs(Tick) /\ stage'[Tick] = "next" /\ job'[Tick] = job[Tick]
         /\ copy'[Tick] = copy[Tick] /\ job[Tick] > 0
<1>1. Tick \in Actor /\ Tick \notin Pool
  BY Roles
<1>2. job[Tick] > 0
  BY <1>1 DEF Report, ShapeInv, HandsInv, JobFits
<1>3. job[Tick] \in DOMAIN copy[Tick] /\ copy[Tick] \in Seq(Entry)
  BY <1>1, <1>2, InWorkFacts
<1>4. Hold(Tick, copy[Tick]) /\ Enter(Tick, "next") /\ job' = [job EXCEPT ![Tick] = job[Tick]]
  BY <1>1, SameJob DEF Report, Hold, ShapeInv, HandsInv
<1>5. JobFits("next", copy[Tick], job[Tick])
  BY <1>2, <1>3 DEF JobFits, Claims, InHand, Working, Judged
<1>6. "next" \in StagesOf(Tick) /\ "next" \in Stage
  BY DEF StagesOf, TickStages, Stage, Saves
<1>7. /\ HandsInv' /\ StagesInv' /\ OnlyActs(Tick)
      /\ copy'[Tick] = copy[Tick] /\ stage'[Tick] = "next" /\ job'[Tick] = job[Tick]
  BY <1>1, <1>3, <1>4, <1>5, <1>6, OneActor DEF ShapeInv
<1>8. TodoInv'
  BY <1>7 DEF Report, ShapeInv, TodoInv, Passing, Queued, Positions
<1>9. due' \in {"scheduled", "queued", "completed", "failed"}
  BY DEF Report, ShapeInv, RestInv
<1>10. RestInv'
  BY <1>1, <1>7, <1>9, RestSame DEF Report, ShapeInv, disk, lives, history, Saves, RestInv
<1>11. BirthsInv'
  BY BirthsSame DEF Report, history, ShapeInv
<1> QED BY <1>2, <1>7, <1>8, <1>10, <1>11 DEF ShapeInv

-------------------------------------------------------------------------------
\* Workers.

LEMMA ClaimShape ==
  ASSUME ShapeInv, NEW w \in Pool, Claim(w)
  PROVE  /\ ShapeInv' /\ OnlyActs(w) /\ stage'[w] = "worker claim"
         /\ job'[w] = Min(Queued(Loaded)) /\ Min(Queued(Loaded)) \in Queued(Loaded)
         /\ copy'[w] = WithStatus(Loaded, Min(Queued(Loaded)), "running")
<1> DEFINE i == Min(Queued(Loaded))
           q == WithStatus(Loaded, i, "running")
<1>1. w \in Actor /\ w # Tick /\ stage[Tick] # "off"
  BY Roles DEF Claim, ShapeInv, StagesInv
<1>2. Loaded \in Seq(Entry)
  BY LoadedSeq DEF ShapeInv
<1>3. i \in Queued(Loaded) /\ i \in DOMAIN Loaded
  BY <1>2, QueuedFacts, FirstPosition DEF Claim
<1>4. Hold(w, q) /\ Enter(w, "worker claim") /\ job' = [job EXCEPT ![w] = i]
  BY DEF Claim
<1>5. q \in Seq(Entry) /\ DOMAIN q = DOMAIN Loaded
  <2> HIDE DEF i
  <2> QED BY <1>2, <1>3, FinishedIsStatus, WithStatusFacts
<1>6. i > 0
  BY <1>2, <1>3, EntryFacts
<1> HIDE DEF i, q
<1>7. JobFits("worker claim", q, i)
  BY <1>3, <1>5, <1>6 DEF JobFits, Claims, InHand, Working, Judged
<1>8. "worker claim" \in StagesOf(w) /\ "worker claim" \in Stage
  BY <1>1 DEF StagesOf, PoolStages, Stage, Saves
<1>9. /\ HandsInv' /\ StagesInv' /\ OnlyActs(w)
      /\ copy'[w] = q /\ stage'[w] = "worker claim" /\ job'[w] = i
  BY <1>1, <1>4, <1>5, <1>7, <1>8, OneActor DEF ShapeInv
<1>10. TodoInv'
  BY <1>1, <1>9, TodoSame DEF Claim, ShapeInv
<1>11. RestInv'
  BY <1>1, <1>9, RestSame DEF Claim, ShapeInv, disk, lives, store, Fresh, Saves, RestInv
<1>12. BirthsInv'
  BY BirthsSame DEF Claim, ShapeInv
<1> QED BY <1>3, <1>9, <1>10, <1>11, <1>12 DEF ShapeInv, i, q

LEMMA WorkerExecuteShape ==
  ASSUME ShapeInv, HonestInv, NEW w \in Pool, WorkerExecute(w)
  PROVE  /\ ShapeInv' /\ OnlyActs(w) /\ stage'[w] = "worker executed" /\ job'[w] = job[w]
         /\ job[w] > 0 /\ Ran(InWork(w))
         /\ \E status \in {"succeeded", "failed"} : copy'[w] = WithStatus(copy[w], job[w], status)
<1>1. w \in Actor /\ w # Tick /\ stage[Tick] # "off"
  BY Roles DEF WorkerExecute, ShapeInv, StagesInv
<1>2. job[w] > 0
  BY <1>1 DEF WorkerExecute, ShapeInv, HandsInv, JobFits, InHand, Working
<1>3. job[w] \in DOMAIN copy[w] /\ InWork(w) \in 1..made /\ copy[w] \in Seq(Entry)
  BY <1>1, <1>2, InWorkFacts
<1>4. PICK status \in {"succeeded", "failed"} : Hold(w, WithStatus(copy[w], job[w], status))
  BY DEF WorkerExecute
<1> DEFINE q == WithStatus(copy[w], job[w], status)
<1>5. status \in Status /\ status \in Finished
  BY DEF Status, Finished
<1>6. q \in Seq(Entry) /\ DOMAIN q = DOMAIN copy[w] /\ q[job[w]].status = status
  BY <1>3, <1>5, WithStatusFacts
<1>7. Hold(w, q)
  BY <1>4
<1> HIDE DEF q
<1>8. JobFits("worker executed", q, job[w])
  BY <1>2, <1>3, <1>5, <1>6 DEF JobFits, Claims, InHand, Working
<1>9. "worker executed" \in StagesOf(w) /\ "worker executed" \in Stage
  BY <1>1 DEF StagesOf, PoolStages, Stage, Saves
<1>10. Enter(w, "worker executed") /\ job' = [job EXCEPT ![w] = job[w]]
  BY <1>1, SameJob DEF WorkerExecute, ShapeInv
<1>11. /\ HandsInv' /\ StagesInv' /\ OnlyActs(w)
       /\ copy'[w] = q /\ stage'[w] = "worker executed" /\ job'[w] = job[w]
  BY <1>1, <1>6, <1>7, <1>8, <1>9, <1>10, OneActor DEF ShapeInv
<1>12. TodoInv'
  BY <1>1, <1>11, TodoSame DEF WorkerExecute, ShapeInv
<1>13. RestInv'
  BY <1>1, <1>11, RestSame DEF WorkerExecute, ShapeInv, disk, store, lives, Saves, RestInv
<1>14. BirthsInv' /\ Ran(InWork(w))
  BY <1>3, RanShape DEF WorkerExecute, ShapeInv
<1> QED BY <1>2, <1>11, <1>12, <1>13, <1>14 DEF ShapeInv, q

LEMMA WorkerRaisesShape ==
  ASSUME ShapeInv, HonestInv, NEW w \in Pool, WorkerRaises(w)
  PROVE  /\ ShapeInv' /\ OnlyActs(w) /\ stage'[w] = "idle" /\ copy'[w] = <<>>
         /\ job[w] > 0 /\ Ran(InWork(w)) /\ InWork(w) \in 1..made
<1>1. w \in Actor /\ w # Tick /\ stage[Tick] # "off"
  BY Roles DEF WorkerRaises, ShapeInv, StagesInv
<1>2. job[w] > 0
  BY <1>1 DEF WorkerRaises, ShapeInv, HandsInv, JobFits, InHand, Working
<1>3. InWork(w) \in 1..made
  BY <1>1, <1>2, InWorkFacts
<1>4. JobFits("idle", <<>>, 0)
  BY DEF JobFits, Claims, InHand, Working, Judged
<1>5. "idle" \in StagesOf(w) /\ "idle" \in Stage
  BY <1>1 DEF StagesOf, PoolStages, Stage, Saves
<1>6. Hold(w, <<>>) /\ Enter(w, "idle") /\ job' = [job EXCEPT ![w] = 0]
  BY DEF WorkerRaises
<1>7. /\ HandsInv' /\ StagesInv' /\ OnlyActs(w)
      /\ copy'[w] = <<>> /\ stage'[w] = "idle"
  BY <1>1, <1>4, <1>5, <1>6, NoEntries, OneActor DEF ShapeInv
<1>8. TodoInv'
  BY <1>1, <1>7, TodoSame DEF WorkerRaises, ShapeInv
<1>9. RestInv'
  BY <1>1, <1>7, RestSame DEF WorkerRaises, ShapeInv, disk, store, Saves, RestInv
<1>10. BirthsInv' /\ Ran(InWork(w))
  BY <1>3, RanShape DEF WorkerRaises, ShapeInv
<1> QED BY <1>2, <1>3, <1>7, <1>8, <1>9, <1>10 DEF ShapeInv

\* Where a worker puts its result.
SettledAt(w) == LET same == SameId(Loaded, InWork(w)) IN IF same = {} THEN 0 ELSE Min(same)

LEMMA SettledAtFacts ==
  ASSUME ShapeInv, NEW w \in Pool
  PROVE  /\ SettledAt(w) # 0 => SettledAt(w) \in SameId(Loaded, InWork(w))
         /\ SettledAt(w) = 0 => SameId(Loaded, InWork(w)) = {}
         /\ SettledAt(w) \in {0} \cup DOMAIN Loaded
<1> DEFINE same == SameId(Loaded, InWork(w))
<1>1. Loaded \in Seq(Entry)
  BY LoadedSeq DEF ShapeInv
<1>2. same \in SUBSET DOMAIN Loaded
  BY DEF SameId
<1>3. same # {} => Min(same) \in same
  <2> HIDE DEF same
  <2> QED BY <1>1, <1>2, FirstPosition
<1>4. SettledAt(w) = IF same = {} THEN 0 ELSE Min(same)
  BY DEF SettledAt
<1>5. \A i \in DOMAIN Loaded : i # 0
  BY <1>1
<1> HIDE DEF same
<1>6. CASE same = {}
  BY <1>4, <1>6 DEF same
<1>7. CASE same # {}
  BY <1>2, <1>3, <1>4, <1>5, <1>7 DEF same
<1> QED BY <1>6, <1>7

LEMMA SettleShape ==
  ASSUME ShapeInv, HonestInv, NEW w \in Pool, Settle(w)
  PROVE  /\ ShapeInv' /\ OnlyActs(w) /\ stage'[w] = "worker settle" /\ job'[w] = SettledAt(w)
         /\ job[w] > 0 /\ copy[w][job[w]].status \in Finished
         /\ copy'[w] = IF SettledAt(w) = 0 THEN Loaded
                       ELSE WithStatus(Loaded, SettledAt(w), copy[w][job[w]].status)
<1> DEFINE at == SettledAt(w)
           status == copy[w][job[w]].status
           q == IF at = 0 THEN Loaded ELSE WithStatus(Loaded, at, status)
<1>1. w \in Actor /\ w # Tick /\ stage[Tick] # "off"
  BY Roles DEF Settle, ShapeInv, StagesInv
<1>2. job[w] > 0 /\ status \in Finished
  BY <1>1 DEF Settle, ShapeInv, HandsInv, JobFits, InHand, Working, Judged
<1>3. Loaded \in Seq(Entry) /\ at \in {0} \cup DOMAIN Loaded
  BY LoadedSeq, SettledAtFacts DEF ShapeInv
<1>4. Hold(w, q) /\ Enter(w, "worker settle") /\ job' = [job EXCEPT ![w] = at]
  BY DEF Settle, SettledAt
<1> HIDE DEF at, status
<1>5. /\ q \in Seq(Entry) /\ DOMAIN q = DOMAIN Loaded
      /\ at # 0 => q[at].status = status
  <2>1. CASE at = 0
    BY <1>3, <2>1
  <2>2. CASE at # 0
    BY <1>2, <1>3, <2>2, FinishedIsStatus, WithStatusFacts
  <2> QED BY <2>1, <2>2
<1>6. q = IF at = 0 THEN Loaded ELSE WithStatus(Loaded, at, status)
  OBVIOUS
<1> HIDE DEF q
<1>7. JobFits("worker settle", q, at)
  <2>1. at > 0 => at # 0
    OBVIOUS
  <2>2. at > 0 => q[at].status \in Finished
    BY <1>2, <1>5, <2>1
  <2>3. at \in {0} \cup DOMAIN q
    BY <1>3, <1>5
  <2>4. "worker settle" \in Claims \cup InHand
    BY DEF InHand
  <2> QED BY <2>2, <2>3, <2>4 DEF JobFits
<1>8. "worker settle" \in StagesOf(w) /\ "worker settle" \in Stage
  BY <1>1 DEF StagesOf, PoolStages, Stage, Saves
<1>9. /\ HandsInv' /\ StagesInv' /\ OnlyActs(w)
      /\ copy'[w] = q /\ stage'[w] = "worker settle" /\ job'[w] = at
  BY <1>1, <1>4, <1>5, <1>7, <1>8, OneActor DEF ShapeInv
<1>10. TodoInv'
  BY <1>1, <1>9, TodoSame DEF Settle, ShapeInv
<1>11. RestInv'
  BY <1>1, <1>9, RestSame DEF Settle, ShapeInv, disk, lives, store, Fresh, Saves, RestInv
<1>12. BirthsInv'
  BY BirthsSame DEF Settle, ShapeInv
<1> QED BY <1>2, <1>6, <1>9, <1>10, <1>11, <1>12 DEF ShapeInv, at, status

-------------------------------------------------------------------------------
\* Saves.

\* What the rename of a save makes of the file and of the other savers.
LEMMA OutcomeFacts ==
  ASSUME ShapeInv, NEW a \in Saving, NEW o \in Outcome(a)
  PROVE  /\ o.ok \in BOOLEAN
         /\ o.robbed \subseteq Saving \ {a}
         /\ o.file \in {copy[b] : b \in Actor} \cup {Unreadable, file}
         /\ Sharing = {a} => o.ok /\ o.file = copy[a] /\ o.robbed = robbed
<1>1. robbed \subseteq Saving /\ a \in Actor /\ Sharing \subseteq Saving /\ Saving \subseteq Actor
  BY DEF ShapeInv, RestInv, Sharing, Saving
<1>2. CASE a \notin robbed
  <2>1. PICK f \in IF Sharing = {a} THEN {copy[a]} ELSE {copy[b] : b \in Sharing} \cup {Unreadable} :
          o = [file |-> f, ok |-> TRUE, robbed |-> robbed \cup (Sharing \ {a})]
    BY <1>2 DEF Outcome
  <2>2. o.ok = TRUE /\ o.robbed = robbed \cup (Sharing \ {a}) /\ o.file = f
    BY <2>1
  <2>3. f \in {copy[b] : b \in Actor} \cup {Unreadable}
    BY <1>1, <2>1
  <2>4. Sharing = {a} => f = copy[a]
    BY <2>1
  <2> QED BY <1>1, <1>2, <2>2, <2>3, <2>4
<1>3. CASE a \in robbed /\ Sharing = {}
  <2>1. PICK f \in {file, copy[a], Unreadable} : o = [file |-> f, ok |-> FALSE, robbed |-> robbed \ {a}]
    BY <1>3 DEF Outcome
  <2>2. o.ok = FALSE /\ o.robbed = robbed \ {a} /\ o.file = f
    BY <2>1
  <2> QED BY <1>1, <1>3, <2>1, <2>2
<1>4. CASE a \in robbed /\ Sharing # {}
  <2>1. PICK f \in {copy[b] : b \in Sharing} \cup {Unreadable} :
          o = [file |-> f, ok |-> TRUE, robbed |-> Saving \ {a}]
    BY <1>4 DEF Outcome
  <2>2. o.ok = TRUE /\ o.robbed = Saving \ {a} /\ o.file = f
    BY <2>1
  <2>3. Sharing # {a}
    BY <1>4 DEF Sharing
  <2> QED BY <1>1, <2>1, <2>2, <2>3
<1> QED BY <1>2, <1>3, <1>4

Ended == {"asleep", "idle", "done"}

\* What a save does to its actor, when the rename succeeded or did not.
Saved(a, ok) ==
  /\ OnlyActs(a)
  /\ stage'[a] = After(stage[a], ok)
  /\ stage'[a] \in Ended => copy'[a] = <<>> /\ job'[a] = 0
  /\ stage'[a] \notin Ended => copy'[a] = copy[a] /\ job'[a] = job[a]
  /\ unmarked' = (unmarked \/ (stage[a] = "fire" /\ ~ok))
  /\ todo' = IF stage'[a] = "asleep" THEN {} ELSE todo

LEMMA SaveShape ==
  ASSUME ShapeInv, NEW a \in Actor, EndSave(a)
  PROVE  /\ ShapeInv' /\ a \in Saving
         /\ \E o \in Outcome(a) : file' = o.file /\ robbed' = o.robbed /\ o.ok \in BOOLEAN /\ Saved(a, o.ok)
<1>1. a \in Saving /\ stage[a] \in Saves /\ stage[a] \in StagesOf(a)
  BY DEF EndSave, Saving, ShapeInv, StagesInv
<1> DEFINE next(o) == After(stage[a], o.ok)
<1>2. PICK o \in Outcome(a) :
         /\ file' = o.file
         /\ robbed' = o.robbed
         /\ Enter(a, next(o))
         /\ IF next(o) \in Ended
              THEN Hold(a, <<>>) /\ job' = [job EXCEPT ![a] = 0] ELSE UNCHANGED <<copy, job>>
         /\ todo' = IF next(o) = "asleep" THEN {} ELSE todo
         /\ unmarked' = (unmarked \/ (stage[a] = "fire" /\ ~o.ok))
  BY DEF EndSave, Ended
<1> DEFINE s == After(stage[a], o.ok)
<1>3. o.ok \in BOOLEAN /\ o.robbed \subseteq Saving \ {a}
      /\ o.file \in {copy[b] : b \in Actor} \cup {Unreadable, file}
  BY <1>1, <1>2, OutcomeFacts
<1>4. /\ s \in Stage \ (Saves \cup {"off"}) /\ s \in StagesOf(a)
      /\ s # "next" /\ s # "worker executed" /\ s # "worker settle" /\ s # "settle"
  <2>1. s \in Stage \ (Saves \cup {"off"}) /\ s # "next"
    BY <1>1, <1>3, AfterFacts
  <2>2. s \in StagesOf(a)
    BY <1>1, <1>3, AfterFacts DEF StagesOf
  <2>3. s # "worker executed"
    BY <1>1 DEF After, Saves
  <2> QED BY <2>1, <2>2, <2>3 DEF Saves
<1>5. JobFits(stage[a], copy[a], job[a]) /\ copy[a] \in Seq(Entry)
  BY DEF ShapeInv, HandsInv
<1> DEFINE q == IF s \in Ended THEN <<>> ELSE copy[a]
           j == IF s \in Ended THEN 0 ELSE job[a]
<1>6. Enter(a, s) /\ Hold(a, q) /\ job' = [job EXCEPT ![a] = j]
  <2>1. CASE s \in Ended
    BY <1>2, <2>1
  <2>2. CASE s \notin Ended
    <3>1. copy' = copy /\ job' = job /\ Enter(a, s)
      BY <1>2, <2>2
    <3> HIDE DEF s
    <3>2. job' = [job EXCEPT ![a] = job[a]]
      BY <3>1, SameJob DEF ShapeInv
    <3>3. Hold(a, copy[a])
      BY <3>1 DEF Hold, ShapeInv, HandsInv
    <3> QED BY <2>2, <3>1, <3>2, <3>3
  <2> QED BY <2>1, <2>2
<1>7. s \notin Ended => /\ s = "execute" => stage[a] = "claim"
                        /\ s = "worker execute" => stage[a] = "worker claim"
                        /\ s = "report" => stage[a] = "settle"
                        /\ s \in {"mark fired", "schedule"} => stage[a] \in {"fire", "cleanup"}
                        /\ s \in {"execute", "worker execute", "report", "mark fired", "schedule"}
  BY <1>1 DEF After, Saves, Ended
<1>8. q \in Seq(Entry)
  BY <1>5, NoEntries
<1>9. JobFits(s, q, j)
  <2> HIDE DEF s
  <2>1. CASE s \in Ended
    BY <2>1 DEF JobFits, Ended, Claims, InHand, Working, Judged
  <2>2. CASE s \in {"execute", "worker execute"}
    <3>1. s \notin Ended /\ stage[a] \in Claims
      BY <2>2, <1>7 DEF Ended, Claims
    <3> QED BY <1>5, <2>2, <3>1 DEF JobFits, Claims, InHand, Working, Judged
  <2>3. CASE s = "report"
    <3>1. s \notin Ended /\ stage[a] = "settle"
      BY <2>3, <1>7 DEF Ended
    <3> QED BY <1>5, <2>3, <3>1 DEF JobFits, Claims, InHand, Working, Judged
  <2>4. CASE s \in {"mark fired", "schedule"}
    <3>1. s \notin Ended /\ stage[a] \in {"fire", "cleanup"}
      BY <2>4, <1>7 DEF Ended
    <3> QED BY <1>5, <2>4, <3>1 DEF JobFits, Claims, InHand, Working, Judged
  <2> QED BY <2>1, <2>2, <2>3, <2>4, <1>7
<1>10. a \in Pool => stage[Tick] # "off"
  BY <1>1 DEF ShapeInv, StagesInv, Saves
<1>11. s \in Stage /\ s \in StagesOf(a) /\ s # "off"
  BY <1>4
<1> HIDE DEF s, q, j
<1>12. /\ HandsInv' /\ StagesInv' /\ OnlyActs(a)
       /\ copy'[a] = q /\ stage'[a] = s /\ job'[a] = j
  BY <1>6, <1>8, <1>9, <1>10, <1>11, OneActor DEF ShapeInv
<1>13. todo' = IF s = "asleep" THEN {} ELSE todo
  BY <1>2 DEF s
<1>14. TodoInv'
  <2>1. CASE s = "asleep"
    <3>1. a = Tick
      BY <2>1, <1>4 DEF StagesOf, PoolStages, CliStages
    <3> QED BY <1>12, <1>13, <2>1, <3>1 DEF TodoInv, Passing
  <2>2. CASE s # "asleep" /\ a # Tick
    BY <1>12, <1>13, <2>2, TodoSame DEF ShapeInv
  <2>3. CASE s # "asleep" /\ a = Tick
    <3>1. s \notin Ended
      BY <2>3, <1>4 DEF Ended, StagesOf, TickStages
    <3>2. copy'[Tick] = copy[Tick] /\ job'[Tick] = job[Tick] /\ todo' = todo
      BY <1>12, <1>13, <2>3, <3>1 DEF q, j
    <3>3. stage'[Tick] \in Passing => stage[Tick] \in Passing \ {"next"}
      BY <1>7, <1>12, <2>3, <3>1 DEF Passing
    <3>4. stage[Tick] \in Passing => todo = todo
      OBVIOUS
    <3>5. todo \subseteq Queued(copy[Tick]) /\ (stage[Tick] \notin Passing => todo = {})
          /\ (stage[Tick] \in Passing \ {"next"} => job[Tick] \notin todo)
      BY DEF ShapeInv, TodoInv
    <3>6. stage'[Tick] \notin Passing => stage[Tick] \notin Passing
      BY <1>1, <1>7, <1>12, <2>3, <3>1 DEF Passing, Saves
    <3>7. (todo \subseteq Queued(copy[Tick]))'
      BY <3>2, <3>5 DEF Queued, Positions
    <3> QED BY <3>2, <3>3, <3>5, <3>6, <3>7 DEF TodoInv
  <2> QED BY <2>1, <2>2, <2>3
<1>15. RestInv'
  <2>1. robbed' \subseteq Saving'
    BY <1>2, <1>3, <1>12 DEF Saving, OnlyActs
  <2>2. file' = Unreadable \/ file' \in Seq(Entry)
    BY <1>2, <1>3 DEF ShapeInv, RestInv, HandsInv
  <2>3. stale' \subseteq Actor
    BY DEF EndSave, ShapeInv, RestInv, Holding, Saving, Actor
  <2>4. /\ due' \in {"scheduled", "queued", "completed", "failed"}
        /\ unmarked' \in BOOLEAN /\ disturbed' \in BOOLEAN /\ stopping' \in BOOLEAN /\ stops' \in Nat
    <3>1. due' = due /\ stopping' = stopping /\ stops' = stops
          /\ disturbed' = (disturbed \/ Sharing # {a} \/ a \in stale)
      BY DEF EndSave, lives
    <3>2. unmarked' \in BOOLEAN /\ disturbed' \in BOOLEAN
      BY <1>2, <3>1
    <3> QED BY <3>1, <3>2 DEF ShapeInv, RestInv
  <2> QED BY <2>1, <2>2, <2>3, <2>4 DEF RestInv
<1>16. BirthsInv'
  BY BirthsSame DEF EndSave, ShapeInv
<1>17. Saved(a, o.ok)
  BY <1>2, <1>12 DEF Saved, s, q, j
<1> QED BY <1>1, <1>2, <1>3, <1>12, <1>14, <1>15, <1>16, <1>17 DEF ShapeInv

-------------------------------------------------------------------------------
\* The process.

LEMMA StartShape ==
  ASSUME ShapeInv, Start
  PROVE  /\ ShapeInv' /\ stage'[Tick] = "asleep"
         /\ \A w \in Pool : stage'[w] \in {"off", "idle"} /\ \A c \in Cli : stage'[c] = stage[c]
         /\ UNCHANGED <<copy, job>>
<1>1. /\ stage'[Tick] = "asleep"
      /\ \A w \in Pool : stage'[w] \in {"off", "idle"} /\ stage[w] = "off"
      /\ \A c \in Cli : stage'[c] = stage[c]
      /\ copy' = copy /\ job' = job /\ todo' = todo
  BY Roles DEF Start, ShapeInv, StagesInv, hands
<1>2. \A a \in Actor : stage'[a] # stage[a] => stage[a] = "off" /\ stage'[a] \in {"off", "idle", "asleep"}
  BY <1>1, Roles DEF Start
<1>3. \A a \in Actor : JobFits(stage'[a], copy[a], job[a])
  BY <1>2 DEF ShapeInv, HandsInv, JobFits, Claims, InHand, Working, Judged
<1>4. HandsInv'
  BY <1>1, <1>3 DEF ShapeInv, HandsInv, JobFits
<1>5. stage' \in [Actor -> Stage]
  BY DEF Start, ShapeInv, StagesInv, Stage
<1>6. \A a \in Actor : stage'[a] \in StagesOf(a)
  BY <1>1, Roles DEF StagesOf, TickStages, PoolStages, ShapeInv, StagesInv
<1>7. StagesInv'
  BY <1>1, <1>5, <1>6 DEF StagesInv, StagesOf
<1>8. TodoInv'
  BY <1>1 DEF Start, ShapeInv, TodoInv, Passing, Queued, Positions
<1>9. BirthsInv'
  BY BirthsSame DEF Start, history, ShapeInv
<1>10. RestInv'
  <2>1. robbed' \subseteq Saving'
    BY <1>2 DEF Start, disk, ShapeInv, RestInv, Saving, Saves
  <2> QED BY <2>1 DEF Start, disk, history, store, ShapeInv, RestInv
<1>11. \A w \in Pool : stage'[w] \in {"off", "idle"}
  BY <1>1
<1> QED BY <1>1, <1>4, <1>7, <1>8, <1>9, <1>10, <1>11 DEF ShapeInv

LEMMA StopShape ==
  ASSUME ShapeInv, Stop PROVE ShapeInv' /\ UNCHANGED hands
BY DEF Stop, disk, hands, births, history, store, ShapeInv, HandsInv, StagesInv, TodoInv, BirthsInv, RestInv,
       JobFits, StagesOf, Queued, Positions, Saving

LEMMA DownShape ==
  ASSUME ShapeInv, Down
  PROVE  /\ ShapeInv' /\ stops' > 0
         /\ \A c \in Cli : stage'[c] = stage[c] /\ copy'[c] = copy[c]
         /\ \A a \in Actor \ Cli : stage'[a] = "off" /\ copy'[a] = <<>>
         /\ \A a \in Actor : job'[a] = 0
<1>1. /\ \A c \in Cli : stage'[c] = stage[c] /\ copy'[c] = copy[c]
      /\ \A a \in Actor \ Cli : stage'[a] = "off" /\ copy'[a] = <<>>
      /\ \A a \in Actor : job'[a] = 0
  BY Roles DEF Down
<1>2. copy' \in [Actor -> Seq(Entry)] /\ job' \in [Actor -> Nat] /\ stage' \in [Actor -> Stage]
  BY NoEntries DEF Down, ShapeInv, HandsInv, StagesInv, Stage
<1>3. \A a \in Actor : JobFits(stage'[a], copy'[a], 0)
  <2>1. \A c \in Cli : stage'[c] \in CliStages
    BY <1>1, Roles DEF ShapeInv, StagesInv, StagesOf
  <2> QED BY <1>1, <2>1 DEF JobFits, CliStages, Claims, InHand, Working, Judged
<1>4. HandsInv'
  <2>1. \A a \in Actor : JobFits(stage'[a], copy'[a], job'[a])
    BY <1>1, <1>3
  <2> QED BY <1>2, <2>1 DEF HandsInv, JobFits
<1>5. \A a \in Actor : stage'[a] \in StagesOf(a)
  <2>1. "off" \in TickStages /\ "off" \in PoolStages
    BY DEF TickStages, PoolStages
  <2>2. \A a \in Actor \ Cli : stage'[a] \in StagesOf(a)
    BY <1>1, <2>1, Roles DEF StagesOf
  <2>3. \A a \in Cli : stage'[a] \in StagesOf(a)
    BY <1>1, Roles DEF ShapeInv, StagesInv
  <2> QED BY <2>2, <2>3
<1>6. StagesInv'
  BY <1>1, <1>2, <1>5, Roles DEF StagesInv, StagesOf
<1>7. TodoInv'
  BY <1>1, Roles DEF Down, TodoInv, Passing
<1>8. BirthsInv'
  BY BirthsSame DEF Down, ShapeInv
<1>9. RestInv'
  <2>1. robbed' = robbed \cap Cli /\ robbed \subseteq Saving
    BY DEF Down, ShapeInv, RestInv
  <2>2. robbed' \subseteq Saving'
    BY <1>1, <2>1, Roles DEF Saving
  <2>3. stops' \in Nat /\ stopping' \in BOOLEAN /\ unmarked' \in BOOLEAN /\ disturbed' \in BOOLEAN
    <3>1. stops \in Nat /\ stops' = stops + 1
      BY DEF Down, ShapeInv, RestInv
    <3>2. stops' \in Nat
      BY <3>1
    <3>3. stopping' = FALSE /\ disturbed' = disturbed /\ disturbed \in BOOLEAN
      BY DEF Down, ShapeInv, RestInv
    <3>4. unmarked' \in BOOLEAN
      BY DEF Down
    <3> QED BY <3>2, <3>3, <3>4
  <2>4. stale' \subseteq Actor /\ due' = due /\ file' = file
    BY DEF Down, ShapeInv, RestInv
  <2> QED BY <2>2, <2>3, <2>4 DEF ShapeInv, RestInv
<1>10. stops' > 0
  <2>1. stops \in Nat /\ stops' = stops + 1
    BY DEF Down, ShapeInv, RestInv
  <2> QED BY <2>1
<1> QED BY <1>1, <1>4, <1>6, <1>7, <1>8, <1>9, <1>10 DEF ShapeInv

LEMMA NextCases ==
  ASSUME [QueueNext]_queueVars
  PROVE  \/ CleanUp \/ TickFails \/ Fire \/ MarkFired \/ Dispatch \/ TakeNext \/ QueueDone
         \/ Execute \/ Report
         \/ \E w \in Pool : Claim(w) \/ WorkerExecute(w) \/ WorkerRaises(w) \/ Settle(w)
         \/ \E c \in Cli : AddTask(c) \/ RemoveTask(c) \/ ClearQueue(c) \/ CleanUpByHand(c)
         \/ \E a \in Actor : EndSave(a)
         \/ Start \/ Stop \/ (Down /\ stage[Tick] # "off") \/ UNCHANGED queueVars
BY DEF QueueNext, TickStep, WorkerStep, CliStep, Exit, KilledAnywhere

-------------------------------------------------------------------------------
\* Honesty. After a step the same is said of the ids and runs of then.
HonestNext(q) ==
  \A i \in DOMAIN q :
    /\ q[i].task \in 1..made'
    /\ q[i].status \in Finished => \E u \in 1..made' : ids'[u] = ids'[q[i].task] /\ ran'[u] > 0

\* What is told of the past stays told.
Remembered ==
  /\ made' \in Nat /\ made <= made'
  /\ \A t \in 1..made : ids'[t] = ids[t] /\ (ran[t] > 0 => ran'[t] > 0)

LEMMA StillHonest ==
  ASSUME Remembered, BirthsInv
  PROVE  \A q : Honest(q) => HonestNext(q)
<1>1. \A t \in 1..made : t \in 1..made'
  BY DEF Remembered, BirthsInv
<1> SUFFICES ASSUME NEW q, Honest(q), NEW i \in DOMAIN q
             PROVE  /\ q[i].task \in 1..made'
                    /\ q[i].status \in Finished =>
                         \E u \in 1..made' : ids'[u] = ids'[q[i].task] /\ ran'[u] > 0
  BY DEF HonestNext
<1>2. q[i].task \in 1..made
  BY DEF Honest
<1>3. ASSUME q[i].status \in Finished
      PROVE  \E u \in 1..made' : ids'[u] = ids'[q[i].task] /\ ran'[u] > 0
  <2>1. PICK u \in 1..made : ids[u] = ids[q[i].task] /\ ran[u] > 0
    BY <1>3 DEF Honest, Executed
  <2>2. u \in 1..made' /\ ids'[u] = ids[u] /\ ids'[q[i].task] = ids[q[i].task] /\ ran'[u] > 0
    BY <1>1, <1>2, <2>1 DEF Remembered
  <2> QED BY <2>1, <2>2
<1> QED BY <1>1, <1>2, <1>3

LEMMA SameRemembered ==
  ASSUME BirthsInv, UNCHANGED <<births, ran>> PROVE Remembered
BY DEF BirthsInv, Remembered, births

LEMMA RanRemembered ==
  ASSUME BirthsInv, NEW t \in 1..made, Ran(t), UNCHANGED births PROVE Remembered /\ ran'[t] > 0
<1>1. BirthsInv' /\ ran'[t] > 0 /\ \A u \in Task \ {t} : ran'[u] = ran[u]
  BY RanShape
<1>2. 1..made \subseteq Task
  BY QueueConstants DEF BirthsInv, Task
<1> QED BY <1>1, <1>2 DEF Remembered, BirthsInv, births

LEMMA NewRemembered ==
  ASSUME BirthsInv, RestInv, NEW a \in Actor, NewTask(a), UNCHANGED ran, fired' = fired \/ fired' = fired \cup {made + 1}
  PROVE  Remembered
<1>1. made' = made + 1 /\ \A t \in 1..made : ids'[t] = ids[t]
  BY NewTaskShape
<1>2. made \in Nat /\ ran' = ran
  BY DEF BirthsInv
<1> QED BY <1>1, <1>2 DEF Remembered

LEMMA EmptyHonest == HonestNext(<<>>)
BY NoEntries DEF HonestNext

LEMMA SublistHonest ==
  ASSUME NEW q \in Seq(Entry), NEW keep \in SUBSET DOMAIN q, HonestNext(q)
  PROVE  HonestNext(Sublist(q, keep))
BY SublistFacts DEF HonestNext

LEMMA WithStatusHonest ==
  ASSUME NEW q \in Seq(Entry), NEW i \in DOMAIN q, NEW s \in Status, HonestNext(q),
         s \in Finished => \E u \in 1..made' : ids'[u] = ids'[q[i].task] /\ ran'[u] > 0
  PROVE  HonestNext(WithStatus(q, i, s))
<1> DEFINE r == WithStatus(q, i, s)
<1>1. /\ DOMAIN r = DOMAIN q /\ r[i].status = s
      /\ \A j \in DOMAIN q : r[j].task = q[j].task /\ (j # i => r[j] = q[j])
  BY WithStatusFacts
<1> HIDE DEF r
<1>2. HonestNext(r)
  BY <1>1 DEF HonestNext
<1> QED BY <1>2 DEF r

\* It suffices to look at the list that the actor takes, when the file stays.
LEMMA HonestAfter ==
  ASSUME HonestInv, BirthsInv, Remembered, NEW a \in Actor, OnlyActs(a), file' = file, HonestNext(copy'[a])
  PROVE  HonestInv'
<1>1. HonestNext(Loaded) /\ \A b \in Actor : HonestNext(copy[b])
  BY StillHonest DEF HonestInv
<1>2. Loaded' = Loaded
  BY DEF Loaded
<1>3. \A b \in Actor : HonestNext(copy'[b])
  BY <1>1 DEF OnlyActs
<1> QED BY <1>1, <1>2, <1>3 DEF HonestInv, Honest, HonestNext, Executed

LEMMA HonestInvStep ==
  ASSUME ShapeInv, HonestInv, [QueueNext]_queueVars,
         Report => copy[Tick][job[Tick]].status \in {"completed", "failed"}
  PROVE  HonestInv'
<1>1. Loaded \in Seq(Entry) /\ BirthsInv /\ Tick \in Actor
  BY LoadedSeq, Roles DEF ShapeInv
<1>2. Remembered => HonestNext(Loaded) /\ \A b \in Actor : HonestNext(copy[b])
  BY <1>1, StillHonest DEF HonestInv
<1>3. \A b \in Actor : copy[b] \in Seq(Entry)
  BY DEF ShapeInv, HandsInv
<1>4. CASE CleanUp
  <2>1. PICK old \in SUBSET DOMAIN Loaded : Hold(Tick, Thinned(Loaded, old))
    BY <1>4 DEF CleanUp
  <2>2. copy'[Tick] = Thinned(Loaded, old)
    BY <1>1, <2>1 DEF Hold, ShapeInv, HandsInv
  <2>3. Remembered /\ file' = file /\ OnlyActs(Tick)
    BY <1>1, <1>4, SameRemembered, CleanUpShape DEF CleanUp, disk
  <2>4. HonestNext(Thinned(Loaded, old))
    BY <1>1, <1>2, <2>3, SublistHonest DEF Thinned
  <2> QED BY <1>1, <2>2, <2>3, <2>4, HonestAfter
<1>5. ASSUME NEW a \in Actor, NewTask(a), UNCHANGED <<ran, file>>, OnlyActs(a),
             fired' = fired \/ fired' = fired \cup {made + 1}
      PROVE  HonestInv'
  <2> DEFINE e == [task |-> made + 1, status |-> "queued"]
  <2>1. Remembered
    BY <1>1, <1>5, NewRemembered DEF ShapeInv
  <2>2. made + 1 \in 1..made' /\ e \in Entry
    BY <1>1, <1>5, NewTaskShape DEF ShapeInv, BirthsInv
  <2>3. e.task = made + 1 /\ e.status \notin Finished
    BY DEF Finished
  <2>4. copy'[a] = Append(Loaded, e)
    BY <1>5 DEF NewTask, Hold, ShapeInv, HandsInv
  <2> HIDE DEF e
  <2>5. HonestNext(Append(Loaded, e))
    BY <1>1, <1>2, <2>1, <2>2, <2>3, AppendFacts DEF HonestNext
  <2> QED BY <1>1, <1>5, <2>1, <2>4, <2>5, HonestAfter
<1>6. CASE Fire
  BY <1>1, <1>5, <1>6, FireShape DEF Fire, disk
<1>7. CASE MarkFired
  <2>1. Remembered /\ file' = file /\ OnlyActs(Tick) /\ copy'[Tick] = copy[Tick]
    BY <1>1, <1>7, SameRemembered, MarkFiredShape DEF MarkFired, disk, history
  <2> QED BY <1>1, <1>2, <2>1, HonestAfter
<1>8. CASE Dispatch
  <2>1. Remembered /\ file' = file /\ OnlyActs(Tick) /\ copy'[Tick] = Loaded
    BY <1>1, <1>8, SameRemembered, DispatchShape DEF Dispatch, disk
  <2> QED BY <1>1, <1>2, <2>1, HonestAfter
<1>9. CASE TakeNext
  <2>1. /\ Remembered /\ file' = file /\ OnlyActs(Tick)
        /\ Min(todo) \in todo /\ copy'[Tick] = WithStatus(copy[Tick], Min(todo), "running")
    BY <1>1, <1>9, SameRemembered, TakeNextShape DEF TakeNext, disk, history
  <2>2. Min(todo) \in DOMAIN copy[Tick]
    BY <1>1, <1>3, <2>1, QueuedFacts DEF ShapeInv, TodoInv
  <2>3. "running" \notin Finished /\ "running" \in Status
    BY DEF Finished, Status
  <2>4. HonestNext(WithStatus(copy[Tick], Min(todo), "running"))
    BY <1>1, <1>2, <1>3, <2>1, <2>2, <2>3, WithStatusHonest
  <2> QED BY <1>1, <2>1, <2>4, HonestAfter
<1>10. CASE QueueDone
  <2>1. Remembered /\ file' = file /\ OnlyActs(Tick) /\ copy'[Tick] = <<>>
    BY <1>1, <1>10, SameRemembered, QueueDoneShape DEF QueueDone, disk, history
  <2> QED BY <1>1, <2>1, EmptyHonest, HonestAfter
<1>11. ASSUME NEW a \in Actor, Ran(InWork(a)), UNCHANGED <<births, file>>, OnlyActs(a), job[a] > 0,
              NEW status \in Finished, copy'[a] = WithStatus(copy[a], job[a], status)
       PROVE  HonestInv'
  <2>1. /\ InWork(a) \in 1..made /\ job[a] \in DOMAIN copy[a] /\ copy[a] \in Seq(Entry)
        /\ InWork(a) = copy[a][job[a]].task
    BY <1>11, InWorkFacts
  <2>2. Remembered /\ ran'[InWork(a)] > 0 /\ made' = made
    BY <1>1, <1>11, <2>1, RanRemembered DEF births
  <2>3. \E u \in 1..made' : ids'[u] = ids'[copy[a][job[a]].task] /\ ran'[u] > 0
    BY <2>1, <2>2
  <2>4. HonestNext(WithStatus(copy[a], job[a], status))
    BY <1>2, <1>11, <2>1, <2>2, <2>3, FinishedIsStatus, WithStatusHonest
  <2> QED BY <1>1, <1>11, <2>2, <2>4, HonestAfter
<1>12. CASE Execute
  <2>1. PICK status \in {"completed", "failed"} : copy'[Tick] = WithStatus(copy[Tick], job[Tick], status)
    BY <1>12, ExecuteShape
  <2>2. status \in Finished
    BY DEF Finished
  <2>3. Ran(InWork(Tick)) /\ UNCHANGED <<births, file>> /\ OnlyActs(Tick) /\ job[Tick] > 0
    BY <1>12, ExecuteShape DEF Execute, disk
  <2> QED BY <1>1, <1>11, <2>1, <2>2, <2>3
<1>13. CASE Report
  <2>1. Remembered /\ file' = file /\ OnlyActs(Tick) /\ copy'[Tick] = copy[Tick]
    BY <1>1, <1>13, SameRemembered, ReportShape DEF Report, disk, history
  <2> QED BY <1>1, <1>2, <2>1, HonestAfter
<1>14. ASSUME NEW w \in Pool, Claim(w) PROVE HonestInv'
  <2>1. /\ Remembered /\ file' = file /\ OnlyActs(w) /\ Min(Queued(Loaded)) \in Queued(Loaded)
        /\ copy'[w] = WithStatus(Loaded, Min(Queued(Loaded)), "running")
    BY <1>1, <1>14, SameRemembered, ClaimShape DEF Claim, disk
  <2>2. "running" \notin Finished /\ "running" \in Status /\ Min(Queued(Loaded)) \in DOMAIN Loaded
    BY <1>1, <2>1, QueuedFacts DEF Finished, Status
  <2>3. HonestNext(WithStatus(Loaded, Min(Queued(Loaded)), "running"))
    BY <1>1, <1>2, <2>1, <2>2, WithStatusHonest
  <2> QED BY <1>1, <2>1, <2>3, Roles, HonestAfter
<1>15. ASSUME NEW w \in Pool, WorkerExecute(w) PROVE HonestInv'
  <2>1. PICK status \in {"succeeded", "failed"} : copy'[w] = WithStatus(copy[w], job[w], status)
    BY <1>15, WorkerExecuteShape
  <2>2. status \in Finished
    BY DEF Finished
  <2>3. Ran(InWork(w)) /\ UNCHANGED <<births, file>> /\ OnlyActs(w) /\ job[w] > 0 /\ w \in Actor
    BY <1>15, Roles, WorkerExecuteShape DEF WorkerExecute, disk
  <2> QED BY <1>1, <1>11, <2>1, <2>2, <2>3
<1>16. ASSUME NEW w \in Pool, Settle(w) PROVE HonestInv'
  <2> DEFINE at == SettledAt(w)
             status == copy[w][job[w]].status
  <2>1. /\ Remembered /\ file' = file /\ OnlyActs(w) /\ job[w] > 0 /\ status \in Finished /\ w \in Actor
        /\ copy'[w] = IF at = 0 THEN Loaded ELSE WithStatus(Loaded, at, status)
    BY <1>1, <1>16, SameRemembered, SettleShape, Roles DEF Settle, disk
  <2>2. /\ InWork(w) \in 1..made /\ job[w] \in DOMAIN copy[w] /\ InWork(w) = copy[w][job[w]].task
    BY <2>1, InWorkFacts
  <2>3. at # 0 => at \in DOMAIN Loaded /\ ids[Loaded[at].task] = ids[InWork(w)]
    BY SettledAtFacts DEF SameId
  <2>4. UNCHANGED <<births, ran>>
    BY <1>16 DEF Settle
  <2>5. \E u \in 1..made : ids[u] = ids[InWork(w)] /\ ran[u] > 0
    BY <2>1, <2>2 DEF HonestInv, Honest, Executed
  <2> HIDE DEF status, at
  <2>6. CASE at = 0
    BY <1>1, <1>2, <2>1, <2>6, HonestAfter
  <2>7. CASE at # 0
    <3>1. \E u \in 1..made' : ids'[u] = ids'[Loaded[at].task] /\ ran'[u] > 0
      BY <2>3, <2>4, <2>5, <2>7 DEF births
    <3>2. HonestNext(WithStatus(Loaded, at, status))
      BY <1>1, <1>2, <2>1, <2>3, <2>7, <3>1, FinishedIsStatus, WithStatusHonest
    <3> QED BY <1>1, <2>1, <2>7, <3>2, HonestAfter
  <2> QED BY <2>6, <2>7
<1>17. ASSUME NEW c \in Cli, AddTask(c) PROVE HonestInv'
  BY <1>5, <1>17, CliStepShape, Roles DEF AddTask, disk, CliStep
<1>18. ASSUME NEW c \in Cli, RemoveTask(c) PROVE HonestInv'
  <2>1. PICK t \in 1..made :
          Hold(c, Sublist(Loaded, {i \in DOMAIN Loaded : ids[Loaded[i].task] # ids[t]}))
    BY <1>18 DEF RemoveTask
  <2>2. copy'[c] = Sublist(Loaded, {i \in DOMAIN Loaded : ids[Loaded[i].task] # ids[t]})
    BY <2>1, Roles DEF Hold, ShapeInv, HandsInv
  <2>3. Remembered /\ file' = file /\ OnlyActs(c)
    BY <1>1, <1>18, SameRemembered, CliStepShape DEF RemoveTask, disk, CliStep
  <2>4. HonestNext(copy'[c])
    BY <1>1, <1>2, <2>2, <2>3, SublistHonest
  <2> QED BY <1>1, <2>3, <2>4, Roles, HonestAfter
<1>19. ASSUME NEW c \in Cli, ClearQueue(c) PROVE HonestInv'
  <2>1. copy'[c] = <<>>
    BY <1>19, Roles DEF ClearQueue, Hold, ShapeInv, HandsInv
  <2>2. Remembered /\ file' = file /\ OnlyActs(c)
    BY <1>1, <1>19, SameRemembered, CliStepShape DEF ClearQueue, disk, CliStep
  <2> QED BY <1>1, <2>1, <2>2, Roles, EmptyHonest, HonestAfter
<1>20. ASSUME Remembered, \A b \in Actor : HonestNext(copy'[b]),
              file' \in {copy[b] : b \in Actor} \cup {Unreadable, file}
       PROVE  HonestInv'
  <2>1. HonestNext(Loaded')
    <3>1. CASE file' = Unreadable
      BY <3>1, EmptyHonest DEF Loaded
    <3>2. CASE file' # Unreadable
      BY <1>2, <1>20, <3>2 DEF Loaded
    <3> QED BY <3>1, <3>2
  <2> QED BY <1>20, <2>1 DEF HonestInv, Honest, HonestNext, Executed
<1>21. ASSUME NEW a \in Actor, EndSave(a) PROVE HonestInv'
  <2>1. PICK o \in Outcome(a) : file' = o.file /\ Saved(a, o.ok) /\ a \in Saving
    BY <1>21, SaveShape
  <2>2. file' \in {copy[b] : b \in Actor} \cup {Unreadable, file}
    BY <2>1, OutcomeFacts
  <2>3. Remembered
    BY <1>1, <1>21, SameRemembered DEF EndSave
  <2>4. \A b \in Actor : copy'[b] = copy[b] \/ copy'[b] = <<>>
    BY <2>1 DEF Saved, OnlyActs
  <2> QED BY <1>2, <1>20, <2>2, <2>3, <2>4, EmptyHonest
<1>22. CASE Start
  <2>1. Remembered /\ file' = file /\ copy' = copy
    BY <1>1, <1>22, SameRemembered DEF Start, history, disk
  <2> QED BY <1>2, <1>20, <2>1
<1>23. CASE Stop
  <2>1. Remembered /\ file' = file /\ copy' = copy
    BY <1>1, <1>23, SameRemembered DEF Stop, history, disk, hands
  <2> QED BY <1>2, <1>20, <2>1
<1>24. CASE Down
  <2>1. Remembered /\ file' = file
    BY <1>1, <1>24, SameRemembered DEF Down
  <2>2. \A b \in Actor : copy'[b] = copy[b] \/ copy'[b] = <<>>
    BY <1>24, DownShape
  <2> QED BY <1>2, <1>20, <2>1, <2>2, EmptyHonest
<1>25. CASE UNCHANGED queueVars
  <2>1. Remembered /\ file' = file /\ copy' = copy
    BY <1>1, <1>25, SameRemembered DEF queueVars, history, disk, hands
  <2> QED BY <1>2, <1>20, <2>1
<1>26. CASE TickFails
  <2>1. Remembered /\ file' = file /\ OnlyActs(Tick) /\ copy'[Tick] = <<>>
    BY <1>1, <1>26, SameRemembered, TickFailsShape DEF TickFails, disk, history
  <2> QED BY <1>1, <2>1, EmptyHonest, HonestAfter
<1>27. ASSUME NEW w \in Pool, WorkerRaises(w) PROVE HonestInv'
  <2>1. /\ w \in Actor /\ OnlyActs(w) /\ copy'[w] = <<>> /\ Ran(InWork(w)) /\ InWork(w) \in 1..made
        /\ UNCHANGED <<births, file>>
    BY <1>27, Roles, WorkerRaisesShape DEF WorkerRaises, disk
  <2>2. Remembered
    BY <1>1, <2>1, RanRemembered
  <2> QED BY <1>1, <2>1, <2>2, EmptyHonest, HonestAfter
<1>28. ASSUME NEW c \in Cli, CleanUpByHand(c) PROVE HonestInv'
  <2>1. PICK old \in SUBSET DOMAIN Loaded : Hold(c, Thinned(Loaded, old))
    BY <1>28 DEF CleanUpByHand
  <2>2. copy'[c] = Thinned(Loaded, old)
    BY <2>1, Roles DEF Hold, ShapeInv, HandsInv
  <2>3. Remembered /\ file' = file /\ OnlyActs(c)
    BY <1>1, <1>28, SameRemembered, CliStepShape DEF CleanUpByHand, disk, CliStep
  <2>4. HonestNext(Thinned(Loaded, old))
    BY <1>1, <1>2, <2>3, SublistHonest DEF Thinned
  <2> QED BY <1>1, <2>2, <2>3, <2>4, Roles, HonestAfter
<1> QED
  BY <1>4, <1>6, <1>7, <1>8, <1>9, <1>10, <1>12, <1>13, <1>14, <1>15, <1>16, <1>17, <1>18, <1>19,
     <1>21, <1>22, <1>23, <1>24, <1>25, <1>26, <1>27, <1>28, NextCases

-------------------------------------------------------------------------------
\* The scheduler's task. From a save of its queue task to the store's being told
\* the tick does nothing else; the tick that reports has executed.
FiredInv ==
  /\ fired # {} => unmarked \/ due # "scheduled" \/ stage[Tick] \in {"fire", "mark fired"}
  /\ \A t, u \in fired : t = u \/ unmarked
  /\ stage[Tick] \in {"settle", "report"} =>
       ran[InWork(Tick)] > 0 /\ copy[Tick][job[Tick]].status \in {"completed", "failed"}
  /\ due \in {"completed", "failed"} => \E t \in fired : ran[t] > 0

LEMMA ReportsJudged ==
  ASSUME FiredInv, Report PROVE copy[Tick][job[Tick]].status \in {"completed", "failed"}
BY DEF FiredInv, Report

LEMMA ShapeInvStep ==
  ASSUME ShapeInv, HonestInv, FiredInv, [QueueNext]_queueVars
  PROVE  ShapeInv'
<1>1. CASE UNCHANGED queueVars
  BY <1>1 DEF queueVars, disk, hands, births, history, store, lives, ShapeInv, HandsInv, StagesInv, TodoInv,
              BirthsInv, RestInv, JobFits, StagesOf, Queued, Positions, Saving
<1> QED
  BY <1>1, NextCases, CleanUpShape, TickFailsShape, FireShape, MarkFiredShape, DispatchShape, TakeNextShape,
     QueueDoneShape, ExecuteShape, ReportShape, ReportsJudged, ClaimShape, WorkerExecuteShape,
     WorkerRaisesShape, SettleShape, CliStepShape, SaveShape, StartShape, StopShape, DownShape DEF CliStep

\* A step that leaves the tick, the store and the runs' past alone.
LEMMA FiredSame ==
  ASSUME FiredInv, ShapeInv, HonestInv, Remembered,
         stage'[Tick] = stage[Tick], copy'[Tick] = copy[Tick], job'[Tick] = job[Tick],
         UNCHANGED <<due, fired>>, unmarked => unmarked'
  PROVE  FiredInv'
<1>1. fired \subseteq 1..made /\ Tick \in Actor
  BY Roles DEF ShapeInv, BirthsInv
<1>2. \A t \in fired : ran[t] > 0 => ran'[t] > 0
  BY <1>1 DEF Remembered
<1>3. fired' # {} => unmarked' \/ due' # "scheduled" \/ stage'[Tick] \in {"fire", "mark fired"}
  BY DEF FiredInv
<1>4. \A t, u \in fired' : t = u \/ unmarked'
  BY DEF FiredInv
<1>5. due' \in {"completed", "failed"} => \E t \in fired' : ran'[t] > 0
  BY <1>2 DEF FiredInv
<1>6. ASSUME stage'[Tick] \in {"settle", "report"}
      PROVE  ran'[InWork(Tick)'] > 0 /\ copy'[Tick][job'[Tick]].status \in {"completed", "failed"}
  <2>1. ran[InWork(Tick)] > 0 /\ copy[Tick][job[Tick]].status \in {"completed", "failed"}
    BY <1>6 DEF FiredInv
  <2>2. job[Tick] > 0
    BY <1>1, <1>6 DEF ShapeInv, HandsInv, JobFits, InHand
  <2>3. InWork(Tick) \in 1..made
    BY <1>1, <2>2, InWorkFacts
  <2>4. InWork(Tick)' = InWork(Tick)
    BY DEF InWork
  <2> QED BY <2>1, <2>3, <2>4 DEF Remembered
<1>7. (stage[Tick] \in {"settle", "report"} =>
         ran[InWork(Tick)] > 0 /\ copy[Tick][job[Tick]].status \in {"completed", "failed"})'
  BY <1>6 DEF InWork
<1> QED BY <1>3, <1>4, <1>5, <1>7 DEF FiredInv

\* A step that takes the tick to a stage where nothing is told.
LEMMA FiredUntold ==
  ASSUME FiredInv, ShapeInv, UNCHANGED <<due, fired, ran>>, stage'[Tick] \notin {"settle", "report"},
         unmarked => unmarked', stage[Tick] \in {"fire", "mark fired"} => stage'[Tick] = "mark fired" \/ unmarked'
  PROVE  FiredInv'
<1>1. fired' # {} => unmarked' \/ due' # "scheduled" \/ stage'[Tick] \in {"fire", "mark fired"}
  BY DEF FiredInv
<1>2. \A t, u \in fired' : t = u \/ unmarked'
  BY DEF FiredInv
<1>3. due' \in {"completed", "failed"} => \E t \in fired' : ran'[t] > 0
  BY DEF FiredInv
<1> QED BY <1>1, <1>2, <1>3 DEF FiredInv

LEMMA FiredInvStep ==
  ASSUME ShapeInv, HonestInv, FiredInv, [QueueNext]_queueVars
  PROVE  FiredInv'
<1>1. Tick \in Actor /\ BirthsInv /\ RestInv
  BY Roles DEF ShapeInv
<1>2. CASE CleanUp
  BY <1>2, CleanUpShape, FiredUntold DEF CleanUp, births, store
<1>3. CASE Fire
  <2>1. stage'[Tick] = "fire"
    BY <1>3, FireShape
  <2>2. due' = "scheduled" /\ unmarked' = unmarked /\ fired' = fired \cup {made + 1}
    BY <1>3 DEF Fire, store
  <2>3. stage[Tick] \notin {"fire", "mark fired"}
    BY <1>3, TicksStage DEF Fire, Ticks
  <2>4. fired # {} => unmarked
    BY <1>3, <2>3 DEF FiredInv, Fire
  <2>5. \A t, u \in fired' : t = u \/ unmarked'
    BY <2>2, <2>4
  <2> QED BY <2>1, <2>2, <2>5 DEF FiredInv
<1>4. CASE MarkFired
  <2>1. stage'[Tick] \in {"dispatch", "asleep"} /\ fired' = fired /\ ran' = ran
    BY <1>4, MarkFiredShape DEF MarkFired, births, history
  <2>2. (due' = "queued" /\ unmarked' = unmarked) \/ (due' = due /\ unmarked' = TRUE)
    BY <1>4 DEF MarkFired
  <2>3. CASE due' = "queued" /\ unmarked' = unmarked
    BY <2>1, <2>3 DEF FiredInv
  <2>4. CASE due' = due /\ unmarked' = TRUE
    BY <2>1, <2>4, FiredUntold
  <2> QED BY <2>2, <2>3, <2>4
<1>5. CASE Dispatch
  <2>1. stage'[Tick] \in {"next", "asleep"} /\ stage[Tick] \notin {"fire", "mark fired"}
    BY <1>5, DispatchShape DEF Dispatch, Ticks
  <2> QED BY <1>5, <2>1, FiredUntold DEF Dispatch, births, store
<1>6. CASE TakeNext
  <2>1. stage'[Tick] = "claim" /\ stage[Tick] = "next"
    BY <1>6, TakeNextShape DEF TakeNext
  <2> QED BY <1>6, <2>1, FiredUntold DEF TakeNext, births, store, history
<1>7. CASE QueueDone
  <2>1. stage'[Tick] = "asleep" /\ stage[Tick] = "next"
    BY <1>7, QueueDoneShape DEF QueueDone
  <2> QED BY <1>7, <2>1, FiredUntold DEF QueueDone, births, store, history
<1>8. CASE Execute
  <2>1. /\ stage'[Tick] = "settle" /\ job'[Tick] = job[Tick] /\ job[Tick] > 0 /\ Ran(InWork(Tick))
        /\ UNCHANGED <<births, due, unmarked>> /\ stage[Tick] = "execute"
    BY <1>8, ExecuteShape DEF Execute, store
  <2>2. PICK status \in {"completed", "failed"} : copy'[Tick] = WithStatus(copy[Tick], job[Tick], status)
    BY <1>8, ExecuteShape
  <2>3. /\ InWork(Tick) \in 1..made /\ job[Tick] \in DOMAIN copy[Tick] /\ copy[Tick] \in Seq(Entry)
        /\ InWork(Tick) = copy[Tick][job[Tick]].task
    BY <1>1, <2>1, InWorkFacts
  <2>4. Remembered /\ ran'[InWork(Tick)] > 0 /\ fired' = fired
    BY <1>1, <2>1, <2>3, RanRemembered DEF births
  <2>5. status \in Status
    BY DEF Status
  <2>6. /\ copy'[Tick][job[Tick]].status = status
        /\ copy'[Tick][job[Tick]].task = InWork(Tick)
    BY <2>2, <2>3, <2>5, WithStatusFacts
  <2>7. InWork(Tick)' = InWork(Tick)
    BY <2>1, <2>6 DEF InWork
  <2>8. (ran[InWork(Tick)] > 0 /\ copy[Tick][job[Tick]].status \in {"completed", "failed"})'
    BY <2>1, <2>4, <2>6, <2>7
  <2>9. due' \in {"completed", "failed"} => \E t \in fired' : ran'[t] > 0
    BY <2>1, <2>4 DEF FiredInv, Remembered, ShapeInv, BirthsInv
  <2>10. fired' # {} => unmarked' \/ due' # "scheduled"
    BY <2>1, <2>4 DEF FiredInv
  <2>11. \A t, u \in fired' : t = u \/ unmarked'
    BY <2>1, <2>4 DEF FiredInv
  <2> QED BY <2>8, <2>9, <2>10, <2>11 DEF FiredInv
<1>9. CASE Report
  <2>1. stage'[Tick] = "next" /\ stage[Tick] = "report" /\ fired' = fired /\ ran' = ran /\ unmarked' = unmarked
    BY <1>9, ReportShape, ReportsJudged DEF Report, births, history
  <2>2. ran[InWork(Tick)] > 0 /\ copy[Tick][job[Tick]].status \in {"completed", "failed"}
    BY <2>1 DEF FiredInv
  <2>3. due' = due \/ (InWork(Tick) \in fired /\ due' \in {"completed", "failed"})
    BY <1>9, <2>2 DEF Report
  <2>4. CASE due' = due
    BY <2>1, <2>4, FiredUntold
  <2>5. CASE InWork(Tick) \in fired /\ due' \in {"completed", "failed"}
    <3>1. due' # "scheduled" /\ \E t \in fired' : ran'[t] > 0
      BY <2>1, <2>2, <2>5
    <3>2. \A t, u \in fired' : t = u \/ unmarked'
      BY <2>1 DEF FiredInv
    <3> QED BY <2>1, <3>1, <3>2 DEF FiredInv
  <2> QED BY <2>3, <2>4, <2>5
<1>10. ASSUME NEW a \in Actor, a # Tick, OnlyActs(a), Remembered, UNCHANGED <<due, fired>>, unmarked => unmarked'
       PROVE  FiredInv'
  BY <1>1, <1>10, FiredSame DEF OnlyActs
<1>11. ASSUME NEW w \in Pool, Claim(w) \/ WorkerExecute(w) \/ WorkerRaises(w) \/ Settle(w)
       PROVE  FiredInv'
  <2>1. w \in Actor /\ w # Tick
    BY Roles
  <2>2. OnlyActs(w)
    BY <1>11, ClaimShape, WorkerExecuteShape, WorkerRaisesShape, SettleShape
  <2>3. births' = births /\ unmarked' = unmarked /\ due' = due
    BY <1>11 DEF Claim, WorkerExecute, WorkerRaises, Settle, store
  <2>4. Remembered
    <3>1. CASE WorkerExecute(w) \/ WorkerRaises(w)
      <4>1. InWork(w) \in 1..made /\ Ran(InWork(w))
        BY <2>1, <3>1, WorkerExecuteShape, WorkerRaisesShape, InWorkFacts
      <4> QED BY <1>1, <2>3, <4>1, RanRemembered
    <3>2. CASE Claim(w) \/ Settle(w)
      BY <1>1, <3>2, SameRemembered DEF Claim, Settle
    <3> QED BY <1>11, <3>1, <3>2
  <2> QED BY <1>10, <2>1, <2>2, <2>3, <2>4 DEF births
<1>12. ASSUME NEW c \in Cli, AddTask(c) \/ RemoveTask(c) \/ ClearQueue(c) \/ CleanUpByHand(c)
       PROVE  FiredInv'
  <2>1. c \in Actor /\ c # Tick /\ OnlyActs(c)
    BY <1>12, Roles, CliStepShape DEF CliStep
  <2>2. unmarked' = unmarked /\ due' = due /\ fired' = fired
    BY <1>12 DEF AddTask, RemoveTask, ClearQueue, CleanUpByHand, store, births
  <2>3. Remembered
    BY <1>1, <1>12, <2>1, SameRemembered, NewRemembered DEF AddTask, RemoveTask, ClearQueue, CleanUpByHand
  <2> QED BY <1>10, <2>1, <2>2, <2>3
<1>13. ASSUME NEW a \in Actor, EndSave(a) PROVE FiredInv'
  <2>1. PICK o \in Outcome(a) : o.ok \in BOOLEAN /\ Saved(a, o.ok) /\ a \in Saving
    BY <1>13, SaveShape
  <2>2. UNCHANGED <<births, ran, due>>
    BY <1>13 DEF EndSave
  <2>3. Remembered /\ fired' = fired
    BY <1>1, <2>2, SameRemembered DEF births
  <2>4. unmarked => unmarked'
    BY <2>1 DEF Saved
  <2>5. CASE a # Tick
    BY <1>10, <2>1, <2>2, <2>3, <2>4, <2>5 DEF Saved
  <2>6. CASE a = Tick /\ stage[a] = "settle" /\ o.ok = TRUE
    <3>1. stage'[Tick] = "report"
      BY <2>1, <2>6, AfterFacts DEF Saved, Saves
    <3>2. copy'[Tick] = copy[Tick] /\ job'[Tick] = job[Tick]
      BY <2>1, <2>6, <3>1 DEF Saved, Ended
    <3>3. InWork(Tick)' = InWork(Tick)
      BY <3>2 DEF InWork
    <3>4. (ran[InWork(Tick)] > 0 /\ copy[Tick][job[Tick]].status \in {"completed", "failed"})'
      BY <2>2, <2>6, <3>2, <3>3 DEF FiredInv
    <3>5. fired' # {} => unmarked' \/ due' # "scheduled"
      BY <2>2, <2>3, <2>4, <2>6 DEF FiredInv
    <3>6. \A t, u \in fired' : t = u \/ unmarked'
      BY <2>3, <2>4 DEF FiredInv
    <3>7. due' \in {"completed", "failed"} => \E t \in fired' : ran'[t] > 0
      BY <2>2, <2>3 DEF FiredInv
    <3> QED BY <3>4, <3>5, <3>6, <3>7 DEF FiredInv
  <2>7. CASE a = Tick /\ ~(stage[a] = "settle" /\ o.ok = TRUE)
    <3>1. stage[a] \in Saves /\ stage[a] \in TickStages
      BY <1>1, <2>1, <2>7 DEF Saving, ShapeInv, StagesInv, StagesOf
    <3>2. stage'[Tick] = After(stage[a], o.ok)
      BY <2>1, <2>7 DEF Saved
    <3>3. stage'[Tick] \notin {"settle", "report"}
      BY <2>1, <2>7, <3>1, <3>2 DEF After, Saves
    <3>4. stage[Tick] \in {"fire", "mark fired"} => stage'[Tick] = "mark fired" \/ unmarked'
      <4>1. stage[Tick] # "mark fired"
        BY <2>7, <3>1 DEF Saves
      <4>2. ASSUME stage[Tick] = "fire", o.ok = TRUE PROVE stage'[Tick] = "mark fired"
        BY <2>7, <3>2, <4>2 DEF After
      <4>3. ASSUME stage[Tick] = "fire", o.ok = FALSE PROVE unmarked'
        BY <2>1, <2>7, <4>3 DEF Saved
      <4> QED BY <2>1, <4>1, <4>2, <4>3
    <3> QED BY <2>2, <2>3, <2>4, <3>3, <3>4, FiredUntold
  <2> QED BY <2>1, <2>5, <2>6, <2>7
<1>14. CASE Start
  <2>1. stage'[Tick] = "asleep" /\ stage[Tick] = "off" /\ UNCHANGED <<due, fired, ran, unmarked>>
    BY <1>14, StartShape DEF Start, births, history, store
  <2> QED BY <2>1, FiredUntold
<1>15. CASE Stop
  <2>1. UNCHANGED <<due, fired, ran, unmarked, stage, copy, job>> /\ Remembered
    BY <1>1, <1>15, SameRemembered DEF Stop, births, history, store, hands
  <2> QED BY <2>1, FiredSame
<1>16. CASE Down
  <2>1. stage'[Tick] = "off"
    BY <1>1, <1>16, Roles, DownShape
  <2>2. UNCHANGED <<due, fired, ran>> /\ unmarked' = (unmarked \/ stage[Tick] \in {"fire", "mark fired"})
    BY <1>16 DEF Down, births
  <2> QED BY <2>1, <2>2, FiredUntold
<1>17. CASE UNCHANGED queueVars
  <2>1. UNCHANGED <<due, fired, ran, unmarked, stage, copy, job>> /\ Remembered
    BY <1>1, <1>17, SameRemembered DEF queueVars, births, history, store, hands
  <2> QED BY <2>1, FiredSame
<1>18. CASE TickFails
  <2>1. stage'[Tick] = "asleep" /\ stage[Tick] = "schedule"
    BY <1>18, TickFailsShape DEF TickFails
  <2> QED BY <1>18, <2>1, FiredUntold DEF TickFails, births, store, history
<1> QED
  BY <1>2, <1>3, <1>4, <1>5, <1>6, <1>7, <1>8, <1>9, <1>11, <1>12, <1>13, <1>14, <1>15, <1>16, <1>17, <1>18,
     NextCases

-------------------------------------------------------------------------------
\* The undisturbed queue.

\* The tasks executed or about to be, and those that threads have in hand.
Spent == {t \in Task : ran[t] > 0 \/ \E a \in Actor : stage[a] \in Working /\ InWork(a) = t}
Accounted == {t \in Task : \E a \in Actor : stage[a] \in InHand /\ job[a] > 0 /\ InWork(a) = t}

\* The tasks that the file may rightly call running.
AllIdsDiffer == \A t, u \in 1..made : ids[t] = ids[u] => t = u
Excused == {t \in Task : AllIdsDiffer => stops > 0 \/ t \in unsettled \/ t \in Accounted}

Distinct(q) == \A i, j \in DOMAIN q : q[i].task = q[j].task => i = j

\* A list in the hands of an actor in stage s, with the job j, that may be saved when
\* the file holds the tasks of the set tasks.
Fits(s, q, j, tasks, spent, excused) ==
  /\ Distinct(q)
  /\ s \notin {"command", "cleanup"} => tasks \subseteq Tasks(q)
  /\ s \notin {"command", "fire"} => Tasks(q) \subseteq tasks
  /\ \A i \in DOMAIN q : q[i].status = "queued" => q[i].task \notin spent
  /\ s \in Claims => q[j].status = "running" /\ q[j].task \notin spent
  /\ \A i \in DOMAIN q : q[i].status = "running" =>
       q[i].task \in tasks /\ (q[i].task \in excused \/ (s \in Claims /\ i = j))

\* Nobody has a task in work that another has, or that was executed before.
WorkInv ==
  /\ \A a, b \in Actor : stage[a] \in Working /\ stage[b] \in Working /\ InWork(a) = InWork(b) => a = b
  /\ \A a \in Actor : stage[a] \in Working => ran[InWork(a)] = 0

FileFits == Fits("asleep", file, 0, Tasks(file), Spent, Excused)
HoldersFit ==
  \A a \in Holding \ stale : Fits(stage[a], copy[a], job[a], Tasks(file), Spent, Excused)

ExactInv ==
  /\ robbed = {} /\ file # Unreadable
  /\ added \subseteq Tasks(file) \cup removed
  /\ \A t \in Task : ran[t] <= 1
  /\ WorkInv /\ FileFits /\ HoldersFit

\* Facts about lists that fit.

LEMMA TaskOf ==
  ASSUME NEW q, NEW i \in DOMAIN q PROVE q[i].task \in Tasks(q)
BY DEF Tasks

LEMMA FitsKept ==
  ASSUME NEW s, NEW q, NEW j, NEW tasks, NEW spent, NEW excused, NEW spent2, NEW excused2,
         Fits(s, q, j, tasks, spent, excused), spent2 \subseteq spent, excused \cap tasks \subseteq excused2
  PROVE  Fits(s, q, j, tasks, spent2, excused2)
BY DEF Fits

LEMMA FitsRelabelled ==
  ASSUME NEW s, NEW q, NEW j, NEW s2, NEW j2, NEW tasks, NEW spent, NEW excused,
         Fits(s, q, j, tasks, spent, excused), s \notin {"command", "cleanup", "fire"} \cup Claims,
         s2 \notin Claims
  PROVE  Fits(s2, q, j2, tasks, spent, excused)
BY DEF Fits

LEMMA EmptyFits ==
  ASSUME NEW tasks, NEW spent, NEW excused
  PROVE  Fits("command", <<>>, 0, tasks, spent, excused)
BY NoEntries DEF Fits, Claims, Distinct, Tasks

LEMMA SublistFits ==
  ASSUME NEW q \in Seq(Entry), NEW keep \in SUBSET DOMAIN q, NEW s \in {"command", "cleanup"},
         NEW tasks, NEW spent, NEW excused, Fits("asleep", q, 0, tasks, spent, excused)
  PROVE  Fits(s, Sublist(q, keep), 0, tasks, spent, excused)
<1> DEFINE r == Sublist(q, keep)
           at(k) == Place(keep, k)
<1>1. /\ \A k \in DOMAIN r : at(k) \in DOMAIN q /\ r[k] = q[at(k)]
      /\ \A k, l \in DOMAIN r : at(k) = at(l) => k = l
  BY SublistFacts
<1> HIDE DEF r, at
<1>2. Distinct(r)
  BY <1>1 DEF Distinct, Fits
<1>3. Tasks(r) \subseteq Tasks(q)
  BY <1>1 DEF Tasks
<1>4. s \notin Claims /\ "asleep" \notin Claims /\ Tasks(q) \subseteq tasks
  BY DEF Claims, Fits
<1>5. Fits(s, r, 0, tasks, spent, excused)
  BY <1>1, <1>2, <1>3, <1>4 DEF Fits
<1> QED BY <1>5 DEF r

LEMMA AppendFits ==
  ASSUME NEW q \in Seq(Entry), NEW e \in Entry, NEW s \in {"command", "fire"},
         NEW tasks, NEW spent, NEW excused, Fits("asleep", q, 0, tasks, spent, excused),
         e.status = "queued", e.task \notin spent, \A i \in DOMAIN q : q[i].task # e.task
  PROVE  Fits(s, Append(q, e), 0, tasks, spent, excused)
<1> DEFINE r == Append(q, e)
           n == Len(q) + 1
<1>1. /\ DOMAIN r = DOMAIN q \cup {n} /\ n \notin DOMAIN q /\ r[n] = e
      /\ \A i \in DOMAIN q : r[i] = q[i]
  BY AppendFacts
<1> HIDE DEF r, n
<1>2. Distinct(r)
  BY <1>1 DEF Distinct, Fits
<1>3. Tasks(q) \subseteq Tasks(r)
  BY <1>1 DEF Tasks
<1>4. s \notin Claims /\ "asleep" \notin Claims /\ tasks \subseteq Tasks(q)
  BY DEF Claims, Fits
<1>5. "queued" # "running"
  OBVIOUS
<1>6. Fits(s, r, 0, tasks, spent, excused)
  BY <1>1, <1>2, <1>3, <1>4, <1>5 DEF Fits
<1> QED BY <1>6 DEF r

LEMMA WithStatusTasks ==
  ASSUME NEW q \in Seq(Entry), NEW i \in DOMAIN q, NEW status \in Status
  PROVE  /\ Tasks(WithStatus(q, i, status)) = Tasks(q)
         /\ Distinct(q) => Distinct(WithStatus(q, i, status))
<1> DEFINE r == WithStatus(q, i, status)
<1>1. DOMAIN r = DOMAIN q /\ \A k \in DOMAIN q : r[k].task = q[k].task
  BY WithStatusFacts
<1> HIDE DEF r
<1>2. Tasks(r) = Tasks(q) /\ (Distinct(q) => Distinct(r))
  BY <1>1 DEF Tasks, Distinct
<1> QED BY <1>2 DEF r

LEMMA ClaimFits ==
  ASSUME NEW q \in Seq(Entry), NEW i \in Queued(q), NEW s \in {"asleep", "next"}, NEW s2 \in Claims, NEW j,
         NEW tasks, NEW spent, NEW excused, Fits(s, q, j, tasks, spent, excused)
  PROVE  Fits(s2, WithStatus(q, i, "running"), i, tasks, spent, excused)
<1> DEFINE r == WithStatus(q, i, "running")
<1>1. i \in DOMAIN q /\ q[i].status = "queued"
  BY QueuedFacts
<1>2. /\ DOMAIN r = DOMAIN q /\ r[i].status = "running"
      /\ \A k \in DOMAIN q : r[k].task = q[k].task /\ (k # i => r[k] = q[k])
  BY <1>1, FinishedIsStatus, WithStatusFacts
<1>3. Tasks(r) = Tasks(q) /\ Distinct(r)
  BY <1>1, FinishedIsStatus, WithStatusTasks DEF Fits
<1> HIDE DEF r
<1>4. s \notin Claims /\ s2 \notin {"command", "cleanup", "fire"} /\ Tasks(q) = tasks
  BY DEF Claims, Fits
<1>5. q[i].task \notin spent /\ q[i].task \in tasks
  BY <1>1, <1>4, TaskOf DEF Fits
<1>6. \A k \in DOMAIN r : r[k].status = "queued" => r[k].task \notin spent
  BY <1>1, <1>2 DEF Fits
<1>7. \A k \in DOMAIN r : r[k].status = "running" =>
        r[k].task \in tasks /\ (r[k].task \in excused \/ (s2 \in Claims /\ k = i))
  BY <1>1, <1>2, <1>4, <1>5 DEF Fits
<1>8. Fits(s2, r, i, tasks, spent, excused)
  BY <1>1, <1>2, <1>3, <1>4, <1>5, <1>6, <1>7 DEF Fits
<1> QED BY <1>8 DEF r

LEMMA FinishFits ==
  ASSUME NEW q \in Seq(Entry), NEW i \in DOMAIN q, NEW status \in Finished, NEW s, NEW s2, NEW j, NEW j2,
         s \notin {"command", "cleanup", "fire"} \cup Claims, s2 \notin Claims,
         NEW tasks, NEW spent, NEW excused, Fits(s, q, j, tasks, spent, excused)
  PROVE  Fits(s2, WithStatus(q, i, status), j2, tasks, spent, excused)
<1> DEFINE r == WithStatus(q, i, status)
<1>1. /\ DOMAIN r = DOMAIN q /\ r[i].status = status
      /\ \A k \in DOMAIN q : r[k].task = q[k].task /\ (k # i => r[k] = q[k])
  BY FinishedIsStatus, WithStatusFacts
<1>2. Tasks(r) = Tasks(q) /\ Distinct(r)
  BY FinishedIsStatus, WithStatusTasks DEF Fits
<1> HIDE DEF r
<1>3. status # "queued" /\ status # "running"
  BY DEF Finished
<1>4. \A k \in DOMAIN r : r[k].status \in {"queued", "running"} => r[k] = q[k]
  BY <1>1, <1>3
<1>5. Fits(s2, r, j2, tasks, spent, excused)
  BY <1>1, <1>2, <1>4 DEF Fits
<1> QED BY <1>5 DEF r

\* What the others have in work and in hand does not change by a step of an actor
\* that has nothing in hand before or after it.
LEMMA QuietSets ==
  ASSUME ShapeInv, HonestInv, WorkInv, Remembered, NEW a \in Actor, OnlyActs(a),
         stage[a] \notin InHand, stage'[a] \notin InHand, UNCHANGED <<ran, stops, unsettled>>
  PROVE  Spent' = Spent /\ Accounted' = Accounted /\ Excused \subseteq Excused' /\ WorkInv'
<1>1. \A b \in Actor : stage'[b] \in InHand => b # a
  OBVIOUS
<1>2. \A b \in Actor : stage[b] \in InHand => b # a
  OBVIOUS
<1>3. \A b \in Actor : b # a => stage'[b] = stage[b] /\ job'[b] = job[b] /\ InWork(b)' = InWork(b)
  BY DEF OnlyActs, InWork
<1>4. \A b \in Actor : /\ stage'[b] \in InHand <=> stage[b] \in InHand
                       /\ stage'[b] \in Working <=> stage[b] \in Working
  BY <1>1, <1>2, <1>3 DEF InHand
<1>5. \A b \in Actor : stage[b] \in InHand => job'[b] = job[b] /\ InWork(b)' = InWork(b)
  BY <1>2, <1>3
<1>6. Working \subseteq InHand
  BY DEF InHand
<1>7. Spent' = Spent
  <2>1. \A t \in Task : t \in Spent' <=> t \in Spent
    BY <1>4, <1>5, <1>6 DEF Spent
  <2> QED BY <2>1 DEF Spent
<1>8. Accounted' = Accounted
  <2>1. \A t \in Task : t \in Accounted' <=> t \in Accounted
    BY <1>4, <1>5 DEF Accounted
  <2> QED BY <2>1 DEF Accounted
<1>9. AllIdsDiffer' => AllIdsDiffer
  <2>1. made \in Nat /\ made' \in Nat /\ made <= made' /\ \A t \in 1..made : ids'[t] = ids[t]
    BY DEF Remembered, ShapeInv, BirthsInv
  <2>2. \A t \in 1..made : t \in 1..made'
    BY <2>1
  <2> QED BY <2>1, <2>2 DEF AllIdsDiffer
<1>10. Excused \subseteq Excused'
  BY <1>8, <1>9 DEF Excused
<1>11. WorkInv'
  BY <1>4, <1>5, <1>6 DEF WorkInv
<1> QED BY <1>7, <1>8, <1>10, <1>11

\* Such a step, when the file stays, keeps the queue exact if the list taken fits.
LEMMA QuietExact ==
  ASSUME ShapeInv, HonestInv, ExactInv, Remembered, NEW a \in Actor, OnlyActs(a),
         stage[a] \notin InHand, stage'[a] \notin InHand,
         UNCHANGED <<ran, file, robbed, added, removed, stops, unsettled>>, stale \ {a} \subseteq stale',
         a \in Holding' \ stale' =>
           Fits(stage'[a], copy'[a], job'[a], Tasks(file), Spent, Excused)
  PROVE  ExactInv'
<1>1. Spent' = Spent /\ Excused \subseteq Excused' /\ WorkInv'
  BY QuietSets DEF ExactInv
<1>2. Tasks(file)' = Tasks(file)
  BY DEF Tasks
<1>3. FileFits'
  <2>1. Fits("asleep", file, 0, Tasks(file), Spent, Excused')
    BY <1>1, FitsKept DEF ExactInv, FileFits
  <2>2. Fits("asleep", file', 0, Tasks(file)', Spent', Excused')
    BY <1>1, <1>2, <2>1
  <2> QED BY <2>2 DEF FileFits, Fits, Distinct
<1>4. ASSUME NEW b \in Holding' \ stale'
      PROVE  Fits(stage'[b], copy'[b], job'[b], Tasks(file)', Spent', Excused')
  <2>1. Fits(stage'[b], copy'[b], job'[b], Tasks(file), Spent, Excused)
    <3>1. CASE b = a
      BY <1>4, <3>1
    <3>2. CASE b # a
      <4>1. b \in Actor /\ stage'[b] = stage[b] /\ copy'[b] = copy[b] /\ job'[b] = job[b]
        BY <1>4, <3>2, Roles DEF OnlyActs, Holding, Saving
      <4>2. b \in Holding /\ b \notin stale
        BY <1>4, <3>2, <4>1 DEF Holding, Saving
      <4> QED BY <4>1, <4>2 DEF ExactInv, HoldersFit
    <3> QED BY <3>1, <3>2
  <2>2. Fits(stage'[b], copy'[b], job'[b], Tasks(file), Spent, Excused')
    BY <1>1, <2>1, FitsKept
  <2> QED BY <1>1, <1>2, <2>2
<1>5. HoldersFit'
  BY <1>4 DEF HoldersFit, Fits, Distinct
<1>6. /\ robbed' = {} /\ file' # Unreadable
      /\ added' \subseteq Tasks(file') \cup removed'
      /\ \A t \in Task : ran'[t] <= 1
  BY DEF ExactInv
<1> QED BY <1>1, <1>3, <1>5, <1>6 DEF ExactInv

\* The file is what an undisturbed actor loads.
LEMMA ExactLoaded ==
  ASSUME ShapeInv, ExactInv
  PROVE  /\ Loaded = file /\ file \in Seq(Entry)
         /\ Fits("asleep", Loaded, 0, Tasks(file), Spent, Excused)
BY DEF ExactInv, Loaded, FileFits, ShapeInv, RestInv

\* Nobody has a task in hand that was not created.
LEMMA SpentIsMade ==
  ASSUME ShapeInv, HonestInv PROVE Spent \subseteq 1..made
<1> SUFFICES ASSUME NEW t \in Spent PROVE t \in 1..made
  OBVIOUS
<1>1. CASE ran[t] > 0
  <2>1. t \in Task /\ made \in Nat /\ (t > made => ran[t] = 0)
    BY DEF Spent, ShapeInv, BirthsInv
  <2>2. t \in Nat /\ t >= 1 /\ ~(0 > 0)
    BY <2>1 DEF Task
  <2> QED BY <1>1, <2>1, <2>2
<1>2. ASSUME NEW a \in Actor, stage[a] \in Working, InWork(a) = t PROVE t \in 1..made
  <2>1. job[a] > 0
    BY <1>2 DEF ShapeInv, HandsInv, JobFits, InHand, Working
  <2> QED BY <1>2, <2>1, InWorkFacts
<1> QED BY <1>1, <1>2 DEF Spent

LEMMA NewTaskFits ==
  ASSUME ShapeInv, HonestInv, ExactInv, NEW a \in Actor, NewTask(a), UNCHANGED ran,
         fired' = fired \/ fired' = fired \cup {made + 1}, NEW s \in {"command", "fire"}
  PROVE  Remembered /\ Fits(s, copy'[a], 0, Tasks(file), Spent, Excused)
<1> DEFINE e == [task |-> made + 1, status |-> "queued"]
<1>1. BirthsInv /\ RestInv
  BY DEF ShapeInv
<1>2. Remembered /\ e \in Entry /\ made \in Nat
  BY <1>1, NewRemembered, NewTaskShape DEF BirthsInv
<1>3. copy'[a] = Append(Loaded, e)
  BY DEF NewTask, Hold, ShapeInv, HandsInv
<1>4. e.task = made + 1 /\ e.status = "queued"
  OBVIOUS
<1> HIDE DEF e
<1>5. e.task \notin 1..made
  BY <1>2, <1>4
<1>6. e.task \notin Spent /\ \A i \in DOMAIN Loaded : Loaded[i].task # e.task
  BY <1>5, SpentIsMade DEF HonestInv, Honest
<1>7. Fits(s, Append(Loaded, e), 0, Tasks(file), Spent, Excused)
  BY <1>2, <1>4, <1>6, ExactLoaded, AppendFits
<1> QED BY <1>2, <1>3, <1>7

LEMMA FirstRun ==
  ASSUME BirthsInv, NEW t \in 1..made, Ran(t), UNCHANGED births, ran[t] = 0, \A u \in Task : ran[u] <= 1
  PROVE  \A u \in Task : ran'[u] <= 1
<1>1. t \in Task
  BY QueueConstants DEF BirthsInv, Task
<1>2. ran' = [ran EXCEPT ![t] = IF ran[t] = 2 THEN 2 ELSE ran[t] + 1]
  BY DEF Ran
<1>3. ran'[t] = 1
  BY <1>1, <1>2 DEF BirthsInv
<1>4. \A u \in Task \ {t} : ran'[u] = ran[u]
  BY <1>2 DEF BirthsInv
<1> SUFFICES ASSUME NEW u \in Task PROVE ran'[u] <= 1
  OBVIOUS
<1>5. CASE u = t
  BY <1>3, <1>5
<1>6. CASE u # t
  BY <1>4, <1>6
<1> QED BY <1>5, <1>6

\* A step in which a runs the task it has in work.
LEMMA RunExact ==
  ASSUME ShapeInv, HonestInv, ExactInv, NEW a \in Actor, OnlyActs(a), stage[a] \in Working,
         stage'[a] = (IF a = Tick THEN "settle" ELSE "worker executed"), job'[a] = job[a], Ran(InWork(a)),
         NEW status \in Finished, copy'[a] = WithStatus(copy[a], job[a], status),
         UNCHANGED <<births, file, robbed, added, removed, stops, unsettled, stale>>
  PROVE  ExactInv'
<1> DEFINE u == InWork(a)
<1>1. job[a] > 0
  <2>1. stage[a] \in Claims \cup InHand \cup {"report"} /\ stage[a] # "worker settle"
    BY DEF InHand, Working
  <2> QED BY <2>1 DEF ShapeInv, HandsInv, JobFits
<1>2. /\ job[a] \in DOMAIN copy[a] /\ u = copy[a][job[a]].task /\ u \in 1..made /\ u \in Task
      /\ copy[a] \in Seq(Entry)
  BY <1>1, InWorkFacts
<1>3. copy'[a][job[a]].task = u
  <2>1. WithStatus(copy[a], job[a], status)[job[a]].task = copy[a][job[a]].task
    BY <1>2, FinishedIsStatus, WithStatusFacts
  <2> QED BY <1>2, <2>1
<1>4. InWork(a)' = u
  BY <1>3 DEF InWork
<1>5. BirthsInv' /\ ran'[u] > 0 /\ \A t \in Task \ {u} : ran'[t] = ran[t]
  BY <1>2, RanShape DEF ShapeInv
<1>6. ran[u] = 0
  BY DEF ExactInv, WorkInv
<1>7. \A t \in Task : ran'[t] <= 1
  BY <1>2, <1>6, FirstRun DEF ShapeInv, ExactInv
<1>8. \A b \in Actor : b # a => stage'[b] = stage[b] /\ job'[b] = job[b] /\ InWork(b)' = InWork(b)
  BY DEF OnlyActs, InWork
<1>9. stage'[a] \notin Working /\ stage'[a] \in InHand /\ stage[a] \in InHand /\ stage'[a] \notin Claims
      /\ stage[a] \notin Claims \cup {"command", "cleanup", "fire"}
  BY Roles DEF Working, InHand, Claims
<1> HIDE DEF u
<1>10. \A b \in Actor : stage'[b] \in Working => b # a /\ stage[b] \in Working /\ InWork(b)' = InWork(b)
  BY <1>8, <1>9
<1>11. \A b \in Actor : InWork(b)' = InWork(b)
  BY <1>4, <1>8 DEF u
<1>12. \A b \in Actor : stage[b] \in Working => InWork(b) \in Task
  <2> SUFFICES ASSUME NEW b \in Actor, stage[b] \in Working PROVE InWork(b) \in Task
    OBVIOUS
  <2>1. job[b] > 0
    BY DEF ShapeInv, HandsInv, JobFits, InHand, Working
  <2> QED BY <2>1, InWorkFacts
<1>13. WorkInv'
  <2>1. \A b, c \in Actor : stage'[b] \in Working /\ stage'[c] \in Working /\ InWork(b)' = InWork(c)' => b = c
    BY <1>10 DEF ExactInv, WorkInv
  <2>2. ASSUME NEW b \in Actor, stage'[b] \in Working PROVE ran'[InWork(b)'] = 0
    <3>1. b # a /\ stage[b] \in Working /\ InWork(b)' = InWork(b)
      BY <1>10, <2>2
    <3>2. InWork(b) # u /\ InWork(b) \in Task
      BY <1>12, <3>1 DEF ExactInv, WorkInv, u
    <3>3. ran'[InWork(b)] = ran[InWork(b)] /\ ran[InWork(b)] = 0
      BY <1>5, <3>1, <3>2 DEF ExactInv, WorkInv
    <3> QED BY <3>1, <3>3
  <2> QED BY <2>1, <2>2 DEF WorkInv
<1>14. Spent' \subseteq Spent
  <2> SUFFICES ASSUME NEW t \in Spent' PROVE t \in Spent
    OBVIOUS
  <2>1. t \in Task /\ (ran'[t] > 0 \/ \E b \in Actor : stage'[b] \in Working /\ InWork(b)' = t)
    BY DEF Spent
  <2>2. CASE t = u
    BY <2>1, <2>2 DEF Spent, u
  <2>3. CASE t # u
    BY <1>5, <1>10, <2>1, <2>3 DEF Spent
  <2> QED BY <2>2, <2>3
<1>15. Accounted' = Accounted
  <2>1. \A b \in Actor : (stage'[b] \in InHand <=> stage[b] \in InHand) /\ job'[b] = job[b]
    BY <1>8, <1>9
  <2>2. \A t \in Task : t \in Accounted' <=> t \in Accounted
    BY <1>11, <2>1 DEF Accounted
  <2> QED BY <2>2 DEF Accounted
<1>16. Excused' = Excused
  BY <1>15 DEF Excused, AllIdsDiffer, births
<1>17. Tasks(file)' = Tasks(file)
  BY DEF Tasks
<1>18. FileFits'
  <2>1. Fits("asleep", file, 0, Tasks(file), Spent', Excused')
    BY <1>14, <1>16, FitsKept DEF ExactInv, FileFits
  <2> QED BY <1>17, <2>1 DEF FileFits, Fits, Distinct
<1>19. ASSUME NEW b \in Holding' \ stale'
       PROVE  Fits(stage'[b], copy'[b], job'[b], Tasks(file)', Spent', Excused')
  <2>1. b \in Actor /\ b \notin stale
    BY <1>19, Roles DEF Holding, Saving
  <2>2. b \in Holding
    <3>1. CASE b = a
      <4>1. b = Tick \/ stage'[b] \in Saves
        BY <1>19 DEF Holding, Saving
      <4>2. b = Tick
        BY <4>1, <3>1 DEF Saves
      <4>3. stage[b] = "execute"
        BY <3>1, <4>2 DEF ShapeInv, StagesInv, StagesOf, TickStages, Working
      <4> QED BY <4>2, <4>3, Roles DEF Holding
    <3>2. CASE b # a
      BY <1>8, <1>19, <2>1, <3>2 DEF Holding, Saving
    <3> QED BY <3>1, <3>2
  <2>3. Fits(stage[b], copy[b], job[b], Tasks(file), Spent, Excused)
    BY <2>1, <2>2 DEF ExactInv, HoldersFit
  <2>4. Fits(stage'[b], copy'[b], job'[b], Tasks(file), Spent, Excused)
    <3>1. CASE b = a
      <4>1. Fits(stage[a], copy[a], job[a], Tasks(file), Spent, Excused)
        BY <2>3, <3>1
      <4>2. stage[a] \notin {"command", "cleanup", "fire"} \cup Claims /\ stage'[a] \notin Claims
        BY <1>9
      <4>3. Fits(stage'[a], WithStatus(copy[a], job[a], status), job'[a], Tasks(file), Spent, Excused)
        BY <1>2, <4>1, <4>2, FinishFits
      <4> QED BY <3>1, <4>3
    <3>2. CASE b # a
      BY <2>1, <2>3, <3>2 DEF OnlyActs
    <3> QED BY <3>1, <3>2
  <2>5. Fits(stage'[b], copy'[b], job'[b], Tasks(file), Spent', Excused')
    BY <1>14, <1>16, <2>4, FitsKept
  <2> QED BY <1>17, <2>5
<1>20. HoldersFit'
  BY <1>19 DEF HoldersFit, Fits, Distinct
<1>21. robbed' = {} /\ file' # Unreadable /\ added' \subseteq Tasks(file') \cup removed'
  BY DEF ExactInv
<1> QED BY <1>7, <1>13, <1>18, <1>20, <1>21 DEF ExactInv

\* A worker whose run raises has nothing in hand any more, and the task is excused.
LEMMA RaiseExact ==
  ASSUME ShapeInv, HonestInv, ExactInv, ~disturbed, NEW w \in Pool, WorkerRaises(w)
  PROVE  ExactInv'
<1> DEFINE u == InWork(w)
<1>1. /\ w \in Actor /\ w # Tick /\ stage[w] = "worker execute" /\ stage'[w] = "idle" /\ OnlyActs(w)
      /\ Ran(u) /\ job[w] > 0 /\ u \in 1..made
      /\ UNCHANGED <<births, file, robbed, added, removed, stops, stale>>
      /\ unsettled' = unsettled \cup {u}
  BY Roles, WorkerRaisesShape DEF WorkerRaises, disk
<1>2. u \in Task
  BY <1>1, InWorkFacts
<1>3. ran'[u] > 0 /\ \A t \in Task \ {u} : ran'[t] = ran[t]
  BY <1>1, RanShape DEF ShapeInv
<1>4. stage[w] \in Working
  BY <1>1 DEF Working
<1>5. ran[u] = 0
  BY <1>1, <1>4 DEF ExactInv, WorkInv
<1>6. \A t \in Task : ran'[t] <= 1
  BY <1>1, <1>5, FirstRun DEF ShapeInv, ExactInv
<1>7. \A b \in Actor : b # w => stage'[b] = stage[b] /\ job'[b] = job[b] /\ InWork(b)' = InWork(b)
  BY <1>1 DEF OnlyActs, InWork
<1>8. stage'[w] \notin InHand \cup Working
  BY <1>1 DEF InHand, Working
<1> HIDE DEF u
<1>9. \A b \in Actor : stage'[b] \in InHand \cup Working =>
        b # w /\ stage[b] = stage'[b] /\ InWork(b)' = InWork(b)
  BY <1>7, <1>8
<1>10. \A b \in Actor : stage[b] \in Working => InWork(b) \in Task
  <2> SUFFICES ASSUME NEW b \in Actor, stage[b] \in Working PROVE InWork(b) \in Task
    OBVIOUS
  <2>1. job[b] > 0
    BY DEF ShapeInv, HandsInv, JobFits, InHand, Working
  <2> QED BY <2>1, InWorkFacts
<1>11. WorkInv'
  <2>1. \A b, c \in Actor : stage'[b] \in Working /\ stage'[c] \in Working /\ InWork(b)' = InWork(c)' => b = c
    BY <1>9 DEF ExactInv, WorkInv
  <2>2. ASSUME NEW b \in Actor, stage'[b] \in Working PROVE ran'[InWork(b)'] = 0
    <3>1. b # w /\ stage[b] \in Working /\ InWork(b)' = InWork(b)
      BY <1>9, <2>2
    <3>2. InWork(b) # u /\ InWork(b) \in Task
      BY <1>1, <1>4, <1>10, <3>1 DEF ExactInv, WorkInv, u
    <3>3. ran'[InWork(b)] = ran[InWork(b)] /\ ran[InWork(b)] = 0
      BY <1>3, <3>1, <3>2 DEF ExactInv, WorkInv
    <3> QED BY <3>1, <3>3
  <2> QED BY <2>1, <2>2 DEF WorkInv
<1>12. Spent' \subseteq Spent
  <2> SUFFICES ASSUME NEW t \in Spent' PROVE t \in Spent
    OBVIOUS
  <2>1. t \in Task /\ (ran'[t] > 0 \/ \E b \in Actor : stage'[b] \in Working /\ InWork(b)' = t)
    BY DEF Spent
  <2>2. CASE t = u
    BY <1>1, <1>4, <2>1, <2>2 DEF Spent, u
  <2>3. CASE t # u
    BY <1>3, <1>9, <2>1, <2>3 DEF Spent
  <2> QED BY <2>2, <2>3
<1>13. Excused \subseteq Excused'
  <2>1. ASSUME NEW t \in Accounted PROVE t \in Accounted' \/ t = u
    <3>1. PICK b \in Actor : stage[b] \in InHand /\ job[b] > 0 /\ InWork(b) = t /\ t \in Task
      BY <2>1 DEF Accounted
    <3>2. CASE b = w
      BY <3>1, <3>2 DEF u
    <3>3. CASE b # w
      BY <1>7, <3>1, <3>3 DEF Accounted
    <3> QED BY <3>2, <3>3
  <2>2. AllIdsDiffer' = AllIdsDiffer /\ stops' = stops
    BY <1>1 DEF AllIdsDiffer, births
  <2> QED BY <1>1, <2>1, <2>2 DEF Excused
<1>14. Tasks(file)' = Tasks(file)
  BY <1>1 DEF Tasks
<1>15. FileFits'
  <2>1. Fits("asleep", file, 0, Tasks(file), Spent', Excused')
    BY <1>12, <1>13, FitsKept DEF ExactInv, FileFits
  <2> QED BY <1>1, <1>14, <2>1 DEF FileFits, Fits, Distinct
<1>16. ASSUME NEW b \in Holding' \ stale'
       PROVE  Fits(stage'[b], copy'[b], job'[b], Tasks(file)', Spent', Excused')
  <2>1. b \in Actor /\ b \notin stale /\ b # w
    BY <1>1, <1>16, Roles DEF Holding, Saving, Saves
  <2>2. stage'[b] = stage[b] /\ copy'[b] = copy[b] /\ job'[b] = job[b]
    BY <1>1, <2>1 DEF OnlyActs
  <2>3. b \in Holding
    BY <1>16, <2>1, <2>2 DEF Holding, Saving
  <2>4. Fits(stage[b], copy[b], job[b], Tasks(file), Spent, Excused)
    BY <2>1, <2>3 DEF ExactInv, HoldersFit
  <2>5. Fits(stage[b], copy[b], job[b], Tasks(file), Spent', Excused')
    BY <1>12, <1>13, <2>4, FitsKept
  <2> QED BY <1>14, <2>2, <2>5
<1>17. HoldersFit'
  BY <1>16 DEF HoldersFit, Fits, Distinct
<1>18. robbed' = {} /\ file' # Unreadable /\ added' \subseteq Tasks(file') \cup removed'
  BY <1>1 DEF ExactInv
<1> QED BY <1>6, <1>11, <1>15, <1>17, <1>18 DEF ExactInv

\* A worker puts its result into the list of now: under ids that all differ, into
\* its own entry, and if that is gone, the file has no entry of the task.
LEMMA SettleExact ==
  ASSUME ShapeInv, HonestInv, ExactInv, NEW w \in Pool, Settle(w)
  PROVE  ExactInv'
<1> DEFINE at == SettledAt(w)
           status == copy[w][job[w]].status
           u == InWork(w)
<1>1. w \in Actor /\ OnlyActs(w) /\ w # Tick
  BY Roles, SettleShape
<1>2. /\ stage[w] = "worker executed" /\ stage'[w] = "worker settle" /\ job'[w] = at
      /\ job[w] > 0 /\ status \in Finished
      /\ copy'[w] = IF at = 0 THEN Loaded ELSE WithStatus(Loaded, at, status)
  BY SettleShape DEF Settle
<1>3. /\ UNCHANGED <<births, ran, file, robbed, added, removed, stops, unsettled>> /\ stale' = stale \ {w}
  BY DEF Settle, disk, lives, Fresh
<1>4. /\ Loaded = file /\ file \in Seq(Entry)
      /\ Fits("asleep", Loaded, 0, Tasks(file), Spent, Excused)
  BY ExactLoaded
<1>5. at \in {0} \cup DOMAIN file /\ (at = 0 => SameId(file, u) = {}) /\ (at # 0 => at \in SameId(file, u))
  BY <1>4, SettledAtFacts
<1>6. u \in 1..made /\ \A i \in DOMAIN file : file[i].task \in 1..made
  BY <1>1, <1>2, <1>4, InWorkFacts DEF HonestInv, Honest
<1>7. AllIdsDiffer => /\ at # 0 => file[at].task = u
                      /\ at = 0 => u \notin Tasks(file)
  <2>1. ASSUME AllIdsDiffer, at # 0 PROVE file[at].task = u
    <3>1. at \in DOMAIN file /\ ids[file[at].task] = ids[u]
      BY <1>5, <2>1 DEF SameId
    <3> HIDE DEF at, u
    <3> QED BY <1>6, <2>1, <3>1 DEF AllIdsDiffer
  <2>2. ASSUME AllIdsDiffer, at = 0 PROVE u \notin Tasks(file)
    BY <1>5, <2>2 DEF SameId, Tasks
  <2> QED BY <2>1, <2>2
<1>8. \A b \in Actor : b # w => stage'[b] = stage[b] /\ job'[b] = job[b] /\ InWork(b)' = InWork(b)
  BY <1>1 DEF OnlyActs, InWork
<1> HIDE DEF at, status, u
<1>9. \A b \in Actor : /\ stage'[b] \in Working => b # w /\ stage[b] \in Working
                       /\ stage[b] \in Working => b # w /\ stage'[b] \in Working
  BY <1>2, <1>8 DEF Working
<1>10. Spent' = Spent
  <2>1. \A t \in Task : t \in Spent' <=> t \in Spent
    BY <1>3, <1>8, <1>9 DEF Spent
  <2> QED BY <2>1 DEF Spent
<1>11. WorkInv'
  BY <1>3, <1>8, <1>9 DEF ExactInv, WorkInv
<1>12. AllIdsDiffer' = AllIdsDiffer
  BY <1>3 DEF AllIdsDiffer, births
<1>13. ASSUME at # 0, AllIdsDiffer PROVE InWork(w)' = u
  <2>1. copy'[w] = WithStatus(file, at, status) /\ at \in DOMAIN file /\ status \in Status
    BY <1>2, <1>4, <1>5, <1>13, FinishedIsStatus
  <2>2. copy'[w][at].task = file[at].task
    BY <1>4, <2>1, WithStatusFacts
  <2> QED BY <1>2, <1>7, <1>13, <2>2 DEF InWork
<1>14. ASSUME AllIdsDiffer, NEW t \in Accounted, t \in Tasks(file) PROVE t \in Accounted'
  <2>1. PICK b \in Actor : stage[b] \in InHand /\ job[b] > 0 /\ InWork(b) = t
    BY <1>14 DEF Accounted
  <2>2. t \in Task
    BY <1>14 DEF Accounted
  <2>3. CASE b # w
    BY <1>8, <2>1, <2>2, <2>3 DEF Accounted
  <2>4. CASE b = w
    <3>1. at # 0 /\ at \in DOMAIN file
      BY <1>5, <1>7, <1>14, <2>1, <2>4 DEF u
    <3>2. at > 0
      BY <1>4, <3>1, EntryFacts
    <3>3. InWork(w)' = t /\ job'[w] > 0 /\ stage'[w] \in InHand
      BY <1>2, <1>13, <1>14, <2>1, <2>4, <3>1, <3>2 DEF u, InHand
    <3> QED BY <1>1, <2>2, <3>3 DEF Accounted
  <2> QED BY <2>3, <2>4
<1>15. Excused \cap Tasks(file) \subseteq Excused'
  BY <1>3, <1>12, <1>14 DEF Excused
<1>16. Tasks(file)' = Tasks(file)
  BY <1>3 DEF Tasks
<1>17. FileFits'
  <2>1. Fits("asleep", file, 0, Tasks(file), Spent', Excused')
    BY <1>10, <1>15, FitsKept DEF ExactInv, FileFits
  <2>2. Fits("asleep", file', 0, Tasks(file)', Spent', Excused')
    BY <1>3, <1>16, <2>1
  <2> QED BY <2>2 DEF FileFits, Fits, Distinct
<1>18. Fits(stage'[w], copy'[w], job'[w], Tasks(file), Spent, Excused)
  <2>1. "worker settle" \notin Claims /\ "asleep" \notin {"command", "cleanup", "fire"} \cup Claims
    BY DEF Claims
  <2>2. CASE at = 0
    <3>1. Fits("worker settle", Loaded, at, Tasks(file), Spent, Excused)
      BY <1>4, <2>1, FitsRelabelled
    <3> QED BY <1>2, <2>2, <3>1
  <2>3. CASE at # 0
    BY <1>2, <1>4, <1>5, <2>1, <2>3, FinishFits
  <2> QED BY <2>2, <2>3
<1>19. ASSUME NEW b \in Holding' \ stale'
       PROVE  Fits(stage'[b], copy'[b], job'[b], Tasks(file)', Spent', Excused')
  <2>1. Fits(stage'[b], copy'[b], job'[b], Tasks(file), Spent, Excused)
    <3>1. CASE b = w
      BY <1>18, <3>1
    <3>2. CASE b # w
      <4>1. b \in Actor /\ stage'[b] = stage[b] /\ copy'[b] = copy[b] /\ job'[b] = job[b]
        BY <1>1, <1>19, <3>2, Roles DEF OnlyActs, Holding, Saving
      <4>2. b \in Holding /\ b \notin stale
        BY <1>3, <1>19, <3>2, <4>1 DEF Holding, Saving
      <4> QED BY <4>1, <4>2 DEF ExactInv, HoldersFit
    <3> QED BY <3>1, <3>2
  <2>2. Fits(stage'[b], copy'[b], job'[b], Tasks(file), Spent', Excused')
    BY <1>10, <1>15, <2>1, FitsKept
  <2> QED BY <1>16, <2>2
<1>20. HoldersFit'
  BY <1>19 DEF HoldersFit, Fits, Distinct
<1>21. /\ robbed' = {} /\ file' # Unreadable
       /\ added' \subseteq Tasks(file') \cup removed'
       /\ \A t \in Task : ran'[t] <= 1
  BY <1>3 DEF ExactInv
<1> QED BY <1>11, <1>17, <1>20, <1>21 DEF ExactInv

\* A save that overlaps with no other and whose list is not out of date.
LEMMA SaveExact ==
  ASSUME ShapeInv, HonestInv, ExactInv, ~disturbed, NEW a \in Actor, EndSave(a), ~disturbed'
  PROVE  ExactInv'
<1> DEFINE s == stage[a]
           s2 == After(stage[a], TRUE)
           u == InWork(a)
<1>1. a \in Saving /\ s \in Saves /\ s \in StagesOf(a) /\ Sharing = {a} /\ a \notin stale
  BY SaveShape DEF EndSave, Saving, ShapeInv, StagesInv
<1>2. robbed = {} /\ Saving = {a}
  BY <1>1 DEF ExactInv, Sharing
<1>3. PICK o \in Outcome(a) : file' = o.file /\ robbed' = o.robbed /\ o.ok \in BOOLEAN /\ Saved(a, o.ok)
  BY SaveShape
<1>4. o.ok = TRUE /\ file' = copy[a] /\ robbed' = {} /\ Saved(a, TRUE)
  <2>1. o.ok /\ o.file = copy[a] /\ o.robbed = robbed
    BY <1>1, OutcomeFacts
  <2>2. o.ok = TRUE
    BY <1>3, <2>1
  <2> QED BY <1>2, <1>3, <2>1, <2>2
<1>5. OnlyActs(a) /\ stage'[a] = s2 /\ (s2 \notin Ended => copy'[a] = copy[a] /\ job'[a] = job[a])
  BY <1>4 DEF Saved
<1>6. /\ UNCHANGED <<births, ran, stops, unsettled>>
      /\ added' = added \cup Tasks(copy[a])
      /\ removed' = IF s \in {"command", "cleanup"}
                    THEN removed \cup (Tasks(Loaded) \ Tasks(copy[a])) ELSE removed
      /\ stale' = (stale \cup Holding) \ {a}
  BY DEF EndSave, lives
<1>7. Fits(s, copy[a], job[a], Tasks(file), Spent, Excused)
  BY <1>1 DEF ExactInv, HoldersFit, Holding
<1>8. copy[a] \in Seq(Entry) /\ JobFits(s, copy[a], job[a])
  BY DEF ShapeInv, HandsInv
<1>9. \A b \in Actor : b # a => stage'[b] = stage[b] /\ job'[b] = job[b] /\ InWork(b)' = InWork(b)
  BY <1>5 DEF OnlyActs, InWork
<1>10. /\ s \notin Working /\ (s \in Claims <=> s2 \in Working) /\ (s2 \in InHand <=> s2 \in Working)
       /\ s2 \notin Claims /\ (s2 \in Working => s2 \notin Ended)
       /\ s2 \in {"next", "execute", "report"} <=> s \in {"claim", "settle"}
  BY <1>1 DEF After, Saves, Working, Claims, InHand, Ended
<1>11. s \in Claims => /\ job[a] \in DOMAIN copy[a] /\ u \in Task /\ u = copy[a][job[a]].task
                       /\ u \notin Spent /\ InWork(a)' = u /\ job'[a] > 0
                       /\ copy[a][job[a]].status = "running"
  <2> SUFFICES ASSUME s \in Claims
               PROVE  /\ job[a] \in DOMAIN copy[a] /\ u \in Task /\ u = copy[a][job[a]].task
                      /\ u \notin Spent /\ InWork(a)' = u /\ job'[a] > 0
                      /\ copy[a][job[a]].status = "running"
    OBVIOUS
  <2>1. job[a] > 0
    BY <1>8 DEF JobFits, Claims
  <2>2. job[a] \in DOMAIN copy[a] /\ u \in Task /\ u = copy[a][job[a]].task
    BY <2>1, InWorkFacts
  <2>3. copy'[a] = copy[a] /\ job'[a] = job[a]
    BY <1>5, <1>10
  <2>4. InWork(a)' = u
    BY <2>3 DEF InWork
  <2>5. copy[a][job[a]].status = "running" /\ copy[a][job[a]].task \notin Spent
    BY <1>7 DEF Fits
  <2> QED BY <2>1, <2>2, <2>3, <2>4, <2>5
<1>12. \A b \in Actor : stage[b] \in Working => InWork(b) \in Spent
  <2> SUFFICES ASSUME NEW b \in Actor, stage[b] \in Working PROVE InWork(b) \in Spent
    OBVIOUS
  <2>1. stage[b] \in Claims \cup InHand \cup {"report"} /\ stage[b] # "worker settle"
    BY DEF InHand, Working
  <2>2. job[b] > 0
    BY <2>1 DEF ShapeInv, HandsInv, JobFits
  <2> QED BY <2>2, InWorkFacts DEF Spent
<1> HIDE DEF s2, u
<1>13. ASSUME NEW t \in Spent' PROVE t \in Spent \/ (s \in Claims /\ t = u)
  <2>1. t \in Task /\ (ran'[t] > 0 \/ \E b \in Actor : stage'[b] \in Working /\ InWork(b)' = t)
    BY DEF Spent
  <2>2. CASE ran'[t] > 0
    BY <1>6, <2>1, <2>2 DEF Spent
  <2>3. ASSUME NEW b \in Actor, stage'[b] \in Working, InWork(b)' = t
        PROVE  t \in Spent \/ (s \in Claims /\ t = u)
    <3>1. CASE b = a
      BY <1>5, <1>10, <1>11, <2>3, <3>1
    <3>2. CASE b # a
      BY <1>9, <2>1, <2>3, <3>2 DEF Spent
    <3> QED BY <3>1, <3>2
  <2> QED BY <2>1, <2>2, <2>3
<1>14. WorkInv'
  <2>1. ASSUME NEW b \in Actor, NEW c \in Actor, stage'[b] \in Working, stage'[c] \in Working,
               InWork(b)' = InWork(c)', b # c
        PROVE  FALSE
    <3>1. CASE b # a /\ c # a
      BY <1>9, <2>1, <3>1 DEF ExactInv, WorkInv
    <3>2. CASE b = a
      <4>1. InWork(c) \in Spent /\ InWork(c)' = InWork(c)
        BY <1>9, <1>12, <2>1, <3>2
      <4>2. InWork(b)' = u /\ u \notin Spent
        BY <1>5, <1>10, <1>11, <2>1, <3>2
      <4> QED BY <2>1, <4>1, <4>2
    <3>3. CASE c = a
      <4>1. InWork(b) \in Spent /\ InWork(b)' = InWork(b)
        BY <1>9, <1>12, <2>1, <3>3
      <4>2. InWork(c)' = u /\ u \notin Spent
        BY <1>5, <1>10, <1>11, <2>1, <3>3
      <4> QED BY <2>1, <4>1, <4>2
    <3> QED BY <3>1, <3>2, <3>3
  <2>2. ASSUME NEW b \in Actor, stage'[b] \in Working PROVE ran'[InWork(b)'] = 0
    <3>1. CASE b # a
      BY <1>6, <1>9, <2>2, <3>1 DEF ExactInv, WorkInv
    <3>2. CASE b = a
      <4>1. InWork(b)' = u /\ u \notin Spent /\ u \in Task
        BY <1>5, <1>10, <1>11, <2>2, <3>2
      <4>2. ~(ran[u] > 0) /\ ran[u] \in 0..2
        BY <4>1 DEF Spent, ShapeInv, BirthsInv
      <4>3. ran[u] = 0
        BY <4>2
      <4> QED BY <1>6, <4>1, <4>3
    <3> QED BY <3>1, <3>2
  <2> QED BY <2>1, <2>2 DEF WorkInv
<1>15. AllIdsDiffer' = AllIdsDiffer
  BY <1>6 DEF AllIdsDiffer, births
<1>16. ASSUME NEW t \in Accounted PROVE t \in Accounted' \/ (s \in InHand /\ job[a] > 0 /\ u = t)
  <2>1. PICK b \in Actor : stage[b] \in InHand /\ job[b] > 0 /\ InWork(b) = t /\ t \in Task
    BY <1>16 DEF Accounted
  <2>2. CASE b = a
    BY <2>1, <2>2 DEF u
  <2>3. CASE b # a
    BY <1>9, <2>1, <2>3 DEF Accounted
  <2> QED BY <2>2, <2>3
\* What the new file calls running is in hand.
<1>17. \A i \in DOMAIN copy[a] : copy[a][i].status = "running" => copy[a][i].task \in Excused'
  <2> SUFFICES ASSUME NEW i \in DOMAIN copy[a], copy[a][i].status = "running"
               PROVE  copy[a][i].task \in Excused'
    OBVIOUS
  <2> DEFINE t == copy[a][i].task
  <2>1. t \in Task
    BY <1>8, EntryFacts
  <2>2. t \in Excused \/ (s \in Claims /\ i = job[a])
    BY <1>7 DEF Fits
  <2> SUFFICES ASSUME AllIdsDiffer, ~(stops > 0), t \notin unsettled PROVE t \in Accounted'
    BY <1>6, <1>15, <2>1 DEF Excused
  <2>3. CASE s \in Claims /\ i = job[a]
    <3>1. t = u /\ stage'[a] \in InHand /\ job'[a] > 0 /\ InWork(a)' = u
      BY <1>5, <1>10, <1>11, <2>3
    <3> QED BY <2>1, <3>1 DEF Accounted
  <2>4. CASE t \in Excused
    <3>1. t \in Accounted
      BY <2>4 DEF Excused
    <3>2. ASSUME s \in InHand, job[a] > 0, u = t PROVE FALSE
      <4>1. job[a] \in DOMAIN copy[a] /\ copy[a][job[a]].task = t
        BY <3>2, InWorkFacts DEF u
      <4>2. i = job[a]
        BY <1>7, <4>1 DEF Fits, Distinct
      <4>3. s \in Judged
        BY <1>10, <3>2 DEF InHand, Judged
      <4>4. copy[a][i].status \in Finished
        BY <1>8, <3>2, <4>2, <4>3 DEF JobFits
      <4> QED BY <4>4 DEF Finished
    <3> QED BY <1>16, <3>1, <3>2
  <2> QED BY <2>2, <2>3, <2>4
<1>18. \A i \in DOMAIN copy[a] : copy[a][i].status = "queued" => copy[a][i].task \notin Spent'
  <2> SUFFICES ASSUME NEW i \in DOMAIN copy[a], copy[a][i].status = "queued", copy[a][i].task \in Spent'
               PROVE  FALSE
    OBVIOUS
  <2>1. copy[a][i].task \notin Spent
    BY <1>7 DEF Fits
  <2>2. s \in Claims /\ copy[a][i].task = u
    BY <1>13, <2>1
  <2>3. i = job[a]
    BY <1>7, <1>11, <2>2 DEF Fits, Distinct
  <2> QED BY <1>11, <2>2, <2>3
<1>19. Distinct(copy[a])
  BY <1>7 DEF Fits
<1>20. \A s3, j3 : s3 \notin Claims => Fits(s3, copy[a], j3, Tasks(copy[a]), Spent', Excused')
  BY <1>17, <1>18, <1>19, TaskOf DEF Fits
<1>21. FileFits'
  <2>1. "asleep" \notin Claims
    BY DEF Claims
  <2>2. Fits("asleep", file', 0, Tasks(file'), Spent', Excused')
    BY <1>4, <1>20, <2>1
  <2> QED BY <2>2 DEF FileFits, Fits, Distinct, Tasks
<1>22. ASSUME NEW b \in Holding' \ stale'
       PROVE  Fits(stage'[b], copy'[b], job'[b], Tasks(file'), Spent', Excused')
  <2>1. b = a
    <3>1. b \in Actor
      BY <1>22, Roles DEF Holding, Saving
    <3>2. b # a => b \in Holding
      BY <1>9, <1>22, <3>1 DEF Holding, Saving
    <3> QED BY <1>6, <1>22, <3>2
  <2>2. s2 \notin Saves /\ s2 \notin Claims
    BY <1>1, <1>10, AfterFacts DEF s2
  <2>3. s2 \in {"next", "execute", "report"}
    BY <1>5, <1>22, <2>1, <2>2 DEF Holding, Saving
  <2>4. copy'[a] = copy[a]
    BY <1>5, <2>3 DEF Ended
  <2>5. Fits(stage'[a], copy[a], job'[a], Tasks(copy[a]), Spent', Excused')
    BY <1>5, <1>20, <2>2
  <2> QED BY <1>4, <2>1, <2>4, <2>5
<1>23. HoldersFit'
  <2>1. Tasks(file') = Tasks(file)'
    BY DEF Tasks
  <2> QED BY <1>22, <2>1 DEF HoldersFit, Fits, Distinct
<1>24. added' \subseteq Tasks(file') \cup removed'
  <2>1. added \subseteq Tasks(file) \cup removed /\ Loaded = file
    BY ExactLoaded DEF ExactInv
  <2>2. CASE s \in {"command", "cleanup"}
    BY <1>4, <1>6, <2>1, <2>2
  <2>3. CASE s \notin {"command", "cleanup"}
    <3>1. Tasks(file) \subseteq Tasks(copy[a])
      BY <1>7, <2>3 DEF Fits
    <3> QED BY <1>4, <1>6, <2>1, <2>3, <3>1
  <2> QED BY <2>2, <2>3
<1>25. /\ robbed' = {} /\ file' # Unreadable
       /\ \A t \in Task : ran'[t] <= 1
  BY <1>4, <1>6, <1>8, QueueConstants DEF ExactInv
<1> QED BY <1>14, <1>21, <1>23, <1>24, <1>25 DEF ExactInv, Tasks

\* The overseer is started, told to stop, or ends.
LEMMA StartExact ==
  ASSUME ShapeInv, HonestInv, ExactInv, Start PROVE ExactInv'
<1>1. /\ \A a \in Actor : stage'[a] # stage[a] => stage[a] = "off" /\ stage'[a] \in {"asleep", "idle"}
      /\ UNCHANGED <<copy, job, ran, births, file, robbed, added, removed, stops, unsettled, stale>>
  <2>1. \A a \in Actor : stage'[a] # stage[a] => stage[a] = "off" /\ stage'[a] \in {"asleep", "idle"}
    BY Roles DEF Start, ShapeInv, StagesInv
  <2> QED BY <2>1 DEF Start, disk, history
<1>2. \A a \in Actor : /\ stage'[a] \in Working <=> stage[a] \in Working
                       /\ stage'[a] \in InHand <=> stage[a] \in InHand
                       /\ InWork(a)' = InWork(a)
  BY <1>1 DEF Working, InHand, InWork
<1>3. Spent' = Spent
  <2>1. \A t \in Task : t \in Spent' <=> t \in Spent
    BY <1>1, <1>2 DEF Spent
  <2> QED BY <2>1 DEF Spent
<1>4. Accounted' = Accounted
  <2>1. \A t \in Task : t \in Accounted' <=> t \in Accounted
    BY <1>1, <1>2 DEF Accounted
  <2> QED BY <2>1 DEF Accounted
<1>5. Excused' = Excused
  BY <1>1, <1>4 DEF Excused, AllIdsDiffer, births
<1>6. WorkInv'
  BY <1>1, <1>2 DEF ExactInv, WorkInv
<1>7. \A a \in Holding' : a \in Holding /\ stage'[a] = stage[a]
  BY <1>1, Roles DEF Holding, Saving, Saves
<1>8. FileFits'
  BY <1>1, <1>3, <1>5 DEF ExactInv, FileFits, Fits, Distinct, Tasks
<1>9. ASSUME NEW a \in Holding' \ stale'
      PROVE  Fits(stage'[a], copy'[a], job'[a], Tasks(file)', Spent', Excused')
  <2>1. Fits(stage[a], copy[a], job[a], Tasks(file), Spent, Excused)
    BY <1>1, <1>7, <1>9 DEF ExactInv, HoldersFit
  <2>2. Tasks(file)' = Tasks(file) /\ stage'[a] = stage[a] /\ copy'[a] = copy[a] /\ job'[a] = job[a]
    BY <1>1, <1>7, <1>9 DEF Tasks
  <2> QED BY <1>3, <1>5, <2>1, <2>2
<1>10. HoldersFit'
  BY <1>9 DEF HoldersFit, Fits, Distinct
<1> QED BY <1>1, <1>6, <1>8, <1>10 DEF ExactInv, Tasks

LEMMA DownExact ==
  ASSUME ShapeInv, HonestInv, ExactInv, Down PROVE ExactInv'
<1>1. /\ \A c \in Cli : stage'[c] = stage[c] /\ copy'[c] = copy[c]
      /\ \A a \in Actor \ Cli : stage'[a] = "off"
      /\ \A a \in Actor : job'[a] = 0 /\ stops' > 0
  BY DownShape
<1>2. UNCHANGED <<file, births, ran, added, removed>> /\ stale' = stale \cap Cli /\ robbed' = robbed \cap Cli
  BY DEF Down
<1>3. \A c \in Cli : stage[c] \in CliStages /\ job[c] = 0
  <2>1. \A c \in Cli : stage[c] \in CliStages
    BY Roles DEF ShapeInv, StagesInv, StagesOf
  <2> QED BY <2>1, Roles DEF ShapeInv, HandsInv, JobFits, CliStages, Claims, InHand, Working
<1>4. \A a \in Actor : stage'[a] \notin Working
  BY <1>1, <1>3, Roles DEF Working, CliStages
<1>5. WorkInv'
  BY <1>4 DEF WorkInv
<1>6. Spent' \subseteq Spent
  BY <1>2, <1>4 DEF Spent
<1>7. Excused' = Task
  BY <1>1, Roles DEF Excused
<1>8. Excused \subseteq Excused'
  BY <1>7 DEF Excused
<1>9. Tasks(file)' = Tasks(file)
  BY <1>2 DEF Tasks
<1>10. FileFits'
  <2>1. Fits("asleep", file, 0, Tasks(file), Spent', Excused')
    BY <1>6, <1>8, FitsKept DEF ExactInv, FileFits
  <2>2. Fits("asleep", file', 0, Tasks(file)', Spent', Excused')
    BY <1>2, <1>9, <2>1
  <2> QED BY <2>2 DEF FileFits, Fits, Distinct
<1>11. ASSUME NEW a \in Holding' \ stale'
       PROVE  Fits(stage'[a], copy'[a], job'[a], Tasks(file)', Spent', Excused')
  <2>1. a \in Cli
    BY <1>1, <1>11, Roles DEF Holding, Saving, Saves
  <2>2. a \in Holding /\ a \notin stale /\ stage'[a] = stage[a] /\ copy'[a] = copy[a] /\ job'[a] = job[a]
    BY <1>1, <1>2, <1>3, <1>11, <2>1, Roles DEF Holding, Saving
  <2>3. Fits(stage[a], copy[a], job[a], Tasks(file), Spent, Excused)
    BY <2>2 DEF ExactInv, HoldersFit
  <2>4. Fits(stage[a], copy[a], job[a], Tasks(file), Spent', Excused')
    BY <1>6, <1>8, <2>3, FitsKept
  <2> QED BY <1>9, <2>2, <2>4
<1>12. HoldersFit'
  BY <1>11 DEF HoldersFit, Fits, Distinct
<1> QED BY <1>2, <1>5, <1>10, <1>12 DEF ExactInv, Tasks

LEMMA SameExact ==
  ASSUME ExactInv, UNCHANGED <<file, hands, births, ran, added, removed, stops, unsettled, stale, robbed>>
  PROVE  ExactInv'
<1>1. UNCHANGED <<copy, stage, job, made, ids>>
  BY DEF hands, births
<1>2. Spent' = Spent
  BY <1>1 DEF Spent, InWork
<1>3. Excused' = Excused
  BY <1>1 DEF Excused, Accounted, AllIdsDiffer, InWork
<1>4. Tasks(file)' = Tasks(file) /\ Holding' = Holding
  BY <1>1 DEF Tasks, Holding, Saving
<1>5. WorkInv'
  BY <1>1 DEF ExactInv, WorkInv, InWork
<1>6. FileFits'
  BY <1>2, <1>3 DEF ExactInv, FileFits, Fits, Distinct, Tasks
<1>7. ASSUME NEW a \in Holding' \ stale'
      PROVE  Fits(stage'[a], copy'[a], job'[a], Tasks(file)', Spent', Excused')
  BY <1>1, <1>2, <1>3, <1>4, <1>7 DEF ExactInv, HoldersFit
<1>8. HoldersFit'
  BY <1>7 DEF HoldersFit, Fits, Distinct
<1> QED BY <1>5, <1>6, <1>8 DEF ExactInv, Tasks

LEMMA ExactInvStep ==
  ASSUME ShapeInv, HonestInv, FiredInv, ~disturbed => ExactInv, [QueueNext]_queueVars
  PROVE  ~disturbed' => ExactInv'
<1> SUFFICES ASSUME ~disturbed' PROVE ExactInv'
  OBVIOUS
<1>1. \A a \in Actor : EndSave(a) => ~disturbed
  BY DEF EndSave
<1>2. ~disturbed
  BY <1>1, NextCases
     DEF CleanUp, TickFails, Fire, MarkFired, Dispatch, TakeNext, QueueDone, Execute, Report, Claim,
         WorkerExecute, WorkerRaises, Settle, AddTask, RemoveTask, ClearQueue, CleanUpByHand, Start, Stop, Down,
         queueVars, history
<1>3. ExactInv /\ BirthsInv /\ Tick \in Actor
  BY <1>2, Roles DEF ShapeInv
<1>4. /\ Loaded = file /\ file \in Seq(Entry)
      /\ Fits("asleep", Loaded, 0, Tasks(file), Spent, Excused)
  BY <1>3, ExactLoaded
<1>5. CASE CleanUp
  <2>1. PICK old \in SUBSET DOMAIN Loaded : Hold(Tick, Thinned(Loaded, old))
    BY <1>5 DEF CleanUp
  <2>2. copy'[Tick] = Thinned(Loaded, old)
    BY <1>3, <2>1 DEF Hold, ShapeInv, HandsInv
  <2>3. Fits("cleanup", Thinned(Loaded, old), 0, Tasks(file), Spent, Excused)
    BY <1>4, SublistFits DEF Thinned
  <2>4. /\ Remembered /\ OnlyActs(Tick) /\ stage[Tick] = "asleep" /\ stage'[Tick] = "cleanup"
        /\ UNCHANGED <<ran, file, robbed, added, removed, stops, unsettled>> /\ stale \ {Tick} \subseteq stale'
    BY <1>3, <1>5, CleanUpShape, SameRemembered DEF CleanUp, disk, lives, Fresh
  <2>5. Fits(stage'[Tick], copy'[Tick], job'[Tick], Tasks(file), Spent, Excused)
    <3>1. "cleanup" \notin Claims
      BY DEF Claims
    <3> QED BY <2>2, <2>3, <2>4, <3>1 DEF Fits
  <2> QED BY <1>3, <2>4, <2>5, QuietExact DEF InHand, Working
<1>6. CASE Fire
  <2>1. /\ OnlyActs(Tick) /\ stage'[Tick] = "fire" /\ job'[Tick] = 0 /\ NewTask(Tick)
        /\ UNCHANGED <<ran, file, robbed, added, removed, stops, unsettled>> /\ stale \ {Tick} \subseteq stale'
        /\ fired' = fired \cup {made + 1} /\ stage[Tick] \in {"schedule", "asleep"}
    BY <1>6, FireShape DEF Fire, disk, lives, Ticks, NewTask, Fresh
  <2>2. Remembered /\ Fits("fire", copy'[Tick], 0, Tasks(file), Spent, Excused)
    BY <1>3, <2>1, NewTaskFits
  <2>3. Fits(stage'[Tick], copy'[Tick], job'[Tick], Tasks(file), Spent, Excused)
    BY <2>1, <2>2
  <2> QED BY <1>3, <2>1, <2>2, <2>3, QuietExact DEF InHand, Working
<1>7. CASE MarkFired
  <2>1. /\ Remembered /\ OnlyActs(Tick) /\ stage[Tick] = "mark fired" /\ stage'[Tick] \in {"dispatch", "asleep"}
        /\ UNCHANGED <<ran, file, robbed, added, removed, stops, unsettled, stale>>
    BY <1>3, <1>7, MarkFiredShape, SameRemembered DEF MarkFired, disk, lives, history
  <2>2. Tick \notin Holding'
    BY <2>1 DEF Holding, Saving, Saves
  <2> QED BY <1>3, <2>1, <2>2, QuietExact DEF InHand, Working
<1>8. CASE Dispatch
  <2>1. /\ Remembered /\ OnlyActs(Tick) /\ stage[Tick] \in {"dispatch", "schedule", "asleep"}
        /\ stage'[Tick] \in {"next", "asleep"} /\ copy'[Tick] = Loaded /\ job'[Tick] = 0
        /\ UNCHANGED <<ran, file, robbed, added, removed, stops, unsettled>> /\ stale \ {Tick} \subseteq stale'
    BY <1>3, <1>8, DispatchShape, SameRemembered DEF Dispatch, disk, lives, Fresh, Ticks
  <2>2. Fits(stage'[Tick], copy'[Tick], job'[Tick], Tasks(file), Spent, Excused)
    <3>1. "asleep" \notin {"command", "cleanup", "fire"} \cup Claims /\ stage'[Tick] \notin Claims
      BY <2>1 DEF Claims
    <3>2. Fits(stage'[Tick], Loaded, 0, Tasks(file), Spent, Excused)
      BY <1>4, <3>1, FitsRelabelled
    <3> QED BY <2>1, <3>2
  <2> QED BY <1>3, <2>1, <2>2, QuietExact DEF InHand, Working
<1>9. CASE TakeNext
  <2>1. /\ Remembered /\ OnlyActs(Tick) /\ stage[Tick] = "next" /\ stage'[Tick] = "claim"
        /\ job'[Tick] = Min(todo) /\ copy'[Tick] = WithStatus(copy[Tick], Min(todo), "running")
        /\ Min(todo) \in Queued(copy[Tick]) /\ copy[Tick] \in Seq(Entry)
        /\ UNCHANGED <<ran, file, robbed, added, removed, stops, unsettled, stale>>
    BY <1>3, <1>9, TakeNextShape, SameRemembered DEF TakeNext, disk, lives, history, ShapeInv, TodoInv, HandsInv
  <2>2. ASSUME Tick \notin stale PROVE Fits(stage'[Tick], copy'[Tick], job'[Tick], Tasks(file), Spent, Excused)
    <3>1. Fits("next", copy[Tick], job[Tick], Tasks(file), Spent, Excused)
      BY <1>3, <2>1, <2>2 DEF ExactInv, HoldersFit, Holding
    <3>2. "claim" \in Claims
      BY DEF Claims
    <3>3. Fits("claim", WithStatus(copy[Tick], Min(todo), "running"), Min(todo), Tasks(file), Spent, Excused)
      BY <2>1, <3>1, <3>2, ClaimFits
    <3> QED BY <2>1, <3>3
  <2> QED BY <1>3, <2>1, <2>2, QuietExact DEF InHand, Working
<1>10. CASE QueueDone
  <2>1. /\ Remembered /\ OnlyActs(Tick) /\ stage[Tick] = "next" /\ stage'[Tick] = "asleep"
        /\ UNCHANGED <<ran, file, robbed, added, removed, stops, unsettled, stale>>
    BY <1>3, <1>10, QueueDoneShape, SameRemembered DEF QueueDone, disk, lives, history
  <2>2. Tick \notin Holding'
    BY <2>1 DEF Holding, Saving, Saves
  <2> QED BY <1>3, <2>1, <2>2, QuietExact DEF InHand, Working
<1>11. CASE Execute
  <2>1. /\ OnlyActs(Tick) /\ stage[Tick] = "execute" /\ stage'[Tick] = "settle" /\ job'[Tick] = job[Tick]
        /\ Ran(InWork(Tick)) /\ UNCHANGED <<births, file, robbed, added, removed, stops, unsettled, stale>>
    BY <1>11, ExecuteShape DEF Execute, disk, lives
  <2>2. PICK status \in Finished : copy'[Tick] = WithStatus(copy[Tick], job[Tick], status)
    BY <1>11, ExecuteShape DEF Finished
  <2> QED BY <1>3, <2>1, <2>2, RunExact DEF Working
<1>12. CASE Report
  <2>1. /\ Remembered /\ OnlyActs(Tick) /\ stage[Tick] = "report" /\ stage'[Tick] = "next"
        /\ copy'[Tick] = copy[Tick] /\ job'[Tick] = job[Tick]
        /\ UNCHANGED <<ran, file, robbed, added, removed, stops, unsettled, stale>>
    BY <1>3, <1>12, ReportShape, ReportsJudged, SameRemembered DEF Report, disk, lives, history
  <2>2. ASSUME Tick \notin stale PROVE Fits(stage'[Tick], copy'[Tick], job'[Tick], Tasks(file), Spent, Excused)
    <3>1. Fits("report", copy[Tick], job[Tick], Tasks(file), Spent, Excused)
      BY <1>3, <2>1, <2>2 DEF ExactInv, HoldersFit, Holding
    <3>2. "report" \notin {"command", "cleanup", "fire"} \cup Claims /\ "next" \notin Claims
      BY DEF Claims
    <3>3. Fits("next", copy[Tick], job[Tick], Tasks(file), Spent, Excused)
      BY <3>1, <3>2, FitsRelabelled
    <3> QED BY <2>1, <3>3
  <2> QED BY <1>3, <2>1, <2>2, QuietExact DEF InHand, Working
<1>13. ASSUME NEW w \in Pool, Claim(w) PROVE ExactInv'
  <2>1. /\ Remembered /\ OnlyActs(w) /\ stage[w] = "idle" /\ stage'[w] = "worker claim" /\ w \in Actor
        /\ job'[w] = Min(Queued(Loaded)) /\ copy'[w] = WithStatus(Loaded, Min(Queued(Loaded)), "running")
        /\ Min(Queued(Loaded)) \in Queued(Loaded)
        /\ UNCHANGED <<ran, file, robbed, added, removed, stops, unsettled>> /\ stale \ {w} \subseteq stale'
    BY <1>3, <1>13, ClaimShape, Roles, SameRemembered DEF Claim, disk, lives, Fresh
  <2>2. "worker claim" \in Claims
    BY DEF Claims
  <2>3. Fits("worker claim", copy'[w], job'[w], Tasks(file), Spent, Excused)
    BY <1>4, <2>1, <2>2, ClaimFits
  <2>4. Fits(stage'[w], copy'[w], job'[w], Tasks(file), Spent, Excused)
    BY <2>1, <2>3
  <2> QED BY <1>3, <2>1, <2>4, QuietExact DEF InHand, Working
<1>14. ASSUME NEW w \in Pool, WorkerExecute(w) PROVE ExactInv'
  <2>1. /\ OnlyActs(w) /\ stage[w] = "worker execute" /\ stage'[w] = "worker executed" /\ job'[w] = job[w]
        /\ Ran(InWork(w)) /\ UNCHANGED <<births, file, robbed, added, removed, stops, unsettled, stale>>
        /\ w \in Actor /\ w # Tick
    BY <1>14, Roles, WorkerExecuteShape DEF WorkerExecute, disk, lives
  <2>2. PICK status \in Finished : copy'[w] = WithStatus(copy[w], job[w], status)
    BY <1>14, WorkerExecuteShape DEF Finished
  <2> QED BY <1>3, <2>1, <2>2, RunExact DEF Working
<1>15. ASSUME NEW c \in Cli, AddTask(c) \/ RemoveTask(c) \/ ClearQueue(c) \/ CleanUpByHand(c)
       PROVE  ExactInv'
  <2>1. /\ OnlyActs(c) /\ stage[c] = "idle" /\ stage'[c] = "command" /\ c \in Actor /\ job'[c] = job[c]
        /\ UNCHANGED <<ran, file, robbed, added, removed, stops, unsettled>> /\ stale \ {c} \subseteq stale'
    BY <1>15, CliStepShape, Roles
       DEF CliStep, AddTask, RemoveTask, ClearQueue, CleanUpByHand, disk, lives, NewTask, Fresh, Enter, ShapeInv, StagesInv
  <2>2. Remembered /\ Fits("command", copy'[c], 0, Tasks(file), Spent, Excused)
    <3>1. CASE AddTask(c)
      <4>1. NewTask(c) /\ ran' = ran /\ fired' = fired
        BY <3>1 DEF AddTask
      <4> QED BY <1>3, <2>1, <4>1, NewTaskFits
    <3>2. CASE RemoveTask(c)
      <4>1. PICK t \in 1..made :
              Hold(c, Sublist(Loaded, {i \in DOMAIN Loaded : ids[Loaded[i].task] # ids[t]}))
        BY <3>2 DEF RemoveTask
      <4>2. copy'[c] = Sublist(Loaded, {i \in DOMAIN Loaded : ids[Loaded[i].task] # ids[t]})
        BY <2>1, <4>1 DEF Hold, ShapeInv, HandsInv
      <4>3. Fits("command", Sublist(Loaded, {i \in DOMAIN Loaded : ids[Loaded[i].task] # ids[t]}), 0,
                 Tasks(file), Spent, Excused)
        BY <1>4, SublistFits
      <4>4. Remembered
        BY <1>3, <3>2, SameRemembered DEF RemoveTask
      <4> QED BY <4>2, <4>3, <4>4
    <3>3. CASE ClearQueue(c)
      <4>1. copy'[c] = <<>>
        BY <2>1, <3>3 DEF ClearQueue, Hold, ShapeInv, HandsInv
      <4>2. Remembered
        BY <1>3, <3>3, SameRemembered DEF ClearQueue
      <4> QED BY <4>1, <4>2, EmptyFits
    <3>4. CASE CleanUpByHand(c)
      <4>1. PICK old \in SUBSET DOMAIN Loaded : Hold(c, Thinned(Loaded, old))
        BY <3>4 DEF CleanUpByHand
      <4>2. copy'[c] = Thinned(Loaded, old)
        BY <2>1, <4>1 DEF Hold, ShapeInv, HandsInv
      <4>3. Fits("command", Thinned(Loaded, old), 0, Tasks(file), Spent, Excused)
        BY <1>4, SublistFits DEF Thinned
      <4>4. Remembered
        BY <1>3, <3>4, SameRemembered DEF CleanUpByHand
      <4> QED BY <4>2, <4>3, <4>4
    <3> QED BY <1>15, <3>1, <3>2, <3>3, <3>4
  <2>3. Fits(stage'[c], copy'[c], job'[c], Tasks(file), Spent, Excused)
    <3>1. "command" \notin Claims
      BY DEF Claims
    <3> QED BY <2>1, <2>2, <3>1 DEF Fits
  <2> QED BY <1>3, <2>1, <2>2, <2>3, QuietExact DEF InHand, Working
<1>16. CASE Stop
  BY <1>3, <1>16, SameExact DEF Stop, disk, history
<1>18. CASE TickFails
  <2>1. /\ Remembered /\ OnlyActs(Tick) /\ stage[Tick] = "schedule" /\ stage'[Tick] = "asleep"
        /\ UNCHANGED <<ran, file, robbed, added, removed, stops, unsettled, stale>>
    BY <1>3, <1>18, TickFailsShape, SameRemembered DEF TickFails, disk, lives, history
  <2>2. Tick \notin Holding'
    BY <2>1 DEF Holding, Saving, Saves
  <2> QED BY <1>3, <2>1, <2>2, QuietExact DEF InHand, Working
<1>17. CASE UNCHANGED queueVars
  BY <1>3, <1>17, SameExact DEF queueVars, disk, history, lives
<1> QED
  BY <1>2, <1>3, <1>5, <1>6, <1>7, <1>8, <1>9, <1>10, <1>11, <1>12, <1>13, <1>14, <1>15, <1>16, <1>17, <1>18,
     RaiseExact, SettleExact, SaveExact, StartExact, DownExact, NextCases

-------------------------------------------------------------------------------
QueueInv == ShapeInv /\ HonestInv /\ FiredInv /\ (~disturbed => ExactInv)

LEMMA QueueInvInit ==
  ASSUME QueueInit PROVE QueueInv
<1>1. copy = [a \in Actor |-> <<>>] /\ job = [a \in Actor |-> 0] /\ file = <<>> /\ todo = {}
  BY DEF QueueInit
<1>2. stage = [a \in Actor |-> IF a \in Cli THEN "idle" ELSE "off"]
  BY DEF QueueInit
<1>3. /\ made = 0 /\ ids = <<>> /\ fired = {} /\ due = "scheduled" /\ unmarked = FALSE
      /\ ran = [t \in Task |-> 0] /\ added = {} /\ removed = {} /\ stale = {} /\ disturbed = FALSE
      /\ stopping = FALSE /\ stops = 0 /\ robbed = {}
  BY DEF QueueInit
<1>4. file \in Seq(Entry) /\ file # Unreadable /\ DOMAIN file = {}
  BY <1>1, NoEntries, QueueConstants
<1>5. HandsInv
  BY <1>1, <1>2, NoEntries DEF HandsInv, JobFits, Claims, InHand, Working, Judged
<1>6. StagesInv
  BY <1>2, Roles DEF StagesInv, StagesOf, Stage, TickStages, PoolStages, CliStages
<1>7. TodoInv
  BY <1>1, <1>2, Roles DEF TodoInv, Passing
<1>8. BirthsInv
  <2>1. ids \in Seq(Nat \X Nat) /\ Len(ids) = 0
    BY <1>3
  <2> QED BY <1>3, <2>1, QueueConstants DEF BirthsInv
<1>9. RestInv
  <2>1. stops \in Nat /\ robbed \subseteq Saving /\ stale \subseteq Actor
    BY <1>3
  <2> QED BY <1>3, <1>4, <2>1 DEF RestInv
<1>10. HonestInv
  BY <1>1, <1>4, NoEntries DEF HonestInv, Honest, Loaded
<1>11. FiredInv
  BY <1>2, <1>3, Roles DEF FiredInv
<1>12. ExactInv
  <2>1. \A a \in Actor : stage[a] \notin Working
    BY <1>2 DEF Working
  <2>2. WorkInv
    BY <2>1 DEF WorkInv
  <2>3. Tasks(file) = {}
    BY <1>4 DEF Tasks
  <2>4. FileFits
    BY <1>4, <2>3 DEF FileFits, Fits, Distinct, Claims
  <2>5. Holding = {}
    BY <1>2, Roles DEF Holding, Saving, Saves
  <2>6. HoldersFit
    BY <2>5 DEF HoldersFit
  <2>7. \A t \in Task : ran[t] <= 1
    BY <1>3
  <2> QED BY <1>3, <1>4, <2>2, <2>4, <2>6, <2>7 DEF ExactInv
<1> QED BY <1>5, <1>6, <1>7, <1>8, <1>9, <1>10, <1>11, <1>12 DEF QueueInv, ShapeInv

LEMMA QueueInvStep ==
  ASSUME QueueInv, [QueueNext]_queueVars PROVE QueueInv'
<1>1. ShapeInv /\ HonestInv /\ FiredInv /\ (~disturbed => ExactInv)
  BY DEF QueueInv
<1>2. ShapeInv'
  BY <1>1, ShapeInvStep
<1>3. HonestInv'
  BY <1>1, HonestInvStep, ReportsJudged
<1>4. FiredInv'
  BY <1>1, FiredInvStep
<1>5. ~disturbed' => ExactInv'
  BY <1>1, ExactInvStep
<1> QED BY <1>2, <1>3, <1>4, <1>5 DEF QueueInv

LEMMA QueueInvHolds == QueueSpec => []QueueInv
<1>1. QueueInit => QueueInv
  BY QueueInvInit
<1>2. QueueInv /\ [QueueNext]_queueVars => QueueInv'
  BY QueueInvStep
<1> QED BY <1>1, <1>2, PTL DEF QueueSpec

\* The type of the overseer's queue.
THEOREM QueueTyped == QueueSpec => []QueueTypeOK
<1>1. QueueInv => QueueTypeOK
  <2> SUFFICES ASSUME QueueInv PROVE QueueTypeOK
    OBVIOUS
  <2>1. HandsInv /\ StagesInv /\ TodoInv /\ BirthsInv /\ RestInv
    BY DEF QueueInv, ShapeInv
  <2>2. \A a \in Actor : job[a] \in {0} \cup DOMAIN copy[a]
    BY <2>1 DEF HandsInv, JobFits
  <2>3. todo \subseteq DOMAIN copy[Tick]
    BY <2>1 DEF TodoInv, Queued, Positions
  <2> QED BY <2>1, <2>2, <2>3 DEF QueueTypeOK, HandsInv, StagesInv, BirthsInv, RestInv
<1> QED BY <1>1, QueueInvHolds, PTL

\* _process_queue, WorkerPool._worker_loop, queue_add and the rest: what the file says
\* of finished tasks is true of a task of the id; a queue whose saves never overlapped
\* or were outdated is exact; the scheduler's task is fired and reported truly.
THEOREM QueueAlwaysTellsTrue == QueueSpec => []QueueTellsTrue
<1>1. QueueInv => QueueTellsTrue
  <2> SUFFICES ASSUME QueueInv PROVE QueueTellsTrue
    OBVIOUS
  <2>1. FinishedWasExecuted
    BY DEF QueueInv, HonestInv, Honest, Executed, FinishedWasExecuted
  <2>2. UndisturbedQueueIsExact
    <3> SUFFICES ASSUME ~disturbed PROVE
          /\ added \subseteq Tasks(Loaded) \cup removed
          /\ \A t \in Task : ran[t] <= 1
          /\ AllIdsDiffer =>
               \A i \in Positions(Loaded, "running") :
                 \/ stops > 0 \/ Loaded[i].task \in unsettled
                 \/ \E a \in Actor \ Cli : job[a] > 0 /\ InWork(a) = Loaded[i].task
      BY DEF UndisturbedQueueIsExact, AllIdsDiffer
    <3>1. ExactInv /\ ShapeInv /\ Loaded = file
      BY ExactLoaded DEF QueueInv
    <3>2. ASSUME AllIdsDiffer, NEW i \in Positions(Loaded, "running"), ~(stops > 0),
                 Loaded[i].task \notin unsettled
          PROVE  \E a \in Actor \ Cli : job[a] > 0 /\ InWork(a) = Loaded[i].task
      <4>1. i \in DOMAIN file /\ file[i].status = "running"
        BY <3>1, <3>2 DEF Positions
      <4>2. file[i].task \in Excused
        BY <3>1, <4>1 DEF ExactInv, FileFits, Fits, Claims
      <4>3. file[i].task \in Accounted
        BY <3>1, <3>2, <4>2 DEF Excused
      <4>4. PICK a \in Actor : stage[a] \in InHand /\ job[a] > 0 /\ InWork(a) = file[i].task
        BY <4>3 DEF Accounted
      <4>5. a \notin Cli
        BY <3>1, <4>4, Roles DEF ShapeInv, StagesInv, StagesOf, CliStages, InHand, Working
      <4> QED BY <3>1, <4>4, <4>5
    <3> QED BY <3>1, <3>2 DEF ExactInv
  <2>3. FiredOnceAndReportedTruly
    <3>1. FiredInv
      BY DEF QueueInv
    <3>2. ASSUME Cardinality(fired) > 1 PROVE unmarked
      <4> SUFFICES ASSUME ~unmarked PROVE FALSE
        OBVIOUS
      <4>1. \A t, u \in fired : t = u
        BY <3>1 DEF FiredInv
      <4>2. fired = {} \/ \E t \in fired : fired = {t}
        BY <4>1
      <4>3. Cardinality(fired) = 0 \/ Cardinality(fired) = 1
        BY <4>2, FS_EmptySet, FS_Singleton
      <4> QED BY <3>2, <4>3
    <3> QED BY <3>1, <3>2 DEF FiredInv, FiredOnceAndReportedTruly
  <2> QED BY <2>1, <2>2, <2>3 DEF QueueTellsTrue
<1> QED BY <1>1, QueueInvHolds, PTL
===============================================================================
