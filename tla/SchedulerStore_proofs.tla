------------------------ MODULE SchedulerStore_proofs -------------------------
(***************************************************************************)
(* Proofs about the scheduler's store, for any number of processes, tasks  *)
(* and keys, and of crashes between any two steps, as long as nobody       *)
(* maintains it. What a recovery rebuilds is a fold over the log, about    *)
(* which nothing is proved.                                                *)
(***************************************************************************)
EXTENDS SchedulerStore, TLAPS

\* What is left of a write at each of its steps.
ToAppend == <<"append", "count", "bump", "save">>
ToCount == <<"count", "bump", "save">>
ToBump == <<"bump", "save">>
ToSave == <<"save">>

Ahead == {WriteSteps, ToAppend}                \* the event is not in the log
Behind == {ToCount, ToBump, ToSave}            \* it is
Holding == {ToAppend} \cup Behind              \* the lock is held

LogIsSeq == log \in Seq({log[i] : i \in DOMAIN log})
InLog(e) == \E i \in DOMAIN log : log[i] = e
Created(id) == \E i \in DOMAIN log : log[i].id = id /\ log[i].type = "create"
Recorded(id, version) ==
  version = 0 \/ \E i \in DOMAIN log : log[i].id = id /\ log[i].version = version

Numbered(t) == \A id \in DOMAIN t : "version" \in DOMAIN t[id] /\ t[id].version \in Nat

\* A new task has no version of its own.
Sound(e) == e.version \in Nat /\ (e.type = "create" => "version" \notin DOMAIN e.data)

\* A task of a copy was created, and its version is in the log or about to be.
Explained(p, id) ==
  /\ Created(id)
  /\ \/ Recorded(id, tasks[p][id].version)
     \/ todo[p] \in Ahead /\ event[p].id = id /\ event[p].version = tasks[p][id].version

ProcessInv(p) ==
  /\ session[p] \in {"closed", "open"}
  /\ todo[p] \in {<<>>} \cup Ahead \cup Behind
  /\ lock = p <=> todo[p] \in Holding
  /\ Numbered(tasks[p])
  /\ \A id \in DOMAIN tasks[p] : Explained(p, id)
  /\ todo[p] # <<>> => Sound(event[p])
  /\ todo[p] \in Behind => InLog(event[p])
  /\ todo[p] = ToBump => seen[p] = generation

SnapshotInv ==
  /\ Numbered(snapshot)
  /\ \A id \in DOMAIN snapshot : Created(id) /\ Recorded(id, snapshot[id].version)

\* While an event is logged and not yet counted, the counter is one behind.
Uncounted == IF \E p \in Proc : todo[p] \in {ToCount, ToBump} THEN 1 ELSE 0

CountInv ==
  /\ generation \in Nat /\ crashes \in Nat
  /\ generation + Uncounted <= Len(log)
  /\ Len(log) <= generation + Uncounted + crashes

Shape ==
  /\ LogIsSeq /\ lock \in Proc \cup {NoProc}
  /\ DOMAIN session = Proc /\ DOMAIN tasks = Proc /\ DOMAIN event = Proc
  /\ DOMAIN todo = Proc /\ DOMAIN seen = Proc

OrderInv == Shape /\ SnapshotInv /\ CountInv /\ \A p \in Proc : ProcessInv(p)

StoreInv == maintained \in Nat /\ (maintained = 0 => OrderInv)

-------------------------------------------------------------------------------
\* Where a write is, and what comes next.
LEMMA Places ==
  /\ WriteSteps # <<>> /\ ToAppend # <<>> /\ ToCount # <<>> /\ ToBump # <<>> /\ ToSave # <<>>
  /\ WriteSteps # ToAppend /\ WriteSteps # ToCount /\ WriteSteps # ToBump /\ WriteSteps # ToSave
  /\ ToAppend # ToCount /\ ToAppend # ToBump /\ ToAppend # ToSave
  /\ ToCount # ToBump /\ ToCount # ToSave /\ ToBump # ToSave
BY DEF WriteSteps, ToAppend, ToCount, ToBump, ToSave

LEMMA Heads ==
  /\ Head(WriteSteps) = "lock" /\ Head(ToAppend) = "append" /\ Head(ToCount) = "count"
  /\ Head(ToBump) = "bump" /\ Head(ToSave) = "save"
BY DEF WriteSteps, ToAppend, ToCount, ToBump, ToSave

LEMMA Tails ==
  /\ Tail(WriteSteps) = ToAppend /\ Tail(ToAppend) = ToCount /\ Tail(ToCount) = ToBump
  /\ Tail(ToBump) = ToSave /\ Tail(ToSave) = <<>>
BY DEF WriteSteps, ToAppend, ToCount, ToBump, ToSave

LEMMA StepTaken ==
  ASSUME NEW p \in Proc, todo[p] \in {<<>>} \cup Ahead \cup Behind, NEW step, At(p, step)
  PROVE  /\ step = "lock" => todo[p] = WriteSteps
         /\ step = "append" => todo[p] = ToAppend
         /\ step = "count" => todo[p] = ToCount
         /\ step = "bump" => todo[p] = ToBump
         /\ step = "save" => todo[p] = ToSave
         /\ step # "settle"
BY Heads DEF At, Ahead, Behind

LEMMA LogGrows ==
  ASSUME LogIsSeq, NEW e, log' = Append(log, e)
  PROVE  /\ LogIsSeq' /\ Len(log') = Len(log) + 1
         /\ \A i \in DOMAIN log : i \in DOMAIN log' /\ log'[i] = log[i]
         /\ \E i \in DOMAIN log' : log'[i] = e
<1> DEFINE S == {log[i] : i \in DOMAIN log} \cup {e}
<1>1. log \in Seq(S)
  BY DEF LogIsSeq
<1>2. log' \in Seq(S) /\ Len(log') = Len(log) + 1
  BY <1>1
<1>3. \A i \in DOMAIN log : i \in DOMAIN log' /\ log'[i] = log[i]
  BY <1>1
<1>4. Len(log) + 1 \in DOMAIN log' /\ log'[Len(log) + 1] = e
  BY <1>1
<1>5. log' \in Seq({log'[i] : i \in DOMAIN log'})
  BY <1>2
<1> QED BY <1>2, <1>3, <1>4, <1>5 DEF LogIsSeq

\* What the log once tells it tells for ever.
LEMMA LogTells ==
  ASSUME LogIsSeq, log' = log \/ \E e : log' = Append(log, e)
  PROVE  /\ LogIsSeq' /\ \A e : InLog(e) => InLog(e)'
         /\ \A id : Created(id) => Created(id)'
         /\ \A id, version : Recorded(id, version) => Recorded(id, version)'
<1>1. LogIsSeq' /\ \A i \in DOMAIN log : i \in DOMAIN log' /\ log'[i] = log[i]
  BY LogGrows DEF LogIsSeq
<1>2. \A e : InLog(e) => InLog(e)'
  BY <1>1 DEF InLog
<1>3. \A id : Created(id) => Created(id)'
  BY <1>1 DEF Created
<1>4. \A id, version : Recorded(id, version) => Recorded(id, version)'
  BY <1>1 DEF Recorded
<1> QED BY <1>1, <1>2, <1>3, <1>4

\* A process that takes no step keeps its invariant.
LEMMA OthersStay ==
  ASSUME LogIsSeq, log' = log \/ \E e : log' = Append(log, e),
         NEW q \in Proc, ProcessInv(q),
         session'[q] = session[q], tasks'[q] = tasks[q], event'[q] = event[q],
         todo'[q] = todo[q], seen'[q] = seen[q],
         lock' = q <=> lock = q, todo[q] = ToBump => generation' = generation
  PROVE  ProcessInv(q)'
<1>1. \A id \in DOMAIN tasks'[q] : Explained(q, id)'
  BY LogTells DEF ProcessInv, Explained
<1>2. todo'[q] \in Behind => InLog(event[q])'
  BY LogTells DEF ProcessInv
<1> QED BY <1>1, <1>2 DEF ProcessInv

-------------------------------------------------------------------------------
\* What the operations make of the version of a task.
LEMMA MergeVersion ==
  ASSUME NEW task, NEW data
  PROVE  /\ "version" \in DOMAIN Merge(task, data)
         /\ "version" \notin DOMAIN data => Merge(task, data).version = task.version
BY DEF Merge

LEMMA ChangedVersion ==
  ASSUME NEW task, "version" \in DOMAIN task, NEW e,
         e.type \in {"update", "pause", "resume", "cancel", "archive"}
  PROVE  "version" \in DOMAIN Changed(task, e) /\ Changed(task, e).version = e.version
<1>1. CASE e.type = "update"
  BY <1>1, MergeVersion DEF Changed
<1>2. CASE e.type = "pause"
  BY <1>2 DEF Changed
<1>3. CASE e.type = "resume"
  BY <1>3 DEF Changed
<1>4. CASE e.type = "cancel"
  BY <1>4 DEF Changed
<1>5. CASE e.type = "archive"
  BY <1>5 DEF Changed
<1> QED BY <1>1, <1>2, <1>3, <1>4, <1>5

\* A version of the tasks after _write is an old one, the event's or none.
LEMMA WrittenVersion ==
  ASSUME NEW t, Numbered(t), NEW e, Sound(e)
  PROVE  /\ Numbered(Written(t, e))
         /\ \A id \in DOMAIN Written(t, e) :
              \/ id \in DOMAIN t /\ Written(t, e)[id].version = t[id].version
              \/ id \in DOMAIN t /\ id = e.id /\ Written(t, e)[id].version = e.version
              \/ id = e.id /\ e.type = "create" /\ Written(t, e)[id].version = 0
<1>1. CASE e.type = "create"
  <2> DEFINE new == Merge(Blank, e.data)
  <2>1. "version" \in DOMAIN new /\ new.version = 0
    BY <1>1, MergeVersion DEF Sound, Blank
  <2>2. Written(t, e) = [i \in DOMAIN t \cup {e.id} |-> IF i = e.id THEN new ELSE t[i]]
    BY <1>1 DEF Written, With
  <2> HIDE DEF new
  <2> QED BY <1>1, <2>1, <2>2 DEF Numbered
<1>2. CASE e.type # "create" /\ e.id \notin DOMAIN t
  BY <1>2 DEF Written
<1>3. CASE e.type # "create" /\ e.id \in DOMAIN t /\ e.type = "archive"
  <2> DEFINE w == Written(t, e)
  <2>1. w = [t EXCEPT ![e.id].state = "archived", ![e.id].version = e.version]
    BY <1>3 DEF Written
  <2>2. DOMAIN w = DOMAIN t
    BY <2>1
  <2>3. \A id \in DOMAIN t : id # e.id => w[id] = t[id]
    BY <2>1
  <2>4. "version" \in DOMAIN t[e.id]
    BY <1>3 DEF Numbered
  <2>5. "version" \in DOMAIN w[e.id] /\ w[e.id].version = e.version
    BY <1>3, <2>1, <2>4
  <2> HIDE DEF w
  <2>6. Numbered(w)
    BY <2>2, <2>3, <2>5 DEF Numbered, Sound
  <2>7. \A id \in DOMAIN w : \/ id \in DOMAIN t /\ w[id].version = t[id].version
                             \/ id \in DOMAIN t /\ id = e.id /\ w[id].version = e.version
    BY <2>2, <2>3, <2>5
  <2> QED BY <2>6, <2>7 DEF w
<1>4. CASE e.type # "create" /\ e.id \in DOMAIN t /\ e.type # "archive"
  <2> DEFINE w == Written(t, e)
             new == [Merge(t[e.id], e.data) EXCEPT !.version = e.version]
  <2>1. w = [t EXCEPT ![e.id] = new]
    BY <1>4 DEF Written
  <2>2. "version" \in DOMAIN new /\ new.version = e.version
    BY MergeVersion
  <2> HIDE DEF new
  <2>3. DOMAIN w = DOMAIN t /\ w[e.id] = new /\ \A id \in DOMAIN t : id # e.id => w[id] = t[id]
    BY <1>4, <2>1
  <2> HIDE DEF w
  <2>4. Numbered(w)
    BY <2>2, <2>3 DEF Numbered, Sound
  <2>5. \A id \in DOMAIN w : \/ id \in DOMAIN t /\ w[id].version = t[id].version
                             \/ id \in DOMAIN t /\ id = e.id /\ w[id].version = e.version
    BY <2>2, <2>3
  <2> QED BY <2>4, <2>5 DEF w
<1> QED BY <1>1, <1>2, <1>3, <1>4

-------------------------------------------------------------------------------
LEMMA StoreStarts == Init => StoreInv
<1> SUFFICES ASSUME Init PROVE OrderInv /\ maintained \in Nat
  BY DEF StoreInv
<1>1. maintained = 0 /\ log = <<>> /\ snapshot = NoTasks /\ lock = NoProc
  BY DEF Init
<1>2. LogIsSeq /\ Len(log) = 0
  BY <1>1 DEF LogIsSeq
<1>3. Shape
  BY <1>1, <1>2 DEF Init, Shape
<1>4. DOMAIN NoTasks = {}
  BY DEF NoTasks
<1>5. SnapshotInv
  BY <1>1, <1>4 DEF SnapshotInv, Numbered
<1>6. \A p \in Proc : todo[p] = <<>>
  BY DEF Init
<1>7. Uncounted = 0
  BY <1>6, Places DEF Uncounted
<1>8. generation = 0 /\ crashes = 0
  BY DEF Init
<1>9. CountInv
  BY <1>2, <1>7, <1>8 DEF CountInv
<1>10. ASSUME NEW p \in Proc PROVE ProcessInv(p)
  <2>1. session[p] = "closed" /\ tasks[p] = NoTasks /\ todo[p] = <<>> /\ lock # p
    BY <1>1, StoreConstants DEF Init
  <2>2. todo[p] \notin Ahead \cup Behind /\ todo[p] \notin Holding /\ todo[p] # ToBump
    BY <2>1, Places DEF Ahead, Behind, Holding
  <2> QED BY <1>4, <2>1, <2>2 DEF ProcessInv, Numbered
<1> QED BY <1>1, <1>3, <1>5, <1>9, <1>10 DEF OrderInv

LEMMA StoreInvSuffices == StoreInv => StoreIsOrdered
<1> SUFFICES ASSUME StoreInv, maintained = 0 PROVE WriteAhead /\ GenerationCounts
  BY DEF StoreIsOrdered
<1>1. OrderInv
  BY DEF StoreInv
<1>2. WriteAhead
  BY <1>1 DEF OrderInv, SnapshotInv, WriteAhead, Created, Recorded
<1>3. ASSUME lock = NoProc PROVE Uncounted = 0
  <2>1. \A p \in Proc : todo[p] \notin Holding
    BY <1>1, <1>3, StoreConstants DEF OrderInv, ProcessInv
  <2> QED BY <2>1 DEF Uncounted, Holding, Behind
<1>4. Len(log) \in Nat
  BY <1>1 DEF OrderInv, Shape, LogIsSeq
<1>5. GenerationCounts
  BY <1>1, <1>3, <1>4 DEF OrderInv, CountInv, GenerationCounts
<1> QED BY <1>2, <1>5

-------------------------------------------------------------------------------
\* A step of p leaves the other processes as they are.
Alone(p) ==
  /\ Shape'
  /\ \A q \in Proc \ {p} :
       /\ session'[q] = session[q] /\ tasks'[q] = tasks[q] /\ event'[q] = event[q]
       /\ todo'[q] = todo[q] /\ seen'[q] = seen[q]
       /\ lock' = q <=> lock = q

LEMMA OneStep ==
  ASSUME OrderInv, NEW p \in Proc, Alone(p), log' = log \/ \E e : log' = Append(log, e),
         \A q \in Proc \ {p} : todo[q] = ToBump => generation' = generation,
         ProcessInv(p)', SnapshotInv', CountInv'
  PROVE  OrderInv'
<1>1. ASSUME NEW q \in Proc, q # p PROVE ProcessInv(q)'
  <2>1. LogIsSeq /\ ProcessInv(q)
    BY DEF OrderInv, Shape
  <2>2. /\ session'[q] = session[q] /\ tasks'[q] = tasks[q] /\ event'[q] = event[q]
        /\ todo'[q] = todo[q] /\ seen'[q] = seen[q]
        /\ lock' = q <=> lock = q
    BY <1>1 DEF Alone
  <2>3. todo[q] = ToBump => generation' = generation
    BY <1>1
  <2> QED BY <2>1, <2>2, <2>3, OthersStay
<1>2. \A q \in Proc : ProcessInv(q)'
  BY <1>1
<1> QED BY <1>2 DEF Alone, OrderInv

LEMMA SnapshotStays ==
  ASSUME OrderInv, snapshot' = snapshot, log' = log \/ \E e : log' = Append(log, e)
  PROVE  SnapshotInv'
<1>1. LogIsSeq /\ SnapshotInv
  BY DEF OrderInv, Shape
<1> QED BY <1>1, LogTells DEF SnapshotInv, Numbered

\* Only the holder of the lock can have an event that is not counted.
LEMMA UncountedOf ==
  ASSUME OrderInv, NEW p \in Proc, Alone(p),
         \A q \in Proc \ {p} : todo[q] \notin {ToCount, ToBump}
  PROVE  /\ Uncounted = IF todo[p] \in {ToCount, ToBump} THEN 1 ELSE 0
         /\ Uncounted' = IF todo'[p] \in {ToCount, ToBump} THEN 1 ELSE 0
BY DEF Alone, Uncounted

LEMMA HolderIsAlone ==
  ASSUME OrderInv, NEW p \in Proc, todo[p] \in Holding
  PROVE  lock = p /\ \A q \in Proc \ {p} : todo[q] \notin Holding
BY DEF OrderInv, ProcessInv

\* A step that leaves the files alone need only keep the invariant of its process.
LEMMA QuietStep ==
  ASSUME OrderInv, NEW p \in Proc, Alone(p), ProcessInv(p)',
         log' = log, snapshot' = snapshot, generation' = generation, crashes' = crashes,
         todo'[p] \in {ToCount, ToBump} <=> todo[p] \in {ToCount, ToBump}
  PROVE  OrderInv'
<1>1. Uncounted' = Uncounted
  BY DEF Alone, Uncounted
<1>2. CountInv'
  BY <1>1 DEF OrderInv, CountInv
<1>3. SnapshotInv'
  BY SnapshotStays
<1> QED BY <1>2, <1>3, OneStep

\* Nothing is left of a process that has closed its store.
LEMMA Forgotten ==
  ASSUME OrderInv, NEW p \in Proc, Forget(p), lock' # p
  PROVE  ProcessInv(p)' /\ todo'[p] = <<>>
<1>1. session'[p] = "closed" /\ tasks'[p] = NoTasks /\ todo'[p] = <<>>
  BY DEF Forget, OrderInv, Shape
<1>2. todo'[p] \notin Ahead \cup Behind /\ todo'[p] \notin Holding /\ todo'[p] # ToBump
  BY <1>1, Places DEF Ahead, Behind, Holding
<1>3. DOMAIN NoTasks = {}
  BY DEF NoTasks
<1> QED BY <1>1, <1>2, <1>3 DEF ProcessInv, Numbered

LEMMA OpenKeeps ==
  ASSUME OrderInv, NEW p \in Proc, Open(p)
  PROVE  OrderInv'
<1>1. Alone(p)
  BY DEF Open, disk, Alone, OrderInv, Shape, LogIsSeq
<1>2. /\ session'[p] = "open" /\ tasks'[p] = snapshot /\ todo'[p] = todo[p]
      /\ event'[p] = event[p] /\ seen'[p] = seen[p]
  BY DEF Open, OrderInv, Shape
<1>3. log' = log /\ snapshot' = snapshot /\ generation' = generation /\ crashes' = crashes
      /\ lock' = lock
  BY DEF Open, disk, bounds
<1>4. Numbered(tasks[p])'
  BY <1>2 DEF OrderInv, SnapshotInv, Numbered
<1>5. \A id \in DOMAIN tasks'[p] : Explained(p, id)'
  BY <1>2, <1>3 DEF OrderInv, SnapshotInv, Explained, Created, Recorded
<1>6. ProcessInv(p)'
  BY <1>2, <1>3, <1>4, <1>5 DEF OrderInv, ProcessInv, InLog
<1> QED BY <1>1, <1>2, <1>3, <1>6, QuietStep

LEMMA CloseKeeps ==
  ASSUME OrderInv, NEW p \in Proc, Close(p)
  PROVE  OrderInv'
<1>1. Alone(p)
  BY DEF Close, Forget, disk, Alone, OrderInv, Shape, LogIsSeq
<1>2. log' = log /\ snapshot' = snapshot /\ generation' = generation /\ crashes' = crashes
      /\ lock' = lock /\ todo[p] = <<>>
  BY DEF Close, Ready, disk, bounds
<1>3. lock' # p
  BY <1>2, Places DEF OrderInv, ProcessInv, Holding, Behind
<1>4. ProcessInv(p)' /\ todo'[p] = <<>>
  BY <1>3, Forgotten DEF Close
<1> QED BY <1>1, <1>2, <1>4, QuietStep

LEMMA LockHeldKeeps ==
  ASSUME OrderInv, NEW p \in Proc, LockHeld(p)
  PROVE  OrderInv'
<1>1. Alone(p)
  BY DEF LockHeld, Forget, disk, Alone, OrderInv, Shape, LogIsSeq
<1>2. log' = log /\ snapshot' = snapshot /\ generation' = generation /\ crashes' = crashes
      /\ lock' = lock
  BY DEF LockHeld, disk, bounds
<1>3. todo[p] = WriteSteps
  BY StepTaken DEF LockHeld, OrderInv, ProcessInv
<1>4. lock' # p
  BY <1>2, <1>3, Places DEF OrderInv, ProcessInv, Holding, Behind
<1>5. ProcessInv(p)' /\ todo'[p] = <<>>
  BY <1>4, Forgotten DEF LockHeld
<1> QED BY <1>1, <1>2, <1>3, <1>5, Places, QuietStep

\* An operation is about to log e; every task of its copy is as before or e's.
LEMMA LoggedKeeps ==
  ASSUME OrderInv, NEW p \in Proc, Ready(p), NEW e, Sound(e), NEW after, Logged(p, e, after),
         Numbered(after), DOMAIN after = DOMAIN tasks[p],
         \A id \in DOMAIN after : \/ after[id].version = tasks[p][id].version
                                  \/ id = e.id /\ after[id].version = e.version
  PROVE  OrderInv'
<1>1. Alone(p)
  BY DEF Logged, disk, Alone, OrderInv, Shape, LogIsSeq
<1>2. log' = log /\ snapshot' = snapshot /\ generation' = generation /\ crashes' = crashes
      /\ lock' = lock
  BY DEF Logged, disk, bounds
<1>3. /\ session'[p] = session[p] /\ tasks'[p] = after /\ todo'[p] = WriteSteps
      /\ event'[p] = e /\ todo[p] = <<>>
  BY DEF Logged, OrderInv, Shape, Ready
<1>4. todo[p] \notin Holding /\ WriteSteps \notin Holding /\ WriteSteps \notin Behind
      /\ WriteSteps # ToBump
  BY <1>3, Places DEF Holding, Behind
<1>5. ASSUME NEW id \in DOMAIN after PROVE Explained(p, id)'
  <2>1. Explained(p, id) /\ Recorded(id, tasks[p][id].version)
    BY <1>3, Places DEF OrderInv, ProcessInv, Explained, Ahead
  <2>2. Created(id)'
    BY <1>2, <2>1 DEF Explained, Created
  <2>3. CASE after[id].version = tasks[p][id].version
    <3>1. Recorded(id, after[id].version)
      BY <2>1, <2>3
    <3>2. Recorded(id, tasks[p][id].version)'
      BY <1>2, <1>3, <3>1 DEF Recorded
    <3> QED BY <2>2, <3>2 DEF Explained
  <2>4. CASE id = e.id /\ after[id].version = e.version
    BY <1>3, <2>2, <2>4 DEF Explained, Ahead
  <2> QED BY <2>3, <2>4
<1>6. ProcessInv(p)
  BY DEF OrderInv
<1>7. Numbered(tasks[p])' /\ Sound(event[p])'
  BY <1>3 DEF Numbered, Sound
<1>8. ProcessInv(p)'
  BY <1>2, <1>3, <1>4, <1>5, <1>6, <1>7 DEF ProcessInv, Ahead
<1>9. todo'[p] \notin {ToCount, ToBump} /\ todo[p] \notin {ToCount, ToBump}
  BY <1>3, Places
<1> QED BY <1>1, <1>2, <1>8, <1>9, QuietStep

LEMMA CreateKeeps ==
  ASSUME OrderInv, NEW p \in Proc, NEW timed, NEW test, NEW key, Create(p, timed, test, key)
  PROVE  OrderInv'
<1>1. PICK id : Logged(p, CreateEvent(id, timed, test, key), tasks[p])
  BY DEF Create
<1>2. Sound(CreateEvent(id, timed, test, key))
  BY DEF CreateEvent, Sound
<1>3. Ready(p) /\ Numbered(tasks[p])
  BY DEF Create, OrderInv, ProcessInv
<1> QED BY <1>1, <1>2, <1>3, LoggedKeeps

LEMMA ChangeKeeps ==
  ASSUME OrderInv, NEW p \in Proc, NEW id, NEW type, NEW data, Change(p, id, type, data),
         type \in {"update", "pause", "resume", "cancel", "archive"}
  PROVE  OrderInv'
<1> DEFINE t == tasks[p]
           e == [type |-> type, id |-> id, version |-> t[id].version + 1, data |-> data]
           after == [t EXCEPT ![id] = Changed(t[id], e)]
<1>1. Ready(p) /\ id \in DOMAIN t /\ Logged(p, e, after)
  BY DEF Change
<1>2. Numbered(t)
  BY DEF OrderInv, ProcessInv
<1>3. "version" \in DOMAIN t[id] /\ t[id].version \in Nat
  BY <1>1, <1>2 DEF Numbered
<1>4. e.type = type /\ e.id = id /\ e.version \in Nat
  BY <1>3
<1>5. Sound(e)
  BY <1>4 DEF Sound
<1> HIDE DEF e
<1>6. "version" \in DOMAIN Changed(t[id], e) /\ Changed(t[id], e).version = e.version
  BY <1>3, <1>4, ChangedVersion
<1>7. DOMAIN after = DOMAIN t /\ after[id] = Changed(t[id], e)
      /\ \A other \in DOMAIN t : other # id => after[other] = t[other]
  BY <1>1
<1> HIDE DEF after
<1>8. Numbered(after)
  BY <1>2, <1>4, <1>6, <1>7 DEF Numbered
<1>9. \A other \in DOMAIN after : \/ after[other].version = t[other].version
                                  \/ other = e.id /\ after[other].version = e.version
  BY <1>4, <1>6, <1>7
<1> QED BY <1>1, <1>5, <1>7, <1>8, <1>9, LoggedKeeps

LEMMA ExecuteKeeps ==
  ASSUME OrderInv, NEW p \in Proc, NEW id, Execute(p, id)
  PROVE  OrderInv'
<1>1. Alone(p)
  BY DEF Execute, local, Alone, OrderInv, Shape, LogIsSeq
<1>2. log' = log /\ snapshot' = snapshot /\ generation' = generation /\ crashes' = crashes
      /\ lock' = lock /\ session' = session /\ tasks' = tasks /\ event' = event
      /\ todo' = todo /\ seen' = seen
  BY DEF Execute, local, bounds
<1>3. ProcessInv(p)
  BY DEF OrderInv
<1>4. ProcessInv(p)'
  BY <1>2, <1>3 DEF ProcessInv, Explained, Created, Recorded, InLog, Numbered, Sound
<1> QED BY <1>1, <1>2, <1>4, QuietStep

LEMMA TakeLockKeeps ==
  ASSUME OrderInv, NEW p \in Proc, TakeLock(p)
  PROVE  OrderInv'
<1>1. lock = NoProc /\ lock' = p
  BY DEF TakeLock
<1>2. \A q \in Proc \ {p} : lock' = q <=> lock = q
  BY <1>1, StoreConstants
<1>3. Alone(p)
  BY <1>1, <1>2 DEF TakeLock, StepDone, disk, Alone, OrderInv, Shape, LogIsSeq
<1>4. log' = log /\ snapshot' = snapshot /\ generation' = generation /\ crashes' = crashes
  BY DEF TakeLock, disk, bounds
<1>5. todo[p] = WriteSteps
  BY StepTaken DEF TakeLock, OrderInv, ProcessInv
<1>6. /\ todo'[p] = ToAppend /\ session'[p] = session[p] /\ tasks'[p] = tasks[p]
      /\ event'[p] = event[p] /\ seen'[p] = seen[p]
  BY <1>5, Tails DEF TakeLock, StepDone, OrderInv, Shape
<1>7. ProcessInv(p)
  BY DEF OrderInv
<1>8. ASSUME NEW id \in DOMAIN tasks[p] PROVE Explained(p, id)'
  <2>1. Explained(p, id)
    BY <1>7 DEF ProcessInv
  <2>2. Created(id)' /\ (Recorded(id, tasks[p][id].version) => Recorded(id, tasks[p][id].version)')
    BY <1>4, <1>6, <2>1 DEF Explained, Created, Recorded
  <2> QED BY <1>6, <2>1, <2>2 DEF Explained, Ahead
<1>9. todo'[p] \notin Behind /\ todo'[p] # ToBump /\ todo'[p] \in Holding /\ todo'[p] \in Ahead
  BY <1>6, Places DEF Behind, Holding, Ahead
<1>10. Sound(event[p])'
  BY <1>5, <1>6, <1>7, Places DEF ProcessInv, Sound
<1>11. ProcessInv(p)'
  BY <1>1, <1>6, <1>7, <1>8, <1>9, <1>10 DEF ProcessInv, Numbered
<1>12. todo'[p] \notin {ToCount, ToBump} /\ todo[p] \notin {ToCount, ToBump}
  BY <1>5, <1>6, Places
<1> QED BY <1>3, <1>4, <1>11, <1>12, QuietStep

LEMMA AppendEventKeeps ==
  ASSUME OrderInv, NEW p \in Proc, AppendEvent(p)
  PROVE  OrderInv'
<1>1. ProcessInv(p) /\ LogIsSeq
  BY DEF OrderInv, Shape
<1>2. todo[p] = ToAppend
  BY <1>1, StepTaken DEF AppendEvent, ProcessInv
<1>3. log' = Append(log, event[p]) /\ snapshot' = snapshot /\ generation' = generation
      /\ crashes' = crashes /\ lock' = lock
  BY DEF AppendEvent, bounds
<1>4. /\ todo'[p] = ToCount /\ session'[p] = session[p] /\ tasks'[p] = tasks[p]
      /\ event'[p] = event[p] /\ seen'[p] = seen[p]
  BY <1>2, Tails DEF AppendEvent, StepDone, OrderInv, Shape
<1>5. LogIsSeq' /\ Len(log') = Len(log) + 1 /\ \E i \in DOMAIN log' : log'[i] = event[p]
  BY <1>1, <1>3, LogGrows
<1>6. Alone(p)
  BY <1>3, <1>5 DEF AppendEvent, StepDone, Alone, OrderInv, Shape
<1>7. /\ todo[p] \in Holding /\ todo'[p] \in Behind /\ todo'[p] \in Holding
      /\ todo'[p] # ToBump /\ todo'[p] # <<>> /\ todo'[p] \notin Ahead
  BY <1>2, <1>4, Places DEF Behind, Holding, Ahead
<1>8. lock = p /\ \A q \in Proc \ {p} : todo[q] \notin {ToCount, ToBump}
  BY <1>7, HolderIsAlone DEF Holding, Behind
<1>9. ASSUME NEW id \in DOMAIN tasks[p] PROVE Explained(p, id)'
  <2>1. Explained(p, id)
    BY <1>1 DEF ProcessInv
  <2>2. Created(id)' /\ (Recorded(id, tasks[p][id].version) => Recorded(id, tasks[p][id].version)')
    BY <1>1, <1>3, <1>4, <2>1, LogTells DEF Explained
  <2>3. event[p].id = id /\ event[p].version = tasks[p][id].version
          => Recorded(id, tasks[p][id].version)'
    BY <1>4, <1>5 DEF Recorded
  <2> QED BY <2>1, <2>2, <2>3 DEF Explained
<1>10. InLog(event[p])' /\ Sound(event[p])'
  BY <1>1, <1>2, <1>4, <1>5, Places DEF InLog, ProcessInv, Sound
<1>11. ProcessInv(p)'
  BY <1>1, <1>3, <1>4, <1>7, <1>8, <1>9, <1>10 DEF ProcessInv, Numbered
<1>12. Uncounted = 0 /\ Uncounted' = 1
  BY <1>2, <1>4, <1>6, <1>8, Places, UncountedOf
<1>13. Len(log) \in Nat
  BY <1>1 DEF LogIsSeq
<1>14. CountInv'
  BY <1>3, <1>5, <1>12, <1>13 DEF OrderInv, CountInv
<1>15. SnapshotInv'
  BY <1>3, SnapshotStays
<1> QED BY <1>3, <1>6, <1>11, <1>14, <1>15, OneStep

LEMMA CountKeeps ==
  ASSUME OrderInv, NEW p \in Proc, Count(p)
  PROVE  OrderInv'
<1>1. ProcessInv(p)
  BY DEF OrderInv
<1>2. todo[p] = ToCount
  BY <1>1, StepTaken DEF Count, ProcessInv
<1>3. log' = log /\ snapshot' = snapshot /\ generation' = generation
      /\ crashes' = crashes /\ lock' = lock
  BY DEF Count, disk, bounds
<1>4. /\ todo'[p] = ToBump /\ session'[p] = session[p] /\ tasks'[p] = tasks[p]
      /\ event'[p] = event[p] /\ seen'[p] = generation
  BY <1>2, Tails DEF Count, StepDone, OrderInv, Shape
<1>5. Alone(p)
  BY <1>3 DEF Count, StepDone, Alone, OrderInv, Shape, LogIsSeq
<1>6. /\ todo[p] \in Holding /\ todo[p] \in Behind /\ todo[p] \notin Ahead /\ todo[p] # <<>>
      /\ todo'[p] \in Behind /\ todo'[p] \in Holding
  BY <1>2, <1>4, Places DEF Behind, Holding, Ahead
<1>7. \A id \in DOMAIN tasks'[p] : Explained(p, id)'
  BY <1>1, <1>3, <1>4, <1>6 DEF ProcessInv, Explained, Created, Recorded
<1>8. InLog(event[p])' /\ Sound(event[p])'
  BY <1>1, <1>3, <1>4, <1>6 DEF InLog, ProcessInv, Sound
<1>9. ProcessInv(p)'
  BY <1>1, <1>3, <1>4, <1>6, <1>7, <1>8 DEF ProcessInv, Numbered
<1> QED BY <1>2, <1>3, <1>4, <1>5, <1>9, QuietStep

\* Only a recovery, which is maintenance, ends with its Bump.
LEMMA BumpKeeps ==
  ASSUME OrderInv, NEW p \in Proc, Bump(p)
  PROVE  OrderInv'
<1>1. ProcessInv(p)
  BY DEF OrderInv
<1>2. todo[p] = ToBump
  BY <1>1, StepTaken DEF Bump, ProcessInv
<1>3. seen[p] = generation /\ session[p] # "recover"
  BY <1>1, <1>2 DEF ProcessInv
<1>4. Tail(todo[p]) = ToSave /\ ToSave # <<>>
  BY <1>2, Tails, Places
<1>5. log' = log /\ snapshot' = snapshot /\ generation' = generation + 1
      /\ crashes' = crashes /\ lock' = lock
  BY <1>3, <1>4 DEF Bump, bounds
<1>6. StepDone(p) /\ UNCHANGED <<session, tasks, event, seen>>
  BY <1>3 DEF Bump
<1>7. todo'[p] = ToSave
  BY <1>4, <1>6 DEF StepDone, OrderInv, Shape
<1>8. Alone(p)
  BY <1>5, <1>6 DEF StepDone, Alone, OrderInv, Shape, LogIsSeq
<1>9. /\ todo[p] \in Holding /\ todo[p] \in Behind /\ todo[p] \notin Ahead /\ todo[p] # <<>>
      /\ todo'[p] \in Behind /\ todo'[p] \in Holding /\ todo'[p] # ToBump
  BY <1>2, <1>7, Places DEF Behind, Holding, Ahead
<1>10. \A q \in Proc \ {p} : todo[q] \notin Holding
  BY <1>9, HolderIsAlone
<1>11. \A q \in Proc \ {p} : todo[q] \notin {ToCount, ToBump}
  BY <1>10 DEF Holding, Behind
<1>12. \A id \in DOMAIN tasks'[p] : Explained(p, id)'
  BY <1>1, <1>5, <1>6, <1>9 DEF ProcessInv, Explained, Created, Recorded
<1>13. InLog(event[p])' /\ Sound(event[p])'
  BY <1>1, <1>5, <1>6, <1>9 DEF InLog, ProcessInv, Sound
<1>14. ProcessInv(p)'
  BY <1>1, <1>5, <1>6, <1>9, <1>12, <1>13 DEF ProcessInv, Numbered
<1>15. Uncounted = 1 /\ Uncounted' = 0
  BY <1>2, <1>7, <1>8, <1>11, Places, UncountedOf
<1>16. Len(log) \in Nat
  BY DEF OrderInv, Shape, LogIsSeq
<1>17. CountInv'
  BY <1>5, <1>15, <1>16 DEF OrderInv, CountInv
<1>18. SnapshotInv'
  BY <1>5, SnapshotStays
<1> QED BY <1>5, <1>8, <1>11, <1>14, <1>17, <1>18, OneStep

LEMMA SaveKeeps ==
  ASSUME OrderInv, NEW p \in Proc, Save(p)
  PROVE  OrderInv'
<1>1. ProcessInv(p)
  BY DEF OrderInv
<1>2. todo[p] = ToSave /\ Tail(todo[p]) = <<>>
  BY <1>1, StepTaken, Tails DEF Save, ProcessInv
<1>3. /\ todo[p] \in Holding /\ todo[p] \in Behind /\ todo[p] \notin Ahead
      /\ todo[p] \notin {ToCount, ToBump, <<>>}
  BY <1>2, Places DEF Behind, Holding, Ahead
<1>4. lock = p /\ \A q \in Proc \ {p} : todo[q] \notin Holding
  BY <1>3, HolderIsAlone
<1>5. \A q \in Proc \ {p} : lock # q
  BY <1>4
<1>6. lock' = NoProc
  BY <1>2, <1>4 DEF Save
<1>7. log' = log /\ generation' = generation /\ crashes' = crashes
  BY DEF Save, bounds
<1> DEFINE w == Written(tasks[p], event[p])
<1>8. /\ tasks' = [tasks EXCEPT ![p] = w] /\ snapshot' = tasks'[p]
      /\ event' = [event EXCEPT ![p] = NoEvent] /\ session' = session /\ seen' = seen
      /\ todo' = [todo EXCEPT ![p] = Tail(todo[p])]
  BY <1>2, <1>4 DEF Save, StepDone
<1>9. todo'[p] = <<>> /\ tasks'[p] = w /\ snapshot' = w
  BY <1>2, <1>8 DEF OrderInv, Shape
<1>10. Numbered(tasks[p]) /\ Sound(event[p]) /\ InLog(event[p])
  BY <1>1, <1>3 DEF ProcessInv
<1>11. Numbered(w)
  BY <1>10, WrittenVersion
<1>12. ASSUME NEW id \in DOMAIN w PROVE Created(id) /\ Recorded(id, w[id].version)
  <2>1. id \in DOMAIN tasks[p] => Created(id) /\ Recorded(id, tasks[p][id].version)
    BY <1>1, <1>3 DEF ProcessInv, Explained
  <2>2. CASE id \in DOMAIN tasks[p] /\ w[id].version = tasks[p][id].version
    <3>1. Recorded(id, tasks[p][id].version) = Recorded(id, w[id].version)
      BY <2>2
    <3> QED BY <2>1, <2>2, <3>1
  <2>3. CASE id \in DOMAIN tasks[p] /\ id = event[p].id /\ w[id].version = event[p].version
    <3>1. Recorded(id, w[id].version)
      BY <1>10, <2>3 DEF Recorded, InLog
    <3> QED BY <2>1, <2>3, <3>1
  <2>4. CASE id = event[p].id /\ event[p].type = "create" /\ w[id].version = 0
    BY <1>10, <2>4 DEF Created, Recorded, InLog
  <2> QED BY <1>10, <2>2, <2>3, <2>4, WrittenVersion
<1> HIDE DEF w
<1>13. SnapshotInv'
  <2>1. Numbered(snapshot)'
    BY <1>9, <1>11 DEF Numbered
  <2>2. \A id \in DOMAIN snapshot' : Created(id)' /\ Recorded(id, snapshot[id].version)'
    BY <1>7, <1>9, <1>12 DEF Created, Recorded
  <2> QED BY <2>1, <2>2 DEF SnapshotInv
<1>14. \A q \in Proc \ {p} : lock' = q <=> lock = q
  BY <1>4, <1>5, <1>6, StoreConstants
<1>15. Alone(p)
  BY <1>6, <1>7, <1>8, <1>14 DEF Alone, OrderInv, Shape, LogIsSeq
<1>16. ProcessInv(p)'
  <2>1. todo'[p] \notin Ahead \cup Behind /\ todo'[p] \notin Holding /\ todo'[p] # ToBump
    BY <1>9, Places DEF Ahead, Behind, Holding
  <2>2. lock' # p /\ session'[p] = session[p]
    BY <1>6, <1>8, StoreConstants
  <2>3. Numbered(tasks[p])'
    BY <1>9, <1>11 DEF Numbered
  <2>4. \A id \in DOMAIN tasks'[p] : Explained(p, id)'
    BY <1>7, <1>9, <1>12 DEF Explained, Created, Recorded
  <2> QED BY <1>1, <1>9, <2>1, <2>2, <2>3, <2>4 DEF ProcessInv
<1>17. \A q \in Proc \ {p} : todo[q] \notin {ToCount, ToBump}
  BY <1>4 DEF Holding, Behind
<1>18. Uncounted = 0 /\ Uncounted' = 0
  BY <1>3, <1>9, <1>15, <1>17, Places, UncountedOf
<1>19. CountInv'
  BY <1>7, <1>18 DEF OrderInv, CountInv
<1> QED BY <1>7, <1>13, <1>15, <1>16, <1>19, OneStep

\* The system drops the lock of a process that dies; what it logged and did not
\* count stays uncounted.
LEMMA CrashKeeps ==
  ASSUME OrderInv, NEW p \in Proc, Crash(p)
  PROVE  OrderInv'
<1>1. log' = log /\ snapshot' = snapshot /\ generation' = generation /\ crashes' = crashes + 1
      /\ lock' = IF lock = p THEN NoProc ELSE lock
  BY DEF Crash, disk
<1>2. \A q \in Proc \ {p} : lock' = q <=> lock = q
  BY <1>1, StoreConstants
<1>3. Alone(p)
  BY <1>1, <1>2 DEF Crash, Forget, Alone, OrderInv, Shape, LogIsSeq
<1>4. lock' # p
  BY <1>1, StoreConstants
<1>5. ProcessInv(p)' /\ todo'[p] = <<>>
  BY <1>4, Forgotten DEF Crash
<1>6. Uncounted' \in {Uncounted, Uncounted - 1} /\ Uncounted' \in {0, 1} /\ Uncounted \in {0, 1}
  <2>1. \A q \in Proc \ {p} : todo'[q] = todo[q]
    BY <1>3 DEF Alone
  <2>2. todo'[p] \notin {ToCount, ToBump}
    BY <1>5, Places
  <2>3. (\E q \in Proc : todo'[q] \in {ToCount, ToBump})
          => \E q \in Proc : todo[q] \in {ToCount, ToBump}
    BY <2>1, <2>2
  <2> QED BY <2>3 DEF Uncounted
<1>7. Len(log) \in Nat
  BY DEF OrderInv, Shape, LogIsSeq
<1>8. CountInv'
  BY <1>1, <1>6, <1>7 DEF OrderInv, CountInv
<1>9. SnapshotInv'
  BY <1>1, SnapshotStays
<1> QED BY <1>1, <1>3, <1>5, <1>8, <1>9, OneStep

LEMMA SameKeeps ==
  ASSUME OrderInv, UNCHANGED <<lock, log, snapshot, generation, local, crashes>>
  PROVE  OrderInv'
<1>1. Shape' /\ SnapshotInv' /\ CountInv'
  BY DEF OrderInv, local, Shape, LogIsSeq, SnapshotInv, Numbered, Created, Recorded,
         CountInv, Uncounted
<1>2. ASSUME NEW p \in Proc PROVE ProcessInv(p)'
  <2>1. ProcessInv(p)
    BY DEF OrderInv
  <2> QED BY <2>1 DEF local, ProcessInv, Numbered, Explained, Created, Recorded, Sound, InLog
<1> QED BY <1>1, <1>2 DEF OrderInv

-------------------------------------------------------------------------------
\* Clearing, reconciling and recovering are counted as maintenance; every other
\* step keeps the order.
LEMMA StoreStep == StoreInv /\ [Next]_vars => StoreInv'
<1> SUFFICES ASSUME StoreInv, [Next]_vars PROVE StoreInv'
  OBVIOUS
<1>1. CASE UNCHANGED vars
  <2>1. maintained' = maintained /\ UNCHANGED <<lock, log, snapshot, generation, local, crashes>>
    BY <1>1 DEF vars, disk, local, bounds
  <2> QED BY <2>1, SameKeeps DEF StoreInv
<1>2. CASE Tick
  <2>1. maintained' = maintained /\ UNCHANGED <<lock, log, snapshot, generation, local, crashes>>
    BY <1>2 DEF Tick, disk, local, bounds
  <2> QED BY <2>1, SameKeeps DEF StoreInv
<1>3. ASSUME NEW p \in Proc, Open(p) \/ Close(p) \/ Step(p) \/ Crash(p) PROVE StoreInv'
  <2>1. maintained' = maintained
    BY <1>3 DEF Open, Close, Step, TakeLock, LockHeld, AppendEvent, Count, Bump, Save, Settle,
                Crash, bounds
  <2>2. ASSUME OrderInv PROVE ~Settle(p)
    BY <2>2, StepTaken DEF Settle, OrderInv, ProcessInv
  <2>3. OrderInv => OrderInv'
    BY <1>3, <2>2, OpenKeeps, CloseKeeps, TakeLockKeeps, LockHeldKeeps, AppendEventKeeps,
       CountKeeps, BumpKeeps, SaveKeeps, CrashKeeps DEF Step
  <2> QED BY <2>1, <2>3 DEF StoreInv
<1>4. ASSUME NEW p \in Proc, ClearTestTasks(p) \/ Reconcile(p) \/ Recover(p) PROVE StoreInv'
  <2>1. maintained' = maintained + 1
    BY <1>4 DEF ClearTestTasks, Reconcile, Recover, Maintenance
  <2> QED BY <2>1 DEF StoreInv
<1>5. ASSUME NEW p \in Proc, NEW new, NEW key, Create(p, new[1], new[2], key) PROVE StoreInv'
  <2>1. maintained' = maintained
    BY <1>5 DEF Create, Logged, bounds
  <2> QED BY <1>5, <2>1, CreateKeeps DEF StoreInv
<1>6. ASSUME NEW p \in Proc, NEW id,
             NEW type \in {"update", "pause", "resume", "cancel", "archive"}, NEW data,
             Change(p, id, type, data)
      PROVE  StoreInv'
  <2>1. maintained' = maintained
    BY <1>6 DEF Change, Logged, bounds
  <2> QED BY <1>6, <2>1, ChangeKeeps DEF StoreInv
<1>7. ASSUME NEW p \in Proc, NEW id, Execute(p, id) PROVE StoreInv'
  <2>1. maintained' = maintained
    BY <1>7 DEF Execute, bounds
  <2> QED BY <1>7, <2>1, ExecuteKeeps DEF StoreInv
<1>8. ASSUME NEW p \in Proc, Operation(p) PROVE StoreInv'
  <2>1. CASE \E new \in NewTasks, key \in Key \cup {NoKey} : Create(p, new[1], new[2], key)
    BY <1>5, <2>1
  <2>2. ASSUME NEW id, NEW state, Update(p, id, state) PROVE StoreInv'
    BY <1>6, <2>2 DEF Update
  <2>3. ASSUME NEW id, Pause(p, id) \/ Resume(p, id) \/ Cancel(p, id) \/ Archive(p, id)
        PROVE  StoreInv'
    BY <1>6, <2>3 DEF Pause, Resume, Cancel, Archive
  <2> QED BY <1>4, <1>7, <1>8, <2>1, <2>2, <2>3 DEF Operation
<1> QED BY <1>1, <1>2, <1>3, <1>8 DEF Next

\* Log ahead of snapshot, and no increment of the generation lost, whoever else
\* writes, finds the lock held or dies between two steps of a write
\* (lib/scheduler/store.py, Store._write).
THEOREM StoreKeepsOrder == Spec => []StoreIsOrdered
<1> QED BY StoreStarts, StoreStep, StoreInvSuffices, PTL DEF Spec
===============================================================================
