------------------------------ MODULE PromptQueue -----------------------------
(***************************************************************************)
(* The prompt queue as the sessions of one machine run it                  *)
(* (lib/prompt_queue.py): every session loads prompt_queue.json, works on  *)
(* its own copy and saves it through one temporary file that is renamed    *)
(* over it. submit, done and drop hold an advisory lock; clear and list do *)
(* not. Files are inodes that path names lead to, because a descriptor     *)
(* that is still open follows its inode through a rename.                  *)
(***************************************************************************)
EXTENDS PromptQueueOps

CONSTANTS
  Proc,                \* the CLI and daemon sessions
  Clearer,             \* those that run `queue clear`
  NoProc,              \* nobody holds the lock
  Inode,               \* the inodes of the state directory
  Absent,              \* the path name leads nowhere
  Empty, Torn,         \* a truncated file, a file that is no JSON document
  AskedIds,            \* the ids given to `queue done` and `queue drop`
  MaxCalls, MaxCrashes, MaxStamp      \* bounds

ASSUME ConstantsApart ==
  /\ NoProc \notin Proc
  /\ Clearer \subseteq Proc
  /\ AskedIds \subseteq Nat
  /\ Absent \notin Inode
  /\ Empty # Torn
  /\ Empty \notin Seq(Item) /\ Torn \notin Seq(Item)
  /\ MaxCalls \in Nat /\ MaxCrashes \in Nat /\ MaxStamp \in Nat

VARIABLES
  lock,                \* holder of prompt_queue.lock
  disk,                \* content of every inode
  queue,               \* inode of prompt_queue.json
  tmp,                 \* inode of prompt_queue.json.tmp
  archived, corrupt,   \* inodes of prompt_queue.{archived,corrupt}-<second>
  clock,               \* the second time.strftime would print
  pc, op,              \* where every session is, and in which call
  items,               \* the list it has in memory
  loop,                \* the state of submit's loop over the parts: those left,
                       \* how many items were loaded, and the superseded one
  fd,                  \* the inode it has open for writing
  accepted,            \* the <<id, text>> of every list a submit returned on
  calls, crashes       \* counters the bounds apply to

files == <<disk, queue, tmp, archived, corrupt>>
bounds == <<clock, calls, crashes>>
call == <<op, items, loop>>
vars == <<lock, files, pc, call, fd, accepted, bounds>>

Stamp == 0..MaxStamp

Names == Inode \cup {Absent}

Calls ==
  [kind : {"submit"}, prompt : Prompt]
    \cup [kind : {"done", "drop"}, id : AskedIds]
    \cup [kind : {"clear", "list"}]

Locking == {"submit", "done", "drop"}

Used == {queue, tmp} \cup {archived[s] : s \in Stamp}
          \cup {corrupt[s] : s \in Stamp} \cup {fd[p] : p \in Proc}

Goto(p, label) == pc' = [pc EXCEPT ![p] = label]

NoCall == [kind |-> "list"]

NoLoop == [todo |-> <<>>, base |-> 0, target |-> 0]

\* The call is over and its list is forgotten.
Finish(p) ==
  /\ Goto(p, "idle")
  /\ op' = [op EXCEPT ![p] = NoCall]
  /\ items' = [items EXCEPT ![p] = <<>>]
  /\ loop' = [loop EXCEPT ![p] = NoLoop]

Init ==
  /\ lock = NoProc
  /\ disk = [n \in Inode |-> Empty]
  /\ queue = Absent /\ tmp = Absent
  /\ archived = [s \in Stamp |-> Absent]
  /\ corrupt = [s \in Stamp |-> Absent]
  /\ clock = 0 /\ calls = 0 /\ crashes = 0
  /\ pc = [p \in Proc |-> "idle"]
  /\ op = [p \in Proc |-> NoCall]
  /\ items = [p \in Proc |-> <<>>]
  /\ loop = [p \in Proc |-> NoLoop]
  /\ fd = [p \in Proc |-> Absent]
  /\ accepted = {}

\* A session starts a call; the locking ones block in flock(LOCK_EX).
Call(p, c) ==
  /\ pc[p] = "idle"
  /\ calls < MaxCalls
  /\ calls' = calls + 1
  /\ c.kind = "clear" => p \in Clearer
  /\ op' = [op EXCEPT ![p] = c]
  /\ Goto(p, IF c.kind \in Locking THEN "wait" ELSE "load")
  /\ UNCHANGED <<lock, files, items, loop, fd, accepted, clock, crashes>>

Acquire_NoLock(p) ==                                     \* mutated form
  /\ pc[p] = "wait"
  /\ lock' = p
  /\ Goto(p, "load")
  /\ UNCHANGED <<files, call, fd, accepted, bounds>>

Acquire(p) ==
  /\ pc[p] = "wait"
  /\ lock = NoProc
  /\ lock' = p
  /\ Goto(p, "load")
  /\ UNCHANGED <<files, call, fd, accepted, bounds>>

\* What the call does with the list it loaded: the list it will save, or its
\* early return.
MarkItem(p, loaded, status) ==
  /\ items' = [items EXCEPT ![p] = AfterMark(loaded, op[p].id, status)]
  /\ Goto(p, IF op[p].id \in Ids(loaded) THEN "open" ELSE "unlock")
  /\ UNCHANGED loop

\* submit() marks the target of a revision before it looks at the parts.
StartLoop(p, loaded) ==
  LET target == TargetOf(loaded, op[p].prompt) IN
  /\ items' = [items EXCEPT ![p] =
       [i \in 1..Len(loaded) |->
          IF i = target
            THEN [loaded[i] EXCEPT !.status = "superseded", !.by = 0]
            ELSE loaded[i]]]
  /\ loop' = [loop EXCEPT ![p] = [todo |-> op[p].prompt.parts,
                                 base |-> Len(loaded), target |-> target]]
  /\ Goto(p, IF op[p].prompt.parts = <<>> THEN "unlock" ELSE "parts")

Apply(p, loaded) ==
  /\ \/ op[p].kind = "submit" /\ StartLoop(p, loaded)
     \/ op[p].kind = "done" /\ MarkItem(p, loaded, "done")
     \/ op[p].kind = "drop" /\ MarkItem(p, loaded, "dropped")
     \/ /\ op[p].kind = "clear"
        /\ items' = [items EXCEPT ![p] = loaded]
        /\ Goto(p, "archive")
        /\ UNCHANGED loop
     \/ /\ op[p].kind = "list"
        /\ Goto(p, "idle")
        /\ UNCHANGED <<items, loop>>
  /\ UNCHANGED op

\* _load() asks whether the file exists and reads it in a second step, in between
\* which a clear may take it away.
LoadNothing(p) ==
  /\ pc[p] = "load"
  /\ queue = Absent
  /\ Apply(p, <<>>)
  /\ UNCHANGED <<lock, files, fd, accepted, bounds>>

LookUp(p) ==
  /\ pc[p] = "load"
  /\ queue # Absent
  /\ Goto(p, "read")
  /\ UNCHANGED <<lock, files, call, fd, accepted, bounds>>

Load(p) ==
  /\ pc[p] = "read"
  /\ queue # Absent
  /\ disk[queue] \notin {Empty, Torn}
  /\ Apply(p, disk[queue])
  /\ UNCHANGED <<lock, files, fd, accepted, bounds>>

\* A malformed file, or none any more: what the name leads to by then is moved aside,
\* which is a step of its own, and the call goes on with the empty list.
LoadCorrupt(p) ==
  /\ pc[p] = "read"
  /\ queue # Absent => disk[queue] \in {Empty, Torn}
  /\ Goto(p, "corrupt")
  /\ UNCHANGED <<lock, files, call, fd, accepted, bounds>>

ArchiveCorrupt(p) ==
  /\ pc[p] = "corrupt"
  /\ \/ /\ queue # Absent
        /\ corrupt' = [corrupt EXCEPT ![clock] = queue]
        /\ queue' = Absent
     \/ /\ queue = Absent
        /\ UNCHANGED <<corrupt, queue>>
  /\ Apply(p, <<>>)
  /\ UNCHANGED <<lock, disk, tmp, archived, fd, accepted, bounds>>

\* The items a part is compared with: those that were live when the list was
\* loaded, without the superseded one and without the parts before it.
CompareSet(p) == {i \in Live(items[p]) : i <= loop[p].base}

ConsiderPart_RevisionUnchecked(p) ==                     \* mutated form
  /\ pc[p] = "parts" /\ loop[p].todo # <<>>
  /\ items' = IF /\ loop[p].target = 0
                 /\ \E i \in CompareSet(p) :
                      Conflict(Head(loop[p].todo), items[p][i].text)
      THEN items
      ELSE [items EXCEPT ![p] = Append(@, NewItem(@, Head(loop[p].todo)))]
  /\ loop' = [loop EXCEPT ![p].todo = Tail(@)]
  /\ UNCHANGED <<lock, files, pc, op, fd, accepted, bounds>>

\* One turn of the loop: the next part is held back or becomes a new item.
ConsiderPart(p) ==
  /\ pc[p] = "parts"
  /\ loop[p].todo # <<>>
  /\ LET part == Head(loop[p].todo)
         heldBack == \E i \in CompareSet(p) : Conflict(part, items[p][i].text)
     IN  items' = IF heldBack THEN items
                  ELSE [items EXCEPT ![p] = Append(@, NewItem(@, part))]
  /\ loop' = [loop EXCEPT ![p].todo = Tail(@)]
  /\ UNCHANGED <<lock, files, pc, op, fd, accepted, bounds>>

\* After the loop: the superseded item is linked to the first new item.
LinkSuperseded(p) ==
  /\ pc[p] = "parts"
  /\ loop[p].todo = <<>>
  /\ items' = IF loop[p].target # 0 /\ Len(items[p]) > loop[p].base
      THEN [items EXCEPT ![p][loop[p].target].by = items[p][loop[p].base + 1].id]
      ELSE items
  /\ Goto(p, "open")
  /\ UNCHANGED <<lock, files, op, loop, fd, accepted, bounds>>

ArchiveCleared_Unlinked(p) ==                            \* mutated form
  /\ pc[p] = "archive"
  /\ queue' = IF items[p] # <<>> THEN Absent ELSE queue
  /\ items' = [items EXCEPT ![p] = <<>>]
  /\ Goto(p, "open")
  /\ UNCHANGED <<lock, disk, tmp, archived, corrupt, op, loop, fd, accepted, bounds>>

\* clear(): a queue that had items is renamed to an archive, over the one of an
\* earlier clear in the same second; then [] is saved.
ArchiveCleared(p) ==
  /\ pc[p] = "archive"
  /\ \/ /\ items[p] # <<>> /\ queue # Absent
        /\ archived' = [archived EXCEPT ![clock] = queue]
        /\ queue' = Absent
     \/ /\ items[p] = <<>> \/ queue = Absent
        /\ UNCHANGED <<archived, queue>>
  /\ items' = [items EXCEPT ![p] = <<>>]
  /\ Goto(p, "open")
  /\ UNCHANGED <<lock, disk, tmp, corrupt, op, loop, fd, accepted, bounds>>

Open_InPlace(p) ==                                       \* mutated form
  /\ pc[p] = "open"
  /\ LET n == IF queue # Absent THEN queue
              ELSE CHOOSE m \in Inode : m \notin Used
     IN  /\ tmp' = n
         /\ disk' = [disk EXCEPT ![n] = Empty]
         /\ fd' = [fd EXCEPT ![p] = n]
  /\ Goto(p, "write")
  /\ UNCHANGED <<lock, queue, archived, corrupt, call, accepted, bounds>>

\* _save(): os.open(tmp, O_WRONLY | O_CREAT | O_TRUNC)
Open(p) ==
  /\ pc[p] = "open"
  /\ tmp # Absent \/ Inode \ Used # {}
  /\ LET n == IF tmp # Absent THEN tmp ELSE CHOOSE m \in Inode : m \notin Used
     IN  /\ tmp' = n
         /\ disk' = [disk EXCEPT ![n] = Empty]
         /\ fd' = [fd EXCEPT ![p] = n]
  /\ Goto(p, "write")
  /\ UNCHANGED <<lock, queue, archived, corrupt, call, accepted, bounds>>

\* os.write, os.fsync, os.close. Written over what another session wrote into
\* the same inode, the bytes of a longer document may remain at the end.
Write(p) ==
  /\ pc[p] = "write"
  /\ \E c \in IF disk[fd[p]] = Empty THEN {items[p]} ELSE {items[p], Torn} :
       disk' = [disk EXCEPT ![fd[p]] = c]
  /\ fd' = [fd EXCEPT ![p] = Absent]
  /\ Goto(p, "replace")
  /\ UNCHANGED <<lock, queue, tmp, archived, corrupt, call, accepted, bounds>>

\* An inode that neither a path name nor a descriptor leads to is freed.
Freed(n) ==
  IF n = Absent \/ \E p \in Proc : fd[p] = n THEN disk
  ELSE [disk EXCEPT ![n] = Empty]

\* os.replace(tmp, QUEUE_FILE); it raises when the name tmp is gone.
Replace(p) ==
  /\ pc[p] = "replace"
  /\ \/ /\ tmp # Absent
        /\ disk' = Freed(queue)
        /\ queue' = tmp
        /\ tmp' = Absent
     \/ /\ tmp = Absent
        /\ UNCHANGED <<disk, queue, tmp>>
  /\ \/ /\ op[p].kind \in Locking
        /\ Goto(p, IF tmp = Absent THEN "unlock" ELSE "return")
        /\ UNCHANGED call
     \/ /\ op[p].kind \notin Locking
        /\ Finish(p)
  /\ UNCHANGED <<lock, archived, corrupt, fd, accepted, bounds>>

Pairs(list) == {<<list[i].id, list[i].text>> : i \in DOMAIN list}

\* The end of _locked(): LOCK_UN, and the result or the exception goes to the
\* caller. "return" is the end of a call that saved its list.
Unlock(p) ==
  /\ pc[p] \in {"return", "unlock"}
  /\ lock' = NoProc
  /\ accepted' = IF pc[p] = "return" /\ op[p].kind = "submit"
                   THEN accepted \cup Pairs(items[p]) ELSE accepted
  /\ Finish(p)
  /\ UNCHANGED <<files, fd, bounds>>

Crash_KeepsLock(p) ==                                    \* mutated form
  /\ pc[p] # "idle"
  /\ crashes < MaxCrashes
  /\ crashes' = crashes + 1
  /\ fd' = [fd EXCEPT ![p] = Absent]
  /\ Finish(p)
  /\ UNCHANGED <<lock, files, accepted, clock, calls>>

\* The process dies: its descriptors are closed, which releases the lock.
Crash(p) ==
  /\ pc[p] # "idle"
  /\ crashes < MaxCrashes
  /\ crashes' = crashes + 1
  /\ lock' = IF lock = p THEN NoProc ELSE lock
  /\ fd' = [fd EXCEPT ![p] = Absent]
  /\ Finish(p)
  /\ UNCHANGED <<files, accepted, clock, calls>>

Tick ==
  /\ Clearer # {}
  /\ clock < MaxStamp
  /\ clock' = clock + 1
  /\ UNCHANGED <<lock, files, pc, call, fd, accepted, calls, crashes>>

Step(p) ==
  \/ Acquire(p) \/ LoadNothing(p) \/ LookUp(p) \/ Load(p) \/ LoadCorrupt(p) \/ ArchiveCorrupt(p)
  \/ ConsiderPart(p) \/ LinkSuperseded(p)
  \/ ArchiveCleared(p) \/ Open(p) \/ Write(p) \/ Replace(p) \/ Unlock(p)

Next ==
  \/ \E p \in Proc :
       \/ \E c \in Calls : Call(p, c)
       \/ Step(p)
       \/ Crash(p)
  \/ Tick

Spec == Init /\ [][Next]_vars

\* A session that is scheduled takes its next step; flock() wakes the waiters
\* in the order they came, so none of them is passed over for ever.
Fairness ==
  \A p \in Proc : WF_vars(Step(p)) /\ SF_vars(Acquire(p))

FairSpec == Spec /\ Fairness

-------------------------------------------------------------------------------
TypeOK ==
  /\ lock \in Proc \cup {NoProc}
  /\ disk \in [Inode -> Seq(Item) \cup {Empty, Torn}]
  /\ queue \in Names /\ tmp \in Names
  /\ archived \in [Stamp -> Names] /\ corrupt \in [Stamp -> Names]
  /\ clock \in Stamp /\ calls \in 0..MaxCalls /\ crashes \in 0..MaxCrashes
  /\ pc \in [Proc -> {"idle", "wait", "load", "read", "corrupt", "parts", "archive", "open",
                      "write", "replace", "return", "unlock"}]
  /\ op \in [Proc -> Calls]
  /\ items \in [Proc -> Seq(Item)]
  /\ loop \in [Proc -> [todo : Seq(Part), base : Nat, target : Nat]]
  /\ fd \in [Proc -> Names]
  /\ accepted \subseteq Nat \X Part

\* The list a path name leads to; nothing if it leads nowhere or to garbage.
Content(name) ==
  IF name = Absent THEN <<>>
  ELSE IF disk[name] \in {Empty, Torn} THEN <<>> ELSE disk[name]

Archives == {Content(archived[s]) : s \in Stamp} \ {<<>>}

Stored == {Content(queue)} \cup Archives

\* An item a submit reported to its caller is in the queue file or in an
\* archive of it, whatever other sessions do and wherever they die.
SubmittedItemsKept == accepted \subseteq UNION {Pairs(list) : list \in Stored}

\* No two items of a stored list have one id, so that done and drop name one.
IdsIdentify ==
  \A list \in Stored : \A i, j \in DOMAIN list :
    list[i].id = list[j].id => i = j

\* An item that was superseded by another one points at a later item of the
\* same list, and no two items are superseded by the same one.
SupersededByLater ==
  \A list \in Stored : \A i \in DOMAIN list :
    list[i].by # 0 =>
      /\ \E j \in DOMAIN list : j > i /\ list[j].id = list[i].by
      /\ \A k \in DOMAIN list : list[k].by = list[i].by => k = i

\* Two live items of a stored list never contradict each other, provided no
\* prompt contradicts itself: submit() compares a part with the live items,
\* and not with the other parts of its own prompt.
SelfConsistent(prompt) ==
  \A k, l \in DOMAIN prompt.parts :
    k < l => ~Conflict(prompt.parts[l], prompt.parts[k])
LiveItemsAgree ==
  (\A prompt \in Prompt : SelfConsistent(prompt)) =>
    \A list \in Stored : \A i, j \in Live(list) :
      i < j => ~Conflict(list[j].text, list[i].text)

\* A stored list reads as one story: its links lead on, and what is live agrees.
ListsAreConsistent == SupersededByLater /\ LiveItemsAgree

\* Every call comes back, whoever else crashes while holding the lock.
CallsReturn == \A p \in Proc : pc[p] # "idle" ~> pc[p] = "idle"

\* The queue file is the abstract queue, changed in one step by the rename.
Abstract == INSTANCE PromptQueueSpec WITH q <- Content(queue), archive <- Archives
AtomicQueue == Abstract!Spec
===============================================================================
