-------------------------- MODULE PromptQueue_proofs --------------------------
(***************************************************************************)
(* Proofs about the prompt queue for any set of sessions, parts and        *)
(* prompts, and about the rule that decides whether two parts conflict.    *)
(***************************************************************************)
EXTENDS PromptQueue, FiniteSetTheorems, WellFoundedInduction, SequenceTheorems, TLAPS

CONSTANT RoleWithin(_, _)

INSTANCE PromptConflict

\* Least and greatest elements of sets of naturals, and induction over the naturals
\* stated for a set instead of a predicate. They are derived from the well-foundedness
\* of strict inclusion between finite sets.

\* A nonempty set of naturals with an upper bound has a greatest element: the
\* argument for every "the latest one" and "the largest id" of the models.
LEMMA GreatestElement ==
  ASSUME NEW b \in Nat, NEW T \in SUBSET (0..b), T # {}
  PROVE  \E n \in T : \A m \in T : m <= n
<1> DEFINE W == {n..b : n \in T}
<1> DEFINE R == StrictSubsetOrdering(0..b)
<1> DEFINE F == FiniteSubsetsOf(0..b)
<1>1. IsWellFoundedOn(R, F)
  BY FS_StrictSubsetOrderingWellFounded
<1>2. W \subseteq F /\ W # {}
  <2>1. SUFFICES ASSUME NEW n \in T PROVE n..b \in F
    OBVIOUS
  <2>2. IsFiniteSet(n..b)
    BY FS_Interval
  <2>3. n..b \subseteq 0..b
    OBVIOUS
  <2> QED BY <2>2, <2>3 DEF FiniteSubsetsOf
<1>3. PICK w \in W : \A v \in W : ~ (<<v, w>> \in R)
  <2> HIDE DEF R, F, W
  <2> QED BY <1>1, <1>2, WFMin
<1>4. PICK n \in T : w = n..b
  BY <1>3
<1>5. \A m \in T : m <= n
  <2> SUFFICES ASSUME NEW m \in T, m > n PROVE FALSE
    OBVIOUS
  <2>1. m..b \in W
    OBVIOUS
  <2>2. n \in Nat /\ m \in Nat /\ n <= b /\ m <= b
    OBVIOUS
  <2>3. m..b \subseteq n..b /\ n..b \subseteq 0..b
    BY <2>2
  <2>4. n \in n..b /\ n \notin m..b
    BY <2>2
  <2>5. <<m..b, n..b>> \in R
    BY <2>3, <2>4 DEF StrictSubsetOrdering
  <2> QED BY <2>1, <2>5, <1>3, <1>4
<1> QED BY <1>5

\* A nonempty set of naturals has a least element.
LEMMA LeastElement ==
  ASSUME NEW T \in SUBSET Nat, T # {}
  PROVE  \E n \in T : \A m \in T : n <= m
<1>1. PICK b \in T : TRUE
  OBVIOUS
<1> DEFINE U == {k \in 0..b : b - k \in T}
<1>2. 0 \in U
  BY <1>1
<1>3. PICK u \in U : \A v \in U : v <= u
  BY <1>2, GreatestElement
<1>4. b - u \in T /\ b \in Nat /\ u \in 0..b
  BY <1>3
<1>5. \A m \in T : b - u <= m
  <2> SUFFICES ASSUME NEW m \in T, m < b - u PROVE FALSE
    BY <1>4
  <2>1. b - m \in 0..b /\ b - (b - m) = m
    BY <1>4
  <2>2. b - m \in U
    BY <2>1
  <2> QED BY <2>2, <1>3, <1>4
<1> QED BY <1>4, <1>5

\* A set that contains 0 and the successor of each natural it contains
\* contains every natural.
LEMMA NatSetInduction ==
  ASSUME NEW T, 0 \in T, \A n \in Nat : n \in T => n + 1 \in T
  PROVE  Nat \subseteq T
<1> SUFFICES ASSUME Nat \ T # {} PROVE FALSE
  OBVIOUS
<1>1. PICK n \in Nat \ T : \A m \in Nat \ T : n <= m
  <2> DEFINE U == Nat \ T
  <2>1. U \in SUBSET Nat /\ U # {}
    OBVIOUS
  <2> HIDE DEF U
  <2> QED BY <2>1, LeastElement DEF U
<1>2. n # 0 /\ n - 1 \in Nat
  BY <1>1
<1>3. n - 1 \in T
  BY <1>1, <1>2
<1>4. n \in T
  BY <1>2, <1>3
<1> QED BY <1>1, <1>4

-------------------------------------------------------------------------------

\* The items of every list the queue works on are numbered by their place: a
\* new item gets the largest id plus one and no item ever leaves a list.
Numbered(list) == \A i \in DOMAIN list : list[i].id = i

Lists == {list \in Seq(Item) : Numbered(list)}

-------------------------------------------------------------------------------
\* Facts about the lists.

LEMMA ListFacts ==
  ASSUME NEW list \in Lists
  PROVE  /\ list \in Seq(Item)
         /\ Len(list) \in Nat
         /\ DOMAIN list = 1..Len(list)
         /\ \A i \in 1..Len(list) : list[i] \in Item /\ list[i].id = i
BY LenProperties, ElementOfSeq DEF Lists, Numbered

LEMMA EmptyList == <<>> \in Lists
BY EmptySeq DEF Lists, Numbered

\* A list of n items, each with its place as id.
LEMMA IsList ==
  ASSUME NEW n \in Nat, NEW list \in [1..n -> Item], \A i \in 1..n : list[i].id = i
  PROVE  list \in Lists /\ Len(list) = n /\ DOMAIN list = 1..n
<1>1. list \in Seq(Item)
  BY SeqDef
<1>2. DOMAIN list = 1..n
  OBVIOUS
<1>3. Len(list) = n
  BY <1>1, <1>2, LenProperties
<1> QED BY <1>1, <1>2, <1>3 DEF Lists, Numbered

\* _next_id: the largest id of a numbered list is its length.
LEMMA NextIdIsNext ==
  ASSUME NEW list \in Lists
  PROVE  NextId(list) = Len(list) + 1
<1>1. Ids(list) = 1..Len(list)
  BY ListFacts DEF Ids
<1>2. Len(list) \in Nat
  BY ListFacts
<1>3. Len(list) \in Ids(list) \cup {0} /\ \A m \in Ids(list) : m <= Len(list)
  BY <1>1, <1>2
<1>4. \A n \in Ids(list) \cup {0} : (\A m \in Ids(list) : m <= n) => n = Len(list)
  BY <1>1, <1>2
<1>5. MaxId(list) = Len(list)
  BY <1>3, <1>4 DEF MaxId
<1> QED BY <1>5 DEF NextId

\* A new item goes to the end of the list under the next number.
LEMMA AppendNewItem ==
  ASSUME NEW list \in Lists, NEW part \in Part
  PROVE  LET longer == Append(list, NewItem(list, part)) IN
         /\ longer \in Lists
         /\ Len(longer) = Len(list) + 1
         /\ Pairs(list) \subseteq Pairs(longer)
<1> DEFINE item == NewItem(list, part)
           longer == Append(list, item)
<1>1. /\ Len(list) \in Nat /\ list \in Seq(Item) /\ DOMAIN list = 1..Len(list)
      /\ \A i \in 1..Len(list) : list[i].id = i
  BY ListFacts
<1>2. item \in Item /\ item.id = Len(list) + 1
  BY <1>1, NextIdIsNext DEF NewItem, Item, Status
<1>3. /\ longer \in Seq(Item) /\ Len(longer) = Len(list) + 1
      /\ \A i \in 1..Len(list) : longer[i] = list[i]
      /\ longer[Len(list) + 1] = item
  <2> HIDE DEF item
  <2> QED BY <1>1, <1>2, AppendProperties
<1>4. DOMAIN longer = 1..(Len(list) + 1)
  <2> HIDE DEF item
  <2> QED BY <1>3, LenProperties
<1> HIDE DEF item, longer
<1>5. \A i \in DOMAIN longer : longer[i].id = i
  <2> SUFFICES ASSUME NEW i \in 1..(Len(list) + 1) PROVE longer[i].id = i
    BY <1>4
  <2>1. CASE i \in 1..Len(list)
    BY <2>1, <1>1, <1>3
  <2>2. CASE i = Len(list) + 1
    BY <2>2, <1>2, <1>3
  <2> QED BY <2>1, <2>2, <1>1
<1>6. Pairs(list) \subseteq Pairs(longer)
  BY <1>1, <1>3, <1>4 DEF Pairs
<1>7. longer \in Lists /\ Len(longer) = Len(list) + 1 /\ Pairs(list) \subseteq Pairs(longer)
  BY <1>3, <1>5, <1>6 DEF Lists, Numbered
<1> QED BY <1>7 DEF longer, item

\* Marking keeps a list numbered and keeps what the items say.
LEMMA MarkKeepsList ==
  ASSUME NEW list \in Lists, NEW id, NEW status \in Status
  PROVE  /\ AfterMark(list, id, status) \in Lists
         /\ Pairs(AfterMark(list, id, status)) = Pairs(list)
<1> DEFINE marked == AfterMark(list, id, status)
<1>1. /\ Len(list) \in Nat /\ DOMAIN list = 1..Len(list)
      /\ \A i \in 1..Len(list) : list[i] \in Item /\ list[i].id = i
  BY ListFacts
<1>2. \A i \in 1..Len(list) :
        marked[i] \in Item /\ marked[i].id = i /\ marked[i].text = list[i].text
  BY <1>1 DEF AfterMark, Item
<1>3. marked \in [1..Len(list) -> Item] /\ DOMAIN marked = 1..Len(list)
  BY <1>2 DEF AfterMark
<1> HIDE DEF marked
<1>4. marked \in Lists
  BY <1>1, <1>2, <1>3, IsList
<1>5. Pairs(marked) = Pairs(list)
  BY <1>1, <1>2, <1>3 DEF Pairs
<1> QED BY <1>4, <1>5 DEF marked

\* Changing status and link of one item keeps a list, too.
LEMMA RelinkKeepsList ==
  ASSUME NEW list \in Lists, NEW changed,
         changed \in [1..Len(list) -> Item],
         \A i \in 1..Len(list) :
           changed[i].id = list[i].id /\ changed[i].text = list[i].text
  PROVE  changed \in Lists /\ Len(changed) = Len(list) /\ Pairs(changed) = Pairs(list)
<1>1. /\ Len(list) \in Nat /\ DOMAIN list = 1..Len(list)
      /\ \A i \in 1..Len(list) : list[i].id = i
  BY ListFacts
<1>2. changed \in Lists /\ Len(changed) = Len(list) /\ DOMAIN changed = 1..Len(list)
  BY <1>1, IsList
<1>3. Pairs(changed) = Pairs(list)
  BY <1>1, <1>2 DEF Pairs
<1> QED BY <1>2, <1>3

LEMMA LatestExists ==
  ASSUME NEW n \in Nat, NEW S \in SUBSET (1..n), S # {}
  PROVE  Latest(S) \in 0..n
<1>1. S \in SUBSET (0..n)
  OBVIOUS
<1>2. \E i \in S : \A j \in S : j <= i
  BY <1>1, GreatestElement
<1>3. Latest(S) \in S
  BY <1>2 DEF Latest
<1> QED BY <1>1, <1>3

\* The superseded item is one of the list.
LEMMA TargetInList ==
  ASSUME NEW list \in Lists, NEW prompt
  PROVE  TargetOf(list, prompt) \in 0..Len(list)
<1>1. Len(list) \in Nat /\ DOMAIN list = 1..Len(list)
  BY ListFacts
<1>2. ASSUME NEW part PROVE SupersedeTarget(part, list) \in 0..Len(list)
  <2> DEFINE sameRole == {i \in Live(list) : Role(list[i].text) = Role(part)}
             similar == {i \in Live(list) :
                           /\ Overlap(part, list[i].text) >= 2
                           /\ \A j \in Live(list) : Overlap(part, list[j].text)
                                                <= Overlap(part, list[i].text)}
  <2>1. sameRole \in SUBSET (1..Len(list)) /\ similar \in SUBSET (1..Len(list))
    BY <1>1 DEF Live
  <2>2. ASSUME NEW S \in SUBSET (1..Len(list)), S # {}
        PROVE  Latest(S) \in 0..Len(list)
    BY <1>1, <2>2, LatestExists
  <2>3. /\ sameRole # {} => Latest(sameRole) \in 0..Len(list)
        /\ similar # {} => Latest(similar) \in 0..Len(list)
    <3> HIDE DEF sameRole, similar
    <3> QED BY <2>1, <2>2
  <2>4. 0 \in 0..Len(list)
    BY <1>1
  <2> QED BY <2>3, <2>4 DEF SupersedeTarget
<1> QED BY <1>1, <1>2 DEF TargetOf

-------------------------------------------------------------------------------
\* The local state of the sessions.

Labels == {"idle", "wait", "load", "read", "corrupt", "parts", "archive", "open",
           "write", "replace", "return", "unlock"}

LoopOK(p) ==
  pc[p] = "parts" =>
    /\ op[p].kind = "submit"
    /\ loop[p].base <= Len(items[p])
    /\ loop[p].target <= loop[p].base

SessionInv ==
  /\ pc \in [Proc -> Labels]
  /\ op \in [Proc -> Calls]
  /\ items \in [Proc -> Lists]
  /\ loop \in [Proc -> [todo : Seq(Part), base : Nat, target : Nat]]
  /\ \A p \in Proc : LoopOK(p)

LEMMA CallFacts ==
  ASSUME NEW c \in Calls
  PROVE  /\ c.kind \in {"submit", "done", "drop", "clear", "list"}
         /\ c.kind = "submit" => c.prompt \in Prompt /\ c.prompt.parts \in Seq(Part)
BY PromptsAreParts DEF Calls

\* Whatever list a call has loaded, it goes on with a numbered list.
LEMMA ApplyKeepsSession ==
  ASSUME SessionInv, NEW p \in Proc, NEW loaded \in Lists, Apply(p, loaded)
  PROVE  SessionInv'
<1> USE DEF SessionInv, LoopOK, Labels
<1>1. Len(loaded) \in Nat /\ op' = op
  BY ListFacts DEF Apply
<1>2. CASE op[p].kind = "submit" /\ StartLoop(p, loaded)
  <2> DEFINE target == TargetOf(loaded, op[p].prompt)
             marked == [i \in 1..Len(loaded) |->
                IF i = target
                  THEN [loaded[i] EXCEPT !.status = "superseded", !.by = 0]
                  ELSE loaded[i]]
  <2>1. target \in 0..Len(loaded)
    BY TargetInList
  <2>2. \A i \in 1..Len(loaded) : loaded[i] \in Item
    BY ListFacts
  <2>3. /\ marked \in [1..Len(loaded) -> Item]
        /\ \A i \in 1..Len(loaded) :
             marked[i].id = loaded[i].id /\ marked[i].text = loaded[i].text
    BY <2>2 DEF Item, Status
  <2>4. marked \in Lists /\ Len(marked) = Len(loaded)
    <3> HIDE DEF marked
    <3> QED BY <2>3, RelinkKeepsList
  <2>5. op[p].prompt.parts \in Seq(Part)
    BY <1>2, CallFacts
  <2>6. /\ items' = [items EXCEPT ![p] = marked]
        /\ loop' = [loop EXCEPT ![p] = [todo |-> op[p].prompt.parts,
                                       base |-> Len(loaded), target |-> target]]
        /\ pc' = [pc EXCEPT ![p] = IF op[p].prompt.parts = <<>> THEN "unlock" ELSE "parts"]
    BY <1>2 DEF StartLoop, Goto
  <2> HIDE DEF marked, target
  <2> QED BY <1>1, <1>2, <2>1, <2>4, <2>5, <2>6
<1>3. ASSUME NEW status \in Status, MarkItem(p, loaded, status)
      PROVE  SessionInv'
  <2>1. AfterMark(loaded, op[p].id, status) \in Lists
    BY MarkKeepsList
  <2> QED BY <1>1, <1>3, <2>1 DEF MarkItem, Goto
<1>4. CASE op[p].kind = "clear" /\ items' = [items EXCEPT ![p] = loaded]
           /\ Goto(p, "archive") /\ UNCHANGED loop
  BY <1>1, <1>4 DEF Goto
<1>5. CASE op[p].kind = "list" /\ Goto(p, "idle") /\ UNCHANGED <<items, loop>>
  BY <1>1, <1>5 DEF Goto
<1>6. "done" \in Status /\ "dropped" \in Status
  BY DEF Status
<1> QED BY <1>2, <1>3, <1>4, <1>5, <1>6 DEF Apply

LEMMA FinishKeepsSession ==
  ASSUME SessionInv, NEW p \in Proc, Finish(p)
  PROVE  SessionInv'
<1>1. NoCall \in Calls
  BY DEF NoCall, Calls
<1>2. NoLoop \in [todo : Seq(Part), base : Nat, target : Nat]
  BY EmptySeq DEF NoLoop
<1> QED BY <1>1, <1>2, EmptyList DEF Finish, Goto, SessionInv, LoopOK, Labels

LEMMA GotoKeepsSession ==
  ASSUME SessionInv, NEW p \in Proc, NEW label \in Labels \ {"parts"},
         Goto(p, label), UNCHANGED call
  PROVE  SessionInv'
BY DEF Goto, call, SessionInv, LoopOK, Labels

-------------------------------------------------------------------------------
\* The files: every document in an inode is a numbered list.

FileInv ==
  /\ lock \in Proc \cup {NoProc}
  /\ disk \in [Inode -> Lists \cup {Empty, Torn}]
  /\ queue \in Names /\ tmp \in Names
  /\ archived \in [Stamp -> Names] /\ corrupt \in [Stamp -> Names]
  /\ clock \in Stamp /\ calls \in 0..MaxCalls /\ crashes \in 0..MaxCrashes
  /\ fd \in [Proc -> Names]
  /\ accepted \subseteq Nat \X Part

NumberedInv == SessionInv /\ FileInv

LEMMA PairsTyped ==
  ASSUME NEW list \in Lists
  PROVE  Pairs(list) \subseteq Nat \X Part
BY ListFacts DEF Pairs, Item

LEMMA NumberedInit == Init => NumberedInv
<1> SUFFICES ASSUME Init PROVE NumberedInv
  OBVIOUS
<1>1. NoCall \in Calls
  BY DEF NoCall, Calls
<1>2. NoLoop \in [todo : Seq(Part), base : Nat, target : Nat]
  BY EmptySeq DEF NoLoop
<1>3. 0 \in Stamp /\ 0 \in 0..MaxCalls /\ 0 \in 0..MaxCrashes
  BY ConstantsApart DEF Stamp
<1>4. SessionInv
  BY <1>1, <1>2, EmptyList DEF Init, SessionInv, LoopOK, Labels
<1>5. FileInv
  BY <1>3 DEF Init, FileInv, Names
<1> QED BY <1>4, <1>5 DEF NumberedInv

LEMMA NumberedStep == NumberedInv /\ [Next]_vars => NumberedInv'
<1> SUFFICES ASSUME SessionInv, FileInv, [Next]_vars
             PROVE  SessionInv' /\ FileInv'
  BY DEF NumberedInv
<1> USE DEF Labels
<1>1. ASSUME NEW p \in Proc, NEW c \in Calls, Call(p, c)
      PROVE  SessionInv' /\ FileInv'
  <2>1. SessionInv'
    BY <1>1 DEF Call, Goto, SessionInv, LoopOK
  <2>2. FileInv'
    BY <1>1, ConstantsApart DEF Call, FileInv, files
  <2> QED BY <2>1, <2>2
<1>2. ASSUME NEW p \in Proc, Acquire(p) \/ LookUp(p)
      PROVE  SessionInv' /\ FileInv'
  <2>1. SessionInv'
    BY <1>2, GotoKeepsSession DEF Acquire, LookUp
  <2>2. FileInv'
    BY <1>2 DEF Acquire, LookUp, FileInv, files, bounds
  <2> QED BY <2>1, <2>2
<1>3. ASSUME NEW p \in Proc, LoadNothing(p) \/ Load(p)
      PROVE  SessionInv' /\ FileInv'
  <2>1. \E loaded \in Lists : Apply(p, loaded)
    BY <1>3, EmptyList DEF LoadNothing, Load, FileInv, Names
  <2>2. SessionInv'
    BY <2>1, ApplyKeepsSession
  <2>3. FileInv'
    BY <1>3 DEF LoadNothing, Load, FileInv, files, bounds
  <2> QED BY <2>2, <2>3
<1>4. ASSUME NEW p \in Proc, LoadCorrupt(p)
      PROVE  SessionInv' /\ FileInv'
  <2>1. SessionInv'
    BY <1>4, GotoKeepsSession DEF LoadCorrupt
  <2>2. FileInv'
    BY <1>4 DEF LoadCorrupt, FileInv, files, bounds
  <2> QED BY <2>1, <2>2
<1>5. ASSUME NEW p \in Proc, ArchiveCorrupt(p)
      PROVE  SessionInv' /\ FileInv'
  <2>1. SessionInv'
    BY <1>5, EmptyList, ApplyKeepsSession DEF ArchiveCorrupt
  <2>2. FileInv'
    BY <1>5 DEF ArchiveCorrupt, FileInv, bounds, Names
  <2> QED BY <2>1, <2>2
<1>6. ASSUME NEW p \in Proc, ConsiderPart(p)
      PROVE  SessionInv' /\ FileInv'
  <2> DEFINE part == Head(loop[p].todo)
             longer == Append(items[p], NewItem(items[p], part))
  <2>1. /\ loop[p].todo \in Seq(Part) /\ loop[p].todo # <<>>
        /\ part \in Part /\ Tail(loop[p].todo) \in Seq(Part)
    BY <1>6, HeadTailProperties DEF ConsiderPart, SessionInv
  <2>2. items[p] \in Lists /\ Len(items[p]) \in Nat
    BY ListFacts DEF SessionInv
  <2>3. longer \in Lists /\ Len(longer) = Len(items[p]) + 1
    BY <2>1, <2>2, AppendNewItem
  <2>4. /\ items' = items \/ items' = [items EXCEPT ![p] = longer]
        /\ loop' = [loop EXCEPT ![p].todo = Tail(@)]
        /\ pc' = pc /\ op' = op
    BY <1>6 DEF ConsiderPart
  <2> HIDE DEF part, longer
  <2>5. items' \in [Proc -> Lists]
    BY <2>3, <2>4 DEF SessionInv
  <2>6. loop' \in [Proc -> [todo : Seq(Part), base : Nat, target : Nat]]
    BY <2>1, <2>4 DEF SessionInv
  <2>7. Len(items'[p]) >= Len(items[p]) /\ Len(items'[p]) \in Nat
    BY <2>2, <2>3, <2>4 DEF SessionInv
  <2>8. ASSUME NEW r \in Proc PROVE LoopOK(r)'
    <3>1. /\ loop'[r].base = loop[r].base /\ loop'[r].target = loop[r].target
          /\ loop[r].base \in Nat
      BY <2>4 DEF SessionInv
    <3>2. CASE r = p
      BY <2>2, <2>4, <2>7, <3>1, <3>2 DEF LoopOK, SessionInv
    <3>3. CASE r # p
      BY <2>4, <3>1, <3>3 DEF LoopOK, SessionInv
    <3> QED BY <3>2, <3>3
  <2>9. SessionInv'
    BY <2>4, <2>5, <2>6, <2>8 DEF SessionInv
  <2>10. FileInv'
    BY <1>6 DEF ConsiderPart, FileInv, files, bounds
  <2> QED BY <2>9, <2>10
<1>7. ASSUME NEW p \in Proc, LinkSuperseded(p)
      PROVE  SessionInv' /\ FileInv'
  <2>1. SessionInv'
    <3> DEFINE t == loop[p].target
               linked == [items[p] EXCEPT ![t].by = items[p][loop[p].base + 1].id]
    <3>1. CASE t # 0 /\ Len(items[p]) > loop[p].base
      <4>1. /\ items[p] \in Lists /\ Len(items[p]) \in Nat
            /\ items[p] \in [1..Len(items[p]) -> Item]
        BY ListFacts, LenProperties DEF SessionInv
      <4>2. t \in 1..Len(items[p]) /\ loop[p].base + 1 \in 1..Len(items[p])
        BY <1>7, <3>1, <4>1 DEF LinkSuperseded, SessionInv, LoopOK
      <4>3. items[p][loop[p].base + 1].id \in Nat
        BY <4>1, <4>2, ListFacts DEF Item
      <4>4. /\ linked \in [1..Len(items[p]) -> Item]
            /\ \A i \in 1..Len(items[p]) : /\ linked[i].id = items[p][i].id
                                          /\ linked[i].text = items[p][i].text
        BY <4>1, <4>2, <4>3 DEF Item
      <4>5. linked \in Lists
        <5> HIDE DEF linked
        <5> QED BY <4>1, <4>4, RelinkKeepsList
      <4>6. items' = [items EXCEPT ![p] = linked]
        BY <1>7, <3>1 DEF LinkSuperseded
      <4> HIDE DEF linked
      <4> QED BY <1>7, <4>5, <4>6 DEF LinkSuperseded, Goto, SessionInv, LoopOK
    <3>2. CASE ~(t # 0 /\ Len(items[p]) > loop[p].base)
      BY <1>7, <3>2 DEF LinkSuperseded, Goto, SessionInv, LoopOK
    <3> QED BY <3>1, <3>2
  <2>2. FileInv'
    BY <1>7 DEF LinkSuperseded, FileInv, files, bounds
  <2> QED BY <2>1, <2>2
<1>8. ASSUME NEW p \in Proc, ArchiveCleared(p)
      PROVE  SessionInv' /\ FileInv'
  <2>1. SessionInv'
    BY <1>8, EmptyList DEF ArchiveCleared, Goto, SessionInv, LoopOK
  <2>2. FileInv'
    BY <1>8 DEF ArchiveCleared, FileInv, bounds, Names
  <2> QED BY <2>1, <2>2
<1>9. ASSUME NEW p \in Proc, Open(p)
      PROVE  SessionInv' /\ FileInv'
  <2>1. SessionInv'
    BY <1>9, GotoKeepsSession DEF Open
  <2>2. PICK n \in Inode : /\ tmp' = n /\ disk' = [disk EXCEPT ![n] = Empty]
                          /\ fd' = [fd EXCEPT ![p] = n]
    <3>1. CASE tmp # Absent
      BY <1>9, <3>1 DEF Open, FileInv, Names
    <3>2. CASE tmp = Absent
      <4>1. (CHOOSE m \in Inode : m \notin Used) \in Inode
        BY <1>9, <3>2 DEF Open
      <4> QED BY <1>9, <3>2, <4>1 DEF Open
    <3> QED BY <3>1, <3>2
  <2>3. FileInv'
    BY <1>9, <2>2 DEF Open, FileInv, bounds, Names
  <2> QED BY <2>1, <2>3
<1>10. ASSUME NEW p \in Proc, Write(p)
       PROVE  SessionInv' /\ FileInv'
  <2>1. SessionInv'
    BY <1>10, GotoKeepsSession DEF Write
  <2>2. PICK c \in Lists \cup {Torn} : disk' = [disk EXCEPT ![fd[p]] = c]
    BY <1>10 DEF Write, SessionInv
  <2>3. FileInv'
    BY <1>10, <2>2 DEF Write, FileInv, bounds, Names
  <2> QED BY <2>1, <2>3
<1>11. ASSUME NEW p \in Proc, Replace(p)
       PROVE  SessionInv' /\ FileInv'
  <2>1. SessionInv'
    <3>1. CASE Finish(p)
      BY <3>1, FinishKeepsSession
    <3>2. CASE Goto(p, IF tmp = Absent THEN "unlock" ELSE "return") /\ UNCHANGED call
      BY <3>2, GotoKeepsSession
    <3> QED BY <1>11, <3>1, <3>2 DEF Replace
  <2>2. disk' \in [Inode -> Lists \cup {Empty, Torn}]
    BY <1>11 DEF Replace, Freed, FileInv
  <2>3. FileInv'
    BY <1>11, <2>2 DEF Replace, FileInv, bounds, Names
  <2> QED BY <2>1, <2>3
<1>12. ASSUME NEW p \in Proc, Unlock(p)
       PROVE  SessionInv' /\ FileInv'
  <2>1. SessionInv'
    BY <1>12, FinishKeepsSession DEF Unlock
  <2>2. Pairs(items[p]) \subseteq Nat \X Part
    BY PairsTyped DEF SessionInv
  <2>3. FileInv'
    BY <1>12, <2>2 DEF Unlock, FileInv, files, bounds
  <2> QED BY <2>1, <2>3
<1>13. ASSUME NEW p \in Proc, Crash(p)
       PROVE  SessionInv' /\ FileInv'
  <2>1. SessionInv'
    BY <1>13, FinishKeepsSession DEF Crash
  <2>2. FileInv'
    BY <1>13, ConstantsApart DEF Crash, FileInv, files, Names
  <2> QED BY <2>1, <2>2
<1>14. CASE Tick
  <2>1. SessionInv'
    BY <1>14 DEF Tick, call, SessionInv, LoopOK
  <2>2. FileInv'
    BY <1>14, ConstantsApart DEF Tick, FileInv, files, Stamp
  <2> QED BY <2>1, <2>2
<1>15. CASE UNCHANGED vars
  <2>1. SessionInv'
    BY <1>15 DEF vars, call, SessionInv, LoopOK
  <2>2. FileInv'
    BY <1>15 DEF vars, files, bounds, FileInv
  <2> QED BY <2>1, <2>2
<1> QED
  BY <1>1, <1>2, <1>3, <1>4, <1>5, <1>6, <1>7, <1>8, <1>9, <1>10, <1>11, <1>12,
     <1>13, <1>14, <1>15 DEF Next, Step

LEMMA NumberedAlways == Spec => []NumberedInv
BY NumberedInit, NumberedStep, PTL DEF Spec

\* Types, for any sessions, clearing ones among them or not.
THEOREM PromptQueueTyped == Spec => []TypeOK
<1>1. NumberedInv => TypeOK
  <2> SUFFICES ASSUME SessionInv, FileInv PROVE TypeOK
    BY DEF NumberedInv
  <2>1. Lists \subseteq Seq(Item)
    BY DEF Lists
  <2> QED BY <2>1 DEF SessionInv, FileInv, TypeOK, Labels
<1> QED BY <1>1, NumberedAlways, PTL

\* However submits, marks, clears, lists and crashes of any number of sessions
\* interleave, an id names one item of every list that is stored: the lists
\* are numbered by place (lib/prompt_queue.py _next_id, mark_done, drop).
THEOREM IdsAlwaysIdentify == Spec => []IdsIdentify
<1>1. NumberedInv => IdsIdentify
  <2> SUFFICES ASSUME SessionInv, FileInv PROVE IdsIdentify
    BY DEF NumberedInv
  <2>1. ASSUME NEW name \in Names PROVE Content(name) \in Lists
    BY <2>1, EmptyList DEF Content, FileInv, Names
  <2>2. Stored \subseteq Lists
    BY <2>1 DEF Stored, Archives, FileInv
  <2> QED BY <2>2 DEF IdsIdentify, Lists, Numbered
<1> QED BY <1>1, NumberedAlways, PTL

-------------------------------------------------------------------------------
\* Durability, when no session clears. All writes then happen under the lock,
\* so the temporary file belongs to the lock holder, and what it is about to
\* rename over the queue contains everything the queue contains.

Saving == {"parts", "open", "write", "replace", "return", "unlock"}

Quiet == \A p \in Proc : op[p].kind # "clear" /\ pc[p] \notin {"archive", "corrupt"}

Holding(p) ==
  pc[p] \in Saving \/ (pc[p] \in {"load", "read"} /\ op[p].kind \in Locking)

HoldersLock == \A p \in Proc : Holding(p) => lock = p /\ op[p].kind \in Locking

QueueWhole ==
  /\ queue # Absent => disk[queue] \notin {Empty, Torn}
  /\ \A p \in Proc : pc[p] = "read" => queue # Absent

TmpOwned ==
  /\ tmp # Absent => tmp # queue
  /\ \A p \in Proc :
       /\ fd[p] # Absent => pc[p] = "write"
       /\ pc[p] = "write" => tmp # Absent /\ fd[p] = tmp /\ disk[tmp] = Empty
       /\ pc[p] = "replace" => tmp # Absent /\ disk[tmp] = items[p]

Carried ==
  \A p \in Proc :
    /\ pc[p] \in {"parts", "open", "write", "replace"} =>
         Pairs(Content(queue)) \subseteq Pairs(items[p])
    /\ pc[p] = "return" => Pairs(items[p]) \subseteq Pairs(Content(queue))

Kept == accepted \subseteq Pairs(Content(queue))

DurableInv == Quiet /\ HoldersLock /\ QueueWhole /\ TmpOwned /\ Carried /\ Kept

\* The queue keeps what it says when its inode and that inode's bytes do.
LEMMA ContentSame ==
  ASSUME queue' = queue, queue # Absent => disk'[queue] = disk[queue]
  PROVE  Content(queue)' = Content(queue)
BY DEF Content

\* What a locked call does with the list it loaded keeps the pairs of it.
LEMMA ApplyCarries ==
  ASSUME SessionInv, NEW p \in Proc, NEW loaded \in Lists, Apply(p, loaded),
         op[p].kind # "clear"
  PROVE  /\ op' = op
         /\ \A r \in Proc \ {p} : pc'[r] = pc[r] /\ items'[r] = items[r]
         /\ \/ /\ op[p].kind \in Locking
               /\ pc'[p] \in {"parts", "open", "unlock"}
               /\ Pairs(items'[p]) = Pairs(loaded)
            \/ /\ op[p].kind \notin Locking
               /\ pc'[p] = "idle"
<1> USE DEF SessionInv, Locking, Goto
<1>1. op' = op
  BY DEF Apply
<1>2. CASE op[p].kind = "submit" /\ StartLoop(p, loaded)
  <2> DEFINE target == TargetOf(loaded, op[p].prompt)
             marked == [i \in 1..Len(loaded) |->
                IF i = target
                  THEN [loaded[i] EXCEPT !.status = "superseded", !.by = 0]
                  ELSE loaded[i]]
  <2>1. \A i \in 1..Len(loaded) : loaded[i] \in Item
    BY ListFacts
  <2>2. /\ marked \in [1..Len(loaded) -> Item]
        /\ \A i \in 1..Len(loaded) :
             marked[i].id = loaded[i].id /\ marked[i].text = loaded[i].text
    BY <2>1 DEF Item, Status
  <2>3. Pairs(marked) = Pairs(loaded)
    <3> HIDE DEF marked
    <3> QED BY <2>2, RelinkKeepsList
  <2>4. /\ items' = [items EXCEPT ![p] = marked]
        /\ pc' = [pc EXCEPT ![p] = IF op[p].prompt.parts = <<>> THEN "unlock" ELSE "parts"]
    BY <1>2 DEF StartLoop
  <2> HIDE DEF marked, target
  <2> QED BY <1>1, <1>2, <2>3, <2>4
<1>3. ASSUME NEW status \in Status, MarkItem(p, loaded, status),
             op[p].kind \in {"done", "drop"}
      PROVE  /\ pc' = [pc EXCEPT ![p] = pc'[p]] /\ pc'[p] \in {"open", "unlock"}
             /\ items' = [items EXCEPT ![p] = items'[p]]
             /\ Pairs(items'[p]) = Pairs(loaded)
  <2>1. Pairs(AfterMark(loaded, op[p].id, status)) = Pairs(loaded)
    BY MarkKeepsList
  <2> QED BY <1>3, <2>1 DEF MarkItem
<1>4. "done" \in Status /\ "dropped" \in Status
  BY DEF Status
<1>5. CASE op[p].kind = "done" /\ MarkItem(p, loaded, "done")
  BY <1>1, <1>3, <1>4, <1>5
<1>6. CASE op[p].kind = "drop" /\ MarkItem(p, loaded, "dropped")
  BY <1>1, <1>3, <1>4, <1>6
<1>7. CASE op[p].kind = "list" /\ Goto(p, "idle") /\ UNCHANGED <<items, loop>>
  BY <1>1, <1>7
<1> QED BY <1>2, <1>5, <1>6, <1>7 DEF Apply

LEMMA DurableInit == Init => DurableInv
BY EmptyList DEF Init, DurableInv, Quiet, HoldersLock, Holding, Saving, QueueWhole,
   TmpOwned, Carried, Kept, NoCall

\* A step of p that leaves the files alone and does not end in "write" or
\* "replace", or before "open" with less than the queue contains.
LEMMA LocalStepDurable ==
  ASSUME NumberedInv, DurableInv, NEW p \in Proc, UNCHANGED files, fd' = fd,
         pc[p] # "write", pc[p] # "replace",
         \/ accepted' = accepted
         \/ pc[p] = "return" /\ accepted' = accepted \cup Pairs(items[p]),
         \A r \in Proc \ {p} :
           /\ pc'[r] = pc[r] /\ items'[r] = items[r] /\ op'[r] = op[r]
           /\ lock = r => lock' = r,
         op'[p].kind # "clear",
         pc'[p] \notin {"archive", "corrupt", "write", "replace", "return"},
         pc'[p] \in Saving => lock' = p /\ op'[p].kind \in Locking,
         pc'[p] \in {"load", "read"} => lock' = p \/ op'[p].kind \notin Locking,
         pc'[p] = "read" => queue # Absent,
         pc'[p] \in {"parts", "open"} => Pairs(Content(queue)) \subseteq Pairs(items'[p])
  PROVE  DurableInv'
<1> USE DEF DurableInv, files, Labels
<1>1. Content(queue)' = Content(queue)
  BY ContentSame
<1>2. Quiet'
  BY DEF Quiet
<1>3. HoldersLock'
  BY DEF HoldersLock, Holding, Saving
<1>4. QueueWhole'
  BY DEF QueueWhole
<1>5. TmpOwned'
  BY DEF TmpOwned
<1>6. Carried'
  BY <1>1 DEF Carried
<1>7. Kept'
  BY <1>1 DEF Kept, Carried
<1> QED BY <1>2, <1>3, <1>4, <1>5, <1>6, <1>7

LEMMA DurableStep ==
  ASSUME Clearer = {}, NumberedInv, DurableInv, [Next]_vars
  PROVE  DurableInv'
<1> USE DEF NumberedInv
<1>1. /\ pc \in [Proc -> Labels] /\ op \in [Proc -> Calls]
      /\ items \in [Proc -> Lists] /\ fd \in [Proc -> Names]
      /\ lock \in Proc \cup {NoProc} /\ NoProc \notin Proc
      /\ disk \in [Inode -> Lists \cup {Empty, Torn}]
      /\ queue \in Names /\ tmp \in Names
  BY ConstantsApart DEF SessionInv, FileInv
<1>2. /\ Quiet /\ HoldersLock /\ QueueWhole /\ TmpOwned /\ Carried /\ Kept
  BY DEF DurableInv
<1>3. ASSUME NEW p \in Proc, NEW c \in Calls, Call(p, c)
      PROVE  DurableInv'
  <2>1. c.kind # "clear"
    BY <1>3 DEF Call
  <2>2. /\ pc' = [pc EXCEPT ![p] = IF c.kind \in Locking THEN "wait" ELSE "load"]
        /\ op' = [op EXCEPT ![p] = c] /\ pc[p] = "idle"
        /\ UNCHANGED <<lock, items, fd, accepted>> /\ UNCHANGED files
    BY <1>3 DEF Call, Goto
  <2>3. /\ \A r \in Proc \ {p} :
             /\ pc'[r] = pc[r] /\ items'[r] = items[r] /\ op'[r] = op[r]
             /\ lock = r => lock' = r
        /\ pc'[p] \in {"wait", "load"} /\ op'[p] = c
        /\ pc'[p] = "load" => c.kind \notin Locking
    BY <1>1, <2>2
  <2>4. /\ pc'[p] \in Saving => lock' = p /\ op'[p].kind \in Locking
        /\ pc'[p] \in {"load", "read"} => lock' = p \/ op'[p].kind \notin Locking
    BY <2>3 DEF Saving
  <2> QED BY <2>1, <2>2, <2>3, <2>4, LocalStepDurable
<1>4. ASSUME NEW p \in Proc, Acquire(p)
      PROVE  DurableInv'
  <2>1. /\ lock = NoProc /\ lock' = p /\ pc' = [pc EXCEPT ![p] = "load"]
        /\ pc[p] = "wait"
        /\ UNCHANGED <<op, items, fd, accepted>> /\ UNCHANGED files
    BY <1>4 DEF Acquire, Goto, call
  <2>2. op[p].kind # "clear"
    BY <1>2 DEF Quiet
  <2>3. /\ \A r \in Proc \ {p} :
             /\ pc'[r] = pc[r] /\ items'[r] = items[r] /\ op'[r] = op[r]
             /\ lock = r => lock' = r
        /\ pc'[p] = "load" /\ op'[p].kind # "clear"
    BY <1>1, <2>1, <2>2
  <2>4. /\ pc'[p] \in Saving => lock' = p /\ op'[p].kind \in Locking
        /\ pc'[p] \in {"load", "read"} => lock' = p \/ op'[p].kind \notin Locking
    BY <2>1, <2>3 DEF Saving
  <2> QED BY <2>1, <2>2, <2>3, <2>4, LocalStepDurable
<1>19. ASSUME NEW p \in Proc, LookUp(p)
       PROVE  DurableInv'
  <2>1. /\ pc[p] = "load" /\ pc' = [pc EXCEPT ![p] = "read"] /\ queue # Absent
        /\ UNCHANGED <<lock, op, items, fd, accepted>> /\ UNCHANGED files
    BY <1>19 DEF LookUp, Goto, call
  <2>2. op[p].kind # "clear" /\ (op[p].kind \in Locking => lock = p)
    BY <1>2, <2>1 DEF Quiet, HoldersLock, Holding
  <2>3. /\ \A r \in Proc \ {p} :
             /\ pc'[r] = pc[r] /\ items'[r] = items[r] /\ op'[r] = op[r]
             /\ lock = r => lock' = r
        /\ pc'[p] = "read" /\ op'[p].kind # "clear"
        /\ lock' = p \/ op'[p].kind \notin Locking
    BY <1>1, <2>1, <2>2
  <2>4. pc'[p] \notin Saving
    BY <2>3 DEF Saving
  <2> QED BY <2>1, <2>3, <2>4, LocalStepDurable
\* The list that is loaded is the list of the queue.
<1>5. ASSUME NEW p \in Proc, LoadNothing(p) \/ Load(p)
      PROVE  DurableInv'
  <2>1. PICK loaded \in Lists : Apply(p, loaded) /\ loaded = Content(queue)
    BY <1>1, <1>5, EmptyList DEF LoadNothing, Load, Content, Names
  <2>2. op[p].kind # "clear"
    BY <1>2 DEF Quiet
  <2>3. /\ op' = op
        /\ \A r \in Proc \ {p} : pc'[r] = pc[r] /\ items'[r] = items[r]
        /\ \/ /\ op[p].kind \in Locking
              /\ pc'[p] \in {"parts", "open", "unlock"}
              /\ Pairs(items'[p]) = Pairs(loaded)
           \/ /\ op[p].kind \notin Locking
              /\ pc'[p] = "idle"
    BY <2>1, <2>2, ApplyCarries
  <2>4. /\ pc[p] \in {"load", "read"} /\ UNCHANGED files
        /\ lock' = lock /\ fd' = fd /\ accepted' = accepted
    BY <1>5 DEF LoadNothing, Load
  <2>5. op[p].kind \in Locking => lock = p
    BY <1>2, <2>4 DEF HoldersLock, Holding
  <2>6. /\ pc'[p] \in Saving => lock' = p /\ op'[p].kind \in Locking
        /\ pc'[p] \notin {"load", "read", "archive", "corrupt", "write", "replace", "return"}
    BY <2>3, <2>4, <2>5 DEF Saving
  <2>7. pc'[p] \in {"parts", "open"} => Pairs(Content(queue)) \subseteq Pairs(items'[p])
    BY <2>1, <2>3
  <2>8. \A r \in Proc \ {p} :
           /\ pc'[r] = pc[r] /\ items'[r] = items[r] /\ op'[r] = op[r]
           /\ lock = r => lock' = r
    BY <2>3, <2>4
  <2>9. pc[p] # "write" /\ pc[p] # "replace" /\ op'[p].kind # "clear"
    BY <2>2, <2>3, <2>4
  <2> QED BY <2>4, <2>6, <2>7, <2>8, <2>9, LocalStepDurable
<1>6. ASSUME NEW p \in Proc, LoadCorrupt(p)
      PROVE  DurableInv'
  BY <1>2, <1>6 DEF LoadCorrupt, QueueWhole
<1>7. ASSUME NEW p \in Proc, ArchiveCorrupt(p)
      PROVE  DurableInv'
  BY <1>2, <1>7 DEF ArchiveCorrupt, Quiet
<1>8. ASSUME NEW p \in Proc, ConsiderPart(p)
      PROVE  DurableInv'
  <2> DEFINE part == Head(loop[p].todo)
             longer == Append(items[p], NewItem(items[p], part))
  <2>1. part \in Part
    BY <1>8, HeadTailProperties DEF ConsiderPart, SessionInv
  <2>2. Pairs(items[p]) \subseteq Pairs(longer)
    BY <1>1, <2>1, AppendNewItem
  <2>3. /\ items' = items \/ items' = [items EXCEPT ![p] = longer]
        /\ pc[p] = "parts" /\ UNCHANGED files
        /\ UNCHANGED <<lock, pc, op, fd, accepted>>
    BY <1>8 DEF ConsiderPart
  <2> HIDE DEF part, longer
  <2>4. Pairs(items[p]) \subseteq Pairs(items'[p])
    BY <1>1, <2>2, <2>3
  <2>5. Pairs(Content(queue)) \subseteq Pairs(items[p])
    BY <1>2, <2>3 DEF Carried
  <2>6. lock = p /\ op[p].kind \in Locking /\ op[p].kind # "clear"
    BY <1>2, <2>3 DEF HoldersLock, Holding, Saving, Quiet
  <2>7. \A r \in Proc \ {p} : items'[r] = items[r]
    BY <1>1, <2>3
  <2> QED BY <2>3, <2>4, <2>5, <2>6, <2>7, LocalStepDurable
<1>9. ASSUME NEW p \in Proc, LinkSuperseded(p)
      PROVE  DurableInv'
  <2> DEFINE t == loop[p].target
             linked == [items[p] EXCEPT ![t].by = items[p][loop[p].base + 1].id]
  <2>1. /\ \/ items' = items
           \/ /\ t # 0 /\ Len(items[p]) > loop[p].base
              /\ items' = [items EXCEPT ![p] = linked]
        /\ pc[p] = "parts" /\ pc' = [pc EXCEPT ![p] = "open"] /\ UNCHANGED files
        /\ UNCHANGED <<lock, op, fd, accepted>>
    BY <1>9 DEF LinkSuperseded, Goto
  <2>2. ASSUME t # 0, Len(items[p]) > loop[p].base
        PROVE  Pairs(linked) = Pairs(items[p])
    <3>1. /\ items[p] \in Lists /\ Len(items[p]) \in Nat
          /\ items[p] \in [1..Len(items[p]) -> Item]
      BY <1>1, ListFacts, LenProperties
    <3>2. t \in 1..Len(items[p]) /\ loop[p].base + 1 \in 1..Len(items[p])
      BY <2>1, <2>2, <3>1 DEF SessionInv, LoopOK
    <3>3. items[p][loop[p].base + 1].id \in Nat
      BY <3>1, <3>2, ListFacts DEF Item
    <3>4. /\ linked \in [1..Len(items[p]) -> Item]
          /\ \A i \in 1..Len(items[p]) : /\ linked[i].id = items[p][i].id
                                        /\ linked[i].text = items[p][i].text
      BY <3>1, <3>2, <3>3 DEF Item
    <3> HIDE DEF linked, t
    <3> QED BY <3>1, <3>4, RelinkKeepsList
  <2> HIDE DEF linked, t
  <2>3. Pairs(items[p]) = Pairs(items'[p])
    BY <1>1, <2>1, <2>2
  <2>4. Pairs(Content(queue)) \subseteq Pairs(items[p])
    BY <1>2, <2>1 DEF Carried
  <2>5. lock = p /\ op[p].kind \in Locking /\ op[p].kind # "clear"
    BY <1>2, <2>1 DEF HoldersLock, Holding, Saving, Quiet
  <2>6. pc'[p] = "open" /\ \A r \in Proc \ {p} : items'[r] = items[r] /\ pc'[r] = pc[r]
    BY <1>1, <2>1
  <2> QED BY <2>1, <2>3, <2>4, <2>5, <2>6, LocalStepDurable
<1>10. ASSUME NEW p \in Proc, ArchiveCleared(p)
       PROVE  DurableInv'
  BY <1>2, <1>10 DEF ArchiveCleared, Quiet
\* Only the holder of the lock is at any of the steps that save.
<1>11. ASSUME NEW p \in Proc, pc[p] \in Saving
       PROVE  /\ lock = p /\ op[p].kind \in Locking
              /\ \A r \in Proc \ {p} : pc[r] \notin Saving /\ ~Holding(r)
  BY <1>2, <1>11 DEF HoldersLock, Holding
<1>12. ASSUME NEW p \in Proc, Open(p)
       PROVE  DurableInv'
  <2>1. PICK n \in Inode : /\ tmp' = n /\ disk' = [disk EXCEPT ![n] = Empty]
                          /\ fd' = [fd EXCEPT ![p] = n] /\ n # queue
    <3>1. CASE tmp # Absent
      BY <1>1, <1>2, <1>12, <3>1 DEF Open, Names, TmpOwned
    <3>2. CASE tmp = Absent
      <4>1. /\ (CHOOSE m \in Inode : m \notin Used) \in Inode
            /\ (CHOOSE m \in Inode : m \notin Used) \notin Used
        BY <1>12, <3>2 DEF Open
      <4> QED BY <1>12, <3>2, <4>1 DEF Open, Used
    <3> QED BY <3>1, <3>2
  <2>2. /\ pc[p] = "open" /\ pc' = [pc EXCEPT ![p] = "write"]
        /\ UNCHANGED <<lock, queue, items, op, accepted>>
    BY <1>12 DEF Open, Goto, call
  <2>3. \A r \in Proc \ {p} : pc[r] \notin Saving
    BY <1>11, <2>2 DEF Saving
  <2>4. Content(queue)' = Content(queue)
    BY <1>1, <2>1, <2>2, ContentSame
  <2>5. Quiet' /\ HoldersLock'
    BY <1>1, <1>2, <2>2 DEF Quiet, HoldersLock, Holding, Saving
  <2>6. QueueWhole' /\ TmpOwned'
    <3>1. QueueWhole'
      BY <1>1, <1>2, <2>1, <2>2 DEF QueueWhole, Names
    <3>2. tmp' # Absent /\ tmp' # queue'
      BY <2>1, <2>2, ConstantsApart
    <3>3. fd'[p] = tmp' /\ disk'[tmp'] = Empty /\ pc'[p] = "write"
      BY <1>1, <2>1, <2>2
    <3>4. \A r \in Proc \ {p} : fd'[r] = fd[r] /\ pc'[r] = pc[r] /\ fd[r] = Absent
                                 /\ pc[r] \notin {"write", "replace"}
      BY <1>1, <1>2, <2>1, <2>2, <2>3 DEF TmpOwned, Saving
    <3> QED BY <3>1, <3>2, <3>3, <3>4 DEF TmpOwned
  <2>7. Carried' /\ Kept'
    BY <1>1, <1>2, <2>2, <2>4 DEF Carried, Kept
  <2> QED BY <2>5, <2>6, <2>7 DEF DurableInv
<1>13. ASSUME NEW p \in Proc, Write(p)
       PROVE  DurableInv'
  <2>1. /\ pc[p] = "write" /\ pc' = [pc EXCEPT ![p] = "replace"]
        /\ fd' = [fd EXCEPT ![p] = Absent]
        /\ UNCHANGED <<lock, queue, tmp, items, op, accepted>>
    BY <1>13 DEF Write, Goto, call
  <2>2. fd[p] = tmp /\ tmp # Absent /\ tmp # queue /\ disk[tmp] = Empty /\ tmp \in Inode
    BY <1>1, <1>2, <2>1 DEF TmpOwned, Names
  <2>3. disk' = [disk EXCEPT ![tmp] = items[p]]
    BY <1>13, <2>2 DEF Write
  <2>4. Content(queue)' = Content(queue)
    BY <1>1, <2>1, <2>2, <2>3, ContentSame
  <2>5. Quiet' /\ HoldersLock'
    BY <1>1, <1>2, <2>1 DEF Quiet, HoldersLock, Holding, Saving
  <2>6. QueueWhole' /\ TmpOwned'
    <3>1. QueueWhole'
      BY <1>1, <1>2, <2>1, <2>2, <2>3 DEF QueueWhole
    <3>2. \A r \in Proc \ {p} : pc[r] \notin {"write", "replace"}
      BY <1>11, <2>1 DEF Saving
    <3>3. TmpOwned'
      BY <1>1, <1>2, <2>1, <2>2, <2>3, <3>2 DEF TmpOwned
    <3> QED BY <3>1, <3>3
  <2>7. Carried' /\ Kept'
    BY <1>1, <1>2, <2>1, <2>4 DEF Carried, Kept
  <2> QED BY <2>5, <2>6, <2>7 DEF DurableInv
\* The rename: what the queue says grows.
<1>14. ASSUME NEW p \in Proc, Replace(p)
       PROVE  DurableInv'
  <2>1. pc[p] = "replace" /\ op[p].kind \in Locking
    BY <1>11, <1>14 DEF Replace, Saving
  <2>2. tmp # Absent /\ tmp # queue /\ disk[tmp] = items[p] /\ tmp \in Inode
    BY <1>1, <1>2, <2>1 DEF TmpOwned, Names
  <2>3. \A r \in Proc \ {p} : pc[r] \notin Saving
    BY <1>11, <2>1 DEF Saving
  <2>4. /\ disk' = Freed(queue) /\ queue' = tmp /\ tmp' = Absent
        /\ pc' = [pc EXCEPT ![p] = "return"]
        /\ UNCHANGED <<lock, items, op, fd, accepted>>
    BY <1>14, <2>1, <2>2 DEF Replace, Goto, call
  <2>5. disk'[tmp] = items[p]
    BY <1>1, <2>2, <2>4 DEF Freed
  <2>6. items[p] \in Lists /\ items[p] \notin {Empty, Torn}
    BY <1>1, ConstantsApart DEF Lists
  <2>7. Content(queue)' = items[p]
    BY <2>2, <2>4, <2>5, <2>6 DEF Content
  <2>8. Pairs(Content(queue)) \subseteq Pairs(Content(queue)')
    BY <1>2, <2>1, <2>7 DEF Carried
  <2>9. Quiet' /\ HoldersLock'
    BY <1>1, <1>2, <2>1, <2>4 DEF Quiet, HoldersLock, Holding, Saving
  <2>10. QueueWhole' /\ TmpOwned'
    BY <1>1, <1>2, <2>1, <2>2, <2>3, <2>4, <2>5, <2>6 DEF QueueWhole, TmpOwned, Saving
  <2>11. Carried'
    BY <1>1, <2>3, <2>4, <2>7 DEF Carried, Saving
  <2>12. Kept'
    BY <1>2, <2>4, <2>8 DEF Kept
  <2> QED BY <2>9, <2>10, <2>11, <2>12 DEF DurableInv
<1>15. ASSUME NEW p \in Proc, Unlock(p)
       PROVE  DurableInv'
  <2>1. /\ pc[p] \in {"return", "unlock"} /\ lock' = NoProc
        /\ pc' = [pc EXCEPT ![p] = "idle"]
        /\ op' = [op EXCEPT ![p] = NoCall] /\ items' = [items EXCEPT ![p] = <<>>]
        /\ UNCHANGED files /\ fd' = fd
        /\ \/ accepted' = accepted
           \/ pc[p] = "return" /\ accepted' = accepted \cup Pairs(items[p])
    BY <1>15 DEF Unlock, Finish, Goto
  <2>2. /\ lock = p /\ \A r \in Proc \ {p} : lock # r
    BY <1>11, <2>1 DEF Saving
  <2>3. pc'[p] = "idle" /\ op'[p].kind # "clear"
    BY <1>1, <2>1 DEF NoCall
  <2>4. \A r \in Proc \ {p} :
           pc'[r] = pc[r] /\ items'[r] = items[r] /\ op'[r] = op[r]
    BY <1>1, <2>1
  <2>5. pc'[p] \notin Saving
    BY <2>3 DEF Saving
  <2> QED BY <2>1, <2>2, <2>3, <2>4, <2>5, LocalStepDurable
<1>16. ASSUME NEW p \in Proc, Crash(p)
       PROVE  DurableInv'
  <2>1. /\ lock' = (IF lock = p THEN NoProc ELSE lock)
        /\ pc' = [pc EXCEPT ![p] = "idle"] /\ fd' = [fd EXCEPT ![p] = Absent]
        /\ op' = [op EXCEPT ![p] = NoCall] /\ items' = [items EXCEPT ![p] = <<>>]
        /\ UNCHANGED <<disk, queue, tmp, accepted>>
    BY <1>16 DEF Crash, Finish, Goto, files
  <2>2. Content(queue)' = Content(queue)
    BY <2>1, ContentSame
  <2>3. Quiet' /\ HoldersLock'
    BY <1>1, <1>2, <2>1 DEF Quiet, HoldersLock, Holding, Saving, NoCall
  <2>4. QueueWhole' /\ TmpOwned'
    BY <1>1, <1>2, <2>1 DEF QueueWhole, TmpOwned
  <2>5. Carried' /\ Kept'
    BY <1>1, <1>2, <2>1, <2>2 DEF Carried, Kept
  <2> QED BY <2>3, <2>4, <2>5 DEF DurableInv
<1>17. CASE Tick
  BY <1>17 DEF Tick
<1>18. CASE UNCHANGED vars
  BY <1>18, ContentSame DEF vars, files, call, DurableInv, Quiet, HoldersLock, Holding,
     QueueWhole, TmpOwned, Carried, Kept
<1> QED
  BY <1>3, <1>4, <1>5, <1>6, <1>7, <1>8, <1>9, <1>10, <1>12, <1>13, <1>14, <1>15,
     <1>16, <1>17, <1>18, <1>19 DEF Next, Step

\* While nobody clears, an item a submit has reported stays in the queue, for
\* any number of sessions that submit, mark and list and whatever crashes: the
\* promise of the lock and of the atomic rename (lib/prompt_queue.py _locked,
\* _save, submit).
THEOREM SubmittedItemsStay ==
  ASSUME Clearer = {}
  PROVE  Spec => []SubmittedItemsKept
<1>1. NumberedInv /\ DurableInv /\ [Next]_vars => DurableInv'
  BY DurableStep
<1>2. DurableInv => SubmittedItemsKept
  BY DEF DurableInv, Kept, SubmittedItemsKept, Stored
<1> QED
  BY <1>1, <1>2, DurableInit, NumberedAlways, PTL DEF Spec

-------------------------------------------------------------------------------
\* The story a list tells. It is kept by every session on its own, clearing ones
\* among them: a list that is stored is one that some session has written, and
\* what a session writes it has made of a list that was stored.

Linked(list) ==
  \A i \in DOMAIN list : list[i].by # 0 =>
    /\ i < list[i].by /\ list[i].by <= Len(list)
    /\ \A k \in DOMAIN list : list[k].by = list[i].by => k = i

Agreed(list) ==
  \A i, j \in Live(list) : i < j => ~Conflict(list[j].text, list[i].text)

PromptsAgree == \A prompt \in Prompt : SelfConsistent(prompt)

Told(list) == Linked(list) /\ (PromptsAgree => Agreed(list))

\* The parts submit() has not looked at yet contradict neither each other nor
\* those that have become items before them.
TodoAgrees(p) ==
  /\ \A k, l \in 1..Len(loop[p].todo) :
       k < l => ~Conflict(loop[p].todo[l], loop[p].todo[k])
  /\ \A k \in 1..Len(loop[p].todo), i \in 1..Len(items[p]) :
       i > loop[p].base => ~Conflict(loop[p].todo[k], items[p][i].text)

LoopTold(p) ==
  pc[p] = "parts" =>
    /\ \A i \in 1..Len(items[p]) : items[p][i].by <= loop[p].base
    /\ PromptsAgree => TodoAgrees(p)

SessionsTold == \A p \in Proc : Told(items[p]) /\ LoopTold(p)

FilesTold == \A n \in Inode : disk[n] \notin {Empty, Torn} => Told(disk[n])

StoryInv == SessionsTold /\ FilesTold

LEMMA EmptyTold == Told(<<>>)
BY DEF Told, Linked, Agreed, Live

\* Closing items, and taking links away, leaves a story.
LEMMA ClosingKeepsStory ==
  ASSUME NEW list \in Lists, NEW changed \in Lists, Told(list),
         Len(changed) = Len(list),
         \A i \in 1..Len(list) :
           /\ changed[i].text = list[i].text
           /\ changed[i].by \in {list[i].by, 0}
           /\ changed[i].status \notin Closed => list[i].status \notin Closed
  PROVE  Told(changed)
<1>1. DOMAIN list = 1..Len(list) /\ DOMAIN changed = 1..Len(list)
  BY ListFacts
<1>2. Linked(changed)
  BY <1>1 DEF Told, Linked
<1>3. Live(changed) \subseteq Live(list)
  BY <1>1 DEF Live
<1>4. PromptsAgree => Agreed(changed)
  BY <1>1, <1>3 DEF Told, Agreed, Live
<1> QED BY <1>2, <1>4 DEF Told

LEMMA MarkKeepsStory ==
  ASSUME NEW list \in Lists, Told(list), NEW id, NEW status \in Closed
  PROVE  Told(AfterMark(list, id, status))
<1> DEFINE marked == AfterMark(list, id, status)
<1>1. /\ Len(list) \in Nat /\ \A i \in 1..Len(list) : list[i] \in Item
  BY ListFacts
<1>2. marked \in Lists
  BY MarkKeepsList DEF Closed, Status
<1>3. Len(marked) = Len(list)
  <2>1. DOMAIN marked = 1..Len(list)
    BY DEF AfterMark
  <2>2. DOMAIN marked = 1..Len(marked) /\ Len(marked) \in Nat
    <3> HIDE DEF marked
    <3> QED BY <1>2, ListFacts
  <2> HIDE DEF marked
  <2> QED BY <1>1, <2>1, <2>2
<1>4. \A i \in 1..Len(list) :
        /\ marked[i].text = list[i].text
        /\ marked[i].by \in {list[i].by, 0}
        /\ marked[i].status \notin Closed => list[i].status \notin Closed
  BY <1>1 DEF AfterMark, Item
<1> HIDE DEF marked
<1>5. Told(marked)
  BY <1>2, <1>3, <1>4, ClosingKeepsStory
<1> QED BY <1>5 DEF marked

\* A part that contradicts no live item may be added.
LEMMA AppendKeepsStory ==
  ASSUME NEW list \in Lists, Told(list), NEW part \in Part,
         PromptsAgree => \A i \in Live(list) : ~Conflict(part, list[i].text)
  PROVE  LET longer == Append(list, NewItem(list, part)) IN
         /\ Told(longer)
         /\ longer[Len(list) + 1].text = part /\ longer[Len(list) + 1].by = 0
         /\ \A i \in 1..Len(list) : longer[i] = list[i]
<1> DEFINE item == NewItem(list, part)
           longer == Append(list, item)
<1>1. /\ Len(list) \in Nat /\ list \in Seq(Item) /\ DOMAIN list = 1..Len(list)
      /\ \A i \in 1..Len(list) : list[i] \in Item
  BY ListFacts
<1>2. item \in Item /\ item.by = 0 /\ item.text = part
  BY <1>1, NextIdIsNext DEF NewItem, Item, Status
<1>3. longer \in Lists /\ Len(longer) = Len(list) + 1
  BY AppendNewItem
<1>4. /\ \A i \in 1..Len(list) : longer[i] = list[i]
      /\ longer[Len(list) + 1] = item
  <2> HIDE DEF item
  <2> QED BY <1>1, <1>2, AppendProperties
<1> HIDE DEF item, longer
<1>5. DOMAIN longer = 1..(Len(list) + 1)
  BY <1>3, ListFacts
<1>6. \A i \in DOMAIN longer : i \in 1..Len(list) \/ i = Len(list) + 1
  BY <1>1, <1>5
<1>7. Linked(longer)
  <2>1. ASSUME NEW i \in DOMAIN longer, longer[i].by # 0
        PROVE  /\ i < longer[i].by /\ longer[i].by <= Len(list) + 1
               /\ \A k \in DOMAIN longer : longer[k].by = longer[i].by => k = i
    <3>1. i \in 1..Len(list) /\ longer[i] = list[i]
      BY <1>2, <1>4, <1>6, <2>1
    <3>2. /\ i < list[i].by /\ list[i].by <= Len(list) /\ list[i].by \in Nat
          /\ \A k \in 1..Len(list) : list[k].by = list[i].by => k = i
      BY <1>1, <2>1, <3>1 DEF Told, Linked, Item
    <3>3. longer[i].by <= Len(list) + 1
      BY <1>1, <3>1, <3>2
    <3>4. ASSUME NEW k \in DOMAIN longer, longer[k].by = longer[i].by PROVE k = i
      BY <1>2, <1>4, <1>6, <2>1, <3>1, <3>2, <3>4
    <3> QED BY <3>1, <3>2, <3>3, <3>4
  <2> QED BY <1>3, <2>1 DEF Linked
<1>8. ASSUME PromptsAgree PROVE Agreed(longer)
  <2>1. ASSUME NEW i \in Live(longer), NEW j \in Live(longer), i < j
        PROVE  ~Conflict(longer[j].text, longer[i].text)
    <3>1. i \in 1..Len(list) /\ longer[i] = list[i] /\ i \in Live(list)
      BY <1>1, <1>4, <1>5, <2>1 DEF Live
    <3>2. CASE j \in 1..Len(list)
      <4>1. longer[j] = list[j] /\ j \in Live(list)
        BY <1>1, <1>4, <2>1, <3>2 DEF Live
      <4> QED BY <1>8, <2>1, <3>1, <4>1 DEF Told, Agreed
    <3>3. CASE j = Len(list) + 1
      BY <1>2, <1>4, <1>8, <3>1, <3>3
    <3> QED BY <1>6, <2>1, <3>2, <3>3 DEF Live
  <2> QED BY <2>1 DEF Agreed
<1>9. /\ Told(longer)
      /\ longer[Len(list) + 1].text = part /\ longer[Len(list) + 1].by = 0
      /\ \A i \in 1..Len(list) : longer[i] = list[i]
  BY <1>2, <1>4, <1>7, <1>8 DEF Told
<1> QED BY <1>9 DEF longer, item

\* A link to an item that nothing leads to yet.
LEMMA LinkKeepsStory ==
  ASSUME NEW list \in Lists, Told(list), NEW t \in 1..Len(list), NEW n \in 1..Len(list),
         t < n, \A i \in 1..Len(list) : list[i].by < n
  PROVE  Told([list EXCEPT ![t].by = n])
<1> DEFINE linked == [list EXCEPT ![t].by = n]
<1>1. /\ Len(list) \in Nat /\ list \in Seq(Item) /\ DOMAIN list = 1..Len(list)
      /\ \A i \in 1..Len(list) : list[i] \in Item /\ list[i].by \in Nat
  BY ListFacts DEF Item
<1>2. /\ linked[t].by = n
      /\ \A i \in 1..Len(list) : /\ linked[i].text = list[i].text
                                 /\ linked[i].status = list[i].status
                                 /\ i # t => linked[i] = list[i]
  BY <1>1 DEF Item
<1>3. DOMAIN linked = 1..Len(list) /\ Len(linked) = Len(list)
  <2>1. linked \in [1..Len(list) -> Item]
    <3>1. list \in [1..Len(list) -> Item]
      BY <1>1, LenProperties
    <3>2. n \in Nat
      BY <1>1
    <3> QED BY <3>1, <3>2 DEF Item
  <2>2. linked \in Seq(Item)
    <3> HIDE DEF linked
    <3> QED BY <1>1, <2>1, SeqDef
  <2> HIDE DEF linked
  <2> QED BY <1>1, <2>1, <2>2, LenProperties
<1> HIDE DEF linked
<1>4. Linked(linked)
  <2>1. ASSUME NEW i \in 1..Len(list), linked[i].by # 0
        PROVE  /\ i < linked[i].by /\ linked[i].by <= Len(list)
               /\ \A k \in 1..Len(list) : linked[k].by = linked[i].by => k = i
    <3>1. CASE i = t
      BY <1>1, <1>2, <3>1
    <3>2. CASE i # t
      <4>1. linked[i] = list[i]
        BY <1>2, <3>2
      <4>2. /\ i < list[i].by /\ list[i].by <= Len(list)
            /\ \A k \in 1..Len(list) : list[k].by = list[i].by => k = i
        BY <1>1, <2>1, <4>1 DEF Told, Linked
      <4>3. ASSUME NEW k \in 1..Len(list), linked[k].by = linked[i].by PROVE k = i
        BY <1>1, <1>2, <4>1, <4>2, <4>3
      <4> QED BY <4>1, <4>2, <4>3
    <3> QED BY <3>1, <3>2
  <2> QED BY <1>3, <2>1 DEF Linked
<1>5. Live(linked) = Live(list)
  BY <1>1, <1>2, <1>3 DEF Live
<1>6. ASSUME PromptsAgree PROVE Agreed(linked)
  BY <1>1, <1>2, <1>5, <1>6 DEF Told, Agreed, Live
<1>7. Told(linked)
  BY <1>4, <1>6 DEF Told
<1> QED BY <1>7 DEF linked

\* A step of p leaves the other sessions' stories alone.
LEMMA StepTells ==
  ASSUME SessionsTold, NEW p \in Proc, Told(items'[p]), LoopTold(p)',
         \A r \in Proc \ {p} : pc'[r] = pc[r] /\ items'[r] = items[r] /\ loop'[r] = loop[r]
  PROVE  SessionsTold'
<1>1. ASSUME NEW r \in Proc \ {p} PROVE Told(items'[r]) /\ LoopTold(r)'
  BY DEF SessionsTold, LoopTold, TodoAgrees
<1> QED BY <1>1 DEF SessionsTold

LEMMA GotoTells ==
  ASSUME SessionInv, SessionsTold, NEW p \in Proc, NEW label \in Labels \ {"parts"},
         Goto(p, label), loop' = loop,
         items' = items \/ (\E list : Told(list) /\ items' = [items EXCEPT ![p] = list])
  PROVE  SessionsTold'
<1>1. /\ pc'[p] # "parts" /\ Told(items'[p])
      /\ \A r \in Proc \ {p} : pc'[r] = pc[r] /\ items'[r] = items[r] /\ loop'[r] = loop[r]
  BY DEF Goto, SessionInv, SessionsTold
<1> QED BY <1>1, StepTells DEF LoopTold

LEMMA FinishTells ==
  ASSUME SessionInv, SessionsTold, NEW p \in Proc, Finish(p)
  PROVE  SessionsTold'
<1>1. /\ pc'[p] # "parts" /\ items'[p] = <<>>
      /\ \A r \in Proc \ {p} : pc'[r] = pc[r] /\ items'[r] = items[r] /\ loop'[r] = loop[r]
  BY DEF Finish, Goto, SessionInv
<1> QED BY <1>1, StepTells, EmptyTold DEF LoopTold

\* Whatever story a call has loaded, it goes on with a story.
LEMMA ApplyTells ==
  ASSUME SessionInv, SessionsTold, NEW p \in Proc, NEW loaded \in Lists, Told(loaded),
         Apply(p, loaded)
  PROVE  SessionsTold'
<1>1. CASE op[p].kind = "submit" /\ StartLoop(p, loaded)
  <2> DEFINE target == TargetOf(loaded, op[p].prompt)
             marked == [i \in 1..Len(loaded) |->
                IF i = target
                  THEN [loaded[i] EXCEPT !.status = "superseded", !.by = 0]
                  ELSE loaded[i]]
             parts == op[p].prompt.parts
  <2>1. /\ Len(loaded) \in Nat /\ DOMAIN loaded = 1..Len(loaded)
        /\ \A i \in 1..Len(loaded) : loaded[i] \in Item /\ loaded[i].by \in Nat
    BY ListFacts DEF Item
  <2>2. /\ marked \in [1..Len(loaded) -> Item]
        /\ \A i \in 1..Len(loaded) :
             /\ marked[i].id = loaded[i].id /\ marked[i].text = loaded[i].text
             /\ marked[i].by \in {loaded[i].by, 0}
             /\ marked[i].status \notin Closed => loaded[i].status \notin Closed
    BY <2>1 DEF Item, Status, Closed
  <2>3. /\ items' = [items EXCEPT ![p] = marked]
        /\ loop' = [loop EXCEPT ![p] = [todo |-> parts, base |-> Len(loaded),
                                       target |-> target]]
        /\ pc' = [pc EXCEPT ![p] = IF parts = <<>> THEN "unlock" ELSE "parts"]
    BY <1>1 DEF StartLoop, Goto
  <2>4. parts \in Seq(Part) /\ op[p].prompt \in Prompt
    BY <1>1, CallFacts DEF SessionInv
  <2> HIDE DEF marked, target
  <2>5. marked \in Lists /\ Len(marked) = Len(loaded)
    BY <2>2, RelinkKeepsList
  <2>6. Told(marked)
    BY <2>2, <2>5, ClosingKeepsStory
  <2>7. /\ items'[p] = marked /\ loop'[p].todo = parts /\ loop'[p].base = Len(loaded)
        /\ \A r \in Proc \ {p} : pc'[r] = pc[r] /\ items'[r] = items[r] /\ loop'[r] = loop[r]
    BY <2>3 DEF SessionInv
  <2>8. \A i \in 1..Len(loaded) : marked[i].by <= Len(loaded)
    <3>1. \A i \in 1..Len(loaded) : loaded[i].by <= Len(loaded)
      BY <2>1 DEF Told, Linked
    <3> QED BY <2>1, <2>2, <3>1
  <2>9. ASSUME PromptsAgree PROVE TodoAgrees(p)'
    <3>1. SelfConsistent(op[p].prompt)
      BY <2>4, <2>9 DEF PromptsAgree
    <3>2. \A k, l \in 1..Len(parts) : k < l => ~Conflict(parts[l], parts[k])
      <4>1. DOMAIN parts = 1..Len(parts)
        BY <2>4, LenProperties
      <4> QED BY <3>1, <4>1 DEF SelfConsistent
    <3>3. \A i \in 1..Len(items'[p]) : ~ (i > loop'[p].base)
      BY <2>1, <2>5, <2>7
    <3> HIDE DEF parts
    <3> QED BY <2>7, <3>2, <3>3 DEF TodoAgrees
  <2>10. LoopTold(p)'
    BY <2>5, <2>7, <2>8, <2>9 DEF LoopTold
  <2> QED BY <2>6, <2>7, <2>10, StepTells
<1>2. ASSUME NEW status \in Closed, MarkItem(p, loaded, status)
      PROVE  SessionsTold'
  <2>1. Told(AfterMark(loaded, op[p].id, status))
    BY MarkKeepsStory
  <2>2. \E label \in {"open", "unlock"} : Goto(p, label)
    BY <1>2 DEF MarkItem
  <2> QED BY <1>2, <2>1, <2>2, GotoTells DEF MarkItem, Labels
<1>3. CASE op[p].kind = "clear" /\ items' = [items EXCEPT ![p] = loaded]
           /\ Goto(p, "archive") /\ UNCHANGED loop
  BY <1>3, GotoTells DEF Labels
<1>4. CASE op[p].kind = "list" /\ Goto(p, "idle") /\ UNCHANGED <<items, loop>>
  BY <1>4, GotoTells DEF Labels
<1>5. "done" \in Closed /\ "dropped" \in Closed
  BY DEF Closed
<1> QED BY <1>1, <1>2, <1>3, <1>4, <1>5 DEF Apply

\* A turn of the loop: the part has been compared with what was live before the
\* call, and the prompt it belongs to does not contradict itself.
LEMMA PartTells ==
  ASSUME SessionInv, SessionsTold, NEW p \in Proc, ConsiderPart(p)
  PROVE  SessionsTold'
<1> DEFINE todo == loop[p].todo
           part == Head(todo)
           longer == Append(items[p], NewItem(items[p], part))
           heldBack == \E i \in CompareSet(p) : Conflict(part, items[p][i].text)
<1>1. /\ todo \in Seq(Part) /\ todo # <<>>
      /\ part \in Part /\ part = todo[1] /\ Tail(todo) \in Seq(Part)
      /\ Len(Tail(todo)) = Len(todo) - 1 /\ Len(todo) \in Nat \ {0}
      /\ \A k \in 1..Len(Tail(todo)) : Tail(todo)[k] = todo[k + 1]
  BY HeadTailProperties, LenProperties, EmptySeq DEF ConsiderPart, SessionInv
<1>2. /\ items[p] \in Lists /\ Len(items[p]) \in Nat /\ loop[p].base \in Nat
      /\ pc[p] = "parts" /\ Told(items[p]) /\ LoopTold(p) /\ DOMAIN items[p] = 1..Len(items[p])
      /\ loop[p].base <= Len(items[p])
  BY ListFacts DEF ConsiderPart, SessionInv, SessionsTold, LoopOK
<1>3. /\ items' = IF heldBack THEN items ELSE [items EXCEPT ![p] = longer]
      /\ loop' = [loop EXCEPT ![p].todo = Tail(todo)] /\ pc' = pc
  BY DEF ConsiderPart
<1>4. /\ items'[p] = IF heldBack THEN items[p] ELSE longer
      /\ loop'[p].todo = Tail(todo) /\ loop'[p].base = loop[p].base
      /\ \A r \in Proc \ {p} : pc'[r] = pc[r] /\ items'[r] = items[r] /\ loop'[r] = loop[r]
  BY <1>3 DEF SessionInv
<1>5. ASSUME PromptsAgree, ~heldBack, NEW i \in Live(items[p])
      PROVE  ~Conflict(part, items[p][i].text)
  <2>1. i \in 1..Len(items[p])
    BY <1>2 DEF Live
  <2>2. CASE i <= loop[p].base
    BY <1>5, <2>2 DEF CompareSet
  <2>3. CASE i > loop[p].base
    BY <1>1, <1>2, <1>5, <2>1, <2>3 DEF LoopTold, TodoAgrees
  <2> QED BY <1>2, <2>1, <2>2, <2>3
<1>6. ASSUME ~heldBack
      PROVE  /\ Told(longer) /\ Len(longer) = Len(items[p]) + 1
             /\ longer[Len(items[p]) + 1].text = part /\ longer[Len(items[p]) + 1].by = 0
             /\ \A i \in 1..Len(items[p]) : longer[i] = items[p][i]
  <2>1. PromptsAgree => \A i \in Live(items[p]) : ~Conflict(part, items[p][i].text)
    BY <1>5, <1>6
  <2> HIDE DEF part, heldBack
  <2> QED BY <1>1, <1>2, <2>1, AppendKeepsStory, AppendNewItem
<1> HIDE DEF todo, part, longer, heldBack
<1>7. Told(items'[p])
  BY <1>2, <1>4, <1>6
<1>8. ASSUME NEW i \in 1..Len(items'[p])
      PROVE  /\ items'[p][i].by <= loop[p].base
             /\ \/ i \in 1..Len(items[p]) /\ items'[p][i] = items[p][i]
                \/ i > loop[p].base /\ items'[p][i].text = part
  <2>1. CASE i \in 1..Len(items[p])
    BY <1>2, <1>4, <1>6, <2>1 DEF LoopTold
  <2>2. CASE i \notin 1..Len(items[p])
    <3>1. ~heldBack /\ i = Len(items[p]) + 1
      BY <1>2, <1>4, <1>6, <1>8, <2>2
    <3> QED BY <1>2, <1>4, <1>6, <3>1
  <2> QED BY <2>1, <2>2
<1>9. ASSUME PromptsAgree PROVE TodoAgrees(p)'
  <2>0. TodoAgrees(p)
    BY <1>2, <1>9 DEF LoopTold
  <2>1. \A k \in 1..Len(Tail(todo)) : k + 1 \in 1..Len(todo) /\ 1 < k + 1
    BY <1>1
  <2>2. ASSUME NEW k \in 1..Len(Tail(todo)), NEW l \in 1..Len(Tail(todo)), k < l
        PROVE  ~Conflict(Tail(todo)[l], Tail(todo)[k])
    <3>1. k + 1 \in 1..Len(todo) /\ l + 1 \in 1..Len(todo) /\ k + 1 < l + 1
      BY <2>1, <2>2
    <3> QED BY <1>1, <2>0, <3>1 DEF TodoAgrees, todo
  <2>3. ASSUME NEW k \in 1..Len(Tail(todo)), NEW i \in 1..Len(items'[p]), i > loop[p].base
        PROVE  ~Conflict(Tail(todo)[k], items'[p][i].text)
    <3>1. k + 1 \in 1..Len(todo) /\ 1 \in 1..Len(todo) /\ Tail(todo)[k] = todo[k + 1]
      BY <1>1, <2>1
    <3>2. CASE i \in 1..Len(items[p]) /\ items'[p][i] = items[p][i]
      BY <2>0, <2>3, <3>1, <3>2 DEF TodoAgrees, todo
    <3>3. CASE items'[p][i].text = part
      <4>1. ~Conflict(todo[k + 1], todo[1])
        BY <2>0, <2>1, <3>1 DEF TodoAgrees, todo
      <4> QED BY <1>1, <3>1, <3>3, <4>1
    <3> QED BY <1>8, <3>2, <3>3
  <2> QED BY <1>4, <2>2, <2>3 DEF TodoAgrees
<1>10. LoopTold(p)'
  BY <1>4, <1>8, <1>9 DEF LoopTold
<1> QED BY <1>4, <1>7, <1>10, StepTells

LEMMA LinkTells ==
  ASSUME SessionInv, SessionsTold, NEW p \in Proc, LinkSuperseded(p)
  PROVE  SessionsTold'
<1> DEFINE t == loop[p].target
           n == loop[p].base + 1
           linked == [items[p] EXCEPT ![t].by = n]
<1>1. /\ items[p] \in Lists /\ Len(items[p]) \in Nat /\ Told(items[p])
      /\ t \in Nat /\ loop[p].base \in Nat /\ t <= loop[p].base
      /\ \A i \in 1..Len(items[p]) : /\ items[p][i].by <= loop[p].base
                                     /\ items[p][i].by \in Nat /\ items[p][i].id = i
  BY ListFacts DEF LinkSuperseded, SessionInv, SessionsTold, LoopOK, LoopTold, Item
<1>2. Goto(p, "open") /\ loop' = loop
  BY DEF LinkSuperseded
<1>3. CASE t # 0 /\ Len(items[p]) > loop[p].base
  <2>1. t \in 1..Len(items[p]) /\ n \in 1..Len(items[p]) /\ t < n
    BY <1>1, <1>3
  <2>2. \A i \in 1..Len(items[p]) : items[p][i].by < n
    BY <1>1
  <2>3. items' = [items EXCEPT ![p] = linked]
    <3>1. items[p][n].id = n
      BY <1>1, <2>1
    <3>2. items' = [items EXCEPT ![p][t].by = items[p][n].id]
      BY <1>3 DEF LinkSuperseded
    <3> QED BY <3>1, <3>2
  <2> HIDE DEF t, n
  <2>4. Told(linked)
    BY <1>1, <2>1, <2>2, LinkKeepsStory
  <2> QED BY <1>2, <2>3, <2>4, GotoTells DEF Labels
<1>4. CASE ~(t # 0 /\ Len(items[p]) > loop[p].base)
  BY <1>2, <1>4, GotoTells DEF LinkSuperseded, Labels
<1> QED BY <1>3, <1>4

LEMMA StoryInit == Init => StoryInv
BY EmptyTold DEF Init, StoryInv, SessionsTold, LoopTold, FilesTold

LEMMA StoryStep == NumberedInv /\ StoryInv /\ [Next]_vars => StoryInv'
<1> SUFFICES ASSUME SessionInv, FileInv, SessionsTold, FilesTold, [Next]_vars
             PROVE  SessionsTold' /\ FilesTold'
  BY DEF NumberedInv, StoryInv
<1> USE DEF Labels
<1>1. ASSUME disk' = disk PROVE FilesTold'
  BY <1>1 DEF FilesTold
<1>2. ASSUME NEW p \in Proc, NEW c \in Calls, Call(p, c)
      PROVE  SessionsTold' /\ FilesTold'
  <2>1. \E label \in {"wait", "load"} : Goto(p, label)
    BY <1>2 DEF Call
  <2> QED BY <1>1, <1>2, <2>1, GotoTells DEF Call, files
<1>3. ASSUME NEW p \in Proc, Acquire(p) \/ LookUp(p) \/ LoadCorrupt(p)
      PROVE  SessionsTold' /\ FilesTold'
  <2>1. \E label \in {"load", "read", "corrupt"} : Goto(p, label)
    BY <1>3 DEF Acquire, LookUp, LoadCorrupt
  <2> QED BY <1>1, <1>3, <2>1, GotoTells DEF Acquire, LookUp, LoadCorrupt, files, call
<1>4. ASSUME NEW p \in Proc, LoadNothing(p) \/ Load(p) \/ ArchiveCorrupt(p)
      PROVE  SessionsTold' /\ FilesTold'
  <2>1. \E loaded \in Lists : Told(loaded) /\ Apply(p, loaded)
    <3>1. CASE Apply(p, <<>>)
      BY <3>1, EmptyList, EmptyTold
    <3>2. CASE queue # Absent /\ disk[queue] \notin {Empty, Torn} /\ Apply(p, disk[queue])
      BY <3>2 DEF FileInv, FilesTold, Names
    <3> QED BY <1>4, <3>1, <3>2 DEF LoadNothing, Load, ArchiveCorrupt
  <2>2. disk' = disk
    BY <1>4 DEF LoadNothing, Load, ArchiveCorrupt, files
  <2> QED BY <1>1, <2>1, <2>2, ApplyTells
<1>5. ASSUME NEW p \in Proc, ConsiderPart(p)
      PROVE  SessionsTold' /\ FilesTold'
  BY <1>1, <1>5, PartTells DEF ConsiderPart, files
<1>6. ASSUME NEW p \in Proc, LinkSuperseded(p)
      PROVE  SessionsTold' /\ FilesTold'
  BY <1>1, <1>6, LinkTells DEF LinkSuperseded, files
<1>7. ASSUME NEW p \in Proc, ArchiveCleared(p)
      PROVE  SessionsTold' /\ FilesTold'
  BY <1>1, <1>7, GotoTells, EmptyTold DEF ArchiveCleared
<1>8. ASSUME NEW p \in Proc, Open(p)
      PROVE  SessionsTold' /\ FilesTold'
  <2>1. SessionsTold'
    BY <1>8, GotoTells DEF Open, call
  <2>2. \E n : disk' = [disk EXCEPT ![n] = Empty]
    BY <1>8 DEF Open
  <2>3. FilesTold'
    BY <2>2 DEF FilesTold, FileInv
  <2> QED BY <2>1, <2>3
<1>9. ASSUME NEW p \in Proc, Write(p)
      PROVE  SessionsTold' /\ FilesTold'
  <2>1. SessionsTold'
    BY <1>9, GotoTells DEF Write, call
  <2>2. PICK c \in {items[p], Torn} : disk' = [disk EXCEPT ![fd[p]] = c]
    BY <1>9 DEF Write
  <2>3. FilesTold'
    BY <2>2 DEF FilesTold, FileInv, SessionsTold
  <2> QED BY <2>1, <2>3
<1>10. ASSUME NEW p \in Proc, Replace(p)
       PROVE  SessionsTold' /\ FilesTold'
  <2>1. SessionsTold'
    <3>1. CASE Finish(p)
      BY <3>1, FinishTells
    <3>2. CASE Goto(p, IF tmp = Absent THEN "unlock" ELSE "return") /\ UNCHANGED call
      BY <3>2, GotoTells DEF call
    <3> QED BY <1>10, <3>1, <3>2 DEF Replace
  <2>2. disk' = disk \/ \E n : disk' = [disk EXCEPT ![n] = Empty]
    BY <1>10 DEF Replace, Freed
  <2>3. FilesTold'
    BY <2>2 DEF FilesTold, FileInv
  <2> QED BY <2>1, <2>3
<1>11. ASSUME NEW p \in Proc, Unlock(p) \/ Crash(p)
       PROVE  SessionsTold' /\ FilesTold'
  BY <1>1, <1>11, FinishTells DEF Unlock, Crash, files
<1>12. CASE Tick \/ UNCHANGED vars
  <2>1. UNCHANGED <<pc, items, loop, disk>>
    BY <1>12 DEF Tick, vars, call, files
  <2>2. SessionsTold'
    BY <2>1 DEF SessionsTold, LoopTold, TodoAgrees
  <2> QED BY <1>1, <2>1, <2>2
<1> QED
  BY <1>2, <1>3, <1>4, <1>5, <1>6, <1>7, <1>8, <1>9, <1>10, <1>11, <1>12 DEF Next, Step

\* Every list in the queue file or in an archive reads as one story, for any
\* sessions, clearing ones among them: a link leads to a later item and no two
\* links to the same one, and where no prompt contradicts itself, no two live
\* items do (lib/prompt_queue.py submit, _supersede_target, _conflict_between).
THEOREM ListsStayConsistent == Spec => []ListsAreConsistent
<1>1. NumberedInv /\ StoryInv => ListsAreConsistent
  <2> SUFFICES ASSUME SessionInv, FileInv, FilesTold PROVE ListsAreConsistent
    BY DEF NumberedInv, StoryInv
  <2>1. ASSUME NEW name \in Names PROVE Content(name) \in Lists /\ Told(Content(name))
    BY <2>1, EmptyList, EmptyTold DEF Content, FileInv, FilesTold, Names
  <2>2. \A list \in Stored : list \in Lists /\ Told(list)
    BY <2>1 DEF Stored, Archives, FileInv
  <2>3. ASSUME NEW list \in Stored, NEW i \in DOMAIN list, list[i].by # 0
        PROVE  /\ \E j \in DOMAIN list : j > i /\ list[j].id = list[i].by
               /\ \A k \in DOMAIN list : list[k].by = list[i].by => k = i
    <3>1. /\ DOMAIN list = 1..Len(list) /\ Len(list) \in Nat
          /\ \A j \in 1..Len(list) : list[j].id = j
          /\ list[i].by \in Nat
      BY <2>2, <2>3, ListFacts DEF Item
    <3>2. /\ i < list[i].by /\ list[i].by <= Len(list)
          /\ \A k \in DOMAIN list : list[k].by = list[i].by => k = i
      BY <2>2, <2>3 DEF Told, Linked
    <3>3. list[i].by \in DOMAIN list /\ list[list[i].by].id = list[i].by
      BY <3>1, <3>2
    <3> QED BY <3>2, <3>3
  <2>4. SupersededByLater
    BY <2>3 DEF SupersededByLater
  <2>5. LiveItemsAgree
    BY <2>2 DEF LiveItemsAgree, Told, Agreed, PromptsAgree
  <2> QED BY <2>4, <2>5 DEF ListsAreConsistent
<1> QED BY <1>1, NumberedAlways, StoryInit, StoryStep, PTL DEF Spec

-------------------------------------------------------------------------------
\* Refinement: while nobody clears, the files and the sessions are one list that
\* every operation changes in one step. The steps are the renames.

\* The abstract queue speaks of lists as the sessions do.
LEMMA SameWords ==
  ASSUME NEW list, NEW prompt, NEW id, NEW status
  PROVE  /\ Abstract!TargetOf(list, prompt) = TargetOf(list, prompt)
         /\ Abstract!Live(list) = Live(list)
         /\ Abstract!NextId(list) = NextId(list)
         /\ Abstract!Ids(list) = Ids(list)
         /\ Abstract!AfterMark(list, id, status) = AfterMark(list, id, status)
<1>1. Abstract!Live(list) = Live(list)
  BY DEF Abstract!Live, Abstract!Closed, Live, Closed
<1>2. Abstract!Ids(list) = Ids(list)
  BY DEF Abstract!Ids, Ids
<1>3. Abstract!NextId(list) = NextId(list)
  BY DEF Abstract!NextId, Abstract!MaxId, Abstract!Ids, NextId, MaxId, Ids
<1>4. Abstract!AfterMark(list, id, status) = AfterMark(list, id, status)
  BY DEF Abstract!AfterMark, AfterMark
<1>5. \A part : Abstract!SupersedeTarget(part, list) = SupersedeTarget(part, list)
  BY DEF Abstract!SupersedeTarget, Abstract!Live, Abstract!Latest, Abstract!Closed,
         SupersedeTarget, Live, Latest, Closed
<1>6. Abstract!TargetOf(list, prompt) = TargetOf(list, prompt)
  BY <1>5 DEF Abstract!TargetOf, TargetOf
<1> QED BY <1>1, <1>2, <1>3, <1>4, <1>6

LEMMA SameCount == ASSUME NEW S PROVE Abstract!Cardinality(S) = Cardinality(S)
BY DEF Abstract!Cardinality, Cardinality

\* The parts of a prompt that will become items of a list, and how many of them
\* are among the first k.
Fits(list, prompt) == Abstract!Fitting(list, prompt)
Place(list, prompt, k) == Cardinality(Abstract!FittingUpTo(list, prompt, k))

LEMMA FitsFacts ==
  ASSUME NEW list, NEW prompt \in Prompt
  PROVE  /\ Len(prompt.parts) \in Nat /\ DOMAIN prompt.parts = 1..Len(prompt.parts)
         /\ Fits(list, prompt) =
              {k \in 1..Len(prompt.parts) :
                 \A i \in Live(list) \ {TargetOf(list, prompt)} :
                   ~Conflict(prompt.parts[k], list[i].text)}
         /\ IsFiniteSet(Fits(list, prompt))
<1>1. Len(prompt.parts) \in Nat /\ DOMAIN prompt.parts = 1..Len(prompt.parts)
  BY PromptsAreParts, LenProperties
<1>2. Fits(list, prompt) =
        {k \in 1..Len(prompt.parts) :
           \A i \in Live(list) \ {TargetOf(list, prompt)} :
             ~Conflict(prompt.parts[k], list[i].text)}
  BY <1>1, SameWords DEF Fits, Abstract!Fitting
<1>3. IsFiniteSet(1..Len(prompt.parts)) /\ Fits(list, prompt) \in SUBSET (1..Len(prompt.parts))
  BY <1>1, <1>2, FS_Interval
<1>4. IsFiniteSet(Fits(list, prompt))
  BY <1>3, FS_Subset
<1> QED BY <1>1, <1>2, <1>4

LEMMA PlaceFacts ==
  ASSUME NEW list, NEW prompt \in Prompt
  PROVE  /\ Place(list, prompt, 0) = 0
         /\ Place(list, prompt, Len(prompt.parts)) = Cardinality(Fits(list, prompt))
         /\ \A k \in 0..Len(prompt.parts) :
              /\ Place(list, prompt, k) \in Nat
              /\ k + 1 \in Fits(list, prompt) =>
                   Place(list, prompt, k + 1) = Place(list, prompt, k) + 1
              /\ k + 1 \notin Fits(list, prompt) =>
                   Place(list, prompt, k + 1) = Place(list, prompt, k)
<1> DEFINE F == Fits(list, prompt)
           Upto(k) == Abstract!FittingUpTo(list, prompt, k)
           n == Len(prompt.parts)
<1>1. n \in Nat /\ F \subseteq 1..n /\ IsFiniteSet(F)
  BY FitsFacts
<1>2. \A k : Upto(k) = {j \in F : j <= k}
  BY DEF Abstract!FittingUpTo, Fits
<1>3. \A k : Place(list, prompt, k) = Cardinality(Upto(k))
  BY DEF Place
<1> HIDE DEF F, Upto, n
<1>4. \A k : IsFiniteSet(Upto(k)) /\ Cardinality(Upto(k)) \in Nat
  <2>1. \A k : Upto(k) \in SUBSET F
    BY <1>2
  <2>2. \A k : IsFiniteSet(Upto(k))
    BY <1>1, <2>1, FS_Subset
  <2> QED BY <2>2, FS_CardinalityType
<1>5. Place(list, prompt, 0) = 0
  <2>1. Upto(0) = {}
    <3>1. \A j \in F : j \in Nat /\ ~(j <= 0)
      BY <1>1
    <3>2. Upto(0) = {j \in F : j <= 0}
      BY <1>2
    <3> QED BY <3>1, <3>2
  <2> QED BY <1>3, <2>1, FS_EmptySet
<1>6. Place(list, prompt, n) = Cardinality(F)
  <2>1. Upto(n) = F
    <3>1. \A j \in F : j <= n
      BY <1>1
    <3>2. Upto(n) = {j \in F : j <= n}
      BY <1>2
    <3> QED BY <3>1, <3>2
  <2> QED BY <1>3, <2>1
<1>7. ASSUME NEW k \in 0..n
      PROVE  /\ k + 1 \in F => Place(list, prompt, k + 1) = Place(list, prompt, k) + 1
             /\ k + 1 \notin F => Place(list, prompt, k + 1) = Place(list, prompt, k)
  <2>0. /\ \A j \in F : (j <= k + 1 <=> j <= k \/ j = k + 1) /\ (j <= k => j # k + 1)
        /\ ~(k + 1 <= k)
        /\ Upto(k + 1) = {j \in F : j <= k + 1} /\ Upto(k) = {j \in F : j <= k}
    <3>1. \A j \in F : j \in Int
      BY <1>1
    <3>2. k \in Int
      BY <1>1
    <3>3. Upto(k + 1) = {j \in F : j <= k + 1} /\ Upto(k) = {j \in F : j <= k}
      BY <1>2
    <3> QED BY <3>1, <3>2, <3>3
  <2>1. CASE k + 1 \in F
    <3>1. Upto(k + 1) = Upto(k) \cup {k + 1} /\ k + 1 \notin Upto(k)
      BY <2>0, <2>1
    <3>2. Cardinality(Upto(k) \cup {k + 1}) = Cardinality(Upto(k)) + 1
      BY <1>4, <3>1, FS_AddElement
    <3> QED BY <1>3, <2>1, <3>1, <3>2
  <2>2. CASE k + 1 \notin F
    <3>1. Upto(k + 1) = Upto(k)
      BY <2>0, <2>2
    <3> QED BY <1>3, <2>2, <3>1
  <2> QED BY <2>1, <2>2
<1> QED BY <1>3, <1>4, <1>5, <1>6, <1>7 DEF F, n

\* Each of them has a place of its own.
LEMMA NthIs ==
  ASSUME NEW list, NEW prompt \in Prompt, NEW k \in Fits(list, prompt)
  PROVE  Abstract!NthFitting(list, prompt, Place(list, prompt, k)) = k
<1> DEFINE F == Fits(list, prompt)
           Upto(j) == Abstract!FittingUpTo(list, prompt, j)
<1>1. F \subseteq 1..Len(prompt.parts) /\ Len(prompt.parts) \in Nat /\ IsFiniteSet(F)
  BY FitsFacts
<1>2. \A j : Upto(j) = {i \in F : i <= j}
  BY DEF Abstract!FittingUpTo, Fits
<1>3. \A j : IsFiniteSet(Upto(j))
  <2>1. \A j : Upto(j) \in SUBSET F
    BY <1>2
  <2> HIDE DEF F, Upto
  <2> QED BY <1>1, <2>1, FS_Subset
<1> HIDE DEF F, Upto
<1>4. ASSUME NEW i \in F, NEW j \in F, i < j PROVE Cardinality(Upto(i)) # Cardinality(Upto(j))
  <2>1. Upto(i) \in SUBSET Upto(j) /\ Upto(i) # Upto(j)
    <3>1. \A l \in F : l <= i => l <= j
      BY <1>1, <1>4
    <3>2. ~(j <= i) /\ j <= j
      BY <1>1, <1>4
    <3>3. Upto(i) = {l \in F : l <= i} /\ Upto(j) = {l \in F : l <= j}
      BY <1>2
    <3> QED BY <1>4, <3>1, <3>2, <3>3
  <2> QED BY <1>3, <2>1, FS_Subset
<1>5. \A j \in F : Cardinality(Upto(j)) = Cardinality(Upto(k)) => j = k
  <2>1. k \in F /\ \A j \in F : j \in Int
    BY <1>1 DEF F
  <2>2. \A j \in F : j = k \/ j < k \/ k < j
    BY <2>1
  <2> QED BY <1>4, <2>1, <2>2
<1>6. Abstract!NthFitting(list, prompt, Place(list, prompt, k)) =
        CHOOSE j \in F : Cardinality(Upto(j)) = Cardinality(Upto(k))
  <2>1. \A m : Abstract!NthFitting(list, prompt, m) =
                 CHOOSE j \in Abstract!Fitting(list, prompt) :
                   Cardinality(Abstract!FittingUpTo(list, prompt, j)) = m
    BY SameCount DEF Abstract!NthFitting
  <2>2. Place(list, prompt, k) = Cardinality(Upto(k))
    BY DEF Place, Upto
  <2> QED BY <2>1, <2>2, Zenon DEF Fits, F, Upto
<1>7. k \in F
  BY DEF F
<1> QED BY <1>5, <1>6, <1>7


\* How far the loop of submit() has come with a list, and what it has made of it.
NewOne(i, part) == [id |-> i, text |-> part, status |-> "queued", by |-> 0]

Superseded(list, target) ==
  [i \in 1..Len(list) |->
     IF i = target THEN [list[i] EXCEPT !.status = "superseded", !.by = 0] ELSE list[i]]

Taken(prompt, l) == Len(prompt.parts) - Len(l.todo)

Progress(old, prompt, l, list) ==
  /\ l.base = Len(old) /\ l.target = TargetOf(old, prompt)
  /\ Len(l.todo) <= Len(prompt.parts)
  /\ \A k \in 1..Len(l.todo) : l.todo[k] = prompt.parts[Taken(prompt, l) + k]
  /\ Len(list) = Len(old) + Place(old, prompt, Taken(prompt, l))
  /\ \A i \in 1..Len(old) : list[i] = Superseded(old, l.target)[i]
  /\ \A i \in 1..Len(list) : i > Len(old) =>
       \E k \in Fits(old, prompt) : /\ Place(old, prompt, k) = i - Len(old)
                                    /\ list[i] = NewOne(i, prompt.parts[k])

Loops == [todo : Seq(Part), base : Nat, target : Nat]

LEMMA TakenFacts ==
  ASSUME NEW prompt \in Prompt, NEW l \in Loops, Len(l.todo) <= Len(prompt.parts)
  PROVE  /\ Taken(prompt, l) \in 0..Len(prompt.parts)
         /\ l.todo = <<>> => Taken(prompt, l) = Len(prompt.parts)
         /\ l.todo # <<>> =>
              /\ Len(l.todo) \in Nat \ {0} /\ Head(l.todo) = l.todo[1]
              /\ Head(l.todo) \in Part
              /\ Len(Tail(l.todo)) = Len(l.todo) - 1
              /\ \A j \in 1..Len(Tail(l.todo)) : Tail(l.todo)[j] = l.todo[j + 1]
              /\ Taken(prompt, l) + 1 \in 1..Len(prompt.parts)
              /\ Len(prompt.parts) - Len(Tail(l.todo)) = Taken(prompt, l) + 1
<1>1. /\ l.todo \in Seq(Part) /\ Len(l.todo) \in Nat /\ Len(prompt.parts) \in Nat
  BY FitsFacts, LenProperties DEF Loops
<1>2. \A n, m \in Nat : m <= n => n - m \in 0..n /\ (m = 0 => n - m = n)
  OBVIOUS
<1>3. \A n, m \in Nat : m <= n /\ m # 0 => n - m + 1 \in 1..n /\ n - (m - 1) = n - m + 1
  OBVIOUS
<1>4. l.todo = <<>> => Len(l.todo) = 0
  OBVIOUS
<1>5. CASE l.todo = <<>>
  BY <1>1, <1>2, <1>4, <1>5 DEF Taken
<1>6. CASE l.todo # <<>>
  <2>1. /\ Head(l.todo) = l.todo[1] /\ Head(l.todo) \in Part
        /\ Len(Tail(l.todo)) = Len(l.todo) - 1
        /\ \A j \in 1..Len(Tail(l.todo)) : Tail(l.todo)[j] = l.todo[j + 1]
    BY <1>1, <1>6, HeadTailProperties
  <2>2. Len(l.todo) # 0
    BY <1>1, <1>6, EmptySeq
  <2>3. Taken(prompt, l) \in 0..Len(prompt.parts)
    BY <1>1, <1>2 DEF Taken
  <2>4. /\ Taken(prompt, l) + 1 \in 1..Len(prompt.parts)
        /\ Len(prompt.parts) - (Len(l.todo) - 1) = Taken(prompt, l) + 1
    BY <1>1, <1>3, <2>2 DEF Taken
  <2>5. Len(l.todo) \in Nat \ {0}
    BY <1>1, <2>2
  <2> QED BY <1>6, <2>1, <2>3, <2>4, <2>5
<1> QED BY <1>5, <1>6

LEMMA ProgressStarts ==
  ASSUME NEW old \in Lists, NEW prompt \in Prompt, NEW l \in Loops,
         l.todo = prompt.parts, l.base = Len(old), l.target = TargetOf(old, prompt),
         NEW list \in Lists, list = Superseded(old, l.target), Len(list) = Len(old)
  PROVE  Progress(old, prompt, l, list)
<1>1. Len(old) \in Nat /\ Len(prompt.parts) \in Nat
  BY ListFacts, FitsFacts
<1>2. Taken(prompt, l) = 0 /\ Place(old, prompt, 0) = 0
  BY <1>1, PlaceFacts DEF Taken
<1>3. \A k \in 1..Len(l.todo) : l.todo[k] = prompt.parts[Taken(prompt, l) + k]
  BY <1>1, <1>2
<1>4. \A i \in 1..Len(list) : ~(i > Len(old))
  BY <1>1
<1> QED BY <1>1, <1>2, <1>3, <1>4 DEF Progress

\* The items a part is compared with are those of the old list.
LEMMA SameRivals ==
  ASSUME NEW old \in Lists, NEW prompt \in Prompt, NEW l \in Loops, NEW list \in Lists,
         Progress(old, prompt, l, list), NEW part
  PROVE  (\E i \in Live(list) : i <= l.base /\ Conflict(part, list[i].text)) <=>
         (\E i \in Live(old) \ {l.target} : Conflict(part, old[i].text))
<1>1. /\ Len(old) \in Nat /\ DOMAIN old = 1..Len(old) /\ l.base = Len(old)
      /\ Len(list) \in Nat /\ DOMAIN list = 1..Len(list) /\ Len(old) <= Len(list)
      /\ \A i \in 1..Len(old) : old[i] \in Item /\ list[i] = Superseded(old, l.target)[i]
  <2>1. Taken(prompt, l) \in 0..Len(prompt.parts)
    BY TakenFacts DEF Progress
  <2>2. Place(old, prompt, Taken(prompt, l)) \in Nat
    BY <2>1, PlaceFacts
  <2>3. /\ Len(old) \in Nat /\ DOMAIN old = 1..Len(old)
        /\ Len(list) \in Nat /\ DOMAIN list = 1..Len(list)
        /\ \A i \in 1..Len(old) : old[i] \in Item
    BY ListFacts
  <2>4. Len(list) = Len(old) + Place(old, prompt, Taken(prompt, l))
    BY DEF Progress
  <2>5. Len(old) <= Len(list)
    BY <2>2, <2>3, <2>4
  <2> QED BY <2>3, <2>5 DEF Progress
<1>2. \A i \in 1..Len(old) : i # l.target => list[i] = old[i]
  BY <1>1 DEF Superseded
<1>3. \A i \in 1..Len(old) : i = l.target => list[i].status = "superseded"
  BY <1>1 DEF Superseded, Item
<1>4. \A i : i \in Live(list) /\ i <= l.base <=> i \in Live(old) \ {l.target}
  <2>1. ASSUME NEW i \in Live(list), i <= l.base PROVE i \in Live(old) \ {l.target}
    <3>1. i \in 1..Len(old)
      BY <1>1, <2>1 DEF Live
    <3> QED BY <1>1, <1>2, <1>3, <2>1, <3>1 DEF Live, Closed
  <2>2. ASSUME NEW i \in Live(old) \ {l.target} PROVE i \in Live(list) /\ i <= l.base
    <3>1. i \in 1..Len(old) /\ i \in 1..Len(list)
      BY <1>1, <2>2 DEF Live
    <3> QED BY <1>1, <1>2, <2>2, <3>1 DEF Live
  <2> QED BY <2>1, <2>2
<1>5. \A i \in Live(old) \ {l.target} : list[i].text = old[i].text
  BY <1>1, <1>2 DEF Live
<1> QED BY <1>4, <1>5

LEMMA ProgressGoesOn ==
  ASSUME NEW old \in Lists, NEW prompt \in Prompt, NEW l \in Loops, NEW list \in Lists,
         Progress(old, prompt, l, list), l.todo # <<>>,
         NEW next, NEW rest,
         rest = [l EXCEPT !.todo = Tail(@)],
         next = IF \E i \in Live(list) : i <= l.base /\ Conflict(Head(l.todo), list[i].text)
                THEN list ELSE Append(list, NewItem(list, Head(l.todo)))
  PROVE  Progress(old, prompt, rest, next)
<1> DEFINE n == Len(prompt.parts)
           t == Taken(prompt, l)
           part == Head(l.todo)
           heldBack == \E i \in Live(list) : i <= l.base /\ Conflict(part, list[i].text)
<1>1. /\ Len(l.todo) \in Nat \ {0} /\ part = l.todo[1] /\ part \in Part
      /\ Len(Tail(l.todo)) = Len(l.todo) - 1
      /\ \A j \in 1..Len(Tail(l.todo)) : Tail(l.todo)[j] = l.todo[j + 1]
      /\ t \in 0..n /\ t + 1 \in 1..n
      /\ n - Len(Tail(l.todo)) = t + 1 /\ Len(l.todo) <= n
  BY TakenFacts DEF Progress
<1>2. /\ Len(old) \in Nat /\ Len(list) \in Nat /\ n \in Nat
      /\ rest.base = l.base /\ rest.target = l.target /\ rest.todo = Tail(l.todo)
  BY ListFacts, FitsFacts DEF Loops
<1>3. Taken(prompt, rest) = t + 1
  BY <1>1, <1>2 DEF Taken
<1> HIDE DEF n, t
<1>4. part = prompt.parts[t + 1]
  <2>1. 1 \in 1..Len(l.todo)
    BY <1>1
  <2> QED BY <1>1, <2>1 DEF Progress, t
<1>5. ASSUME NEW j \in 1..Len(rest.todo) PROVE rest.todo[j] = prompt.parts[t + 1 + j]
  <2>1. \A m \in Nat : \A i \in 1..m - 1 : i + 1 \in 1..m
    OBVIOUS
  <2>2. j + 1 \in 1..Len(l.todo) /\ j \in 1..Len(Tail(l.todo))
    BY <1>1, <1>2, <1>5, <2>1
  <2>3. t + (j + 1) = t + 1 + j
    BY <1>1, <1>2, <2>2
  <2>4. l.todo[j + 1] = prompt.parts[t + (j + 1)]
    BY <2>2 DEF Progress, t
  <2> QED BY <1>1, <1>2, <2>2, <2>3, <2>4
<1>6. t + 1 \in Fits(old, prompt) <=> ~heldBack
  <2>1. heldBack <=> \E i \in Live(old) \ {l.target} : Conflict(part, old[i].text)
    BY SameRivals
  <2>2. l.target = TargetOf(old, prompt)
    BY DEF Progress
  <2>3. t + 1 \in Fits(old, prompt) <=>
          \A i \in Live(old) \ {l.target} : ~Conflict(prompt.parts[t + 1], old[i].text)
    BY <1>1, <2>2, FitsFacts DEF n
  <2> HIDE DEF part, heldBack
  <2> QED BY <1>4, <2>1, <2>3
<1>7. /\ Place(old, prompt, t) \in Nat
      /\ ~heldBack => Place(old, prompt, t + 1) = Place(old, prompt, t) + 1
      /\ heldBack => Place(old, prompt, t + 1) = Place(old, prompt, t)
  <2> HIDE DEF heldBack
  <2> QED BY <1>1, <1>6, PlaceFacts DEF n
<1>8. Len(list) = Len(old) + Place(old, prompt, t)
  BY DEF Progress, t
<1>9. /\ rest.base = Len(old) /\ rest.target = TargetOf(old, prompt)
      /\ Len(rest.todo) <= Len(prompt.parts)
      /\ \A j \in 1..Len(rest.todo) : rest.todo[j] = prompt.parts[Taken(prompt, rest) + j]
  <2>1. Len(rest.todo) <= n
    BY <1>1, <1>2
  <2> QED BY <1>2, <1>3, <1>5, <2>1 DEF Progress, n
<1>10. CASE heldBack
  <2>1. next = list
    BY <1>10
  <2>2. Len(next) = Len(old) + Place(old, prompt, Taken(prompt, rest))
    BY <1>3, <1>7, <1>8, <1>10, <2>1
  <2>3. \A i \in 1..Len(old) : next[i] = Superseded(old, rest.target)[i]
    BY <1>2, <2>1 DEF Progress
  <2>4. \A i \in 1..Len(next) : i > Len(old) =>
          \E j \in Fits(old, prompt) : /\ Place(old, prompt, j) = i - Len(old)
                                       /\ next[i] = NewOne(i, prompt.parts[j])
    BY <2>1 DEF Progress
  <2> QED BY <1>9, <2>2, <2>3, <2>4 DEF Progress
<1>11. CASE ~heldBack
  <2> DEFINE new == Len(list) + 1
  <2>1. /\ next = Append(list, NewItem(list, part))
        /\ NewItem(list, part) = NewOne(new, part)
    BY <1>11, NextIdIsNext DEF NewItem, NewOne
  <2>2. /\ Len(next) = new /\ \A i \in 1..Len(list) : next[i] = list[i]
        /\ next[new] = NewOne(new, part)
    <3>1. list \in Seq(Item)
      BY ListFacts
    <3>2. NewOne(new, part) \in Item
      BY <1>1, <1>2 DEF NewOne, Item, Status
    <3> HIDE DEF part
    <3> QED BY <2>1, <3>1, <3>2, AppendProperties
  <2>3. Len(next) = Len(old) + Place(old, prompt, Taken(prompt, rest))
    <3>1. \A a, b \in Nat : a + b + 1 = a + (b + 1)
      OBVIOUS
    <3> HIDE DEF heldBack
    <3> QED BY <1>2, <1>3, <1>7, <1>8, <1>11, <2>2, <3>1
  <2>4. \A i \in 1..Len(old) : next[i] = Superseded(old, rest.target)[i]
    <3>1. \A i \in 1..Len(old) : i \in 1..Len(list)
      BY <1>2, <1>7, <1>8
    <3> QED BY <1>2, <2>2, <3>1 DEF Progress
  <2>5. ASSUME NEW i \in 1..Len(next), i > Len(old)
        PROVE  \E j \in Fits(old, prompt) : /\ Place(old, prompt, j) = i - Len(old)
                                            /\ next[i] = NewOne(i, prompt.parts[j])
    <3>1. CASE i \in 1..Len(list)
      <4>1. next[i] = list[i]
        BY <2>2, <3>1
      <4> QED BY <2>5, <3>1, <4>1 DEF Progress
    <3>2. CASE i = new
      <4>1. t + 1 \in Fits(old, prompt)
        BY <1>6, <1>11
      <4>2. Place(old, prompt, t + 1) = i - Len(old)
        <5>1. \A a, b \in Nat : a + b + 1 - a = b + 1
          OBVIOUS
        <5> HIDE DEF heldBack
        <5> QED BY <1>2, <1>7, <1>8, <1>11, <3>2, <5>1
      <4>3. next[i] = NewOne(i, prompt.parts[t + 1])
        BY <1>4, <2>2, <3>2
      <4> QED BY <4>1, <4>2, <4>3
    <3> QED BY <1>2, <2>2, <2>5, <3>1, <3>2
  <2> QED BY <1>9, <2>3, <2>4, <2>5 DEF Progress
<1> QED BY <1>10, <1>11


\* After the loop the list is the one the abstract queue would have.
LEMMA AddedIs ==
  ASSUME NEW old \in Lists, NEW prompt \in Prompt, NEW k \in Fits(old, prompt),
         NEW i \in Nat, Place(old, prompt, k) = i - Len(old)
  PROVE  Abstract!Added(old, prompt, i - Len(old)) = NewOne(i, prompt.parts[k])
<1>1. Abstract!NthFitting(old, prompt, i - Len(old)) = k
  BY NthIs
<1>2. Abstract!NextId(old) = Len(old) + 1 /\ Len(old) \in Nat
  BY SameWords, NextIdIsNext, ListFacts
<1>3. Len(old) + 1 + (i - Len(old)) - 1 = i
  BY <1>2
<1> QED BY <1>1, <1>2, <1>3 DEF Abstract!Added, Abstract!NewItem, NewOne

LEMMA ProgressEnds ==
  ASSUME NEW old \in Lists, NEW prompt \in Prompt, NEW l \in Loops, NEW list \in Lists,
         Progress(old, prompt, l, list), l.todo = <<>>, l.target <= l.base,
         NEW final,
         final = IF l.target # 0 /\ Len(list) > l.base
                 THEN [list EXCEPT ![l.target].by = list[l.base + 1].id] ELSE list
  PROVE  final = Abstract!AfterSubmit(old, prompt)
<1> DEFINE m == Cardinality(Fits(old, prompt))
           target == TargetOf(old, prompt)
<1>1. /\ Len(old) \in Nat /\ Len(list) \in Nat /\ DOMAIN list = 1..Len(list)
      /\ list \in [1..Len(list) -> Item]
      /\ \A i \in 1..Len(list) : list[i].id = i
      /\ \A i \in 1..Len(old) : old[i] \in Item
  BY ListFacts, LenProperties
<1>2. m \in Nat /\ Len(list) = Len(old) + m
  <2>1. Taken(prompt, l) = Len(prompt.parts)
    BY TakenFacts DEF Progress
  <2>2. Place(old, prompt, Len(prompt.parts)) = m /\ m \in Nat
    BY PlaceFacts, FitsFacts, FS_CardinalityType
  <2> QED BY <2>1, <2>2 DEF Progress
<1>3. target = l.target /\ l.base = Len(old) /\ target \in Nat /\ target <= Len(old)
  BY DEF Progress, Loops
<1>4. /\ \A i \in 1..Len(old) : list[i] = Superseded(old, target)[i]
      /\ \A i \in 1..Len(list) : i > Len(old) =>
           Abstract!Added(old, prompt, i - Len(old)) = list[i]
  <2>1. ASSUME NEW i \in 1..Len(list), i > Len(old)
        PROVE  Abstract!Added(old, prompt, i - Len(old)) = list[i]
    <3>1. PICK k \in Fits(old, prompt) : /\ Place(old, prompt, k) = i - Len(old)
                                         /\ list[i] = NewOne(i, prompt.parts[k])
      BY <2>1 DEF Progress
    <3>2. i \in Nat
      BY <1>1
    <3> QED BY <3>1, <3>2, AddedIs
  <2> QED BY <1>3, <2>1 DEF Progress
<1>5. /\ Abstract!AfterSubmit(old, prompt) =
           [i \in 1..Len(list) |->
              IF i = target
                THEN [old[i] EXCEPT !.status = "superseded",
                                    !.by = IF m = 0 THEN 0 ELSE Len(old) + 1]
              ELSE IF i <= Len(old) THEN old[i]
              ELSE Abstract!Added(old, prompt, i - Len(old))]
  <2>1. Abstract!Cardinality(Abstract!Fitting(old, prompt)) = m
    BY SameCount DEF Fits
  <2>2. Abstract!NextId(old) = Len(old) + 1 /\ Abstract!TargetOf(old, prompt) = target
    BY SameWords, NextIdIsNext
  <2> HIDE DEF m, target
  <2> QED BY <1>2, <2>1, <2>2 DEF Abstract!AfterSubmit
<1>6. /\ final \in [1..Len(list) -> Item]
      /\ \A i \in 1..Len(list) : final[i] =
           IF i = target /\ m # 0 THEN [list[i] EXCEPT !.by = Len(old) + 1] ELSE list[i]
  <2> HIDE DEF m, target
  <2>1. CASE target # 0 /\ m # 0
    <3>1. /\ target \in 1..Len(list) /\ Len(old) + 1 \in 1..Len(list)
          /\ Len(list) > l.base /\ l.target # 0
      BY <1>1, <1>2, <1>3, <2>1
    <3>2. final = [list EXCEPT ![target].by = Len(old) + 1]
      BY <1>1, <1>3, <3>1
    <3>3. Len(old) + 1 \in Nat
      BY <1>1
    <3>4. [list[target] EXCEPT !.by = Len(old) + 1] \in Item
      BY <1>1, <3>1, <3>3 DEF Item
    <3>5. /\ final \in [1..Len(list) -> Item]
          /\ final[target] = [list[target] EXCEPT !.by = Len(old) + 1]
          /\ \A i \in 1..Len(list) : i # target => final[i] = list[i]
      BY <1>1, <3>1, <3>2, <3>4
    <3> QED BY <2>1, <3>5
  <2>2. CASE target = 0 \/ m = 0
    <3>1. final = list
      BY <1>1, <1>2, <1>3, <2>2
    <3>2. \A i \in 1..Len(list) : ~(i = target /\ m # 0)
      BY <1>1, <2>2
    <3> QED BY <1>1, <3>1, <3>2
  <2> QED BY <2>1, <2>2
<1>7. ASSUME NEW i \in 1..Len(list)
      PROVE  final[i] = Abstract!AfterSubmit(old, prompt)[i]
  <2> HIDE DEF m, target
  <2>1. CASE i <= Len(old)
    <3>1. /\ i \in 1..Len(old) /\ list[i] = Superseded(old, target)[i] /\ old[i] \in Item
      BY <1>1, <1>4, <1>7, <2>1
    <3>2. CASE i = target
      <4>1. list[i] = [old[i] EXCEPT !.status = "superseded", !.by = 0]
        BY <3>1, <3>2 DEF Superseded
      <4>2. Abstract!AfterSubmit(old, prompt)[i] =
              [old[i] EXCEPT !.status = "superseded", !.by = IF m = 0 THEN 0 ELSE Len(old) + 1]
        BY <1>5, <3>2
      <4>3. final[i] = IF m # 0 THEN [list[i] EXCEPT !.by = Len(old) + 1] ELSE list[i]
        BY <1>6, <3>2
      <4>4. [[old[i] EXCEPT !.status = "superseded", !.by = 0] EXCEPT !.by = Len(old) + 1] =
              [old[i] EXCEPT !.status = "superseded", !.by = Len(old) + 1]
        BY <3>1 DEF Item
      <4>5. CASE m = 0
        BY <4>1, <4>2, <4>3, <4>5
      <4>6. CASE m # 0
        BY <4>1, <4>2, <4>3, <4>4, <4>6
      <4> QED BY <4>5, <4>6
    <3>3. CASE i # target
      BY <1>5, <1>6, <2>1, <3>1, <3>3 DEF Superseded
    <3> QED BY <3>2, <3>3
  <2>2. CASE i > Len(old)
    <3>1. i # target /\ ~(i <= Len(old))
      BY <1>1, <1>3, <2>2
    <3> QED BY <1>4, <1>5, <1>6, <2>2, <3>1
  <2> QED BY <1>1, <2>1, <2>2
<1> HIDE DEF m, target
<1> QED BY <1>5, <1>6, <1>7

-------------------------------------------------------------------------------
\* What a session is about to save is what its call makes of the list that is
\* still in the queue file.
Result(p) ==
  \/ /\ op[p].kind = "submit"
     /\ items[p] = Abstract!AfterSubmit(Content(queue), op[p].prompt)
  \/ \E status \in {"done", "dropped"} :
       /\ op[p].kind \in {"done", "drop"} /\ op[p].id \in Ids(Content(queue))
       /\ items[p] = AfterMark(Content(queue), op[p].id, status)

SessionAtomic(p) ==
  /\ pc[p] = "parts" => Progress(Content(queue), op[p].prompt, loop[p], items[p])
  /\ pc[p] \in {"open", "write", "replace"} => Result(p)

AtomicInv == (\A p \in Proc : SessionAtomic(p)) /\ \A s \in Stamp : archived[s] = Absent

LEMMA AtomicLocal ==
  ASSUME AtomicInv, NEW p \in Proc, Content(queue)' = Content(queue), archived' = archived,
         \A r \in Proc \ {p} : /\ pc'[r] = pc[r] /\ op'[r] = op[r]
                               /\ items'[r] = items[r] /\ loop'[r] = loop[r],
         SessionAtomic(p)'
  PROVE  AtomicInv'
<1>1. ASSUME NEW r \in Proc \ {p} PROVE SessionAtomic(r)'
  <2>1. SessionAtomic(r)
    BY DEF AtomicInv
  <2> QED BY <2>1 DEF SessionAtomic, Result
<1> QED BY <1>1 DEF AtomicInv

\* What the queue says is changed by nothing but a rename.
LEMMA OnlyReplaceChanges ==
  ASSUME Clearer = {}, NumberedInv, DurableInv, [Next]_vars,
         \A p \in Proc : ~Replace(p)
  PROVE  Content(queue)' = Content(queue) /\ archived' = archived
<1>1. /\ disk \in [Inode -> Lists \cup {Empty, Torn}] /\ queue \in Names /\ tmp \in Names
      /\ Quiet /\ QueueWhole /\ TmpOwned
  BY DEF NumberedInv, FileInv, DurableInv
<1>2. CASE disk' = disk /\ queue' = queue /\ archived' = archived
  BY <1>2, ContentSame
<1>3. ASSUME NEW p \in Proc, LoadCorrupt(p) \/ ArchiveCorrupt(p) \/ ArchiveCleared(p)
      PROVE  FALSE
  BY <1>1, <1>3 DEF LoadCorrupt, ArchiveCorrupt, ArchiveCleared, Quiet, QueueWhole
<1>4. ASSUME NEW p \in Proc, Open(p)
      PROVE  Content(queue)' = Content(queue) /\ archived' = archived
  <2>1. PICK n \in Inode : disk' = [disk EXCEPT ![n] = Empty] /\ n # queue
    <3>1. CASE tmp # Absent
      BY <1>1, <1>4, <3>1 DEF Open, Names, TmpOwned
    <3>2. CASE tmp = Absent
      <4>1. /\ (CHOOSE m \in Inode : m \notin Used) \in Inode
            /\ (CHOOSE m \in Inode : m \notin Used) \notin Used
        BY <1>4, <3>2 DEF Open
      <4> QED BY <1>4, <3>2, <4>1 DEF Open, Used
    <3> QED BY <3>1, <3>2
  <2>2. queue' = queue /\ archived' = archived
    BY <1>4 DEF Open
  <2> QED BY <1>1, <2>1, <2>2, ContentSame
<1>5. ASSUME NEW p \in Proc, Write(p)
      PROVE  Content(queue)' = Content(queue) /\ archived' = archived
  <2>1. fd[p] # queue
    BY <1>1, <1>5 DEF Write, TmpOwned
  <2>2. queue' = queue /\ archived' = archived /\ \E c : disk' = [disk EXCEPT ![fd[p]] = c]
    BY <1>5 DEF Write
  <2> QED BY <1>1, <2>1, <2>2, ContentSame
<1>6. ASSUME NEW p \in Proc, \/ \E c \in Calls : Call(p, c)
                             \/ Acquire(p) \/ LookUp(p) \/ LoadNothing(p) \/ Load(p)
                             \/ ConsiderPart(p)
                             \/ LinkSuperseded(p) \/ Unlock(p) \/ Crash(p)
      PROVE  disk' = disk /\ queue' = queue /\ archived' = archived
  BY <1>6 DEF Call, Acquire, LookUp, LoadNothing, Load, ConsiderPart, LinkSuperseded, Unlock,
     Crash, files
<1>7. CASE Tick \/ UNCHANGED vars
  BY <1>2, <1>7 DEF Tick, vars, files
<1> QED BY <1>2, <1>3, <1>4, <1>5, <1>6, <1>7 DEF Next, Step


LEMMA AtomicInit == Init => AtomicInv
<1> SUFFICES ASSUME Init PROVE AtomicInv
  OBVIOUS
<1>1. \A p \in Proc : pc[p] = "idle"
  BY DEF Init
<1>2. \A s \in Stamp : archived[s] = Absent
  BY DEF Init
<1> QED BY <1>1, <1>2 DEF AtomicInv, SessionAtomic

\* A call starts from the list that is in the queue file.
LEMMA ApplyIsAtomic ==
  ASSUME SessionInv, NEW p \in Proc, Content(queue) \in Lists, Apply(p, Content(queue)),
         op[p].kind # "clear", Content(queue)' = Content(queue)
  PROVE  /\ op' = op /\ SessionAtomic(p)'
         /\ \A r \in Proc \ {p} : /\ pc'[r] = pc[r] /\ items'[r] = items[r]
                                  /\ loop'[r] = loop[r]
<1> DEFINE old == Content(queue)
           prompt == op[p].prompt
<1>1. /\ pc \in [Proc -> Labels] /\ op \in [Proc -> Calls]
      /\ items \in [Proc -> Lists]
      /\ loop \in [Proc -> [todo : Seq(Part), base : Nat, target : Nat]]
      /\ op' = op
  BY DEF SessionInv, Apply
<1>2. CASE op[p].kind = "submit" /\ StartLoop(p, old)
  <2> DEFINE target == TargetOf(old, prompt)
             marked == [i \in 1..Len(old) |->
                IF i = target
                  THEN [old[i] EXCEPT !.status = "superseded", !.by = 0]
                  ELSE old[i]]
             l == [todo |-> prompt.parts, base |-> Len(old), target |-> target]
  <2>1. /\ items' = [items EXCEPT ![p] = marked]
        /\ loop' = [loop EXCEPT ![p] = l]
        /\ pc' = [pc EXCEPT ![p] = IF prompt.parts = <<>> THEN "unlock" ELSE "parts"]
    BY <1>2 DEF StartLoop, Goto
  <2>2. prompt \in Prompt /\ prompt.parts \in Seq(Part)
    BY <1>1, <1>2, CallFacts
  <2>3. target \in 0..Len(old) /\ Len(old) \in Nat
    BY <2>2, TargetInList, ListFacts
  <2>4. l \in Loops
    BY <2>2, <2>3 DEF Loops
  <2>5. /\ \A i \in 1..Len(old) : old[i] \in Item
        /\ old \in Lists
    BY ListFacts
  <2>6. /\ marked \in [1..Len(old) -> Item]
        /\ \A i \in 1..Len(old) :
             marked[i].id = old[i].id /\ marked[i].text = old[i].text
    BY <2>5 DEF Item, Status
  <2>7. marked \in Lists /\ Len(marked) = Len(old)
    <3> HIDE DEF marked, old
    <3> QED BY <2>5, <2>6, RelinkKeepsList
  <2>8. /\ l.todo = prompt.parts /\ l.base = Len(old) /\ l.target = TargetOf(old, prompt)
        /\ marked = Superseded(old, l.target)
    BY DEF Superseded
  <2>9. Progress(old, prompt, l, marked)
    <3> HIDE DEF l, marked, target, old, prompt
    <3> QED BY <2>2, <2>4, <2>5, <2>7, <2>8, ProgressStarts
  <2>10. items'[p] = marked /\ loop'[p] = l /\ pc'[p] \in {"unlock", "parts"}
    <3> HIDE DEF l, marked
    <3> QED BY <1>1, <2>1
  <2>11. \A r \in Proc \ {p} : /\ pc'[r] = pc[r] /\ items'[r] = items[r]
                                /\ loop'[r] = loop[r]
    <3> HIDE DEF l, marked
    <3> QED BY <1>1, <2>1
  <2>12. SessionAtomic(p)'
    <3> HIDE DEF l, marked, target
    <3> QED BY <1>1, <2>9, <2>10 DEF SessionAtomic
  <2> QED BY <1>1, <2>11, <2>12
<1>3. ASSUME NEW status \in {"done", "dropped"}, op[p].kind \in {"done", "drop"},
             MarkItem(p, old, status)
      PROVE  /\ SessionAtomic(p)'
             /\ \A r \in Proc \ {p} : /\ pc'[r] = pc[r] /\ items'[r] = items[r]
                                      /\ loop'[r] = loop[r]
  <2>1. /\ items' = [items EXCEPT ![p] = AfterMark(old, op[p].id, status)]
        /\ pc' = [pc EXCEPT ![p] = IF op[p].id \in Ids(old) THEN "open" ELSE "unlock"]
        /\ loop' = loop
    BY <1>3 DEF MarkItem, Goto
  <2>2. items'[p] = AfterMark(old, op[p].id, status)
    BY <1>1, <2>1
  <2>3. pc'[p] \in {"open", "unlock"} /\ (pc'[p] = "open" => op[p].id \in Ids(old))
    BY <1>1, <2>1
  <2>4. pc'[p] = "open" => Result(p)'
    BY <1>1, <1>3, <2>2, <2>3 DEF Result
  <2> QED BY <1>1, <2>1, <2>3, <2>4 DEF SessionAtomic
<1>4. CASE op[p].kind = "list" /\ Goto(p, "idle") /\ UNCHANGED <<items, loop>>
  <2>1. pc'[p] = "idle"
    BY <1>1, <1>4 DEF Goto
  <2> QED BY <1>1, <1>4, <2>1 DEF Goto, SessionAtomic
<1> QED BY <1>1, <1>2, <1>3, <1>4 DEF Apply

LEMMA AtomicStep ==
  ASSUME Clearer = {}, NumberedInv, DurableInv, AtomicInv, [Next]_vars
  PROVE  AtomicInv'
<1>1. /\ pc \in [Proc -> Labels] /\ op \in [Proc -> Calls]
      /\ items \in [Proc -> Lists]
      /\ loop \in [Proc -> [todo : Seq(Part), base : Nat, target : Nat]]
      /\ disk \in [Inode -> Lists \cup {Empty, Torn}]
      /\ queue \in Names /\ tmp \in Names
      /\ \A p \in Proc : LoopOK(p)
      /\ SessionInv
  BY DEF NumberedInv, SessionInv, FileInv
<1>2. Quiet /\ HoldersLock /\ QueueWhole /\ TmpOwned
  BY DEF DurableInv
<1>3. Content(queue) \in Lists
  BY <1>1, <1>2, EmptyList DEF Content, Names, QueueWhole
<1>4. ASSUME \A p \in Proc : ~Replace(p)
      PROVE  Content(queue)' = Content(queue) /\ archived' = archived
  BY <1>4, OnlyReplaceChanges
\* A session that ends up outside the steps that save has nothing to show.
<1>5. ASSUME NEW p \in Proc, \A r \in Proc : ~Replace(r),
             pc'[p] \notin {"parts", "open", "write", "replace"},
             \A r \in Proc \ {p} : /\ pc'[r] = pc[r] /\ op'[r] = op[r]
                                   /\ items'[r] = items[r] /\ loop'[r] = loop[r]
      PROVE  AtomicInv'
  <2>1. SessionAtomic(p)'
    BY <1>5 DEF SessionAtomic
  <2> QED BY <1>4, <1>5, <2>1, AtomicLocal
\* The rename is the step of a session that holds the lock: no other one saves.
<1>6. ASSUME NEW p \in Proc, Replace(p)
      PROVE  AtomicInv'
  <2>1. pc[p] = "replace" /\ tmp # Absent
    BY <1>2, <1>6 DEF Replace, TmpOwned
  <2>2. op[p].kind \in Locking /\ \A r \in Proc \ {p} : pc[r] \notin Saving
    BY <1>2, <2>1 DEF HoldersLock, Holding, Saving
  <2>3. archived' = archived /\ pc' = [pc EXCEPT ![p] = "return"]
    BY <1>6, <2>1, <2>2 DEF Replace, Goto
  <2>4. \A r \in Proc : pc'[r] \notin {"parts", "open", "write", "replace"}
    BY <1>1, <2>2, <2>3 DEF Saving
  <2> QED BY <2>3, <2>4 DEF AtomicInv, SessionAtomic
<1>7. ASSUME NEW p \in Proc, NEW c \in Calls, Call(p, c), \A r \in Proc : ~Replace(r)
      PROVE  AtomicInv'
  <2>1. /\ pc' = [pc EXCEPT ![p] = IF c.kind \in Locking THEN "wait" ELSE "load"]
        /\ op' = [op EXCEPT ![p] = c] /\ items' = items /\ loop' = loop
    BY <1>7 DEF Call, Goto
  <2>2. pc'[p] \notin {"parts", "open", "write", "replace"}
    BY <1>1, <2>1
  <2> QED BY <1>1, <1>5, <1>7, <2>1, <2>2
<1>8. ASSUME NEW p \in Proc, Acquire(p) \/ LookUp(p), \A r \in Proc : ~Replace(r)
      PROVE  AtomicInv'
  <2>1. /\ pc' = [pc EXCEPT ![p] = "load"] \/ pc' = [pc EXCEPT ![p] = "read"]
        /\ op' = op /\ items' = items /\ loop' = loop
    BY <1>8 DEF Acquire, LookUp, Goto, call
  <2>2. pc'[p] \notin {"parts", "open", "write", "replace"}
    BY <1>1, <2>1
  <2> QED BY <1>1, <1>5, <1>8, <2>1, <2>2
<1>9. ASSUME NEW p \in Proc, Unlock(p) \/ Crash(p), \A r \in Proc : ~Replace(r)
      PROVE  AtomicInv'
  <2>1. /\ pc' = [pc EXCEPT ![p] = "idle"] /\ op' = [op EXCEPT ![p] = NoCall]
        /\ items' = [items EXCEPT ![p] = <<>>] /\ loop' = [loop EXCEPT ![p] = NoLoop]
    BY <1>9 DEF Unlock, Crash, Finish, Goto
  <2>2. pc'[p] \notin {"parts", "open", "write", "replace"}
    BY <1>1, <2>1
  <2> QED BY <1>1, <1>5, <1>9, <2>1, <2>2
<1>10. ASSUME NEW p \in Proc, LoadNothing(p) \/ Load(p), \A r \in Proc : ~Replace(r)
       PROVE  AtomicInv'
  <2>1. Apply(p, Content(queue))
    BY <1>10 DEF LoadNothing, Load, Content
  <2>2. op[p].kind # "clear"
    BY <1>2 DEF Quiet
  <2>3. Content(queue)' = Content(queue) /\ archived' = archived
    BY <1>4, <1>10
  <2>4. /\ op' = op /\ SessionAtomic(p)'
        /\ \A r \in Proc \ {p} : /\ pc'[r] = pc[r] /\ items'[r] = items[r]
                                 /\ loop'[r] = loop[r]
    BY <1>1, <1>3, <2>1, <2>2, <2>3, ApplyIsAtomic
  <2> QED BY <2>3, <2>4, AtomicLocal
<1>11. ASSUME NEW p \in Proc, LoadCorrupt(p) \/ ArchiveCorrupt(p) \/ ArchiveCleared(p)
       PROVE  FALSE
  BY <1>1, <1>2, <1>11 DEF LoadCorrupt, ArchiveCorrupt, ArchiveCleared, Quiet, QueueWhole
<1>12. ASSUME NEW p \in Proc, pc[p] = "parts"
       PROVE  /\ Progress(Content(queue), op[p].prompt, loop[p], items[p])
              /\ op[p].kind = "submit" /\ op[p].prompt \in Prompt
              /\ loop[p] \in Loops /\ items[p] \in Lists
              /\ loop[p].target <= loop[p].base
  <2>1. op[p] \in Calls /\ op[p].kind = "submit" /\ loop[p].target <= loop[p].base
    BY <1>1, <1>12 DEF LoopOK
  <2>2. op[p].prompt \in Prompt
    BY <2>1, CallFacts
  <2> QED BY <1>1, <1>12, <2>1, <2>2 DEF AtomicInv, SessionAtomic, Loops
<1>13. ASSUME NEW p \in Proc, ConsiderPart(p), \A r \in Proc : ~Replace(r)
       PROVE  AtomicInv'
  <2> DEFINE part == Head(loop[p].todo)
             next == IF \E i \in Live(items[p]) :
                          i <= loop[p].base /\ Conflict(part, items[p][i].text)
                     THEN items[p] ELSE Append(items[p], NewItem(items[p], part))
             rest == [loop[p] EXCEPT !.todo = Tail(@)]
  <2>1. /\ pc[p] = "parts" /\ loop[p].todo # <<>>
        /\ loop' = [loop EXCEPT ![p].todo = Tail(@)] /\ pc' = pc /\ op' = op
    BY <1>13 DEF ConsiderPart
  <2>2. (\E i \in CompareSet(p) : Conflict(part, items[p][i].text)) <=>
          \E i \in Live(items[p]) : i <= loop[p].base /\ Conflict(part, items[p][i].text)
    BY DEF CompareSet
  <2>3. items' = IF \E i \in CompareSet(p) : Conflict(part, items[p][i].text) THEN items
                 ELSE [items EXCEPT ![p] = Append(@, NewItem(@, part))]
    BY <1>13 DEF ConsiderPart
  <2>4. items'[p] = next
    <3> HIDE DEF part
    <3> QED BY <1>1, <2>2, <2>3
  <2>5. \A r \in Proc \ {p} : items'[r] = items[r]
    <3> HIDE DEF part
    <3> QED BY <1>1, <2>3
  <2>6. loop'[p] = rest /\ \A r \in Proc \ {p} : loop'[r] = loop[r]
    BY <1>1, <2>1
  <2>7. Progress(Content(queue), op[p].prompt, rest, next)
    BY <1>3, <1>12, <2>1, ProgressGoesOn
  <2>8. Content(queue)' = Content(queue) /\ archived' = archived
    BY <1>4, <1>13
  <2> HIDE DEF next, rest
  <2>9. SessionAtomic(p)'
    BY <2>1, <2>4, <2>6, <2>7, <2>8 DEF SessionAtomic
  <2> QED BY <2>1, <2>5, <2>6, <2>8, <2>9, AtomicLocal
<1>14. ASSUME NEW p \in Proc, LinkSuperseded(p), \A r \in Proc : ~Replace(r)
       PROVE  AtomicInv'
  <2> DEFINE final == IF loop[p].target # 0 /\ Len(items[p]) > loop[p].base
                      THEN [items[p] EXCEPT ![loop[p].target].by =
                                              items[p][loop[p].base + 1].id]
                      ELSE items[p]
  <2>1. /\ pc[p] = "parts" /\ loop[p].todo = <<>>
        /\ pc' = [pc EXCEPT ![p] = "open"] /\ op' = op /\ loop' = loop
        /\ items' = IF loop[p].target # 0 /\ Len(items[p]) > loop[p].base
             THEN [items EXCEPT ![p][loop[p].target].by = items[p][loop[p].base + 1].id]
             ELSE items
    BY <1>14 DEF LinkSuperseded, Goto
  <2>2. items'[p] = final /\ \A r \in Proc \ {p} : items'[r] = items[r]
    BY <1>1, <2>1
  <2>3. final = Abstract!AfterSubmit(Content(queue), op[p].prompt)
    <3> DEFINE old == Content(queue)
               prompt == op[p].prompt
               l == loop[p]
               list == items[p]
    <3>1. /\ old \in Lists /\ prompt \in Prompt /\ l \in Loops /\ list \in Lists
          /\ Progress(old, prompt, l, list) /\ l.todo = <<>> /\ l.target <= l.base
      BY <1>3, <1>12, <2>1
    <3>2. final = IF l.target # 0 /\ Len(list) > l.base
                  THEN [list EXCEPT ![l.target].by = list[l.base + 1].id] ELSE list
      OBVIOUS
    <3> HIDE DEF final, old, prompt, l, list
    <3>3. final = Abstract!AfterSubmit(old, prompt)
      BY <3>1, <3>2, ProgressEnds
    <3> QED BY <3>3 DEF old, prompt
  <2>4. Content(queue)' = Content(queue) /\ archived' = archived
    BY <1>4, <1>14
  <2>5. pc'[p] = "open" /\ \A r \in Proc \ {p} : pc'[r] = pc[r]
    BY <1>1, <2>1
  <2>6. Result(p)'
    <3> HIDE DEF final
    <3>1. op'[p].kind = "submit" /\ op'[p].prompt = op[p].prompt
      BY <1>12, <2>1
    <3>2. (Abstract!AfterSubmit(Content(queue), op[p].prompt))' =
            Abstract!AfterSubmit(Content(queue), op[p].prompt)
      BY <2>1, <2>4
    <3> QED BY <2>2, <2>3, <3>1, <3>2 DEF Result
  <2>7. SessionAtomic(p)'
    BY <2>5, <2>6 DEF SessionAtomic
  <2> QED BY <2>1, <2>2, <2>4, <2>5, <2>7, AtomicLocal
<1>15. ASSUME NEW p \in Proc, Open(p) \/ Write(p), \A r \in Proc : ~Replace(r)
       PROVE  AtomicInv'
  <2>1. /\ pc[p] \in {"open", "write"} /\ op' = op /\ items' = items /\ loop' = loop
        /\ pc' = [pc EXCEPT ![p] = "write"] \/ pc' = [pc EXCEPT ![p] = "replace"]
    BY <1>15 DEF Open, Write, Goto, call
  <2>2. pc'[p] \in {"write", "replace"} /\ \A r \in Proc \ {p} : pc'[r] = pc[r]
    BY <1>1, <2>1
  <2>3. Content(queue)' = Content(queue) /\ archived' = archived
    BY <1>4, <1>15
  <2>4. Result(p)
    BY <2>1 DEF AtomicInv, SessionAtomic
  <2>5. SessionAtomic(p)'
    BY <2>1, <2>2, <2>3, <2>4 DEF SessionAtomic, Result
  <2> QED BY <2>1, <2>2, <2>3, <2>5, AtomicLocal
<1>16. CASE (Tick \/ UNCHANGED vars) /\ \A r \in Proc : ~Replace(r)
  <2>1. pc' = pc /\ op' = op /\ items' = items /\ loop' = loop
    BY <1>16 DEF Tick, vars, call
  <2>2. Content(queue)' = Content(queue) /\ archived' = archived
    BY <1>4, <1>16
  <2>3. ASSUME NEW p \in Proc PROVE SessionAtomic(p)'
    BY <2>1, <2>2 DEF AtomicInv, SessionAtomic, Result
  <2> QED BY <2>2, <2>3 DEF AtomicInv
<1> QED
  BY <1>6, <1>7, <1>8, <1>9, <1>10, <1>11, <1>13, <1>14, <1>15, <1>16 DEF Next, Step

\* The rename is a submit or a mark of the abstract queue.
LEMMA ReplaceSimulated ==
  ASSUME NumberedInv, DurableInv, AtomicInv, AtomicInv', NEW p \in Proc, Replace(p)
  PROVE  Abstract!SpecNext
<1>1. /\ pc[p] = "replace" /\ tmp # Absent /\ tmp # queue /\ disk[tmp] = items[p]
      /\ op[p].kind \in Locking
  BY DEF DurableInv, HoldersLock, Holding, Saving, TmpOwned, Replace
<1>2. /\ disk' = Freed(queue) /\ queue' = tmp /\ items[p] \in Lists
      /\ op[p] \in Calls /\ disk \in [Inode -> Lists \cup {Empty, Torn}] /\ tmp \in Inode
  BY <1>1 DEF Replace, NumberedInv, SessionInv, FileInv, Names
<1>3. items[p] \notin {Empty, Torn} /\ disk'[tmp] = items[p]
  BY <1>1, <1>2, ConstantsApart DEF Freed, Lists
<1>4. Content(queue)' = items[p]
  BY <1>1, <1>2, <1>3 DEF Content
<1>5. Archives' = Archives
  <2>1. Archives = {} /\ Archives' = {}
    BY DEF AtomicInv, Archives, Content
  <2> QED BY <2>1
<1>6. Result(p)
  BY <1>1 DEF AtomicInv, SessionAtomic
<1>7. CASE /\ op[p].kind = "submit"
           /\ items[p] = Abstract!AfterSubmit(Content(queue), op[p].prompt)
  <2>1. op[p].prompt \in Prompt
    BY <1>2, <1>7, CallFacts
  <2>2. Abstract!Submit(op[p].prompt)
    BY <1>4, <1>5, <1>7 DEF Abstract!Submit
  <2> QED BY <2>1, <2>2 DEF Abstract!SpecNext
<1>8. ASSUME NEW status \in {"done", "dropped"}, op[p].id \in Ids(Content(queue)),
             items[p] = AfterMark(Content(queue), op[p].id, status)
      PROVE  Abstract!SpecNext
  <2>1. /\ op[p].id \in Abstract!Ids(Content(queue))
        /\ Content(queue)' = Abstract!AfterMark(Content(queue), op[p].id, status)
    BY <1>4, <1>8, SameWords
  <2>2. Abstract!Mark(op[p].id, status)
    BY <1>5, <2>1 DEF Abstract!Mark
  <2> QED BY <2>1, <2>2 DEF Abstract!SpecNext
<1> QED BY <1>6, <1>7, <1>8 DEF Result

LEMMA StepSimulated ==
  ASSUME Clearer = {}, NumberedInv, DurableInv, AtomicInv, AtomicInv', [Next]_vars
  PROVE  [Abstract!SpecNext]_(Abstract!specVars)
<1>1. CASE \E p \in Proc : Replace(p)
  BY <1>1, ReplaceSimulated
<1>2. CASE \A p \in Proc : ~Replace(p)
  <2>1. Content(queue)' = Content(queue)
    BY <1>2, OnlyReplaceChanges
  <2>2. Archives = {} /\ Archives' = {}
    BY DEF AtomicInv, Archives, Content
  <2> QED BY <2>1, <2>2 DEF Abstract!specVars
<1> QED BY <1>1, <1>2

LEMMA InitSimulated == Init => Abstract!SpecInit
<1> SUFFICES ASSUME Init PROVE Abstract!SpecInit
  OBVIOUS
<1>1. queue = Absent /\ \A s \in Stamp : archived[s] = Absent
  BY DEF Init
<1>2. Content(queue) = <<>>
  BY <1>1 DEF Content
<1>3. Archives = {}
  BY <1>1 DEF Archives, Content
<1> QED BY <1>2, <1>3 DEF Abstract!SpecInit

\* While nobody clears, the queue file with its lock, its temporary file and its
\* sessions is one list that submit, done and drop change in one step: every
\* rename is such a step and every other step, a crash among them, changes
\* nothing (lib/prompt_queue.py _locked, _load, _save, submit, mark_done, drop).
THEOREM QueueIsAtomic ==
  ASSUME Clearer = {}
  PROVE  Spec => AtomicQueue
<1>1. NumberedInv /\ DurableInv /\ [Next]_vars => DurableInv'
  BY DurableStep
<1>2. NumberedInv /\ DurableInv /\ AtomicInv /\ [Next]_vars => AtomicInv'
  BY AtomicStep
<1>3. NumberedInv /\ DurableInv /\ AtomicInv /\ AtomicInv' /\ [Next]_vars =>
        [Abstract!SpecNext]_(Abstract!specVars)
  BY StepSimulated
<1> QED
  BY <1>1, <1>2, <1>3, DurableInit, AtomicInit, InitSimulated, NumberedAlways,
     PTL DEF Spec, AtomicQueue, Abstract!Spec
-------------------------------------------------------------------------------
(***************************************************************************)
(* What the rule of PromptConflict promises, for all parts and for every    *)
(* reading of "one role contains the other".                               *)
(***************************************************************************)
LEMMA ExclusiveSymmetric ==
  ASSUME NEW v, NEW w
  PROVE  Exclusive(v, w) <=> Exclusive(w, v)
BY DEF Exclusive

\* Which of two contradicting parts came first does not matter: submit() holds
\* back the later one, and would have held back the other one had they come the
\* other way round (lib/prompt_queue.py _conflict_between).
THEOREM ConflictIsSymmetric ==
  ASSUME NEW new, NEW old
  PROVE  ConflictBetween(new, old) <=> ConflictBetween(old, new)
<1>1. OppositeDirection(new, old) <=> OppositeDirection(old, new)
  BY DEF OppositeDirection, SameTarget
<1>2. ExclusiveVerbs(new, old) <=> ExclusiveVerbs(old, new)
  BY ExclusiveSymmetric DEF ExclusiveVerbs, SameTarget
<1>3. SameRole(new.role, old.role) <=> SameRole(old.role, new.role)
  BY Zenon DEF SameRole
<1>4. OtherChoiceForRole(new, old) <=> OtherChoiceForRole(old, new)
  BY <1>3 DEF OtherChoiceForRole
<1>5. RenamedTwice(new, old) <=> RenamedTwice(old, new)
  BY DEF RenamedTwice
<1> QED BY <1>1, <1>2, <1>4, <1>5 DEF ConflictBetween

\* Saying the same thing twice is no contradiction: a repeated part is queued
\* (lib/prompt_queue.py _conflict_between).
THEOREM NoConflictWithItself ==
  ASSUME NEW part
  PROVE  ~ConflictBetween(part, part)
<1>1. ~Exclusive(part.verb, part.verb)
  BY DEF Exclusive, ExclusiveTable, Sorted
<1> QED BY <1>1 DEF ConflictBetween, OppositeDirection, ExclusiveVerbs,
                    OtherChoiceForRole, RenamedTwice

\* Two plain opposites about one target are held back, whatever the verbs: the
\* pair "start"/"stop" needs the table of exclusive verbs, as "stop" is itself
\* a negation word and so both have the same polarity; the pairs of the table
\* that are never found need the polarities (lib/prompt_queue.py _directive and
\* _conflict_between).
THEOREM PlainOppositesConflict ==
  ASSUME NEW new, NEW old,
         <<old.verb, new.verb>> \in ExclusiveTable,
         ~old.negWord, ~new.negWord,
         old.target # None, old.target = new.target
  PROVE  ConflictBetween(new, old)
<1>1. SameTarget(new, old)
  BY DEF SameTarget
<1>2. CASE <<old.verb, new.verb>> \in Sorted
  <2>1. Exclusive(new.verb, old.verb)
    BY <1>2 DEF Exclusive
  <2> QED BY <1>1, <2>1 DEF ConflictBetween, ExclusiveVerbs
<1>3. CASE <<old.verb, new.verb>> \notin Sorted
  <2>1. \/ old.verb = "enable" /\ new.verb = "disable"
        \/ old.verb = "include" /\ new.verb = "exclude"
    BY <1>3 DEF ExclusiveTable, Sorted
  <2>2. ~Negated(old) /\ ~Negated(new)
    BY <2>1, Zenon DEF Negated
  <2>3. VerbPolarity[old.verb] = 1 /\ VerbPolarity[new.verb] = -1
    BY <2>1 DEF VerbPolarity
  <2>4. Polarity(old) = VerbPolarity[old.verb] /\ Polarity(new) = VerbPolarity[new.verb]
    BY <2>1, <2>2 DEF Polarity, None
  <2>5. Polarity(old) = 1 /\ Polarity(new) = -1
    BY <2>3, <2>4
  <2> QED BY <1>1, <2>5 DEF ConflictBetween, OppositeDirection
<1> QED BY <1>2, <1>3
===============================================================================
