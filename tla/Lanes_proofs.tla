------------------------------ MODULE Lanes_proofs ----------------------------
(***************************************************************************)
(* Proofs about three of the lanes: the reasoning loop, for any tools, any *)
(* number of steps and retries, and any number of tools that outlive their *)
(* time; the downloads of one file, for files of any length, any versions  *)
(* of the remote file and any number of runs; and the vulnerability        *)
(* intelligence, for any number of polls and entries.                      *)
(***************************************************************************)
EXTENDS AgentTurn, FetchLane, CveIntel, FiniteSetTheorems, FunctionTheorems, TLAPS

(* The reasoning loop. *)

\* No tool is called by the missing name; the limits of the loop are positive.
TurnConstants ==
  /\ NoName \notin Tool
  /\ MaxSteps \in Nat \ {0} /\ MaxStreak \in Nat \ {0} /\ MaxRetries \in Nat

\* How many of the calls are of tool t.
Places(seq, t) == {i \in DOMAIN seq : seq[i] = t}
Of(seq, t) == Cardinality(Places(seq, t))

\* Of what the model asked for, every call is yet to be made, or was made and has
\* ended, or goes on after its time, or was given up: none counts twice. Calls are
\* left only while they are made.
CallsCovered ==
  /\ turn # "act" => calls = <<>>
  /\ \A t \in Tool : runs[t] + late[t] + Of(calls, t) <= requested[t]

TurnInv == TurnTypeOK /\ CallsCovered /\ CallsReportedTruly

-------------------------------------------------------------------------------
LEMMA OfTyped ==
  ASSUME NEW S, NEW seq \in Seq(S), NEW t
  PROVE  IsFiniteSet(Places(seq, t)) /\ Of(seq, t) \in Nat
<1>1. IsFiniteSet(DOMAIN seq)
  BY FS_Interval
<1>2. Places(seq, t) \in SUBSET DOMAIN seq
  BY DEF Places
<1>3. IsFiniteSet(Places(seq, t))
  BY <1>1, <1>2, FS_Subset
<1> QED BY <1>3, FS_CardinalityType DEF Of

LEMMA OfNone == ASSUME NEW t PROVE Of(<<>>, t) = 0
<1>1. Places(<<>>, t) = {}
  BY DEF Places
<1> QED BY <1>1, FS_EmptySet DEF Of

\* A call that is taken from the front is one less of its tool.
LEMMA OfTail ==
  ASSUME NEW S, NEW seq \in Seq(S), seq # <<>>, NEW t
  PROVE  Of(seq, t) = Of(Tail(seq), t) + (IF Head(seq) = t THEN 1 ELSE 0)
<1> DEFINE rest == Places(seq, t) \ {1}
           shift == [i \in Places(Tail(seq), t) |-> i + 1]
<1>1. Len(seq) \in Nat \ {0} /\ Tail(seq) \in Seq(S) /\ Len(Tail(seq)) = Len(seq) - 1
  OBVIOUS
<1>2. \A i \in 1..Len(seq) - 1 : Tail(seq)[i] = seq[i + 1]
  OBVIOUS
<1>3. Places(Tail(seq), t) = {i \in 1..Len(seq) - 1 : seq[i + 1] = t}
  BY <1>1, <1>2 DEF Places
<1>4. rest = {i \in 2..Len(seq) : seq[i] = t}
  BY <1>1 DEF Places
<1>5. shift \in Bijection(Places(Tail(seq), t), rest)
  <2>1. shift \in [Places(Tail(seq), t) -> rest]
    BY <1>1, <1>3, <1>4
  <2>2. \A i, j \in Places(Tail(seq), t) : shift[i] = shift[j] => i = j
    BY <1>3
  <2>3. \A k \in rest : \E i \in Places(Tail(seq), t) : shift[i] = k
    <3> SUFFICES ASSUME NEW k \in rest PROVE k - 1 \in Places(Tail(seq), t) /\ (k - 1) + 1 = k
      OBVIOUS
    <3> QED BY <1>1, <1>3, <1>4
  <2> HIDE DEF shift, rest
  <2> QED BY <2>1, <2>2, <2>3, Fun_IsBij
<1>6. Cardinality(rest) = Of(Tail(seq), t)
  <2>1. IsFiniteSet(Places(Tail(seq), t))
    BY <1>1, OfTyped
  <2> HIDE DEF shift, rest
  <2> QED BY <1>5, <2>1, FS_Bijection DEF Of, ExistsBijection
<1>7. (1 \in Places(seq, t)) = (Head(seq) = t)
  BY <1>1 DEF Places
<1>8. IsFiniteSet(Places(seq, t)) /\ Of(seq, t) \in Nat
  BY OfTyped
<1>9. Cardinality(rest) = IF 1 \in Places(seq, t) THEN Of(seq, t) - 1 ELSE Of(seq, t)
  BY <1>8, FS_RemoveElement DEF Of
<1> HIDE DEF rest
<1> QED BY <1>6, <1>7, <1>8, <1>9

\* The calls that are made of a tool are at most those the model asked for.
LEMMA NamedCalls ==
  ASSUME TurnConstants, NEW form \in Form, NEW wanted \in {<<t>> : t \in Tool} \cup (Tool \X Tool)
  PROVE  LET named == [i \in DOMAIN wanted |-> NameIn(form, wanted[i])]
         IN /\ named \in Seq(Tool \cup {NoName})
            /\ \A t \in Tool : Of(named, t) <= Of(wanted, t) /\ Of(wanted, t) \in Nat
<1> DEFINE named == [i \in DOMAIN wanted |-> NameIn(form, wanted[i])]
<1>1. wanted \in Seq(Tool)
  <2>1. ASSUME NEW t \in Tool, wanted = <<t>> PROVE wanted \in Seq(Tool)
    BY <2>1
  <2>2. ASSUME NEW t \in Tool, NEW u \in Tool, wanted = <<t, u>> PROVE wanted \in Seq(Tool)
    BY <2>2
  <2> QED BY <2>1, <2>2
<1>2. named \in Seq(Tool \cup {NoName})
  BY <1>1 DEF NameIn
<1>3. \A t \in Tool : Places(named, t) \in SUBSET Places(wanted, t)
  BY <1>1 DEF NameIn, Places, TurnConstants
<1>4. \A t \in Tool : Of(named, t) <= Of(wanted, t) /\ Of(wanted, t) \in Nat
  BY <1>1, <1>3, OfTyped, FS_Subset DEF Of
<1> QED BY <1>2, <1>4

-------------------------------------------------------------------------------
LEMMA TurnInitially == ASSUME TurnConstants, TurnInit PROVE TurnInv
<1>1. calls \in Seq(Tool \cup {NoName})
  <2>1. <<>> \in Seq(Tool \cup {NoName})
    OBVIOUS
  <2> QED BY <2>1 DEF TurnInit
<1>2. TurnTypeOK
  BY <1>1 DEF TurnInit, TurnTypeOK, TurnConstants, NoCalls, Content
<1>3. \A t \in Tool : Of(calls, t) = 0
  BY OfNone DEF TurnInit
<1>4. CallsCovered
  BY <1>3 DEF TurnInit, CallsCovered, NoCalls
<1>5. CallsReportedTruly
  BY DEF TurnInit, CallsReportedTruly, NoCalls
<1> QED BY <1>2, <1>4, <1>5 DEF TurnInv

\* An observation is of the call at the front, which is no longer to be made.
LEMMA ObserveKeeps ==
  ASSUME TurnConstants, TurnTypeOK, calls # <<>>, NEW name, NEW said, NEW trust, Observe(name, said, trust)
  PROVE  /\ calls' \in Seq(Tool \cup {NoName}) /\ streak' \in 0..MaxStreak - 1
         /\ \A t \in Tool : /\ Of(calls, t) \in Nat /\ Of(calls', t) \in Nat
                            /\ Of(calls, t) = Of(calls', t) + (IF Head(calls) = t THEN 1 ELSE 0)
<1>1. calls \in Seq(Tool \cup {NoName}) /\ calls' = Tail(calls)
  BY DEF TurnTypeOK, Observe
<1>2. calls' \in Seq(Tool \cup {NoName})
  BY <1>1
<1>3. streak' \in 0..MaxStreak - 1
  <2>1. streak \in 0..MaxStreak - 1 /\ MaxStreak \in Nat \ {0}
    BY DEF TurnTypeOK, TurnConstants
  <2>2. streak' = IF said = "ok" THEN 0 ELSE IF streak + 1 >= MaxStreak THEN 0 ELSE streak + 1
    BY DEF Observe
  <2> QED BY <2>1, <2>2
<1> QED BY <1>1, <1>2, <1>3, OfTail, OfTyped

LEMMA HeadIsCall ==
  ASSUME TurnTypeOK, calls # <<>>, Head(calls) # NoName
  PROVE  Head(calls) \in Tool
<1>1. calls \in Seq(Tool \cup {NoName})
  BY DEF TurnTypeOK
<1>2. Head(calls) \in Tool \cup {NoName}
  BY <1>1
<1> QED BY <1>2

LEMMA AddCounts ==
  ASSUME NEW count \in [Tool -> Nat], NEW t \in Tool
  PROVE  /\ Add(count, t) \in [Tool -> Nat]
         /\ \A u \in Tool : Add(count, t)[u] = count[u] + (IF u = t THEN 1 ELSE 0)
BY DEF Add

\* What is told and left behind of a tool, as CallsReportedTruly has it.
ToolTold(t) ==
  /\ told[t] <= runs[t] /\ acted[t] <= runs[t]
  /\ t \in Disabled => runs[t] + late[t] = 0
  /\ t \in Performing => told[t] <= acted[t]
  /\ t \in Answering => acted[t] = 0

Counted ==
  /\ requested \in [Tool -> Nat] /\ runs \in [Tool -> Nat] /\ acted \in [Tool -> Nat]
  /\ late \in [Tool -> Nat] /\ told \in [Tool -> Nat]

\* The counts as numbers, and what is known of them.
LEMMA CountsRelated ==
  ASSUME TurnInv
  PROVE  /\ Counted
         /\ \A t \in Tool :
              /\ requested[t] \in Nat /\ runs[t] \in Nat /\ acted[t] \in Nat
              /\ late[t] \in Nat /\ told[t] \in Nat
              /\ ToolTold(t) /\ runs[t] + late[t] <= requested[t]
              /\ Of(calls, t) \in Nat /\ runs[t] + late[t] + Of(calls, t) <= requested[t]
<1>1. Counted
  BY DEF TurnInv, TurnTypeOK, Counted
<1>2. \A t \in Tool : ToolTold(t) /\ runs[t] + late[t] <= requested[t]
  BY DEF TurnInv, CallsReportedTruly, ToolTold
<1>3. \A t \in Tool : Of(calls, t) \in Nat /\ runs[t] + late[t] + Of(calls, t) <= requested[t]
  BY OfTyped DEF TurnInv, TurnTypeOK, CallsCovered
<1> QED BY <1>1, <1>2, <1>3 DEF Counted

\* A run of a tool that may run ends: it is counted, and what it leaves behind is
\* what such a tool may leave.
LEMMA RunCounted ==
  ASSUME TurnInv, NEW t \in Tool, NEW end \in Ends(t), RunEnds(t, end)
  PROVE  /\ runs' \in [Tool -> Nat] /\ acted' \in [Tool -> Nat]
         /\ \A u \in Tool :
              /\ runs'[u] = runs[u] + (IF u = t THEN 1 ELSE 0)
              /\ acted[u] <= acted'[u] /\ acted'[u] <= runs'[u]
              /\ u \in Answering => acted'[u] = 0
              /\ u = t /\ t \in Performing /\ end.ok => acted'[u] = acted[u] + 1
<1>1. /\ runs \in [Tool -> Nat] /\ acted \in [Tool -> Nat]
      /\ \A u \in Tool : runs[u] \in Nat /\ acted[u] \in Nat /\ ToolTold(u)
  BY CountsRelated DEF Counted
<1>2. runs' = Add(runs, t) /\ acted' = IF end.acted THEN Add(acted, t) ELSE acted
  BY DEF RunEnds
<1> DEFINE may(e) == (t \in Answering => ~e.acted) /\ (t \in Performing /\ e.ok => e.acted)
<1>3. may(end)
  <2>1. Ends(t) = {e \in [ok : BOOLEAN, acted : BOOLEAN] : may(e)}
    BY DEF Ends
  <2> HIDE DEF may
  <2> QED BY <2>1
<1>4. runs' \in [Tool -> Nat] /\ \A u \in Tool : runs'[u] = runs[u] + (IF u = t THEN 1 ELSE 0)
  BY <1>1, <1>2, AddCounts
<1>5. Add(acted, t) \in [Tool -> Nat] /\ \A u \in Tool : Add(acted, t)[u] = acted[u] + (IF u = t THEN 1 ELSE 0)
  BY <1>1, AddCounts
<1>6. CASE end.acted
  <2>0. acted' = Add(acted, t)
    BY <1>2, <1>6
  <2>1. acted' \in [Tool -> Nat] /\ \A u \in Tool : acted'[u] = acted[u] + (IF u = t THEN 1 ELSE 0)
    BY <1>5, <2>0
  <2>2. \A u \in Tool : acted[u] <= runs[u] /\ (u \in Answering => acted[u] = 0)
    BY <1>1 DEF ToolTold
  <2>3. ASSUME NEW u \in Tool
        PROVE  /\ acted[u] <= acted'[u] /\ acted'[u] <= runs'[u]
               /\ u \in Answering => acted'[u] = 0
               /\ u = t /\ t \in Performing /\ end.ok => acted'[u] = acted[u] + 1
    <3>1. runs[u] \in Nat /\ acted[u] \in Nat /\ acted[u] <= runs[u] /\ (u \in Answering => acted[u] = 0)
      BY <1>1, <2>2
    <3>2. u \in Answering => u # t
      <4>1. t \notin Answering
        BY Zenon, <1>3, <1>6
      <4> QED BY <4>1
    <3>3. runs'[u] = runs[u] + (IF u = t THEN 1 ELSE 0) /\ acted'[u] = acted[u] + (IF u = t THEN 1 ELSE 0)
      BY <1>4, <2>1
    <3>4. CASE u = t
      BY <3>1, <3>2, <3>3, <3>4
    <3>5. CASE u # t
      BY <3>1, <3>2, <3>3, <3>5
    <3> QED BY <3>4, <3>5
  <2> QED BY <1>4, <2>1, <2>3
<1>7. CASE ~end.acted
  <2>1. acted' = acted
    BY <1>2, <1>7
  <2>2. \A u \in Tool : acted[u] <= runs[u] /\ (u \in Answering => acted[u] = 0)
    BY <1>1 DEF ToolTold
  <2>3. ASSUME NEW u \in Tool
        PROVE  /\ acted[u] <= acted'[u] /\ acted'[u] <= runs'[u]
               /\ u \in Answering => acted'[u] = 0
               /\ ~(u = t /\ t \in Performing /\ end.ok)
    <3>1. runs[u] \in Nat /\ acted[u] \in Nat /\ acted[u] <= runs[u] /\ (u \in Answering => acted[u] = 0)
      BY <1>1, <2>2
    <3>2. ~(t \in Performing /\ end.ok)
      BY Zenon, <1>3, <1>7
    <3>3. runs'[u] = runs[u] + (IF u = t THEN 1 ELSE 0) /\ acted'[u] = acted[u]
      BY <1>4, <2>1
    <3> QED BY <3>1, <3>2, <3>3
  <2>4. acted' \in [Tool -> Nat]
    BY <1>1, <2>1
  <2> QED BY <1>4, <2>3, <2>4
<1> QED BY <1>6, <1>7

\* Types, in three parts, of which the counts are one.
LoopTyped ==
  /\ turn \in {"new", "direct", "ask", "act", "check", "over"}
  /\ attempt \in 0..MaxRetries /\ step \in 0..MaxSteps /\ streak \in 0..MaxStreak - 1
  /\ verifier \in BOOLEAN
  /\ content \in Content \cup {"nothing", "step limit"} /\ result \in {"none", "ok", "failed"}

CallsTyped == calls \in Seq(Tool \cup {NoName})

LEMMA TypedNext ==
  ASSUME LoopTyped', CallsTyped', Counted'
  PROVE  TurnTypeOK'
BY DEF LoopTyped, CallsTyped, Counted, TurnTypeOK

\* The limits leave room for the next one.
LEMMA WithinLimits ==
  ASSUME TurnConstants, LoopTyped
  PROVE  /\ 1 \in 0..MaxSteps /\ 0 \in 0..MaxStreak - 1
         /\ attempt < MaxRetries => attempt + 1 \in 0..MaxRetries
         /\ step < MaxSteps => step + 1 \in 0..MaxSteps
<1>1. /\ MaxSteps \in Nat \ {0} /\ MaxStreak \in Nat \ {0} /\ MaxRetries \in Nat
      /\ attempt \in 0..MaxRetries /\ step \in 0..MaxSteps
  BY DEF TurnConstants, LoopTyped
<1> QED BY <1>1

\* What the model asks for is covered when nothing was left to be made.
LEMMA CallsAsked ==
  ASSUME TurnInv, NEW asked \in [Tool -> Nat], requested' = [t \in Tool |-> requested[t] + asked[t]],
         \A t \in Tool : Of(calls', t) \in Nat /\ Of(calls', t) <= asked[t],
         turn' = "act", UNCHANGED <<runs, acted, late, told, notes>>
  PROVE  Counted' /\ CallsCovered' /\ CallsReportedTruly'
<1>1. /\ Counted
      /\ \A t \in Tool : /\ requested[t] \in Nat /\ runs[t] \in Nat /\ late[t] \in Nat
                         /\ ToolTold(t) /\ runs[t] + late[t] <= requested[t]
  BY CountsRelated
<1>2. \A t \in Tool : requested'[t] = requested[t] + asked[t] /\ asked[t] \in Nat
  OBVIOUS
<1>3. requested' \in [Tool -> Nat]
  BY <1>1
<1>4. \A t \in Tool : /\ runs[t] + late[t] + Of(calls', t) <= requested'[t]
                      /\ runs[t] + late[t] <= requested'[t]
  BY <1>1, <1>2
<1>5. CallsCovered'
  BY <1>4 DEF CallsCovered
<1>6. \A note \in notes : note.said \in {"ok", "failed"} => note.trust = Trust(note.tool)
  BY DEF TurnInv, CallsReportedTruly
<1>7. CallsReportedTruly'
  BY <1>1, <1>4, <1>6 DEF CallsReportedTruly, ToolTold
<1> QED BY <1>1, <1>3, <1>5, <1>7 DEF Counted

\* Nothing happens to the calls and the counts.
LEMMA CallsUntouched ==
  ASSUME TurnInv, UNCHANGED <<calls, requested, runs, acted, late, told, notes>>,
         turn' # "act" => turn # "act" \/ calls = <<>>
  PROVE  CallsCovered' /\ CallsReportedTruly' /\ Counted'
BY DEF TurnInv, TurnTypeOK, CallsCovered, CallsReportedTruly, Of, Places, Counted

\* The counts after a call was made: it has run, or goes on, or neither, and only
\* if it has run the model is told that it succeeded.
MadeAs(t, said) ==
  \/ UNCHANGED <<runs, acted, late, told>>
  \/ /\ t \in Tool \ Disabled /\ UNCHANGED late
     /\ \E end \in Ends(t) : /\ RunEnds(t, end)
                             /\ told' = IF end.ok /\ said = "ok" THEN Add(told, t) ELSE told
  \/ t \in Tool \ Disabled /\ late' = Add(late, t) /\ UNCHANGED <<runs, acted, told>>

LEMMA MadeCounts ==
  ASSUME TurnInv, NEW t, NEW said, MadeAs(t, said), UNCHANGED requested
  PROVE  /\ Counted'
         /\ \A u \in Tool :
              /\ runs'[u] \in Nat /\ late'[u] \in Nat /\ ToolTold(u)'
              /\ runs'[u] + late'[u] <= runs[u] + late[u] + (IF u = t THEN 1 ELSE 0)
<1>1. /\ Counted
      /\ \A u \in Tool : /\ runs[u] \in Nat /\ acted[u] \in Nat /\ late[u] \in Nat
                         /\ told[u] \in Nat /\ ToolTold(u)
  BY CountsRelated
<1>2. CASE UNCHANGED <<runs, acted, late, told>>
  BY <1>1, <1>2 DEF Counted, ToolTold
<1>3. CASE /\ t \in Tool \ Disabled /\ UNCHANGED late
           /\ \E end \in Ends(t) : /\ RunEnds(t, end)
                                   /\ told' = IF end.ok /\ said = "ok" THEN Add(told, t) ELSE told
  <2>1. PICK end \in Ends(t) : /\ RunEnds(t, end)
                               /\ told' = IF end.ok /\ said = "ok" THEN Add(told, t) ELSE told
    BY <1>3
  <2>2. /\ runs' \in [Tool -> Nat] /\ acted' \in [Tool -> Nat]
        /\ \A u \in Tool :
             /\ runs'[u] = runs[u] + (IF u = t THEN 1 ELSE 0)
             /\ acted[u] <= acted'[u] /\ acted'[u] <= runs'[u]
             /\ u \in Answering => acted'[u] = 0
             /\ u = t /\ t \in Performing /\ end.ok => acted'[u] = acted[u] + 1
    BY <1>3, <2>1, RunCounted
  <2>3. /\ Add(told, t) \in [Tool -> Nat]
        /\ \A u \in Tool : Add(told, t)[u] = told[u] + (IF u = t THEN 1 ELSE 0)
    BY <1>1, <1>3, AddCounts DEF Counted
  <2>4. Counted'
    BY <1>1, <1>3, <2>1, <2>2, <2>3 DEF Counted
  <2>5. ASSUME NEW u \in Tool
        PROVE  /\ runs'[u] \in Nat /\ late'[u] \in Nat /\ ToolTold(u)'
               /\ runs'[u] + late'[u] <= runs[u] + late[u] + (IF u = t THEN 1 ELSE 0)
    <3>1. /\ runs[u] \in Nat /\ acted[u] \in Nat /\ late[u] \in Nat /\ told[u] \in Nat /\ ToolTold(u)
          /\ runs'[u] \in Nat /\ acted'[u] \in Nat /\ late'[u] = late[u]
      BY <1>1, <1>3, <2>2
    <3>2. told'[u] = told[u] \/ (u = t /\ end.ok /\ told'[u] = told[u] + 1)
      BY <1>1, <2>1, <2>3, <3>1
    <3>3. u = t => u \notin Disabled
      BY <1>3
    <3> QED BY <2>2, <3>1, <3>2, <3>3 DEF ToolTold
  <2> QED BY <2>4, <2>5
<1>4. CASE t \in Tool \ Disabled /\ late' = Add(late, t) /\ UNCHANGED <<runs, acted, told>>
  <2>1. /\ late' \in [Tool -> Nat]
        /\ \A u \in Tool : late'[u] = late[u] + (IF u = t THEN 1 ELSE 0)
    BY <1>1, <1>4, AddCounts DEF Counted
  <2> QED BY <1>1, <1>4, <2>1 DEF Counted, ToolTold
<1> QED BY <1>2, <1>3, <1>4 DEF MadeAs

\* One call is made of its tool, if it has one.
LEMMA CallMade ==
  ASSUME TurnConstants, TurnInv, turn = "act", calls # <<>>,
         NEW name, NEW said, NEW trust, Observe(name, said, trust),
         said \in {"ok", "failed"} => trust = Trust(name), MadeAs(Head(calls), said)
  PROVE  TurnInv'
<1>0. TurnTypeOK /\ CallsCovered /\ CallsReportedTruly
  BY DEF TurnInv
<1>1. \A t \in Tool : /\ Of(calls, t) \in Nat /\ Of(calls', t) \in Nat
                      /\ Of(calls, t) = Of(calls', t) + (IF Head(calls) = t THEN 1 ELSE 0)
  BY <1>0, ObserveKeeps
<1>2. /\ UNCHANGED <<turn, attempt, step, content, result, verifier, requested>>
      /\ notes' = notes \cup {[tool |-> name, said |-> said, trust |-> trust]}
  BY DEF Observe
<1>3. CallsTyped' /\ streak' \in 0..MaxStreak - 1
  BY <1>0, ObserveKeeps DEF CallsTyped
<1>4. /\ Counted'
      /\ \A u \in Tool :
           /\ runs'[u] \in Nat /\ late'[u] \in Nat /\ ToolTold(u)'
           /\ runs'[u] + late'[u] <= runs[u] + late[u] + (IF u = Head(calls) THEN 1 ELSE 0)
  BY <1>2, MadeCounts
<1>5. ASSUME NEW t \in Tool
      PROVE  /\ runs'[t] + late'[t] + Of(calls', t) <= requested'[t]
             /\ runs'[t] + late'[t] <= requested'[t]
  <2>1. /\ requested[t] \in Nat /\ runs[t] \in Nat /\ late[t] \in Nat
        /\ runs[t] + late[t] + Of(calls, t) <= requested[t]
    BY CountsRelated
  <2>2. /\ Of(calls, t) \in Nat /\ Of(calls', t) \in Nat
        /\ Of(calls, t) = Of(calls', t) + (IF t = Head(calls) THEN 1 ELSE 0)
    BY <1>1
  <2>3. /\ runs'[t] \in Nat /\ late'[t] \in Nat /\ requested'[t] = requested[t]
        /\ runs'[t] + late'[t] <= runs[t] + late[t] + (IF t = Head(calls) THEN 1 ELSE 0)
    BY <1>2, <1>4
  <2>4. CASE t = Head(calls)
    BY <2>1, <2>2, <2>3, <2>4
  <2>5. CASE t # Head(calls)
    BY <2>1, <2>2, <2>3, <2>5
  <2> QED BY <2>4, <2>5
<1>6. TurnTypeOK'
  <2>1. LoopTyped'
    BY <1>0, <1>2, <1>3 DEF TurnTypeOK, LoopTyped
  <2> QED BY <1>3, <1>4, <2>1, TypedNext
<1>7. CallsCovered'
  BY <1>0, <1>2, <1>5 DEF CallsCovered
<1>8. \A note \in notes' : note.said \in {"ok", "failed"} => note.trust = Trust(note.tool)
  <2>1. \A note \in notes : note.said \in {"ok", "failed"} => note.trust = Trust(note.tool)
    BY <1>0 DEF CallsReportedTruly
  <2> DEFINE new == [tool |-> name, said |-> said, trust |-> trust]
  <2>2. new.said = said /\ new.tool = name /\ new.trust = trust
    OBVIOUS
  <2>3. new.said \in {"ok", "failed"} => new.trust = Trust(new.tool)
    BY <2>2
  <2>4. notes' = notes \cup {new}
    BY <1>2
  <2> HIDE DEF new
  <2> QED BY <2>1, <2>3, <2>4
<1>9. CallsReportedTruly'
  BY <1>4, <1>5, <1>8 DEF CallsReportedTruly, ToolTold
<1> QED BY <1>6, <1>7, <1>9 DEF TurnInv

LEMMA TurnStep ==
  ASSUME TurnConstants, TurnInv, [TurnNext]_talk
  PROVE  TurnInv'
<1>0. TurnTypeOK /\ CallsCovered /\ CallsReportedTruly
  BY DEF TurnInv
<1>1. /\ Counted
      /\ \A t \in Tool :
           /\ requested[t] \in Nat /\ runs[t] \in Nat /\ acted[t] \in Nat
           /\ late[t] \in Nat /\ told[t] \in Nat
           /\ ToolTold(t) /\ runs[t] + late[t] <= requested[t]
           /\ Of(calls, t) \in Nat /\ runs[t] + late[t] + Of(calls, t) <= requested[t]
  BY CountsRelated
<1>a. LoopTyped /\ CallsTyped
  BY <1>0 DEF TurnTypeOK, LoopTyped, CallsTyped
<1>b. Called => Head(calls) \in Tool \ Disabled /\ turn = "act" /\ calls # <<>>
  BY <1>0, HeadIsCall DEF Called
<1>2. CASE UNCHANGED talk
  <2>1. TurnTypeOK'
    BY <1>0, <1>2 DEF talk, course, tools, TurnTypeOK
  <2> QED BY <1>2, <2>1, CallsUntouched DEF talk, course, tools, TurnInv
<1>3. CASE Take
  <2>1. CallsCovered' /\ CallsReportedTruly' /\ Counted'
    BY <1>3, CallsUntouched DEF Take, End, tools
  <2>2. LoopTyped'
    BY <1>a, <1>3, WithinLimits DEF Take, End, LoopTyped
  <2>3. CallsTyped'
    BY <1>a, <1>3 DEF Take, CallsTyped
  <2> QED BY <2>1, <2>2, <2>3, TypedNext DEF TurnInv
<1>4. CASE Raise
  <2>1. <<>> \in Seq(Tool \cup {NoName}) /\ calls' = <<>>
    BY <1>4 DEF Raise
  <2>2. ASSUME calls # <<>>, NEW t \in Tool, Head(calls) = t PROVE Of(calls, t) > 0
    <3>1. calls \in Seq(Tool \cup {NoName}) /\ Tail(calls) \in Seq(Tool \cup {NoName})
      BY <1>a, <2>2 DEF CallsTyped
    <3>2. Of(calls, t) = Of(Tail(calls), t) + 1
      BY <2>2, <3>1, OfTail
    <3>3. Of(Tail(calls), t) \in Nat
      BY <3>1, OfTyped
    <3> QED BY <3>2, <3>3
  <2>3. /\ UNCHANGED <<requested, late, told, notes>>
        /\ \/ UNCHANGED <<runs, acted>>
           \/ Called /\ \E end \in Ends(Head(calls)) : RunEnds(Head(calls), end)
    BY <1>4 DEF Raise
  <2>4. Counted' /\ \A t \in Tool : /\ runs'[t] \in Nat /\ runs[t] <= runs'[t] /\ ToolTold(t)'
                                    /\ runs'[t] + late[t] <= requested[t]
    <3>1. CASE UNCHANGED <<runs, acted>>
      BY <1>1, <2>3, <3>1 DEF Counted, ToolTold
    <3>2. CASE Called /\ \E end \in Ends(Head(calls)) : RunEnds(Head(calls), end)
      <4>1. PICK end \in Ends(Head(calls)) : RunEnds(Head(calls), end)
        BY <3>2
      <4>2. Head(calls) \in Tool \ Disabled /\ calls # <<>>
        BY <1>b, <3>2
      <4>3. /\ runs' \in [Tool -> Nat] /\ acted' \in [Tool -> Nat]
            /\ \A u \in Tool :
                 /\ runs'[u] = runs[u] + (IF u = Head(calls) THEN 1 ELSE 0)
                 /\ acted[u] <= acted'[u] /\ acted'[u] <= runs'[u]
                 /\ u \in Answering => acted'[u] = 0
        BY <4>1, <4>2, RunCounted
      <4>4. Counted'
        BY <1>1, <2>3, <4>3 DEF Counted
      <4>5. ASSUME NEW t \in Tool
            PROVE  /\ runs'[t] \in Nat /\ runs[t] <= runs'[t] /\ ToolTold(t)'
                   /\ runs'[t] + late[t] <= requested[t]
        <5>1. t = Head(calls) => Of(calls, t) > 0 /\ t \notin Disabled
          BY <2>2, <4>2
        <5>2. acted'[t] \in Nat
          BY <4>3
        <5> QED BY <1>1, <2>3, <4>3, <5>1, <5>2 DEF ToolTold
      <4> QED BY <4>4, <4>5
    <3> QED BY <2>3, <3>1, <3>2
  <2>5. TurnTypeOK'
    <3>1. LoopTyped'
      BY <1>a, <1>4, WithinLimits DEF Raise, End, LoopTyped
    <3> QED BY <2>1, <2>4, <3>1, TypedNext DEF CallsTyped
  <2>6. CallsCovered'
    BY <1>1, <2>1, <2>3, <2>4, OfNone DEF CallsCovered
  <2>7. CallsReportedTruly'
    BY <1>0, <2>3, <2>4 DEF CallsReportedTruly, ToolTold
  <2> QED BY <2>5, <2>6, <2>7 DEF TurnInv
<1>5. CASE AnswerDirect
  <2>1. TurnTypeOK'
    BY <1>0, <1>5 DEF AnswerDirect, End, Content, tools, TurnTypeOK
  <2> QED BY <1>5, <2>1, CallsUntouched DEF AnswerDirect, End, tools, TurnInv
<1>6. CASE Unavailable
  <2>1. TurnTypeOK'
    BY <1>0, <1>6 DEF Unavailable, End, tools, TurnTypeOK
  <2> QED BY <1>6, <2>1, CallsUntouched DEF Unavailable, End, tools, TurnInv
<1>7. CASE AnswerText
  <2>1. TurnTypeOK'
    BY <1>0, <1>7 DEF AnswerText, Content, tools, TurnTypeOK
  <2> QED BY <1>7, <2>1, CallsUntouched DEF AnswerText, tools, TurnInv
<1>8. CASE AnswerCalls
  <2>1. PICK form \in Form, wanted \in {<<t>> : t \in Tool} \cup (Tool \X Tool) :
          /\ calls' = [i \in DOMAIN wanted |-> NameIn(form, wanted[i])]
          /\ requested' = [t \in Tool |-> requested[t] + Of(wanted, t)]
    BY <1>8 DEF AnswerCalls, Of, Places
  <2>2. /\ calls' \in Seq(Tool \cup {NoName})
        /\ \A t \in Tool : Of(calls', t) <= Of(wanted, t) /\ Of(wanted, t) \in Nat /\ Of(calls', t) \in Nat
    BY <2>1, NamedCalls, OfTyped
  <2>3. /\ turn = "ask" /\ turn' = "act" /\ calls = <<>>
        /\ UNCHANGED <<attempt, step, streak, content, result, verifier, runs, acted, late, told, notes>>
    BY <1>0, <1>8 DEF AnswerCalls, CallsCovered
  <2>4. Counted' /\ CallsCovered' /\ CallsReportedTruly'
    <3> DEFINE asked == [t \in Tool |-> Of(wanted, t)]
    <3>1. asked \in [Tool -> Nat] /\ \A t \in Tool : asked[t] = Of(wanted, t)
      BY <2>2
    <3>2. requested' = [t \in Tool |-> requested[t] + asked[t]]
      BY <2>1, <3>1
    <3>3. \A t \in Tool : Of(calls', t) \in Nat /\ Of(calls', t) <= asked[t]
      BY <2>2, <3>1
    <3> HIDE DEF asked
    <3> QED BY <2>3, <3>1, <3>2, <3>3, CallsAsked
  <2>5. LoopTyped'
    BY <1>a, <2>3 DEF LoopTyped
  <2>6. TurnTypeOK'
    BY <2>2, <2>4, <2>5, TypedNext DEF CallsTyped
  <2> QED BY <2>4, <2>6 DEF TurnInv
<1>9. CASE Unknown
  BY <1>9, CallMade DEF Unknown, MadeAs
<1>10. CASE Refused
  BY <1>10, CallMade DEF Refused, MadeAs
<1>11. CASE Ran
  <2>1. PICK end \in Ends(Head(calls)) :
          /\ RunEnds(Head(calls), end)
          /\ Observe(Head(calls), IF end.ok THEN "ok" ELSE "failed", Trust(Head(calls)))
          /\ told' = IF end.ok THEN Add(told, Head(calls)) ELSE told
    BY <1>11 DEF Ran
  <2>2. Called /\ UNCHANGED late
    BY <1>11 DEF Ran
  <2>3. MadeAs(Head(calls), IF end.ok THEN "ok" ELSE "failed")
    BY <1>b, <2>1, <2>2 DEF MadeAs
  <2> QED BY <1>b, <2>1, <2>2, <2>3, CallMade
<1>12. CASE Left
  <2>1. MadeAs(Head(calls), "left")
    BY <1>b, <1>12 DEF Left, MadeAs
  <2> QED BY <1>b, <1>12, <2>1, CallMade DEF Left
<1>13. CASE TimedOut
  <2>1. MadeAs(Head(calls), "timeout")
    BY <1>b, <1>13 DEF TimedOut, MadeAs
  <2> QED BY <1>b, <1>13, <2>1, CallMade DEF TimedOut
<1>14. CASE NextStep
  <2>1. CallsCovered' /\ CallsReportedTruly' /\ Counted'
    BY <1>14, CallsUntouched DEF NextStep, End, tools
  <2>2. LoopTyped'
    BY <1>a, <1>14, WithinLimits DEF NextStep, End, LoopTyped
  <2>3. CallsTyped'
    BY <1>a, <1>14 DEF NextStep, CallsTyped
  <2> QED BY <2>1, <2>2, <2>3, TypedNext DEF TurnInv
<1>15. CASE Gate
  <2>1. TurnTypeOK'
    BY <1>0, <1>15 DEF Gate, End, tools, TurnTypeOK
  <2> QED BY <1>15, <2>1, CallsUntouched DEF Gate, End, tools, TurnInv
<1>16. ASSUME NEW t \in Tool, LateEnd(t) PROVE TurnInv'
  <2>1. PICK end \in Ends(t) : RunEnds(t, end)
    BY <1>16 DEF LateEnd
  <2>2. /\ runs' \in [Tool -> Nat] /\ acted' \in [Tool -> Nat]
        /\ \A u \in Tool :
             /\ runs'[u] = runs[u] + (IF u = t THEN 1 ELSE 0)
             /\ acted[u] <= acted'[u] /\ acted'[u] <= runs'[u]
             /\ u \in Answering => acted'[u] = 0
    BY <2>1, RunCounted
  <2>3. late' = [late EXCEPT ![t] = @ - 1] /\ late[t] > 0
    BY <1>16 DEF LateEnd
  <2>4. late' \in [Tool -> Nat] /\ \A u \in Tool : late'[u] = late[u] - (IF u = t THEN 1 ELSE 0)
    <3>1. \A u \in Tool : late'[u] = late[u] - (IF u = t THEN 1 ELSE 0) /\ late'[u] \in Nat
      BY <1>1, <2>3 DEF Counted
    <3> QED BY <1>1, <2>3, <3>1 DEF Counted
  <2>5. UNCHANGED <<course, verifier, requested, told, notes>>
    BY <1>16 DEF LateEnd
  <2>6. Counted'
    BY <1>1, <2>2, <2>4, <2>5 DEF Counted
  <2>7. ASSUME NEW u \in Tool PROVE ToolTold(u)' /\ runs'[u] + late'[u] = runs[u] + late[u]
    <3>1. /\ runs[u] \in Nat /\ acted[u] \in Nat /\ late[u] \in Nat /\ told[u] \in Nat
          /\ acted'[u] \in Nat /\ ToolTold(u) /\ told'[u] = told[u]
      BY <1>1, <2>2, <2>5
    <3>2. runs'[u] = runs[u] + (IF u = t THEN 1 ELSE 0) /\ late'[u] = late[u] - (IF u = t THEN 1 ELSE 0)
      BY <2>2, <2>4
    <3> QED BY <2>2, <3>1, <3>2 DEF ToolTold
  <2>8. TurnTypeOK'
    <3>1. LoopTyped'
      BY <1>a, <2>5 DEF course, LoopTyped
    <3> QED BY <1>a, <2>5, <2>6, <3>1, TypedNext DEF course, CallsTyped
  <2>9. CallsCovered'
    BY <1>0, <2>5, <2>7 DEF course, CallsCovered, Of, Places
  <2>10. CallsReportedTruly'
    BY <1>0, <1>1, <2>5, <2>7 DEF CallsReportedTruly, ToolTold
  <2> QED BY <2>8, <2>9, <2>10 DEF TurnInv
<1> QED BY <1>2, <1>3, <1>4, <1>5, <1>6, <1>7, <1>8, <1>9, <1>10, <1>11, <1>12, <1>13, <1>14, <1>15,
           <1>16 DEF TurnNext

-------------------------------------------------------------------------------
\* Every variable keeps its type: the loop stays within its steps, its retries and
\* its failures in a row.
THEOREM TurnTyped ==
  ASSUME TurnConstants
  PROVE  TurnSpec => []TurnTypeOK
<1>1. TurnInit => TurnInv
  BY TurnInitially
<1>2. TurnInv /\ [TurnNext]_talk => TurnInv'
  BY TurnStep
<1>3. TurnInv => TurnTypeOK
  BY DEF TurnInv
<1> QED BY <1>1, <1>2, <1>3, PTL DEF TurnSpec

\* A tool runs at most as often as the model asked for it, and a disabled one never;
\* the model is told of a success only if there was one, and of one that performs
\* something only if it did; and what was said comes with the tool's mark,
\* whatever runs late and however often the turn is begun again.
THEOREM CallsAreReportedTruly ==
  ASSUME TurnConstants
  PROVE  TurnSpec => []CallsReportedTruly
<1>1. TurnInit => TurnInv
  BY TurnInitially
<1>2. TurnInv /\ [TurnNext]_talk => TurnInv'
  BY TurnStep
<1>3. TurnInv => CallsReportedTruly
  BY DEF TurnInv
<1> QED BY <1>1, <1>2, <1>3, PTL DEF TurnSpec
-------------------------------------------------------------------------------
(* The downloads. *)

\* A file is not mistaken for a missing one, nor a checksum for an unknown one.
FetchConstants ==
  /\ Chunks \in Nat
  /\ Absent \notin Version /\ Absent \notin Seq(Version \cup {Hole})

\* Every chunk was taken from version v.
AllOf(file, v) == \A i \in 1..Len(file) : file[i] = v

\* The partial file is the beginning of what is served, and with the rest of the
\* body it is no longer than that; unless something odd happened to it, it has
\* its whole length when it is checked. What is moved has been checked.
PartialInv ==
  /\ partial # Absent => Len(partial) <= Chunks /\ (~odd => AllOf(partial, remote))
  /\ leg = "read" =>
       /\ partial # Absent /\ Len(partial) + Len(unread) <= Chunks
       /\ ~odd => total # 0 /\ AllOf(unread, remote)
  /\ leg \in {"check", "replace"} => partial # Absent /\ (~odd => Len(partial) = Chunks)
  /\ leg = "replace" => expected = Absent \/ partial = Whole(expected)

FetchInv == FetchTypeOK /\ PartialInv

-------------------------------------------------------------------------------
LEMMA PartialTyped ==
  ASSUME FetchConstants, FetchTypeOK, partial # Absent
  PROVE  partial \in Seq(Version \cup {Hole})
BY DEF FetchTypeOK, File

\* A process that is at rest.
LEMMA IdleTyped ==
  ASSUME FetchConstants, Idle
  PROVE  /\ leg' = "idle" /\ expected' \in Version \cup {Absent} /\ total' \in {0, Chunks}
         /\ resuming' \in BOOLEAN /\ unread' \in Seq(Version)
<1>1. <<>> \in Seq(Version)
  OBVIOUS
<1> QED BY <1>1 DEF Idle

LEMMA HaveBounded ==
  ASSUME FetchConstants, FetchInv
  PROVE  Have \in 0..Chunks
BY PartialTyped DEF FetchConstants, FetchInv, PartialInv, Have

\* What the server sends of the version it serves, from one chunk to another.
LEMMA SentIsRemote ==
  ASSUME FetchConstants, FetchTypeOK, NEW first \in 1..Chunks + 1, NEW last \in 0..Chunks
  PROVE  LET body == SubSeq(Whole(remote), first, last)
         IN body \in Seq(Version) /\ AllOf(body, remote) /\ first - 1 + Len(body) <= Chunks
<1>1. Whole(remote) \in Seq(Version) /\ Len(Whole(remote)) = Chunks
  BY DEF FetchConstants, FetchTypeOK, Whole
<1>2. \A i \in 1..Chunks : Whole(remote)[i] = remote
  BY DEF Whole
<1> QED BY <1>1, <1>2 DEF FetchConstants, FetchTypeOK, AllOf

-------------------------------------------------------------------------------
LEMMA FetchInitially == ASSUME FetchConstants, MaxUpdates \in Nat, FetchInit PROVE FetchInv
<1>1. <<>> \in Seq(Version)
  OBVIOUS
<1>2. FetchTypeOK
  <2>1. partial \in File /\ final \in File /\ unread \in Seq(Version)
    BY <1>1 DEF FetchInit, File
  <2>2. updates \in 0..MaxUpdates /\ total \in {0, Chunks} /\ odd \in BOOLEAN
    <3>1. updates = 0 /\ total = 0 /\ odd = FALSE
      BY Zenon DEF FetchInit
    <3>2. 0 \in 0..MaxUpdates
      OBVIOUS
    <3> QED BY <3>1, <3>2
  <2>3. /\ remote \in Version /\ leg = "idle"
        /\ expected \in Version \cup {Absent} /\ resuming \in BOOLEAN
    BY DEF FetchInit
  <2> QED BY <2>1, <2>2, <2>3 DEF FetchTypeOK
<1>3. PartialInv
  BY DEF FetchInit, PartialInv
<1> QED BY <1>2, <1>3 DEF FetchInv

LEMMA FetchStep ==
  ASSUME FetchConstants, MaxUpdates \in Nat, FetchInv, [FetchNext]_download
  PROVE  FetchInv'
<1>0. FetchTypeOK /\ PartialInv
  BY DEF FetchInv
<1>1. CASE UNCHANGED download
  BY <1>0, <1>1 DEF download, process, saved, FetchTypeOK, PartialInv, FetchInv, AllOf, Whole
<1>2. CASE Update
  <2>1. FetchTypeOK'
    BY <1>0, <1>2 DEF Update, process, saved, FetchTypeOK
  <2>2. PartialInv'
    BY <1>0, <1>2 DEF Update, process, saved, FetchTypeOK, PartialInv, AllOf, Whole
  <2> QED BY <2>1, <2>2 DEF FetchInv
<1>3. CASE Killed
  <2>1. FetchTypeOK'
    BY <1>0, <1>3, IdleTyped DEF Killed, saved, FetchTypeOK
  <2>2. PartialInv'
    BY <1>0, <1>3 DEF Killed, Idle, saved, FetchTypeOK, PartialInv, AllOf
  <2> QED BY <2>1, <2>2 DEF FetchInv
<1>4. CASE Begin
  <2>1. FetchTypeOK'
    BY <1>0, <1>4 DEF Begin, saved, FetchTypeOK
  <2>2. PartialInv'
    BY <1>0, <1>4 DEF Begin, saved, FetchTypeOK, PartialInv, AllOf
  <2> QED BY <2>1, <2>2 DEF FetchInv
<1>5. CASE Aria
  <2>1. CASE leg' = "size" /\ UNCHANGED <<partial, odd>>
    <3>1. FetchTypeOK'
      BY <1>0, <1>5, <2>1 DEF Aria, FetchTypeOK
    <3>2. PartialInv'
      BY <1>0, <1>5, <2>1 DEF Aria, FetchTypeOK, PartialInv, AllOf
    <3> QED BY <3>1, <3>2 DEF FetchInv
  <2>2. ASSUME leg' \in {"check", "size"}, odd' = TRUE,
               NEW n \in Have..Chunks, NEW written \in SUBSET (Have + 1..Chunks),
               partial' = [i \in 1..n |-> IF i <= Have THEN partial[i]
                                          ELSE IF i \in written THEN remote ELSE Hole]
        PROVE  FetchInv'
    <3>1. n \in 0..Chunks
      BY HaveBounded DEF FetchConstants
    <3>2. \A i \in 1..Have : partial[i] \in Version \cup {Hole}
      BY PartialTyped, <1>0 DEF Have
    <3>3. partial' \in Seq(Version \cup {Hole}) /\ Len(partial') = n
      BY <1>0, <2>2, <3>1, <3>2, HaveBounded DEF FetchTypeOK, FetchConstants
    <3>4. FetchTypeOK'
      BY <1>0, <1>5, <2>2, <3>3 DEF Aria, FetchTypeOK, File
    <3>5. PartialInv'
      BY <1>0, <2>2, <3>1, <3>3 DEF PartialInv, FetchConstants
    <3> QED BY <3>4, <3>5 DEF FetchInv
  <2> QED BY <1>5, <2>1, <2>2 DEF Aria
<1>6. CASE Size
  <2>1. FetchTypeOK'
    BY <1>0, <1>6 DEF Size, saved, FetchTypeOK
  <2>2. leg' = "check" => partial # Absent /\ Len(partial) = Chunks
    BY <1>0, <1>6, HaveBounded DEF Size, FetchConstants, Have
  <2>3. PartialInv'
    BY <1>0, <1>6, <2>2 DEF Size, saved, FetchTypeOK, PartialInv, AllOf
  <2> QED BY <2>1, <2>3 DEF FetchInv
<1>7. CASE Open
  <2>1. PICK sent \in 0..Chunks :
       \/ /\ Have > 0 /\ Have < Chunks /\ resuming' = TRUE
          /\ unread' = SubSeq(Whole(remote), Have + 1, sent)
          /\ partial' = partial /\ odd' = (odd \/ total = 0)
       \/ /\ resuming' = FALSE
          /\ unread' = SubSeq(Whole(remote), 1, sent)
          /\ partial' = <<>> /\ odd' = (total = 0)
    BY <1>7 DEF Open
  <2>2. /\ leg' = "read" /\ UNCHANGED <<remote, updates, expected, total, final>>
    BY <1>7 DEF Open
  <2>3. CASE /\ Have > 0 /\ Have < Chunks /\ resuming' = TRUE
             /\ unread' = SubSeq(Whole(remote), Have + 1, sent)
             /\ partial' = partial /\ odd' = (odd \/ total = 0)
    <3>1. partial # Absent /\ Len(partial) = Have /\ Have \in 1..Chunks
      BY <2>3, HaveBounded DEF Have, FetchConstants
    <3>2. unread' \in Seq(Version) /\ AllOf(unread', remote) /\ Len(partial) + Len(unread') <= Chunks
      BY <1>0, <2>3, <3>1, SentIsRemote DEF FetchConstants
    <3>3. FetchTypeOK'
      BY <1>0, <2>2, <2>3, <3>2 DEF FetchTypeOK
    <3>4. PartialInv'
      BY <1>0, <2>2, <2>3, <3>1, <3>2 DEF PartialInv, AllOf
    <3> QED BY <3>3, <3>4 DEF FetchInv
  <2>4. CASE /\ resuming' = FALSE
             /\ unread' = SubSeq(Whole(remote), 1, sent)
             /\ partial' = <<>> /\ odd' = (total = 0)
    <3>1. unread' \in Seq(Version) /\ AllOf(unread', remote) /\ Len(unread') <= Chunks
      BY <1>0, <2>4, SentIsRemote DEF FetchConstants
    <3>2. partial' \in Seq(Version \cup {Hole}) /\ Len(partial') = 0
      <4>1. <<>> \in Seq(Version \cup {Hole}) /\ Len(<<>>) = 0
        OBVIOUS
      <4> QED BY <2>4, <4>1
    <3>3. partial' # Absent /\ AllOf(partial', remote)
      <4>1. partial' # Absent
        BY <3>2 DEF FetchConstants
      <4>2. AllOf(partial', remote)
        BY <3>2 DEF AllOf
      <4> QED BY <4>1, <4>2
    <3>4. FetchTypeOK'
      BY <1>0, <2>2, <2>4, <3>1, <3>2 DEF FetchTypeOK, File
    <3>5. ~odd' => total' # 0
      BY <2>2, <2>4
    <3>6. PartialInv'
      BY <2>2, <3>1, <3>2, <3>3, <3>5 DEF PartialInv, AllOf, FetchConstants, FetchTypeOK
    <3> QED BY <3>4, <3>6 DEF FetchInv
  <2> QED BY <2>1, <2>3, <2>4
<1>8. CASE Read
  <2>1. /\ leg = "read" /\ unread # <<>> /\ partial # Absent
        /\ partial' = Append(partial, Head(unread)) /\ unread' = Tail(unread)
        /\ UNCHANGED <<remote, updates, leg, expected, total, resuming, final, odd>>
    BY <1>0, <1>8 DEF Read, PartialInv
  <2>2. partial \in Seq(Version \cup {Hole}) /\ unread \in Seq(Version)
    BY <1>0, <2>1, PartialTyped DEF FetchTypeOK
  <2>3. /\ partial' \in Seq(Version \cup {Hole}) /\ Len(partial') = Len(partial) + 1
        /\ unread' \in Seq(Version) /\ Len(unread') = Len(unread) - 1
    BY <2>1, <2>2
  <2>4. FetchTypeOK'
    BY <1>0, <2>1, <2>3 DEF FetchTypeOK, File
  <2>5. ~odd => AllOf(partial', remote) /\ AllOf(unread', remote)
    <3> SUFFICES ASSUME ~odd PROVE AllOf(partial', remote) /\ AllOf(unread', remote)
      OBVIOUS
    <3>1. AllOf(partial, remote) /\ AllOf(unread, remote) /\ Head(unread) = remote
      BY <1>0, <2>1, <2>2 DEF PartialInv, AllOf
    <3>2. \A i \in 1..Len(partial') : i = Len(partial) + 1 \/ i \in 1..Len(partial)
      BY <2>2, <2>3
    <3>3. \A i \in 1..Len(partial) : partial'[i] = partial[i]
      BY <2>1, <2>2
    <3>4. partial'[Len(partial) + 1] = remote
      BY <2>1, <2>2, <3>1
    <3>5. AllOf(partial', remote)
      BY <3>1, <3>2, <3>3, <3>4 DEF AllOf
    <3>6. \A i \in 1..Len(Tail(unread)) : Tail(unread)[i] = unread[i + 1] /\ i + 1 \in 1..Len(unread)
      BY <2>2
    <3>7. AllOf(unread', remote)
      BY <2>1, <3>1, <3>6 DEF AllOf
    <3> QED BY <3>5, <3>7
  <2>6. partial' # Absent
    BY <2>3 DEF FetchConstants
  <2>7. Len(partial') + Len(unread') <= Chunks /\ Len(partial') <= Chunks
    BY <1>0, <2>1, <2>2, <2>3 DEF PartialInv, FetchConstants
  <2>8. PartialInv'
    BY <1>0, <2>1, <2>5, <2>6, <2>7 DEF PartialInv, AllOf
  <2> QED BY <2>4, <2>8 DEF FetchInv
<1>9. CASE EndOfBody
  <2>1. FetchTypeOK'
    BY <1>0, <1>9, IdleTyped DEF EndOfBody, saved, FetchTypeOK
  <2>2. PartialInv'
    BY <1>0, <1>9 DEF EndOfBody, Idle, saved, FetchTypeOK, PartialInv, AllOf
  <2> QED BY <2>1, <2>2 DEF FetchInv
<1>10. CASE Verify
  <2>1. FetchTypeOK'
    BY <1>0, <1>10, IdleTyped DEF Verify, saved, FetchTypeOK
  <2>2. PartialInv'
    BY <1>0, <1>10 DEF Verify, Idle, saved, FetchTypeOK, PartialInv, AllOf, Whole
  <2> QED BY <2>1, <2>2 DEF FetchInv
<1>11. CASE Replace
  <2>1. FetchTypeOK'
    BY <1>0, <1>11, IdleTyped DEF Replace, FetchTypeOK, File
  <2>2. PartialInv'
    BY <1>0, <1>11 DEF Replace, Idle, PartialInv
  <2> QED BY <2>1, <2>2 DEF FetchInv
<1> QED BY <1>1, <1>2, <1>3, <1>4, <1>5, <1>6, <1>7, <1>8, <1>9, <1>10, <1>11 DEF FetchNext

\* The file is written by Replace alone: from what was checked.
LEMMA PublishStep ==
  ASSUME FetchConstants, FetchInv, [FetchNext]_download, final' # final
  PROVE  \/ expected # Absent /\ final' = Whole(expected)
         \/ expected = Absent /\ (odd \/ \E v \in Version : final' = Whole(v))
<1>0. FetchTypeOK /\ PartialInv
  BY DEF FetchInv
<1>1. Replace
  BY DEF FetchNext, download, saved, process, Update, Killed, Begin, Aria, Size, Open, Read, EndOfBody, Verify, Idle
<1>2. leg = "replace" /\ final' = partial /\ partial # Absent
  BY <1>0, <1>1 DEF Replace, PartialInv
<1>3. CASE expected # Absent
  BY <1>0, <1>2, <1>3 DEF PartialInv
<1>4. CASE expected = Absent /\ ~odd
  <2>1. partial \in Seq(Version \cup {Hole}) /\ Len(partial) = Chunks /\ AllOf(partial, remote)
    BY <1>0, <1>2, <1>4, PartialTyped DEF PartialInv
  <2>2. partial = Whole(remote)
    BY <2>1 DEF AllOf, Whole
  <2> QED BY <1>0, <1>2, <1>4, <2>2 DEF FetchTypeOK
<1> QED BY <1>3, <1>4

-------------------------------------------------------------------------------
\* Every variable keeps its type, whatever ends the runs and whatever they find.
THEOREM FetchTyped ==
  ASSUME FetchConstants, MaxUpdates \in Nat
  PROVE  FetchSpec => []FetchTypeOK
<1>1. FetchInit => FetchInv
  BY FetchInitially
<1>2. FetchInv /\ [FetchNext]_download => FetchInv'
  BY FetchStep
<1>3. FetchInv => FetchTypeOK
  BY DEF FetchInv
<1> QED BY <1>1, <1>2, <1>3, PTL DEF FetchSpec

\* What is moved to its place has the checksum that was expected; if none is
\* known it is one version from end to end, unless the remote file changed under
\* the partial one, its length was not known or aria2c had a hand in it.
THEOREM PublishedFilesAreRemote ==
  ASSUME FetchConstants, MaxUpdates \in Nat
  PROVE  FetchSpec => PublishedIsRemote
<1>1. FetchInit => FetchInv
  BY FetchInitially
<1>2. FetchInv /\ [FetchNext]_download => FetchInv'
  BY FetchStep
<1>3. FetchInv /\ [FetchNext]_download =>
        [final' # final =>
           \/ expected # Absent /\ final' = Whole(expected)
           \/ expected = Absent /\ (odd \/ \E v \in Version : final' = Whole(v))]_download
  BY PublishStep
<1> QED BY <1>1, <1>2, <1>3, PTL DEF FetchSpec, PublishedIsRemote

-------------------------------------------------------------------------------
(* The vulnerability intelligence. *)

\* No entry is the missing one; there are finitely many, and finitely many polls.
IntelConstants ==
  /\ NoLine \notin Cve
  /\ IsFiniteSet(Cve) /\ IsFiniteSet(Poll)

Pieces == [id : Cve, critical : BOOLEAN, by : Poll, kind : {"line", "head", "cut", "rest"}]

\* A line is torn only by a poll that dies of it.
TornByDeath == torn <= Cardinality({p \in Poll : polling[p] = "dead"})

\* What is appended now begins a line.
AtLineStart == intel = <<>> \/ EndsLine(intel[Len(intel)])

\* The beginning at the end of the file is that of a line.
HeadStartsLine == Len(intel) = 1 \/ EndsLine(intel[Len(intel) - 1])

\* What is marked as critical is listed or was rated so; who has begun a line is writing; what the
\* playbooks took is in the file.
MarksTrue ==
  /\ \A p \in Poll : marked[p] \subseteq Exploited \cup Severe
  /\ \A i \in DOMAIN intel : intel[i].critical => intel[i].id \in Exploited \cup Severe
BegunWriting == \A p \in Poll : begun[p] # NoLine => polling[p] = "write"
AlertsInFile ==
  \A a \in alerted : \E i \in Rows : a.id = intel[i].id /\ a.critical = intel[i].critical

\* While no polls overlap: one writes, what it has yet to write is not in the file, where
\* nothing is twice, and a line that is begun is the last.
OneWriter == \A p, q \in Poll : polling[p] = "write" /\ polling[q] = "write" => p = q
NoneTwice == \A i, j \in Rows : intel[i].id = intel[j].id => i = j
YetToCome ==
  \A p \in Poll : polling[p] = "write" => unwritten[p] \cap Recorded = {} /\ begun[p] \notin Recorded \cup unwritten[p]
HeadIsLast ==
  \A p \in Poll : begun[p] # NoLine =>
    /\ intel # <<>> /\ intel[Len(intel)].kind \in {"head", "cut"}
    /\ [intel[Len(intel)] EXCEPT !.kind = "rest"] = Piece(p, begun[p], "rest")

\* What the polls count as in the file: those that ended and the one that writes.
Claimed ==
  delivered \cup {c \in Cve : \E p \in Poll : polling[p] = "write" /\ c \in got[p] /\ c \notin unwritten[p] \cup {begun[p]}}
Lost == Claimed \ Recorded

\* A line was torn and what comes after it is yet to be lost.
Owing ==
  IF \E p \in Poll : begun[p] # NoLine THEN ~HeadStartsLine ELSE ~AtLineStart

LossesCounted == Cardinality(Lost) <= torn /\ (Owing => Cardinality(Lost) < torn)

Apart == OneWriter /\ NoneTwice /\ YetToCome /\ HeadIsLast /\ LossesCounted

IntelInv == IntelTypeOK /\ TornByDeath /\ MarksTrue /\ BegunWriting /\ AlertsInFile /\ (~overlap => Apart)

LEMMA AppendTyped ==
  ASSUME NEW S, NEW seq \in Seq(S), NEW e \in S PROVE Append(seq, e) \in Seq(S)
OBVIOUS

LEMMA IntelTypeInit ==
  ASSUME IntelConstants, IntelInit PROVE IntelTypeOK /\ TornByDeath
<1>1. /\ Nothing \in [Poll -> SUBSET Cve] /\ [p \in Poll |-> NoLine] \in [Poll -> Cve \cup {NoLine}]
      /\ [p \in Poll |-> "ask"] \in [Poll -> {"ask", "write", "done", "dead"}]
  BY DEF Nothing
<1>2. /\ IsFiniteSet({p \in Poll : polling[p] = "dead"})
      /\ Cardinality({p \in Poll : polling[p] = "dead"}) \in Nat /\ Cardinality(Poll) \in Nat
  <2>1. {p \in Poll : polling[p] = "dead"} \subseteq Poll
    OBVIOUS
  <2> QED
    BY <2>1, FS_Subset, FS_CardinalityType DEF IntelConstants
<1>3. /\ torn = 0
      /\ delivered \subseteq Cve /\ overlap \in BOOLEAN
      /\ alerted \subseteq [id : Cve, critical : BOOLEAN]
      /\ got = Nothing /\ marked = Nothing /\ unwritten = Nothing
      /\ begun = [p \in Poll |-> NoLine] /\ polling = [p \in Poll |-> "ask"]
  BY Zenon DEF IntelInit
<1>4. intel \in Seq(Pieces)
  BY DEF IntelInit
<1>5. IntelTypeOK
  <2>1. /\ {got, marked, unwritten} \subseteq [Poll -> SUBSET Cve] /\ begun \in [Poll -> Cve \cup {NoLine}]
        /\ polling \in [Poll -> {"ask", "write", "done", "dead"}]
    BY <1>1, <1>3
  <2>2. torn \in 0..Cardinality(Poll)
    BY <1>2, <1>3
  <2> QED
    BY <1>3, <1>4, <2>1, <2>2, Zenon DEF IntelTypeOK, Pieces
<1> QED
  BY <1>2, <1>3, <1>5 DEF TornByDeath

LEMMA IntelTypeStep ==
  ASSUME IntelConstants, IntelTypeOK, TornByDeath, [IntelNext]_intelVars PROVE IntelTypeOK' /\ TornByDeath'
<1> DEFINE Dead == {p \in Poll : polling[p] = "dead"}
           Typed == /\ intel' \in Seq(Pieces) /\ polling' \in [Poll -> {"ask", "write", "done", "dead"}]
                    /\ got' \in [Poll -> SUBSET Cve] /\ marked' \in [Poll -> SUBSET Cve]
                    /\ unwritten' \in [Poll -> SUBSET Cve] /\ begun' \in [Poll -> Cve \cup {NoLine}]
                    /\ delivered' \subseteq Cve /\ overlap' \in BOOLEAN
                    /\ alerted' \subseteq [id : Cve, critical : BOOLEAN]
                    /\ torn' \in Nat /\ torn' <= Cardinality(Dead')
<1> USE DEF IntelConstants
<1>1. /\ intel \in Seq(Pieces) /\ polling \in [Poll -> {"ask", "write", "done", "dead"}]
      /\ got \in [Poll -> SUBSET Cve] /\ marked \in [Poll -> SUBSET Cve] /\ unwritten \in [Poll -> SUBSET Cve]
      /\ begun \in [Poll -> Cve \cup {NoLine}] /\ delivered \subseteq Cve /\ overlap \in BOOLEAN
      /\ torn \in 0..Cardinality(Poll) /\ alerted \subseteq [id : Cve, critical : BOOLEAN]
  BY DEF IntelTypeOK, Pieces
<1>2. /\ IsFiniteSet(Dead) /\ IsFiniteSet(Dead') /\ Cardinality(Poll) \in Nat
      /\ Cardinality(Dead) \in Nat /\ Cardinality(Dead') \in Nat
      /\ Cardinality(Dead') <= Cardinality(Poll)
  <2>1. Dead \subseteq Poll /\ Dead' \subseteq Poll
    OBVIOUS
  <2> QED
    BY <2>1, FS_Subset, FS_CardinalityType
<1>3. SUFFICES Typed
  BY <1>2 DEF IntelTypeOK, Pieces, TornByDeath
<1>4. torn \in Nat /\ torn <= Cardinality(Dead)
  BY <1>1, <1>2 DEF TornByDeath
<1>5. ASSUME torn' = torn, Dead \subseteq Dead' PROVE torn' \in Nat /\ torn' <= Cardinality(Dead')
  <2>1. Cardinality(Dead) <= Cardinality(Dead')
    BY <1>2, <1>5, FS_Subset
  <2> QED
    BY <2>1, <1>2, <1>4, <1>5
<1>6. ASSUME NEW p \in Poll, NEW c \in Cve, NEW kind \in {"line", "head", "cut", "rest"}
      PROVE Piece(p, c, kind) \in Pieces
  BY DEF Piece, Pieces
<1>7. ASSUME NEW p \in Poll, NEW how \in {"done", "dead"}, Over(p, how)
      PROVE /\ polling' \in [Poll -> {"ask", "write", "done", "dead"}]
            /\ got' \in [Poll -> SUBSET Cve] /\ marked' \in [Poll -> SUBSET Cve]
            /\ unwritten' \in [Poll -> SUBSET Cve] /\ begun' \in [Poll -> Cve \cup {NoLine}]
  BY <1>1, <1>7 DEF Over
<1>8. ASSUME NEW p \in Poll, Ask(p) PROVE Typed
  <2>1. PICK nvd \in Nvd, rated \in Rated, kev \in Kev, ghsa \in Ghsa, osv \in Osv :
          /\ got' = [got EXCEPT ![p] = nvd \cup ghsa \cup osv]
          /\ marked' = [marked EXCEPT ![p] = (rated \cap nvd) \cup (kev \cap (nvd \cup ghsa))]
          /\ Diff(p, nvd \cup ghsa \cup osv)
    BY <1>8 DEF Ask
  <2>2. nvd \subseteq Cve /\ ghsa \subseteq Cve /\ osv \subseteq Cve
    BY DEF Nvd, Ghsa, Osv
  <2>3. unwritten' \in [Poll -> SUBSET Cve] /\ overlap' \in BOOLEAN
    <3>1. ASSUME NEW S PROVE (nvd \cup ghsa \cup osv) \ S \in SUBSET Cve
      BY <2>2
    <3>2. \E S \in SUBSET Cve : unwritten' = [unwritten EXCEPT ![p] = S]
      BY <2>1, <2>2, <3>1 DEF Diff
    <3>3. overlap' \in BOOLEAN
      BY <2>1 DEF Diff
    <3> QED
      BY <1>1, <3>2, <3>3
  <2>4. got' \in [Poll -> SUBSET Cve] /\ marked' \in [Poll -> SUBSET Cve]
    BY <1>1, <2>1, <2>2
  <2>5. polling' \in [Poll -> {"ask", "write", "done", "dead"}] /\ Dead \subseteq Dead'
    BY <1>1, <1>8 DEF Ask
  <2> QED
    BY <1>1, <1>5, <1>8, <2>3, <2>4, <2>5 DEF Ask
<1>9. ASSUME NEW p \in Poll, Fail(p) PROVE Typed
  <2>1. Dead \subseteq Dead'
    BY <1>1, <1>9 DEF Fail, Over
  <2> QED
    BY <1>1, <1>5, <1>7, <1>9, <2>1 DEF Fail, history
<1>10. ASSUME NEW p \in Poll, WriteEntry(p) PROVE Typed
  <2>1. PICK c \in unwritten[p] :
          /\ unwritten' = [unwritten EXCEPT ![p] = @ \ {c}]
          /\ \/ intel' = Append(intel, Piece(p, c, "line")) /\ UNCHANGED begun
             \/ \E kind \in {"head", "cut"} : /\ intel' = Append(intel, Piece(p, c, kind))
                                              /\ begun' = [begun EXCEPT ![p] = c]
    BY <1>10 DEF WriteEntry
  <2>2. c \in Cve
    BY <1>1
  <2>3. intel' \in Seq(Pieces)
    <3>1. \E kind \in {"line", "head", "cut"} : intel' = Append(intel, Piece(p, c, kind))
      BY <2>1
    <3> QED
      BY <1>1, <1>6, <2>2, <3>1, AppendTyped
  <2>4. begun' \in [Poll -> Cve \cup {NoLine}] /\ unwritten' \in [Poll -> SUBSET Cve]
    BY <1>1, <2>1, <2>2
  <2>5. Dead = Dead'
    BY <1>10 DEF WriteEntry
  <2> QED
    BY <1>1, <1>5, <1>10, <2>3, <2>4, <2>5 DEF WriteEntry, history
<1>11. ASSUME NEW p \in Poll, WriteRest(p) PROVE Typed
  <2>1. begun[p] \in Cve
    BY <1>1, <1>11 DEF WriteRest
  <2>2. intel' \in Seq(Pieces)
    BY <1>1, <1>6, <1>11, <2>1, AppendTyped DEF WriteRest
  <2>3. begun' \in [Poll -> Cve \cup {NoLine}] /\ Dead = Dead'
    BY <1>1, <1>11 DEF WriteRest
  <2> QED
    BY <1>1, <1>5, <1>11, <2>2, <2>3 DEF WriteRest, history
<1>12. ASSUME NEW p \in Poll, Close(p) PROVE Typed
  <2>1. Dead \subseteq Dead'
    BY <1>1, <1>12 DEF Close, Over
  <2>2. delivered' \subseteq Cve
    BY <1>1, <1>12 DEF Close
  <2> QED
    BY <1>1, <1>5, <1>7, <1>12, <2>1, <2>2 DEF Close
<1>13. ASSUME NEW p \in Poll, Die(p) PROVE Typed
  <2>1. p \notin Dead /\ Dead' = Dead \cup {p}
    BY <1>1, <1>13 DEF Die, Over
  <2>2. Cardinality(Dead') = Cardinality(Dead) + 1
    BY <1>2, <2>1, FS_AddElement
  <2>3. torn' = torn \/ torn' = torn + 1
    <3>1. torn' = torn + (IF begun[p] # NoLine THEN 1 ELSE 0)
      BY <1>13 DEF Die
    <3> QED
      BY <1>4, <3>1
  <2>4. torn' \in Nat /\ torn' <= Cardinality(Dead')
    BY <1>2, <1>4, <2>2, <2>3
  <2> QED
    BY <1>1, <1>7, <1>13, <2>4 DEF Die
<1>14. ASSUME Act PROVE Typed
  <2>0. PICK within \in SUBSET Rows :
          alerted' = alerted \cup {[id |-> intel[i].id, critical |-> intel[i].critical] : i \in Recent(within)}
    BY <1>14 DEF Act
  <2>1. ASSUME NEW i \in Recent(within) PROVE [id |-> intel[i].id, critical |-> intel[i].critical] \in [id : Cve, critical : BOOLEAN]
    <3>1. i \in DOMAIN intel
      BY DEF Recent, Rows
    <3>2. intel[i] \in Pieces
      BY <1>1, <3>1
    <3> QED
      BY <3>2 DEF Pieces
  <2>2. alerted' \subseteq [id : Cve, critical : BOOLEAN]
    BY <1>1, <2>0, <2>1
  <2>3. Dead = Dead'
    BY <1>14 DEF Act, poll
  <2> QED
    BY <1>1, <1>5, <1>14, <2>2, <2>3 DEF Act, poll, history
<1>15. ASSUME UNCHANGED intelVars PROVE Typed
  <2>1. Dead = Dead'
    BY <1>15 DEF intelVars, poll
  <2> QED
    BY <1>1, <1>5, <1>15, <2>1 DEF intelVars, poll, history
<1> QED
  BY <1>8, <1>9, <1>10, <1>11, <1>12, <1>13, <1>14, <1>15 DEF IntelNext, PollStep

-------------------------------------------------------------------------------
\* What is in the file when a piece has been appended.

LEMMA StoredIs ==
  ASSUME IntelTypeOK
  PROVE /\ Rows \subseteq DOMAIN intel /\ DOMAIN intel = 1..Len(intel) /\ Len(intel) \in Nat
        /\ \A i \in DOMAIN intel : intel[i] \in Pieces
        /\ Recorded = {intel[i].id : i \in Rows} /\ Recorded \subseteq Cve
<1>1. intel \in Seq(Pieces)
  BY DEF IntelTypeOK, Pieces
<1>2. /\ DOMAIN intel = 1..Len(intel) /\ Len(intel) \in Nat /\ Rows \subseteq DOMAIN intel
      /\ \A i \in DOMAIN intel : intel[i] \in Pieces
  BY <1>1 DEF Rows
<1>3. \A i \in Rows : intel[i].id \in Cve
  BY <1>2 DEF Pieces
<1> QED
  BY <1>2, <1>3 DEF Recorded

LEMMA PieceAppended ==
  ASSUME IntelTypeOK, NEW x \in Pieces, intel' = Append(intel, x)
  PROVE /\ Len(intel') = Len(intel) + 1 /\ DOMAIN intel' = 1..Len(intel) + 1
        /\ intel'[Len(intel) + 1] = x
        /\ \A i \in DOMAIN intel : intel'[i] = intel[i]
        /\ \A i \in Rows : i \in Rows' /\ intel'[i] = intel[i]
        /\ \A i \in Rows' \ Rows :
             \/ i = Len(intel) + 1 /\ x.kind = "line" /\ AtLineStart
             \/ i = Len(intel) /\ i > 0 /\ x = [intel[Len(intel)] EXCEPT !.kind = "rest"]
        /\ x.kind = "line" /\ AtLineStart => Len(intel) + 1 \in Rows'
        /\ Len(intel) > 0 /\ x = [intel[Len(intel)] EXCEPT !.kind = "rest"]
             /\ intel[Len(intel)].kind \in {"head", "cut"} /\ HeadStartsLine => Len(intel) \in Rows'
<1>1. intel \in Seq(Pieces)
  BY DEF IntelTypeOK, Pieces
<1>0. PICK n \in Nat : n = Len(intel)
  BY <1>1
<1>2. /\ n \in Nat /\ DOMAIN intel = 1..n /\ Len(intel') = n + 1 /\ DOMAIN intel' = 1..n + 1
      /\ intel'[n + 1] = x /\ \A i \in 1..n : intel'[i] = intel[i]
  BY <1>0, <1>1
<1>3. intel = <<>> <=> n = 0
  BY <1>0, <1>1
<1>4. ASSUME NEW i \in 1..n PROVE Joined(i) => Joined(i)'
  BY <1>0, <1>2, <1>4 DEF Joined
<1>5. ASSUME NEW i \in 1..n, i # n PROVE Joined(i)' => Joined(i)
  BY <1>0, <1>2, <1>5 DEF Joined
<1>6. ASSUME NEW i \in 1..n PROVE (i = 1 \/ EndsLine(intel'[i - 1])) <=> (i = 1 \/ EndsLine(intel[i - 1]))
  <2>1. i # 1 => i - 1 \in 1..n
    BY <1>2
  <2> QED
    BY <1>2, <2>1
<1>7. ASSUME NEW i \in 1..n PROVE (i \in Rows => i \in Rows') /\ (i \in Rows' /\ i # n => i \in Rows)
  <2>1. intel'[i] = intel[i] /\ i \in DOMAIN intel'
    BY <1>2
  <2> QED
    BY <1>2, <1>4, <1>5, <1>6, <2>1 DEF Rows, Parses
<1>8. ASSUME n \in 1..n, n \in Rows', n \notin Rows PROVE x = [intel[n] EXCEPT !.kind = "rest"]
  <2>1. intel'[n] = intel[n] /\ n \in DOMAIN intel
    BY <1>2, <1>8
  <2>2. Joined(n)'
    BY <1>6, <1>8, <2>1 DEF Rows, Parses
  <2> QED
    BY <1>2, <2>1, <2>2 DEF Joined
<1>9. (n + 1 \in Rows') <=> x.kind = "line" /\ AtLineStart
  <2>1. ~Joined(n + 1)'
    BY <1>2 DEF Joined
  <2>2. n + 1 \in DOMAIN intel' /\ intel'[n + 1] = x
    BY <1>2
  <2>3. (n + 1 = 1 \/ EndsLine(intel'[n])) <=> AtLineStart
    <3>1. CASE n = 0
      BY <1>3, <3>1 DEF AtLineStart
    <3>2. CASE n # 0
      <4>1. n \in 1..n
        BY <1>2, <3>2
      <4> QED
        BY <1>0, <1>2, <1>3, <3>2, <4>1 DEF AtLineStart
    <3> QED
      BY <3>1, <3>2
  <2>4. (n + 1) - 1 = n
    BY <1>2
  <2> QED
    BY <2>1, <2>2, <2>3, <2>4 DEF Rows, Parses
<1>10. ASSUME n > 0, x = [intel[n] EXCEPT !.kind = "rest"], intel[n].kind \in {"head", "cut"}, HeadStartsLine
       PROVE n \in Rows'
  <2>1. n \in 1..n /\ n < Len(intel')
    BY <1>2, <1>10
  <2>2. Joined(n)'
    BY <1>2, <1>10, <2>1 DEF Joined
  <2>3. n = 1 \/ EndsLine(intel'[n - 1])
    BY <1>0, <1>6, <1>10, <2>1 DEF HeadStartsLine
  <2> QED
    BY <1>2, <1>10, <2>1, <2>2, <2>3 DEF Rows, Parses
<1>11. ASSUME NEW i \in Rows' \ Rows
       PROVE \/ i = n + 1 /\ x.kind = "line" /\ AtLineStart
             \/ i = n /\ i > 0 /\ x = [intel[n] EXCEPT !.kind = "rest"]
  <2>1. i \in 1..n + 1
    BY <1>2 DEF Rows
  <2>2. CASE i = n + 1
    BY <1>9, <2>2
  <2>3. CASE i # n + 1
    <3>1. i \in 1..n
      BY <1>2, <2>1, <2>3
    <3>2. i = n
      BY <1>7, <3>1
    <3> QED
      BY <1>2, <1>8, <3>1, <3>2
  <2> QED
    BY <2>2, <2>3
<1>12. ASSUME NEW i \in Rows PROVE i \in Rows' /\ intel'[i] = intel[i]
  <2>1. i \in 1..n
    BY <1>2 DEF Rows
  <2> QED
    BY <1>2, <1>7, <2>1
<1> QED
  BY <1>2, <1>9, <1>10, <1>11, <1>12, <1>0

\* An appended piece adds at most its own entry.
LEMMA PieceStored ==
  ASSUME IntelTypeOK, NEW x \in Pieces, intel' = Append(intel, x)
  PROVE /\ Recorded \subseteq Recorded' /\ Recorded' \subseteq Recorded \cup {x.id}
        /\ NoneTwice /\ x.id \notin Recorded => NoneTwice'
<1>0. PICK n \in Nat : n = Len(intel)
  BY StoredIs
<1>1. /\ intel'[n + 1] = x /\ \A i \in DOMAIN intel : intel'[i] = intel[i]
      /\ \A i \in Rows : i \in Rows' /\ intel'[i] = intel[i]
      /\ \A i \in Rows' \ Rows : \/ i = n + 1 /\ x.kind = "line"
                                 \/ i = n /\ i > 0 /\ x = [intel[n] EXCEPT !.kind = "rest"]
  BY <1>0, PieceAppended
<1>2. DOMAIN intel = 1..n /\ \A i \in DOMAIN intel : intel[i] \in Pieces
  BY <1>0, StoredIs
<1>3. ASSUME NEW i \in Rows' \ Rows PROVE intel'[i].id = x.id
  <2>1. CASE i = n + 1
    BY <1>1, <2>1
  <2>2. CASE i = n /\ i > 0 /\ x = [intel[n] EXCEPT !.kind = "rest"]
    <3>1. intel'[i] = intel[n] /\ intel[n] \in Pieces
      BY <1>1, <1>2, <2>2
    <3> QED
      BY <2>2, <3>1 DEF Pieces
  <2> QED
    BY <1>1, <2>1, <2>2
<1>4. ASSUME NEW i \in Rows' \ Rows, NEW j \in Rows' \ Rows PROVE i = j
  <2>1. ASSUME n \in DOMAIN intel, x = [intel[n] EXCEPT !.kind = "rest"] PROVE x.kind # "line"
    <3>1. intel[n] \in Pieces
      BY <1>2, <2>1
    <3> QED
      BY <2>1, <3>1 DEF Pieces
  <2> QED
    BY <1>1, <1>2, <2>1
<1>5. Recorded = {intel[i].id : i \in Rows} /\ Recorded' = {intel'[i].id : i \in Rows'}
  BY DEF Recorded
<1>6. Recorded \subseteq Recorded' /\ Recorded' \subseteq Recorded \cup {x.id}
  BY <1>1, <1>3, <1>5
<1>7. ASSUME NoneTwice, x.id \notin Recorded PROVE NoneTwice'
  <2>1. SUFFICES ASSUME NEW i \in Rows', NEW j \in Rows', intel'[i].id = intel'[j].id PROVE i = j
    BY DEF NoneTwice
  <2>2. CASE i \in Rows /\ j \in Rows
    BY <1>1, <1>7, <2>1, <2>2 DEF NoneTwice
  <2>3. ASSUME NEW k \in Rows, NEW l \in Rows' \ Rows PROVE intel'[k].id # intel'[l].id
    BY <1>1, <1>3, <1>5, <1>7
  <2> QED
    BY <1>4, <2>1, <2>2, <2>3
<1> QED
  BY <1>6, <1>7

LEMMA PieceTyped ==
  ASSUME NEW p \in Poll, NEW c \in Cve, NEW kind \in {"line", "head", "cut", "rest"}, IntelTypeOK
  PROVE Piece(p, c, kind) \in Pieces /\ Piece(p, c, kind).id = c /\ Piece(p, c, kind).kind = kind
        /\ Piece(p, c, kind).critical = (c \in marked[p])
BY DEF Piece, Pieces

\* A whole line is an entry where a line begins, and a line ends behind it.
LEMMA LineAppended ==
  ASSUME IntelTypeOK, NEW x \in Pieces, intel' = Append(intel, x), x.kind = "line"
  PROVE AtLineStart' /\ (AtLineStart => x.id \in Recorded')
<1>1. Len(intel') = Len(intel) + 1 /\ intel'[Len(intel) + 1] = x
  BY PieceAppended
<1>2. AtLineStart => Len(intel) + 1 \in Rows'
  BY PieceAppended
<1>3. EndsLine(intel'[Len(intel')])
  BY <1>1 DEF EndsLine
<1>4. Recorded' = {intel'[i].id : i \in Rows'}
  BY DEF Recorded
<1> QED
  BY <1>1, <1>2, <1>3, <1>4 DEF AtLineStart

\* The beginning of a line is no entry.
LEMMA HeadAppended ==
  ASSUME IntelTypeOK, NEW x \in Pieces, intel' = Append(intel, x), x.kind \in {"head", "cut"}
  PROVE /\ intel' # <<>> /\ intel'[Len(intel')] = x
        /\ Recorded' = Recorded /\ (NoneTwice => NoneTwice')
        /\ HeadStartsLine' <=> AtLineStart
<1>0. PICK n \in Nat : n = Len(intel)
  BY StoredIs
<1>1. /\ Len(intel') = n + 1 /\ intel'[n + 1] = x
      /\ DOMAIN intel' = 1..n + 1 /\ DOMAIN intel = 1..n
      /\ \A i \in DOMAIN intel : intel'[i] = intel[i] /\ intel[i] \in Pieces
      /\ \A i \in Rows : i \in Rows' /\ intel'[i] = intel[i]
      /\ \A i \in Rows' \ Rows : \/ i = n + 1 /\ x.kind = "line"
                                 \/ i = n /\ i > 0 /\ x = [intel[n] EXCEPT !.kind = "rest"]
  BY <1>0, PieceAppended, StoredIs
<1>2. ASSUME NEW i \in Rows' \ Rows PROVE FALSE
  <2>1. i = n /\ i > 0 /\ x = [intel[n] EXCEPT !.kind = "rest"]
    BY <1>1
  <2>2. intel[n] \in Pieces
    BY <1>1, <2>1
  <2>3. x.kind = "rest"
    BY <2>1, <2>2 DEF Pieces
  <2> QED
    BY <2>3
<1>3. Rows' = Rows
  BY <1>1, <1>2
<1>4. Recorded' = Recorded /\ (NoneTwice => NoneTwice')
  <2>1. \A i \in Rows : intel'[i] = intel[i]
    BY <1>1
  <2>2. Recorded' = {intel'[i].id : i \in Rows} /\ Recorded = {intel[i].id : i \in Rows}
    BY <1>3 DEF Recorded
  <2>3. ASSUME NoneTwice, NEW i \in Rows, NEW j \in Rows, intel'[i].id = intel'[j].id PROVE i = j
    <3>1. intel[i].id = intel[j].id
      BY <2>1, <2>3
    <3> QED
      BY <2>3, <3>1 DEF NoneTwice
  <2>4. NoneTwice => NoneTwice'
    BY <1>3, <2>3, Zenon DEF NoneTwice
  <2> QED
    BY <2>1, <2>2, <2>4
<1>5. intel' # <<>> /\ intel'[Len(intel')] = x
  <2>1. \A seq : 1 \in DOMAIN seq => seq # <<>>
    OBVIOUS
  <2> QED
    BY <1>1, <2>1
<1>6. HeadStartsLine' <=> n = 0 \/ EndsLine(intel'[n])
  <2>1. (n + 1) - 1 = n /\ (n + 1 = 1 <=> n = 0)
    OBVIOUS
  <2> QED
    BY <1>1, <2>1 DEF HeadStartsLine
<1>7. AtLineStart <=> n = 0 \/ EndsLine(intel[n])
  <2>1. intel = <<>> <=> n = 0
    BY <1>0 DEF IntelTypeOK
  <2> QED
    BY <1>0, <2>1 DEF AtLineStart
<1>8. n # 0 => n \in DOMAIN intel
  BY <1>1
<1> QED
  BY <1>1, <1>4, <1>5, <1>6, <1>7, <1>8

\* The rest makes its beginning an entry, if that began a line.
LEMMA RestAppended ==
  ASSUME IntelTypeOK, NEW x \in Pieces, intel' = Append(intel, x), x.kind = "rest",
         intel # <<>>, intel[Len(intel)].kind \in {"head", "cut"}, [intel[Len(intel)] EXCEPT !.kind = "rest"] = x
  PROVE AtLineStart' /\ (HeadStartsLine => x.id \in Recorded')
<1>0. PICK n \in Nat : n = Len(intel)
  BY StoredIs
<1>1. n > 0 /\ n \in DOMAIN intel /\ intel[n] \in Pieces
  BY <1>0, StoredIs DEF IntelTypeOK
<1>2. Len(intel') = n + 1 /\ intel'[n + 1] = x /\ intel'[n] = intel[n]
  BY <1>0, <1>1, PieceAppended
<1>3. HeadStartsLine => n \in Rows'
  BY <1>0, <1>1, PieceAppended
<1>4. EndsLine(intel'[Len(intel')])
  BY <1>2 DEF EndsLine
<1>5. intel'[n].id = x.id
  BY <1>0, <1>1, <1>2 DEF Pieces
<1>6. Recorded' = {intel'[i].id : i \in Rows'}
  BY DEF Recorded
<1>7. AtLineStart'
  BY <1>4 DEF AtLineStart
<1>8. n \in Rows' => intel'[n].id \in Recorded'
  BY <1>6
<1> QED
  BY <1>3, <1>5, <1>7, <1>8, Zenon

\* A step that leaves the file alone.
LEMMA FileSame ==
  ASSUME intel' = intel
  PROVE /\ Rows' = Rows /\ Recorded' = Recorded /\ (NoneTwice => NoneTwice')
        /\ AtLineStart' = AtLineStart /\ HeadStartsLine' = HeadStartsLine
<1>1. Rows' = Rows
  BY DEF Rows, Parses, Joined
<1> QED
  BY <1>1 DEF Recorded, NoneTwice, AtLineStart, HeadStartsLine

-------------------------------------------------------------------------------
LEMMA LostFinite ==
  ASSUME IntelConstants, NEW S, S \subseteq Cve
  PROVE IsFiniteSet(S) /\ Cardinality(S) \in Nat
BY FS_Subset, FS_CardinalityType DEF IntelConstants

\* Losses that do not grow, and those that grow by one.
LEMMA LostCounts ==
  ASSUME IntelConstants, NEW S, NEW T, NEW c \in Cve, S \subseteq Cve, T \subseteq Cve
  PROVE /\ T \subseteq S => Cardinality(T) <= Cardinality(S)
        /\ T \subseteq S \cup {c} => Cardinality(T) <= Cardinality(S) + 1
<1>1. /\ IsFiniteSet(S) /\ Cardinality(S) \in Nat /\ IsFiniteSet(T) /\ Cardinality(T) \in Nat
      /\ IsFiniteSet(S \cup {c}) /\ Cardinality(S \cup {c}) \in Nat
  <2>1. S \cup {c} \subseteq Cve
    OBVIOUS
  <2> QED
    BY <2>1, LostFinite
<1>2. Cardinality(S \cup {c}) <= Cardinality(S) + 1
  <2>1. Cardinality(S \cup {c}) = IF c \in S THEN Cardinality(S) ELSE Cardinality(S) + 1
    BY <1>1, FS_AddElement
  <2> QED
    BY <1>1, <2>1
<1>3. T \subseteq S => Cardinality(T) <= Cardinality(S)
  BY <1>1, FS_Subset
<1>4. T \subseteq S \cup {c} => Cardinality(T) <= Cardinality(S \cup {c})
  BY <1>1, FS_Subset
<1> QED
  BY <1>1, <1>2, <1>3, <1>4

LEMMA ClaimedTyped == ASSUME IntelTypeOK PROVE Claimed \subseteq Cve /\ Lost \subseteq Cve
BY DEF IntelTypeOK, Claimed, Lost

LEMMA IntelBegins == ASSUME IntelConstants, IntelInit PROVE IntelInv
<1>1. IntelTypeOK /\ TornByDeath
  BY IntelTypeInit
<1>2. /\ intel = <<>> /\ torn = 0 /\ delivered = {} /\ alerted = {}
      /\ \A p \in Poll : polling[p] = "ask" /\ marked[p] = {} /\ begun[p] = NoLine
  BY DEF IntelInit, Nothing
<1>3. DOMAIN intel = {} /\ Rows = {} /\ Recorded = {}
  <2>1. DOMAIN intel = {}
    BY <1>2
  <2> QED
    BY <2>1 DEF Rows, Recorded
<1>4. MarksTrue /\ BegunWriting /\ AlertsInFile
  BY <1>2, <1>3 DEF MarksTrue, BegunWriting, AlertsInFile
<1>5. OneWriter /\ NoneTwice /\ YetToCome /\ HeadIsLast
  BY <1>2, <1>3 DEF OneWriter, NoneTwice, YetToCome, HeadIsLast
<1>6. LossesCounted
  <2>1. Lost = {}
    BY <1>2 DEF Lost, Claimed
  <2>2. ~Owing
    BY <1>2 DEF Owing, AtLineStart
  <2>3. Cardinality(Lost) = 0
    BY <2>1, FS_EmptySet
  <2> QED
    BY <1>2, <2>2, <2>3 DEF LossesCounted
<1> QED
  BY <1>1, <1>4, <1>5, <1>6 DEF IntelInv, Apart

\* What holds with polls that overlap too.
LEMMA MarksStep ==
  ASSUME IntelConstants, IntelInv, IntelTypeOK', [IntelNext]_intelVars PROVE MarksTrue' /\ BegunWriting' /\ AlertsInFile'
<1>0. IntelTypeOK /\ MarksTrue /\ BegunWriting /\ AlertsInFile
  BY DEF IntelInv
<1>1. /\ polling \in [Poll -> {"ask", "write", "done", "dead"}] /\ marked \in [Poll -> SUBSET Cve]
      /\ begun \in [Poll -> Cve \cup {NoLine}] /\ unwritten \in [Poll -> SUBSET Cve]
  BY <1>0 DEF IntelTypeOK
<1>2. ASSUME intel' = intel, alerted' = alerted PROVE AlertsInFile'
  <2>1. Rows' = Rows
    BY <1>2, FileSame
  <2> QED
    BY <1>0, <1>2, <2>1 DEF AlertsInFile
<1>3. ASSUME NEW x \in Pieces, intel' = Append(intel, x), alerted' = alerted PROVE AlertsInFile'
  <2>1. \A i \in Rows : i \in Rows' /\ intel'[i] = intel[i]
    BY <1>0, <1>3, PieceAppended
  <2> QED
    BY <1>0, <1>3, <2>1 DEF AlertsInFile
<1>4. ASSUME NEW p \in Poll, NEW c \in Cve, NEW kind \in {"line", "head", "cut", "rest"},
             intel' = Append(intel, Piece(p, c, kind)), marked' = marked
      PROVE MarksTrue'
  <2>1. Piece(p, c, kind).critical => Piece(p, c, kind).id \in Exploited \cup Severe
    <3>1. Piece(p, c, kind).critical = (c \in marked[p]) /\ Piece(p, c, kind).id = c
      BY <1>0, PieceTyped, Zenon
    <3>2. c \in marked[p] => c \in Exploited \cup Severe
      BY <1>0 DEF MarksTrue
    <3> QED
      BY <3>1, <3>2, Zenon
  <2>2. /\ DOMAIN intel' = 1..Len(intel) + 1 /\ intel'[Len(intel) + 1] = Piece(p, c, kind)
        /\ \A i \in DOMAIN intel : intel'[i] = intel[i]
    BY <1>0, <1>4, PieceTyped, PieceAppended
  <2>3. DOMAIN intel = 1..Len(intel) /\ Len(intel) \in Nat
    BY <1>0, StoredIs
  <2>4. \A i \in DOMAIN intel' : i \in DOMAIN intel \/ i = Len(intel) + 1
    BY <2>2, <2>3
  <2> QED
    BY <1>0, <1>4, <2>1, <2>2, <2>4 DEF MarksTrue
<1>5. ASSUME NEW p \in Poll, NEW how, Over(p, how), UNCHANGED <<intel, alerted>>
      PROVE MarksTrue' /\ BegunWriting' /\ AlertsInFile'
  <2>1. MarksTrue'
    BY <1>0, <1>1, <1>5 DEF MarksTrue, Over
  <2>2. BegunWriting'
    BY <1>0, <1>1, <1>5 DEF BegunWriting, Over
  <2> QED
    BY <1>2, <1>5, <2>1, <2>2
<1>6. ASSUME NEW p \in Poll, Ask(p) PROVE MarksTrue' /\ BegunWriting' /\ AlertsInFile'
  <2>1. PICK nvd \in Nvd, rated \in Rated, kev \in Kev, ghsa \in Ghsa :
          marked' = [marked EXCEPT ![p] = (rated \cap nvd) \cup (kev \cap (nvd \cup ghsa))]
    BY <1>6 DEF Ask
  <2>2. kev \subseteq Exploited /\ rated \subseteq Severe
    BY DEF Kev, Rated
  <2>3. MarksTrue'
    BY <1>0, <1>1, <1>6, <2>1, <2>2 DEF MarksTrue, Ask
  <2>4. BegunWriting'
    BY <1>0, <1>1, <1>6 DEF BegunWriting, Ask
  <2> QED
    BY <1>2, <1>6, <2>3, <2>4 DEF Ask
<1>7. ASSUME NEW p \in Poll, WriteEntry(p) PROVE MarksTrue' /\ BegunWriting' /\ AlertsInFile'
  <2>1. PICK c \in Cve, kind \in {"line", "head", "cut"} :
          intel' = Append(intel, Piece(p, c, kind)) /\ (begun' = begun \/ begun' = [begun EXCEPT ![p] = c])
    BY <1>1, <1>7 DEF WriteEntry
  <2>2. polling[p] = "write" /\ polling' = polling /\ marked' = marked /\ alerted' = alerted
    BY <1>7 DEF WriteEntry
  <2>3. BegunWriting'
    BY <1>0, <1>1, <2>1, <2>2 DEF BegunWriting
  <2>4. Piece(p, c, kind) \in Pieces
    BY <1>0, PieceTyped
  <2> QED
    BY <1>3, <1>4, <2>1, <2>2, <2>3, <2>4
<1>8. ASSUME NEW p \in Poll, WriteRest(p) PROVE MarksTrue' /\ BegunWriting' /\ AlertsInFile'
  <2>1. begun[p] \in Cve /\ intel' = Append(intel, Piece(p, begun[p], "rest"))
    BY <1>1, <1>8 DEF WriteRest
  <2>2. BegunWriting'
    BY <1>0, <1>1, <1>8 DEF BegunWriting, WriteRest
  <2>3. Piece(p, begun[p], "rest") \in Pieces
    BY <1>0, <2>1, PieceTyped
  <2> QED
    BY <1>3, <1>4, <1>8, <2>1, <2>2, <2>3 DEF WriteRest
<1>9. ASSUME Act PROVE MarksTrue' /\ BegunWriting' /\ AlertsInFile'
  <2>0. PICK within \in SUBSET Rows :
          alerted' = alerted \cup {[id |-> intel[i].id, critical |-> intel[i].critical] : i \in Recent(within)}
    BY <1>9 DEF Act
  <2>1. Recent(within) \subseteq Rows /\ Rows' = Rows /\ intel' = intel
    BY <1>9, FileSame DEF Recent, Act
  <2>2. MarksTrue' /\ BegunWriting'
    BY <1>0, <1>9 DEF MarksTrue, BegunWriting, Act, poll
  <2>4. AlertsInFile'
    <3>1. SUFFICES ASSUME NEW a \in alerted' PROVE \E i \in Rows : a.id = intel[i].id /\ a.critical = intel[i].critical
      BY <2>1 DEF AlertsInFile
    <3>2. CASE a \in alerted
      BY <1>0, <3>2 DEF AlertsInFile
    <3>3. CASE a \notin alerted
      <4>1. PICK i \in Recent(within) : a = [id |-> intel[i].id, critical |-> intel[i].critical]
        BY <2>0, <3>3
      <4> QED
        BY <2>1, <4>1
    <3> QED
      BY <3>2, <3>3
  <2> QED
    BY <2>2, <2>4
<1>10. ASSUME UNCHANGED intelVars PROVE MarksTrue' /\ BegunWriting' /\ AlertsInFile'
  <2>1. MarksTrue' /\ BegunWriting'
    BY <1>0, <1>10 DEF MarksTrue, BegunWriting, intelVars, poll
  <2> QED
    BY <1>2, <1>10, <2>1 DEF intelVars
<1> QED
  BY <1>5, <1>6, <1>7, <1>8, <1>9, <1>10 DEF IntelNext, PollStep, Fail, Close, Die, history

\* A step of the one poll that writes keeps the polls apart, if it keeps what it is to
\* write apart from the file, and loses nothing that is not accounted for.
LEMMA WriterStep ==
  ASSUME IntelConstants, IntelInv, IntelTypeOK', Apart, NEW p \in Poll, polling[p] = "write",
         polling' = polling \/ \E how \in {"done", "dead"} : polling' = [polling EXCEPT ![p] = how],
         \A q \in Poll \ {p} : begun'[q] = begun[q] /\ unwritten'[q] = unwritten[q] /\ got'[q] = got[q]
  PROVE /\ OneWriter' /\ \A q \in Poll \ {p} : begun[q] = NoLine /\ begun'[q] = NoLine
                                           /\ polling[q] # "write" /\ polling'[q] # "write"
        /\ Owing <=> IF begun[p] = NoLine THEN ~AtLineStart ELSE ~HeadStartsLine
        /\ Owing' <=> IF begun'[p] = NoLine THEN ~AtLineStart' ELSE ~HeadStartsLine'
        /\ Claimed = delivered \cup {c \in Cve : c \in got[p] /\ c \notin unwritten[p] \cup {begun[p]}}
        /\ polling' = polling => Claimed' = delivered' \cup {c \in Cve : c \in got'[p] /\ c \notin unwritten'[p] \cup {begun'[p]}}
        /\ polling' # polling => Claimed' = delivered'
<1>1. /\ polling \in [Poll -> {"ask", "write", "done", "dead"}]
      /\ \A q \in Poll : begun[q] # NoLine => polling[q] = "write"
  BY DEF IntelInv, BegunWriting, IntelTypeOK
<1>2. \A q \in Poll \ {p} : polling[q] # "write" /\ polling'[q] # "write" /\ begun[q] = NoLine /\ begun'[q] = NoLine
  <2>1. \A q \in Poll \ {p} : polling[q] # "write"
    BY DEF Apart, OneWriter
  <2>2. \A q \in Poll \ {p} : polling'[q] = polling[q]
    BY <1>1
  <2> QED
    BY <1>1, <2>1, <2>2
<1>3. OneWriter'
  BY <1>2 DEF OneWriter
<1>4. Owing <=> IF begun[p] = NoLine THEN ~AtLineStart ELSE ~HeadStartsLine
  BY <1>2 DEF Owing
<1>5. Owing' <=> IF begun'[p] = NoLine THEN ~AtLineStart' ELSE ~HeadStartsLine'
  BY <1>2 DEF Owing
<1>6. Claimed = delivered \cup {c \in Cve : c \in got[p] /\ c \notin unwritten[p] \cup {begun[p]}}
  BY <1>2 DEF Claimed
<1>7. ASSUME polling' = polling
      PROVE Claimed' = delivered' \cup {c \in Cve : c \in got'[p] /\ c \notin unwritten'[p] \cup {begun'[p]}}
  BY <1>2, <1>7 DEF Claimed
<1>8. ASSUME polling' # polling PROVE Claimed' = delivered'
  <2>1. polling'[p] # "write"
    BY <1>1, <1>8
  <2>2. \A q \in Poll : polling'[q] # "write"
    BY <1>2, <2>1
  <2> QED
    BY <2>2 DEF Claimed
<1> QED
  BY <1>2, <1>3, <1>4, <1>5, <1>6, <1>7, <1>8

\* A whole line: where a line was torn, it is lost in its place.
LEMMA EntryStep ==
  ASSUME IntelConstants, IntelInv, IntelTypeOK', Apart, NEW p \in Poll, WriteEntry(p)
  PROVE Apart'
<1>0. IntelTypeOK
  BY DEF IntelInv
<1>1. /\ begun \in [Poll -> Cve \cup {NoLine}] /\ unwritten \in [Poll -> SUBSET Cve] /\ got \in [Poll -> SUBSET Cve]
      /\ torn \in Nat /\ Claimed \subseteq Cve /\ Lost \subseteq Cve /\ Claimed' \subseteq Cve /\ Lost' \subseteq Cve
      /\ Recorded \subseteq Cve /\ NoLine \notin Cve
  <2>1. torn \in Nat
    BY <1>0 DEF IntelTypeOK
  <2>2. Claimed' \subseteq Cve /\ Lost' \subseteq Cve
    BY DEF IntelTypeOK, Claimed, Lost
  <2> QED
    BY <1>0, <2>1, <2>2, ClaimedTyped, StoredIs DEF IntelTypeOK, IntelConstants
<1>2. /\ polling[p] = "write" /\ begun[p] = NoLine /\ polling' = polling /\ got' = got /\ marked' = marked
      /\ delivered' = delivered /\ torn' = torn
  BY DEF WriteEntry, history
<1>3. PICK c \in unwritten[p] :
        /\ unwritten' = [unwritten EXCEPT ![p] = @ \ {c}]
        /\ \/ intel' = Append(intel, Piece(p, c, "line")) /\ UNCHANGED begun
           \/ \E kind \in {"head", "cut"} : /\ intel' = Append(intel, Piece(p, c, kind))
                                            /\ begun' = [begun EXCEPT ![p] = c]
  BY DEF WriteEntry
<1>4. c \in Cve /\ c \notin Recorded
  BY <1>1, <1>2, <1>3 DEF Apart, YetToCome
<1>5. unwritten'[p] = unwritten[p] \ {c} /\ \A q \in Poll \ {p} : unwritten'[q] = unwritten[q] /\ begun'[q] = begun[q]
  BY <1>1, <1>3
<1>6. /\ OneWriter' /\ \A q \in Poll \ {p} : begun'[q] = NoLine /\ polling'[q] # "write"
      /\ Owing <=> ~AtLineStart
      /\ Owing' <=> IF begun'[p] = NoLine THEN ~AtLineStart' ELSE ~HeadStartsLine'
      /\ Claimed = delivered \cup {e \in Cve : e \in got[p] /\ e \notin unwritten[p] \cup {begun[p]}}
      /\ Claimed' = delivered' \cup {e \in Cve : e \in got'[p] /\ e \notin unwritten'[p] \cup {begun'[p]}}
  BY <1>2, <1>5, WriterStep
<1>7. LossesCounted /\ NoneTwice /\ unwritten[p] \cap Recorded = {}
  BY <1>2 DEF Apart, YetToCome
<1>8. Cardinality(Lost) \in Nat /\ Cardinality(Lost') \in Nat
  BY <1>1, LostFinite
<1>9. CASE intel' = Append(intel, Piece(p, c, "line")) /\ begun' = begun
  <2> DEFINE x == Piece(p, c, "line")
  <2>1. x \in Pieces /\ x.id = c /\ x.kind = "line"
    BY <1>0, <1>4, PieceTyped
  <2>2. /\ Recorded \subseteq Recorded' /\ Recorded' \subseteq Recorded \cup {c} /\ NoneTwice'
        /\ AtLineStart' /\ (AtLineStart => c \in Recorded')
    <3> HIDE DEF x
    <3> QED
      BY <1>0, <1>4, <1>7, <1>9, <2>1, PieceStored, LineAppended DEF x
  <2>3. Claimed' \subseteq Claimed \cup {c}
    BY <1>2, <1>5, <1>6, <1>9
  <2>4. LossesCounted'
    <3>1. ~Owing'
      BY <1>2, <1>6, <1>9, <2>2
    <3>2. CASE AtLineStart
      <4>1. Lost' \subseteq Lost
        BY <2>2, <2>3, <3>2 DEF Lost
      <4>2. Cardinality(Lost') <= Cardinality(Lost)
        BY <1>1, <1>4, <4>1, LostCounts
      <4> QED
        BY <1>1, <1>2, <1>7, <1>8, <3>1, <4>2 DEF LossesCounted
    <3>3. CASE ~AtLineStart
      <4>1. Lost' \subseteq Lost \cup {c}
        BY <2>2, <2>3 DEF Lost
      <4>2. Cardinality(Lost') <= Cardinality(Lost) + 1
        BY <1>1, <1>4, <4>1, LostCounts
      <4>3. Cardinality(Lost) < torn
        BY <1>6, <1>7, <3>3 DEF LossesCounted
      <4> QED
        BY <1>1, <1>2, <1>8, <3>1, <4>2, <4>3 DEF LossesCounted
    <3> QED
      BY <3>2, <3>3
  <2>5. YetToCome'
    <3>1. unwritten'[p] \cap Recorded' = {}
      BY <1>5, <1>7, <2>2
    <3>2. begun'[p] = NoLine /\ NoLine \notin Recorded' \cup unwritten'[p]
      BY <1>1, <1>2, <1>4, <1>5, <1>9, <2>2
    <3> QED
      BY <1>6, <3>1, <3>2 DEF YetToCome
  <2>6. HeadIsLast'
    BY <1>2, <1>6, <1>9 DEF HeadIsLast
  <2> QED
    BY <1>6, <2>2, <2>4, <2>5, <2>6 DEF Apart
<1>10. ASSUME NEW kind \in {"head", "cut"}, intel' = Append(intel, Piece(p, c, kind)), begun' = [begun EXCEPT ![p] = c]
       PROVE Apart'
  <2> DEFINE x == Piece(p, c, kind)
  <2>1. x \in Pieces /\ x.id = c /\ x.kind = kind
    BY <1>0, <1>4, PieceTyped
  <2>2. /\ intel' # <<>> /\ intel'[Len(intel')] = x
        /\ Recorded' = Recorded /\ NoneTwice'
        /\ HeadStartsLine' <=> AtLineStart
    <3> HIDE DEF x
    <3> QED
      BY <1>0, <1>7, <1>10, <2>1, HeadAppended DEF x
  <2>3. begun'[p] = c /\ c # NoLine
    BY <1>1, <1>4, <1>10
  <2>4. Claimed' \subseteq Claimed
    BY <1>1, <1>2, <1>5, <1>6, <2>3
  <2>5. LossesCounted'
    <3>1. Owing' => Owing
      BY <1>6, <2>2, <2>3
    <3>2. Lost' \subseteq Lost
      BY <2>2, <2>4 DEF Lost
    <3>3. Cardinality(Lost') <= Cardinality(Lost)
      BY <1>1, <1>4, <3>2, LostCounts
    <3> QED
      BY <1>1, <1>2, <1>7, <1>8, <3>1, <3>3 DEF LossesCounted
  <2>6. YetToCome'
    <3>1. unwritten'[p] \cap Recorded' = {} /\ begun'[p] \notin Recorded' \cup unwritten'[p]
      BY <1>4, <1>5, <1>7, <2>2, <2>3
    <3> QED
      BY <1>6, <3>1 DEF YetToCome
  <2>7. HeadIsLast'
    <3>1. [x EXCEPT !.kind = "rest"] = Piece(p, c, "rest")
      BY DEF Piece
    <3>2. Piece(p, c, "rest")' = Piece(p, c, "rest")
      BY <1>2 DEF Piece
    <3> QED
      BY <1>6, <2>1, <2>2, <2>3, <3>1, <3>2 DEF HeadIsLast
  <2> QED
    BY <1>6, <2>2, <2>5, <2>6, <2>7 DEF Apart
<1> QED
  BY <1>3, <1>9, <1>10

\* The rest of a line whose beginning the poll has written.
LEMMA RestStep ==
  ASSUME IntelConstants, IntelInv, IntelTypeOK', Apart, NEW p \in Poll, WriteRest(p)
  PROVE Apart'
<1>0. IntelTypeOK /\ polling[p] = "write"
  BY DEF IntelInv, BegunWriting, WriteRest
<1> DEFINE c == begun[p]
           x == Piece(p, c, "rest")
<1>1. /\ begun \in [Poll -> Cve \cup {NoLine}] /\ unwritten \in [Poll -> SUBSET Cve] /\ got \in [Poll -> SUBSET Cve]
      /\ torn \in Nat /\ Lost \subseteq Cve /\ Lost' \subseteq Cve /\ Recorded \subseteq Cve /\ NoLine \notin Cve
  <2>1. torn \in Nat
    BY <1>0 DEF IntelTypeOK
  <2>2. Lost' \subseteq Cve
    BY DEF IntelTypeOK, Claimed, Lost
  <2> QED
    BY <1>0, <2>1, <2>2, ClaimedTyped, StoredIs DEF IntelTypeOK, IntelConstants
<1>2. /\ c \in Cve /\ c # NoLine /\ polling' = polling /\ got' = got /\ unwritten' = unwritten /\ delivered' = delivered /\ torn' = torn
      /\ intel' = Append(intel, x) /\ begun' = [begun EXCEPT ![p] = NoLine]
  BY <1>1 DEF WriteRest, history
<1>3. begun'[p] = NoLine /\ \A q \in Poll \ {p} : begun'[q] = begun[q]
  BY <1>1, <1>2
<1>4. /\ OneWriter' /\ \A q \in Poll \ {p} : begun'[q] = NoLine /\ polling'[q] # "write"
      /\ Owing <=> ~HeadStartsLine
      /\ Owing' <=> ~AtLineStart'
      /\ Claimed = delivered \cup {e \in Cve : e \in got[p] /\ e \notin unwritten[p] \cup {begun[p]}}
      /\ Claimed' = delivered' \cup {e \in Cve : e \in got'[p] /\ e \notin unwritten'[p] \cup {begun'[p]}}
  BY <1>0, <1>2, <1>3, WriterStep
<1>5. LossesCounted /\ NoneTwice /\ unwritten[p] \cap Recorded = {} /\ c \notin Recorded /\ c \notin unwritten[p]
  BY <1>0 DEF Apart, YetToCome
<1>6. x \in Pieces /\ x.id = c /\ x.kind = "rest"
  BY <1>0, <1>2, PieceTyped
<1>7. intel # <<>> /\ intel[Len(intel)].kind \in {"head", "cut"} /\ [intel[Len(intel)] EXCEPT !.kind = "rest"] = x
  BY <1>2 DEF Apart, HeadIsLast
<1>8. /\ Recorded \subseteq Recorded' /\ Recorded' \subseteq Recorded \cup {c} /\ NoneTwice'
      /\ AtLineStart' /\ (HeadStartsLine => c \in Recorded')
  <2>1. intel' = Append(intel, x)
    BY <1>2
  <2> HIDE DEF x
  <2> QED
    BY <1>0, <1>5, <1>6, <1>7, <2>1, PieceStored, RestAppended
<1>9. Claimed' \subseteq Claimed \cup {c}
  BY <1>2, <1>4
<1>10. Cardinality(Lost) \in Nat /\ Cardinality(Lost') \in Nat
  BY <1>1, LostFinite
<1>11. LossesCounted'
  <2>1. ~Owing'
    BY <1>4, <1>8
  <2>2. CASE HeadStartsLine
    <3>1. Lost' \subseteq Lost
      BY <1>8, <1>9, <2>2 DEF Lost
    <3>2. Cardinality(Lost') <= Cardinality(Lost)
      BY <1>1, <1>2, <3>1, LostCounts
    <3> QED
      BY <1>1, <1>2, <1>5, <1>10, <2>1, <3>2 DEF LossesCounted
  <2>3. CASE ~HeadStartsLine
    <3>1. Lost' \subseteq Lost \cup {c}
      BY <1>8, <1>9 DEF Lost
    <3>2. Cardinality(Lost') <= Cardinality(Lost) + 1
      BY <1>1, <1>2, <3>1, LostCounts
    <3>3. Cardinality(Lost) < torn
      BY <1>4, <1>5, <2>3 DEF LossesCounted
    <3> QED
      BY <1>1, <1>2, <1>10, <2>1, <3>2, <3>3 DEF LossesCounted
  <2> QED
    BY <2>2, <2>3
<1>12. YetToCome'
  <2>1. unwritten'[p] \cap Recorded' = {} /\ begun'[p] \notin Recorded' \cup unwritten'[p]
    BY <1>1, <1>2, <1>3, <1>5, <1>8
  <2> QED
    BY <1>4, <2>1 DEF YetToCome
<1>13. HeadIsLast'
  BY <1>3, <1>4 DEF HeadIsLast
<1> QED
  BY <1>4, <1>8, <1>11, <1>12, <1>13 DEF Apart

\* The poll that writes comes to its end, or dies; within a line, that is counted.
LEMMA EndStep ==
  ASSUME IntelConstants, IntelInv, IntelTypeOK', Apart, NEW p \in Poll, Close(p) \/ Die(p)
  PROVE Apart'
<1>0. IntelTypeOK
  BY DEF IntelInv
<1>1. /\ begun \in [Poll -> Cve \cup {NoLine}] /\ unwritten \in [Poll -> SUBSET Cve] /\ got \in [Poll -> SUBSET Cve]
      /\ polling \in [Poll -> {"ask", "write", "done", "dead"}]
      /\ torn \in Nat /\ Lost \subseteq Cve /\ Lost' \subseteq Cve /\ NoLine \notin Cve
  <2>1. torn \in Nat
    BY <1>0 DEF IntelTypeOK
  <2>2. Lost' \subseteq Cve
    BY DEF IntelTypeOK, Claimed, Lost
  <2> QED
    BY <1>0, <2>1, <2>2, ClaimedTyped DEF IntelTypeOK, IntelConstants
<1>2. /\ polling[p] = "write" /\ intel' = intel
      /\ \E how \in {"done", "dead"} : Over(p, how)
  BY DEF Close, Die
<1>3. /\ \E how \in {"done", "dead"} : polling' = [polling EXCEPT ![p] = how]
      /\ begun'[p] = NoLine /\ polling'[p] # "write" /\ polling' # polling
      /\ \A q \in Poll \ {p} : begun'[q] = begun[q] /\ unwritten'[q] = unwritten[q] /\ got'[q] = got[q]
  BY <1>1, <1>2 DEF Over
<1>4. /\ OneWriter' /\ \A q \in Poll \ {p} : begun'[q] = NoLine /\ polling'[q] # "write"
      /\ Owing <=> IF begun[p] = NoLine THEN ~AtLineStart ELSE ~HeadStartsLine
      /\ Owing' <=> ~AtLineStart'
      /\ Claimed = delivered \cup {e \in Cve : e \in got[p] /\ e \notin unwritten[p] \cup {begun[p]}}
      /\ Claimed' = delivered'
  BY <1>2, <1>3, WriterStep
<1>5. Recorded' = Recorded /\ NoneTwice' /\ AtLineStart' = AtLineStart
  BY <1>2, FileSame DEF Apart
<1>6. delivered' \subseteq Claimed
  <2>1. CASE Close(p)
    <3>1. delivered' = delivered \cup got[p] /\ unwritten[p] = {} /\ begun[p] = NoLine
      BY <2>1 DEF Close
    <3> QED
      BY <1>1, <1>4, <3>1
  <2>2. CASE Die(p)
    BY <1>4, <2>2 DEF Die
  <2> QED
    BY <2>1, <2>2
<1>7. Lost' \subseteq Lost
  BY <1>4, <1>5, <1>6 DEF Lost
<1>8. /\ Cardinality(Lost) \in Nat /\ Cardinality(Lost') \in Nat
      /\ Cardinality(Lost') <= Cardinality(Lost)
  <2>1. Cardinality(Lost) \in Nat /\ Cardinality(Lost') \in Nat /\ IsFiniteSet(Lost)
    BY <1>1, LostFinite
  <2> QED
    BY <1>7, <2>1, FS_Subset
<1>9. LossesCounted'
  <2>1. torn' = torn + (IF Die(p) /\ begun[p] # NoLine THEN 1 ELSE 0) \/ (begun[p] = NoLine /\ torn' = torn)
    <3>1. CASE Close(p)
      BY <3>1 DEF Close
    <3>2. CASE Die(p)
      <4>1. torn' = torn + (IF begun[p] # NoLine THEN 1 ELSE 0)
        BY <3>2 DEF Die
      <4> QED
        BY <3>2, <4>1
    <3> QED
      BY <3>1, <3>2
  <2>2. CASE begun[p] = NoLine
    <3>1. torn' = torn /\ (Owing' => Owing)
      BY <1>1, <1>4, <1>5, <2>1, <2>2
    <3> QED
      BY <1>1, <1>8, <3>1 DEF LossesCounted, Apart
  <2>3. CASE begun[p] # NoLine
    <3>1. torn' = torn + 1
      BY <2>1, <2>3 DEF Close
    <3> QED
      BY <1>1, <1>8, <3>1 DEF LossesCounted, Apart
  <2> QED
    BY <2>2, <2>3
<1>10. YetToCome' /\ HeadIsLast'
  BY <1>3, <1>4 DEF YetToCome, HeadIsLast
<1> QED
  BY <1>4, <1>5, <1>9, <1>10 DEF Apart

\* A poll that asks while none writes: what it gets and the file has, it need not write.
LEMMA AskStep ==
  ASSUME IntelConstants, IntelInv, IntelTypeOK', Apart, NEW p \in Poll, Ask(p), ~overlap'
  PROVE Apart'
<1>0. IntelTypeOK
  BY DEF IntelInv
<1>1. /\ begun \in [Poll -> Cve \cup {NoLine}] /\ unwritten \in [Poll -> SUBSET Cve] /\ got \in [Poll -> SUBSET Cve]
      /\ polling \in [Poll -> {"ask", "write", "done", "dead"}]
      /\ torn \in Nat /\ Lost \subseteq Cve /\ Lost' \subseteq Cve /\ Recorded \subseteq Cve /\ NoLine \notin Cve
  <2>1. torn \in Nat
    BY <1>0 DEF IntelTypeOK
  <2>2. Lost' \subseteq Cve
    BY DEF IntelTypeOK, Claimed, Lost
  <2> QED
    BY <1>0, <2>1, <2>2, ClaimedTyped, StoredIs DEF IntelTypeOK, IntelConstants
<1>2. PICK entries : /\ got' = [got EXCEPT ![p] = entries]
                     /\ Diff(p, entries)
  BY DEF Ask
<1>3. /\ unwritten' = [unwritten EXCEPT ![p] = entries \ Recorded] /\ \A q \in Poll \ {p} : polling[q] # "write"
  BY <1>2 DEF Diff
<1>4. /\ polling[p] = "ask" /\ polling' = [polling EXCEPT ![p] = "write"] /\ intel' = intel /\ begun' = begun
      /\ delivered' = delivered /\ torn' = torn
  BY DEF Ask
<1>5. \A q \in Poll : begun[q] = NoLine /\ polling[q] # "write"
  BY <1>3, <1>4 DEF IntelInv, BegunWriting
<1>6. Recorded' = Recorded /\ NoneTwice' /\ AtLineStart' = AtLineStart /\ HeadStartsLine' = HeadStartsLine
  BY <1>4, FileSame DEF Apart
<1>7. /\ polling'[p] = "write" /\ \A q \in Poll \ {p} : polling'[q] # "write"
      /\ unwritten'[p] = entries \ Recorded /\ got'[p] = entries
  BY <1>1, <1>2, <1>3, <1>4, <1>5
<1>8. OneWriter'
  BY <1>7 DEF OneWriter
<1>9. YetToCome' /\ HeadIsLast'
  <2>1. NoLine \notin Recorded' \cup unwritten'[p] /\ unwritten'[p] \cap Recorded' = {}
    <3>1. unwritten'[p] \subseteq Cve
      BY DEF IntelTypeOK
    <3> QED
      BY <1>1, <1>6, <1>7, <3>1
  <2> QED
    BY <1>4, <1>5, <1>7, <2>1 DEF YetToCome, HeadIsLast
<1>10. Lost' \subseteq Lost
  <2>1. Claimed' \subseteq delivered \cup Recorded
    BY <1>4, <1>7 DEF Claimed
  <2>2. delivered \subseteq Claimed
    BY DEF Claimed
  <2> QED
    BY <1>6, <2>1, <2>2 DEF Lost
<1>11. LossesCounted'
  <2>1. Cardinality(Lost) \in Nat /\ Cardinality(Lost') \in Nat /\ IsFiniteSet(Lost)
    BY <1>1, LostFinite
  <2>2. Cardinality(Lost') <= Cardinality(Lost)
    BY <1>10, <2>1, FS_Subset
  <2>3. Owing' <=> Owing
    BY <1>4, <1>6 DEF Owing
  <2> QED
    BY <1>1, <1>4, <2>1, <2>2, <2>3 DEF LossesCounted, Apart
<1> QED
  BY <1>6, <1>8, <1>9, <1>11 DEF Apart

\* A poll that fails to ask, a playbook, and nothing at all.
LEMMA IdleStep ==
  ASSUME IntelConstants, IntelInv, IntelTypeOK', Apart, (\E p \in Poll : Fail(p)) \/ Act \/ UNCHANGED intelVars
  PROVE Apart'
<1>0. IntelTypeOK
  BY DEF IntelInv
<1>1. /\ begun \in [Poll -> Cve \cup {NoLine}] /\ unwritten \in [Poll -> SUBSET Cve] /\ got \in [Poll -> SUBSET Cve]
      /\ polling \in [Poll -> {"ask", "write", "done", "dead"}]
      /\ torn \in Nat /\ Lost \subseteq Cve /\ Lost' \subseteq Cve
  <2>1. torn \in Nat
    BY <1>0 DEF IntelTypeOK
  <2>2. Lost' \subseteq Cve
    BY DEF IntelTypeOK, Claimed, Lost
  <2> QED
    BY <1>0, <2>1, <2>2, ClaimedTyped DEF IntelTypeOK
<1>2. intel' = intel /\ delivered' = delivered /\ torn' = torn
  BY DEF Fail, Act, intelVars, history
<1> DEFINE Same(q) == /\ polling'[q] = "write" => polling[q] = "write"
                      /\ polling[q] = "write" => /\ polling'[q] = "write" /\ unwritten'[q] = unwritten[q]
                                            /\ got'[q] = got[q] /\ marked'[q] = marked[q]
<1>3. begun' = begun /\ \A q \in Poll : Same(q)
  <2>1. ASSUME NEW p \in Poll, Fail(p) PROVE begun' = begun /\ \A q \in Poll : Same(q)
    <3>1. polling[p] = "ask" /\ begun[p] = NoLine
      BY <2>1 DEF Fail, IntelInv, BegunWriting
    <3>2. begun' = begun
      BY <1>1, <2>1, <3>1 DEF Fail, Over
    <3>3. /\ polling' = [polling EXCEPT ![p] = "dead"] /\ got' = [got EXCEPT ![p] = {}]
          /\ unwritten' = [unwritten EXCEPT ![p] = {}] /\ marked' = [marked EXCEPT ![p] = {}]
      BY <2>1 DEF Fail, Over
    <3>4. marked \in [Poll -> SUBSET Cve]
      BY <1>0 DEF IntelTypeOK
    <3> QED
      BY <1>1, <3>1, <3>2, <3>3, <3>4
  <2> QED
    BY <2>1 DEF Act, intelVars, poll
<1>4. Recorded' = Recorded /\ NoneTwice' /\ AtLineStart' = AtLineStart /\ HeadStartsLine' = HeadStartsLine
  BY <1>2, FileSame DEF Apart
<1>5. OneWriter' /\ YetToCome'
  <2>1. OneWriter'
    BY <1>3 DEF Apart, OneWriter
  <2>2. YetToCome'
    <3>1. SUFFICES ASSUME NEW q \in Poll, polling'[q] = "write"
                   PROVE unwritten'[q] \cap Recorded' = {} /\ begun'[q] \notin Recorded' \cup unwritten'[q]
      BY DEF YetToCome
    <3>2. polling[q] = "write" /\ unwritten'[q] = unwritten[q]
      BY <1>3, <3>1
    <3> QED
      BY <1>3, <1>4, <3>2 DEF Apart, YetToCome
  <2> QED
    BY <2>1, <2>2
<1>6. HeadIsLast'
  <2>1. SUFFICES ASSUME NEW q \in Poll, begun'[q] # NoLine
                 PROVE /\ intel' # <<>> /\ intel'[Len(intel')].kind \in {"head", "cut"}
                       /\ [intel'[Len(intel')] EXCEPT !.kind = "rest"] = Piece(q, begun[q], "rest")'
    BY DEF HeadIsLast
  <2>2. polling[q] = "write" /\ begun'[q] = begun[q] /\ begun[q] # NoLine
    BY <1>3, <2>1 DEF IntelInv, BegunWriting
  <2>3. Piece(q, begun[q], "rest")' = Piece(q, begun[q], "rest")
    BY <1>3, <2>2 DEF Piece
  <2> QED
    BY <1>2, <2>2, <2>3 DEF Apart, HeadIsLast
<1>7. LossesCounted'
  <2>1. Claimed' = Claimed
    <3>1. ASSUME NEW q \in Poll, NEW c \in Cve
          PROVE (polling'[q] = "write" /\ c \in got'[q] /\ c \notin unwritten'[q] \cup {begun'[q]})
                <=> (polling[q] = "write" /\ c \in got[q] /\ c \notin unwritten[q] \cup {begun[q]})
      BY <1>3
    <3> QED
      BY <1>2, <3>1 DEF Claimed
  <2>2. Lost' = Lost /\ (Owing' <=> Owing)
    BY <1>3, <1>4, <2>1 DEF Lost, Owing
  <2> QED
    BY <1>2, <2>2 DEF LossesCounted, Apart
<1> QED
  BY <1>4, <1>5, <1>6, <1>7 DEF Apart

LEMMA IntelStep == ASSUME IntelConstants, IntelInv, [IntelNext]_intelVars PROVE IntelInv'
<1>1. IntelTypeOK' /\ TornByDeath'
  BY IntelTypeStep DEF IntelInv
<1>2. MarksTrue' /\ BegunWriting' /\ AlertsInFile'
  BY <1>1, MarksStep
<1>3. ASSUME ~overlap' PROVE Apart'
  <2>1. ~overlap
    <3>1. \A p \in Poll : Ask(p) => (overlap => overlap')
      BY DEF Ask, Diff
    <3> QED
      BY <1>3, <3>1 DEF IntelNext, PollStep, Fail, WriteEntry, WriteRest, Close, Die, Act, intelVars, history
  <2>2. Apart
    BY <2>1 DEF IntelInv
  <2>3. CASE (\E p \in Poll : Fail(p)) \/ Act \/ UNCHANGED intelVars
    BY <1>1, <2>2, <2>3, IdleStep
  <2>4. ASSUME NEW p \in Poll, PollStep(p), ~Fail(p) PROVE Apart'
    BY <1>1, <1>3, <2>2, <2>4, AskStep, EntryStep, RestStep, EndStep DEF PollStep
  <2> QED
    BY <2>3, <2>4 DEF IntelNext
<1> QED
  BY <1>1, <1>2, <1>3 DEF IntelInv

LEMMA IntelInvIsComplete == ASSUME IntelConstants, IntelInv PROVE IntelIsComplete
<1>0. IntelTypeOK /\ MarksTrue /\ AlertsInFile /\ (~overlap => Apart)
  BY DEF IntelInv
<1>1. ASSUME ~overlap PROVE Cardinality(delivered \ Recorded) <= torn
  <2>1. Lost \subseteq Cve /\ torn \in Nat /\ delivered \ Recorded \subseteq Lost
    BY <1>0, ClaimedTyped DEF IntelTypeOK, Lost, Claimed
  <2>2. /\ IsFiniteSet(Lost) /\ Cardinality(Lost) \in Nat /\ Cardinality(delivered \ Recorded) \in Nat
        /\ Cardinality(delivered \ Recorded) <= Cardinality(Lost)
    BY <2>1, LostFinite, FS_Subset, FS_CardinalityType
  <2>3. Cardinality(Lost) <= torn
    BY <1>0, <1>1 DEF Apart, LossesCounted
  <2> QED
    BY <2>1, <2>2, <2>3
<1>2. ASSUME ~overlap, NEW a \in alerted, NEW b \in alerted, a.id = b.id PROVE a = b
  <2>1. PICK i \in Rows : a.id = intel[i].id /\ a.critical = intel[i].critical
    BY <1>0, <1>2 DEF AlertsInFile
  <2>2. PICK j \in Rows : b.id = intel[j].id /\ b.critical = intel[j].critical
    BY <1>0, <1>2 DEF AlertsInFile
  <2>3. i = j
    BY <1>0, <1>2, <2>1, <2>2 DEF Apart, NoneTwice
  <2>4. a.critical = b.critical
    BY <2>1, <2>2, <2>3
  <2>5. a \in [id : Cve, critical : BOOLEAN] /\ b \in [id : Cve, critical : BOOLEAN]
    BY <1>0, <1>2 DEF IntelTypeOK
  <2> QED
    BY <1>2, <2>4, <2>5
<1>3. ASSUME NEW a \in alerted, a.critical PROVE a.id \in Exploited \cup Severe
  <2>1. PICK i \in Rows : a.id = intel[i].id /\ a.critical = intel[i].critical
    BY <1>0, <1>3 DEF AlertsInFile
  <2>2. i \in DOMAIN intel
    BY DEF Rows
  <2>3. intel[i].critical
    BY <1>3, <2>1
  <2> QED
    BY <1>0, <2>1, <2>2, <2>3 DEF MarksTrue
<1>4. ~overlap => \A i, j \in Rows : intel[i].id = intel[j].id => i = j
  BY <1>0 DEF Apart, NoneTwice
<1> QED
  BY <1>1, <1>2, <1>3, <1>4 DEF IntelIsComplete

\* The vulnerability intelligence stays within its types, for any polls and entries, and
\* as many lines are torn as polls have died, at the most.
THEOREM IntelTyped == ASSUME IntelConstants PROVE IntelSpec => [](IntelTypeOK /\ TornByDeath)
<1>1. IntelInit => IntelInv
  BY IntelBegins
<1>2. IntelInv /\ [IntelNext]_intelVars => IntelInv'
  BY IntelStep
<1>3. IntelInv => IntelTypeOK /\ TornByDeath
  BY DEF IntelInv
<1> QED
  BY <1>1, <1>2, <1>3, PTL DEF IntelSpec

\* While no polls overlap, what those that ended had got is in the file of the vulnerability
\* intelligence, each entry once, but for at most one entry for every poll that died within a
\* line; and overlapping or not, no playbook takes an entry for exploited that CISA never
\* listed (lib/cve_intel.py poll_cve_feeds, diff_against_last, write_intel, recent).
THEOREM IntelAlwaysComplete == ASSUME IntelConstants PROVE IntelSpec => []IntelIsComplete
<1>1. IntelInit => IntelInv
  BY IntelBegins
<1>2. IntelInv /\ [IntelNext]_intelVars => IntelInv'
  BY IntelStep
<1>3. IntelInv => IntelIsComplete
  BY IntelInvIsComplete
<1> QED
  BY <1>1, <1>2, <1>3, PTL DEF IntelSpec
===============================================================================
