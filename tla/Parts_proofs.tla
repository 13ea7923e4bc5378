---------------------------- MODULE Parts_proofs ------------------------------
(***************************************************************************)
(* Proofs about the proxies, for any number of calls and of stray lines;   *)
(* about the sessions of their client, for any number of threads; about    *)
(* the distillers of the memory, for any number of them and of runs; and   *)
(* about the tracker's window and the browser's lane, as parts of what the *)
(* module MCParts composes: any alerts, commands, threads and tabs.        *)
(***************************************************************************)
EXTENDS MCParts, FiniteSetTheorems, SequenceTheorems, WellFoundedInduction, TLAPS

\* The proxies.

\* What the server has written and the proxy has not read, in its order, and the lines
\* among it that answer a request.
Unread == buffer \o pipe
Replied == {i \in DOMAIN Unread : Unread[i].of # "nothing"}

Failed == {i \in DOMAIN replies : ~replies[i].ok}

ProxyTypes ==
  /\ kind \in {"firecrawl", "lazy"} /\ child \in {"none", "up", "gone"}
  /\ proxy \in {"idle", "hello", "initialize", "list", "call", "unready", "mute"}
  /\ noise \in Nat /\ left \in Nat /\ greeted \in BOOLEAN
  /\ pipe \in Seq(Line) /\ buffer \in Seq(Line) /\ requests \in Seq(Asked)
  /\ replies \in Seq([ok : BOOLEAN, line : Line \cup {Nothing}, quiet : BOOLEAN])

\* A server without stray lines is in step: what is unread is its greeting, or the answer
\* to the one request that the proxy waits for, if the server does not hold that request.
InStep ==
  /\ proxy = "hello" => /\ requests = <<>> /\ buffer = <<>>
                        /\ noise = 0 => Unread = <<>> \/ (Unread = <<Stray("hello")>> /\ greeted)
  /\ proxy \in Asked /\ noise = 0 =>
       \/ requests = <<proxy>> /\ Unread = <<>>
       \/ requests = <<>> /\ \E b \in BOOLEAN : Unread = <<Answer(b, proxy)>>

\* The firecrawl proxy asks for nothing before it has the answer to what it asked for.
OneAtATime ==
  kind = "firecrawl" =>
    /\ proxy = "hello" => Replied = {}
    /\ proxy \in Asked =>
         \/ requests = <<proxy>> /\ Replied = {}
         \/ requests = <<>> /\ \A i, j \in Replied : i = j /\ Unread[i].of = proxy

ChildInv ==
  /\ proxy = "idle" <=> child = "none"
  /\ proxy = "idle" => requests = <<>> /\ noise = 0
  /\ proxy \in {"unready", "mute"} => kind = "lazy"
  /\ left <= IF kind = "firecrawl" THEN 0 ELSE Cardinality(Failed)

ProxyInv == ProxyTypes /\ InStep /\ OneAtATime /\ ChildInv /\ RelayedTruly

-------------------------------------------------------------------------------
\* What the lines are.
LEMMA LineKinds ==
  /\ \A b \in BOOLEAN, r \in Asked : Answer(b, r) \in Line /\ Answer(b, r).of = r
  /\ \A w \in {"hello", "note", "odd"} : Stray(w) \in Line /\ Stray(w).of = "nothing" /\ Stray(w).what = w
  /\ Nothing.what = "none" /\ Nothing.of = "nothing"
  /\ \A l \in Line \cup {Nothing} :
       /\ l.what = "result" => \E r \in Asked : l = Answer(TRUE, r)
       /\ l.what = "error" => \E r \in Asked : l = Answer(FALSE, r)
       /\ l.what \in {"hello", "note", "odd", "none"} => l.of = "nothing"
       /\ l.what \in {"result", "error", "hello", "note", "odd", "none"}
  /\ "nothing" \notin Asked /\ Nothing \notin Line
<1>1. \A b \in BOOLEAN, r \in Asked : Answer(b, r) \in Line /\ Answer(b, r).of = r
  BY DEF Line, Answer
<1>2. \A w \in {"hello", "note", "odd"} : Stray(w) \in Line /\ Stray(w).of = "nothing" /\ Stray(w).what = w
  BY DEF Line, Stray
<1>3. Nothing.what = "none" /\ Nothing.of = "nothing"
  BY DEF Nothing, Stray
<1>4. "nothing" \notin Asked
  BY DEF Asked
<1>5. ASSUME NEW l \in Line \cup {Nothing}
      PROVE  /\ l.what = "result" => \E r \in Asked : l = Answer(TRUE, r)
             /\ l.what = "error" => \E r \in Asked : l = Answer(FALSE, r)
             /\ l.what \in {"hello", "note", "odd", "none"} => l.of = "nothing"
             /\ l.what \in {"result", "error", "hello", "note", "odd", "none"}
  <2>1. ASSUME NEW b \in BOOLEAN, NEW r \in Asked, l = Answer(b, r)
        PROVE  (l.what = "result" /\ b = TRUE) \/ (l.what = "error" /\ b = FALSE)
    BY <2>1 DEF Answer
  <2>2. ASSUME NEW w \in {"hello", "note", "odd", "none"}, l = Stray(w) PROVE l.what = w /\ l.of = "nothing"
    BY <2>2 DEF Stray
  <2>3. (\E b \in BOOLEAN, r \in Asked : l = Answer(b, r)) \/ (\E w \in {"hello", "note", "odd", "none"} : l = Stray(w))
    BY DEF Line, Nothing
  <2>4. CASE \E b \in BOOLEAN, r \in Asked : l = Answer(b, r)
    <3>1. PICK b \in BOOLEAN, r \in Asked : l = Answer(b, r)
      BY <2>4
    <3>2. (l.what = "result" /\ b = TRUE) \/ (l.what = "error" /\ b = FALSE)
      BY <2>1, <3>1
    <3> QED BY <3>1, <3>2
  <2> QED BY <2>2, <2>3, <2>4
<1>6. Nothing \notin Line
  <2>1. \A b \in BOOLEAN, r \in Asked : Nothing # Answer(b, r)
    BY <1>1, <1>3, <1>4
  <2>2. \A w \in {"hello", "note", "odd"} : Nothing # Stray(w)
    BY <1>2, <1>3
  <2> QED BY <2>1, <2>2 DEF Line
<1> QED BY <1>1, <1>2, <1>3, <1>4, <1>5, <1>6

\* A line that the server says is the last of those unread.
LEMMA SaidLast ==
  ASSUME ProxyTypes, NEW l \in Line, Says(l)
  PROVE  Unread' = Append(Unread, l) /\ Unread \in Seq(Line)
<1>1. buffer \in Seq(Line) /\ pipe \in Seq(Line) /\ buffer' = buffer /\ pipe' = Append(pipe, l)
  BY DEF ProxyTypes, Says
<1>2. buffer \o Append(pipe, l) = Append(buffer \o pipe, l) /\ buffer \o pipe \in Seq(Line)
  BY <1>1
<1> QED BY <1>1, <1>2 DEF Unread

\* What is read is the first of them; or nothing, when the time is up or the server gone.
LEMMA ReadFirst ==
  ASSUME ProxyTypes, NEW l \in Line \cup {Nothing}, Reads(l)
  PROVE  /\ Unread \in Seq(Line) /\ Unread' \in Seq(Line)
         /\ pipe' \in Seq(Line) /\ buffer' \in Seq(Line)
         /\ \/ Unread # <<>> /\ l = Head(Unread) /\ Unread' = Tail(Unread)
            \/ /\ l = Nothing /\ Unread' = Unread
               /\ buffer = <<>> => Unread = <<>>
               /\ kind = "firecrawl" \/ (child = "gone" /\ Unread = <<>>)
<1>1. buffer \in Seq(Line) /\ pipe \in Seq(Line) /\ Unread \in Seq(Line)
  BY DEF ProxyTypes, Unread
<1>2. CASE buffer # <<>> /\ l = Head(buffer) /\ buffer' = Tail(buffer) /\ UNCHANGED pipe
  <2>1. buffer \o pipe # <<>> /\ Head(buffer \o pipe) = Head(buffer) /\ Tail(buffer \o pipe) = Tail(buffer) \o pipe
    BY <1>1, <1>2
  <2> QED BY <1>1, <1>2, <2>1 DEF Unread
<1>3. CASE buffer = <<>> /\ pipe # <<>> /\ l = Head(pipe) /\ buffer' = Tail(pipe) /\ pipe' = <<>>
  <2>1. <<>> \o pipe = pipe /\ Tail(pipe) \o <<>> = Tail(pipe) /\ Tail(pipe) \in Seq(Line)
    BY <1>1, <1>3
  <2> QED BY <1>1, <1>3, <2>1 DEF Unread
<1>4. CASE pipe = <<>> /\ l = Nothing /\ UNCHANGED <<pipe, buffer>>
           /\ (kind = "firecrawl" \/ (child = "gone" /\ buffer = <<>>))
  <2>1. buffer = <<>> => Unread = <<>>
    BY <1>4 DEF Unread
  <2> QED BY <1>1, <1>4, <2>1 DEF Unread
<1> QED BY <1>2, <1>3, <1>4 DEF Reads

LEMMA ReplyAdded ==
  ASSUME ProxyTypes, ChildInv, RelayedTruly,
         NEW ok \in BOOLEAN, NEW l \in Line \cup {Nothing}, NEW q \in BOOLEAN,
         replies' = Append(replies, [ok |-> ok, line |-> l, quiet |-> q]), UNCHANGED kind,
         ok /\ q => l = Answer(TRUE, "call"),
         ok /\ kind = "firecrawl" => l.of \in {"call", "nothing"},
         left' = left \/ (left' = left + 1 /\ ~ok /\ kind = "lazy")
  PROVE  /\ replies' \in Seq([ok : BOOLEAN, line : Line \cup {Nothing}, quiet : BOOLEAN])
         /\ left' \in Nat
         /\ left' <= IF kind = "firecrawl" THEN 0 ELSE Cardinality(Failed')
         /\ RelayedTruly'
<1> DEFINE r == [ok |-> ok, line |-> l, quiet |-> q]
           T == [ok : BOOLEAN, line : Line \cup {Nothing}, quiet : BOOLEAN]
           n == Len(replies) + 1
<1>1. r \in T /\ replies \in Seq(T) /\ left \in Nat /\ replies' = Append(replies, r)
  BY DEF ProxyTypes
<1>2. r.ok = ok /\ r.line = l /\ r.quiet = q
  OBVIOUS
<1> HIDE DEF r, T
<1>3. /\ replies' \in Seq(T) /\ Len(replies') = n /\ replies'[n] = r
      /\ \A i \in 1..Len(replies) : replies'[i] = replies[i]
      /\ DOMAIN replies = 1..Len(replies) /\ DOMAIN replies' = 1..Len(replies')
      /\ Len(replies) \in Nat
  BY <1>1
<1>4. /\ DOMAIN replies' = DOMAIN replies \cup {n} /\ n \notin DOMAIN replies
      /\ \A i \in DOMAIN replies : replies'[i] = replies[i]
  BY <1>3
<1>5. RelayedTruly'
  <2>1. \A i \in DOMAIN replies' : replies'[i].ok =>
           /\ replies'[i].quiet => replies'[i].line = Answer(TRUE, "call")
           /\ kind = "firecrawl" => replies'[i].line.of \in {"call", "nothing"}
    <3> SUFFICES ASSUME NEW i \in DOMAIN replies', replies'[i].ok
                 PROVE  /\ replies'[i].quiet => replies'[i].line = Answer(TRUE, "call")
                        /\ kind = "firecrawl" => replies'[i].line.of \in {"call", "nothing"}
      OBVIOUS
    <3>1. CASE i = n
      <4>1. replies'[i] = r
        BY <1>3, <3>1
      <4> QED BY <1>2, <4>1
    <3>2. CASE i \in DOMAIN replies
      <4>1. replies'[i] = replies[i]
        BY <1>4, <3>2
      <4>2. replies[i].ok
        BY <4>1
      <4> QED BY <3>2, <4>1, <4>2 DEF RelayedTruly
    <3> QED BY <1>4, <3>1, <3>2
  <2> QED BY <2>1 DEF RelayedTruly
<1>6. IsFiniteSet(Failed) /\ IsFiniteSet(Failed') /\ Failed' = IF ok THEN Failed ELSE Failed \cup {n}
  <2>1. Failed' = IF ok THEN Failed ELSE Failed \cup {n}
    <3>1. Failed' = {i \in DOMAIN replies' : ~replies'[i].ok}
      BY DEF Failed
    <3>2. \A i \in DOMAIN replies : replies'[i].ok = replies[i].ok
      BY <1>4
    <3>3. n \in DOMAIN replies' /\ replies'[n].ok = ok
      BY <1>2, <1>3, <1>4
    <3>4. Failed' = IF ok THEN Failed ELSE Failed \cup {n}
      <4>1. \A i : i \in Failed' <=> i \in DOMAIN replies' /\ ~replies'[i].ok
        BY <3>1
      <4>2. \A i : i \in Failed <=> i \in DOMAIN replies /\ ~replies[i].ok
        BY DEF Failed
      <4> HIDE DEF n
      <4>3. \A i : i \in Failed' <=> i \in (IF ok THEN Failed ELSE Failed \cup {n})
        BY <1>4, <3>2, <3>3, <4>1, <4>2, Zenon
      <4> QED BY <4>3
    <3> QED BY <3>4
  <2>2. Failed \subseteq 1..Len(replies) /\ IsFiniteSet(1..Len(replies))
    BY <1>3, FS_Interval DEF Failed
  <2>3. IsFiniteSet(Failed)
    BY <2>2, FS_Subset
  <2> QED BY <2>1, <2>3, FS_AddElement
<1>7. n \notin Failed
  BY <1>4 DEF Failed
<1>8. Cardinality(Failed) \in Nat /\ Cardinality(Failed') = IF ok THEN Cardinality(Failed) ELSE Cardinality(Failed) + 1
  BY <1>6, <1>7, FS_AddElement, FS_CardinalityType
<1>9. left' \in Nat /\ left' <= IF kind = "firecrawl" THEN 0 ELSE Cardinality(Failed')
  BY <1>1, <1>8 DEF ChildInv, ProxyTypes
<1> QED BY <1>3, <1>5, <1>9 DEF T

\* The call ends: nothing is left to keep in step.
LEMMA AnswerRead ==
  ASSUME ProxyInv, NEW ok \in BOOLEAN, NEW l \in Line \cup {Nothing}, NEW shut \in BOOLEAN,
         Finish(ok, l, shut), UNCHANGED kind, pipe' \in Seq(Line), buffer' \in Seq(Line),
         ok /\ noise = 0 => l = Answer(TRUE, "call"),
         ok /\ kind = "firecrawl" => l.of \in {"call", "nothing"},
         ~shut /\ child = "up" => kind = "lazy" /\ ~ok
  PROVE  ProxyInv'
<1>1. /\ replies' = Append(replies, [ok |-> ok, line |-> l, quiet |-> noise = 0])
      /\ left' = (IF child = "up" /\ ~shut THEN left + 1 ELSE left)
      /\ proxy' = "idle" /\ child' = "none" /\ greeted' = FALSE /\ noise' = 0
      /\ requests' = <<>>
  BY DEF Finish
<1>2. (noise = 0) \in BOOLEAN
  OBVIOUS
<1>3. left' = left \/ (left' = left + 1 /\ ~ok /\ kind = "lazy")
  BY <1>1
<1>4. /\ replies' \in Seq([ok : BOOLEAN, line : Line \cup {Nothing}, quiet : BOOLEAN])
      /\ left' \in Nat
      /\ left' <= IF kind = "firecrawl" THEN 0 ELSE Cardinality(Failed')
      /\ RelayedTruly'
  BY <1>1, <1>2, <1>3, ReplyAdded DEF ProxyInv
<1>5. ProxyTypes'
  <2>1. requests' \in Seq(Asked)
    BY <1>1
  <2> QED BY <1>1, <1>4, <2>1 DEF ProxyInv, ProxyTypes
<1>6. InStep' /\ OneAtATime' /\ ChildInv'
  BY <1>1, <1>4 DEF InStep, OneAtATime, ChildInv, Asked
<1> QED BY <1>4, <1>5, <1>6 DEF ProxyInv

\* A line said or read, and the answers that are unread.
LEMMA RepliedSaid ==
  ASSUME NEW l \in Line, Unread \in Seq(Line), Unread' = Append(Unread, l)
  PROVE  /\ Replied' = IF l.of = "nothing" THEN Replied ELSE Replied \cup {Len(Unread) + 1}
         /\ Unread'[Len(Unread) + 1] = l
         /\ \A i \in Replied : Unread'[i] = Unread[i]
         /\ Unread = <<>> => Unread' = <<l>>
<1> DEFINE n == Len(Unread) + 1
<1>1. /\ DOMAIN Unread' = DOMAIN Unread \cup {n} /\ n \notin DOMAIN Unread /\ Unread'[n] = l
      /\ \A i \in DOMAIN Unread : Unread'[i] = Unread[i]
  OBVIOUS
<1>2. Unread = <<>> => Unread' = <<l>>
  OBVIOUS
<1> HIDE DEF n
<1>3. Replied' = {i \in DOMAIN Unread' : Unread'[i].of # "nothing"}
  BY DEF Replied
<1>4. Replied' = IF l.of = "nothing" THEN Replied ELSE Replied \cup {n}
  <2>1. \A i : i \in Replied' <=> i \in DOMAIN Unread' /\ Unread'[i].of # "nothing"
    BY <1>3
  <2>2. \A i : i \in Replied <=> i \in DOMAIN Unread /\ Unread[i].of # "nothing"
    BY DEF Replied
  <2>3. \A i : i \in Replied' <=> i \in (IF l.of = "nothing" THEN Replied ELSE Replied \cup {n})
    BY <1>1, <2>1, <2>2, Zenon
  <2> QED BY <2>3
<1>5. \A i \in Replied : Unread'[i] = Unread[i]
  BY <1>1 DEF Replied
<1> QED BY <1>1, <1>2, <1>4, <1>5 DEF n

LEMMA RepliedRead ==
  ASSUME Unread \in Seq(Line), Unread # <<>>, Unread' = Tail(Unread)
  PROVE  /\ \A i \in Replied' : i \in Nat \ {0} /\ i + 1 \in Replied
         /\ Head(Unread).of # "nothing" => 1 \in Replied
         /\ Head(Unread) = Unread[1]
<1>1. /\ DOMAIN Unread = 1..Len(Unread) /\ Len(Unread) \in Nat \ {0} /\ Head(Unread) = Unread[1]
      /\ DOMAIN Tail(Unread) = 1..Len(Unread) - 1
      /\ \A i \in 1..Len(Unread) - 1 : Tail(Unread)[i] = Unread[i + 1]
  OBVIOUS
<1>2. Replied' = {i \in DOMAIN Unread' : Unread'[i].of # "nothing"}
  BY DEF Replied
<1>3. Replied' = {i \in 1..Len(Unread) - 1 : Tail(Unread)[i].of # "nothing"}
  BY <1>1, <1>2
<1>4. ASSUME NEW i \in Replied' PROVE i \in Nat \ {0} /\ i + 1 \in Replied
  <2>1. i \in 1..Len(Unread) - 1 /\ Tail(Unread)[i].of # "nothing"
    BY <1>3
  <2>2. i \in Nat \ {0} /\ i + 1 \in DOMAIN Unread
    BY <1>1, <2>1
  <2>3. Tail(Unread)[i] = Unread[i + 1]
    BY <1>1, <2>1
  <2> QED BY <2>1, <2>2, <2>3 DEF Replied
<1>5. 1 \in DOMAIN Unread
  BY <1>1
<1>6. Head(Unread).of # "nothing" => 1 \in Replied
  BY <1>1, <1>5 DEF Replied
<1> QED BY <1>1, <1>4, <1>6

LEMMA ProxyInitially == ASSUME ProxyInit PROVE ProxyInv
<1>1. Unread = <<>>
  BY DEF ProxyInit, Unread
<1>2. Replied = {} /\ Failed = {}
  BY <1>1 DEF ProxyInit, Replied, Failed
<1>3. Cardinality(Failed) = 0
  BY <1>2, FS_EmptySet
<1>4. ProxyTypes
  <2>1. /\ <<>> \in Seq(Line) /\ <<>> \in Seq(Asked)
        /\ <<>> \in Seq([ok : BOOLEAN, line : Line \cup {Nothing}, quiet : BOOLEAN])
    OBVIOUS
  <2> QED BY <2>1 DEF ProxyInit, ProxyTypes
<1>5. RelayedTruly
  BY DEF ProxyInit, RelayedTruly
<1>6. InStep /\ OneAtATime /\ ChildInv
  BY <1>3 DEF ProxyInit, InStep, OneAtATime, ChildInv, Asked
<1> QED BY <1>4, <1>5, <1>6 DEF ProxyInv

\* The proxy reads a line and asks the next thing.
LEMMA AskedNext ==
  ASSUME ProxyInv, NEW l \in Line \cup {Nothing}, Reads(l), NEW r \in Asked, AskServer(r, r),
         UNCHANGED kind, proxy \in {"hello", "initialize", "list"},
         kind = "firecrawl" /\ proxy # "hello" => l.what = "result"
  PROVE  ProxyInv'
<1>0. ProxyTypes /\ InStep /\ OneAtATime /\ ChildInv /\ RelayedTruly
  BY DEF ProxyInv
<1>1. /\ Unread \in Seq(Line) /\ Unread' \in Seq(Line) /\ pipe' \in Seq(Line) /\ buffer' \in Seq(Line)
      /\ \/ Unread # <<>> /\ l = Head(Unread) /\ Unread' = Tail(Unread)
         \/ /\ l = Nothing /\ Unread' = Unread
            /\ buffer = <<>> => Unread = <<>>
            /\ kind = "firecrawl" \/ (child = "gone" /\ Unread = <<>>)
  BY <1>0, ReadFirst
<1>2. CASE child = "gone"
  <2>1. Finish(FALSE, Nothing, kind = "firecrawl")
    BY <1>2 DEF AskServer, Fail
  <2>2. (kind = "firecrawl") \in BOOLEAN
    OBVIOUS
  <2> QED BY <1>1, <1>2, <2>1, <2>2, AnswerRead
<1>3. CASE child # "gone"
  <2>1. proxy' = r /\ requests' = Append(requests, r) /\ UNCHANGED <<child, greeted, noise, replies, left>>
    BY <1>3 DEF AskServer
  <2>2. l = Nothing => kind = "firecrawl" /\ proxy = "hello" /\ Unread = <<>> /\ Unread' = <<>>
    <3>1. l = Nothing /\ Unread # <<>> => l # Head(Unread)
      <4>1. Nothing \notin Line
        BY LineKinds
      <4> QED BY <1>1, <4>1
    <3> QED BY <1>0, <1>1, <1>3, <3>1, LineKinds DEF InStep
  <2>3. Unread # <<>> /\ l # Nothing => l = Head(Unread) /\ Unread' = Tail(Unread)
    BY <1>1
  <2>4. l # Nothing => Unread # <<>>
    BY <1>1
  <2>5. noise = 0 => requests' = <<r>> /\ Unread' = <<>>
    <3>1. CASE proxy = "hello"
      <4>1. noise = 0 => Unread = <<>> \/ Unread = <<Stray("hello")>>
        BY <1>0, <3>1 DEF InStep
      <4>2. requests = <<>>
        BY <1>0, <3>1 DEF InStep
      <4>3. requests' = <<r>>
        BY <2>1, <4>2
      <4>4. noise = 0 => Unread' = <<>>
        <5>1. Unread = <<Stray("hello")>> => Tail(Unread) = <<>> /\ Unread # <<>>
          OBVIOUS
        <5> QED BY <2>2, <2>3, <2>4, <4>1, <5>1
      <4> QED BY <4>3, <4>4
    <3>2. CASE proxy # "hello"
      <4>1. proxy \in Asked
        BY <3>2 DEF Asked
      <4>2. l # Nothing /\ Unread # <<>> /\ Unread' = Tail(Unread)
        BY <2>2, <2>3, <2>4, <3>2
      <4>3. noise = 0 => requests = <<>> /\ \E b \in BOOLEAN : Unread = <<Answer(b, proxy)>>
        BY <1>0, <4>1, <4>2 DEF InStep
      <4>4. requests = <<>> => requests' = <<r>>
        BY <2>1
      <4>5. noise = 0 => Tail(Unread) = <<>>
        <5>1. ASSUME NEW x, Unread = <<x>> PROVE Tail(Unread) = <<>>
          BY <5>1
        <5> QED BY <4>3, <5>1
      <4> QED BY <4>2, <4>3, <4>4, <4>5
    <3> QED BY <3>1, <3>2
  <2>6. kind = "firecrawl" => requests' = <<r>> /\ Replied' = {}
    <3>1. CASE kind = "firecrawl" /\ proxy = "hello"
      <4>1. requests = <<>> /\ Replied = {}
        BY <1>0, <3>1 DEF InStep, OneAtATime
      <4>2. requests' = <<r>>
        BY <2>1, <4>1
      <4>3. CASE l = Nothing
        <5>1. Unread' = <<>>
          BY <2>2, <4>3
        <5>2. Replied' = {}
          BY <5>1 DEF Replied
        <5> QED BY <4>2, <5>2
      <4>4. CASE l # Nothing
        <5>1. \A i \in Replied' : i + 1 \in Replied
          BY <1>1, <2>3, <2>4, <4>4, RepliedRead
        <5> QED BY <4>1, <4>2, <5>1
      <4> QED BY <4>3, <4>4
    <3>2. CASE kind = "firecrawl" /\ proxy # "hello"
      <4>1. proxy \in Asked /\ l.what = "result"
        BY <3>2 DEF Asked
      <4>2. l # Nothing
        BY <2>2, <3>2
      <4>3. /\ \A i \in Replied' : i \in Nat \ {0} /\ i + 1 \in Replied
            /\ Head(Unread).of # "nothing" => 1 \in Replied
        BY <1>1, <2>3, <2>4, <4>2, RepliedRead
      <4>4. l.of # "nothing"
        <5>1. PICK q \in Asked : l = Answer(TRUE, q)
          BY <4>1, LineKinds
        <5>2. l.of = q
          BY <5>1, LineKinds
        <5> QED BY <5>2, LineKinds
      <4>5. 1 \in Replied
        BY <2>3, <2>4, <4>2, <4>3, <4>4
      <4>6. requests = <<>> /\ \A i, j \in Replied : i = j
        BY <1>0, <3>2, <4>1, <4>5 DEF OneAtATime
      <4>7. requests' = <<r>>
        BY <2>1, <4>6
      <4>8. \A i \in Replied' : FALSE
        BY <4>3, <4>5, <4>6
      <4> QED BY <4>7, <4>8
    <3> QED BY <3>1, <3>2
  <2>7. r # "hello" /\ r \in {"initialize", "list", "call"}
    BY DEF Asked
  <2>8. ProxyTypes'
    <3>1. requests' \in Seq(Asked)
      BY <1>0, <2>1 DEF ProxyTypes
    <3> QED BY <1>0, <1>1, <2>1, <2>7, <3>1 DEF ProxyTypes
  <2>9. InStep'
    BY <2>1, <2>5, <2>7 DEF InStep
  <2>10. OneAtATime'
    BY <2>1, <2>6, <2>7 DEF OneAtATime
  <2>11. ChildInv' /\ RelayedTruly'
    <3>1. Failed' = Failed
      BY <2>1 DEF Failed
    <3> QED BY <1>0, <2>1, <2>7, <3>1 DEF ChildInv, RelayedTruly
  <2> QED BY <2>8, <2>9, <2>10, <2>11 DEF ProxyInv
<1> QED BY <1>2, <1>3

LEMMA ProxyStep == ASSUME ProxyInv, [ProxyNext]_proxyVars PROVE ProxyInv'
<1>0. ProxyTypes /\ InStep /\ OneAtATime /\ ChildInv /\ RelayedTruly
  BY DEF ProxyInv
<1>a. /\ buffer \in Seq(Line) /\ pipe \in Seq(Line) /\ Unread \in Seq(Line) /\ requests \in Seq(Asked)
      /\ noise \in Nat /\ left \in Nat
  BY <1>0 DEF ProxyTypes, Unread
<1>1. CASE UNCHANGED proxyVars
  <2>1. Unread' = Unread /\ Failed' = Failed
    BY <1>1 DEF Unread, Failed, proxyVars
  <2>2. Replied' = Replied
    BY <2>1 DEF Replied
  <2> QED BY <1>0, <1>1, <2>1, <2>2
          DEF ProxyInv, ProxyTypes, InStep, OneAtATime, ChildInv, RelayedTruly, proxyVars, serverState
<1>2. CASE AnswerNext
  <2>1. PICK b \in BOOLEAN : Says(Answer(b, Head(requests)))
    BY <1>2 DEF AnswerNext
  <2> DEFINE l == Answer(b, Head(requests))
  <2>2. Head(requests) \in Asked /\ requests # <<>> /\ requests' = Tail(requests) /\ UNCHANGED <<greeted, noise>>
    BY <1>2, <1>a DEF AnswerNext
  <2>3. l \in Line /\ l.of = Head(requests) /\ l.of # "nothing"
    BY <2>2, LineKinds
  <2>4. Says(l)
    BY <2>1
  <2> HIDE DEF l
  <2>5. Unread' = Append(Unread, l) /\ pipe' = Append(pipe, l) /\ UNCHANGED <<kind, proxy, child, buffer, replies, left>>
    BY <1>0, <2>3, <2>4, SaidLast DEF Says
  <2>6. /\ Replied' = Replied \cup {Len(Unread) + 1} /\ Unread'[Len(Unread) + 1] = l
        /\ Unread = <<>> => Unread' = <<l>>
    BY <1>a, <2>3, <2>5, RepliedSaid
  <2>7. ProxyTypes'
    <3>1. pipe' \in Seq(Line)
      BY <1>a, <2>3, <2>5
    <3>2. requests' \in Seq(Asked)
      BY <1>a, <2>2
    <3> QED BY <1>0, <2>2, <2>5, <3>1, <3>2 DEF ProxyTypes
  <2>8. ASSUME requests = <<proxy>> PROVE requests' = <<>> /\ Head(requests) = proxy
    <3>1. requests' = <<>>
      BY <2>2, <2>8
    <3> QED BY <2>8, <3>1
  <2>9. InStep'
    <3>1. proxy # "hello"
      BY <1>0, <2>2 DEF InStep
    <3>2. ASSUME proxy \in Asked, noise = 0
          PROVE  requests' = <<>> /\ \E c \in BOOLEAN : Unread' = <<Answer(c, proxy)>>
      <4>1. requests = <<proxy>> /\ Unread = <<>>
        BY <1>0, <2>2, <3>2 DEF InStep
      <4>2. Unread' = <<Answer(b, proxy)>>
        BY <2>6, <2>8, <4>1 DEF l
      <4> QED BY <2>8, <4>1, <4>2
    <3> QED BY <2>2, <2>5, <3>1, <3>2 DEF InStep
  <2>10. OneAtATime'
    <3>1. kind = "firecrawl" => proxy # "hello"
      BY <1>0, <2>2 DEF InStep
    <3>2. ASSUME kind = "firecrawl", proxy \in Asked
          PROVE  requests' = <<>> /\ \A i, j \in Replied' : i = j /\ Unread'[i].of = proxy
      <4>1. requests = <<proxy>> /\ Replied = {}
        BY <1>0, <2>2, <3>2 DEF OneAtATime
      <4>2. l.of = proxy
        BY <2>3, <2>8, <4>1
      <4> QED BY <2>6, <2>8, <4>1, <4>2
    <3> QED BY <2>5, <3>1, <3>2 DEF OneAtATime
  <2>11. ChildInv' /\ RelayedTruly'
    <3>1. proxy # "idle" /\ Failed' = Failed
      BY <1>0, <2>2, <2>5 DEF ChildInv, Failed
    <3> QED BY <1>0, <2>5, <3>1 DEF ChildInv, RelayedTruly
  <2> QED BY <2>7, <2>9, <2>10, <2>11 DEF ProxyInv
<1>3. ASSUME NEW w \in {"hello", "note", "odd"}, Says(Stray(w)), child = "up", UNCHANGED requests,
             greeted' \in BOOLEAN,
             \/ noise' = noise + 1
             \/ noise' = noise /\ proxy = "hello" /\ w = "hello" /\ ~greeted /\ greeted'
      PROVE  ProxyInv'
  <2>1. Stray(w) \in Line /\ Stray(w).of = "nothing"
    BY LineKinds
  <2>2. /\ Unread' = Append(Unread, Stray(w)) /\ pipe' = Append(pipe, Stray(w))
        /\ UNCHANGED <<kind, proxy, child, buffer, replies, left>>
    BY <1>0, <1>3, <2>1, SaidLast DEF Says
  <2>3. /\ Replied' = Replied /\ \A i \in Replied : Unread'[i] = Unread[i]
        /\ Unread = <<>> => Unread' = <<Stray(w)>>
    BY <1>a, <2>1, <2>2, RepliedSaid
  <2>4. ProxyTypes'
    <3>1. pipe' \in Seq(Line)
      BY <1>a, <2>1, <2>2
    <3> QED BY <1>0, <1>3, <1>a, <2>2, <3>1 DEF ProxyTypes
  <2>5. InStep'
    <3>1. proxy' = "hello" => /\ requests' = <<>> /\ buffer' = <<>>
                              /\ noise' = 0 => Unread' = <<Stray("hello")>> /\ greeted'
      BY <1>0, <1>3, <1>a, <2>2, <2>3 DEF InStep
    <3>2. proxy' \in Asked => noise' # 0
      BY <1>3, <1>a, <2>2 DEF Asked
    <3> QED BY <3>1, <3>2 DEF InStep
  <2>6. OneAtATime'
    BY <1>0, <1>3, <2>2, <2>3 DEF OneAtATime
  <2>7. ChildInv' /\ RelayedTruly'
    <3>1. proxy # "idle" /\ Failed' = Failed
      BY <1>0, <1>3, <2>2 DEF ChildInv, Failed
    <3> QED BY <1>0, <2>2, <3>1 DEF ChildInv, RelayedTruly
  <2> QED BY <2>4, <2>5, <2>6, <2>7 DEF ProxyInv
<1>4. CASE Greet
  BY <1>3, <1>4 DEF Greet
<1>5. CASE Chatter
  <2>1. PICK w \in {"note", "odd"} : Says(Stray(w))
    BY <1>5 DEF Chatter
  <2>2. greeted' \in BOOLEAN
    BY <1>0, <1>5 DEF Chatter, ProxyTypes
  <2> QED BY <1>3, <1>5, <2>1, <2>2 DEF Chatter
<1>6. CASE ServerEnds
  <2>1. Unread' = Unread /\ Failed' = Failed
    BY <1>6 DEF Unread, Failed, ServerEnds
  <2>2. Replied' = Replied
    BY <2>1 DEF Replied
  <2> QED BY <1>0, <1>6, <2>1, <2>2
          DEF ProxyInv, ProxyTypes, InStep, OneAtATime, ChildInv, RelayedTruly, ServerEnds
<1>7. CASE Refuse
  <2>1. Nothing \in Line \cup {Nothing} /\ FALSE \in BOOLEAN /\ TRUE \in BOOLEAN
    OBVIOUS
  <2>2. /\ replies' = Append(replies, [ok |-> FALSE, line |-> Nothing, quiet |-> TRUE]) /\ proxy = "idle"
        /\ UNCHANGED <<kind, proxy, serverState, pipe, buffer, left>>
    BY <1>7 DEF Refuse
  <2>3. /\ replies' \in Seq([ok : BOOLEAN, line : Line \cup {Nothing}, quiet : BOOLEAN])
        /\ left' <= IF kind = "firecrawl" THEN 0 ELSE Cardinality(Failed')
        /\ RelayedTruly'
    BY <1>0, <2>1, <2>2, ReplyAdded
  <2>4. ProxyTypes'
    BY <1>0, <2>2, <2>3 DEF ProxyTypes, serverState
  <2>5. InStep' /\ OneAtATime' /\ ChildInv'
    BY <1>0, <2>2, <2>3 DEF InStep, OneAtATime, ChildInv, Asked, serverState
  <2> QED BY <2>3, <2>4, <2>5 DEF ProxyInv
<1>8. CASE StartServer
  <2>1. /\ proxy = "idle" /\ proxy' = "hello" /\ child' = "up" /\ pipe' = <<>> /\ buffer' = <<>>
        /\ UNCHANGED <<kind, greeted, requests, noise, replies, left>>
    BY <1>8 DEF StartServer
  <2>2. Unread' = <<>> /\ Failed' = Failed
    BY <2>1 DEF Unread, Failed
  <2>3. Replied' = {}
    BY <2>2 DEF Replied
  <2>4. ProxyTypes'
    <3>1. <<>> \in Seq(Line)
      OBVIOUS
    <3> QED BY <1>0, <2>1, <3>1 DEF ProxyTypes
  <2>5. requests = <<>> /\ noise = 0
    BY <1>0, <2>1 DEF ChildInv
  <2>6. InStep' /\ OneAtATime'
    BY <2>1, <2>2, <2>3, <2>5 DEF InStep, OneAtATime, Asked
  <2>7. ChildInv' /\ RelayedTruly'
    BY <1>0, <2>1, <2>2 DEF ChildInv, RelayedTruly
  <2> QED BY <2>4, <2>6, <2>7 DEF ProxyInv
\* The lazy proxy reads the server's complaints.
<1>b. ASSUME NEW l \in Line \cup {Nothing}, Reads(l), kind = "lazy", UNCHANGED kind, proxy \in Asked,
             NEW s \in {"unready", "mute"}, Complain(s)
      PROVE  ProxyInv'
  <2>1. pipe' \in Seq(Line) /\ buffer' \in Seq(Line)
    BY <1>0, <1>b, ReadFirst
  <2>2. proxy' = s /\ UNCHANGED <<serverState, replies, left>>
    BY <1>b DEF Complain
  <2>3. ProxyTypes'
    BY <1>0, <1>b, <2>1, <2>2 DEF ProxyTypes, serverState
  <2>4. InStep' /\ OneAtATime'
    BY <1>b, <2>2 DEF InStep, OneAtATime, Asked
  <2>5. ChildInv' /\ RelayedTruly'
    <3>1. proxy # "idle" /\ Failed' = Failed
      BY <1>b, <2>2 DEF Asked, Failed
    <3> QED BY <1>0, <1>b, <2>2, <3>1 DEF ChildInv, RelayedTruly, serverState
  <2> QED BY <2>3, <2>4, <2>5 DEF ProxyInv
\* A call that fails with the server in hand, or with a server that is gone.
<1>c. ASSUME NEW l \in Line \cup {Nothing}, Reads(l), UNCHANGED kind, Fail(TRUE) PROVE ProxyInv'
  <2>1. Finish(FALSE, Nothing, TRUE) /\ pipe' \in Seq(Line) /\ buffer' \in Seq(Line)
    BY <1>0, <1>c, ReadFirst DEF Fail
  <2> QED BY <1>c, <2>1, AnswerRead
\* Or one that raises.
<1>d. ASSUME NEW l \in Line \cup {Nothing}, Reads(l), UNCHANGED kind, Raises(l) PROVE ProxyInv'
  <2>1. PICK shut \in BOOLEAN : shut = (kind = "firecrawl" \/ proxy = "call")
    OBVIOUS
  <2>2. Finish(FALSE, Nothing, shut) /\ pipe' \in Seq(Line) /\ buffer' \in Seq(Line)
    BY <1>0, <1>d, <2>1, ReadFirst DEF Fail, Raises
  <2>3. ~shut => kind = "lazy"
    BY <1>0, <2>1 DEF ProxyTypes
  <2> QED BY <1>d, <2>2, <2>3, AnswerRead
<1>9. CASE Hello
  <2>1. PICK l \in Line \cup {Nothing} : Reads(l) /\ (AskServer("initialize", "initialize") \/ Raises(l))
    BY <1>9 DEF Hello
  <2>2. CASE AskServer("initialize", "initialize")
    BY <1>9, <2>1, <2>2, AskedNext DEF Hello, Asked
  <2>3. CASE Raises(l)
    BY <1>9, <1>d, <2>1, <2>3 DEF Hello
  <2> QED BY <2>1, <2>2, <2>3
<1>10. CASE Initialized
  <2>1. PICK l \in Line \cup {Nothing} :
               /\ Reads(l)
               /\ \/ Raises(l)
                  \/ CASE l.what = "result" -> AskServer("list", "list")
                       [] kind = "firecrawl" /\ l.what # "result" -> Fail(TRUE)
                       [] OTHER -> Complain("unready")
    BY <1>10 DEF Initialized
  <2>2. proxy = "initialize" /\ UNCHANGED kind /\ kind \in {"firecrawl", "lazy"}
    BY <1>0, <1>10 DEF Initialized, ProxyTypes
  <2>6. CASE Raises(l)
    BY <1>d, <2>1, <2>2, <2>6
  <2>3. CASE l.what = "result" /\ ~Raises(l)
    <3>1. AskServer("list", "list")
      BY <2>1, <2>3
    <3> QED BY <2>1, <2>2, <2>3, <3>1, AskedNext DEF Asked
  <2>4. CASE l.what # "result" /\ kind = "firecrawl" /\ ~Raises(l)
    <3>1. Fail(TRUE)
      BY <2>1, <2>4
    <3> QED BY <1>c, <2>1, <2>2, <3>1
  <2>5. CASE l.what # "result" /\ kind = "lazy" /\ ~Raises(l)
    <3>1. Complain("unready")
      BY <2>1, <2>5
    <3> QED BY <1>b, <2>1, <2>2, <2>5, <3>1 DEF Asked
  <2> QED BY <2>2, <2>3, <2>4, <2>5, <2>6
<1>11. CASE Listed
  <2>1. PICK l \in Line \cup {Nothing} :
               /\ Reads(l)
               /\ \/ Raises(l)
                  \/ IF kind = "lazy" \/ l.what = "result" THEN AskServer("call", "call") ELSE Fail(TRUE)
    BY <1>11 DEF Listed
  <2>2. proxy = "list" /\ UNCHANGED kind
    BY <1>11 DEF Listed
  <2>3. CASE (kind = "lazy" \/ l.what = "result") /\ ~Raises(l)
    BY <2>1, <2>2, <2>3, AskedNext DEF Asked
  <2>4. CASE ~(kind = "lazy" \/ l.what = "result") /\ ~Raises(l)
    BY <1>c, <2>1, <2>2, <2>4
  <2>5. CASE Raises(l)
    BY <1>d, <2>1, <2>2, <2>5
  <2> QED BY <2>3, <2>4, <2>5
<1>12. CASE Called
  <2>1. PICK l \in Line \cup {Nothing} :
               /\ Reads(l)
               /\ \/ Raises(l)
                  \/ CASE l.what \in {"result", "note", "hello"} -> Finish(TRUE, l, TRUE)
                       [] l.what = "error" -> Finish(FALSE, l, TRUE)
                       [] kind = "firecrawl" /\ l.what \in {"odd", "none"} -> Fail(TRUE)
                       [] OTHER -> Complain("mute")
    BY <1>12 DEF Called
  <2>2. proxy = "call" /\ UNCHANGED kind /\ kind \in {"firecrawl", "lazy"}
    BY <1>0, <1>12 DEF Called, ProxyTypes
  <2>3. /\ pipe' \in Seq(Line) /\ buffer' \in Seq(Line)
        /\ l # Nothing => Unread # <<>> /\ l = Head(Unread) /\ Unread' = Tail(Unread)
    BY <1>0, <2>1, ReadFirst
  <2>4. l.what \in {"result", "error", "hello", "note", "odd", "none"}
    BY LineKinds
  <2>9. CASE Raises(l)
    BY <1>d, <2>1, <2>2, <2>9
  <2>5. CASE l.what \in {"result", "note", "hello"} /\ ~Raises(l)
    <3>1. Finish(TRUE, l, TRUE)
      BY <2>1, <2>5
    <3>2. l # Nothing
      BY <2>5, LineKinds
    <3>3. noise = 0 => l = Answer(TRUE, "call")
      <4>1. noise = 0 => \E b \in BOOLEAN : Unread = <<Answer(b, "call")>>
        BY <1>0, <2>2, <2>3, <3>2 DEF InStep, Asked
      <4>2. ASSUME NEW b \in BOOLEAN, Unread = <<Answer(b, "call")>> PROVE l = Answer(TRUE, "call")
        <5>1. l = Answer(b, "call")
          BY <2>3, <3>2, <4>2
        <5>2. b # TRUE => l.what = "error"
          BY <5>1 DEF Answer
        <5> QED BY <2>5, <5>1, <5>2
      <4> QED BY <4>1, <4>2
    <3>4. kind = "firecrawl" => l.of \in {"call", "nothing"}
      <4>1. /\ Head(Unread).of # "nothing" => 1 \in Replied
            /\ Head(Unread) = Unread[1]
        BY <1>a, <2>3, <3>2, RepliedRead
      <4>2. kind = "firecrawl" /\ 1 \in Replied => Unread[1].of = "call"
        BY <1>0, <2>2 DEF OneAtATime, Asked
      <4> QED BY <2>3, <3>2, <4>1, <4>2
    <3> QED BY <2>2, <2>3, <3>1, <3>3, <3>4, AnswerRead
  <2>6. CASE l.what = "error" /\ ~Raises(l)
    <3>1. Finish(FALSE, l, TRUE)
      BY <2>1, <2>6
    <3> QED BY <2>2, <2>3, <3>1, AnswerRead
  <2>7. CASE l.what \in {"odd", "none"} /\ kind = "firecrawl" /\ ~Raises(l)
    <3>1. Fail(TRUE)
      BY <2>1, <2>7
    <3> QED BY <1>c, <2>1, <2>2, <3>1
  <2>8. CASE l.what \in {"odd", "none"} /\ kind = "lazy" /\ ~Raises(l)
    <3>1. Complain("mute")
      BY <2>1, <2>8
    <3> QED BY <1>b, <2>1, <2>2, <2>8, <3>1 DEF Asked
  <2> QED BY <2>2, <2>4, <2>5, <2>6, <2>7, <2>8, <2>9
<1>13. CASE Complained
  <2>1. proxy \in {"unready", "mute"} /\ Finish(FALSE, Nothing, proxy = "mute") /\ UNCHANGED <<kind, pipe, buffer>>
    BY <1>13 DEF Complained, Fail
  <2>2. kind = "lazy" /\ (proxy = "mute") \in BOOLEAN
    BY <1>0, <2>1 DEF ChildInv
  <2> QED BY <1>a, <2>1, <2>2, AnswerRead
<1> QED BY <1>1, <1>2, <1>4, <1>5, <1>6, <1>7, <1>8, <1>9, <1>10, <1>11, <1>12, <1>13 DEF ProxyNext

-------------------------------------------------------------------------------
\* The client's sessions.

\* A session that is being opened belongs to the caller that opens it, and to nobody
\* else: no other has it, none has given up on it, it is not kept. What a caller calls
\* with has been opened, by itself or by another.
OpenerInv ==
  \A c \in Caller :
    /\ at[c] = "connecting" => /\ own[c] \in Session /\ own[c] # kept /\ own[c] \notin missed
                               /\ link[own[c]] \in {"connecting", "open", "failed"}
                               /\ \A e \in Caller \ {c} : own[e] # own[c]
    /\ at[c] = "calling" => own[c] \in Session
    /\ own[c] # NoSession => link[own[c]] # "unmade"

MissedInv ==
  /\ ClientTypeOK /\ OpenerInv /\ MissedIsForgotten
  /\ \A s \in missed : link[s] # "unmade"

LEMMA NextIsUnmade == ASSUME Unmade # {} PROVE NextOne \in Unmade
<1> DEFINE R == {p \in Nat \X Nat : p[1] < p[2]}
<1>0. IsWellFoundedOn(R, Nat)
  BY NatLessThanWellFounded DEF OpToRel
<1> HIDE DEF R
<1>1. Unmade \subseteq Nat
  BY DEF Unmade, Session
<1>2. PICK s \in Unmade : \A u \in Unmade : ~(<<u, s>> \in R)
  BY <1>0, <1>1, WFMin
<1>3. ASSUME NEW u \in Unmade PROVE s <= u
  <2>1. s \in Nat /\ u \in Nat
    BY <1>1
  <2>2. u < s => <<u, s>> \in R
    BY <2>1 DEF R
  <2> QED BY <1>2, <2>1, <2>2
<1> QED BY <1>3 DEF NextOne

LEMMA MissedInitially == ASSUME ClientConstants, ClientInit PROVE MissedInv
BY DEF ClientConstants, ClientInit, MissedInv, ClientTypeOK, OpenerInv, MissedIsForgotten

LEMMA MissedStep == ASSUME ClientConstants, MissedInv, [ClientNext]_clientVars PROVE MissedInv'
<1> USE DEF ClientConstants, MissedInv, OpenerInv, MissedIsForgotten, Ends
<1>0. /\ kept \in Session \cup {NoSession} /\ missed \subseteq Session /\ NoSession \notin Session
      /\ link \in [Session -> {"unmade", "connecting", "open", "failed", "closed"}]
      /\ at \in [Caller -> {"idle", "taking", "failing", "connecting", "calling"}]
      /\ own \in [Caller -> Session \cup {NoSession}] /\ errand \in [Caller -> {"call", "list"}]
  BY DEF ClientTypeOK, Session
<1>1. CASE UNCHANGED clientVars
  BY <1>1 DEF clientVars, ClientTypeOK
<1>2. ASSUME NEW c \in Caller, Begin(c) PROVE MissedInv'
  <2>1. ClientTypeOK'
    BY <1>0, <1>2, NextIsUnmade DEF ClientTypeOK, Begin, Unmade
  <2>2. CASE kept # NoSession /\ link' = link /\ own' = own /\ at' = [at EXCEPT ![c] = "taking"]
    BY <1>0, <1>2, <2>1, <2>2 DEF Begin
  <2>3. CASE /\ kept = NoSession /\ Unmade # {} /\ own' = [own EXCEPT ![c] = NextOne]
             /\ link' = [link EXCEPT ![NextOne] = "connecting"] /\ at' = [at EXCEPT ![c] = "connecting"]
    <3>1. NextOne \in Session /\ link[NextOne] = "unmade"
      BY <2>3, NextIsUnmade DEF Unmade
    <3> QED BY <1>0, <1>2, <2>1, <2>3, <3>1 DEF Begin
  <2> QED BY <1>2, <2>2, <2>3 DEF Begin
<1>3. ASSUME NEW c \in Caller, KeepSession(c) PROVE MissedInv'
  BY <1>0, <1>3 DEF ClientTypeOK, KeepSession
<1>4. ASSUME NEW c \in Caller, GiveUpConnecting(c) PROVE MissedInv'
  BY <1>0, <1>4 DEF ClientTypeOK, GiveUpConnecting, DropSession
<1>5. ASSUME NEW c \in Caller, Answered(c) PROVE MissedInv'
  BY <1>0, <1>5 DEF ClientTypeOK, Answered
<1>6. ASSUME NEW c \in Caller, GiveUp(c) PROVE MissedInv'
  BY <1>0, <1>6 DEF ClientTypeOK, GiveUp, DropSession
<1>7. ASSUME NEW c \in Caller, GiveUpListing(c) PROVE MissedInv'
  BY <1>0, <1>7 DEF ClientTypeOK, GiveUpListing
<1>8. ASSUME NEW s \in Session, Connected(s) PROVE MissedInv'
  BY <1>0, <1>8 DEF ClientTypeOK, Connected
<1>9. CASE CloseAll \/ ForgetAll
  BY <1>0, <1>9 DEF ClientTypeOK, CloseAll, ForgetAll
<1>10. ASSUME NEW c \in Caller, Take(c) PROVE MissedInv'
  <2>1. CASE kept # NoSession
    BY <1>0, <1>10, <2>1 DEF ClientTypeOK, Take
  <2>2. CASE kept = NoSession
    BY <1>0, <1>10, <2>2 DEF ClientTypeOK, Take
  <2> QED BY <2>1, <2>2
<1>11. ASSUME NEW c \in Caller, DropOther(c) PROVE MissedInv'
  BY <1>0, <1>11 DEF ClientTypeOK, DropOther, DropSession
<1> QED BY <1>1, <1>2, <1>3, <1>4, <1>5, <1>6, <1>7, <1>8, <1>9, <1>10, <1>11 DEF ClientNext

-------------------------------------------------------------------------------
\* However late a server answers, whatever it says between and whenever it ends; however
\* the threads open, drop and close sessions: what comes back to a caller is the answer to
\* its call, no child outlives its call but one whose handshake failed, and a session that
\* was given up on is not handed out again (_call_firecrawl, _call_real, _call_server_tool).
THEOREM CallsAlwaysRelayedTruly == ProxySpec /\ ClientSpec => []CallsRelayedTruly
<1>1. ProxyInit => ProxyInv
  BY ProxyInitially
<1>2. ProxyInv /\ [ProxyNext]_proxyVars => ProxyInv'
  BY ProxyStep
<1>3. ClientInit => MissedInv
  BY MissedInitially, ClientConstants
<1>4. MissedInv /\ [ClientNext]_clientVars => MissedInv'
  BY MissedStep, ClientConstants
<1>5. ProxyInv /\ MissedInv => CallsRelayedTruly
  BY DEF ProxyInv, ChildInv, MissedInv, CallsRelayedTruly, ChildrenEnd, Failed
<1> QED BY <1>1, <1>2, <1>3, <1>4, <1>5, PTL DEF ProxySpec, ClientSpec

-------------------------------------------------------------------------------
\* The distillers.

\* Distillers at work, those among them that may yet write f, and whether the next one
\* to start alone would.
Active == {d \in Distiller : pc[d] # "off"}
Behind(f) == {d \in Active : f \notin seen[d]}
Ahead(f) == IF Active = {} /\ f \notin saved THEN 1 ELSE 0

DistillTypes ==
  /\ rows \in 0..Len(Facts)
  /\ pc \in [Distiller -> {"off", "scan", "write", "save"}]
  /\ seen \in [Distiller -> SUBSET Cold!Fact] /\ unsorted \in [Distiller -> SUBSET Cold!Fact]
  /\ saved \subseteq Cold!Fact /\ cold \in [Cold!Fact -> Nat] /\ upsets \in Nat

\* What has been written and what may be written again is paid for by the upsets.
PaidFor(f) == cold[f] + Cardinality(Behind(f)) + Ahead(f) <= 1 + upsets
SeenIsCold(f) == (f \in saved \/ \E d \in Distiller : f \in seen[d]) => cold[f] > 0

DistillInv == DistillTypes /\ \A f \in Cold!Fact : PaidFor(f) /\ SeenIsCold(f)

LEMMA BehindCounts ==
  ASSUME DistillConstants, NEW f
  PROVE  IsFiniteSet(Behind(f)) /\ Cardinality(Behind(f)) \in Nat
<1>1. Behind(f) \subseteq Distiller
  BY DEF Behind, Active
<1> QED BY <1>1, FS_Subset, FS_CardinalityType DEF DistillConstants

\* One distiller more or less.
LEMMA OneMore ==
  ASSUME NEW S, IsFiniteSet(S), NEW x
  PROVE  /\ Cardinality(S \cup {x}) \in Nat /\ Cardinality(S \cup {x}) <= Cardinality(S) + 1
         /\ Cardinality(S \ {x}) \in Nat /\ Cardinality(S \ {x}) <= Cardinality(S)
         /\ x \in S => Cardinality(S \ {x}) = Cardinality(S) - 1
BY FS_AddElement, FS_RemoveElement, FS_CardinalityType

LEMMA DistillInitially == ASSUME DistillConstants, Cold!DistillInit PROVE DistillInv
<1>1. Active = {}
  BY DEF Cold!DistillInit, Active
<1>2. DistillTypes
  <2>1. Len(Facts) \in Nat
    BY DEF DistillConstants
  <2> QED BY <2>1 DEF Cold!DistillInit, DistillTypes
<1>3. ASSUME NEW f \in Cold!Fact PROVE PaidFor(f) /\ SeenIsCold(f)
  <2>1. Behind(f) = {}
    BY <1>1 DEF Behind
  <2>2. Cardinality(Behind(f)) = 0
    BY <2>1, FS_EmptySet
  <2>3. cold[f] = 0 /\ upsets = 0 /\ saved = {} /\ seen = [d \in Distiller |-> {}]
    BY DEF Cold!DistillInit
  <2> QED BY <2>2, <2>3 DEF PaidFor, SeenIsCold, Ahead
<1> QED BY <1>2, <1>3 DEF DistillInv

LEMMA DistillStep == ASSUME DistillConstants, DistillInv, [Cold!DistillNext]_Cold!distillVars PROVE DistillInv'
<1>0. /\ rows \in 0..Len(Facts)
      /\ pc \in [Distiller -> {"off", "scan", "write", "save"}]
      /\ seen \in [Distiller -> SUBSET Cold!Fact] /\ unsorted \in [Distiller -> SUBSET Cold!Fact]
      /\ saved \subseteq Cold!Fact /\ cold \in [Cold!Fact -> Nat] /\ upsets \in Nat
  BY DEF DistillInv, DistillTypes
<1>a. ASSUME NEW f \in Cold!Fact
      PROVE  /\ IsFiniteSet(Behind(f)) /\ Cardinality(Behind(f)) \in Nat
             /\ cold[f] \in Nat /\ Ahead(f) \in {0, 1} /\ Ahead(f)' \in {0, 1}
             /\ PaidFor(f) /\ SeenIsCold(f)
  BY <1>0, BehindCounts DEF DistillInv, Ahead
\* Who is at work stays, and what is seen and saved stays or what is written.
<1>b. ASSUME UNCHANGED <<pc, seen, saved, cold, upsets>>, NEW f \in Cold!Fact PROVE PaidFor(f)' /\ SeenIsCold(f)'
  <2>1. Behind(f)' = Behind(f) /\ Ahead(f)' = Ahead(f)
    BY <1>b DEF Behind, Active, Ahead
  <2> QED BY <1>a, <1>b, <2>1 DEF PaidFor, SeenIsCold
<1>1. CASE UNCHANGED Cold!distillVars \/ Cold!AddRow
  <2>1. UNCHANGED <<pc, seen, saved, cold, upsets, unsorted>> /\ rows' \in 0..Len(Facts)
    <3>1. Len(Facts) \in Nat
      BY DEF DistillConstants
    <3> QED BY <1>0, <1>1, <3>1 DEF Cold!distillVars, Cold!AddRow
  <2> QED BY <1>0, <1>b, <2>1 DEF DistillInv, DistillTypes
<1>2. ASSUME NEW d \in Distiller, Cold!Load(d) PROVE DistillInv'
  <2>1. PICK readable \in BOOLEAN :
             /\ seen' = [seen EXCEPT ![d] = IF readable THEN saved ELSE {}]
             /\ upsets' = upsets + IF ~readable \/ \E e \in Distiller \ {d} : pc[e] # "off" THEN 1 ELSE 0
    BY <1>2 DEF Cold!Load, Cold!Upset
  <2>2. pc[d] = "off" /\ pc' = [pc EXCEPT ![d] = "scan"] /\ UNCHANGED <<rows, saved, unsorted, cold>>
    BY <1>2 DEF Cold!Load
  <2>3. DistillTypes'
    BY <1>0, <2>1, <2>2 DEF DistillTypes
  <2>4. ASSUME NEW f \in Cold!Fact PROVE PaidFor(f)' /\ SeenIsCold(f)'
    <3>1. Active' = Active \cup {d} /\ d \notin Active
      BY <1>0, <2>2 DEF Active
    <3>2. Behind(f)' = IF f \in seen'[d] THEN Behind(f) ELSE Behind(f) \cup {d}
      <4>1. \A e \in Active : e # d /\ seen'[e] = seen[e]
        BY <1>0, <2>1, <3>1 DEF Active
      <4>2. Behind(f)' = {e \in Active' : f \notin seen'[e]}
        BY DEF Behind
      <4> QED BY <3>1, <4>1, <4>2 DEF Behind
    <3>3. seen'[d] = IF readable THEN saved ELSE {}
      BY <1>0, <2>1
    <3>4. Ahead(f)' = 0
      BY <3>1 DEF Ahead
    <3>5. Cardinality(Behind(f) \cup {d}) \in Nat /\ Cardinality(Behind(f) \cup {d}) <= Cardinality(Behind(f)) + 1
      BY <1>a, OneMore
    <3>6. SeenIsCold(f)'
      BY <1>0, <1>a, <2>1, <2>2, <3>3 DEF SeenIsCold
    <3>7. CASE upsets' = upsets + 1
      <4>1. /\ cold'[f] = cold[f] /\ Cardinality(Behind(f)') \in Nat
            /\ Cardinality(Behind(f)') <= Cardinality(Behind(f)) + 1
        BY <1>a, <2>2, <3>2, <3>5
      <4>2. cold[f] + Cardinality(Behind(f)) + Ahead(f) <= 1 + upsets
        BY <1>a DEF PaidFor
      <4>3. cold'[f] + Cardinality(Behind(f)') + Ahead(f)' <= 1 + upsets'
        BY <1>0, <1>a, <3>4, <3>7, <4>1, <4>2
      <4> QED BY <3>6, <4>3 DEF PaidFor
    <3>8. CASE upsets' = upsets /\ readable /\ \A e \in Distiller \ {d} : pc[e] = "off"
      <4>1. Active = {}
        BY <2>2, <3>8 DEF Active
      <4>2. Ahead(f) = IF f \in saved THEN 0 ELSE 1
        BY <4>1 DEF Ahead
      <4> QED BY <1>0, <1>a, <2>2, <3>2, <3>3, <3>4, <3>5, <3>6, <3>8, <4>2 DEF PaidFor
    <3> QED BY <1>0, <2>1, <3>7, <3>8
  <2> QED BY <2>3, <2>4 DEF DistillInv
<1>3. ASSUME NEW d \in Distiller, Cold!Scan(d) PROVE DistillInv'
  <2>1. UNION {Facts[r] : r \in 1..rows} \in SUBSET Cold!Fact
    BY <1>0 DEF Cold!Fact, Cold!Row, DistillConstants
  <2>2. DistillTypes'
    BY <1>0, <1>3, <2>1 DEF DistillTypes, Cold!Scan
  <2>3. ASSUME NEW f \in Cold!Fact PROVE PaidFor(f)' /\ SeenIsCold(f)'
    <3>1. Active' = Active
      BY <1>0, <1>3 DEF Active, Cold!Scan
    <3>2. Behind(f)' = Behind(f) /\ Ahead(f)' = Ahead(f)
      BY <1>3, <3>1 DEF Behind, Ahead, Cold!Scan
    <3> QED BY <1>3, <1>a, <3>2 DEF PaidFor, SeenIsCold, Cold!Scan
  <2> QED BY <2>2, <2>3 DEF DistillInv
<1>4. ASSUME NEW d \in Distiller, Cold!WriteFact(d) PROVE DistillInv'
  <2>1. PICK g \in unsorted[d] :
             /\ unsorted' = [unsorted EXCEPT ![d] = @ \ {g}]
             /\ \/ /\ g \notin seen[d]
                   /\ cold' = [cold EXCEPT ![g] = @ + 1] /\ seen' = [seen EXCEPT ![d] = @ \cup {g}]
                \/ UNCHANGED <<cold, seen>>
    BY <1>4 DEF Cold!WriteFact
  <2>2. pc[d] = "write" /\ UNCHANGED <<rows, pc, saved, runs, upsets>> /\ g \in Cold!Fact
    BY <1>0, <1>4, <2>1 DEF Cold!WriteFact
  <2>3. DistillTypes'
    <3>1. unsorted' \in [Distiller -> SUBSET Cold!Fact]
      BY <1>0, <2>1
    <3>2. CASE UNCHANGED <<cold, seen>>
      BY <1>0, <2>2, <3>1, <3>2 DEF DistillTypes
    <3>3. CASE cold' = [cold EXCEPT ![g] = @ + 1] /\ seen' = [seen EXCEPT ![d] = @ \cup {g}]
      <4>1. cold' \in [Cold!Fact -> Nat]
        BY <1>0, <2>2, <3>3
      <4>2. seen' \in [Distiller -> SUBSET Cold!Fact]
        BY <1>0, <2>2, <3>3
      <4> QED BY <1>0, <2>2, <3>1, <4>1, <4>2 DEF DistillTypes
    <3> QED BY <2>1, <3>2, <3>3
  <2>4. CASE UNCHANGED <<cold, seen>>
    <3>1. \A f \in Cold!Fact : PaidFor(f)' /\ SeenIsCold(f)'
      BY <1>b, <2>2, <2>4
    <3> QED BY <2>3, <3>1 DEF DistillInv
  <2>5. CASE g \notin seen[d] /\ cold' = [cold EXCEPT ![g] = @ + 1] /\ seen' = [seen EXCEPT ![d] = @ \cup {g}]
    <3>1. ASSUME NEW f \in Cold!Fact PROVE PaidFor(f)' /\ SeenIsCold(f)'
      <4>1. Active' = Active /\ d \in Active
        BY <1>0, <2>2 DEF Active
      <4>2. Ahead(f)' = Ahead(f)
        BY <2>2, <4>1 DEF Ahead
      <4>3. cold'[f] = IF f = g THEN cold[f] + 1 ELSE cold[f]
        BY <1>0, <2>5
      <4>4. Behind(f)' = IF f = g THEN Behind(f) \ {d} ELSE Behind(f)
        <5>1. Behind(f)' = {e \in Active : f \notin seen'[e]}
          BY <4>1 DEF Behind
        <5>2. \A e \in Active : f \notin seen'[e] <=> f \notin seen[e] /\ ~(e = d /\ f = g)
          BY <1>0, <2>5 DEF Active
        <5> QED BY <5>1, <5>2 DEF Behind
      <4>5. f = g => d \in Behind(f)
        BY <2>5, <4>1 DEF Behind
      <4>6. f = g => Cardinality(Behind(f)') = Cardinality(Behind(f)) - 1
        BY <1>a, <4>4, <4>5, OneMore
      <4>7. PaidFor(f)'
        BY <1>0, <1>a, <2>2, <4>2, <4>3, <4>4, <4>6 DEF PaidFor
      <4>8. SeenIsCold(f)'
        <5>1. \A e \in Distiller : f \in seen'[e] => f \in seen[e] \/ f = g
          BY <1>0, <2>5
        <5> QED BY <1>a, <2>2, <4>3, <5>1 DEF SeenIsCold
      <4> QED BY <4>7, <4>8
    <3> QED BY <2>3, <3>1 DEF DistillInv
  <2> QED BY <2>1, <2>4, <2>5
<1>5. ASSUME NEW d \in Distiller, Cold!BeginSave(d) PROVE DistillInv'
  <2>1. /\ pc[d] = "write" /\ pc' = [pc EXCEPT ![d] = "save"] /\ saved' = {}
        /\ UNCHANGED <<rows, seen, unsorted, cold, runs, upsets>>
    BY <1>5 DEF Cold!BeginSave
  <2>2. DistillTypes'
    BY <1>0, <2>1 DEF DistillTypes
  <2>3. ASSUME NEW f \in Cold!Fact PROVE PaidFor(f)' /\ SeenIsCold(f)'
    <3>1. Active' = Active /\ d \in Active
      BY <1>0, <2>1 DEF Active
    <3>2. Behind(f)' = Behind(f) /\ Ahead(f)' = 0 /\ Ahead(f) = 0
      BY <2>1, <3>1 DEF Behind, Ahead
    <3> QED BY <1>a, <2>1, <3>2 DEF PaidFor, SeenIsCold
  <2> QED BY <2>2, <2>3 DEF DistillInv
<1>6. ASSUME NEW d \in Distiller, Cold!EndSave(d) PROVE DistillInv'
  <2>1. PICK put \in Cold!Kept(seen[d]) \cup {{}} :
             saved' = put /\ upsets' = upsets + IF put # seen[d] THEN 1 ELSE 0
    BY <1>6 DEF Cold!EndSave, Cold!Upset
  <2>2. put \subseteq seen[d]
    BY DEF Cold!Kept
  <2>3. /\ pc[d] = "save" /\ UNCHANGED <<rows, unsorted, cold>>
        /\ \/ pc' = [pc EXCEPT ![d] = "off"] /\ seen' = [seen EXCEPT ![d] = {}]
           \/ pc' = [pc EXCEPT ![d] = "scan"] /\ UNCHANGED seen
    BY <1>6 DEF Cold!EndSave
  <2>4. DistillTypes'
    <3>1. saved' \subseteq Cold!Fact /\ upsets' \in Nat
      BY <1>0, <2>1, <2>2
    <3> QED BY <1>0, <2>3, <3>1 DEF DistillTypes
  <2>5. ASSUME NEW f \in Cold!Fact PROVE PaidFor(f)' /\ SeenIsCold(f)'
    <3>0. d \in Active
      BY <2>3 DEF Active
    <3>1. Ahead(f) = 0
      BY <3>0 DEF Ahead
    <3>2. SeenIsCold(f)'
      <4>1. \A e \in Distiller : seen'[e] \subseteq seen[e]
        BY <1>0, <2>3
      <4>2. f \in saved' => f \in seen[d]
        BY <2>1, <2>2
      <4> QED BY <1>a, <2>3, <4>1, <4>2 DEF SeenIsCold
    <3>3. CASE pc' = [pc EXCEPT ![d] = "scan"] /\ UNCHANGED seen
      <4>1. Active' = Active
        BY <1>0, <2>3, <3>3 DEF Active
      <4>2. Behind(f)' = Behind(f) /\ Ahead(f)' = 0
        BY <3>0, <3>3, <4>1 DEF Behind, Ahead
      <4> QED BY <1>0, <1>a, <2>1, <2>3, <3>1, <3>2, <4>2 DEF PaidFor
    <3>4. CASE pc' = [pc EXCEPT ![d] = "off"] /\ seen' = [seen EXCEPT ![d] = {}]
      <4>1. Active' = Active \ {d} /\ \A e \in Active \ {d} : seen'[e] = seen[e]
        BY <1>0, <3>4 DEF Active
      <4>2. Behind(f)' = Behind(f) \ {d}
        <5>1. Behind(f)' = {e \in Active' : f \notin seen'[e]}
          BY DEF Behind
        <5> QED BY <4>1, <5>1 DEF Behind
      <4>3. /\ Cardinality(Behind(f) \ {d}) \in Nat /\ Cardinality(Behind(f) \ {d}) <= Cardinality(Behind(f))
            /\ d \in Behind(f) => Cardinality(Behind(f) \ {d}) = Cardinality(Behind(f)) - 1
        BY <1>a, OneMore
      <4>4. put = seen[d] /\ Ahead(f)' = 1 => d \in Behind(f)
        BY <2>1, <3>0 DEF Ahead, Behind
      <4>5. PaidFor(f)'
        BY <1>0, <1>a, <2>1, <2>3, <3>1, <4>2, <4>3, <4>4 DEF PaidFor
      <4> QED BY <3>2, <4>5
    <3> QED BY <2>3, <3>3, <3>4
  <2> QED BY <2>4, <2>5 DEF DistillInv
<1>7. ASSUME NEW d \in Distiller, Cold!Die(d) PROVE DistillInv'
  <2>1. /\ pc[d] # "off" /\ pc' = [pc EXCEPT ![d] = "off"] /\ upsets' = upsets + 1
        /\ seen' = [seen EXCEPT ![d] = {}] /\ unsorted' = [unsorted EXCEPT ![d] = {}]
        /\ UNCHANGED <<rows, saved, cold>>
    BY <1>7 DEF Cold!Die, Cold!Upset
  <2>2. DistillTypes'
    BY <1>0, <2>1 DEF DistillTypes
  <2>3. ASSUME NEW f \in Cold!Fact PROVE PaidFor(f)' /\ SeenIsCold(f)'
    <3>1. Active' = Active \ {d} /\ d \in Active /\ \A e \in Active \ {d} : seen'[e] = seen[e]
      BY <1>0, <2>1 DEF Active
    <3>2. Behind(f)' = Behind(f) \ {d}
      <4>1. Behind(f)' = {e \in Active' : f \notin seen'[e]}
        BY DEF Behind
      <4> QED BY <3>1, <4>1 DEF Behind
    <3>3. Cardinality(Behind(f) \ {d}) \in Nat /\ Cardinality(Behind(f) \ {d}) <= Cardinality(Behind(f))
      BY <1>a, OneMore
    <3>4. Ahead(f) = 0
      BY <3>1 DEF Ahead
    <3>5. PaidFor(f)'
      BY <1>0, <1>a, <2>1, <3>2, <3>3, <3>4 DEF PaidFor
    <3>6. SeenIsCold(f)'
      <4>1. \A e \in Distiller : seen'[e] \subseteq seen[e]
        BY <1>0, <2>1
      <4> QED BY <1>a, <2>1, <4>1 DEF SeenIsCold
    <3> QED BY <3>5, <3>6
  <2> QED BY <2>2, <2>3 DEF DistillInv
<1> QED BY <1>1, <1>2, <1>3, <1>4, <1>5, <1>6, <1>7 DEF Cold!DistillNext

\* However many distillers run at once, fail to read or to save and die: a fact is in the
\* cold table once and once more for every upset at most, and none that counts as seen is
\* missing there (ColdDistiller.run, _save_seen_facts).
THEOREM FactsAlwaysOnce == ASSUME DistillConstants PROVE Cold!DistillSpec => []Cold!FactsOnce
<1>1. Cold!DistillInit => DistillInv
  BY DistillInitially
<1>2. DistillInv /\ [Cold!DistillNext]_Cold!distillVars => DistillInv'
  BY DistillStep
<1>3. DistillInv => Cold!FactsOnce
  <2> SUFFICES ASSUME DistillInv, NEW f \in Cold!Fact
               PROVE  /\ cold[f] <= 1 + upsets
                      /\ f \in saved \cup UNION {seen[d] : d \in Distiller} => cold[f] > 0
    BY DEF Cold!FactsOnce
  <2>1. cold[f] \in Nat /\ upsets \in Nat /\ PaidFor(f) /\ SeenIsCold(f) /\ Ahead(f) \in {0, 1}
    BY DEF DistillInv, DistillTypes, Ahead
  <2>2. Cardinality(Behind(f)) \in Nat
    BY BehindCounts
  <2> QED BY <2>1, <2>2 DEF PaidFor, SeenIsCold
<1> QED BY <1>1, <1>2, <1>3, PTL DEF Cold!DistillSpec

-------------------------------------------------------------------------------
\* The tracker's window.

\* The state file, as it is and as the window has it, is behind what the helper has tried.
Tried(done) == \A i \in 1..done : i \in DOMAIN orders /\ orders[i] \in applied \cup refused

StateFile == [done : Nat, blocked : SUBSET Nat]
StateCopy == [done : Nat, blocked : SUBSET Nat, of : Nat]
DeskTypes ==
  /\ stores \subseteq Alert /\ IsFiniteSet(stores) /\ summary \subseteq Alert /\ cards \in [Alert -> Nat]
  /\ orders \in Seq(Alert) /\ readState \in StateCopy
  /\ state \in StateFile

DeskInv == DeskTypes /\ Desk!CardsFollowAlerts /\ Tried(state.done) /\ Tried(readState.done)

\* The window's module counts as this one does.
LEMMA SameCount == ASSUME NEW S PROVE Desk!Cardinality(S) = Cardinality(S)
BY DEF Desk!Cardinality, Cardinality

LEMMA DeskTruth ==
  /\ Desk!CardsFollowAlerts <=> /\ ~failed => /\ summary \cap dismissed = {}
                                              /\ \A a \in Alert : a \in summary <=> cards[a] > 0
                                /\ Cardinality(summary) <= Shown
  /\ \A S : Desk!Merged(S) = {a \in S : Cardinality({b \in S : b > a}) < Shown}
<1>1. Desk!CardsFollowAlerts <=> /\ ~failed => /\ summary \cap dismissed = {}
                                               /\ \A a \in Alert : a \in summary <=> cards[a] > 0
                                 /\ Cardinality(summary) <= Shown
  BY SameCount DEF Desk!CardsFollowAlerts
<1>2. ASSUME NEW S PROVE Desk!Merged(S) = {a \in S : Cardinality({b \in S : b > a}) < Shown}
  BY SameCount DEF Desk!Merged
<1> QED BY <1>1, <1>2

\* Of a finite set of numbers no more than Shown have fewer than Shown above them.
LEMMA FewAreMerged ==
  ASSUME DeskConstants, NEW S \in SUBSET Nat, IsFiniteSet(S), NEW T \in SUBSET Desk!Merged(S)
  PROVE  IsFiniteSet(T) /\ Cardinality(T) <= Shown
<1> DEFINE R == {p \in Nat \X Nat : p[1] < p[2]}
           Above(a) == {b \in S : b > a}
<1>1. T \subseteq S /\ \A a \in T : Cardinality(Above(a)) < Shown
  BY DeskTruth
<1>2. IsFiniteSet(T) /\ Cardinality(T) \in Nat
  BY <1>1, FS_Subset, FS_CardinalityType
<1>3. CASE T = {}
  BY <1>2, <1>3, FS_EmptySet DEF DeskConstants
<1>4. CASE T # {}
  <2>0. IsWellFoundedOn(R, Nat)
    BY NatLessThanWellFounded DEF OpToRel
  <2> HIDE DEF R
  <2>1. T \subseteq Nat
    BY <1>1
  <2>2. PICK m \in T : \A u \in T : ~(<<u, m>> \in R)
    BY <1>4, <2>0, <2>1, WFMin
  <2>3. ASSUME NEW u \in T \ {m} PROVE u \in Above(m)
    <3>1. ~(u < m)
      BY <2>1, <2>2, <2>3 DEF R
    <3> QED BY <1>1, <2>1, <3>1
  <2> HIDE DEF Above
  <2>4. Above(m) \subseteq S
    BY DEF Above
  <2>5. IsFiniteSet(Above(m)) /\ Cardinality(Above(m)) \in Nat
    BY <2>4, FS_Subset, FS_CardinalityType
  <2>6. T \ {m} \subseteq Above(m)
    BY <2>3
  <2>7. Cardinality(T \ {m}) <= Cardinality(Above(m))
    BY <2>5, <2>6, FS_Subset
  <2>8. Cardinality(T \ {m}) = Cardinality(T) - 1
    BY <1>2, FS_RemoveElement
  <2> QED BY <1>1, <1>2, <2>5, <2>7, <2>8 DEF DeskConstants
<1> QED BY <1>3, <1>4

LEMMA DeskInitially == ASSUME DeskConstants, Desk!Init PROVE DeskInv
<1>1. <<>> \in Seq(Alert)
  OBVIOUS
<1>2. IsFiniteSet({}) /\ Cardinality({}) = 0
  BY FS_EmptySet
<1>3. DeskTypes
  BY <1>1, <1>2 DEF Desk!Init, DeskTypes, StateFile, StateCopy, Desk!Fresh, Desk!NoCopy
<1>4. Desk!CardsFollowAlerts
  BY <1>2, DeskTruth DEF Desk!Init, DeskConstants
<1>5. Tried(0)
  BY DEF Tried
<1> QED BY <1>3, <1>4, <1>5 DEF DeskInv, Desk!Init, Desk!Fresh, Desk!NoCopy

\* What _apply_filters leaves, after any handler.
LEMMA Applied ==
  ASSUME DeskConstants, DeskInv, NEW all \in SUBSET Alert, IsFiniteSet(all), NEW away,
         Desk!Apply(all, away), dismissed' = away, away = dismissed \/ failed' \/ summary' = Desk!Merged(all) \ away
  PROVE  Desk!CardsFollowAlerts' /\ summary' \subseteq Alert /\ cards' \in [Alert -> Nat]
<1>1. /\ summary \subseteq Alert /\ cards \in [Alert -> Nat] /\ Many \in Nat \ {0}
      /\ Cardinality(summary) <= Shown
  BY DeskTruth DEF DeskInv, DeskTypes, DeskConstants
<1>2. CASE odd /\ UNCHANGED <<cards, summary>>
  <2>1. failed'
    BY <1>2 DEF Desk!Apply
  <2>2. Cardinality(summary') <= Shown
    BY <1>1, <1>2
  <2>3. Desk!CardsFollowAlerts'
    BY <2>1, <2>2, SameCount DEF Desk!CardsFollowAlerts
  <2> QED BY <1>1, <1>2, <2>3
<1>4. CASE odd /\ summary' = Desk!Merged(all) \ away
               /\ \E a \in Desk!Merged(all) \ away : cards' = Desk!Begun(Desk!Merged(all) \ away, a)
  <2> DEFINE these == Desk!Merged(all) \ away
  <2>1. PICK a \in these : summary' = these /\ cards' = Desk!Begun(these, a)
    BY <1>4
  <2>2. these \subseteq all /\ these \subseteq Desk!Merged(all)
    BY DEF Desk!Merged
  <2>3. all \subseteq Nat /\ failed'
    BY <1>4 DEF DeskConstants, Desk!Apply
  <2> HIDE DEF these
  <2>4. Cardinality(these) <= Shown
    BY <2>2, <2>3, FewAreMerged
  <2>5. cards' \in [Alert -> Nat]
    BY <1>1, <2>1 DEF Desk!Begun
  <2>6. Cardinality(summary') <= Shown
    BY <2>1, <2>4
  <2>7. Desk!CardsFollowAlerts'
    BY <2>3, <2>6, SameCount DEF Desk!CardsFollowAlerts
  <2> QED BY <2>1, <2>2, <2>5, <2>7
<1>3. CASE ~odd
  <2> DEFINE these == Desk!Merged(all) \ away
  <2>1. summary' = these /\ cards' = Desk!Rendered(these)
    BY <1>3 DEF Desk!Apply
  <2>2. these \subseteq all /\ these \subseteq Desk!Merged(all)
    BY DEF Desk!Merged
  <2>3. all \subseteq Nat
    BY DEF DeskConstants
  <2> HIDE DEF these
  <2>4. Cardinality(these) <= Shown
    BY <2>2, <2>3, FewAreMerged
  <2>5. \A a \in Alert : cards'[a] = IF a \notin these THEN 0 ELSE IF cards[a] < Many THEN cards[a] + 1 ELSE Many
    BY <2>1 DEF Desk!Rendered
  <2>6. cards' \in [Alert -> Nat]
    BY <1>1, <2>1 DEF Desk!Rendered
  <2>7. \A a \in Alert : a \in summary' <=> cards'[a] > 0
    BY <1>1, <2>1, <2>5
  <2>8. summary' \cap dismissed' = {}
    BY <2>1 DEF these
  <2>9. Desk!CardsFollowAlerts'
    BY <2>1, <2>4, <2>7, <2>8, SameCount DEF Desk!CardsFollowAlerts
  <2> QED BY <2>1, <2>2, <2>6, <2>9
<1>5. \/ odd /\ UNCHANGED <<cards, summary>>
      \/ /\ odd /\ summary' = Desk!Merged(all) \ away
         /\ \E a \in Desk!Merged(all) \ away : cards' = Desk!Begun(Desk!Merged(all) \ away, a)
      \/ ~odd
  BY DEF Desk!Apply
<1> QED BY <1>2, <1>3, <1>4, <1>5

LEMMA DeskStep == ASSUME DeskConstants, DeskInv, [Desk!Next]_Desk!vars PROVE DeskInv'
<1>0. /\ DeskTypes /\ Desk!CardsFollowAlerts /\ Tried(state.done) /\ Tried(readState.done)
      /\ stores \subseteq Alert /\ IsFiniteSet(stores) /\ summary \subseteq Alert /\ cards \in [Alert -> Nat]
      /\ orders \in Seq(Alert) /\ state \in StateFile /\ readState \in StateCopy
      /\ state.done \in Nat /\ readState.done \in Nat /\ Alert \subseteq Nat
  BY DEF DeskInv, DeskTypes, StateFile, StateCopy, DeskConstants
\* The part of the cards, and the part of the commands.
<1>a. ASSUME UNCHANGED <<cards, dismissed, summary, failed>>
      PROVE  Desk!CardsFollowAlerts' /\ summary' \subseteq Alert /\ cards' \in [Alert -> Nat]
  BY <1>0, <1>a DEF Desk!CardsFollowAlerts
<1>b. ASSUME UNCHANGED <<orders, readState, state, applied, refused>>
      PROVE  /\ Tried(state.done)' /\ Tried(readState.done)'
             /\ orders' \in Seq(Alert) /\ state' \in StateFile /\ readState' \in StateCopy
  BY <1>0, <1>b DEF Tried
<1>1. CASE UNCHANGED Desk!vars
  BY <1>0, <1>1, <1>a, <1>b DEF Desk!vars, Desk!window, Desk!helper, DeskInv, DeskTypes
<1>2. ASSUME NEW a \in Alert, Desk!Raise(a) PROVE DeskInv'
  <2>1. stores' \subseteq Alert /\ IsFiniteSet(stores')
    BY <1>0, <1>2, FS_AddElement DEF Desk!Raise
  <2> QED BY <1>2, <1>a, <1>b, <2>1 DEF Desk!Raise, Desk!window, Desk!helper, DeskInv, DeskTypes
<1>3. ASSUME NEW a \in Alert, Desk!Dismiss(a) PROVE DeskInv'
  <2>1. /\ Desk!Apply(stores, dismissed \cup {a}) /\ dismissed' = dismissed \cup {a}
        /\ UNCHANGED <<stores, orders, readState, state, applied, refused>>
    BY <1>3 DEF Desk!Dismiss, Desk!helper
  <2>2. failed' \/ summary' = Desk!Merged(stores) \ (dismissed \cup {a})
    BY <2>1 DEF Desk!Apply
  <2>3. Desk!CardsFollowAlerts' /\ summary' \subseteq Alert /\ cards' \in [Alert -> Nat]
    BY <1>0, <2>1, <2>2, Applied
  <2> QED BY <1>0, <1>b, <2>1, <2>3 DEF DeskInv, DeskTypes
<1>4. ASSUME NEW a \in Alert, NEW s \in {state, Desk!Fresh}, orders' = Append(orders, a),
             UNCHANGED <<stores, cards, dismissed, summary, failed, state, applied, refused>>,
             UNCHANGED readState \/ readState' = [done |-> s.done, blocked |-> s.blocked, of |-> a]
      PROVE  DeskInv'
  <2>1. /\ orders' \in Seq(Alert) /\ DOMAIN orders \subseteq DOMAIN orders'
        /\ \A i \in DOMAIN orders : orders'[i] = orders[i]
    BY <1>0, <1>4
  <2>2. ASSUME NEW n \in Nat, Tried(n) PROVE Tried(n)'
    BY <1>4, <2>1, <2>2 DEF Tried
  <2>3. Tried(0)
    BY DEF Tried
  <2>4. readState'.done = readState.done \/ readState'.done = state.done \/ readState'.done = 0
    BY <1>4 DEF Desk!Fresh
  <2>5. readState'.done \in Nat /\ Tried(readState'.done)
    BY <1>0, <2>3, <2>4
  <2>10. readState' \in StateCopy
    BY <1>0, <1>4 DEF StateFile, StateCopy, Desk!Fresh
  <2>6. PICK n \in Nat : n = readState'.done
    BY <2>5
  <2>7. PICK k \in Nat : k = state'.done
    BY <1>0, <1>4
  <2>8. Tried(n)' /\ Tried(k)'
    BY <1>0, <1>4, <2>2, <2>5, <2>6, <2>7
  <2>9. Tried(state.done)' /\ Tried(readState.done)'
    BY <2>6, <2>7, <2>8 DEF Tried
  <2> QED BY <1>0, <1>4, <1>a, <2>1, <2>9, <2>10 DEF DeskInv, DeskTypes
<1>5. ASSUME NEW a \in Alert, Desk!QueueBlock(a) PROVE DeskInv'
  <2>1. PICK s \in {state, Desk!Fresh} : readState' = [done |-> s.done, blocked |-> s.blocked, of |-> a]
    BY <1>5 DEF Desk!QueueBlock
  <2> QED BY <1>4, <1>5, <2>1 DEF Desk!QueueBlock, Desk!window, Desk!helper
<1>6. ASSUME NEW a \in Alert, Desk!FailToQueue(a) PROVE DeskInv'
  BY <1>0, <1>6, <1>a, <1>b DEF Desk!FailToQueue, Desk!window, Desk!helper, DeskInv, DeskTypes
<1>7. ASSUME NEW a \in Alert, Desk!Playbook(a) PROVE DeskInv'
  BY <1>4, <1>7 DEF Desk!Playbook, Desk!window, Desk!helper
<1>8. CASE Desk!Upset
  BY <1>0, <1>8, <1>a, <1>b DEF Desk!Upset, Desk!window, Desk!helper, DeskInv, DeskTypes
<1>9. CASE Desk!Refresh
  <2>1. /\ Desk!Apply(stores, dismissed) /\ dismissed' = dismissed
        /\ UNCHANGED <<stores, orders, readState, state, applied, refused>>
    BY <1>9 DEF Desk!Refresh, Desk!helper
  <2>2. Desk!CardsFollowAlerts' /\ summary' \subseteq Alert /\ cards' \in [Alert -> Nat]
    BY <1>0, <2>1, Applied
  <2> QED BY <1>0, <1>b, <2>1, <2>2 DEF DeskInv, DeskTypes
<1>10. CASE Desk!ClearLogs
  <2>1. PICK off \in SUBSET (stores \ FromCve) :
             stores' = stores \ off /\ Desk!Apply(stores \ off, dismissed)
    BY <1>10 DEF Desk!ClearLogs
  <2>2. dismissed' = dismissed /\ UNCHANGED <<orders, readState, state, applied, refused>>
    BY <1>10 DEF Desk!ClearLogs, Desk!helper
  <2>3. stores \ off \subseteq Alert /\ IsFiniteSet(stores \ off)
    BY <1>0, FS_Subset
  <2>4. Desk!CardsFollowAlerts' /\ summary' \subseteq Alert /\ cards' \in [Alert -> Nat]
    BY <1>0, <2>1, <2>2, <2>3, Applied
  <2> QED BY <1>0, <1>b, <2>1, <2>2, <2>3, <2>4 DEF DeskInv, DeskTypes
<1>11. CASE Desk!RecordBlock
  <2>1. /\ state' \in StateFile /\ state'.done \in {state.done, readState.done} /\ readState' = Desk!NoCopy
        /\ UNCHANGED <<stores, cards, dismissed, summary, failed, orders, applied, refused>>
    BY <1>0, <1>11 DEF Desk!RecordBlock, Desk!window, StateFile, StateCopy
  <2>2. readState'.done = 0 /\ readState' \in StateCopy
    BY <2>1 DEF Desk!NoCopy, StateCopy
  <2>3. Tried(readState.done)'
    BY <2>2 DEF Tried
  <2>4. Tried(state.done)'
    BY <1>0, <2>1 DEF Tried
  <2> QED BY <1>0, <1>a, <2>1, <2>2, <2>3, <2>4 DEF DeskInv, DeskTypes
<1>12. CASE Desk!HelperTakes
  <2>0. state.done < Len(orders) /\ orders[state.done + 1] \in Nat
    BY <1>0, <1>12 DEF Desk!HelperTakes
  <2>1. /\ state' \in StateFile /\ state'.done = state.done + 1
        /\ applied \cup refused \cup {orders[state.done + 1]} = applied' \cup refused'
        /\ UNCHANGED <<stores, cards, dismissed, summary, failed, orders, readState>>
    <3>1. CASE /\ applied' = applied \cup {orders[state.done + 1]} /\ UNCHANGED refused
               /\ state' = [done |-> state.done + 1, blocked |-> state.blocked \cup {orders[state.done + 1]}]
      BY <1>0, <1>12, <2>0, <3>1 DEF Desk!HelperTakes, Desk!window, StateFile
    <3>2. CASE /\ refused' = refused \cup {orders[state.done + 1]} /\ UNCHANGED applied
               /\ state' = [state EXCEPT !.done = @ + 1]
      <4>1. state' \in StateFile /\ state'.done = state.done + 1
        <5>1. state' = [done |-> state.done + 1, blocked |-> state.blocked]
          BY <1>0, <3>2 DEF StateFile
        <5>2. state.blocked \in SUBSET Nat
          BY <1>0 DEF StateFile
        <5> QED BY <1>0, <5>1, <5>2 DEF StateFile
      <4>2. UNCHANGED <<stores, cards, dismissed, summary, failed, orders, readState>>
        BY <1>12 DEF Desk!HelperTakes, Desk!window
      <4>3. applied \cup refused \cup {orders[state.done + 1]} = applied' \cup refused'
        BY <3>2
      <4> QED BY <4>1, <4>2, <4>3
    <3> QED BY <1>12, <3>1, <3>2 DEF Desk!HelperTakes
  <2>2. state.done + 1 \in DOMAIN orders
    BY <1>0, <2>0
  <2>3. Tried(readState.done)'
    BY <1>0, <2>1 DEF Tried
  <2>4. Tried(state.done)'
    <3>1. \A i \in 1..state.done + 1 : i \in 1..state.done \/ i = state.done + 1
      BY <1>0
    <3> QED BY <1>0, <2>1, <2>2, <3>1 DEF Tried
  <2> QED BY <1>0, <1>a, <2>1, <2>3, <2>4 DEF DeskInv, DeskTypes
<1> QED BY <1>1, <1>2, <1>3, <1>5, <1>6, <1>7, <1>8, <1>9, <1>10, <1>11, <1>12 DEF Desk!Next

-------------------------------------------------------------------------------
\* The browser's connection.

Places == DOMAIN doing = Caller \cup {IdleReaper}

\* Whoever connects has the lock, and a driver.
LinkInv ==
  /\ Places /\ started \in Nat /\ driver \in Nat /\ ended \in [stopped : SUBSET Nat, left : SUBSET Nat]
  /\ \A c \in Caller : doing[c] = "connecting" => lock = c /\ driver # 0
  /\ Browser!DriversAccounted

LEMMA LinkInitially == ASSUME BrowserConstants, Browser!Init PROVE LinkInv
<1>1. 1..0 = {} /\ {0} \ {0} = {}
  OBVIOUS
<1>2. /\ started = 0 /\ driver = 0 /\ line = "none" /\ ended = [stopped |-> {}, left |-> {}]
      /\ doing = [c \in Caller \cup {IdleReaper} |-> "idle"]
  BY DEF Browser!Init
<1>3. Browser!DriversAccounted
  BY <1>1, <1>2 DEF Browser!DriversAccounted
<1> QED BY <1>2, <1>3 DEF LinkInv, Places

\* A thread goes on to anything but connecting.
Elsewhere == Places' /\ \A c \in Caller : doing'[c] = "connecting" => doing[c] = "connecting"

LEMMA GoesElsewhere ==
  ASSUME Places
  PROVE  /\ UNCHANGED doing => Elsewhere
         /\ \A a, x : Browser!Goto(a, x) /\ x # "connecting" => Elsewhere
         /\ \A c : Browser!Ends(c) \/ Browser!Fails(c) => Elsewhere
BY DEF Places, Elsewhere, Browser!Goto, Browser!Ends, Browser!Fails

LEMMA LinkStep == ASSUME BrowserConstants, LinkInv, [Browser!Next]_Browser!vars PROVE LinkInv'
<1>0. /\ Places /\ started \in Nat /\ driver \in Nat /\ ended \in [stopped : SUBSET Nat, left : SUBSET Nat]
      /\ \A c \in Caller : doing[c] = "connecting" => lock = c /\ driver # 0
      /\ 1..started = ended.stopped \cup ended.left \cup ({driver} \ {0})
      /\ driver \notin ended.stopped \cup ended.left /\ (line # "none" => driver # 0)
  BY DEF LinkInv, Browser!DriversAccounted
<1>1. ASSUME Elsewhere, UNCHANGED <<driver, started, ended>>, line' = "none" \/ driver # 0 \/ UNCHANGED line,
             \A c \in Caller : doing'[c] = "connecting" => lock' = c
      PROVE  LinkInv'
  BY <1>0, <1>1 DEF LinkInv, Elsewhere, Browser!DriversAccounted
<1>2. ASSUME Elsewhere, UNCHANGED <<driver, started, ended, lock>>, line' = "none" \/ driver # 0 \/ UNCHANGED line
      PROVE  LinkInv'
  BY <1>0, <1>1, <1>2 DEF Elsewhere
<1>3. CASE UNCHANGED Browser!vars
  BY <1>0, <1>2, <1>3, GoesElsewhere DEF Browser!vars, Browser!connection
<1>4. ASSUME NEW c \in Caller, Browser!Begin(c) PROVE LinkInv'
  <2>1. PICK x \in {"listing", "asking"} : Browser!Goto(c, x)
    BY <1>4 DEF Browser!Begin
  <2> QED BY <1>0, <1>2, <1>4, <2>1, GoesElsewhere DEF Browser!Begin, Browser!connection
<1>5. ASSUME NEW c \in Caller, Browser!Call(c) PROVE LinkInv'
  <2>1. CASE Browser!ListFromCache(c) \/ Browser!ListAnew(c)
    BY <1>0, <1>2, <2>1, GoesElsewhere DEF Browser!ListFromCache, Browser!ListAnew, Browser!connection
  <2>2. CASE Browser!Refused(c) \/ Browser!Passes(c) \/ Browser!Reuse(c)
    BY <1>0, <1>2, <2>2, GoesElsewhere DEF Browser!Refused, Browser!Passes, Browser!Reuse, Browser!connection
  <2>3. CASE Browser!StartFails(c)
    BY <1>0, <1>2, <2>3, GoesElsewhere DEF Browser!StartFails
  <2>4. CASE Browser!Connect(c)
    <3>1. /\ lock = Browser!NoOne /\ lock' = c /\ line' = "none" /\ UNCHANGED ended
          /\ doing' = [doing EXCEPT ![c] = "connecting"]
      BY <2>4 DEF Browser!Connect, Browser!Goto
    <3>2. \A b \in Caller : doing'[b] = "connecting" => b = c
      BY <1>0, <3>1 DEF Browser!NoOne, BrowserConstants
    <3>3. Places'
      BY <1>0, <3>1 DEF Places
    <3>4. CASE driver # 0 /\ UNCHANGED <<driver, started>>
      BY <1>0, <3>1, <3>2, <3>3, <3>4 DEF LinkInv, Browser!DriversAccounted
    <3>5. CASE driver = 0 /\ started' = started + 1 /\ driver' = started + 1
      <4>1. 1..started' = 1..started \cup {started'} /\ started' \notin 1..started
        BY <1>0, <3>5
      <4>2. Browser!DriversAccounted'
        BY <1>0, <3>1, <3>5, <4>1 DEF Browser!DriversAccounted
      <4> QED BY <1>0, <3>1, <3>2, <3>3, <3>5, <4>2 DEF LinkInv
    <3> QED BY <2>4, <3>4, <3>5 DEF Browser!Connect
  <2>5. CASE Browser!Connected(c)
    <3>1. /\ doing[c] = "connecting" /\ line' = "live" /\ doing' = [doing EXCEPT ![c] = "linked"]
          /\ UNCHANGED <<driver, started, ended>>
      BY <2>5 DEF Browser!Connected, Browser!Goto
    <3>2. Elsewhere /\ driver # 0
      BY <1>0, <2>5, <3>1, GoesElsewhere DEF Browser!Connected
    <3>3. \A b \in Caller : doing'[b] # "connecting"
      BY <1>0, <3>1 DEF Places
    <3> QED BY <1>1, <3>1, <3>2, <3>3
  <2>6. CASE Browser!ConnectFails(c)
    <3>1. /\ doing[c] = "connecting" /\ line' = "none" /\ Browser!Fails(c) /\ UNCHANGED <<driver, started, ended>>
      BY <2>6 DEF Browser!ConnectFails
    <3>2. \A b \in Caller : doing'[b] # "connecting"
      BY <1>0, <3>1 DEF Places, Browser!Fails, Browser!Ends, Browser!Goto
    <3> QED BY <1>0, <1>1, <3>1, <3>2, GoesElsewhere
  <2>7. CASE Browser!MarkUsed(c)
    BY <1>0, <1>2, <2>7, GoesElsewhere DEF Browser!MarkUsed
  <2>8. CASE Browser!Lost(c) \/ Browser!Resolve(c) \/ Browser!CloseTab(c) \/ Browser!CloseEnds(c)
    BY <1>0, <1>2, <2>8, GoesElsewhere
       DEF Browser!Lost, Browser!Resolve, Browser!CloseTab, Browser!CloseEnds, Browser!connection
  <2>9. CASE Browser!UseTab(c) \/ Browser!LookAtLink(c) \/ Browser!OpenTab(c) \/ Browser!ListPages(c)
    BY <1>0, <1>2, <2>9, GoesElsewhere
       DEF Browser!UseTab, Browser!LookAtLink, Browser!OpenTab, Browser!ListPages, Browser!connection
  <2>10. CASE Browser!ListRaw(c) \/ Browser!KeepList(c) \/ Browser!Return(c)
    BY <1>0, <1>2, <2>10, GoesElsewhere
       DEF Browser!ListRaw, Browser!KeepList, Browser!Return, Browser!connection
  <2> QED BY <1>5, <2>1, <2>2, <2>3, <2>4, <2>5, <2>6, <2>7, <2>8, <2>9, <2>10 DEF Browser!Call
<1>6. CASE Browser!Wakes
  BY <1>0, <1>2, <1>6, GoesElsewhere DEF Browser!Wakes, Browser!connection
<1>7. CASE Browser!Close
  <2>1. PICK how \in {"stopped", "left"} :
          ended' = IF driver = 0 THEN ended ELSE [ended EXCEPT ![how] = @ \cup {driver}]
    BY <1>7 DEF Browser!Close
  <2>2. /\ lock = Browser!NoOne /\ line' = "none" /\ driver' = 0 /\ UNCHANGED <<started, lock>>
        /\ Browser!Goto(IdleReaper, "idle")
    BY <1>7 DEF Browser!Close
  <2>3. \A c \in Caller : doing[c] # "connecting"
    BY <1>0, <2>2 DEF BrowserConstants, Browser!NoOne
  <2>4. Elsewhere
    BY <1>0, <2>2, GoesElsewhere
  <2>5. /\ ended' \in [stopped : SUBSET Nat, left : SUBSET Nat]
        /\ ended'.stopped \cup ended'.left = ended.stopped \cup ended.left \cup ({driver} \ {0})
    <3>1. CASE driver = 0
      BY <1>0, <2>1, <3>1
    <3>2. CASE how = "stopped" /\ driver # 0
      BY <1>0, <2>1, <3>2
    <3>3. CASE how = "left" /\ driver # 0
      BY <1>0, <2>1, <3>3
    <3> QED BY <3>1, <3>2, <3>3
  <2>6. 0 \notin 1..started
    BY <1>0
  <2>7. Browser!DriversAccounted'
    BY <1>0, <2>2, <2>5, <2>6 DEF Browser!DriversAccounted
  <2> QED BY <1>0, <2>2, <2>3, <2>4, <2>5, <2>7 DEF LinkInv, Elsewhere
<1>8. CASE Browser!LinkIsCut \/ Browser!UnusedForLong \/ Browser!CooledDown \/ Browser!CacheAges
  BY <1>0, <1>2, <1>8, GoesElsewhere
     DEF Browser!LinkIsCut, Browser!UnusedForLong, Browser!CooledDown, Browser!CacheAges, Browser!connection
<1> QED BY <1>3, <1>4, <1>5, <1>6, <1>7, <1>8 DEF Browser!Next, Browser!Reap

-------------------------------------------------------------------------------
\* The browser's tabs.

Distinct(s) == s \in Seq(Tab) /\ \A i, j \in DOMAIN s : s[i] = s[j] => i = j

LEMMA NoMembers == Browser!Members(<<>>) = {} /\ Distinct(<<>>)
BY DEF Browser!Members, Distinct

LEMMA OneMoreTab ==
  ASSUME NEW s, Distinct(s), NEW t \in Tab, t \notin Browser!Members(s)
  PROVE  Distinct(Append(s, t)) /\ Browser!Members(Append(s, t)) = Browser!Members(s) \cup {t}
<1>1. s \in Seq(Tab) /\ Append(s, t) \in Seq(Tab) /\ Len(s) \in Nat /\ DOMAIN s = 1..Len(s)
      /\ DOMAIN Append(s, t) = 1..Len(s) + 1
  BY DEF Distinct
<1>2. \A i \in 1..Len(s) : Append(s, t)[i] = s[i] /\ s[i] # t
  BY <1>1 DEF Browser!Members
<1>3. Append(s, t)[Len(s) + 1] = t
  BY <1>1
<1>4. \A i \in 1..Len(s) + 1 : i \in 1..Len(s) \/ i = Len(s) + 1
  BY <1>1
<1>5. 1..Len(s) \subseteq 1..Len(s) + 1 /\ Len(s) + 1 \in 1..Len(s) + 1
  BY <1>1
<1> DEFINE u == Append(s, t)
<1> HIDE DEF u
<1>6. \A i, j \in DOMAIN u : u[i] = u[j] => i = j
  BY <1>1, <1>2, <1>3, <1>4 DEF Distinct, u
<1>7. Browser!Members(u) = Browser!Members(s) \cup {t}
  BY <1>1, <1>2, <1>3, <1>4, <1>5 DEF Browser!Members, u
<1> QED BY <1>1, <1>6, <1>7 DEF Distinct, u

LEMMA OneTabLess ==
  ASSUME NEW s, Distinct(s), NEW t
  PROVE  Distinct(Browser!Without(t, s)) /\ Browser!Members(Browser!Without(t, s)) = Browser!Members(s) \ {t}
<1>1. CASE t \notin Browser!Members(s)
  BY <1>1 DEF Browser!Without
<1>2. CASE t \in Browser!Members(s)
  <2> DEFINE i == CHOOSE i \in DOMAIN s : s[i] = t
             n == Len(s)
             l == SubSeq(s, 1, i - 1)
             m == SubSeq(s, i + 1, n)
             u == l \o m
  <2>1. s \in Seq(Tab) /\ n \in Nat /\ DOMAIN s = 1..n /\ \A j, k \in DOMAIN s : s[j] = s[k] => j = k
    BY DEF Distinct
  <2>2. i \in 1..n /\ s[i] = t
    BY <1>2, <2>1 DEF Browser!Members
  <2>3. Browser!Without(t, s) = u
    BY <1>2 DEF Browser!Without
  <2> HIDE DEF i
  <2>4. l \in Seq(Tab) /\ Len(l) = i - 1 /\ \A k \in 1..i - 1 : l[k] = s[k]
    <3>1. \A k \in 1..i - 1 : s[k] \in Tab
      BY <2>1, <2>2
    <3>2. 1 \in Int /\ i - 1 \in Int /\ (i - 1) - 1 + 1 = i - 1
      BY <2>1, <2>2
    <3> HIDE DEF n
    <3>3. /\ l \in Seq(Tab) /\ Len(l) = IF 1 <= i - 1 THEN (i - 1) - 1 + 1 ELSE 0
          /\ \A k \in 1..(i - 1) - 1 + 1 : l[k] = s[1 + k - 1]
      BY <3>1, <3>2, SubSeqProperties
    <3> HIDE DEF l
    <3> QED BY <2>1, <2>2, <3>3
  <2>5. m \in Seq(Tab) /\ Len(m) = n - i /\ \A k \in 1..n - i : m[k] = s[k + i]
    <3>1. \A k \in i + 1..n : s[k] \in Tab
      BY <2>1, <2>2
    <3>2. i + 1 \in Int /\ n \in Int
      BY <2>1, <2>2
    <3> HIDE DEF n
    <3>3. /\ m \in Seq(Tab) /\ Len(m) = IF i + 1 <= n THEN n - (i + 1) + 1 ELSE 0
          /\ \A k \in 1..n - (i + 1) + 1 : m[k] = s[i + 1 + k - 1]
      BY <3>1, <3>2, SubSeqProperties
    <3> HIDE DEF m
    <3> QED BY <2>1, <2>2, <3>3
  <2> HIDE DEF l, m, n
  <2>6. u \in Seq(Tab) /\ Len(u) = n - 1 /\ \A k \in 1..n - 1 : u[k] = IF k <= i - 1 THEN l[k] ELSE m[k - (i - 1)]
    <3>1. /\ u \in Seq(Tab) /\ Len(u) = Len(l) + Len(m)
          /\ \A k \in 1..Len(l) + Len(m) : u[k] = IF k <= Len(l) THEN l[k] ELSE m[k - Len(l)]
      BY <2>4, <2>5, ConcatProperties
    <3>2. Len(l) + Len(m) = n - 1
      BY <2>1, <2>2, <2>4, <2>5
    <3> HIDE DEF u
    <3> QED BY <2>4, <3>1, <3>2
  <2>7. \A k \in 1..n - 1 : u[k] = IF k < i THEN s[k] ELSE s[k + 1]
    <3> HIDE DEF u
    <3>1. ASSUME NEW k \in 1..n - 1, k < i PROVE u[k] = s[k]
      BY <2>1, <2>2, <2>4, <2>6, <3>1
    <3>2. ASSUME NEW k \in 1..n - 1, ~(k < i) PROVE u[k] = s[k + 1]
      <4>1. k - (i - 1) \in 1..n - i /\ ~(k <= i - 1) /\ (k - (i - 1)) + i = k + 1
        BY <2>1, <2>2, <3>2
      <4> QED BY <2>5, <2>6, <4>1
    <3> QED BY <3>1, <3>2
  <2>8. DOMAIN u = 1..n - 1
    <3> HIDE DEF u
    <3> QED BY <2>6
  <2> HIDE DEF u
  <2>9. \A j, k \in 1..n - 1 : u[j] = u[k] => j = k
    <3>1. \A k \in 1..n - 1 : \E q \in 1..n : u[k] = s[q] /\ q = IF k < i THEN k ELSE k + 1
      BY <2>1, <2>2, <2>7
    <3>2. ASSUME NEW j \in 1..n - 1, NEW k \in 1..n - 1, u[j] = u[k] PROVE j = k
      <4>1. PICK q \in 1..n : u[j] = s[q] /\ q = IF j < i THEN j ELSE j + 1
        BY <3>1
      <4>2. PICK r \in 1..n : u[k] = s[r] /\ r = IF k < i THEN k ELSE k + 1
        BY <3>1
      <4>3. q = r
        BY <2>1, <3>2, <4>1, <4>2
      <4> QED BY <2>1, <2>2, <4>1, <4>2, <4>3
    <3> QED BY <3>2
  <2>10. Browser!Members(u) \subseteq Browser!Members(s) \ {t}
    <3>1. ASSUME NEW k \in 1..n - 1 PROVE u[k] \in Browser!Members(s) /\ u[k] # t
      BY <2>1, <2>2, <2>7 DEF Browser!Members
    <3> QED BY <2>8, <3>1 DEF Browser!Members
  <2>11. Browser!Members(s) \ {t} \subseteq Browser!Members(u)
    <3>1. ASSUME NEW j \in 1..n, s[j] # t PROVE \E k \in 1..n - 1 : u[k] = s[j]
      <4>1. CASE j < i
        <5>1. j \in 1..n - 1 /\ u[j] = s[j]
          BY <2>1, <2>2, <2>7, <4>1
        <5> QED BY <5>1
      <4>2. CASE j > i
        <5>1. j - 1 \in 1..n - 1 /\ u[j - 1] = s[j]
          BY <2>1, <2>2, <2>7, <4>2
        <5> QED BY <5>1
      <4> QED BY <2>1, <2>2, <3>1, <4>1, <4>2
    <3> QED BY <2>1, <2>8, <3>1 DEF Browser!Members
  <2> QED BY <2>3, <2>6, <2>8, <2>9, <2>10, <2>11 DEF Distinct
<1> QED BY <1>1, <1>2

TabsTypes ==
  /\ Places /\ Distinct(tabs) /\ cache.tabs \in Seq(Tab) /\ closed \subseteq Tab
  /\ page \in [Caller -> Tab \cup {Browser!NoPage}] /\ list \in [Caller -> [told : Seq(Tab), before : SUBSET Tab]]
  /\ \A c \in Caller : doing[c] \in {"paged", "closed"} => page[c] \in Tab

\* A tab that was closed is not among the tabs, nor is one that is about to be.
NotOpen ==
  /\ Browser!Members(tabs) \cap closed = {}
  /\ \A c \in Caller : doing[c] = "closed" => page[c] \notin Browser!Members(tabs)

\* Lists that are kept, told and about to be kept.
Forgotten(c) ==
  /\ list[c].before \subseteq closed
  /\ Browser!Members(list[c].told) \cap list[c].before \subseteq crossed
  /\ doing[c] = "keeping" => Browser!Members(list[c].told) \cap closed \subseteq crossed

TabsInv ==
  /\ TabsTypes /\ NotOpen /\ \A c \in Caller : Forgotten(c)
  /\ Browser!Members(cache.tabs) \cap closed \subseteq crossed

LEMMA TabsInitially == ASSUME BrowserConstants, Browser!Init PROVE TabsInv
<1>1. Distinct(<<FirstTab>>)
  BY DEF Distinct, BrowserConstants
<1>2. \A c \in Caller : list[c] = [told |-> <<>>, before |-> {}] /\ doing[c] = "idle"
  BY DEF Browser!Init, Browser!NoList
<1>3. <<>> \in Seq(Tab)
  OBVIOUS
<1>4. TabsTypes
  <2>1. list \in [Caller -> [told : Seq(Tab), before : SUBSET Tab]]
    BY <1>3 DEF Browser!Init, Browser!NoList
  <2> QED BY <1>1, <1>2, <1>3, <2>1 DEF Browser!Init, TabsTypes, Places, Browser!NoPage
<1>5. \A c \in Caller : Forgotten(c)
  BY <1>2, NoMembers DEF Forgotten
<1> QED BY <1>2, <1>4, <1>5, NoMembers DEF Browser!Init, TabsInv, NotOpen

\* A call is over, or goes on to where nothing is made of a tab or a list.
Plain(a) ==
  /\ \E x : x \notin {"paged", "closed", "keeping"} /\ doing' = [doing EXCEPT ![a] = x]
  /\ UNCHANGED <<page, list>> \/ /\ page' = [page EXCEPT ![a] = Browser!NoPage]
                                 /\ list' = [list EXCEPT ![a] = Browser!NoList]

LEMMA CallsPass ==
  ASSUME NEW a
  PROVE  /\ Browser!Ends(a) => Plain(a)
         /\ Browser!Fails(a) => Plain(a)
         /\ \A x : Browser!Goto(a, x) /\ x \notin {"paged", "closed", "keeping"} /\ UNCHANGED <<page, list>> => Plain(a)
BY DEF Plain, Browser!Ends, Browser!Fails, Browser!Goto

LEMMA PlainStep ==
  ASSUME TabsInv, NEW a, UNCHANGED <<doing, page, list>> \/ Plain(a), UNCHANGED <<tabs, closed, crossed>>,
         cache'.tabs = cache.tabs \/ cache'.tabs = <<>>
  PROVE  TabsInv'
<1>1. /\ TabsTypes /\ NotOpen /\ Browser!Members(cache.tabs) \cap closed \subseteq crossed
      /\ Places /\ Distinct(tabs) /\ cache.tabs \in Seq(Tab) /\ closed \subseteq Tab
      /\ page \in [Caller -> Tab \cup {Browser!NoPage}] /\ list \in [Caller -> [told : Seq(Tab), before : SUBSET Tab]]
  BY DEF TabsInv, TabsTypes
<1>2. \A c \in Caller : /\ Forgotten(c) /\ (doing[c] \in {"paged", "closed"} => page[c] \in Tab)
                        /\ (doing[c] = "closed" => page[c] \notin Browser!Members(tabs))
  BY DEF TabsInv, TabsTypes, NotOpen
<1>3. /\ Browser!NoList \in [told : Seq(Tab), before : SUBSET Tab]
      /\ Browser!NoList.told = <<>> /\ Browser!NoList.before = {}
  BY DEF Browser!NoList
<1>4. Places'
  BY <1>1 DEF Places, Plain
<1>5. page' \in [Caller -> Tab \cup {Browser!NoPage}] /\ list' \in [Caller -> [told : Seq(Tab), before : SUBSET Tab]]
  BY <1>1, <1>3 DEF Plain
<1>6. ASSUME NEW c \in Caller
      PROVE  /\ doing'[c] \in {"paged", "closed"} => doing'[c] = doing[c] /\ page'[c] = page[c]
             /\ doing'[c] = "keeping" => doing[c] = "keeping"
             /\ list'[c] = list[c] \/ (list'[c] = Browser!NoList /\ doing'[c] # "keeping")
  <2>1. CASE UNCHANGED <<doing, page, list>>
    BY <2>1
  <2>2. CASE Plain(a)
    <3>1. PICK x : x \notin {"paged", "closed", "keeping"} /\ doing' = [doing EXCEPT ![a] = x]
      BY <2>2 DEF Plain
    <3>2. CASE c = a
      <4>1. doing'[c] = x
        BY <1>1, <3>1, <3>2 DEF Places
      <4>2. list'[c] = list[c] \/ list'[c] = Browser!NoList
        BY <1>1, <2>2, <3>2 DEF Plain
      <4> QED BY <3>1, <4>1, <4>2
    <3>3. CASE c # a
      BY <1>1, <2>2, <3>1, <3>3 DEF Plain, Places
    <3> QED BY <3>2, <3>3
  <2> QED BY <2>1, <2>2
<1>7. TabsTypes'
  <2>1. <<>> \in Seq(Tab)
    OBVIOUS
  <2>2. cache'.tabs \in Seq(Tab) /\ closed' \subseteq Tab
    BY <1>1, <2>1
  <2>3. Distinct(tabs)'
    BY <1>1 DEF Distinct
  <2>4. \A c \in Caller : doing'[c] \in {"paged", "closed"} => page'[c] \in Tab
    BY <1>2, <1>6
  <2> QED BY <1>4, <1>5, <2>2, <2>3, <2>4 DEF TabsTypes
<1>8. NotOpen'
  BY <1>1, <1>2, <1>6 DEF NotOpen
<1>9. ASSUME NEW c \in Caller PROVE Forgotten(c)'
  BY <1>2, <1>3, <1>6, NoMembers DEF Forgotten
<1> QED BY <1>1, <1>7, <1>8, <1>9, NoMembers DEF TabsInv

LEMMA Gone ==
  ASSUME Places, NEW a \in Caller, NEW x, Browser!Goto(a, x)
  PROVE  Places' /\ doing'[a] = x /\ \A c \in Caller \ {a} : doing'[c] = doing[c]
BY DEF Places, Browser!Goto

\* Who has not moved, and has the list and the tab he had, keeps what is true of him.
LEMMA OthersKeep ==
  ASSUME NEW a \in Caller, \A c \in Caller \ {a} : doing'[c] = doing[c] /\ list'[c] = list[c] /\ page'[c] = page[c],
         UNCHANGED <<closed, crossed>>
  PROVE  \A c \in Caller \ {a} : Forgotten(c) => Forgotten(c)'
BY DEF Forgotten

LEMMA ListIsTold ==
  ASSUME list \in [Caller -> [told : Seq(Tab), before : SUBSET Tab]], NEW c \in Caller, NEW s \in Seq(Tab),
         Browser!Told(c, s)
  PROVE  /\ list' \in [Caller -> [told : Seq(Tab), before : SUBSET Tab]]
         /\ \A d \in Caller \ {c} : list'[d] = list[d]
         /\ list'[c].told = s /\ list'[c].before = list[c].before
<1>1. PICK l \in [told : Seq(Tab), before : SUBSET Tab] :
           list' = [list EXCEPT ![c] = l] /\ l.told = s /\ l.before = list[c].before
  <2>1. list' = [list EXCEPT ![c] = [list[c] EXCEPT !.told = s]]
    BY DEF Browser!Told
  <2>2. [list[c] EXCEPT !.told = s] \in [told : Seq(Tab), before : SUBSET Tab]
    OBVIOUS
  <2>3. [list[c] EXCEPT !.told = s].told = s /\ [list[c] EXCEPT !.told = s].before = list[c].before
    OBVIOUS
  <2> QED BY <2>1, <2>2, <2>3
<1> QED BY <1>1

LEMMA TabsStep == ASSUME BrowserConstants, TabsInv, [Browser!Next]_Browser!vars PROVE TabsInv'
<1>1. /\ TabsTypes /\ NotOpen /\ Browser!Members(cache.tabs) \cap closed \subseteq crossed
      /\ Places /\ Distinct(tabs) /\ tabs \in Seq(Tab) /\ cache.tabs \in Seq(Tab) /\ closed \subseteq Tab
      /\ page \in [Caller -> Tab \cup {Browser!NoPage}] /\ list \in [Caller -> [told : Seq(Tab), before : SUBSET Tab]]
      /\ Browser!Members(tabs) \cap closed = {} /\ <<>> \in Seq(Tab)
  BY DEF TabsInv, TabsTypes, NotOpen, Distinct
<1>2. \A c \in Caller : /\ Forgotten(c) /\ (doing[c] \in {"paged", "closed"} => page[c] \in Tab)
                        /\ (doing[c] = "closed" => page[c] \notin Browser!Members(tabs))
  BY DEF TabsInv, TabsTypes, NotOpen
\* A list is told to a, who then keeps it or does not; tabs and pages are as they were.
<1>3. ASSUME NEW a \in Caller, NEW x \in {"told", "keeping", "listing", "asking"}, Browser!Goto(a, x),
             list' \in [Caller -> [told : Seq(Tab), before : SUBSET Tab]],
             \A c \in Caller \ {a} : list'[c] = list[c], UNCHANGED <<tabs, page, closed, crossed>>,
             cache'.tabs \in Seq(Tab), Browser!Members(cache'.tabs) \cap closed \subseteq crossed,
             list'[a].before \subseteq closed, Browser!Members(list'[a].told) \cap list'[a].before \subseteq crossed,
             x = "keeping" => Browser!Members(list'[a].told) \cap closed \subseteq crossed
      PROVE  TabsInv'
  <2>1. Places' /\ doing'[a] = x /\ \A c \in Caller \ {a} : doing'[c] = doing[c]
    BY <1>1, <1>3, Gone
  <2>2. Forgotten(a)'
    BY <1>3, <2>1 DEF Forgotten
  <2>3. \A c \in Caller : Forgotten(c)'
    BY <1>2, <1>3, <2>1, <2>2, OthersKeep
  <2>4. Distinct(tabs)'
    BY <1>1, <1>3 DEF Distinct
  <2>5. \A c \in Caller : doing'[c] \in {"paged", "closed"} => doing'[c] = doing[c]
    BY <1>3, <2>1
  <2>6. TabsTypes'
    BY <1>1, <1>2, <1>3, <2>1, <2>4, <2>5 DEF TabsTypes
  <2>7. NotOpen'
    BY <1>1, <1>2, <1>3, <2>5 DEF NotOpen
  <2> QED BY <1>3, <2>3, <2>6, <2>7 DEF TabsInv
<1>4. CASE UNCHANGED Browser!vars
  BY <1>4, PlainStep DEF Browser!vars, Browser!closing
<1>5. ASSUME NEW c \in Caller, Browser!Begin(c) PROVE TabsInv'
  <2>1. PICK j \in Browser!Job :
             /\ list' = [list EXCEPT ![c] = [told |-> <<>>, before |-> IF j.do = "list" THEN closed ELSE {}]]
             /\ Browser!Goto(c, IF j.do = "list" THEN "listing" ELSE "asking")
    BY <1>5 DEF Browser!Begin
  <2>2. PICK x \in {"listing", "asking"} : Browser!Goto(c, x)
    BY <2>1
  <2>3. PICK b \in SUBSET closed : list' = [list EXCEPT ![c] = [told |-> <<>>, before |-> b]]
    BY <2>1
  <2>4. [told |-> <<>>, before |-> b] \in [told : Seq(Tab), before : SUBSET Tab]
    BY <1>1, <2>3
  <2>5. /\ list' \in [Caller -> [told : Seq(Tab), before : SUBSET Tab]]
        /\ \A d \in Caller \ {c} : list'[d] = list[d] /\ list'[c] = [told |-> <<>>, before |-> b]
    BY <1>1, <2>3, <2>4
  <2>6. list'[c].told = <<>> /\ list'[c].before = b
    BY <1>1, <2>3
  <2> QED BY <1>1, <1>3, <1>5, <2>2, <2>3, <2>5, <2>6, NoMembers DEF Browser!Begin, Browser!closing
<1>6. ASSUME NEW c \in Caller, Browser!ListFromCache(c) PROVE TabsInv'
  <2>1. /\ Browser!Told(c, cache.tabs) /\ Browser!Goto(c, "told")
        /\ UNCHANGED <<tabs, page, cache, closed, crossed>>
    BY <1>6 DEF Browser!ListFromCache, Browser!closing
  <2>2. /\ list' \in [Caller -> [told : Seq(Tab), before : SUBSET Tab]]
        /\ \A d \in Caller \ {c} : list'[d] = list[d]
        /\ list'[c].told = cache.tabs /\ list'[c].before = list[c].before
    BY <1>1, <2>1, ListIsTold
  <2>3. list[c].before \subseteq closed
    BY <1>2 DEF Forgotten
  <2> QED BY <1>1, <1>3, <2>1, <2>2, <2>3
\* The tabs are told, which none of the closed ones is among.
<1>7. ASSUME NEW c \in Caller, Browser!Told(c, tabs), Browser!Goto(c, "keeping"),
             UNCHANGED <<tabs, page, cache, closed, crossed>>
      PROVE  TabsInv'
  <2>2. /\ list' \in [Caller -> [told : Seq(Tab), before : SUBSET Tab]]
        /\ \A d \in Caller \ {c} : list'[d] = list[d]
        /\ list'[c].told = tabs /\ list'[c].before = list[c].before
    BY <1>1, <1>7, ListIsTold
  <2>3. list[c].before \subseteq closed
    BY <1>2 DEF Forgotten
  <2> QED BY <1>1, <1>3, <1>7, <2>2, <2>3
<1>8. ASSUME NEW c \in Caller, Browser!ListPages(c) PROVE TabsInv'
  BY <1>7, <1>8 DEF Browser!ListPages, Browser!closing
<1>9. ASSUME NEW c \in Caller, Browser!ListRaw(c) PROVE TabsInv'
  <2>1. CASE Browser!Told(c, tabs) /\ Browser!Goto(c, "keeping")
    BY <1>7, <1>9, <2>1 DEF Browser!ListRaw, Browser!closing
  <2>2. CASE Browser!Goto(c, "told") /\ UNCHANGED list
    BY <1>9, <2>2, CallsPass, PlainStep DEF Browser!ListRaw, Browser!closing
  <2> QED BY <1>9, <2>1, <2>2 DEF Browser!ListRaw
<1>10. ASSUME NEW c \in Caller, Browser!KeepList(c) PROVE TabsInv'
  <2>1. /\ doing[c] = "keeping" /\ cache'.tabs = list[c].told /\ Browser!Goto(c, "told")
        /\ UNCHANGED <<tabs, page, list, closed, crossed>>
    BY <1>10 DEF Browser!KeepList, Browser!closing
  <2>2. /\ list[c].before \subseteq closed /\ Browser!Members(list[c].told) \cap list[c].before \subseteq crossed
        /\ Browser!Members(list[c].told) \cap closed \subseteq crossed
    BY <1>2, <2>1 DEF Forgotten
  <2>3. list[c].told \in Seq(Tab)
    BY <1>1
  <2> QED BY <1>1, <1>3, <2>1, <2>2, <2>3
<1>11. ASSUME NEW c \in Caller, Browser!Resolve(c) PROVE TabsInv'
  <2>1. UNCHANGED <<tabs, cache, closed, crossed>>
    BY <1>11 DEF Browser!Resolve, Browser!closing
  <2>2. CASE Browser!Ends(c)
    BY <2>1, <2>2, CallsPass, PlainStep
  <2>3. CASE tabs # <<>> /\ Browser!Goto(c, "paged") /\ UNCHANGED list
             /\ page' = [page EXCEPT ![c] = IF use[c].tab \in Browser!Members(tabs) THEN use[c].tab ELSE tabs[1]]
    <3>1. tabs[1] \in Tab /\ Browser!Members(tabs) \subseteq Tab
      BY <1>1, <2>3 DEF Browser!Members
    <3>2. PICK t \in Tab : page' = [page EXCEPT ![c] = t]
      BY <2>3, <3>1
    <3>3. Places' /\ doing'[c] = "paged" /\ \A d \in Caller \ {c} : doing'[d] = doing[d]
      BY <1>1, <2>3, Gone
    <3>4. page' \in [Caller -> Tab \cup {Browser!NoPage}] /\ page'[c] = t /\ \A d \in Caller \ {c} : page'[d] = page[d]
      BY <1>1, <3>2
    <3>5. Forgotten(c)'
      BY <1>2, <2>1, <2>3, <3>3 DEF Forgotten
    <3>6. \A d \in Caller : Forgotten(d)'
      BY <1>2, <2>1, <2>3, <3>3, <3>4, <3>5, OthersKeep
    <3>7. Distinct(tabs)'
      BY <1>1, <2>1 DEF Distinct
    <3>8. TabsTypes'
      BY <1>1, <1>2, <2>1, <2>3, <3>3, <3>4, <3>7 DEF TabsTypes
    <3>9. NotOpen'
      BY <1>1, <1>2, <2>1, <3>3, <3>4 DEF NotOpen
    <3> QED BY <1>1, <2>1, <3>6, <3>8, <3>9 DEF TabsInv
  <2> QED BY <1>11, <2>2, <2>3 DEF Browser!Resolve
<1>12. ASSUME NEW c \in Caller, Browser!CloseTab(c) PROVE TabsInv'
  <2>1. /\ doing[c] = "paged" /\ tabs' = Browser!Without(page[c], tabs) /\ Browser!Goto(c, "closed")
        /\ UNCHANGED <<page, list, cache, closed, crossed>>
    BY <1>12 DEF Browser!CloseTab, Browser!closing
  <2>2. Distinct(tabs)' /\ Browser!Members(tabs') = Browser!Members(tabs) \ {page[c]}
    BY <1>1, <2>1, OneTabLess
  <2>3. Places' /\ doing'[c] = "closed" /\ \A d \in Caller \ {c} : doing'[d] = doing[d]
    BY <1>1, <2>1, Gone
  <2>4. Forgotten(c)'
    BY <1>2, <2>1, <2>3 DEF Forgotten
  <2>5. \A d \in Caller : Forgotten(d)'
    BY <1>2, <2>1, <2>3, <2>4, OthersKeep
  <2>6. TabsTypes'
    BY <1>1, <1>2, <2>1, <2>2, <2>3 DEF TabsTypes
  <2>7. NotOpen'
    BY <1>1, <1>2, <2>1, <2>2, <2>3 DEF NotOpen
  <2> QED BY <1>1, <2>1, <2>5, <2>6, <2>7 DEF TabsInv
<1>13. ASSUME NEW c \in Caller, Browser!CloseEnds(c) PROVE TabsInv'
  <2>1. /\ doing[c] = "closed" /\ Browser!Ends(c) /\ cache'.tabs = <<>> /\ UNCHANGED tabs
        /\ closed' = closed \cup {page[c]} /\ Browser!Across(page[c])
    BY <1>13 DEF Browser!CloseEnds, Browser!NoCache
  <2>2. /\ doing' = [doing EXCEPT ![c] = "idle"] /\ page' = [page EXCEPT ![c] = Browser!NoPage]
        /\ list' = [list EXCEPT ![c] = Browser!NoList]
    BY <2>1 DEF Browser!Ends, Browser!Goto
  <2>3. Places' /\ doing'[c] = "idle" /\ \A d \in Caller \ {c} : doing'[d] = doing[d]
    BY <1>1, <2>2 DEF Places
  <2>4. /\ Browser!NoList \in [told : Seq(Tab), before : SUBSET Tab]
        /\ Browser!NoList.told = <<>> /\ Browser!NoList.before = {}
    BY <1>1 DEF Browser!NoList
  <2>5. /\ page' \in [Caller -> Tab \cup {Browser!NoPage}] /\ list' \in [Caller -> [told : Seq(Tab), before : SUBSET Tab]]
        /\ list'[c] = Browser!NoList /\ \A d \in Caller \ {c} : list'[d] = list[d] /\ page'[d] = page[d]
    BY <1>1, <2>2, <2>4
  <2>6. page[c] \in Tab /\ page[c] \notin Browser!Members(tabs)
    BY <1>2, <2>1
  <2>7. crossed \subseteq crossed' /\ ((\E d \in Caller : doing[d] = "keeping") => page[c] \in crossed')
    BY <2>1 DEF Browser!Across
  <2>8. Forgotten(c)'
    BY <2>3, <2>4, <2>5, NoMembers DEF Forgotten
  <2>9. ASSUME NEW d \in Caller \ {c} PROVE Forgotten(d)'
    BY <1>2, <2>1, <2>3, <2>5, <2>7, <2>9 DEF Forgotten
  <2>10. TabsTypes'
    <3>1. Distinct(tabs)'
      BY <1>1, <2>1 DEF Distinct
    <3>2. cache'.tabs \in Seq(Tab) /\ closed' \subseteq Tab
      BY <1>1, <2>1, <2>6
    <3>3. \A d \in Caller : doing'[d] \in {"paged", "closed"} => page'[d] \in Tab
      BY <1>2, <2>3, <2>5
    <3> QED BY <2>3, <2>5, <3>1, <3>2, <3>3 DEF TabsTypes
  <2>11. NotOpen'
    BY <1>1, <1>2, <2>1, <2>3, <2>5, <2>6 DEF NotOpen
  <2> QED BY <2>1, <2>8, <2>9, <2>10, <2>11, NoMembers DEF TabsInv
<1>14. ASSUME NEW c \in Caller, Browser!OpenTab(c) PROVE TabsInv'
  <2>1. PICK t \in Tab \ (Browser!Members(tabs) \cup closed \cup Browser!Leaving) : tabs' = Append(tabs, t)
    BY <1>14 DEF Browser!OpenTab
  <2>2. /\ Browser!Ends(c) /\ UNCHANGED <<closed, crossed>>
        /\ cache'.tabs = cache.tabs \/ cache'.tabs = <<>>
    BY <1>14 DEF Browser!OpenTab, Browser!NoCache, Browser!closing
  <2>3. Distinct(tabs)' /\ Browser!Members(tabs') = Browser!Members(tabs) \cup {t}
    BY <1>1, <2>1, OneMoreTab
  <2>4. /\ doing' = [doing EXCEPT ![c] = "idle"] /\ page' = [page EXCEPT ![c] = Browser!NoPage]
        /\ list' = [list EXCEPT ![c] = Browser!NoList]
    BY <2>2 DEF Browser!Ends, Browser!Goto
  <2>5. Places' /\ doing'[c] = "idle" /\ \A d \in Caller \ {c} : doing'[d] = doing[d]
    BY <1>1, <2>4 DEF Places
  <2>6. /\ Browser!NoList \in [told : Seq(Tab), before : SUBSET Tab]
        /\ Browser!NoList.told = <<>> /\ Browser!NoList.before = {}
    BY <1>1 DEF Browser!NoList
  <2>7. /\ page' \in [Caller -> Tab \cup {Browser!NoPage}] /\ list' \in [Caller -> [told : Seq(Tab), before : SUBSET Tab]]
        /\ list'[c] = Browser!NoList /\ \A d \in Caller \ {c} : list'[d] = list[d] /\ page'[d] = page[d]
    BY <1>1, <2>4, <2>6
  <2>8. Forgotten(c)'
    BY <2>5, <2>6, <2>7, NoMembers DEF Forgotten
  <2>9. \A d \in Caller : Forgotten(d)'
    BY <1>2, <2>2, <2>5, <2>7, <2>8, OthersKeep
  <2>10. \A d \in Caller : doing'[d] \in {"paged", "closed"} => doing'[d] = doing[d] /\ page'[d] = page[d]
    BY <2>5, <2>7
  <2>11. cache'.tabs \in Seq(Tab) /\ closed' \subseteq Tab
    BY <1>1, <2>2
  <2>12. TabsTypes'
    BY <1>2, <2>3, <2>5, <2>7, <2>10, <2>11 DEF TabsTypes
  <2>13. \A d \in Caller : doing[d] = "closed" => page[d] # t
    BY <2>1 DEF Browser!Leaving
  <2>14. NotOpen'
    BY <1>1, <1>2, <2>1, <2>2, <2>3, <2>10, <2>13 DEF NotOpen
  <2>15. Browser!Members(cache'.tabs) \cap closed' \subseteq crossed'
    BY <1>1, <2>2, NoMembers
  <2> QED BY <2>9, <2>12, <2>14, <2>15 DEF TabsInv
<1>15. ASSUME NEW c \in Caller, Browser!Call(c) PROVE TabsInv'
  <2>1. CASE Browser!ListAnew(c) \/ Browser!Refused(c) \/ Browser!Passes(c) \/ Browser!Reuse(c)
    BY <2>1, CallsPass, PlainStep
       DEF Browser!ListAnew, Browser!Refused, Browser!Passes, Browser!Reuse, Browser!closing
  <2>2. CASE Browser!StartFails(c) \/ Browser!Connect(c) \/ Browser!Connected(c) \/ Browser!ConnectFails(c)
    BY <2>2, CallsPass, PlainStep
       DEF Browser!StartFails, Browser!Connect, Browser!Connected, Browser!ConnectFails, Browser!closing
  <2>3. CASE Browser!MarkUsed(c) \/ Browser!Lost(c) \/ Browser!LookAtLink(c) \/ Browser!Return(c)
    BY <2>3, CallsPass, PlainStep
       DEF Browser!MarkUsed, Browser!Lost, Browser!LookAtLink, Browser!Return, Browser!closing
  <2>4. CASE Browser!UseTab(c)
    BY <2>4, CallsPass, PlainStep DEF Browser!UseTab, Browser!NoCache, Browser!closing
  <2> QED BY <1>6, <1>8, <1>9, <1>10, <1>11, <1>12, <1>13, <1>14, <1>15, <2>1, <2>2, <2>3, <2>4 DEF Browser!Call
<1>16. CASE Browser!Reap
  <2>1. PICK x \in {"closing", "idle"} : Browser!Goto(IdleReaper, x)
    BY <1>16 DEF Browser!Reap, Browser!Wakes, Browser!Close
  <2>2. UNCHANGED <<tabs, page, list, closed, crossed>>
    BY <1>16 DEF Browser!Reap, Browser!Wakes, Browser!Close, Browser!closing
  <2>3. cache' = cache \/ cache' = Browser!NoCache
    BY <1>16 DEF Browser!Reap, Browser!Wakes, Browser!Close
  <2>4. Browser!NoCache.tabs = <<>>
    BY DEF Browser!NoCache
  <2> QED BY <2>1, <2>2, <2>3, <2>4, CallsPass, PlainStep
<1>17. CASE Browser!LinkIsCut \/ Browser!UnusedForLong \/ Browser!CooledDown \/ Browser!CacheAges
  <2>1. UNCHANGED <<doing, page, list, tabs, closed, crossed>>
    BY <1>17 DEF Browser!LinkIsCut, Browser!UnusedForLong, Browser!CooledDown, Browser!CacheAges, Browser!closing
  <2>2. cache' = cache \/ cache' = [tabs |-> cache.tabs, young |-> FALSE]
    BY <1>17 DEF Browser!LinkIsCut, Browser!UnusedForLong, Browser!CooledDown, Browser!CacheAges
  <2>3. cache'.tabs = cache.tabs
    BY <2>2
  <2> QED BY <2>1, <2>3, PlainStep
<1> QED BY <1>4, <1>5, <1>15, <1>16, <1>17 DEF Browser!Next

-------------------------------------------------------------------------------
\* The windows.

LEMMA DeskAlways == ASSUME DeskConstants PROVE Desk!Spec => [](Desk!CardsFollowAlerts /\ Desk!NoCommandLost)
<1>1. Desk!Init => DeskInv
  BY DeskInitially
<1>2. DeskInv /\ [Desk!Next]_Desk!vars => DeskInv'
  BY DeskStep
<1>3. DeskInv => Desk!CardsFollowAlerts /\ Desk!NoCommandLost
  BY DEF DeskInv, DeskTypes, StateFile, Tried, Desk!NoCommandLost
<1> QED BY <1>1, <1>2, <1>3, PTL DEF Desk!Spec

LEMMA BrowserAlways ==
  ASSUME BrowserConstants PROVE Browser!Spec => [](Browser!DriversAccounted /\ Browser!ListsForgetClosed)
<1>1. Browser!Init => LinkInv /\ TabsInv
  BY LinkInitially, TabsInitially
<1>2. LinkInv /\ TabsInv /\ [Browser!Next]_Browser!vars => (LinkInv /\ TabsInv)'
  BY LinkStep, TabsStep
<1>3. LinkInv /\ TabsInv => Browser!DriversAccounted /\ Browser!ListsForgetClosed
  BY DEF LinkInv, TabsInv, Forgotten, Browser!ListsForgetClosed
<1> QED BY <1>1, <1>2, <1>3, PTL DEF Browser!Spec

\* Whichever part runs, either window takes a step of its own or none.
LEMMA WindowsStep ==
  [PartsNext]_<<part, sessionVars, life, queueVars, copying, sorting, proxyVars, clientVars, reading, watching,
                browsing>>
    => [Desk!Next]_Desk!vars /\ [Browser!Next]_Browser!vars
<1>1. UNCHANGED watching => UNCHANGED Desk!vars
  BY DEF watching, Desk!vars, Desk!window, Desk!helper
<1>2. UNCHANGED browsing => UNCHANGED Browser!vars
  BY DEF browsing, Browser!vars, Browser!connection, Browser!closing
<1> QED BY <1>1, <1>2 DEF PartsNext, Only

\* The tracker's window has a card for every alert of its summary and for no other, shows
\* no alert its user has sent away unless its filter fails, and no more than fit; the
\* helper passes over no command, though the window writes back how far it was
\* (_apply_filters; the state file). Every driver the browser's lane has started is in use,
\* ended or given up, and no list shows a tab that was closed before the list was asked
\* for, but for those closed across the making of a list (_get_browser, close, list_tabs).
THEOREM WindowsAlwaysSound ==
  ASSUME DeskConstants, BrowserConstants PROVE PartsSpec => []WindowsAreSound
<1>1. PartsInit => Desk!Init /\ Browser!Init
  BY DEF PartsInit
<1>2. PartsSpec => Desk!Spec /\ Browser!Spec
  BY <1>1, WindowsStep, PTL DEF PartsSpec, Desk!Spec, Browser!Spec
<1>3. Desk!CardsFollowAlerts /\ Desk!NoCommandLost /\ Browser!DriversAccounted /\ Browser!ListsForgetClosed
        => WindowsAreSound
  BY DEF WindowsAreSound
<1> QED BY <1>2, <1>3, DeskAlways, BrowserAlways, PTL
===============================================================================
