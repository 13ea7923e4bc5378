------------------------------ MODULE StdioProxy -------------------------------
(***************************************************************************)
(* The two proxies that start a server for one call and talk to it over    *)
(* its standard streams: lib/firecrawl_proxy.py, which waits a bounded     *)
(* time for a line, and lib/lazy_mcp_proxy.py, which waits for as long as  *)
(* it takes. Neither looks at the id of what it reads: the line that comes *)
(* next is the answer. What the proxies say of themselves (initialize,     *)
(* tools/list) is not modelled, nor a server that closes its input and     *)
(* lives on: closing the pipe to it may raise, and then it is not ended.   *)
(***************************************************************************)
EXTENDS Naturals, Sequences, FiniteSets

CONSTANTS
  MaxCalls, MaxNoise   \* bounds on calls of the client and on stray lines of one server

VARIABLES
  kind,                \* which of the two
  proxy,               \* what it waits for
  child,               \* the server: "none", "up" or "gone"
  greeted,             \* whether the server has asked to initialize the proxy
  requests,            \* requests the server holds
  pipe, buffer,        \* lines it wrote: not taken in, and taken in but not read
  noise,               \* lines that answer nothing
  replies,             \* what the client was told, one for every call
  left                 \* servers that were not shut down

serverState == <<child, greeted, requests, noise>>
proxyVars == <<kind, proxy, pipe, buffer, serverState, replies, left>>

Asked == {"initialize", "list", "call"}

\* A line answers a request, or none: a request to initialize the proxy, a
\* notification, text that does not parse.
Answer(result, r) == [what |-> IF result THEN "result" ELSE "error", of |-> r]
Stray(w) == [what |-> w, of |-> "nothing"]
Line == {Answer(b, r) : b \in BOOLEAN, r \in Asked} \cup {Stray(w) : w \in {"hello", "note", "odd"}}

\* What reading yields when time is up or the stream has ended.
Nothing == Stray("none")

ProxyInit ==
  /\ kind \in {"firecrawl", "lazy"} /\ proxy = "idle"
  /\ child = "none" /\ greeted = FALSE /\ requests = <<>> /\ noise = 0
  /\ pipe = <<>> /\ buffer = <<>> /\ replies = <<>> /\ left = 0

-------------------------------------------------------------------------------
\* The server answers in order, writes what it likes between, and may end.

Says(l) == pipe' = Append(pipe, l) /\ UNCHANGED <<kind, proxy, child, buffer, replies, left>>

AnswerNext ==
  /\ child = "up" /\ requests # <<>>
  /\ \E b \in BOOLEAN : Says(Answer(b, Head(requests)))
  /\ requests' = Tail(requests) /\ UNCHANGED <<greeted, noise>>

\* A server that asks after the first line was due is out of step.
Greet ==
  /\ child = "up" /\ ~greeted /\ Says(Stray("hello"))
  /\ greeted' = TRUE /\ noise' = IF proxy = "hello" THEN noise ELSE noise + 1
  /\ UNCHANGED requests

Chatter ==
  /\ child = "up" /\ noise < MaxNoise
  /\ \E w \in {"note", "odd"} : Says(Stray(w))
  /\ noise' = noise + 1 /\ UNCHANGED <<greeted, requests>>

ServerEnds ==
  /\ child = "up" /\ child' = "gone"
  /\ UNCHANGED <<kind, proxy, pipe, buffer, greeted, requests, noise, replies, left>>

-------------------------------------------------------------------------------
\* The proxy. Reading a line takes in all there is; select sees only what has not
\* been taken in, so the time may be up while lines wait in the buffer.

Reads(l) ==
  \/ /\ buffer # <<>> /\ (kind = "lazy" \/ pipe # <<>> \/ child = "gone")
     /\ l = Head(buffer) /\ buffer' = Tail(buffer) /\ UNCHANGED pipe
  \/ /\ buffer = <<>> /\ pipe # <<>>
     /\ l = Head(pipe) /\ buffer' = Tail(pipe) /\ pipe' = <<>>
  \/ /\ buffer = <<>> /\ pipe = <<>> /\ child = "gone"
     /\ l = Nothing /\ UNCHANGED <<pipe, buffer>>
  \/ /\ kind = "firecrawl" /\ pipe = <<>> /\ child = "up"
     /\ l = Nothing /\ UNCHANGED <<pipe, buffer>>

\* The call is over: the client has its reply, the server has been told to end and
\* then made to, unless the call failed before the proxy had it in hand.
Finish(ok, l, shut) ==
  /\ replies' = Append(replies, [ok |-> ok, line |-> l, quiet |-> noise = 0])
  /\ left' = IF child = "up" /\ ~shut THEN left + 1 ELSE left
  /\ proxy' = "idle" /\ child' = "none" /\ greeted' = FALSE /\ noise' = 0
  /\ requests' = <<>>

\* Lines that are not read any more are forgotten at the next start.
Fail(shut) == Finish(FALSE, Nothing, shut)

\* The lazy proxy first reads 400 characters of the server's complaints, or all.
Complain(s) == proxy' = s /\ UNCHANGED <<serverState, replies, left>>

AskServer(r, next) ==
  IF child = "gone" THEN Fail(kind = "firecrawl")
  ELSE proxy' = next /\ requests' = Append(requests, r) /\ UNCHANGED <<child, greeted, noise, replies, left>>

\* A line may be JSON and no object: what looks into it raises.
Raises(l) == l.what = "odd" /\ Fail(kind = "firecrawl" \/ proxy = "call")

\* Another tool than the proxy's, a method it does not know, no key or no
\* configuration, a command that cannot be started.
Refuse ==
  /\ proxy = "idle" /\ Len(replies) < MaxCalls
  /\ replies' = Append(replies, [ok |-> FALSE, line |-> Nothing, quiet |-> TRUE])
  /\ UNCHANGED <<kind, proxy, serverState, pipe, buffer, left>>

StartServer ==
  /\ proxy = "idle" /\ Len(replies) < MaxCalls
  /\ proxy' = "hello" /\ child' = "up" /\ pipe' = <<>> /\ buffer' = <<>>
  /\ UNCHANGED <<kind, greeted, requests, noise, replies, left>>

\* A server that asks first is answered; another may stay silent.
Hello ==
  /\ proxy = "hello" /\ UNCHANGED kind
  /\ \E l \in Line \cup {Nothing} : Reads(l) /\ (AskServer("initialize", "initialize") \/ Raises(l))

Initialized ==
  /\ proxy = "initialize" /\ UNCHANGED kind
  /\ \E l \in Line \cup {Nothing} :
       /\ Reads(l)
       /\ \/ Raises(l)
          \/ CASE l.what = "result" -> AskServer("list", "list")
               [] kind = "firecrawl" /\ l.what # "result" -> Fail(TRUE)
               [] OTHER -> Complain("unready")

\* Mutated form: the firecrawl proxy does not look at the answer to tools/list.
Listed_Any ==
  /\ proxy = "list" /\ UNCHANGED kind
  /\ \E l \in Line \cup {Nothing} : Reads(l) /\ AskServer("call", "call")

\* The lazy proxy only counts the tools, and is content with none.
Listed ==
  /\ proxy = "list" /\ UNCHANGED kind
  /\ \E l \in Line \cup {Nothing} :
       /\ Reads(l)
       /\ \/ Raises(l)
          \/ IF kind = "lazy" \/ l.what = "result" THEN AskServer("call", "call") ELSE Fail(TRUE)

\* What has neither a result nor an error counts as an empty result.
Called ==
  /\ proxy = "call" /\ UNCHANGED kind
  /\ \E l \in Line \cup {Nothing} :
       /\ Reads(l)
       /\ \/ Raises(l)
          \/ CASE l.what \in {"result", "note", "hello"} -> Finish(TRUE, l, TRUE)
               [] l.what = "error" -> Finish(FALSE, l, TRUE)
               [] kind = "firecrawl" /\ l.what \in {"odd", "none"} -> Fail(TRUE)
               [] OTHER -> Complain("mute")

\* The server has ended or complained at length; before the handshake was over the
\* lazy proxy has no hold of it.
Complained ==
  /\ proxy \in {"unready", "mute"} /\ Fail(proxy = "mute")
  /\ UNCHANGED <<kind, pipe, buffer>>

-------------------------------------------------------------------------------
ProxyNext ==
  \/ AnswerNext \/ Greet \/ Chatter \/ ServerEnds
  \/ Refuse \/ StartServer \/ Hello \/ Initialized \/ Listed \/ Called \/ Complained

ProxySpec == ProxyInit /\ [][ProxyNext]_proxyVars

-------------------------------------------------------------------------------
ProxyTypeOK ==
  /\ kind \in {"firecrawl", "lazy"} /\ child \in {"none", "up", "gone"}
  /\ proxy \in {"idle", "hello", "initialize", "list", "call", "unready", "mute"}
  /\ requests \in Seq(Asked) /\ noise \in 0..MaxNoise + 1 /\ left \in Nat /\ greeted \in BOOLEAN
  /\ {pipe, buffer} \subseteq Seq(Line)
  /\ replies \in Seq([ok : BOOLEAN, line : Line \cup {Nothing}, quiet : BOOLEAN])

\* A result that is passed on is the server's answer to that very call, however
\* late the server is, unless the server wrote stray lines; and with stray lines
\* too the firecrawl proxy never passes on the answer to another of its requests.
RelayedTruly ==
  \A i \in DOMAIN replies : replies[i].ok =>
    /\ replies[i].quiet => replies[i].line = Answer(TRUE, "call")
    /\ kind = "firecrawl" => replies[i].line.of \in {"call", "nothing"}

\* No server outlives its call, but one whose handshake with the lazy proxy failed.
ChildrenEnd ==
  /\ proxy = "idle" <=> child = "none"
  /\ left <= IF kind = "firecrawl" THEN 0 ELSE Cardinality({i \in DOMAIN replies : ~replies[i].ok})
===============================================================================
