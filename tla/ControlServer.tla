----------------------------- MODULE ControlServer ----------------------------
(***************************************************************************)
(* The control socket of the daemon (lib/control.py, serve and _serve_one):*)
(* one thread accepts connections and hands each to a worker thread of its *)
(* own if one of a bounded number of slots is free, and sheds it if not. A *)
(* worker reads one request within a deadline, answers it, closes the      *)
(* connection and gives the slot back. Clients send what they like, slowly,*)
(* only in part or not at all, and may hang up at any time.                *)
(***************************************************************************)
EXTENDS Integers, Sequences, FiniteSets

CONSTANTS
  Conn,                \* connections, each used once
  NoConn,
  Slots,               \* MAX_CONCURRENT_CONNECTIONS
  Backlog,             \* srv.listen(8)
  Tcp,                 \* the transport: TCP, or the unix socket
  MaxStartFailures     \* bound on threads that cannot be started

ASSUME ControlConstants ==
  /\ IsFiniteSet(Conn) /\ NoConn \notin Conn
  /\ Slots \in Nat \ {0} /\ Backlog \in Nat
  /\ Tcp \in BOOLEAN /\ MaxStartFailures \in Nat

VARIABLES
  queue,               \* connections the kernel holds for accept()
  accepting,           \* the connection the accepting thread works on
  phase,               \* where every connection is
  free,                \* the value of _WORKER_SLOTS
  sent,                \* what has arrived from the client of a connection
  gone,                \* the clients that hung up
  reply,               \* the outcome of the request
  handled,             \* the connections whose request reached the handler
  failures             \* threads that were not started

client == <<sent, gone>>
vars == <<queue, accepting, phase, free, client, reply, handled, failures>>

\* A request that is a JSON object, as the rules of TCP see it: with the token
\* and a command that is not identity-sensitive, with it and one that is, and
\* without it.
Request == {"plain", "sensitive", "no_token"}

\* What has arrived of a request: nothing yet, a part of the line, something
\* that is no request (no JSON object, or more than the cap), or all of it.
Arrived == {"nothing", "part", "garbage"} \cup Request

Phase == {"new", "queued", "accepted", "shedding", "starting", "reading",
          "handling", "replying", "closed"}

\* The phases in which a connection occupies a slot.
Working == {"starting", "reading", "handling", "replying"}

Busy == {c \in Conn : phase[c] \in Working}

Enter(c, ph) == phase' = [phase EXCEPT ![c] = ph]

Init ==
  /\ queue = <<>> /\ accepting = NoConn
  /\ phase = [c \in Conn |-> "new"]
  /\ free = Slots
  /\ sent = [c \in Conn |-> "nothing"]
  /\ gone = {}
  /\ reply = [c \in Conn |-> "none"]
  /\ handled = {}
  /\ failures = 0

-------------------------------------------------------------------------------
\* Clients.

Connect(c) ==
  /\ phase[c] = "new"
  /\ Len(queue) < Backlog
  /\ queue' = Append(queue, c)
  /\ Enter(c, "queued")
  /\ UNCHANGED <<accepting, free, client, reply, handled, failures>>

\* More bytes arrive: a part, the rest of the line, or more than the cap.
Send(c, more) ==
  /\ phase[c] \notin {"new", "closed"}
  /\ c \notin gone
  /\ sent[c] \in {"nothing", "part"} /\ sent[c] # more
  /\ sent' = [sent EXCEPT ![c] = more]
  /\ UNCHANGED <<queue, accepting, phase, free, gone, reply, handled, failures>>

HangUp(c) ==
  /\ phase[c] \notin {"new", "closed"}
  /\ c \notin gone
  /\ gone' = gone \cup {c}
  /\ UNCHANGED <<queue, accepting, phase, free, sent, reply, handled, failures>>

-------------------------------------------------------------------------------
\* serve()

Accept ==
  /\ accepting = NoConn
  /\ queue # <<>>
  /\ accepting' = Head(queue)
  /\ queue' = Tail(queue)
  /\ Enter(Head(queue), "accepted")
  /\ UNCHANGED <<free, client, reply, handled, failures>>

\* _WORKER_SLOTS.acquire(blocking=False)
TakeSlot ==
  /\ accepting # NoConn
  /\ phase[accepting] = "accepted"
  /\ \/ free > 0 /\ free' = free - 1 /\ Enter(accepting, "starting")
     \/ free = 0 /\ free' = free /\ Enter(accepting, "shedding")
  /\ UNCHANGED <<queue, accepting, client, reply, handled, failures>>

\* "control busy", if the client is still there to read it.
Shed ==
  /\ accepting # NoConn
  /\ phase[accepting] = "shedding"
  /\ reply' = IF accepting \in gone THEN reply ELSE [reply EXCEPT ![accepting] = "busy"]
  /\ Enter(accepting, "closed")
  /\ accepting' = NoConn
  /\ UNCHANGED <<queue, free, client, handled, failures>>

StartWorker ==
  /\ accepting # NoConn
  /\ phase[accepting] = "starting"
  /\ Enter(accepting, "reading")
  /\ accepting' = NoConn
  /\ UNCHANGED <<queue, free, client, reply, handled, failures>>

StartFails_SlotKept ==                                   \* mutated form
  /\ accepting # NoConn /\ phase[accepting] = "starting"
  /\ failures < MaxStartFailures /\ failures' = failures + 1
  /\ Enter(accepting, "closed") /\ accepting' = NoConn
  /\ UNCHANGED <<queue, free, client, reply, handled>>

\* Thread.start() raises: the slot is handed back and the connection closed.
StartFails ==
  /\ accepting # NoConn
  /\ phase[accepting] = "starting"
  /\ failures < MaxStartFailures
  /\ failures' = failures + 1
  /\ free' = free + 1
  /\ Enter(accepting, "closed")
  /\ accepting' = NoConn
  /\ UNCHANGED <<queue, client, reply, handled>>

-------------------------------------------------------------------------------
\* _serve_one()

Allowed_TokenOnly(r) == Tcp => r # "no_token"                  \* mutated form

\* Over TCP the request needs the token and may not be a sensitive command.
Allowed(r) == Tcp => r # "no_token" /\ r # "sensitive"

\* recv() has a line, or too much, or the client closed its end.
Readable(c) == sent[c] \notin {"nothing", "part"} \/ c \in gone

\* Nothing at all counts as {}, which has no token and no known command.
Accepted(c) == IF sent[c] = "nothing" THEN ~Tcp ELSE sent[c] \in Request /\ Allowed(sent[c])

Received_ErrorUnanswered(c) ==                           \* mutated form
  /\ phase[c] = "reading" /\ Readable(c)
  /\ Enter(c, IF Accepted(c) THEN "handling" ELSE "replying")
  /\ UNCHANGED <<queue, accepting, free, client, reply, handled, failures>>

Received(c) ==
  /\ phase[c] = "reading"
  /\ Readable(c)
  /\ IF Accepted(c)
       THEN Enter(c, "handling") /\ UNCHANGED reply
       ELSE Enter(c, "replying") /\ reply' = [reply EXCEPT ![c] = "error"]
  /\ UNCHANGED <<queue, accepting, free, client, handled, failures>>

Deadline_Waits(c) == FALSE /\ UNCHANGED vars             \* mutated form

\* The deadline of one request, however slowly its bytes come; the last of them
\* may have come too late to be looked at.
Deadline(c) ==
  /\ phase[c] = "reading"
  /\ Enter(c, "replying")
  /\ reply' = [reply EXCEPT ![c] = "error"]
  /\ UNCHANGED <<queue, accepting, free, client, handled, failures>>

\* handler(req) returns or raises.
Handle(c) ==
  /\ phase[c] = "handling"
  /\ handled' = handled \cup {c}
  /\ \E outcome \in {"answer", "error"} : reply' = [reply EXCEPT ![c] = outcome]
  /\ Enter(c, "replying")
  /\ UNCHANGED <<queue, accepting, free, client, failures>>

\* sendall(), whose failure is swallowed; then close() and release().
Finish(c) ==
  /\ phase[c] = "replying"
  /\ Enter(c, "closed")
  /\ free' = free + 1
  /\ UNCHANGED <<queue, accepting, client, reply, handled, failures>>

Worker(c) == Received(c) \/ Deadline(c) \/ Handle(c) \/ Finish(c)

Acceptor == Accept \/ TakeSlot \/ Shed \/ StartWorker \/ StartFails

Client(c) ==
  \/ Connect(c)
  \/ \E more \in Arrived : Send(c, more)
  \/ HangUp(c)

Next == Acceptor \/ \E c \in Conn : Worker(c) \/ Client(c)

Spec == Init /\ [][Next]_vars

\* Threads that can run do run, and time passes; clients owe nothing. The
\* daemon's handler comes back: it holds a lock briefly or waits for ps, which
\* has a timeout.
Fairness == WF_vars(Acceptor) /\ \A c \in Conn : WF_vars(Worker(c))

FairSpec == Spec /\ Fairness

-------------------------------------------------------------------------------
TypeOK ==
  /\ queue \in Seq(Conn) /\ accepting \in Conn \cup {NoConn}
  /\ phase \in [Conn -> Phase]
  /\ free \in 0..Slots
  /\ sent \in [Conn -> Arrived]
  /\ gone \subseteq Conn /\ handled \subseteq Conn
  /\ reply \in [Conn -> {"none", "busy", "error", "answer"}]
  /\ failures \in 0..MaxStartFailures

\* "worker concurrency is bounded", and no slot is ever lost or made up: the
\* free ones and those of the connections being worked on are all there are.
SlotsAccounted == free + Cardinality(Busy) = Slots

\* "transports that cannot establish caller identity (TCP) may not run
\* identity-sensitive commands", and nothing without the token.
HandledWasAllowed ==
  Tcp => \A c \in handled : sent[c] = "plain"

\* A client that waits gets an answer (the handler's, an error, or "control
\* busy") before its connection is closed, except where no thread started.
WaitingClientsAnswered ==
  \A c \in Conn :
    phase[c] = "closed" /\ c \notin gone /\ reply[c] = "none" => failures > 0

\* Every client that got a connection is rid of it in the end, and so is the
\* server, though other clients send nothing, or half a line, and wait.
ConnectionsEnd == <>[](\A c \in Conn : phase[c] \in {"new", "closed"})
===============================================================================
