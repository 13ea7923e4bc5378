----------------------------- MODULE MemoryAppend -----------------------------
(***************************************************************************)
(* Appending to the hot memory file: a client (lib/memory_thin.py) offers  *)
(* its message to the memory daemon (lib/memory_daemon.py) and, if no "OK" *)
(* comes back in time, appends to the same file itself. Several clients,   *)
(* several daemons started for one store, foreign connections that are     *)
(* never closed, deaths of a daemon and crashes of the machine.            *)
(***************************************************************************)
EXTENDS Integers, Sequences, FiniteSets

CONSTANTS
  Msg,                 \* messages, each appended by a thread of its own
  Guest,               \* connections made by something else, which sends no request
  Daemon,              \* daemon processes, each with one life
  None,
  Backlog,             \* s.listen(16)
  DiskFills,           \* whether the file system has an end
  Capacity,            \* how far it reaches at first, and
  MaxCapacity,         \* after space has been freed
  MaxCrashes,          \* bound on crashes of the machine
  MaxFaults            \* bound on failures of the daemon's first attempt to append

ASSUME MemoryConstants ==
  /\ None \notin Msg \cup Guest \cup Daemon
  /\ Msg \cap Guest = {}
  /\ DiskFills \in BOOLEAN
  /\ Backlog \in Nat /\ Capacity \in Nat /\ MaxCapacity \in Nat
  /\ MaxCrashes \in Nat /\ MaxFaults \in Nat

VARIABLES
  file,                \* the pieces of lines in the file
  synced,              \* how many of them a crash cannot take
  capacity,
  sock,                \* the daemon whose socket is at the path
  pid,                 \* the content of the pidfile
  dphase,              \* where every daemon is
  serving,             \* the connection it works on
  queue,               \* the connections it has not accepted
  phase,               \* where every appending thread is
  conn,                \* what has arrived on every connection
  answer,              \* what came back
  crashes, faults

disk == <<file, synced, capacity>>
names == <<sock, pid>>
daemons == <<dphase, serving, queue>>
clients == <<phase, conn, answer>>
vars == <<disk, names, daemons, clients, crashes, faults>>

\* A line is written in at most two pieces: it can be torn anywhere, but only
\* that it is torn matters. The second piece has the newline.
Line(m) == <<<<m, 1>>, <<m, 2>>>>
Piece == Msg \X {1, 2}

\* The first piece, both, or neither: what write() finds space for.
Fits(k) == ~DiskFills \/ Len(file) + k <= capacity

Listening == {"bound", "idle", "reading", "writing", "written", "again", "rewritten", "accepted", "refused"}
Alive(d) == dphase[d] \in Listening \cup {"checked", "unlinked"}

EnterD(d, ph) == dphase' = [dphase EXCEPT ![d] = ph]
Enter(m, ph) == phase' = [phase EXCEPT ![m] = ph]

Init ==
  /\ file = <<>> /\ synced = 0 /\ capacity = Capacity
  /\ sock = None /\ pid = None
  /\ dphase = [d \in Daemon |-> "unborn"]
  /\ serving = [d \in Daemon |-> None]
  /\ queue = [d \in Daemon |-> <<>>]
  /\ phase = [m \in Msg |-> "new"]
  /\ conn = [c \in Msg \cup Guest |-> "none"]
  /\ answer = [m \in Msg |-> "none"]
  /\ crashes = 0 /\ faults = 0

-------------------------------------------------------------------------------
\* A daemon starts: the guard, the socket, the pidfile.

Check(d) ==
  /\ dphase[d] = "unborn"
  /\ EnterD(d, IF pid # None /\ Alive(pid) THEN "dead" ELSE "checked")
  /\ UNCHANGED <<disk, names, serving, queue, clients, crashes, faults>>

Unlink(d) ==
  /\ dphase[d] = "checked"
  /\ sock' = None
  /\ EnterD(d, "unlinked")
  /\ UNCHANGED <<disk, pid, serving, queue, clients, crashes, faults>>

\* bind() fails if another daemon has bound the path since.
Bind(d) ==
  /\ dphase[d] = "unlinked"
  /\ IF sock = None THEN sock' = d /\ EnterD(d, "bound")
     ELSE sock' = sock /\ EnterD(d, "dead")
  /\ UNCHANGED <<disk, pid, serving, queue, clients, crashes, faults>>

WritePid(d) ==
  /\ dphase[d] = "bound"
  /\ pid' = d
  /\ EnterD(d, "idle")
  /\ UNCHANGED <<disk, sock, serving, queue, clients, crashes, faults>>

\* The clients whose connection ends with the process.
CutOff(ds) ==
  [m \in Msg |-> IF /\ answer[m] = "none"
                    /\ \E d \in ds : serving[d] = m \/ \E i \in DOMAIN queue[d] : queue[d][i] = m
                 THEN "eof" ELSE answer[m]]

\* A daemon dies, by a signal or an exception. The socket and the pidfile stay.
Die(d) ==
  /\ Alive(d)
  /\ EnterD(d, "dead")
  /\ serving' = [serving EXCEPT ![d] = None]
  /\ queue' = [queue EXCEPT ![d] = <<>>]
  /\ answer' = CutOff({d})
  /\ UNCHANGED <<disk, names, phase, conn, crashes, faults>>

-------------------------------------------------------------------------------
\* A daemon serves one connection after the other.

Accept(d) ==
  /\ dphase[d] = "idle" /\ queue[d] # <<>>
  /\ serving' = [serving EXCEPT ![d] = Head(queue[d])]
  /\ queue' = [queue EXCEPT ![d] = Tail(@)]
  /\ EnterD(d, "reading")
  /\ UNCHANGED <<disk, names, clients, crashes, faults>>

\* It reads until the other side has closed, however long that takes. A request
\* that is above the cap, or is none, is refused.
ReadToEof(d) ==
  /\ dphase[d] = "reading"
  /\ \/ conn[serving[d]] = "whole" /\ EnterD(d, "writing")
     \/ conn[serving[d]] # "open" /\ EnterD(d, "refused")
  /\ UNCHANGED <<disk, names, serving, queue, clients, crashes, faults>>

\* One write(), whose result is not looked at. No space at all is an error of
\* both attempts, and the end of the daemon: see Die.
Write(d) ==
  /\ dphase[d] = "writing" /\ Fits(1)
  /\ LET line == Line(serving[d]) IN
       file' = file \o IF Fits(2) THEN line ELSE <<Head(line)>>
  /\ EnterD(d, "written")
  /\ UNCHANGED <<synced, capacity, names, serving, queue, clients, crashes, faults>>

\* The first attempt fails, before the line was written or when it is synced.
Fault(d) ==
  /\ dphase[d] \in {"writing", "written"} /\ faults < MaxFaults
  /\ faults' = faults + 1
  /\ EnterD(d, "again")
  /\ UNCHANGED <<disk, names, serving, queue, clients, crashes>>

\* The last resort writes the line again. It raises if all of it does not fit.
WriteAgain(d) ==
  /\ dphase[d] = "again" /\ Fits(2)
  /\ file' = file \o Line(serving[d])
  /\ EnterD(d, "rewritten")
  /\ UNCHANGED <<synced, capacity, names, serving, queue, clients, crashes, faults>>

\* A mutant: no fsync.
Sync_Skipped(d) ==
  /\ dphase[d] \in {"written", "rewritten"}
  /\ EnterD(d, "accepted")
  /\ UNCHANGED <<disk, names, serving, queue, clients, crashes, faults>>

Sync(d) ==
  /\ dphase[d] \in {"written", "rewritten"}
  /\ synced' = Len(file)
  /\ EnterD(d, "accepted")
  /\ UNCHANGED <<file, capacity, names, serving, queue, clients, crashes, faults>>

\* The answer, and the end of the connection; the client may be gone.
Reply(d) ==
  /\ dphase[d] \in {"accepted", "refused"}
  /\ answer' = [m \in Msg |->
                  IF m # serving[d] \/ answer[m] # "none" THEN answer[m]
                  ELSE IF dphase[d] = "accepted" THEN "ok" ELSE "err"]
  /\ serving' = [serving EXCEPT ![d] = None]
  /\ EnterD(d, "idle")
  /\ UNCHANGED <<disk, names, queue, phase, conn, crashes, faults>>

-------------------------------------------------------------------------------
\* An appending thread.

Arrive(c) ==
  /\ Len(queue[sock]) < Backlog
  /\ queue' = [queue EXCEPT ![sock] = Append(@, c)]
  /\ conn' = [conn EXCEPT ![c] = "open"]

Reachable == sock # None /\ dphase[sock] \in Listening

\* _try_daemon: no socket, nobody listening or a full backlog means no daemon.
Connect(m) ==
  /\ phase[m] = "new"
  /\ \/ Reachable /\ Arrive(m) /\ Enter(m, "sending")
     \/ /\ Reachable => Len(queue[sock]) >= Backlog
        /\ Enter(m, "direct")
        /\ UNCHANGED <<queue, conn>>
  /\ UNCHANGED <<disk, names, dphase, serving, answer, crashes, faults>>

\* sendall and the end of what is sent.
Send(m) ==
  /\ phase[m] = "sending" /\ answer[m] = "none"
  /\ conn' = [conn EXCEPT ![m] = "whole"]
  /\ Enter(m, "waiting")
  /\ UNCHANGED <<disk, names, daemons, answer, crashes, faults>>

\* A mutant: no timeout while it waits.
GiveUp_OnlyUnsent(m) ==
  /\ phase[m] = "sending" /\ conn' = [conn EXCEPT ![m] = "part"]
  /\ Enter(m, "direct")
  /\ UNCHANGED <<disk, names, daemons, answer, crashes, faults>>

\* The two seconds are over, or the connection broke while it was sent to. What
\* was not sent wholly ends in the middle.
GiveUp(m) ==
  /\ \/ phase[m] = "sending" /\ conn' = [conn EXCEPT ![m] = "part"]
     \/ phase[m] = "waiting" /\ answer[m] = "none" /\ conn' = conn
  /\ Enter(m, "direct")
  /\ UNCHANGED <<disk, names, daemons, answer, crashes, faults>>

Receive(m) ==
  /\ phase[m] = "waiting" /\ answer[m] # "none"
  /\ Enter(m, IF answer[m] = "ok" THEN "acked" ELSE "direct")
  /\ UNCHANGED <<disk, names, daemons, conn, answer, crashes, faults>>

\* _atomic_append: write() until nothing is left, fsync, return.
Direct(m) ==
  /\ \/ /\ phase[m] = "direct" /\ Fits(2)
        /\ file' = file \o Line(m) /\ Enter(m, "complete")
     \/ /\ phase[m] = "direct" /\ Fits(1) /\ ~Fits(2)
        /\ file' = Append(file, Line(m)[1]) /\ Enter(m, "half")
     \/ /\ phase[m] = "half" /\ Fits(1)
        /\ file' = Append(file, Line(m)[2]) /\ Enter(m, "complete")
     \/ /\ phase[m] \in {"direct", "half"} /\ ~Fits(1)
        /\ file' = file /\ Enter(m, "raised")
  /\ UNCHANGED <<synced, capacity, names, daemons, conn, answer, crashes, faults>>

DirectSync(m) ==
  /\ phase[m] = "complete"
  /\ synced' = Len(file)
  /\ Enter(m, "returned")
  /\ UNCHANGED <<file, capacity, names, daemons, conn, answer, crashes, faults>>

-------------------------------------------------------------------------------
\* What happens around them.

GuestConnect(g) ==
  /\ conn[g] = "none" /\ Reachable /\ Arrive(g)
  /\ UNCHANGED <<disk, names, dphase, serving, phase, answer, crashes, faults>>

GuestCloses(g) ==
  /\ conn[g] = "open"
  /\ conn' = [conn EXCEPT ![g] = "part"]
  /\ UNCHANGED <<disk, names, daemons, phase, answer, crashes, faults>>

FreeSpace ==
  /\ DiskFills /\ capacity < MaxCapacity
  /\ capacity' = capacity + 1
  /\ UNCHANGED <<file, synced, names, daemons, clients, crashes, faults>>

Over == {"acked", "returned", "raised", "gone"}

\* The machine goes down. Of what was not synced a prefix is on the disk.
Crash ==
  /\ crashes < MaxCrashes
  /\ crashes' = crashes + 1
  /\ \E n \in synced .. Len(file) : file' = SubSeq(file, 1, n)
  /\ synced' = Len(file')
  /\ dphase' = [d \in Daemon |-> IF Alive(d) THEN "dead" ELSE dphase[d]]
  /\ serving' = [d \in Daemon |-> None]
  /\ queue' = [d \in Daemon |-> <<>>]
  /\ phase' = [m \in Msg |-> IF phase[m] \in Over \cup {"new"} THEN phase[m] ELSE "gone"]
  /\ UNCHANGED <<capacity, names, conn, answer, faults>>

DaemonStep(d) ==
  Accept(d) \/ ReadToEof(d) \/ Write(d) \/ Fault(d) \/ WriteAgain(d) \/ Sync(d) \/ Reply(d)

Client(m) ==
  Connect(m) \/ Send(m) \/ GiveUp(m) \/ Receive(m) \/ Direct(m) \/ DirectSync(m)

Next ==
  \/ \E d \in Daemon : Check(d) \/ Unlink(d) \/ Bind(d) \/ WritePid(d) \/ Die(d)
  \/ \E d \in Daemon : DaemonStep(d)
  \/ \E m \in Msg : Client(m)
  \/ \E g \in Guest : GuestConnect(g) \/ GuestCloses(g)
  \/ FreeSpace
  \/ Crash

Spec == Init /\ [][Next]_vars

\* The threads that append are scheduled, their timeouts expire. Nothing is
\* assumed of the daemons, nor of those who keep a connection open.
FairSpec == Spec /\ \A m \in Msg : WF_vars(Client(m))

-------------------------------------------------------------------------------
\* The daemon's variables, the clients' and the file stay in their sets, no more
\* is synced than was written, and a daemon works on a connection exactly in the
\* phases of serving one (run, append).
TypeOK ==
  /\ file \in Seq(Piece) /\ synced \in 0 .. Len(file) /\ capacity \in Nat
  /\ sock \in Daemon \cup {None} /\ pid \in Daemon \cup {None}
  /\ dphase \in [Daemon -> Listening \cup {"unborn", "checked", "unlinked", "dead"}]
  /\ serving \in [Daemon -> Msg \cup Guest \cup {None}]
  /\ queue \in [Daemon -> Seq(Msg \cup Guest)]
  /\ phase \in [Msg -> {"new", "sending", "waiting", "direct", "half", "complete"} \cup Over]
  /\ conn \in [Msg \cup Guest -> {"none", "open", "whole", "part"}]
  /\ answer \in [Msg -> {"none", "ok", "err", "eof"}]
  /\ crashes \in 0 .. MaxCrashes /\ faults \in 0 .. MaxFaults
  /\ \A d \in Daemon : (serving[d] # None) <=> (dphase[d] \in Listening \ {"bound", "idle"})
  /\ \A d \in Daemon : dphase[d] \in {"writing", "written", "again", "rewritten", "accepted"} => serving[d] \in Msg

\* The line of m is in one piece among the first n pieces.
WholeIn(m, n) == \E i \in 1 .. n - 1 : file[i] = <<m, 1>> /\ file[i + 1] = <<m, 2>>

\* Every append that came back to its caller, by the daemon's answer or by the
\* direct way, has its line in one piece in the part of the file no crash takes:
\* whatever died or timed out in between (append, _try_daemon, _atomic_append;
\* where the disk does not fill up).
StoredWhole == \A m \in Msg : phase[m] \in {"acked", "returned"} => WholeIn(m, synced)

Copies(m) == Cardinality({i \in DOMAIN file : file[i] = <<m, 1>>})

\* An append that the daemon answered is in the file once, unless the daemon's
\* first attempt failed; one that came back by itself is there twice at most,
\* as the daemon may still have taken it (_try_daemon, append).
CopiesExplained ==
  \A m \in Msg :
    /\ phase[m] = "acked" => Copies(m) \in 1 .. 1 + faults
    /\ Copies(m) <= 2 + faults

\* Every append ends, by itself or with the machine, though the daemon hangs on
\* a connection that is never closed, or died (settimeout in _try_daemon).
AppendsEnd == <>[](\A m \in Msg : phase[m] \in Over \cup {"new"})

\* lib/memory_thin.py:38-44: the answer is "True only when the daemon ACKed the
\* write [...] anything short of that ack falls back to the direct file append
\* below [...] memory is never lost": a line that was acknowledged is in the file.
AckedIsWritten == \A m \in Msg : phase[m] = "acked" => WholeIn(m, Len(file))
===============================================================================
