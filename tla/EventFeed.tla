------------------------------ MODULE EventFeed -------------------------------
(***************************************************************************)
(* The event feed (lib/event_feed.py): a thread that follows the session   *)
(* bridge file, which others append to (lib/session_bridge.py), a thread   *)
(* that compares what the other components keep with what it saw last, and *)
(* a thread that takes clients: each is sent the last events there were    *)
(* and then every event as it happens.                                     *)
(***************************************************************************)
EXTENDS Integers, Sequences

CONSTANTS
  Viewer,              \* connections to the feed's socket
  Nobody,              \* no client
  Value,               \* what the watched state may look like
  Unseen,              \* the last look before the first one
  RingSize,            \* RING_SIZE
  MaxLines, MaxEvents  \* bounds on the bridge file and on what happens

VARIABLES
  bridge,              \* the lines of the session bridge file
  writing,             \* whether a writer is in the middle of a long line
  cursor,              \* _bridge_cursor
  first,               \* the lines the feed has counted as old
  batch,               \* the lines that were read and are yet to be looked at
  missed,              \* the lines that were looked at when half written
  state, last,         \* what is watched, and how it was at the last look
  watching,            \* whether the thread that looks is still there
  pushed,              \* all events so far; the ring is the end of it
  greeting,            \* the client the accepting thread is busy with
  clients,             \* _clients
  received             \* the events every client was sent

file == <<bridge, writing>>
reader == <<cursor, first, batch, missed>>
watcher == <<last, watching>>
connections == <<greeting, clients, received>>
vars == <<file, reader, state, watcher, pushed, connections>>

Init ==
  /\ bridge \in {<<>>, <<"shown">>, <<"half">>} /\ writing = FALSE
  /\ cursor \in {0, Len(bridge)}                  \* 0 also when the count fails
  /\ first = cursor /\ batch = <<>> /\ missed = {}
  /\ state \in Value /\ last = Unseen /\ watching = TRUE
  /\ pushed = <<>>
  /\ greeting = Nobody /\ clients = {} /\ received = [c \in Viewer |-> <<>>]

Ring == SubSeq(pushed, IF Len(pushed) > RingSize THEN Len(pushed) - RingSize + 1 ELSE 1, Len(pushed))

-------------------------------------------------------------------------------
\* The bridge file. Writers take a lock; one that dies leaves half a line, which
\* the next one continues.

Write ==
  /\ ~writing
  /\ IF bridge # <<>> /\ bridge[Len(bridge)] = "half"
       THEN bridge' = [bridge EXCEPT ![Len(bridge)] = "hidden"]
       ELSE /\ Len(bridge) < MaxLines
            /\ \E line \in {"shown", "hidden"} : bridge' = Append(bridge, line)
  /\ UNCHANGED <<writing, reader, state, watcher, pushed, connections>>

WriteHalf ==
  /\ ~writing /\ Len(bridge) < MaxLines
  /\ bridge # <<>> => bridge[Len(bridge)] # "half"
  /\ bridge' = Append(bridge, "half") /\ writing' = TRUE
  /\ UNCHANGED <<reader, state, watcher, pushed, connections>>

WriteRest ==
  /\ writing /\ writing' = FALSE
  /\ bridge' = [bridge EXCEPT ![Len(bridge)] = "shown"]
  /\ UNCHANGED <<reader, state, watcher, pushed, connections>>

WriterDies ==
  /\ writing /\ writing' = FALSE
  /\ UNCHANGED <<bridge, reader, state, watcher, pushed, connections>>

-------------------------------------------------------------------------------
\* Events. To send takes as long as the client lets it, five seconds at most; a
\* client that cannot be sent to is forgotten.

Push(event) ==
  /\ Len(pushed) < MaxEvents
  /\ pushed' = Append(pushed, event)
  /\ \E reached \in SUBSET clients :
       /\ clients' = reached
       /\ received' = [c \in Viewer |-> IF c \in reached THEN Append(received[c], event) ELSE received[c]]
  /\ UNCHANGED greeting

\* The whole file is read and cut at the cursor.
ReadBridge ==
  /\ batch = <<>>
  /\ batch' = SubSeq(bridge, cursor + 1, Len(bridge))
  /\ UNCHANGED <<file, cursor, first, missed, state, watcher, pushed, connections>>

\* The cursor moves before the line is looked at.
LookAtLine ==
  /\ batch # <<>> /\ batch' = Tail(batch)
  /\ cursor' = cursor + 1
  /\ missed' = IF Head(batch) = "half" THEN missed \cup {cursor + 1} ELSE missed
  /\ IF Head(batch) = "shown" THEN Push(cursor + 1) ELSE UNCHANGED <<pushed, connections>>
  /\ UNCHANGED <<file, first, state, watcher>>

Change ==
  /\ state' \in Value
  /\ UNCHANGED <<file, reader, watcher, pushed, connections>>

\* The first look only remembers. An event of the watcher is not of a line: 0.
Look ==
  /\ watching /\ last # state /\ last' = state
  /\ IF last # Unseen THEN Push(0) ELSE UNCHANGED <<pushed, connections>>
  /\ UNCHANGED <<file, reader, state, watching>>

\* A file that holds no object ends the thread.
LookRaises ==
  /\ watching /\ watching' = FALSE
  /\ UNCHANGED <<file, reader, state, last, pushed, connections>>

-------------------------------------------------------------------------------
\* The accepting thread, one client after the other.

Greet_Registers(c) ==                                    \* mutated form
  /\ greeting = Nobody /\ received[c] = <<>> /\ c \notin clients
  /\ greeting' = c /\ clients' = clients \cup {c}
  /\ UNCHANGED <<file, reader, state, watcher, pushed, received>>

\* accept() and the snapshot.
Greet(c) ==
  /\ greeting = Nobody /\ received[c] = <<>> /\ c \notin clients
  /\ greeting' = c
  /\ UNCHANGED <<file, reader, state, watcher, pushed, clients, received>>

\* The ring and the registration, under the lock of _push.
Register ==
  /\ greeting # Nobody
  /\ received' = [received EXCEPT ![greeting] = @ \o Ring]
  /\ clients' = clients \cup {greeting}
  /\ greeting' = Nobody
  /\ UNCHANGED <<file, reader, state, watcher, pushed>>

\* The snapshot or one of the ring's events could not be sent: closed.
TurnAway ==
  /\ greeting # Nobody
  /\ \E n \in 0..Len(Ring) :
       received' = [received EXCEPT ![greeting] = @ \o SubSeq(Ring, 1, n)]
  /\ greeting' = Nobody
  /\ UNCHANGED <<file, reader, state, watcher, pushed, clients>>

Next ==
  \/ Write \/ WriteHalf \/ WriteRest \/ WriterDies
  \/ ReadBridge \/ LookAtLine \/ Change \/ Look \/ LookRaises
  \/ \E c \in Viewer : Greet(c)
  \/ Register \/ TurnAway

Spec == Init /\ [][Next]_vars

-------------------------------------------------------------------------------
TypeOK ==
  /\ bridge \in Seq({"shown", "hidden", "half"}) /\ writing \in BOOLEAN
  /\ cursor \in 0..Len(bridge) /\ first \in 0..cursor
  /\ batch \in Seq({"shown", "hidden", "half"}) /\ missed \subseteq 1..cursor
  /\ state \in Value /\ last \in Value \cup {Unseen} /\ watching \in BOOLEAN
  /\ pushed \in Seq(0..MaxLines)
  /\ greeting \in Viewer \cup {Nobody} /\ clients \subseteq Viewer
  /\ received \in [Viewer -> Seq(0..MaxLines)]

\* The lines of the bridge that were to be shown, in their order.
Told == SelectSeq([i \in 1..cursor |-> i],
                  LAMBDA i : i > first /\ bridge[i] = "shown" /\ i \notin missed)

\* Nothing is left out and nothing is said twice, while clients come and go and
\* lines are written: the events of the bridge are its lines since the start but
\* those read half written, and what a client was sent is a stretch of the events
\* without a gap, which for one that is still served goes back to the ring's
\* length and reaches to the last event.
FeedIsComplete ==
  /\ SelectSeq(pushed, LAMBDA event : event # 0) = Told
  /\ \A c \in Viewer :
       \E i \in 1..Len(pushed) + 1 : \E j \in i - 1..Len(pushed) :
         /\ received[c] = SubSeq(pushed, i, j)
         /\ c \in clients => j = Len(pushed) /\ j - i + 1 >= Len(Ring)
===============================================================================
