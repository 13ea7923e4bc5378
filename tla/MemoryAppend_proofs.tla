------------------------- MODULE MemoryAppend_proofs --------------------------
(***************************************************************************)
(* Proofs about the stores of the lanes. Appending to the memory file, for *)
(* any number of clients, daemons, crashes and failures: what was returned *)
(* is stored whole, and there is a second copy of a line only when         *)
(* something failed. The database, for any number of processes and         *)
(* messages: no row is lost but to one who was opening the file. And all   *)
(* that the lanes store together, with what SchedulerStore_proofs shows.   *)
(***************************************************************************)
EXTENDS MCLanes, SequenceTheorems, FiniteSetTheorems, TLAPS

\* Only an appending thread sends a request.
TypeInv == TypeOK /\ \A g \in Guest : conn[g] # "whole"

\* Whoever says that a line is stored has stored it: the daemon that is about to
\* answer, the answer on its way, the thread that is about to return. Before the
\* fsync it is in the file; nothing but the last line is not whole.
Filed == {m \in Msg : WholeIn(m, Len(file))}
Safe == {m \in Msg : WholeIn(m, synced)}

Told(m) ==
  /\ phase[m] # "half"
  /\ phase[m] = "complete" => m \in Filed
  /\ phase[m] \in {"acked", "returned"} => m \in Safe
  /\ answer[m] = "ok" => m \in Safe

Wrote(d) ==
  /\ dphase[d] \in {"written", "rewritten"} => serving[d] \in Filed
  /\ dphase[d] = "accepted" => serving[d] \in Safe

StoredInv == (\A m \in Msg : Told(m)) /\ (\A d \in Daemon : Wrote(d))

\* The parts of the type invariant.
FileTyped == file \in Seq(Piece) /\ synced \in 0 .. Len(file) /\ capacity \in Nat
NamesTyped ==
  /\ sock \in Daemon \cup {None} /\ pid \in Daemon \cup {None}
  /\ crashes \in 0 .. MaxCrashes /\ faults \in 0 .. MaxFaults
PhasesTyped ==
  /\ dphase \in [Daemon -> Listening \cup {"unborn", "checked", "unlinked", "dead"}]
  /\ phase \in [Msg -> {"new", "sending", "waiting", "direct", "half", "complete"} \cup Over]
QueuesTyped == queue \in [Daemon -> Seq(Msg \cup Guest)]
ClientsTyped ==
  /\ conn \in [Msg \cup Guest -> {"none", "open", "whole", "part"}]
  /\ answer \in [Msg -> {"none", "ok", "err", "eof"}]
  /\ \A g \in Guest : conn[g] # "whole"
ServingTyped ==
  /\ serving \in [Daemon -> Msg \cup Guest \cup {None}]
  /\ \A d \in Daemon : (serving[d] # None) <=> (dphase[d] \in Listening \ {"bound", "idle"})
  /\ \A d \in Daemon : dphase[d] \in {"writing", "written", "again", "rewritten", "accepted"} => serving[d] \in Msg

LEMMA TypeParts ==
  TypeInv <=> /\ FileTyped /\ NamesTyped /\ PhasesTyped
              /\ QueuesTyped /\ ClientsTyped /\ ServingTyped
BY DEF TypeInv, TypeOK, FileTyped, NamesTyped, PhasesTyped, QueuesTyped, ClientsTyped, ServingTyped

-------------------------------------------------------------------------------
LEMMA TypeInitially == ASSUME MemoryConstants, Init PROVE TypeInv
BY DEF MemoryConstants, Init, TypeInv, TypeOK, Listening

\* The file only grows by pieces of lines.
LEMMA PiecesFit ==
  ASSUME NEW m \in Msg, file \in Seq(Piece)
  PROVE  /\ file \o Line(m) \in Seq(Piece) /\ Len(file \o Line(m)) = Len(file) + 2
         /\ \A k \in {1, 2} : /\ Append(file, Line(m)[k]) \in Seq(Piece)
                             /\ Len(Append(file, Line(m)[k])) = Len(file) + 1
         /\ file \o <<Head(Line(m))>> \in Seq(Piece) /\ Len(file \o <<Head(Line(m))>>) = Len(file) + 1
<1>1. <<m, 1>> \in Piece /\ <<m, 2>> \in Piece
  BY DEF Piece
<1>2. Line(m) \in Seq(Piece) /\ Len(Line(m)) = 2 /\ Line(m)[1] = <<m, 1>> /\ Line(m)[2] = <<m, 2>>
  BY <1>1 DEF Line
<1>3. Head(Line(m)) = <<m, 1>>
  BY DEF Line
<1>4. file \o Line(m) \in Seq(Piece) /\ Len(file \o Line(m)) = Len(file) + 2
  <2>1. <<<<m, 1>>, <<m, 2>>>> \in Seq(Piece) /\ Len(<<<<m, 1>>, <<m, 2>>>>) = 2
    BY <1>1
  <2> QED BY <2>1 DEF Line
<1>5. ASSUME NEW k \in {1, 2}
      PROVE  Append(file, Line(m)[k]) \in Seq(Piece) /\ Len(Append(file, Line(m)[k])) = Len(file) + 1
  <2>1. Line(m)[k] \in Piece
    BY <1>1, <1>2
  <2> QED BY <2>1
<1>6. /\ file \o <<Head(Line(m))>> \in Seq(Piece)
      /\ Len(file \o <<Head(Line(m))>>) = Len(file) + 1
  <2>1. <<Head(Line(m))>> \in Seq(Piece) /\ Len(<<Head(Line(m))>>) = 1
    BY <1>1, <1>3
  <2> QED BY <2>1
<1> QED BY <1>4, <1>5, <1>6

LEMMA TypeStep == ASSUME MemoryConstants, TypeInv, [Next]_vars PROVE TypeInv'
<1> USE DEF EnterD, Enter, disk, names, daemons, clients, MemoryConstants
<1>0. FileTyped /\ NamesTyped /\ PhasesTyped /\ QueuesTyped /\ ClientsTyped /\ ServingTyped
  BY TypeParts
<1>1. CASE UNCHANGED vars
  BY <1>1 DEF vars, TypeInv, TypeOK
<1>2. ASSUME NEW d \in Daemon, Check(d) PROVE TypeInv'
  <2>1. FileTyped'
    BY <1>0, <1>2 DEF FileTyped, ServingTyped, Check
  <2>2. NamesTyped'
    BY <1>0, <1>2 DEF NamesTyped, Check
  <2>3. PhasesTyped'
    BY <1>0, <1>2 DEF PhasesTyped, Check, Listening, Alive, Over
  <2>4. QueuesTyped'
    BY <1>0, <1>2 DEF QueuesTyped, NamesTyped, Check
  <2>5. ClientsTyped'
    BY <1>0, <1>2 DEF ClientsTyped, Check
  <2>6. ServingTyped'
    BY <1>0, <1>2 DEF ServingTyped, PhasesTyped, QueuesTyped, ClientsTyped, Check, Listening, Alive
  <2> QED BY <2>1, <2>2, <2>3, <2>4, <2>5, <2>6, TypeParts, PTL
<1>3. ASSUME NEW d \in Daemon, Unlink(d) PROVE TypeInv'
  <2>1. FileTyped'
    BY <1>0, <1>3 DEF FileTyped, ServingTyped, Unlink
  <2>2. NamesTyped'
    BY <1>0, <1>3 DEF NamesTyped, Unlink
  <2>3. PhasesTyped'
    BY <1>0, <1>3 DEF PhasesTyped, Unlink, Listening, Alive, Over
  <2>4. QueuesTyped'
    BY <1>0, <1>3 DEF QueuesTyped, NamesTyped, Unlink
  <2>5. ClientsTyped'
    BY <1>0, <1>3 DEF ClientsTyped, Unlink
  <2>6. ServingTyped'
    BY <1>0, <1>3 DEF ServingTyped, PhasesTyped, QueuesTyped, ClientsTyped, Unlink, Listening, Alive
  <2> QED BY <2>1, <2>2, <2>3, <2>4, <2>5, <2>6, TypeParts, PTL
<1>4. ASSUME NEW d \in Daemon, Bind(d) PROVE TypeInv'
  <2>1. FileTyped'
    BY <1>0, <1>4 DEF FileTyped, ServingTyped, Bind
  <2>2. NamesTyped'
    BY <1>0, <1>4 DEF NamesTyped, Bind
  <2>3. PhasesTyped'
    BY <1>0, <1>4 DEF PhasesTyped, Bind, Listening, Alive, Over
  <2>4. QueuesTyped'
    BY <1>0, <1>4 DEF QueuesTyped, NamesTyped, Bind
  <2>5. ClientsTyped'
    BY <1>0, <1>4 DEF ClientsTyped, Bind
  <2>6. ServingTyped'
    <3>1. serving[d] = None /\ serving' = serving
      BY <1>0, <1>4 DEF Bind, ServingTyped, Listening
    <3>2. CASE EnterD(d, "bound")
      BY <1>0, <3>1, <3>2 DEF ServingTyped, PhasesTyped, Listening
    <3>3. CASE EnterD(d, "dead")
      BY <1>0, <3>1, <3>3 DEF ServingTyped, PhasesTyped, Listening
    <3> QED BY <1>4, <3>2, <3>3 DEF Bind
  <2> QED BY <2>1, <2>2, <2>3, <2>4, <2>5, <2>6, TypeParts, PTL
<1>5. ASSUME NEW d \in Daemon, WritePid(d) PROVE TypeInv'
  <2>1. FileTyped'
    BY <1>0, <1>5 DEF FileTyped, ServingTyped, WritePid
  <2>2. NamesTyped'
    BY <1>0, <1>5 DEF NamesTyped, WritePid
  <2>3. PhasesTyped'
    BY <1>0, <1>5 DEF PhasesTyped, WritePid, Listening, Alive, Over
  <2>4. QueuesTyped'
    BY <1>0, <1>5 DEF QueuesTyped, NamesTyped, WritePid
  <2>5. ClientsTyped'
    BY <1>0, <1>5 DEF ClientsTyped, WritePid
  <2>6. ServingTyped'
    BY <1>0, <1>5 DEF ServingTyped, PhasesTyped, QueuesTyped, ClientsTyped, WritePid, Listening, Alive
  <2> QED BY <2>1, <2>2, <2>3, <2>4, <2>5, <2>6, TypeParts, PTL
<1>6. ASSUME NEW d \in Daemon, Die(d) PROVE TypeInv'
  <2>1. FileTyped'
    BY <1>0, <1>6 DEF FileTyped, ServingTyped, Die, CutOff
  <2>2. NamesTyped'
    BY <1>0, <1>6 DEF NamesTyped, Die, CutOff
  <2>3. PhasesTyped'
    BY <1>0, <1>6 DEF PhasesTyped, Die, CutOff, Listening, Alive, Over
  <2>4. QueuesTyped'
    BY <1>0, <1>6 DEF QueuesTyped, NamesTyped, Die, CutOff
  <2>5. ClientsTyped'
    BY <1>0, <1>6 DEF ClientsTyped, Die, CutOff
  <2>6. ServingTyped'
    BY <1>0, <1>6 DEF ServingTyped, PhasesTyped, QueuesTyped, ClientsTyped, Die, CutOff, Listening, Alive
  <2> QED BY <2>1, <2>2, <2>3, <2>4, <2>5, <2>6, TypeParts, PTL
<1>7. ASSUME NEW d \in Daemon, Accept(d) PROVE TypeInv'
  <2>1. FileTyped'
    BY <1>0, <1>7 DEF FileTyped, ServingTyped, Accept
  <2>2. NamesTyped'
    BY <1>0, <1>7 DEF NamesTyped, Accept
  <2>3. PhasesTyped'
    BY <1>0, <1>7 DEF PhasesTyped, Accept, Listening, Alive, Over
  <2>4. QueuesTyped'
    BY <1>0, <1>7 DEF QueuesTyped, NamesTyped, Accept
  <2>5. ClientsTyped'
    BY <1>0, <1>7 DEF ClientsTyped, Accept
  <2>6. ServingTyped'
    BY <1>0, <1>7 DEF ServingTyped, PhasesTyped, QueuesTyped, ClientsTyped, Accept, Listening, Alive
  <2> QED BY <2>1, <2>2, <2>3, <2>4, <2>5, <2>6, TypeParts, PTL
<1>8. ASSUME NEW d \in Daemon, ReadToEof(d) PROVE TypeInv'
  <2>1. FileTyped'
    BY <1>0, <1>8 DEF FileTyped, ServingTyped, ReadToEof
  <2>2. NamesTyped'
    BY <1>0, <1>8 DEF NamesTyped, ReadToEof
  <2>3. PhasesTyped'
    BY <1>0, <1>8 DEF PhasesTyped, ReadToEof, Listening, Alive, Over
  <2>4. QueuesTyped'
    BY <1>0, <1>8 DEF QueuesTyped, NamesTyped, ReadToEof
  <2>5. ClientsTyped'
    BY <1>0, <1>8 DEF ClientsTyped, ReadToEof
  <2>6. ServingTyped'
    <3>1. serving[d] # None /\ serving' = serving
      BY <1>0, <1>8 DEF ReadToEof, ServingTyped, Listening
    <3>2. CASE conn[serving[d]] = "whole" /\ EnterD(d, "writing")
      <4>1. serving[d] \in Msg
        BY <1>0, <3>1, <3>2 DEF ServingTyped, ClientsTyped
      <4> QED BY <1>0, <3>1, <3>2, <4>1 DEF ServingTyped, PhasesTyped, Listening
    <3>3. CASE EnterD(d, "refused")
      BY <1>0, <3>1, <3>3 DEF ServingTyped, PhasesTyped, Listening
    <3> QED BY <1>8, <3>2, <3>3 DEF ReadToEof
  <2> QED BY <2>1, <2>2, <2>3, <2>4, <2>5, <2>6, TypeParts, PTL
<1>9. ASSUME NEW d \in Daemon, Write(d) PROVE TypeInv'
  <2>1. FileTyped'
    BY <1>0, <1>9, PiecesFit DEF FileTyped, ServingTyped, Write
  <2>2. NamesTyped'
    BY <1>0, <1>9 DEF NamesTyped, Write
  <2>3. PhasesTyped'
    BY <1>0, <1>9 DEF PhasesTyped, Write, Listening, Alive, Over
  <2>4. QueuesTyped'
    BY <1>0, <1>9 DEF QueuesTyped, NamesTyped, Write
  <2>5. ClientsTyped'
    BY <1>0, <1>9 DEF ClientsTyped, Write
  <2>6. ServingTyped'
    BY <1>0, <1>9 DEF ServingTyped, PhasesTyped, QueuesTyped, ClientsTyped, Write, Listening, Alive
  <2> QED BY <2>1, <2>2, <2>3, <2>4, <2>5, <2>6, TypeParts, PTL
<1>10. ASSUME NEW d \in Daemon, Fault(d) PROVE TypeInv'
  <2>1. FileTyped'
    BY <1>0, <1>10 DEF FileTyped, ServingTyped, Fault
  <2>2. NamesTyped'
    BY <1>0, <1>10 DEF NamesTyped, Fault
  <2>3. PhasesTyped'
    BY <1>0, <1>10 DEF PhasesTyped, Fault, Listening, Alive, Over
  <2>4. QueuesTyped'
    BY <1>0, <1>10 DEF QueuesTyped, NamesTyped, Fault
  <2>5. ClientsTyped'
    BY <1>0, <1>10 DEF ClientsTyped, Fault
  <2>6. ServingTyped'
    BY <1>0, <1>10 DEF ServingTyped, PhasesTyped, QueuesTyped, ClientsTyped, Fault, Listening, Alive
  <2> QED BY <2>1, <2>2, <2>3, <2>4, <2>5, <2>6, TypeParts, PTL
<1>11. ASSUME NEW d \in Daemon, WriteAgain(d) PROVE TypeInv'
  <2>1. FileTyped'
    BY <1>0, <1>11, PiecesFit DEF FileTyped, ServingTyped, WriteAgain
  <2>2. NamesTyped'
    BY <1>0, <1>11 DEF NamesTyped, WriteAgain
  <2>3. PhasesTyped'
    BY <1>0, <1>11 DEF PhasesTyped, WriteAgain, Listening, Alive, Over
  <2>4. QueuesTyped'
    BY <1>0, <1>11 DEF QueuesTyped, NamesTyped, WriteAgain
  <2>5. ClientsTyped'
    BY <1>0, <1>11 DEF ClientsTyped, WriteAgain
  <2>6. ServingTyped'
    BY <1>0, <1>11 DEF ServingTyped, PhasesTyped, QueuesTyped, ClientsTyped, WriteAgain, Listening, Alive
  <2> QED BY <2>1, <2>2, <2>3, <2>4, <2>5, <2>6, TypeParts, PTL
<1>12. ASSUME NEW d \in Daemon, Sync(d) PROVE TypeInv'
  <2>1. FileTyped'
    BY <1>0, <1>12 DEF FileTyped, ServingTyped, Sync
  <2>2. NamesTyped'
    BY <1>0, <1>12 DEF NamesTyped, Sync
  <2>3. PhasesTyped'
    BY <1>0, <1>12 DEF PhasesTyped, Sync, Listening, Alive, Over
  <2>4. QueuesTyped'
    BY <1>0, <1>12 DEF QueuesTyped, NamesTyped, Sync
  <2>5. ClientsTyped'
    BY <1>0, <1>12 DEF ClientsTyped, Sync
  <2>6. ServingTyped'
    BY <1>0, <1>12 DEF ServingTyped, PhasesTyped, QueuesTyped, ClientsTyped, Sync, Listening, Alive
  <2> QED BY <2>1, <2>2, <2>3, <2>4, <2>5, <2>6, TypeParts, PTL
<1>13. ASSUME NEW d \in Daemon, Reply(d) PROVE TypeInv'
  <2>1. FileTyped'
    BY <1>0, <1>13 DEF FileTyped, ServingTyped, Reply
  <2>2. NamesTyped'
    BY <1>0, <1>13 DEF NamesTyped, Reply
  <2>3. PhasesTyped'
    BY <1>0, <1>13 DEF PhasesTyped, Reply, Listening, Alive, Over
  <2>4. QueuesTyped'
    BY <1>0, <1>13 DEF QueuesTyped, NamesTyped, Reply
  <2>5. ClientsTyped'
    BY <1>0, <1>13 DEF ClientsTyped, Reply
  <2>6. ServingTyped'
    BY <1>0, <1>13 DEF ServingTyped, PhasesTyped, QueuesTyped, ClientsTyped, Reply, Listening, Alive
  <2> QED BY <2>1, <2>2, <2>3, <2>4, <2>5, <2>6, TypeParts, PTL
<1>14. ASSUME NEW m \in Msg, Connect(m) PROVE TypeInv'
  <2>1. FileTyped'
    BY <1>0, <1>14 DEF FileTyped, ServingTyped, Connect, Arrive, Reachable
  <2>2. NamesTyped'
    BY <1>0, <1>14 DEF NamesTyped, Connect, Arrive, Reachable
  <2>3. PhasesTyped'
    BY <1>0, <1>14 DEF PhasesTyped, Connect, Arrive, Reachable, Listening, Alive, Over
  <2>4. QueuesTyped'
    <3>1. CASE queue' = queue
      BY <1>0, <3>1 DEF QueuesTyped
    <3>2. CASE Reachable /\ Arrive(m)
      BY <1>0, <3>2 DEF QueuesTyped, NamesTyped, Arrive, Reachable
    <3> QED BY <1>14, <3>1, <3>2 DEF Connect
  <2>5. ClientsTyped'
    BY <1>0, <1>14 DEF ClientsTyped, Connect, Arrive, Reachable
  <2>6. ServingTyped'
    BY <1>0, <1>14 DEF ServingTyped, PhasesTyped, QueuesTyped, ClientsTyped, Connect, Arrive, Reachable, Listening, Alive
  <2> QED BY <2>1, <2>2, <2>3, <2>4, <2>5, <2>6, TypeParts, PTL
<1>15. ASSUME NEW m \in Msg, Send(m) PROVE TypeInv'
  <2>1. FileTyped'
    BY <1>0, <1>15 DEF FileTyped, ServingTyped, Send
  <2>2. NamesTyped'
    BY <1>0, <1>15 DEF NamesTyped, Send
  <2>3. PhasesTyped'
    BY <1>0, <1>15 DEF PhasesTyped, Send, Listening, Alive, Over
  <2>4. QueuesTyped'
    BY <1>0, <1>15 DEF QueuesTyped, NamesTyped, Send
  <2>5. ClientsTyped'
    BY <1>0, <1>15 DEF ClientsTyped, Send
  <2>6. ServingTyped'
    BY <1>0, <1>15 DEF ServingTyped, PhasesTyped, QueuesTyped, ClientsTyped, Send, Listening, Alive
  <2> QED BY <2>1, <2>2, <2>3, <2>4, <2>5, <2>6, TypeParts, PTL
<1>16. ASSUME NEW m \in Msg, GiveUp(m) PROVE TypeInv'
  <2>1. FileTyped'
    BY <1>0, <1>16 DEF FileTyped, ServingTyped, GiveUp
  <2>2. NamesTyped'
    BY <1>0, <1>16 DEF NamesTyped, GiveUp
  <2>3. PhasesTyped'
    BY <1>0, <1>16 DEF PhasesTyped, GiveUp, Listening, Alive, Over
  <2>4. QueuesTyped'
    BY <1>0, <1>16 DEF QueuesTyped, NamesTyped, GiveUp
  <2>5. ClientsTyped'
    BY <1>0, <1>16 DEF ClientsTyped, GiveUp
  <2>6. ServingTyped'
    BY <1>0, <1>16 DEF ServingTyped, PhasesTyped, QueuesTyped, ClientsTyped, GiveUp, Listening, Alive
  <2> QED BY <2>1, <2>2, <2>3, <2>4, <2>5, <2>6, TypeParts, PTL
<1>17. ASSUME NEW m \in Msg, Receive(m) PROVE TypeInv'
  <2>1. FileTyped'
    BY <1>0, <1>17 DEF FileTyped, ServingTyped, Receive
  <2>2. NamesTyped'
    BY <1>0, <1>17 DEF NamesTyped, Receive
  <2>3. PhasesTyped'
    BY <1>0, <1>17 DEF PhasesTyped, Receive, Listening, Alive, Over
  <2>4. QueuesTyped'
    BY <1>0, <1>17 DEF QueuesTyped, NamesTyped, Receive
  <2>5. ClientsTyped'
    BY <1>0, <1>17 DEF ClientsTyped, Receive
  <2>6. ServingTyped'
    BY <1>0, <1>17 DEF ServingTyped, PhasesTyped, QueuesTyped, ClientsTyped, Receive, Listening, Alive
  <2> QED BY <2>1, <2>2, <2>3, <2>4, <2>5, <2>6, TypeParts, PTL
<1>18. ASSUME NEW m \in Msg, Direct(m) PROVE TypeInv'
  <2>1. FileTyped'
    <3>1. \/ file' = file
          \/ file' = file \o Line(m)
          \/ \E k \in {1, 2} : file' = Append(file, Line(m)[k])
      BY <1>18 DEF Direct
    <3>2. file' \in Seq(Piece) /\ Len(file') >= Len(file) /\ Len(file) \in Nat
      <4>1. file \in Seq(Piece)
        BY <1>0 DEF FileTyped
      <4>2. CASE file' = file
        BY <4>1, <4>2
      <4>3. CASE file' = file \o Line(m)
        BY <4>1, <4>3, PiecesFit
      <4>4. ASSUME NEW k \in {1, 2}, file' = Append(file, Line(m)[k])
            PROVE  file' \in Seq(Piece) /\ Len(file') >= Len(file)
        BY <4>1, <4>4, PiecesFit
      <4> QED BY <3>1, <4>1, <4>2, <4>3, <4>4
    <3> QED BY <1>0, <1>18, <3>2 DEF FileTyped, Direct
  <2>2. NamesTyped'
    BY <1>0, <1>18 DEF NamesTyped, Direct
  <2>3. PhasesTyped'
    BY <1>0, <1>18 DEF PhasesTyped, Direct, Listening, Alive, Over
  <2>4. QueuesTyped'
    BY <1>0, <1>18 DEF QueuesTyped, NamesTyped, Direct
  <2>5. ClientsTyped'
    BY <1>0, <1>18 DEF ClientsTyped, Direct
  <2>6. ServingTyped'
    BY <1>0, <1>18 DEF ServingTyped, PhasesTyped, QueuesTyped, ClientsTyped, Direct, Listening, Alive
  <2> QED BY <2>1, <2>2, <2>3, <2>4, <2>5, <2>6, TypeParts, PTL
<1>19. ASSUME NEW m \in Msg, DirectSync(m) PROVE TypeInv'
  <2>1. FileTyped'
    BY <1>0, <1>19 DEF FileTyped, ServingTyped, DirectSync
  <2>2. NamesTyped'
    BY <1>0, <1>19 DEF NamesTyped, DirectSync
  <2>3. PhasesTyped'
    BY <1>0, <1>19 DEF PhasesTyped, DirectSync, Listening, Alive, Over
  <2>4. QueuesTyped'
    BY <1>0, <1>19 DEF QueuesTyped, NamesTyped, DirectSync
  <2>5. ClientsTyped'
    BY <1>0, <1>19 DEF ClientsTyped, DirectSync
  <2>6. ServingTyped'
    BY <1>0, <1>19 DEF ServingTyped, PhasesTyped, QueuesTyped, ClientsTyped, DirectSync, Listening, Alive
  <2> QED BY <2>1, <2>2, <2>3, <2>4, <2>5, <2>6, TypeParts, PTL
<1>20. ASSUME NEW g \in Guest, GuestConnect(g) PROVE TypeInv'
  <2>1. FileTyped'
    BY <1>0, <1>20 DEF FileTyped, ServingTyped, GuestConnect, Arrive, Reachable
  <2>2. NamesTyped'
    BY <1>0, <1>20 DEF NamesTyped, GuestConnect, Arrive, Reachable
  <2>3. PhasesTyped'
    BY <1>0, <1>20 DEF PhasesTyped, GuestConnect, Arrive, Reachable, Listening, Alive, Over
  <2>4. QueuesTyped'
    BY <1>0, <1>20 DEF QueuesTyped, NamesTyped, GuestConnect, Arrive, Reachable
  <2>5. ClientsTyped'
    BY <1>0, <1>20 DEF ClientsTyped, GuestConnect, Arrive, Reachable
  <2>6. ServingTyped'
    BY <1>0, <1>20 DEF ServingTyped, PhasesTyped, QueuesTyped, ClientsTyped, GuestConnect, Arrive, Reachable, Listening, Alive
  <2> QED BY <2>1, <2>2, <2>3, <2>4, <2>5, <2>6, TypeParts, PTL
<1>21. ASSUME NEW g \in Guest, GuestCloses(g) PROVE TypeInv'
  <2>1. FileTyped'
    BY <1>0, <1>21 DEF FileTyped, ServingTyped, GuestCloses
  <2>2. NamesTyped'
    BY <1>0, <1>21 DEF NamesTyped, GuestCloses
  <2>3. PhasesTyped'
    BY <1>0, <1>21 DEF PhasesTyped, GuestCloses, Listening, Alive, Over
  <2>4. QueuesTyped'
    BY <1>0, <1>21 DEF QueuesTyped, NamesTyped, GuestCloses
  <2>5. ClientsTyped'
    BY <1>0, <1>21 DEF ClientsTyped, GuestCloses
  <2>6. ServingTyped'
    BY <1>0, <1>21 DEF ServingTyped, PhasesTyped, QueuesTyped, ClientsTyped, GuestCloses, Listening, Alive
  <2> QED BY <2>1, <2>2, <2>3, <2>4, <2>5, <2>6, TypeParts, PTL
<1>22. ASSUME FreeSpace PROVE TypeInv'
  <2>1. FileTyped'
    BY <1>0, <1>22 DEF FileTyped, ServingTyped, FreeSpace
  <2>2. NamesTyped'
    BY <1>0, <1>22 DEF NamesTyped, FreeSpace
  <2>3. PhasesTyped'
    BY <1>0, <1>22 DEF PhasesTyped, FreeSpace, Listening, Alive, Over
  <2>4. QueuesTyped'
    BY <1>0, <1>22 DEF QueuesTyped, NamesTyped, FreeSpace
  <2>5. ClientsTyped'
    BY <1>0, <1>22 DEF ClientsTyped, FreeSpace
  <2>6. ServingTyped'
    BY <1>0, <1>22 DEF ServingTyped, PhasesTyped, QueuesTyped, ClientsTyped, FreeSpace, Listening, Alive
  <2> QED BY <2>1, <2>2, <2>3, <2>4, <2>5, <2>6, TypeParts, PTL
<1>23. ASSUME Crash PROVE TypeInv'
  <2>1. FileTyped'
    BY <1>0, <1>23 DEF FileTyped, ServingTyped, Crash
  <2>2. NamesTyped'
    BY <1>0, <1>23 DEF NamesTyped, Crash
  <2>3. PhasesTyped'
    BY <1>0, <1>23 DEF PhasesTyped, Crash, Listening, Alive, Over
  <2>4. QueuesTyped'
    BY <1>0, <1>23 DEF QueuesTyped, NamesTyped, Crash
  <2>5. ClientsTyped'
    BY <1>0, <1>23 DEF ClientsTyped, Crash
  <2>6. ServingTyped'
    BY <1>0, <1>23 DEF ServingTyped, PhasesTyped, QueuesTyped, ClientsTyped, Crash, Listening, Alive
  <2> QED BY <2>1, <2>2, <2>3, <2>4, <2>5, <2>6, TypeParts, PTL
<1> QED
  BY <1>1, <1>2, <1>3, <1>4, <1>5, <1>6, <1>7, <1>8, <1>9, <1>10, <1>11, <1>12, <1>13, <1>14, <1>15,
     <1>16, <1>17, <1>18, <1>19, <1>20, <1>21, <1>22, <1>23 DEF Next, DaemonStep, Client

-------------------------------------------------------------------------------
\* After a whole line has been appended, it is in one piece.
LEMMA AppendedWhole ==
  ASSUME NEW m \in Msg, file \in Seq(Piece), file' = file \o Line(m)
  PROVE  /\ m \in Filed'
         /\ Len(file') = Len(file) + 2
         /\ \A i \in 1 .. Len(file) : file'[i] = file[i]
<1> DEFINE line == <<<<m, 1>>, <<m, 2>>>>
<1>1. line \in Seq(Piece) /\ Len(line) = 2 /\ line[1] = <<m, 1>> /\ line[2] = <<m, 2>>
  BY DEF Piece
<1> HIDE DEF line
<1>2. /\ Len(file') = Len(file) + 2
      /\ \A i \in 1 .. Len(file) + 2 : file'[i] = IF i <= Len(file) THEN file[i] ELSE line[i - Len(file)]
  <2>1. file' = file \o line
    BY DEF Line, line
  <2> QED BY <1>1, <2>1, ConcatProperties
<1>3. Len(file) \in Nat
  OBVIOUS
<1>4. file'[Len(file) + 1] = <<m, 1>> /\ file'[Len(file) + 1 + 1] = <<m, 2>>
  <2>1. Len(file) + 1 \in 1 .. Len(file) + 2 /\ Len(file) + 1 + 1 \in 1 .. Len(file) + 2
    BY <1>3
  <2>2. file'[Len(file) + 1] = line[Len(file) + 1 - Len(file)]
    BY <1>2, <1>3, <2>1
  <2>3. file'[Len(file) + 1 + 1] = line[Len(file) + 1 + 1 - Len(file)]
    BY <1>2, <1>3, <2>1
  <2>4. Len(file) + 1 - Len(file) = 1 /\ Len(file) + 1 + 1 - Len(file) = 2
    BY <1>3
  <2> QED BY <1>1, <2>2, <2>3, <2>4
<1>5. Len(file) + 1 \in 1 .. Len(file') - 1
  BY <1>2, <1>3
<1>6. m \in Filed'
  BY <1>4, <1>5 DEF Filed, WholeIn
<1> QED BY <1>2, <1>3, <1>6

\* If the file grows, what was whole is.
LEMMA Grown ==
  ASSUME FileTyped, FileTyped', Len(file) <= Len(file'), synced <= synced',
         \A i \in 1 .. Len(file) : file'[i] = file[i]
  PROVE  Filed \subseteq Filed' /\ Safe \subseteq Safe'
<1>1. Len(file) \in Nat /\ Len(file') \in Nat /\ synced \in Nat /\ synced' \in Nat /\ synced <= Len(file)
  BY DEF FileTyped
<1>2. \A i \in 1 .. synced : file'[i] = file[i]
  BY <1>1
<1>3. ASSUME NEW m \in Filed PROVE m \in Filed'
  <2>1. PICK i \in 1 .. Len(file) - 1 : file[i] = <<m, 1>> /\ file[i + 1] = <<m, 2>>
    BY <1>3 DEF Filed, WholeIn
  <2>2. i \in 1 .. Len(file') - 1 /\ file'[i] = <<m, 1>> /\ file'[i + 1] = <<m, 2>>
    BY <1>1, <2>1
  <2> QED BY <1>3, <2>2 DEF Filed, WholeIn
<1>4. ASSUME NEW m \in Safe PROVE m \in Safe'
  <2>1. PICK i \in 1 .. synced - 1 : file[i] = <<m, 1>> /\ file[i + 1] = <<m, 2>>
    BY <1>4 DEF Safe, WholeIn
  <2>2. synced \in Nat /\ synced' \in Nat
    BY DEF FileTyped
  <2>3. i \in 1 .. synced /\ i + 1 \in 1 .. synced /\ i \in 1 .. synced' - 1
    BY <2>2
  <2>4. file'[i] = <<m, 1>> /\ file'[i + 1] = <<m, 2>>
    BY <1>2, <2>1, <2>3
  <2> QED BY <1>4, <2>3, <2>4 DEF Safe, WholeIn
<1> QED BY <1>3, <1>4
\* fsync makes safe what is whole.
LEMMA Synced ==
  ASSUME FileTyped, file' = file, synced' = Len(file)
  PROVE  Safe' = Filed' /\ Filed \subseteq Filed' /\ Safe \subseteq Safe'
<1>1. Len(file) \in Nat /\ synced \in 0 .. Len(file)
  BY DEF FileTyped
<1>2. Safe' = Filed' /\ Filed' = Filed
  BY DEF Safe, Filed, WholeIn
<1>3. Safe \subseteq Filed
  BY <1>1 DEF Safe, Filed, WholeIn
<1> QED BY <1>2, <1>3

-------------------------------------------------------------------------------
LEMMA StoredInitially == ASSUME Init PROVE StoredInv
BY DEF Init, StoredInv, Told, Wrote

LEMMA StoredStep ==
  ASSUME MemoryConstants, ~DiskFills, TypeInv, TypeInv', StoredInv, [Next]_vars
  PROVE  StoredInv'
<1> USE DEF EnterD, Enter, disk, names, daemons, clients
<1>0. /\ FileTyped /\ PhasesTyped /\ ClientsTyped /\ ServingTyped
      /\ FileTyped' /\ PhasesTyped' /\ ClientsTyped' /\ ServingTyped'
  BY TypeParts, PTL
\* As long as the file and what is synced of it stay, so does every whole line.
<1>1. ASSUME UNCHANGED <<file, synced>>
      PROVE  Filed \subseteq Filed' /\ Safe \subseteq Safe'
  BY <1>1 DEF Filed, Safe, WholeIn
<1>2. CASE UNCHANGED vars
  BY <1>1, <1>2 DEF vars, StoredInv, Told, Wrote
<1>3. ASSUME NEW d \in Daemon, Check(d) PROVE StoredInv'
  <2>1. Filed \subseteq Filed' /\ Safe \subseteq Safe'
    BY <1>1, <1>3 DEF Check
  <2>2. ASSUME NEW o \in Msg PROVE Told(o)'
    BY <1>0, <1>3, <2>1 DEF StoredInv, Told, Wrote, PhasesTyped, ClientsTyped, Check
  <2>3. ASSUME NEW e \in Daemon PROVE Wrote(e)'
    BY <1>0, <1>3, <2>1 DEF StoredInv, Wrote, PhasesTyped, ServingTyped, Check
  <2> QED BY <2>2, <2>3 DEF StoredInv
<1>4. ASSUME NEW d \in Daemon, Unlink(d) PROVE StoredInv'
  <2>1. Filed \subseteq Filed' /\ Safe \subseteq Safe'
    BY <1>1, <1>4 DEF Unlink
  <2>2. ASSUME NEW o \in Msg PROVE Told(o)'
    BY <1>0, <1>4, <2>1 DEF StoredInv, Told, Wrote, PhasesTyped, ClientsTyped, Unlink
  <2>3. ASSUME NEW e \in Daemon PROVE Wrote(e)'
    BY <1>0, <1>4, <2>1 DEF StoredInv, Wrote, PhasesTyped, ServingTyped, Unlink
  <2> QED BY <2>2, <2>3 DEF StoredInv
<1>5. ASSUME NEW d \in Daemon, Bind(d) PROVE StoredInv'
  <2>1. Filed \subseteq Filed' /\ Safe \subseteq Safe'
    BY <1>1, <1>5 DEF Bind
  <2>2. ASSUME NEW o \in Msg PROVE Told(o)'
    BY <1>0, <1>5, <2>1 DEF StoredInv, Told, Wrote, PhasesTyped, ClientsTyped, Bind
  <2>3. ASSUME NEW e \in Daemon PROVE Wrote(e)'
    BY <1>0, <1>5, <2>1 DEF StoredInv, Wrote, PhasesTyped, ServingTyped, Bind
  <2> QED BY <2>2, <2>3 DEF StoredInv
<1>6. ASSUME NEW d \in Daemon, WritePid(d) PROVE StoredInv'
  <2>1. Filed \subseteq Filed' /\ Safe \subseteq Safe'
    BY <1>1, <1>6 DEF WritePid
  <2>2. ASSUME NEW o \in Msg PROVE Told(o)'
    BY <1>0, <1>6, <2>1 DEF StoredInv, Told, Wrote, PhasesTyped, ClientsTyped, WritePid
  <2>3. ASSUME NEW e \in Daemon PROVE Wrote(e)'
    BY <1>0, <1>6, <2>1 DEF StoredInv, Wrote, PhasesTyped, ServingTyped, WritePid
  <2> QED BY <2>2, <2>3 DEF StoredInv
<1>7. ASSUME NEW d \in Daemon, Die(d) PROVE StoredInv'
  <2>1. Filed \subseteq Filed' /\ Safe \subseteq Safe'
    BY <1>1, <1>7 DEF Die
  <2>2. ASSUME NEW o \in Msg PROVE Told(o)'
    BY <1>0, <1>7, <2>1 DEF StoredInv, Told, Wrote, PhasesTyped, ClientsTyped, Die, CutOff
  <2>3. ASSUME NEW e \in Daemon PROVE Wrote(e)'
    BY <1>0, <1>7, <2>1 DEF StoredInv, Wrote, PhasesTyped, ServingTyped, Die, CutOff
  <2> QED BY <2>2, <2>3 DEF StoredInv
<1>8. ASSUME NEW d \in Daemon, Accept(d) PROVE StoredInv'
  <2>1. Filed \subseteq Filed' /\ Safe \subseteq Safe'
    BY <1>1, <1>8 DEF Accept
  <2>2. ASSUME NEW o \in Msg PROVE Told(o)'
    BY <1>0, <1>8, <2>1 DEF StoredInv, Told, Wrote, PhasesTyped, ClientsTyped, Accept
  <2>3. ASSUME NEW e \in Daemon PROVE Wrote(e)'
    BY <1>0, <1>8, <2>1 DEF StoredInv, Wrote, PhasesTyped, ServingTyped, Accept
  <2> QED BY <2>2, <2>3 DEF StoredInv
<1>9. ASSUME NEW d \in Daemon, ReadToEof(d) PROVE StoredInv'
  <2>1. Filed \subseteq Filed' /\ Safe \subseteq Safe'
    BY <1>1, <1>9 DEF ReadToEof
  <2>2. ASSUME NEW o \in Msg PROVE Told(o)'
    BY <1>0, <1>9, <2>1 DEF StoredInv, Told, Wrote, PhasesTyped, ClientsTyped, ReadToEof
  <2>3. ASSUME NEW e \in Daemon PROVE Wrote(e)'
    BY <1>0, <1>9, <2>1 DEF StoredInv, Wrote, PhasesTyped, ServingTyped, ReadToEof
  <2> QED BY <2>2, <2>3 DEF StoredInv
<1>10. ASSUME NEW d \in Daemon, Fault(d) PROVE StoredInv'
  <2>1. Filed \subseteq Filed' /\ Safe \subseteq Safe'
    BY <1>1, <1>10 DEF Fault
  <2>2. ASSUME NEW o \in Msg PROVE Told(o)'
    BY <1>0, <1>10, <2>1 DEF StoredInv, Told, Wrote, PhasesTyped, ClientsTyped, Fault
  <2>3. ASSUME NEW e \in Daemon PROVE Wrote(e)'
    BY <1>0, <1>10, <2>1 DEF StoredInv, Wrote, PhasesTyped, ServingTyped, Fault
  <2> QED BY <2>2, <2>3 DEF StoredInv
<1>11. ASSUME NEW d \in Daemon, Reply(d) PROVE StoredInv'
  <2>1. Filed \subseteq Filed' /\ Safe \subseteq Safe'
    BY <1>1, <1>11 DEF Reply
  <2>2. ASSUME NEW o \in Msg PROVE Told(o)'
    BY <1>0, <1>11, <2>1 DEF StoredInv, Told, Wrote, PhasesTyped, ClientsTyped, Reply
  <2>3. ASSUME NEW e \in Daemon PROVE Wrote(e)'
    BY <1>0, <1>11, <2>1 DEF StoredInv, Wrote, PhasesTyped, ServingTyped, Reply
  <2> QED BY <2>2, <2>3 DEF StoredInv
<1>12. ASSUME NEW m \in Msg, Connect(m) PROVE StoredInv'
  <2>1. Filed \subseteq Filed' /\ Safe \subseteq Safe'
    BY <1>1, <1>12 DEF Connect
  <2>2. ASSUME NEW o \in Msg PROVE Told(o)'
    BY <1>0, <1>12, <2>1 DEF StoredInv, Told, Wrote, PhasesTyped, ClientsTyped, Connect, Arrive
  <2>3. ASSUME NEW e \in Daemon PROVE Wrote(e)'
    BY <1>0, <1>12, <2>1 DEF StoredInv, Wrote, PhasesTyped, ServingTyped, Connect, Arrive
  <2> QED BY <2>2, <2>3 DEF StoredInv
<1>13. ASSUME NEW m \in Msg, Send(m) PROVE StoredInv'
  <2>1. Filed \subseteq Filed' /\ Safe \subseteq Safe'
    BY <1>1, <1>13 DEF Send
  <2>2. ASSUME NEW o \in Msg PROVE Told(o)'
    BY <1>0, <1>13, <2>1 DEF StoredInv, Told, Wrote, PhasesTyped, ClientsTyped, Send
  <2>3. ASSUME NEW e \in Daemon PROVE Wrote(e)'
    BY <1>0, <1>13, <2>1 DEF StoredInv, Wrote, PhasesTyped, ServingTyped, Send
  <2> QED BY <2>2, <2>3 DEF StoredInv
<1>14. ASSUME NEW m \in Msg, GiveUp(m) PROVE StoredInv'
  <2>1. Filed \subseteq Filed' /\ Safe \subseteq Safe'
    BY <1>1, <1>14 DEF GiveUp
  <2>2. ASSUME NEW o \in Msg PROVE Told(o)'
    BY <1>0, <1>14, <2>1 DEF StoredInv, Told, Wrote, PhasesTyped, ClientsTyped, GiveUp
  <2>3. ASSUME NEW e \in Daemon PROVE Wrote(e)'
    BY <1>0, <1>14, <2>1 DEF StoredInv, Wrote, PhasesTyped, ServingTyped, GiveUp
  <2> QED BY <2>2, <2>3 DEF StoredInv
<1>15. ASSUME NEW m \in Msg, Receive(m) PROVE StoredInv'
  <2>1. Filed \subseteq Filed' /\ Safe \subseteq Safe'
    BY <1>1, <1>15 DEF Receive
  <2>2. ASSUME NEW o \in Msg PROVE Told(o)'
    BY <1>0, <1>15, <2>1 DEF StoredInv, Told, Wrote, PhasesTyped, ClientsTyped, Receive
  <2>3. ASSUME NEW e \in Daemon PROVE Wrote(e)'
    BY <1>0, <1>15, <2>1 DEF StoredInv, Wrote, PhasesTyped, ServingTyped, Receive
  <2> QED BY <2>2, <2>3 DEF StoredInv
<1>16. ASSUME NEW g \in Guest, GuestConnect(g) PROVE StoredInv'
  <2>1. Filed \subseteq Filed' /\ Safe \subseteq Safe'
    BY <1>1, <1>16 DEF GuestConnect
  <2>2. ASSUME NEW o \in Msg PROVE Told(o)'
    BY <1>0, <1>16, <2>1 DEF StoredInv, Told, Wrote, PhasesTyped, ClientsTyped, GuestConnect, Arrive
  <2>3. ASSUME NEW e \in Daemon PROVE Wrote(e)'
    BY <1>0, <1>16, <2>1 DEF StoredInv, Wrote, PhasesTyped, ServingTyped, GuestConnect, Arrive
  <2> QED BY <2>2, <2>3 DEF StoredInv
<1>17. ASSUME NEW g \in Guest, GuestCloses(g) PROVE StoredInv'
  <2>1. Filed \subseteq Filed' /\ Safe \subseteq Safe'
    BY <1>1, <1>17 DEF GuestCloses
  <2>2. ASSUME NEW o \in Msg PROVE Told(o)'
    BY <1>0, <1>17, <2>1 DEF StoredInv, Told, Wrote, PhasesTyped, ClientsTyped, GuestCloses
  <2>3. ASSUME NEW e \in Daemon PROVE Wrote(e)'
    BY <1>0, <1>17, <2>1 DEF StoredInv, Wrote, PhasesTyped, ServingTyped, GuestCloses
  <2> QED BY <2>2, <2>3 DEF StoredInv
<1>18. ASSUME FreeSpace PROVE StoredInv'
  <2>1. Filed \subseteq Filed' /\ Safe \subseteq Safe'
    BY <1>1, <1>18 DEF FreeSpace
  <2>2. ASSUME NEW o \in Msg PROVE Told(o)'
    BY <1>0, <1>18, <2>1 DEF StoredInv, Told, Wrote, PhasesTyped, ClientsTyped, FreeSpace
  <2>3. ASSUME NEW e \in Daemon PROVE Wrote(e)'
    BY <1>0, <1>18, <2>1 DEF StoredInv, Wrote, PhasesTyped, ServingTyped, FreeSpace
  <2> QED BY <2>2, <2>3 DEF StoredInv
<1>19. ASSUME NEW d \in Daemon, Write(d) \/ WriteAgain(d) PROVE StoredInv'
  <2>1. serving[d] \in Msg /\ file' = file \o Line(serving[d]) /\ synced' = synced
    BY <1>0, <1>19 DEF Write, WriteAgain, Fits, ServingTyped
  <2>2. serving[d] \in Filed' /\ Filed \subseteq Filed' /\ Safe \subseteq Safe'
    <3>1. serving[d] \in Filed' /\ Len(file') = Len(file) + 2 /\ \A i \in 1 .. Len(file) : file'[i] = file[i]
      BY <1>0, <2>1, AppendedWhole DEF FileTyped
    <3>2. synced \in Nat /\ Len(file) \in Nat
      BY <1>0 DEF FileTyped
    <3> QED BY <1>0, <2>1, <3>1, <3>2, Grown
  <2>3. ASSUME NEW o \in Msg PROVE Told(o)'
    BY <1>0, <1>19, <2>2 DEF StoredInv, Told, Write, WriteAgain
  <2>4. ASSUME NEW e \in Daemon PROVE Wrote(e)'
    BY <1>0, <1>19, <2>2 DEF StoredInv, Wrote, PhasesTyped, ServingTyped, Write, WriteAgain
  <2> QED BY <2>3, <2>4 DEF StoredInv
<1>20. ASSUME NEW d \in Daemon, Sync(d) PROVE StoredInv'
  <2>1. Safe' = Filed' /\ Filed \subseteq Filed' /\ Safe \subseteq Safe'
    BY <1>0, <1>20, Synced DEF Sync
  <2>2. ASSUME NEW o \in Msg PROVE Told(o)'
    BY <1>0, <1>20, <2>1 DEF StoredInv, Told, Sync
  <2>3. ASSUME NEW e \in Daemon PROVE Wrote(e)'
    BY <1>0, <1>20, <2>1 DEF StoredInv, Wrote, PhasesTyped, ServingTyped, Sync
  <2> QED BY <2>2, <2>3 DEF StoredInv
<1>21. ASSUME NEW m \in Msg, Direct(m) PROVE StoredInv'
  <2>1. phase[m] = "direct" /\ file' = file \o Line(m) /\ synced' = synced /\ Enter(m, "complete")
    BY <1>21 DEF Direct, Fits, StoredInv, Told
  <2>2. m \in Filed' /\ Filed \subseteq Filed' /\ Safe \subseteq Safe'
    <3>1. m \in Filed' /\ Len(file') = Len(file) + 2 /\ \A i \in 1 .. Len(file) : file'[i] = file[i]
      BY <1>0, <2>1, AppendedWhole DEF FileTyped
    <3>2. synced \in Nat /\ Len(file) \in Nat
      BY <1>0 DEF FileTyped
    <3> QED BY <1>0, <2>1, <3>1, <3>2, Grown
  <2>3. ASSUME NEW o \in Msg PROVE Told(o)'
    BY <1>0, <1>21, <2>1, <2>2 DEF StoredInv, Told, PhasesTyped, Direct
  <2>4. ASSUME NEW e \in Daemon PROVE Wrote(e)'
    BY <1>0, <1>21, <2>2 DEF StoredInv, Wrote, Direct
  <2> QED BY <2>3, <2>4 DEF StoredInv
<1>22. ASSUME NEW m \in Msg, DirectSync(m) PROVE StoredInv'
  <2>1. Safe' = Filed' /\ Filed \subseteq Filed' /\ Safe \subseteq Safe'
    BY <1>0, <1>22, Synced DEF DirectSync
  <2>2. ASSUME NEW o \in Msg PROVE Told(o)'
    BY <1>0, <1>22, <2>1 DEF StoredInv, Told, PhasesTyped, DirectSync
  <2>3. ASSUME NEW e \in Daemon PROVE Wrote(e)'
    BY <1>0, <1>22, <2>1 DEF StoredInv, Wrote, DirectSync
  <2> QED BY <2>2, <2>3 DEF StoredInv
<1>23. ASSUME Crash PROVE StoredInv'
  <2>1. Safe \subseteq Safe'
    <3>1. PICK n \in synced .. Len(file) : file' = SubSeq(file, 1, n)
      BY <1>23 DEF Crash
    <3>2. synced \in Nat /\ Len(file) \in Nat /\ n \in Nat /\ synced <= n
      BY <1>0 DEF FileTyped
    <3>3. Len(file') = n /\ \A i \in 1 .. n : file'[i] = file[i]
      BY <1>0, <3>1, <3>2 DEF FileTyped
    <3>4. synced' = n
      BY <1>23, <3>3 DEF Crash
    <3>5. ASSUME NEW o \in Safe PROVE o \in Safe'
      <4>1. PICK i \in 1 .. synced - 1 : file[i] = <<o, 1>> /\ file[i + 1] = <<o, 2>>
        BY <3>5 DEF Safe, WholeIn
      <4>2. i \in 1 .. synced' - 1 /\ file'[i] = <<o, 1>> /\ file'[i + 1] = <<o, 2>>
        BY <3>2, <3>3, <3>4, <4>1
      <4> QED BY <3>5, <4>2 DEF Safe, WholeIn
    <3> QED BY <3>5
  <2>2. ASSUME NEW o \in Msg PROVE Told(o)'
    BY <1>0, <1>23, <2>1 DEF StoredInv, Told, PhasesTyped, Crash, Over
  <2>3. ASSUME NEW e \in Daemon PROVE Wrote(e)'
    BY <1>0, <1>23 DEF Wrote, PhasesTyped, Crash, Alive
  <2> QED BY <2>2, <2>3 DEF StoredInv
<1> QED
  BY <1>2, <1>3, <1>4, <1>5, <1>6, <1>7, <1>8, <1>9, <1>10, <1>11, <1>12, <1>13, <1>14, <1>15,
     <1>16, <1>17, <1>18, <1>19, <1>20, <1>21, <1>22, <1>23 DEF Next, DaemonStep, Client

-------------------------------------------------------------------------------
\* The type invariant, with the relation between what a daemon does and the
\* connection it works on, holds of every state (run, append).
THEOREM MemoryTyped == ASSUME MemoryConstants PROVE Spec => []TypeOK
<1>1. Init => TypeInv
  BY TypeInitially
<1>2. TypeInv /\ [Next]_vars => TypeInv'
  BY TypeStep
<1>3. TypeInv => TypeOK
  BY DEF TypeInv
<1> QED BY <1>1, <1>2, <1>3, PTL DEF Spec

\* Where the disk does not fill up, every append that came back to its caller has
\* its line in one piece in the part of the file that no crash takes: for any
\* number of clients, foreign connections, daemons, crashes and failed attempts
\* (append, _try_daemon, _atomic_append and the daemon's _append).
THEOREM ReturnedIsStoredWhole ==
  ASSUME MemoryConstants, ~DiskFills PROVE Spec => []StoredWhole
<1> DEFINE Inv == TypeInv /\ StoredInv
<1>1. Init => Inv
  BY TypeInitially, StoredInitially
<1>2. Inv /\ [Next]_vars => Inv'
  <2>1. TypeInv /\ [Next]_vars => TypeInv'
    BY TypeStep
  <2> QED BY <2>1, StoredStep
<1>3. Inv => StoredWhole
  BY DEF StoredInv, Told, Safe, StoredWhole
<1> QED BY <1>1, <1>2, <1>3, PTL DEF Spec

-------------------------------------------------------------------------------
\* How often a line is in the file. A connection is in the hands of one daemon at most,
\* once, and of none before its thread has connected.
InQueue(d, m) == \E i \in DOMAIN queue[d] : queue[d][i] = m
Holds(d, m) == serving[d] = m \/ InQueue(d, m)

OnceHeld(m) ==
  /\ phase[m] = "new" => \A d \in Daemon : ~Holds(d, m)
  /\ \A d, e \in Daemon : Holds(d, m) /\ Holds(e, m) => d = e
  /\ \A d \in Daemon : serving[d] = m => ~InQueue(d, m)
  /\ \A d \in Daemon : \A i, j \in DOMAIN queue[d] : queue[d][i] = m /\ queue[d][j] = m => i = j

OnceInv == \A m \in Msg : OnceHeld(m)

\* No daemon has written the line of m; one has, once, and may write it again; the thread
\* itself may have.
Untouched(m) ==
  \/ phase[m] = "new"
  \/ \E d \in Daemon : InQueue(d, m) \/ (serving[d] = m /\ dphase[d] \in {"reading", "writing"})
Once(m) == \E d \in Daemon : serving[d] = m /\ dphase[d] \in {"written", "again"}
BySelf(m) == IF phase[m] \in {"half", "complete", "returned", "raised", "gone"} THEN 1 ELSE 0

Counted(m) ==
  /\ Untouched(m) => Copies(m) <= BySelf(m)
  /\ Once(m) => Copies(m) <= BySelf(m) + 1
  /\ Copies(m) <= BySelf(m) + 1 + faults

\* Who says that a line is there has its first piece in the file, before the answer in
\* the part that no crash takes.
First(m) == {i \in 1 .. Len(file) : file[i] = <<m, 1>>}
Begun == {m \in Msg : First(m) # {}}
Stays == {m \in Msg : \E i \in 1 .. synced : file[i] = <<m, 1>>}

Claims(m) == phase[m] = "acked" \/ answer[m] = "ok" => m \in Stays
ClaimsFor(d) ==
  /\ dphase[d] \in {"written", "rewritten"} => serving[d] \in Begun
  /\ dphase[d] = "accepted" => serving[d] \in Stays
  /\ dphase[d] = "again" => faults >= 1

CountInv == \A m \in Msg : Counted(m)
ClaimInv == (\A m \in Msg : Claims(m)) /\ (\A d \in Daemon : ClaimsFor(d))

-------------------------------------------------------------------------------
\* What leaves the hands of daemons is held by nobody.
LEMMA LessHeld ==
  ASSUME OnceInv,
         \A d \in Daemon, m \in Msg : /\ serving'[d] = m => serving[d] = m
                                      /\ InQueue(d, m)' => InQueue(d, m),
         \A d \in Daemon : queue'[d] = queue[d] \/ queue'[d] = <<>>,
         \A m \in Msg : phase'[m] = "new" => phase[m] = "new"
  PROVE  OnceInv'
<1> SUFFICES ASSUME NEW m \in Msg PROVE OnceHeld(m)'
  BY DEF OnceInv
<1>0. OnceHeld(m)
  BY DEF OnceInv
<1>1. \A d \in Daemon : Holds(d, m)' => Holds(d, m)
  BY DEF Holds
<1>2. phase'[m] = "new" => \A d \in Daemon : ~Holds(d, m)'
  BY <1>0, <1>1 DEF OnceHeld
<1>3. \A d, e \in Daemon : Holds(d, m)' /\ Holds(e, m)' => d = e
  BY <1>0, <1>1 DEF OnceHeld
<1>4. \A d \in Daemon : serving'[d] = m => ~InQueue(d, m)'
  BY <1>0 DEF OnceHeld
<1>5. ASSUME NEW d \in Daemon
      PROVE  \A i, j \in DOMAIN queue'[d] : queue'[d][i] = m /\ queue'[d][j] = m => i = j
  <2>1. CASE queue'[d] = queue[d]
    BY <1>0, <2>1 DEF OnceHeld
  <2>2. CASE queue'[d] = <<>>
    BY <2>2
  <2> QED BY <2>1, <2>2
<1> QED BY <1>2, <1>3, <1>4, <1>5 DEF OnceHeld

\* A connection that a daemon takes from its queue is held as before.
LEMMA AcceptOnce ==
  ASSUME TypeInv, OnceInv, NEW d \in Daemon, Accept(d)
  PROVE  OnceInv'
<1> DEFINE q == queue[d]
<1>0. q \in Seq(Msg \cup Guest) /\ q # <<>> /\ serving[d] = None
  BY DEF TypeInv, TypeOK, Accept, Listening
<1>1. /\ serving' = [serving EXCEPT ![d] = Head(q)]
      /\ queue' = [queue EXCEPT ![d] = Tail(q)] /\ phase' = phase
  BY DEF Accept, clients
<1>2. serving \in [Daemon -> Msg \cup Guest \cup {None}] /\ queue \in [Daemon -> Seq(Msg \cup Guest)]
  BY DEF TypeInv, TypeOK
<1>3. /\ Len(q) \in Nat /\ Len(q) > 0 /\ DOMAIN q = 1 .. Len(q) /\ Head(q) = q[1]
      /\ DOMAIN Tail(q) = 1 .. Len(q) - 1
      /\ \A i \in 1 .. Len(q) - 1 : Tail(q)[i] = q[i + 1]
  BY <1>0
<1> HIDE DEF q
<1>4. /\ serving'[d] = q[1] /\ queue'[d] = Tail(q)
      /\ \A e \in Daemon \ {d} : serving'[e] = serving[e] /\ queue'[e] = queue[e]
  BY <1>1, <1>2, <1>3
<1> SUFFICES ASSUME NEW m \in Msg PROVE OnceHeld(m)'
  BY DEF OnceInv
<1>5. OnceHeld(m)
  BY DEF OnceInv
<1>6. \A i, j \in 1 .. Len(q) : q[i] = m /\ q[j] = m => i = j
  BY <1>3, <1>5 DEF OnceHeld, q
<1>7. InQueue(d, m) <=> \E i \in 1 .. Len(q) : q[i] = m
  BY <1>3 DEF InQueue, q
<1>8. InQueue(d, m)' <=> \E i \in 1 .. Len(q) - 1 : q[i + 1] = m
  <2>1. queue'[d] = Tail(q) /\ DOMAIN queue'[d] = 1 .. Len(q) - 1
    BY <1>3, <1>4
  <2>2. \A i \in 1 .. Len(q) - 1 : queue'[d][i] = q[i + 1]
    BY <1>3, <2>1
  <2> QED BY <2>1, <2>2 DEF InQueue
<1>9. \A i \in 1 .. Len(q) - 1 : i + 1 \in 1 .. Len(q) /\ i + 1 # 1
  BY <1>3
<1>10. 1 \in 1 .. Len(q)
  BY <1>3
<1>11. InQueue(d, m)' => InQueue(d, m) /\ q[1] # m
  BY <1>6, <1>7, <1>8, <1>9, <1>10
<1>12. serving'[d] = m => InQueue(d, m) /\ ~InQueue(d, m)'
  BY <1>4, <1>7, <1>10, <1>11
<1>13. \A e \in Daemon \ {d} : (InQueue(e, m)' <=> InQueue(e, m)) /\ (serving'[e] = m <=> serving[e] = m)
  BY <1>4 DEF InQueue
<1>14. \A e \in Daemon : Holds(e, m)' => Holds(e, m)
  BY <1>11, <1>12, <1>13 DEF Holds
<1>15. \A e \in Daemon : serving'[e] = m => ~InQueue(e, m)'
  BY <1>5, <1>12, <1>13 DEF OnceHeld
<1>16. ASSUME NEW e \in Daemon
       PROVE  \A i, j \in DOMAIN queue'[e] : queue'[e][i] = m /\ queue'[e][j] = m => i = j
  <2>1. CASE e # d
    BY <1>4, <1>5, <2>1 DEF OnceHeld
  <2>2. CASE e = d
    <3>1. ASSUME NEW i \in 1 .. Len(q) - 1, NEW j \in 1 .. Len(q) - 1, q[i + 1] = m, q[j + 1] = m
          PROVE  i = j
      <4>1. i + 1 = j + 1
        BY <1>6, <1>9, <3>1
      <4> QED BY <1>3, <4>1
    <3>2. queue'[e] = Tail(q) /\ DOMAIN queue'[e] = 1 .. Len(q) - 1
      BY <1>3, <1>4, <2>2
    <3>3. \A i \in 1 .. Len(q) - 1 : queue'[e][i] = q[i + 1]
      BY <1>3, <3>2
    <3> QED BY <3>1, <3>2, <3>3
  <2> QED BY <2>1, <2>2
<1>17. phase'[m] = "new" => \A e \in Daemon : ~Holds(e, m)'
  BY <1>1, <1>5, <1>14 DEF OnceHeld
<1>18. \A e, f \in Daemon : Holds(e, m)' /\ Holds(f, m)' => e = f
  BY <1>5, <1>14 DEF OnceHeld
<1> QED BY <1>15, <1>16, <1>17, <1>18 DEF OnceHeld

\* A connection that arrives was held by nobody.
LEMMA ArriveOnce ==
  ASSUME TypeInv, OnceInv, NEW c \in Msg \cup Guest, NEW s \in Daemon, sock = s, Arrive(c), serving' = serving,
         c \in Msg => phase[c] = "new" /\ phase'[c] # "new",
         \A m \in Msg \ {c} : phase'[m] = phase[m]
  PROVE  OnceInv'
<1> DEFINE q == queue[s]
<1>0. q \in Seq(Msg \cup Guest) /\ queue \in [Daemon -> Seq(Msg \cup Guest)]
  BY DEF TypeInv, TypeOK
<1>1. queue' = [queue EXCEPT ![s] = Append(q, c)]
  BY DEF Arrive
<1>2. /\ Len(q) \in Nat /\ DOMAIN q = 1 .. Len(q)
      /\ DOMAIN Append(q, c) = 1 .. Len(q) + 1
      /\ \A i \in 1 .. Len(q) : Append(q, c)[i] = q[i]
      /\ Append(q, c)[Len(q) + 1] = c
  BY <1>0
<1> HIDE DEF q
<1>3. /\ queue'[s] = Append(q, c)
      /\ \A e \in Daemon \ {s} : queue'[e] = queue[e]
  BY <1>0, <1>1
<1> SUFFICES ASSUME NEW m \in Msg PROVE OnceHeld(m)'
  BY DEF OnceInv
<1>4. OnceHeld(m)
  BY DEF OnceInv
<1>5. \A e \in Daemon \ {s} : InQueue(e, m)' <=> InQueue(e, m)
  BY <1>3 DEF InQueue
<1>6. InQueue(s, m) <=> \E i \in 1 .. Len(q) : q[i] = m
  BY <1>2 DEF InQueue, q
<1>7. \A i \in 1 .. Len(q) + 1 : i \in 1 .. Len(q) \/ i = Len(q) + 1
  BY <1>2
<1>8. \A i \in 1 .. Len(q) : i \in 1 .. Len(q) + 1
  BY <1>2
<1>9. InQueue(s, m)' <=> \E i \in 1 .. Len(q) + 1 : Append(q, c)[i] = m
  <2>1. queue'[s] = Append(q, c) /\ DOMAIN queue'[s] = 1 .. Len(q) + 1
    BY <1>2, <1>3
  <2> QED BY <2>1 DEF InQueue
<1>10. CASE m # c
  <2>1. InQueue(s, m)' <=> InQueue(s, m)
    BY <1>2, <1>6, <1>7, <1>8, <1>9, <1>10
  <2>2. \A e \in Daemon : (Holds(e, m)' <=> Holds(e, m)) /\ (InQueue(e, m)' <=> InQueue(e, m))
    BY <1>5, <2>1 DEF Holds
  <2>3. phase'[m] = phase[m]
    BY <1>10
  <2>4. ASSUME NEW e \in Daemon
        PROVE  \A i, j \in DOMAIN queue'[e] : queue'[e][i] = m /\ queue'[e][j] = m => i = j
    <3>1. CASE e # s
      BY <1>3, <1>4, <3>1 DEF OnceHeld
    <3>2. CASE e = s
      <4>1. \A i, j \in 1 .. Len(q) : q[i] = m /\ q[j] = m => i = j
        BY <1>2, <1>4 DEF OnceHeld, q
      <4>2. \A i \in 1 .. Len(q) + 1 : Append(q, c)[i] = m => i \in 1 .. Len(q) /\ q[i] = m
        BY <1>2, <1>7, <1>10
      <4>3. queue'[e] = Append(q, c) /\ DOMAIN queue'[e] = 1 .. Len(q) + 1
        BY <1>2, <1>3, <3>2
      <4>4. \A i \in DOMAIN queue'[e] : queue'[e][i] = m => i \in 1 .. Len(q) /\ q[i] = m
        BY <4>2, <4>3
      <4> QED BY <4>1, <4>4
    <3> QED BY <3>1, <3>2
  <2> QED BY <1>4, <2>2, <2>3, <2>4 DEF OnceHeld
<1>11. CASE m = c
  <2>1. \A e \in Daemon : serving[e] # m /\ ~InQueue(e, m)
    BY <1>4, <1>11 DEF OnceHeld, Holds
  <2>2. \A e \in Daemon : Holds(e, m)' => e = s
    BY <1>5, <2>1 DEF Holds
  <2>3. phase'[m] # "new"
    BY <1>11
  <2>4. \A i \in 1 .. Len(q) : q[i] # m
    BY <1>6, <2>1
  <2>5. ASSUME NEW e \in Daemon
        PROVE  \A i, j \in DOMAIN queue'[e] : queue'[e][i] = m /\ queue'[e][j] = m => i = j
    <3>1. CASE e # s
      BY <1>3, <1>4, <3>1 DEF OnceHeld
    <3>2. CASE e = s
      <4>1. \A i \in 1 .. Len(q) + 1 : Append(q, c)[i] = m => i = Len(q) + 1
        BY <1>2, <1>7, <2>4
      <4>2. queue'[e] = Append(q, c) /\ DOMAIN queue'[e] = 1 .. Len(q) + 1
        BY <1>2, <1>3, <3>2
      <4>3. \A i \in DOMAIN queue'[e] : queue'[e][i] = m => i = Len(q) + 1
        BY <4>1, <4>2
      <4> QED BY <4>3
    <3> QED BY <3>1, <3>2
  <2> QED BY <2>1, <2>2, <2>3, <2>5 DEF OnceHeld
<1> QED BY <1>10, <1>11

LEMMA OnceInitially == ASSUME MemoryConstants, Init PROVE OnceInv
BY DEF MemoryConstants, Init, OnceInv, OnceHeld, Holds, InQueue

LEMMA OnceStep == ASSUME MemoryConstants, TypeInv, OnceInv, [Next]_vars PROVE OnceInv'
<1> USE DEF EnterD, Enter, disk, names, daemons, clients
<1>0. /\ serving \in [Daemon -> Msg \cup Guest \cup {None}] /\ queue \in [Daemon -> Seq(Msg \cup Guest)]
      /\ phase \in [Msg -> {"new", "sending", "waiting", "direct", "half", "complete"} \cup Over]
      /\ sock \in Daemon \cup {None}
  BY DEF TypeInv, TypeOK
<1>1. ASSUME UNCHANGED <<serving, queue>>, \A m \in Msg : phase'[m] = "new" => phase[m] = "new"
      PROVE  OnceInv'
  BY <1>1, LessHeld DEF InQueue
<1>2. CASE UNCHANGED vars
  BY <1>1, <1>2 DEF vars
<1>3. ASSUME NEW d \in Daemon, Check(d) \/ Unlink(d) \/ Bind(d) \/ WritePid(d) PROVE OnceInv'
  BY <1>1, <1>3 DEF Check, Unlink, Bind, WritePid
<1>4. ASSUME NEW d \in Daemon, Die(d) PROVE OnceInv'
  <2>1. /\ serving' = [serving EXCEPT ![d] = None] /\ queue' = [queue EXCEPT ![d] = <<>>]
        /\ phase' = phase
    BY <1>4 DEF Die
  <2>2. /\ \A e \in Daemon : queue'[e] = queue[e] \/ queue'[e] = <<>>
        /\ \A e \in Daemon, m \in Msg : serving'[e] = m => serving[e] = m
    BY <1>0, <2>1, MemoryConstants DEF MemoryConstants
  <2>3. \A e \in Daemon, m \in Msg : InQueue(e, m)' => InQueue(e, m)
    BY <1>0, <2>1 DEF InQueue
  <2> QED BY <2>1, <2>2, <2>3, LessHeld
<1>5. ASSUME NEW d \in Daemon, Accept(d) PROVE OnceInv'
  BY <1>5, AcceptOnce
<1>6. ASSUME NEW d \in Daemon, ReadToEof(d) \/ Write(d) \/ Fault(d) \/ WriteAgain(d) \/ Sync(d) PROVE OnceInv'
  BY <1>1, <1>6 DEF ReadToEof, Write, Fault, WriteAgain, Sync
<1>7. ASSUME NEW d \in Daemon, Reply(d) PROVE OnceInv'
  <2>1. serving' = [serving EXCEPT ![d] = None] /\ queue' = queue /\ phase' = phase
    BY <1>7 DEF Reply
  <2>2. \A e \in Daemon, m \in Msg : serving'[e] = m => serving[e] = m
    BY <1>0, <2>1, MemoryConstants DEF MemoryConstants
  <2>3. \A e \in Daemon, m \in Msg : InQueue(e, m)' => InQueue(e, m)
    BY <2>1 DEF InQueue
  <2> QED BY <2>1, <2>2, <2>3, LessHeld
<1>8. ASSUME NEW m \in Msg, Connect(m) PROVE OnceInv'
  <2>1. CASE Reachable /\ Arrive(m) /\ Enter(m, "sending")
    <3>1. PICK e \in Daemon : sock = e
      BY <1>0, <2>1 DEF Reachable
    <3>2. phase[m] = "new" /\ phase'[m] # "new" /\ \A o \in Msg \ {m} : phase'[o] = phase[o]
      BY <1>0, <1>8, <2>1 DEF Connect
    <3>3. serving' = serving
      BY <1>8 DEF Connect
    <3> QED BY <2>1, <3>1, <3>2, <3>3, ArriveOnce
  <2>2. CASE Enter(m, "direct") /\ UNCHANGED <<queue, conn>>
    BY <1>0, <1>1, <1>8, <2>2 DEF Connect
  <2> QED BY <1>8, <2>1, <2>2 DEF Connect
<1>9. ASSUME NEW m \in Msg, Send(m) \/ GiveUp(m) \/ Receive(m) \/ Direct(m) \/ DirectSync(m) PROVE OnceInv'
  <2>1. UNCHANGED <<serving, queue>>
    BY <1>9 DEF Send, GiveUp, Receive, Direct, DirectSync
  <2>2. \A o \in Msg : phase'[o] = "new" => phase[o] = "new"
    BY <1>0, <1>9 DEF Send, GiveUp, Receive, Direct, DirectSync
  <2> QED BY <1>1, <2>1, <2>2
<1>10. ASSUME NEW g \in Guest, GuestConnect(g) PROVE OnceInv'
  <2>1. Arrive(g) /\ serving' = serving /\ phase' = phase
    BY <1>10 DEF GuestConnect
  <2>3. PICK e \in Daemon : sock = e
    BY <1>0, <1>10 DEF GuestConnect, Reachable
  <2>2. g \notin Msg
    BY MemoryConstants DEF MemoryConstants
  <2> QED BY <2>1, <2>2, <2>3, ArriveOnce
<1>11. ASSUME NEW g \in Guest, GuestCloses(g) PROVE OnceInv'
  BY <1>1, <1>11 DEF GuestCloses
<1>12. CASE FreeSpace
  BY <1>1, <1>12 DEF FreeSpace
<1>13. CASE Crash
  <2>1. /\ serving' = [d \in Daemon |-> None] /\ queue' = [d \in Daemon |-> <<>>]
        /\ \A m \in Msg : phase'[m] = "new" => phase[m] = "new"
    BY <1>13 DEF Crash
  <2>2. \A e \in Daemon, m \in Msg : serving'[e] = m => serving[e] = m
    BY <2>1, MemoryConstants DEF MemoryConstants
  <2>3. \A e \in Daemon, m \in Msg : InQueue(e, m)' => InQueue(e, m)
    BY <2>1 DEF InQueue
  <2> QED BY <2>1, <2>2, <2>3, LessHeld
<1> QED
  BY <1>2, <1>3, <1>4, <1>5, <1>6, <1>7, <1>8, <1>9, <1>10, <1>11, <1>12, <1>13
     DEF Next, DaemonStep, Client

-------------------------------------------------------------------------------
\* The copies of a line are its first pieces: as many as a finite set has.
LEMMA CopiesCounted ==
  ASSUME file \in Seq(Piece), NEW m \in Msg
  PROVE  IsFiniteSet(First(m)) /\ Copies(m) = Cardinality(First(m)) /\ Copies(m) \in Nat
<1>1. DOMAIN file = 1 .. Len(file) /\ Len(file) \in Nat
  OBVIOUS
<1>2. IsFiniteSet(1 .. Len(file))
  BY <1>1, FS_Interval
<1>3. First(m) \in SUBSET (1 .. Len(file))
  BY DEF First
<1>4. IsFiniteSet(First(m))
  BY <1>2, <1>3, FS_Subset
<1>5. Copies(m) = Cardinality(First(m))
  BY <1>1 DEF Copies, First
<1> QED BY <1>4, <1>5, FS_CardinalityType

\* A write adds one first piece to the line it is of, and none to another.
LEMMA Written ==
  ASSUME FileTyped, FileTyped', NEW m \in Msg,
         file' = file \o Line(m) \/ file' = Append(file, <<m, 1>>)
  PROVE  /\ First(m)' = First(m) \cup {Len(file) + 1} /\ Len(file) + 1 \notin First(m)
         /\ \A o \in Msg \ {m} : First(o)' = First(o)
         /\ Len(file) <= Len(file') /\ \A i \in 1 .. Len(file) : file'[i] = file[i]
<1>0. Len(file) \in Nat /\ file \in Seq(Piece)
  BY DEF FileTyped
<1>1. /\ Len(file') \in {Len(file) + 1, Len(file) + 2}
      /\ \A i \in 1 .. Len(file) : file'[i] = file[i]
      /\ file'[Len(file) + 1] = <<m, 1>>
      /\ Len(file') = Len(file) + 2 => file'[Len(file) + 2] = <<m, 2>>
  <2>1. CASE file' = file \o Line(m)
    <3> DEFINE line == <<<<m, 1>>, <<m, 2>>>>
    <3>1. line \in Seq(Piece) /\ Len(line) = 2 /\ line[1] = <<m, 1>> /\ line[2] = <<m, 2>>
      BY DEF Piece
    <3>2. file' = file \o line
      BY <2>1 DEF Line
    <3> HIDE DEF line
    <3>3. /\ Len(file') = Len(file) + 2
          /\ \A i \in 1 .. Len(file) + 2 : file'[i] = IF i <= Len(file) THEN file[i] ELSE line[i - Len(file)]
      <4>1. /\ Len(file \o line) = Len(file) + Len(line)
            /\ \A i \in 1 .. Len(file) + Len(line) :
                 (file \o line)[i] = IF i <= Len(file) THEN file[i] ELSE line[i - Len(file)]
        BY <1>0, <3>1, ConcatProperties
      <4> QED BY <3>1, <3>2, <4>1
    <3>4. Len(file) + 1 \in 1 .. Len(file) + 2 /\ Len(file) + 2 \in 1 .. Len(file) + 2
      BY <1>0
    <3>5. file'[Len(file) + 1] = line[Len(file) + 1 - Len(file)]
      BY <1>0, <3>3, <3>4
    <3>6. file'[Len(file) + 2] = line[Len(file) + 2 - Len(file)]
      BY <1>0, <3>3, <3>4
    <3>7. Len(file) + 1 - Len(file) = 1 /\ Len(file) + 2 - Len(file) = 2
      BY <1>0
    <3>8. \A i \in 1 .. Len(file) : i \in 1 .. Len(file) + 2 /\ i <= Len(file)
      BY <1>0
    <3> QED BY <3>1, <3>3, <3>5, <3>6, <3>7, <3>8
  <2>2. CASE file' = Append(file, <<m, 1>>)
    <3>1. <<m, 1>> \in Piece
      BY DEF Piece
    <3>2. /\ Len(file') = Len(file) + 1 /\ file'[Len(file) + 1] = <<m, 1>>
          /\ \A i \in 1 .. Len(file) : file'[i] = file[i]
      BY <1>0, <2>2, <3>1, AppendProperties
    <3> QED BY <1>0, <3>2
  <2> QED BY <2>1, <2>2
<1>2. \A i \in 1 .. Len(file') : i \in 1 .. Len(file) \/ i = Len(file) + 1 \/ (i = Len(file) + 2 /\ Len(file') = Len(file) + 2)
  BY <1>0, <1>1
<1>3. \A i \in 1 .. Len(file) : i \in 1 .. Len(file') /\ i # Len(file) + 1
  BY <1>0, <1>1
<1>4. Len(file) + 1 \in 1 .. Len(file') /\ Len(file) <= Len(file')
  BY <1>0, <1>1
<1>5. \A o \in Msg : <<m, 2>> # <<o, 1>> /\ (o # m => <<m, 1>> # <<o, 1>>)
  OBVIOUS
<1>6. ASSUME NEW o \in Msg \ {m} PROVE First(o)' = First(o)
  <2>1. \A i \in 1 .. Len(file') : file'[i] = <<o, 1>> => i \in 1 .. Len(file) /\ file[i] = <<o, 1>>
    BY <1>1, <1>2, <1>5
  <2> QED BY <1>1, <1>3, <2>1 DEF First
<1>7. First(m)' = First(m) \cup {Len(file) + 1}
  <2>1. \A i \in 1 .. Len(file') : file'[i] = <<m, 1>> => i = Len(file) + 1 \/ (i \in 1 .. Len(file) /\ file[i] = <<m, 1>>)
    BY <1>1, <1>2, <1>5
  <2> QED BY <1>1, <1>3, <1>4, <2>1 DEF First
<1> QED BY <1>1, <1>3, <1>4, <1>6, <1>7 DEF First

LEMMA OneMore ==
  ASSUME FileTyped, FileTyped', NEW m \in Msg,
         file' = file \o Line(m) \/ file' = Append(file, <<m, 1>>)
  PROVE  /\ Copies(m)' = Copies(m) + 1
         /\ \A o \in Msg \ {m} : Copies(o)' = Copies(o)
         /\ m \in Begun' /\ Begun \subseteq Begun'
         /\ synced' = synced => Stays \subseteq Stays'
<1>1. \A o \in Msg : /\ IsFiniteSet(First(o)) /\ Copies(o) = Cardinality(First(o))
                     /\ (Copies(o) = Cardinality(First(o)))'
  <2>1. file \in Seq(Piece) /\ (file \in Seq(Piece))'
    BY DEF FileTyped
  <2>2. \A o \in Msg : IsFiniteSet(First(o)) /\ Copies(o) = Cardinality(First(o))
    BY <2>1, CopiesCounted
  <2>3. (\A o \in Msg : Copies(o) = Cardinality(First(o)))'
    <3>1. DOMAIN file' = 1 .. Len(file')
      BY <2>1
    <3> QED BY <3>1 DEF Copies, First
  <2> QED BY <2>2, <2>3
<1>2. First(m)' = First(m) \cup {Len(file) + 1} /\ Len(file) + 1 \notin First(m)
  BY Written
<1>3. Copies(m)' = Copies(m) + 1
  BY <1>1, <1>2, FS_AddElement
<1>4. \A o \in Msg \ {m} : First(o)' = First(o)
  BY Written
<1>5. \A o \in Msg \ {m} : Copies(o)' = Copies(o)
  BY <1>1, <1>4
<1>6. m \in Begun' /\ Begun \subseteq Begun'
  BY <1>2, <1>4 DEF Begun
<1>7. ASSUME synced' = synced PROVE Stays \subseteq Stays'
  <2>1. \A i \in 1 .. synced : i \in 1 .. Len(file)
    BY DEF FileTyped
  <2>2. \A i \in 1 .. synced : file'[i] = file[i]
    BY <2>1, Written
  <2> QED BY <1>7, <2>2 DEF Stays
<1> QED BY <1>3, <1>5, <1>6, <1>7

LEMMA CountIsNat ==
  ASSUME NEW s \in Seq(Piece), NEW m \in Msg
  PROVE  Cardinality({i \in DOMAIN s : s[i] = <<m, 1>>}) \in Nat
<1> DEFINE at == {i \in DOMAIN s : s[i] = <<m, 1>>}
<1>1. DOMAIN s = 1 .. Len(s) /\ Len(s) \in Nat
  OBVIOUS
<1>2. IsFiniteSet(1 .. Len(s))
  BY <1>1, FS_Interval
<1>3. at \in SUBSET (1 .. Len(s))
  BY <1>1
<1> QED BY <1>2, <1>3, FS_Subset, FS_CardinalityType

\* The count of a line that nobody writes, and that no daemon comes to have in hand anew.
LEMMA CountedKept ==
  ASSUME FileTyped, FileTyped', NamesTyped, NamesTyped', NEW m \in Msg, Counted(m),
         Copies(m)' <= Copies(m), faults <= faults', BySelf(m) <= BySelf(m)',
         phase'[m] = "new" => phase[m] = "new",
         \A d \in Daemon : InQueue(d, m)' => InQueue(d, m) \/ phase[m] = "new",
         \A d \in Daemon : serving'[d] = m /\ dphase'[d] \in {"reading", "writing"} =>
           InQueue(d, m) \/ (serving[d] = m /\ dphase[d] \in {"reading", "writing"}),
         \A d \in Daemon : serving'[d] = m /\ dphase'[d] \in {"written", "again"} =>
           serving[d] = m /\ dphase[d] \in {"reading", "writing", "written", "again"}
  PROVE  Counted(m)'
<1>1. /\ Copies(m) \in Nat /\ Copies(m)' \in Nat
      /\ BySelf(m) \in {0, 1} /\ BySelf(m)' \in {0, 1} /\ faults \in Nat /\ faults' \in Nat
  <2>1. Copies(m) \in Nat /\ Copies(m)' \in Nat
    <3>1. file \in Seq(Piece) /\ file' \in Seq(Piece)
      BY DEF FileTyped
    <3> QED BY <3>1, CountIsNat DEF Copies
  <2>2. faults \in Nat /\ faults' \in Nat
    BY MemoryConstants DEF NamesTyped
  <2>3. BySelf(m) \in {0, 1} /\ BySelf(m)' \in {0, 1}
    BY DEF BySelf
  <2> QED BY <2>1, <2>2, <2>3
<1>2. Untouched(m)' => Untouched(m)
  BY DEF Untouched
<1>3. Once(m)' => Once(m) \/ Untouched(m)
  BY DEF Once, Untouched
<1>4. Untouched(m)' => Copies(m)' <= BySelf(m)'
  BY <1>1, <1>2 DEF Counted
<1>5. Once(m)' => Copies(m)' <= BySelf(m)' + 1
  BY <1>1, <1>3 DEF Counted
<1>6. Copies(m)' <= BySelf(m)' + 1 + faults'
  BY <1>1 DEF Counted
<1> QED BY <1>4, <1>5, <1>6 DEF Counted

LEMMA CountInitially == ASSUME Init PROVE CountInv
<1>1. \A m \in Msg : Copies(m) = 0
  BY FS_EmptySet DEF Init, Copies
<1>2. \A m \in Msg : BySelf(m) = 0 /\ ~Once(m)
  BY DEF Init, BySelf, Once
<1> QED BY <1>1, <1>2 DEF Init, CountInv, Counted

LEMMA LinePieces == ASSUME NEW m \in Msg PROVE Line(m)[1] = <<m, 1>> /\ Line(m)[2] = <<m, 2>>
BY DEF Line

LEMMA HeadAppended ==
  ASSUME NEW m \in Msg, file \in Seq(Piece)
  PROVE  file \o <<Head(Line(m))>> = Append(file, <<m, 1>>)
<1>1. Head(Line(m)) = <<m, 1>>
  BY DEF Line
<1>2. <<m, 1>> \in Piece
  BY DEF Piece
<1>3. file \o <<<<m, 1>>>> = Append(file, <<m, 1>>)
  BY <1>2, AppendIsConcat
<1> QED BY <1>1, <1>3

\* A second piece is no first one, and a crash makes no more of them.
LEMMA RestCopies ==
  ASSUME file \in Seq(Piece), NEW m \in Msg, file' = file \/ file' = Append(file, <<m, 2>>)
  PROVE  \A o \in Msg : Copies(o)' = Copies(o)
<1>1. CASE file' = file
  BY <1>1 DEF Copies
<1>2. CASE file' = Append(file, <<m, 2>>)
  <2>1. <<m, 2>> \in Piece
    BY DEF Piece
  <2>2. /\ DOMAIN file = 1 .. Len(file) /\ DOMAIN file' = 1 .. Len(file) + 1 /\ Len(file) \in Nat
        /\ \A i \in 1 .. Len(file) : file'[i] = file[i]
        /\ file'[Len(file) + 1] = <<m, 2>>
    BY <1>2, <2>1, AppendProperties
  <2>3. /\ \A i \in 1 .. Len(file) + 1 : i \in 1 .. Len(file) \/ i = Len(file) + 1
        /\ \A i \in 1 .. Len(file) : i \in 1 .. Len(file) + 1
    BY <2>2
  <2>4. ASSUME NEW o \in Msg
        PROVE  {i \in DOMAIN file' : file'[i] = <<o, 1>>} = {i \in DOMAIN file : file[i] = <<o, 1>>}
    <3>1. <<m, 2>> # <<o, 1>>
      OBVIOUS
    <3> QED BY <2>2, <2>3, <3>1
  <2> QED BY <2>4 DEF Copies
<1> QED BY <1>1, <1>2

LEMMA CutCopies ==
  ASSUME file \in Seq(Piece), NEW n \in 0 .. Len(file), file' = SubSeq(file, 1, n)
  PROVE  \A o \in Msg : Copies(o)' <= Copies(o)
<1>1. /\ DOMAIN file = 1 .. Len(file) /\ DOMAIN file' = 1 .. n /\ Len(file) \in Nat
      /\ \A i \in 1 .. n : file'[i] = file[i]
  OBVIOUS
<1>2. \A i \in 1 .. n : i \in 1 .. Len(file)
  BY <1>1
<1>3. ASSUME NEW o \in Msg PROVE Copies(o)' <= Copies(o)
  <2>1. {i \in DOMAIN file' : file'[i] = <<o, 1>>} \in SUBSET First(o)
    BY <1>1, <1>2 DEF First
  <2>2. IsFiniteSet(First(o)) /\ Copies(o) = Cardinality(First(o))
    BY CopiesCounted
  <2> QED BY <2>1, <2>2, FS_Subset DEF Copies
<1> QED BY <1>3

\* The one connection that arrives was new.
LEMMA ArrivesAtEnd ==
  ASSUME TypeInv, NEW c \in Msg \cup Guest, Reachable, Arrive(c), NEW o \in Msg,
         NEW d \in Daemon, InQueue(d, o)'
  PROVE  InQueue(d, o) \/ o = c
<1>1. queue[d] \in Seq(Msg \cup Guest) /\ queue'[d] \in {queue[d], Append(queue[d], c)}
  BY DEF TypeInv, TypeOK, Arrive
<1>2. CASE queue'[d] = queue[d]
  BY <1>2 DEF InQueue
<1>3. CASE queue'[d] = Append(queue[d], c)
  <2>1. /\ DOMAIN queue[d] = 1 .. Len(queue[d]) /\ DOMAIN queue'[d] = 1 .. Len(queue[d]) + 1
        /\ Len(queue[d]) \in Nat /\ queue'[d][Len(queue[d]) + 1] = c
        /\ \A i \in 1 .. Len(queue[d]) : queue'[d][i] = queue[d][i]
    BY <1>1, <1>3
  <2>2. \A i \in 1 .. Len(queue[d]) + 1 : i \in 1 .. Len(queue[d]) \/ i = Len(queue[d]) + 1
    BY <2>1
  <2> QED BY <2>1, <2>2 DEF InQueue
<1> QED BY <1>1, <1>2, <1>3

LEMMA CountStep ==
  ASSUME MemoryConstants, TypeInv, TypeInv', OnceInv, CountInv, ClaimInv, [Next]_vars
  PROVE  CountInv'
<1> USE DEF EnterD, Enter, disk, names, daemons, clients
<1>0. /\ FileTyped /\ NamesTyped /\ PhasesTyped /\ ServingTyped
      /\ FileTyped' /\ NamesTyped' /\ PhasesTyped' /\ ServingTyped'
  BY TypeParts, PTL
\* What is left to show of a step that writes no first piece.
<1> DEFINE Fewer == \A m \in Msg : Copies(m)' <= Copies(m)
           Faults == faults <= faults'
           Selves(m) == BySelf(m) <= BySelf(m)' /\ (phase'[m] = "new" => phase[m] = "new")
           Queued(m) == \A d \in Daemon : InQueue(d, m)' => InQueue(d, m) \/ phase[m] = "new"
           Held(m) == \A d \in Daemon :
             /\ serving'[d] = m /\ dphase'[d] \in {"reading", "writing"} =>
                  InQueue(d, m) \/ (serving[d] = m /\ dphase[d] \in {"reading", "writing"})
             /\ serving'[d] = m /\ dphase'[d] \in {"written", "again"} =>
                  serving[d] = m /\ dphase[d] \in {"reading", "writing", "written", "again"}
<1>a. ASSUME Fewer, Faults, NEW m \in Msg, Selves(m), Queued(m), Held(m) PROVE Counted(m)'
  <2>1. Counted(m)
    BY DEF CountInv
  <2> QED BY <1>0, <1>a, <2>1, CountedKept
<1>b. \A m \in Msg : Copies(m) \in Nat /\ BySelf(m) \in {0, 1}
  BY <1>0, CopiesCounted DEF FileTyped, BySelf
<1>c. ASSUME file' = file PROVE Fewer
  BY <1>b, <1>c DEF Copies
<1>d. ASSUME faults' = faults PROVE Faults
  BY <1>0, <1>d, MemoryConstants DEF NamesTyped
<1>e. ASSUME phase' = phase PROVE \A m \in Msg : Selves(m)
  BY <1>b, <1>e DEF BySelf
<1>f. ASSUME queue' = queue PROVE \A m \in Msg : Queued(m)
  BY <1>f DEF InQueue
<1>g. ASSUME UNCHANGED <<dphase, serving>> PROVE \A m \in Msg : Held(m)
  BY <1>g
<1> HIDE DEF Fewer, Faults, Selves, Queued, Held
<1>1. CASE UNCHANGED vars
  <2>1. Fewer /\ Faults /\ \A m \in Msg : Selves(m) /\ Queued(m) /\ Held(m)
    BY <1>1, <1>c, <1>d, <1>e, <1>f, <1>g DEF vars
  <2> QED BY <1>a, <2>1 DEF CountInv
<1>2. ASSUME NEW d \in Daemon, Check(d) PROVE CountInv'
  <2>1. Fewer
    BY <1>2, <1>c DEF Check
  <2>2. Faults
    BY <1>2, <1>d DEF Check
  <2>3. \A o \in Msg : Selves(o)
    BY <1>2, <1>e DEF Check
  <2>4. \A o \in Msg : Queued(o)
    BY <1>2, <1>f DEF Check
  <2>5. \A o \in Msg : Held(o)
    BY <1>0, <1>2 DEF Held, PhasesTyped, ServingTyped, Check
  <2> QED BY <1>a, <2>1, <2>2, <2>3, <2>4, <2>5 DEF CountInv
<1>3. ASSUME NEW d \in Daemon, Unlink(d) PROVE CountInv'
  <2>1. Fewer
    BY <1>3, <1>c DEF Unlink
  <2>2. Faults
    BY <1>3, <1>d DEF Unlink
  <2>3. \A o \in Msg : Selves(o)
    BY <1>3, <1>e DEF Unlink
  <2>4. \A o \in Msg : Queued(o)
    BY <1>3, <1>f DEF Unlink
  <2>5. \A o \in Msg : Held(o)
    BY <1>0, <1>3 DEF Held, PhasesTyped, ServingTyped, Unlink
  <2> QED BY <1>a, <2>1, <2>2, <2>3, <2>4, <2>5 DEF CountInv
<1>4. ASSUME NEW d \in Daemon, Bind(d) PROVE CountInv'
  <2>1. Fewer
    BY <1>4, <1>c DEF Bind
  <2>2. Faults
    BY <1>4, <1>d DEF Bind
  <2>3. \A o \in Msg : Selves(o)
    BY <1>4, <1>e DEF Bind
  <2>4. \A o \in Msg : Queued(o)
    BY <1>4, <1>f DEF Bind
  <2>5. \A o \in Msg : Held(o)
    BY <1>0, <1>4 DEF Held, PhasesTyped, ServingTyped, Bind
  <2> QED BY <1>a, <2>1, <2>2, <2>3, <2>4, <2>5 DEF CountInv
<1>5. ASSUME NEW d \in Daemon, WritePid(d) PROVE CountInv'
  <2>1. Fewer
    BY <1>5, <1>c DEF WritePid
  <2>2. Faults
    BY <1>5, <1>d DEF WritePid
  <2>3. \A o \in Msg : Selves(o)
    BY <1>5, <1>e DEF WritePid
  <2>4. \A o \in Msg : Queued(o)
    BY <1>5, <1>f DEF WritePid
  <2>5. \A o \in Msg : Held(o)
    BY <1>0, <1>5 DEF Held, PhasesTyped, ServingTyped, WritePid
  <2> QED BY <1>a, <2>1, <2>2, <2>3, <2>4, <2>5 DEF CountInv
<1>6. ASSUME NEW d \in Daemon, ReadToEof(d) PROVE CountInv'
  <2>1. Fewer
    BY <1>6, <1>c DEF ReadToEof
  <2>2. Faults
    BY <1>6, <1>d DEF ReadToEof
  <2>3. \A o \in Msg : Selves(o)
    BY <1>6, <1>e DEF ReadToEof
  <2>4. \A o \in Msg : Queued(o)
    BY <1>6, <1>f DEF ReadToEof
  <2>5. \A o \in Msg : Held(o)
    BY <1>0, <1>6 DEF Held, PhasesTyped, ServingTyped, ReadToEof
  <2> QED BY <1>a, <2>1, <2>2, <2>3, <2>4, <2>5 DEF CountInv
<1>7. ASSUME NEW d \in Daemon, Sync(d) PROVE CountInv'
  <2>1. Fewer
    BY <1>7, <1>c DEF Sync
  <2>2. Faults
    BY <1>7, <1>d DEF Sync
  <2>3. \A o \in Msg : Selves(o)
    BY <1>7, <1>e DEF Sync
  <2>4. \A o \in Msg : Queued(o)
    BY <1>7, <1>f DEF Sync
  <2>5. \A o \in Msg : Held(o)
    BY <1>0, <1>7 DEF Held, PhasesTyped, ServingTyped, Sync
  <2> QED BY <1>a, <2>1, <2>2, <2>3, <2>4, <2>5 DEF CountInv
<1>8. ASSUME NEW d \in Daemon, Fault(d) PROVE CountInv'
  <2>1. Fewer
    BY <1>8, <1>c DEF Fault
  <2>2. Faults
    BY <1>0, <1>8, MemoryConstants DEF Faults, NamesTyped, Fault
  <2>3. \A o \in Msg : Selves(o)
    BY <1>8, <1>e DEF Fault
  <2>4. \A o \in Msg : Queued(o)
    BY <1>8, <1>f DEF Fault
  <2>5. \A o \in Msg : Held(o)
    BY <1>0, <1>8 DEF Held, PhasesTyped, ServingTyped, Fault
  <2> QED BY <1>a, <2>1, <2>2, <2>3, <2>4, <2>5 DEF CountInv
<1>9. ASSUME NEW d \in Daemon, Reply(d) PROVE CountInv'
  <2>1. Fewer
    BY <1>9, <1>c DEF Reply
  <2>2. Faults
    BY <1>9, <1>d DEF Reply
  <2>3. \A o \in Msg : Selves(o)
    BY <1>9, <1>e DEF Reply
  <2>4. \A o \in Msg : Queued(o)
    BY <1>9, <1>f DEF Reply
  <2>5. \A o \in Msg : Held(o)
    BY <1>0, <1>9 DEF Held, PhasesTyped, ServingTyped, Reply
  <2> QED BY <1>a, <2>1, <2>2, <2>3, <2>4, <2>5 DEF CountInv
<1>10. ASSUME NEW d \in Daemon, Die(d) PROVE CountInv'
  <2>1. Fewer
    BY <1>10, <1>c DEF Die
  <2>2. Faults
    BY <1>10, <1>d DEF Die
  <2>3. \A o \in Msg : Selves(o)
    BY <1>10, <1>e DEF Die
  <2>4. \A o \in Msg : Queued(o)
    <3>1. \A e \in Daemon : queue'[e] = queue[e] \/ queue'[e] = <<>>
      BY TypeParts, <1>10 DEF Die, QueuesTyped
    <3> QED BY <3>1 DEF Queued, InQueue
  <2>5. \A o \in Msg : Held(o)
    BY <1>0, <1>10 DEF Held, PhasesTyped, ServingTyped, Die
  <2> QED BY <1>a, <2>1, <2>2, <2>3, <2>4, <2>5 DEF CountInv
<1>11. ASSUME NEW d \in Daemon, Accept(d) PROVE CountInv'
  <2>1. Fewer
    BY <1>11, <1>c DEF Accept
  <2>2. Faults
    BY <1>11, <1>d DEF Accept
  <2>3. \A o \in Msg : Selves(o)
    BY <1>11, <1>e DEF Accept
  <2>4. \A o \in Msg : Queued(o)
    <3>1. queue[d] \in Seq(Msg \cup Guest) /\ queue[d] # <<>> /\ queue \in [Daemon -> Seq(Msg \cup Guest)]
      BY TypeParts, <1>11 DEF Accept, QueuesTyped
    <3>2. \A i \in DOMAIN Tail(queue[d]) : i + 1 \in DOMAIN queue[d] /\ Tail(queue[d])[i] = queue[d][i + 1]
      BY <3>1
    <3>3. queue'[d] = Tail(queue[d]) /\ \A e \in Daemon \ {d} : queue'[e] = queue[e]
      BY <1>11, <3>1 DEF Accept
    <3>4. ASSUME NEW e \in Daemon, NEW o \in Msg, InQueue(e, o)' PROVE InQueue(e, o)
      <4>1. CASE e = d
        BY <3>2, <3>3, <3>4, <4>1 DEF InQueue
      <4>2. CASE e # d
        BY <3>3, <3>4, <4>2 DEF InQueue
      <4> QED BY <4>1, <4>2
    <3> QED BY <3>4 DEF Queued
  <2>5. \A o \in Msg : Held(o)
    <3>1. queue[d] \in Seq(Msg \cup Guest) /\ queue[d] # <<>>
      BY TypeParts, <1>11 DEF Accept, QueuesTyped
    <3>2. 1 \in DOMAIN queue[d] /\ Head(queue[d]) = queue[d][1]
      BY <3>1
    <3>3. \A o \in Msg : serving'[d] = o => InQueue(d, o)
      BY <1>0, <1>11, <3>2 DEF Accept, ServingTyped, InQueue
    <3> QED BY <1>0, <1>11, <3>3 DEF Held, PhasesTyped, ServingTyped, Accept
  <2> QED BY <1>a, <2>1, <2>2, <2>3, <2>4, <2>5 DEF CountInv
<1>12. ASSUME NEW m \in Msg, Connect(m) PROVE CountInv'
  <2>1. Fewer
    BY <1>12, <1>c DEF Connect
  <2>2. Faults
    BY <1>12, <1>d DEF Connect
  <2>3. \A o \in Msg : Selves(o)
    BY <1>0, <1>b, <1>12 DEF Connect, Selves, BySelf, PhasesTyped
  <2>4. \A o \in Msg : Queued(o)
    <3>1. CASE queue' = queue
      BY <1>f, <3>1
    <3>2. CASE Reachable /\ Arrive(m)
      BY <1>12, <3>2, ArrivesAtEnd DEF Queued, Connect
    <3> QED BY <1>12, <3>1, <3>2 DEF Connect
  <2>5. \A o \in Msg : Held(o)
    BY <1>0, <1>12, <1>g DEF Connect
  <2> QED BY <1>a, <2>1, <2>2, <2>3, <2>4, <2>5 DEF CountInv
<1>13. ASSUME NEW m \in Msg, Send(m) PROVE CountInv'
  <2>1. Fewer
    BY <1>13, <1>c DEF Send
  <2>2. Faults
    BY <1>13, <1>d DEF Send
  <2>3. \A o \in Msg : Selves(o)
    BY <1>0, <1>b, <1>13 DEF Send, Selves, BySelf, PhasesTyped
  <2>4. \A o \in Msg : Queued(o)
    BY <1>13, <1>f DEF Send
  <2>5. \A o \in Msg : Held(o)
    BY <1>13, <1>g DEF Send
  <2> QED BY <1>a, <2>1, <2>2, <2>3, <2>4, <2>5 DEF CountInv
<1>14. ASSUME NEW m \in Msg, GiveUp(m) PROVE CountInv'
  <2>1. Fewer
    BY <1>14, <1>c DEF GiveUp
  <2>2. Faults
    BY <1>14, <1>d DEF GiveUp
  <2>3. \A o \in Msg : Selves(o)
    BY <1>0, <1>b, <1>14 DEF GiveUp, Selves, BySelf, PhasesTyped
  <2>4. \A o \in Msg : Queued(o)
    BY <1>14, <1>f DEF GiveUp
  <2>5. \A o \in Msg : Held(o)
    BY <1>14, <1>g DEF GiveUp
  <2> QED BY <1>a, <2>1, <2>2, <2>3, <2>4, <2>5 DEF CountInv
<1>15. ASSUME NEW m \in Msg, Receive(m) PROVE CountInv'
  <2>1. Fewer
    BY <1>15, <1>c DEF Receive
  <2>2. Faults
    BY <1>15, <1>d DEF Receive
  <2>3. \A o \in Msg : Selves(o)
    BY <1>0, <1>b, <1>15 DEF Receive, Selves, BySelf, PhasesTyped
  <2>4. \A o \in Msg : Queued(o)
    BY <1>15, <1>f DEF Receive
  <2>5. \A o \in Msg : Held(o)
    BY <1>15, <1>g DEF Receive
  <2> QED BY <1>a, <2>1, <2>2, <2>3, <2>4, <2>5 DEF CountInv
<1>16. ASSUME NEW m \in Msg, DirectSync(m) PROVE CountInv'
  <2>1. Fewer
    BY <1>16, <1>c DEF DirectSync
  <2>2. Faults
    BY <1>16, <1>d DEF DirectSync
  <2>3. \A o \in Msg : Selves(o)
    BY <1>0, <1>b, <1>16 DEF DirectSync, Selves, BySelf, PhasesTyped
  <2>4. \A o \in Msg : Queued(o)
    BY <1>16, <1>f DEF DirectSync
  <2>5. \A o \in Msg : Held(o)
    BY <1>16, <1>g DEF DirectSync
  <2> QED BY <1>a, <2>1, <2>2, <2>3, <2>4, <2>5 DEF CountInv
<1>17. ASSUME NEW g \in Guest, GuestConnect(g) PROVE CountInv'
  <2>1. Fewer
    BY <1>17, <1>c DEF GuestConnect
  <2>2. Faults
    BY <1>17, <1>d DEF GuestConnect
  <2>3. \A o \in Msg : Selves(o)
    BY <1>17, <1>e DEF GuestConnect
  <2>4. \A o \in Msg : Queued(o)
    <3>1. Reachable /\ Arrive(g)
      BY <1>17 DEF GuestConnect
    <3>2. \A o \in Msg : o # g
      BY MemoryConstants
    <3> QED BY <3>1, <3>2, ArrivesAtEnd DEF Queued
  <2>5. \A o \in Msg : Held(o)
    BY <1>17, <1>g DEF GuestConnect
  <2> QED BY <1>a, <2>1, <2>2, <2>3, <2>4, <2>5 DEF CountInv
<1>18. ASSUME NEW g \in Guest, GuestCloses(g) PROVE CountInv'
  <2>1. Fewer
    BY <1>18, <1>c DEF GuestCloses
  <2>2. Faults
    BY <1>18, <1>d DEF GuestCloses
  <2>3. \A o \in Msg : Selves(o)
    BY <1>18, <1>e DEF GuestCloses
  <2>4. \A o \in Msg : Queued(o)
    BY <1>18, <1>f DEF GuestCloses
  <2>5. \A o \in Msg : Held(o)
    BY <1>18, <1>g DEF GuestCloses
  <2> QED BY <1>a, <2>1, <2>2, <2>3, <2>4, <2>5 DEF CountInv
<1>19. CASE FreeSpace
  <2>1. Fewer
    BY <1>19, <1>c DEF FreeSpace
  <2>2. Faults
    BY <1>19, <1>d DEF FreeSpace
  <2>3. \A o \in Msg : Selves(o)
    BY <1>19, <1>e DEF FreeSpace
  <2>4. \A o \in Msg : Queued(o)
    BY <1>19, <1>f DEF FreeSpace
  <2>5. \A o \in Msg : Held(o)
    BY <1>19, <1>g DEF FreeSpace
  <2> QED BY <1>a, <2>1, <2>2, <2>3, <2>4, <2>5 DEF CountInv
<1>20. CASE Crash
  <2>1. Fewer
    <3>1. PICK n \in synced .. Len(file) : file' = SubSeq(file, 1, n)
      BY <1>20 DEF Crash
    <3> QED BY <1>0, <3>1, CutCopies DEF Fewer, FileTyped
  <2>2. Faults
    BY <1>20, <1>d DEF Crash
  <2>3. \A o \in Msg : Selves(o)
    BY <1>0, <1>b, <1>20 DEF Crash, Selves, BySelf, PhasesTyped, Over
  <2>4. \A o \in Msg : Queued(o)
    BY <1>20 DEF Queued, InQueue, Crash
  <2>5. \A o \in Msg : Held(o)
    BY <1>0, <1>20 DEF Held, Crash
  <2> QED BY <1>a, <2>1, <2>2, <2>3, <2>4, <2>5 DEF CountInv
<1>21. ASSUME NEW d \in Daemon, Write(d) PROVE CountInv'
  <2>1. PICK m \in Msg : serving[d] = m
    BY <1>0, <1>21 DEF Write, ServingTyped
  <2>2. file' = file \o Line(m) \/ file' = Append(file, <<m, 1>>)
    <3>1. file' = file \o Line(m) \/ file' = file \o <<Head(Line(m))>>
      BY <1>21, <2>1 DEF Write
    <3> QED BY <1>0, <3>1, HeadAppended DEF FileTyped
  <2>3. Copies(m)' = Copies(m) + 1 /\ \A o \in Msg \ {m} : Copies(o)' = Copies(o)
    BY <1>0, <2>2, OneMore
  <2>4. dphase[d] = "writing" /\ serving' = serving /\ queue' = queue /\ phase' = phase /\ faults' = faults
    BY <1>21 DEF Write
  <2>5. dphase'[d] = "written" /\ \A e \in Daemon \ {d} : dphase'[e] = dphase[e]
    BY <1>0, <1>21 DEF Write, PhasesTyped
  <2>6. Counted(m)'
    <3>1. Copies(m) <= BySelf(m)
      BY <2>1, <2>4 DEF CountInv, Counted, Untouched
    <3>2. ~Untouched(m)'
      BY <2>1, <2>4, <2>5 DEF OnceInv, OnceHeld, Holds, Untouched, InQueue
    <3>3. BySelf(m)' = BySelf(m) /\ faults \in Nat
      BY <1>0, <2>4, MemoryConstants DEF BySelf, NamesTyped
    <3>4. Copies(m)' <= BySelf(m)' + 1 /\ Copies(m)' <= BySelf(m)' + 1 + faults'
      BY <1>b, <2>3, <2>4, <3>1, <3>3
    <3> QED BY <3>2, <3>4 DEF Counted
  <2>7. ASSUME NEW o \in Msg \ {m} PROVE Counted(o)'
    <3>1. Counted(o)
      BY DEF CountInv
    <3>2. Copies(o)' <= Copies(o)
      BY <1>b, <2>3
    <3>3. faults <= faults' /\ Selves(o) /\ Queued(o)
      BY <1>d, <1>e, <1>f, <2>4 DEF Faults
    <3>4. Held(o)
      BY <2>1, <2>4, <2>5 DEF Held
    <3> QED BY <1>0, <3>1, <3>2, <3>3, <3>4, CountedKept DEF Selves, Queued, Held
  <2> QED BY <2>6, <2>7 DEF CountInv
<1>22. ASSUME NEW d \in Daemon, WriteAgain(d) PROVE CountInv'
  <2>1. PICK m \in Msg : serving[d] = m
    BY <1>0, <1>22 DEF WriteAgain, ServingTyped
  <2>2. file' = file \o Line(m)
    BY <1>22, <2>1 DEF WriteAgain
  <2>3. Copies(m)' = Copies(m) + 1 /\ \A o \in Msg \ {m} : Copies(o)' = Copies(o)
    BY <1>0, <2>2, OneMore
  <2>4. dphase[d] = "again" /\ serving' = serving /\ queue' = queue /\ phase' = phase /\ faults' = faults
    BY <1>22 DEF WriteAgain
  <2>5. dphase'[d] = "rewritten" /\ \A e \in Daemon \ {d} : dphase'[e] = dphase[e]
    BY <1>0, <1>22 DEF WriteAgain, PhasesTyped
  <2>6. Counted(m)'
    <3>1. Copies(m) <= BySelf(m) + 1 /\ faults >= 1
      BY <2>1, <2>4 DEF CountInv, Counted, Once, ClaimInv, ClaimsFor
    <3>2. ~Untouched(m)' /\ ~Once(m)'
      BY <2>1, <2>4, <2>5 DEF OnceInv, OnceHeld, Holds, Untouched, Once, InQueue
    <3>3. BySelf(m)' = BySelf(m) /\ faults \in Nat
      BY <1>0, <2>4, MemoryConstants DEF BySelf, NamesTyped
    <3>4. Copies(m)' <= BySelf(m)' + 1 + faults'
      BY <1>b, <2>3, <2>4, <3>1, <3>3
    <3> QED BY <3>2, <3>4 DEF Counted
  <2>7. ASSUME NEW o \in Msg \ {m} PROVE Counted(o)'
    <3>1. Counted(o)
      BY DEF CountInv
    <3>2. Copies(o)' <= Copies(o)
      BY <1>b, <2>3
    <3>3. faults <= faults' /\ Selves(o) /\ Queued(o)
      BY <1>d, <1>e, <1>f, <2>4 DEF Faults
    <3>4. Held(o)
      BY <2>1, <2>4, <2>5 DEF Held
    <3> QED BY <1>0, <3>1, <3>2, <3>3, <3>4, CountedKept DEF Selves, Queued, Held
  <2> QED BY <2>6, <2>7 DEF CountInv
<1>23. ASSUME NEW m \in Msg, Direct(m) PROVE CountInv'
  <2>1. UNCHANGED <<serving, queue, dphase, faults>>
    BY <1>23 DEF Direct
  <2>2. \A o \in Msg : Queued(o) /\ Held(o) /\ Selves(o)
    BY <1>0, <1>b, <1>f, <1>g, <1>23, <2>1 DEF Direct, Selves, BySelf, PhasesTyped
  <2>3. CASE file' = file \/ file' = Append(file, <<m, 2>>)
    <3>1. Fewer
      BY <1>0, <1>b, <2>3, RestCopies DEF Fewer, FileTyped
    <3> QED BY <1>a, <1>d, <2>1, <2>2, <3>1 DEF CountInv
  <2>4. CASE phase[m] = "direct" /\ phase'[m] \in {"half", "complete"} /\ (file' = file \o Line(m) \/ file' = Append(file, <<m, 1>>))
    <3>1. Copies(m)' = Copies(m) + 1 /\ \A o \in Msg \ {m} : Copies(o)' = Copies(o)
      BY <1>0, <2>4, OneMore
    <3>2. BySelf(m) = 0 /\ BySelf(m)' = 1
      BY <2>4 DEF BySelf
    <3>4. Counted(m) /\ faults \in Nat
      BY <1>0, MemoryConstants DEF CountInv, NamesTyped
    <3>5. (Untouched(m)' => Untouched(m)) /\ (Once(m)' => Once(m))
      BY <2>1, <2>2, <2>4 DEF Untouched, Once, InQueue, Selves
    <3>6. Counted(m)'
      <4>1. Untouched(m)' => Copies(m)' <= BySelf(m)'
        BY <1>b, <3>1, <3>2, <3>4, <3>5 DEF Counted
      <4>2. Once(m)' => Copies(m)' <= BySelf(m)' + 1
        BY <1>b, <3>1, <3>2, <3>4, <3>5 DEF Counted
      <4>3. Copies(m)' <= BySelf(m)' + 1 + faults'
        BY <1>b, <2>1, <3>1, <3>2, <3>4 DEF Counted
      <4> QED BY <4>1, <4>2, <4>3 DEF Counted
    <3>7. ASSUME NEW o \in Msg \ {m} PROVE Counted(o)'
      <4>1. Counted(o) /\ Copies(o)' <= Copies(o) /\ faults <= faults'
        BY <1>b, <1>d, <2>1, <3>1 DEF CountInv, Faults
      <4> QED BY <1>0, <2>2, <4>1, CountedKept DEF Selves, Queued, Held
    <3> QED BY <3>6, <3>7 DEF CountInv
  <2> QED BY <1>0, <1>23, <2>3, <2>4, LinePieces DEF Direct, PhasesTyped
<1> QED
  BY <1>1, <1>2, <1>3, <1>4, <1>5, <1>6, <1>7, <1>8, <1>9, <1>10, <1>11, <1>12, <1>13, <1>14, <1>15, <1>16, <1>17, <1>18, <1>19, <1>20, <1>21, <1>22, <1>23
     DEF Next, DaemonStep, Client

-------------------------------------------------------------------------------
LEMMA ClaimInitially == ASSUME Init PROVE ClaimInv
BY DEF Init, ClaimInv, Claims, ClaimsFor

\* What is synced is everything that was written; a crash takes nothing that was.
LEMMA SyncStays ==
  ASSUME FileTyped, file' = file, synced' = Len(file)
  PROVE  Stays' = Begun' /\ Begun' = Begun /\ Stays \subseteq Stays'
<1>1. Len(file) \in Nat /\ synced \in 0 .. Len(file)
  BY DEF FileTyped
<1>2. Stays' = Begun' /\ Begun' = Begun
  BY DEF Stays, Begun, First
<1>3. Stays \subseteq Begun
  BY <1>1 DEF Stays, Begun, First
<1> QED BY <1>2, <1>3

LEMMA CutStays ==
  ASSUME FileTyped, NEW n \in synced .. Len(file), file' = SubSeq(file, 1, n), synced' = Len(file')
  PROVE  Stays \subseteq Stays'
<1>1. synced \in Nat /\ Len(file) \in Nat /\ n \in Nat /\ synced <= n /\ n <= Len(file)
  BY DEF FileTyped
<1>2. synced' = n /\ \A i \in 1 .. n : file'[i] = file[i]
  BY <1>1 DEF FileTyped
<1>3. \A i \in 1 .. synced : i \in 1 .. n
  BY <1>1
<1> QED BY <1>2, <1>3 DEF Stays

LEMMA ClaimStep ==
  ASSUME MemoryConstants, TypeInv, TypeInv', ClaimInv, [Next]_vars
  PROVE  ClaimInv'
<1> USE DEF EnterD, Enter, disk, names, daemons, clients
<1>0. /\ FileTyped /\ NamesTyped /\ PhasesTyped /\ ClientsTyped /\ ServingTyped
      /\ FileTyped' /\ NamesTyped' /\ PhasesTyped' /\ ClientsTyped' /\ ServingTyped'
  BY TypeParts, PTL
<1>a. ASSUME UNCHANGED <<file, synced>> PROVE Begun' = Begun /\ Stays' = Stays
  BY <1>a DEF Begun, Stays, First
<1>1. CASE UNCHANGED vars
  <2>1. Begun' = Begun /\ Stays' = Stays
    BY <1>1, <1>a DEF vars
  <2>2. ASSUME NEW o \in Msg PROVE Claims(o)'
    BY <1>0, <1>1, <2>1 DEF ClaimInv, Claims, ClaimsFor, PhasesTyped, ClientsTyped, vars
  <2>3. ASSUME NEW e \in Daemon PROVE ClaimsFor(e)'
    BY <1>0, <1>1, <2>1 DEF ClaimInv, ClaimsFor, PhasesTyped, ServingTyped, NamesTyped, vars
  <2> QED BY <2>2, <2>3 DEF ClaimInv
<1>2. ASSUME NEW d \in Daemon, Check(d) PROVE ClaimInv'
  <2>1. Begun' = Begun /\ Stays' = Stays
    BY <1>2, <1>a DEF Check
  <2>2. ASSUME NEW o \in Msg PROVE Claims(o)'
    BY <1>0, <1>2, <2>1 DEF ClaimInv, Claims, ClaimsFor, PhasesTyped, ClientsTyped, Check
  <2>3. ASSUME NEW e \in Daemon PROVE ClaimsFor(e)'
    BY <1>0, <1>2, <2>1 DEF ClaimInv, ClaimsFor, PhasesTyped, ServingTyped, NamesTyped, Check
  <2> QED BY <2>2, <2>3 DEF ClaimInv
<1>3. ASSUME NEW d \in Daemon, Unlink(d) PROVE ClaimInv'
  <2>1. Begun' = Begun /\ Stays' = Stays
    BY <1>3, <1>a DEF Unlink
  <2>2. ASSUME NEW o \in Msg PROVE Claims(o)'
    BY <1>0, <1>3, <2>1 DEF ClaimInv, Claims, ClaimsFor, PhasesTyped, ClientsTyped, Unlink
  <2>3. ASSUME NEW e \in Daemon PROVE ClaimsFor(e)'
    BY <1>0, <1>3, <2>1 DEF ClaimInv, ClaimsFor, PhasesTyped, ServingTyped, NamesTyped, Unlink
  <2> QED BY <2>2, <2>3 DEF ClaimInv
<1>4. ASSUME NEW d \in Daemon, Bind(d) PROVE ClaimInv'
  <2>1. Begun' = Begun /\ Stays' = Stays
    BY <1>4, <1>a DEF Bind
  <2>2. ASSUME NEW o \in Msg PROVE Claims(o)'
    BY <1>0, <1>4, <2>1 DEF ClaimInv, Claims, ClaimsFor, PhasesTyped, ClientsTyped, Bind
  <2>3. ASSUME NEW e \in Daemon PROVE ClaimsFor(e)'
    BY <1>0, <1>4, <2>1 DEF ClaimInv, ClaimsFor, PhasesTyped, ServingTyped, NamesTyped, Bind
  <2> QED BY <2>2, <2>3 DEF ClaimInv
<1>5. ASSUME NEW d \in Daemon, WritePid(d) PROVE ClaimInv'
  <2>1. Begun' = Begun /\ Stays' = Stays
    BY <1>5, <1>a DEF WritePid
  <2>2. ASSUME NEW o \in Msg PROVE Claims(o)'
    BY <1>0, <1>5, <2>1 DEF ClaimInv, Claims, ClaimsFor, PhasesTyped, ClientsTyped, WritePid
  <2>3. ASSUME NEW e \in Daemon PROVE ClaimsFor(e)'
    BY <1>0, <1>5, <2>1 DEF ClaimInv, ClaimsFor, PhasesTyped, ServingTyped, NamesTyped, WritePid
  <2> QED BY <2>2, <2>3 DEF ClaimInv
<1>6. ASSUME NEW d \in Daemon, Accept(d) PROVE ClaimInv'
  <2>1. Begun' = Begun /\ Stays' = Stays
    BY <1>6, <1>a DEF Accept
  <2>2. ASSUME NEW o \in Msg PROVE Claims(o)'
    BY <1>0, <1>6, <2>1 DEF ClaimInv, Claims, ClaimsFor, PhasesTyped, ClientsTyped, Accept
  <2>3. ASSUME NEW e \in Daemon PROVE ClaimsFor(e)'
    BY <1>0, <1>6, <2>1 DEF ClaimInv, ClaimsFor, PhasesTyped, ServingTyped, NamesTyped, Accept
  <2> QED BY <2>2, <2>3 DEF ClaimInv
<1>7. ASSUME NEW d \in Daemon, ReadToEof(d) PROVE ClaimInv'
  <2>1. Begun' = Begun /\ Stays' = Stays
    BY <1>7, <1>a DEF ReadToEof
  <2>2. ASSUME NEW o \in Msg PROVE Claims(o)'
    BY <1>0, <1>7, <2>1 DEF ClaimInv, Claims, ClaimsFor, PhasesTyped, ClientsTyped, ReadToEof
  <2>3. ASSUME NEW e \in Daemon PROVE ClaimsFor(e)'
    BY <1>0, <1>7, <2>1 DEF ClaimInv, ClaimsFor, PhasesTyped, ServingTyped, NamesTyped, ReadToEof
  <2> QED BY <2>2, <2>3 DEF ClaimInv
<1>8. ASSUME NEW d \in Daemon, Fault(d) PROVE ClaimInv'
  <2>1. Begun' = Begun /\ Stays' = Stays
    BY <1>8, <1>a DEF Fault
  <2>2. ASSUME NEW o \in Msg PROVE Claims(o)'
    BY <1>0, <1>8, <2>1 DEF ClaimInv, Claims, ClaimsFor, PhasesTyped, ClientsTyped, Fault
  <2>3. ASSUME NEW e \in Daemon PROVE ClaimsFor(e)'
    BY <1>0, <1>8, <2>1, MemoryConstants DEF ClaimInv, ClaimsFor, PhasesTyped, ServingTyped, NamesTyped, Fault
  <2> QED BY <2>2, <2>3 DEF ClaimInv
<1>9. ASSUME NEW d \in Daemon, Reply(d) PROVE ClaimInv'
  <2>1. Begun' = Begun /\ Stays' = Stays
    BY <1>9, <1>a DEF Reply
  <2>2. ASSUME NEW o \in Msg PROVE Claims(o)'
    BY <1>0, <1>9, <2>1 DEF ClaimInv, Claims, ClaimsFor, PhasesTyped, ClientsTyped, Reply
  <2>3. ASSUME NEW e \in Daemon PROVE ClaimsFor(e)'
    BY <1>0, <1>9, <2>1 DEF ClaimInv, ClaimsFor, PhasesTyped, ServingTyped, NamesTyped, Reply
  <2> QED BY <2>2, <2>3 DEF ClaimInv
<1>10. ASSUME NEW d \in Daemon, Die(d) PROVE ClaimInv'
  <2>1. Begun' = Begun /\ Stays' = Stays
    BY <1>10, <1>a DEF Die
  <2>2. ASSUME NEW o \in Msg PROVE Claims(o)'
    BY <1>0, <1>10, <2>1 DEF ClaimInv, Claims, ClaimsFor, PhasesTyped, ClientsTyped, Die, CutOff
  <2>3. ASSUME NEW e \in Daemon PROVE ClaimsFor(e)'
    BY <1>0, <1>10, <2>1 DEF ClaimInv, ClaimsFor, PhasesTyped, ServingTyped, NamesTyped, Die, CutOff
  <2> QED BY <2>2, <2>3 DEF ClaimInv
<1>11. ASSUME NEW d \in Daemon, Sync(d) PROVE ClaimInv'
  <2>1. Stays' = Begun' /\ Begun' = Begun /\ Stays \subseteq Stays'
    BY <1>0, <1>11, SyncStays DEF Sync
  <2>2. ASSUME NEW o \in Msg PROVE Claims(o)'
    BY <1>0, <1>11, <2>1 DEF ClaimInv, Claims, ClaimsFor, PhasesTyped, ClientsTyped, Sync
  <2>3. ASSUME NEW e \in Daemon PROVE ClaimsFor(e)'
    BY <1>0, <1>11, <2>1 DEF ClaimInv, ClaimsFor, PhasesTyped, ServingTyped, NamesTyped, Sync
  <2> QED BY <2>2, <2>3 DEF ClaimInv
<1>12. ASSUME NEW d \in Daemon, Write(d) PROVE ClaimInv'
  <2>1. serving[d] \in Begun' /\ Begun \subseteq Begun' /\ Stays \subseteq Stays'
    <3>1. PICK m \in Msg : serving[d] = m
      BY <1>0, <1>12 DEF Write, ServingTyped
    <3>2. file' = file \o Line(m) \/ file' = file \o <<Head(Line(m))>>
      BY <1>12, <3>1 DEF Write
    <3>3. file' = file \o Line(m) \/ file' = Append(file, <<m, 1>>)
      BY <1>0, <3>2, HeadAppended DEF FileTyped
    <3>4. synced' = synced
      BY <1>12 DEF Write
    <3> QED BY <1>0, <3>1, <3>3, <3>4, OneMore
  <2>2. ASSUME NEW o \in Msg PROVE Claims(o)'
    BY <1>0, <1>12, <2>1 DEF ClaimInv, Claims, ClaimsFor, PhasesTyped, ClientsTyped, Write
  <2>3. ASSUME NEW e \in Daemon PROVE ClaimsFor(e)'
    BY <1>0, <1>12, <2>1 DEF ClaimInv, ClaimsFor, PhasesTyped, ServingTyped, NamesTyped, Write
  <2> QED BY <2>2, <2>3 DEF ClaimInv
<1>13. ASSUME NEW d \in Daemon, WriteAgain(d) PROVE ClaimInv'
  <2>1. serving[d] \in Begun' /\ Begun \subseteq Begun' /\ Stays \subseteq Stays'
    <3>1. PICK m \in Msg : serving[d] = m
      BY <1>0, <1>13 DEF WriteAgain, ServingTyped
    <3>2. file' = file \o Line(m) \/ file' = file \o <<Head(Line(m))>>
      BY <1>13, <3>1 DEF WriteAgain
    <3>3. file' = file \o Line(m) \/ file' = Append(file, <<m, 1>>)
      BY <1>0, <3>2, HeadAppended DEF FileTyped
    <3>4. synced' = synced
      BY <1>13 DEF WriteAgain
    <3> QED BY <1>0, <3>1, <3>3, <3>4, OneMore
  <2>2. ASSUME NEW o \in Msg PROVE Claims(o)'
    BY <1>0, <1>13, <2>1 DEF ClaimInv, Claims, ClaimsFor, PhasesTyped, ClientsTyped, WriteAgain
  <2>3. ASSUME NEW e \in Daemon PROVE ClaimsFor(e)'
    BY <1>0, <1>13, <2>1 DEF ClaimInv, ClaimsFor, PhasesTyped, ServingTyped, NamesTyped, WriteAgain
  <2> QED BY <2>2, <2>3 DEF ClaimInv
<1>14. ASSUME NEW m \in Msg, Connect(m) PROVE ClaimInv'
  <2>1. Begun' = Begun /\ Stays' = Stays
    BY <1>14, <1>a DEF Connect
  <2>2. ASSUME NEW o \in Msg PROVE Claims(o)'
    BY <1>0, <1>14, <2>1 DEF ClaimInv, Claims, ClaimsFor, PhasesTyped, ClientsTyped, Connect, Arrive
  <2>3. ASSUME NEW e \in Daemon PROVE ClaimsFor(e)'
    BY <1>0, <1>14, <2>1 DEF ClaimInv, ClaimsFor, PhasesTyped, ServingTyped, NamesTyped, Connect, Arrive
  <2> QED BY <2>2, <2>3 DEF ClaimInv
<1>15. ASSUME NEW m \in Msg, Send(m) PROVE ClaimInv'
  <2>1. Begun' = Begun /\ Stays' = Stays
    BY <1>15, <1>a DEF Send
  <2>2. ASSUME NEW o \in Msg PROVE Claims(o)'
    BY <1>0, <1>15, <2>1 DEF ClaimInv, Claims, ClaimsFor, PhasesTyped, ClientsTyped, Send
  <2>3. ASSUME NEW e \in Daemon PROVE ClaimsFor(e)'
    BY <1>0, <1>15, <2>1 DEF ClaimInv, ClaimsFor, PhasesTyped, ServingTyped, NamesTyped, Send
  <2> QED BY <2>2, <2>3 DEF ClaimInv
<1>16. ASSUME NEW m \in Msg, GiveUp(m) PROVE ClaimInv'
  <2>1. Begun' = Begun /\ Stays' = Stays
    BY <1>16, <1>a DEF GiveUp
  <2>2. ASSUME NEW o \in Msg PROVE Claims(o)'
    BY <1>0, <1>16, <2>1 DEF ClaimInv, Claims, ClaimsFor, PhasesTyped, ClientsTyped, GiveUp
  <2>3. ASSUME NEW e \in Daemon PROVE ClaimsFor(e)'
    BY <1>0, <1>16, <2>1 DEF ClaimInv, ClaimsFor, PhasesTyped, ServingTyped, NamesTyped, GiveUp
  <2> QED BY <2>2, <2>3 DEF ClaimInv
<1>17. ASSUME NEW m \in Msg, Receive(m) PROVE ClaimInv'
  <2>1. Begun' = Begun /\ Stays' = Stays
    BY <1>17, <1>a DEF Receive
  <2>2. ASSUME NEW o \in Msg PROVE Claims(o)'
    BY <1>0, <1>17, <2>1 DEF ClaimInv, Claims, ClaimsFor, PhasesTyped, ClientsTyped, Receive
  <2>3. ASSUME NEW e \in Daemon PROVE ClaimsFor(e)'
    BY <1>0, <1>17, <2>1 DEF ClaimInv, ClaimsFor, PhasesTyped, ServingTyped, NamesTyped, Receive
  <2> QED BY <2>2, <2>3 DEF ClaimInv
<1>18. ASSUME NEW m \in Msg, Direct(m) PROVE ClaimInv'
  <2>1. Begun \subseteq Begun' /\ Stays \subseteq Stays'
    <3>1. synced' = synced
      BY <1>18 DEF Direct
    <3>2. CASE file' = file
      BY <1>a, <3>1, <3>2
    <3>3. CASE file' = file \o Line(m) \/ file' = Append(file, <<m, 1>>)
      BY <1>0, <3>1, <3>3, OneMore
    <3>4. CASE file' = Append(file, <<m, 2>>)
      <4>1. <<m, 2>> \in Piece
        BY DEF Piece
      <4>2. /\ file \in Seq(Piece) /\ Len(file) \in Nat /\ Len(file') = Len(file) + 1
            /\ \A i \in 1 .. Len(file) : file'[i] = file[i]
        BY <1>0, <3>4, <4>1, AppendProperties DEF FileTyped
      <4>3. \A i \in 1 .. Len(file) : i \in 1 .. Len(file')
        BY <4>2
      <4>4. \A i \in 1 .. synced : i \in 1 .. Len(file)
        BY <1>0 DEF FileTyped
      <4> QED BY <3>1, <4>2, <4>3, <4>4 DEF Begun, First, Stays
    <3> QED BY <1>18, <3>2, <3>3, <3>4, LinePieces DEF Direct
  <2>2. ASSUME NEW o \in Msg PROVE Claims(o)'
    BY <1>0, <1>18, <2>1 DEF ClaimInv, Claims, ClaimsFor, PhasesTyped, ClientsTyped, Direct
  <2>3. ASSUME NEW e \in Daemon PROVE ClaimsFor(e)'
    BY <1>0, <1>18, <2>1 DEF ClaimInv, ClaimsFor, PhasesTyped, ServingTyped, NamesTyped, Direct
  <2> QED BY <2>2, <2>3 DEF ClaimInv
<1>19. ASSUME NEW m \in Msg, DirectSync(m) PROVE ClaimInv'
  <2>1. Stays' = Begun' /\ Begun' = Begun /\ Stays \subseteq Stays'
    BY <1>0, <1>19, SyncStays DEF DirectSync
  <2>2. ASSUME NEW o \in Msg PROVE Claims(o)'
    BY <1>0, <1>19, <2>1 DEF ClaimInv, Claims, ClaimsFor, PhasesTyped, ClientsTyped, DirectSync
  <2>3. ASSUME NEW e \in Daemon PROVE ClaimsFor(e)'
    BY <1>0, <1>19, <2>1 DEF ClaimInv, ClaimsFor, PhasesTyped, ServingTyped, NamesTyped, DirectSync
  <2> QED BY <2>2, <2>3 DEF ClaimInv
<1>20. ASSUME NEW g \in Guest, GuestConnect(g) PROVE ClaimInv'
  <2>1. Begun' = Begun /\ Stays' = Stays
    BY <1>20, <1>a DEF GuestConnect
  <2>2. ASSUME NEW o \in Msg PROVE Claims(o)'
    BY <1>0, <1>20, <2>1 DEF ClaimInv, Claims, ClaimsFor, PhasesTyped, ClientsTyped, GuestConnect, Arrive
  <2>3. ASSUME NEW e \in Daemon PROVE ClaimsFor(e)'
    BY <1>0, <1>20, <2>1 DEF ClaimInv, ClaimsFor, PhasesTyped, ServingTyped, NamesTyped, GuestConnect, Arrive
  <2> QED BY <2>2, <2>3 DEF ClaimInv
<1>21. ASSUME NEW g \in Guest, GuestCloses(g) PROVE ClaimInv'
  <2>1. Begun' = Begun /\ Stays' = Stays
    BY <1>21, <1>a DEF GuestCloses
  <2>2. ASSUME NEW o \in Msg PROVE Claims(o)'
    BY <1>0, <1>21, <2>1 DEF ClaimInv, Claims, ClaimsFor, PhasesTyped, ClientsTyped, GuestCloses
  <2>3. ASSUME NEW e \in Daemon PROVE ClaimsFor(e)'
    BY <1>0, <1>21, <2>1 DEF ClaimInv, ClaimsFor, PhasesTyped, ServingTyped, NamesTyped, GuestCloses
  <2> QED BY <2>2, <2>3 DEF ClaimInv
<1>22. CASE FreeSpace
  <2>1. Begun' = Begun /\ Stays' = Stays
    BY <1>22, <1>a DEF FreeSpace
  <2>2. ASSUME NEW o \in Msg PROVE Claims(o)'
    BY <1>0, <1>22, <2>1 DEF ClaimInv, Claims, ClaimsFor, PhasesTyped, ClientsTyped, FreeSpace
  <2>3. ASSUME NEW e \in Daemon PROVE ClaimsFor(e)'
    BY <1>0, <1>22, <2>1 DEF ClaimInv, ClaimsFor, PhasesTyped, ServingTyped, NamesTyped, FreeSpace
  <2> QED BY <2>2, <2>3 DEF ClaimInv
<1>23. CASE Crash
  <2>1. Stays \subseteq Stays'
    BY <1>0, <1>23, CutStays DEF Crash
  <2>2. ASSUME NEW o \in Msg PROVE Claims(o)'
    BY <1>0, <1>23, <2>1 DEF ClaimInv, Claims, ClaimsFor, PhasesTyped, ClientsTyped, Crash, Alive, Over
  <2>3. ASSUME NEW e \in Daemon PROVE ClaimsFor(e)'
    BY <1>0, <1>23, <2>1 DEF ClaimInv, ClaimsFor, PhasesTyped, ServingTyped, NamesTyped, Crash, Alive, Over
  <2> QED BY <2>2, <2>3 DEF ClaimInv
<1> QED
  BY <1>1, <1>2, <1>3, <1>4, <1>5, <1>6, <1>7, <1>8, <1>9, <1>10, <1>11, <1>12, <1>13, <1>14, <1>15, <1>16, <1>17, <1>18, <1>19, <1>20, <1>21, <1>22, <1>23
     DEF Next, DaemonStep, Client

-------------------------------------------------------------------------------
\* However connections time out, break, are taken late or twice, and whatever
\* crashes: the line of an append that the daemon answered is in the file once, and
\* once more for every failure of a first attempt; that of any other is there twice
\* at most, and once more for every failure (_try_daemon, append and the daemon's
\* _append), on a disk that fills up as well.
THEOREM CopiesAlwaysExplained == ASSUME MemoryConstants PROVE Spec => []CopiesExplained
<1> DEFINE Inv == TypeInv /\ OnceInv /\ CountInv /\ ClaimInv
<1>1. Init => Inv
  BY TypeInitially, OnceInitially, CountInitially, ClaimInitially
<1>2. Inv /\ [Next]_vars => Inv'
  <2> SUFFICES ASSUME Inv, [Next]_vars PROVE Inv'
    OBVIOUS
  <2>1. TypeInv'
    BY TypeStep
  <2> QED BY <2>1, OnceStep, CountStep, ClaimStep
<1>3. Inv => CopiesExplained
  <2> SUFFICES ASSUME Inv, NEW m \in Msg
               PROVE  /\ phase[m] = "acked" => Copies(m) \in 1 .. 1 + faults
                      /\ Copies(m) <= 2 + faults
    BY DEF CopiesExplained
  <2>1. FileTyped /\ NamesTyped
    BY TypeParts
  <2>2. /\ Copies(m) \in Nat /\ faults \in Nat /\ BySelf(m) \in {0, 1}
        /\ phase[m] = "acked" => BySelf(m) = 0
    BY <2>1, CopiesCounted DEF FileTyped, NamesTyped, BySelf
  <2>3. Copies(m) <= BySelf(m) + 1 + faults
    BY DEF CountInv, Counted
  <2>4. ASSUME phase[m] = "acked" PROVE Copies(m) >= 1
    <3>1. m \in Stays
      BY <2>4 DEF ClaimInv, Claims
    <3>2. First(m) # {}
      BY <2>1, <3>1 DEF Stays, First, FileTyped
    <3>3. Copies(m) # 0
      BY <2>1, <3>2, CopiesCounted, FS_EmptySet DEF FileTyped
    <3> QED BY <2>2, <3>3
  <2> QED BY <2>2, <2>3, <2>4
<1> QED BY <1>1, <1>2, <1>3, PTL DEF Spec

-------------------------------------------------------------------------------
(* The database. *)

HotTable == "Memory_Hot"
MarkTable == "Checkpoints"
Pending == {<<>>, <<HotTable>>, <<MarkTable, HotTable>>}

\* The process p is about to drop the table t, whatever it holds by then.
Dropping(p, t) == doing[p] = "dropping" /\ Db!At(p, t)
Busy(p) == doing[p] \in {"adding", "stored", "marking"}

DbTypes ==
  /\ table \in [{HotTable, MarkTable} -> [schema : {"none", "old", "new"}, rows : Seq(Said \cup {Old})]]
  /\ DOMAIN doing = Proc /\ tables \in [Proc -> Pending] /\ adding \in [Proc -> Said \cup {Nothing}]
  /\ before \in [Said -> SUBSET Said] /\ beside \in [Said -> SUBSET Proc]
  /\ lines \cup rows \cup added \subseteq Said

\* A message is added by one process at a time, and once.
AddedOnce ==
  /\ \A p \in Proc : Busy(p) => adding[p] \in Said \ added
  /\ \A p \in Proc : doing[p] = "adding" => adding[p] \notin rows
  /\ \A p \in Proc : doing[p] \in {"stored", "marking"} => adding[p] \in rows
  /\ \A p, q \in Proc : adding[p] = adding[q] => p = q \/ adding[p] = Nothing
  /\ added \subseteq rows /\ \A m \in Said : before[m] \subseteq added

\* Who will drop a table has counted none of the older rows, and was at it when the
\* others were made.
DroppersKnown ==
  /\ \A t \in {HotTable, MarkTable} : table[t].schema = "none" => table[t].rows = <<>>
  /\ \A p \in Proc, t \in {HotTable, MarkTable} : Dropping(p, t) => Old \notin Db!Rows(t)
  /\ \A p \in Proc, m \in Said : m \in Db!Rows(HotTable) /\ Dropping(p, HotTable) => p \in beside[m]

RowsKnown ==
  /\ Old \notin DOMAIN wiped
  /\ \A m \in DOMAIN wiped : m \in rows /\ wiped[m] \in beside[m]
  /\ Db!Rows(HotTable) \ {Old} \subseteq rows
  /\ \A m \in rows : m \in Db!Rows(HotTable) \/ m \in DOMAIN wiped

MarksOrdered ==
  Db!Newest(MarkTable) \in Said => \A m \in Said \cap Db!Rows(MarkTable) : Db!Newest(MarkTable) \notin before[m]

DbInv == DbTypes /\ AddedOnce /\ DroppersKnown /\ RowsKnown /\ Db!CopiesFollowRows /\ MarksOrdered

LEMMA TwoTables ==
  /\ Db!Range(Db!Tables) = {HotTable, MarkTable} /\ Db!Tables = <<MarkTable, HotTable>> /\ HotTable # MarkTable
  /\ \A t : Db!Rows(t) = {table[t].rows[i] : i \in DOMAIN table[t].rows}
<1>1. Db!Tables = <<MarkTable, HotTable>> /\ HotTable # MarkTable
  BY DEF Db!Tables, HotTable, MarkTable
<1>2. DOMAIN <<MarkTable, HotTable>> = {1, 2}
  OBVIOUS
<1>3. Db!Range(Db!Tables) = {HotTable, MarkTable}
  <2> DEFINE s == <<MarkTable, HotTable>>
  <2>1. s[1] = MarkTable /\ s[2] = HotTable
    OBVIOUS
  <2>2. Db!Range(s) = {s[i] : i \in DOMAIN s}
    BY DEF Db!Range
  <2> HIDE DEF s
  <2>3. DOMAIN s = {1, 2}
    BY <1>2 DEF s
  <2> QED BY <1>1, <2>1, <2>2, <2>3 DEF s
<1> QED BY <1>1, <1>3 DEF Db!Rows, Db!Range

\* A table with one more row.
LEMMA OneRow ==
  ASSUME NEW S, NEW s \in Seq(S), NEW x \in S
  PROVE  /\ Append(s, x) \in Seq(S) /\ Append(s, x) # <<>> /\ Append(s, x)[Len(Append(s, x))] = x
         /\ {Append(s, x)[i] : i \in DOMAIN Append(s, x)} = {s[i] : i \in DOMAIN s} \cup {x}
<1>1. Append(s, x) \in Seq(S) /\ Len(s) \in Nat /\ DOMAIN s = 1..Len(s) /\ DOMAIN Append(s, x) = 1..Len(s) + 1
      /\ Append(s, x) # <<>> /\ Len(Append(s, x)) = Len(s) + 1
  OBVIOUS
<1>2. \A i \in 1..Len(s) : Append(s, x)[i] = s[i]
  OBVIOUS
<1>3. Append(s, x)[Len(s) + 1] = x
  OBVIOUS
<1>4. \A i \in 1..Len(s) + 1 : i \in 1..Len(s) \/ i = Len(s) + 1
  BY <1>1
<1>5. 1..Len(s) \subseteq 1..Len(s) + 1 /\ Len(s) + 1 \in 1..Len(s) + 1
  BY <1>1
<1> DEFINE u == Append(s, x)
<1> HIDE DEF u
<1>6. {u[i] : i \in DOMAIN u} = {s[i] : i \in DOMAIN s} \cup {x}
  BY <1>1, <1>2, <1>3, <1>4, <1>5 DEF u
<1> QED BY <1>1, <1>3, <1>6 DEF u

LEMMA NoRows == {<<>>[i] : i \in DOMAIN <<>>} = {}
OBVIOUS

LEMMA DbInitially == ASSUME DbConstants, Db!Init PROVE DbInv
<1>1. /\ table \in [{HotTable, MarkTable} -> {[schema |-> "none", rows |-> <<>>], [schema |-> "old", rows |-> <<>>],
                                                [schema |-> "old", rows |-> <<Old>>]}]
      /\ doing = [p \in Proc |-> "off"] /\ tables = [p \in Proc |-> <<>>] /\ adding = [p \in Proc |-> Nothing]
      /\ lines = {} /\ rows = {} /\ added = {}
      /\ before = [m \in Said |-> {}] /\ beside = [m \in Said |-> {}] /\ DOMAIN wiped = {}
  BY TwoTables DEF Db!Init
<1>2. /\ [schema |-> "none", rows |-> <<>>] \in [schema : {"none", "old", "new"}, rows : Seq(Said \cup {Old})]
      /\ [schema |-> "old", rows |-> <<>>] \in [schema : {"none", "old", "new"}, rows : Seq(Said \cup {Old})]
  OBVIOUS
<1>3. [schema |-> "old", rows |-> <<Old>>] \in [schema : {"none", "old", "new"}, rows : Seq(Said \cup {Old})]
  <2>1. <<Old>> \in Seq(Said \cup {Old})
    OBVIOUS
  <2> QED BY <2>1
<1>4. DbTypes
  <2>1. table \in [{HotTable, MarkTable} -> [schema : {"none", "old", "new"}, rows : Seq(Said \cup {Old})]]
    BY <1>1, <1>2, <1>3
  <2>2. tables \in [Proc -> Pending]
    BY <1>1 DEF Pending
  <2> QED BY <1>1, <2>1, <2>2 DEF DbTypes
<1>5. \A p \in Proc : doing[p] = "off"
  BY <1>1
<1>6. AddedOnce
  BY <1>1, <1>5 DEF AddedOnce, Busy
<1>7. ASSUME NEW t \in {HotTable, MarkTable} PROVE Db!Rows(t) \subseteq {Old}
  <2>1. table[t].rows \in {<<>>, <<Old>>}
    BY <1>1
  <2>2. CASE table[t].rows = <<>>
    BY <2>2, TwoTables
  <2>3. CASE table[t].rows = <<Old>>
    <3>1. DOMAIN <<Old>> = {1} /\ <<Old>>[1] = Old
      OBVIOUS
    <3> QED BY <2>3, <3>1, TwoTables
  <2> QED BY <2>1, <2>2, <2>3
<1>8. DroppersKnown
  <2>1. \A t \in {HotTable, MarkTable} : table[t].schema = "none" => table[t].rows = <<>>
    BY <1>1
  <2> QED BY <1>5, <2>1 DEF DroppersKnown, Dropping
<1>9. RowsKnown /\ Db!CopiesFollowRows
  BY <1>1, <1>7 DEF RowsKnown, Db!CopiesFollowRows, MarkTable
<1>10. MarksOrdered
  BY <1>1, <1>7 DEF MarksOrdered, DbConstants
<1> QED BY <1>4, <1>6, <1>8, <1>9, <1>10 DEF DbInv

\* While no table changes.
LEMMA TablesStay ==
  ASSUME DbInv, UNCHANGED <<table, rows, beside, wiped, before>>, lines' \subseteq rows,
         \A p \in Proc, t \in {HotTable, MarkTable} : Dropping(p, t)' => Dropping(p, t)
  PROVE  DroppersKnown' /\ RowsKnown' /\ Db!CopiesFollowRows' /\ MarksOrdered'
<1>1. \A t : Db!Rows(t)' = Db!Rows(t)
  BY DEF Db!Rows
<1>2. Db!Newest(MarkTable)' = Db!Newest(MarkTable)
  BY DEF Db!Newest
<1>3. DroppersKnown'
  BY <1>1 DEF DbInv, DroppersKnown
<1>4. RowsKnown'
  <2>1. RowsKnown /\ Db!Rows(HotTable)' = Db!Rows(HotTable)
    BY <1>1 DEF DbInv
  <2> QED BY <2>1 DEF RowsKnown
<1>5. Db!CopiesFollowRows'
  BY <1>1 DEF DbInv, Db!CopiesFollowRows
<1>6. MarksOrdered'
  BY <1>1, <1>2 DEF DbInv, MarksOrdered
<1> QED BY <1>3, <1>4, <1>5, <1>6

\* A process goes on, or gives up, with nothing stored.
LEMMA NothingStored ==
  ASSUME DbInv, UNCHANGED <<table, lines, rows, added, before, beside, wiped>>,
         DOMAIN doing' = Proc, tables' \in [Proc -> Pending], adding' \in [Proc -> Said \cup {Nothing}],
         \A q \in Proc : adding'[q] \in {adding[q], Nothing},
         \A q \in Proc : doing'[q] \in {"adding", "stored", "marking"} => doing'[q] = doing[q] /\ adding'[q] = adding[q],
         \A q \in Proc, t \in {HotTable, MarkTable} : Dropping(q, t)' => Dropping(q, t)
  PROVE  DbInv'
<1>1. lines \subseteq rows
  BY DEF DbInv, Db!CopiesFollowRows
<1>2. DroppersKnown' /\ RowsKnown' /\ Db!CopiesFollowRows' /\ MarksOrdered'
  BY <1>1, TablesStay
<1>3. DbTypes'
  BY DEF DbInv, DbTypes
<1>4. AddedOnce'
  BY DEF DbInv, AddedOnce, Busy
<1> QED BY <1>2, <1>3, <1>4 DEF DbInv

LEMMA DbStep == ASSUME DbConstants, DbInv, [Db!Next]_Db!vars PROVE DbInv'
<1>0. /\ table \in [{HotTable, MarkTable} -> [schema : {"none", "old", "new"}, rows : Seq(Said \cup {Old})]]
      /\ DOMAIN doing = Proc /\ tables \in [Proc -> Pending] /\ adding \in [Proc -> Said \cup {Nothing}]
      /\ DOMAIN adding = Proc
      /\ before \in [Said -> SUBSET Said] /\ beside \in [Said -> SUBSET Proc]
      /\ lines \subseteq Said /\ rows \subseteq Said /\ added \subseteq Said /\ lines \subseteq rows
  BY DEF DbInv, DbTypes, Db!CopiesFollowRows
<1>1. CASE UNCHANGED Db!vars
  <2>1. UNCHANGED <<table, doing, tables, adding, lines, rows, added, before, beside, wiped>>
    BY <1>1 DEF Db!vars, Db!open, Db!history
  <2>2. \A q \in Proc, t \in {HotTable, MarkTable} : Dropping(q, t)' => Dropping(q, t)
    BY <2>1 DEF Dropping, Db!At
  <2> QED BY <1>0, <2>1, <2>2, NothingStored
\* A process goes where nothing is dropped or added.
<1>2. ASSUME NEW p \in Proc, DOMAIN doing' = Proc, tables' \in [Proc -> Pending],
             doing'[p] \in {"looking", "counting", "making", "ready", "failed", "dead"},
             \A q \in Proc \ {p} : doing'[q] = doing[q] /\ tables'[q] = tables[q],
             UNCHANGED <<table, lines, rows, added, before, beside, wiped>>,
             UNCHANGED adding \/ adding' = [adding EXCEPT ![p] = Nothing]
      PROVE  DbInv'
  <2>1. adding' \in [Proc -> Said \cup {Nothing}]
    BY <1>0, <1>2
  <2>2. \A q \in Proc : adding'[q] \in {adding[q], Nothing}
    BY <1>0, <1>2
  <2>3. \A q \in Proc \ {p} : adding'[q] = adding[q]
    BY <1>0, <1>2
  <2>4. \A q \in Proc : doing'[q] \in {"adding", "stored", "marking"} => doing'[q] = doing[q] /\ adding'[q] = adding[q]
    BY <1>2, <2>3
  <2>5. \A q \in Proc, t \in {HotTable, MarkTable} : Dropping(q, t)' => Dropping(q, t)
    BY <1>2, <2>3 DEF Dropping, Db!At
  <2> QED BY <1>2, <2>1, <2>2, <2>4, <2>5, NothingStored
<1>3. ASSUME NEW s \in Pending, s # <<>> PROVE Tail(s) \in Pending /\ Head(s) \in {HotTable, MarkTable}
  <2>1. CASE s = <<HotTable>>
    BY <2>1 DEF Pending
  <2>2. CASE s = <<MarkTable, HotTable>>
    <3>1. Tail(<<MarkTable, HotTable>>) = <<HotTable>> /\ Head(<<MarkTable, HotTable>>) = MarkTable
      OBVIOUS
    <3> QED BY <2>2, <3>1 DEF Pending
  <2> QED BY <1>3, <2>1, <2>2 DEF Pending
<1>4. ASSUME NEW p \in Proc
      PROVE  /\ tables[p] \in Pending
             /\ \A s \in Pending : UNCHANGED tables \/ tables' = [tables EXCEPT ![p] = s] =>
                  tables' \in [Proc -> Pending] /\ \A q \in Proc \ {p} : tables'[q] = tables[q]
             /\ \A x : doing' = [doing EXCEPT ![p] = x] \/ (UNCHANGED doing /\ doing[p] = x) =>
                  DOMAIN doing' = Proc /\ doing'[p] = x /\ \A q \in Proc \ {p} : doing'[q] = doing[q]
  BY <1>0
<1>5. <<MarkTable, HotTable>> \in Pending /\ <<>> \in Pending
  BY DEF Pending
<1>6. ASSUME NEW p \in Proc, Db!Open(p) PROVE DbInv'
  <2>1. /\ doing' = [doing EXCEPT ![p] = "looking"] /\ tables' = [tables EXCEPT ![p] = <<MarkTable, HotTable>>]
        /\ UNCHANGED <<table, adding, lines, rows, added, before, beside, wiped>>
    BY <1>6, TwoTables DEF Db!Open, Db!Goto, Db!history
  <2> QED BY <1>2, <1>4, <1>5, <2>1
<1>7. ASSUME NEW p \in Proc, Db!Look(p) PROVE DbInv'
  <2>1. PICK t \in {HotTable, MarkTable} :
           /\ doing[p] = "looking" /\ tables[p] # <<>>
           /\ IF table[t].schema = "old" THEN Db!Goto(p, "counting") /\ UNCHANGED tables
              ELSE Db!Onward(p) /\ UNCHANGED doing
    BY <1>7, TwoTables DEF Db!Look, Db!At
  <2>2. UNCHANGED <<table, adding, lines, rows, added, before, beside, wiped>>
    BY <1>7 DEF Db!Look, Db!history
  <2>3. CASE doing' = [doing EXCEPT ![p] = "counting"] /\ UNCHANGED tables
    BY <1>2, <1>4, <1>5, <2>2, <2>3
  <2>4. CASE tables' = [tables EXCEPT ![p] = Tail(@)] /\ UNCHANGED doing
    <3>1. tables' = [tables EXCEPT ![p] = Tail(tables[p])] /\ Tail(tables[p]) \in Pending
      BY <1>0, <1>3, <1>4, <2>1, <2>4
    <3> QED BY <1>2, <1>4, <2>1, <2>2, <2>4, <3>1
  <2> QED BY <2>1, <2>3, <2>4 DEF Db!Goto, Db!Onward
<1>8. ASSUME NEW p \in Proc, Db!Count(p) PROVE DbInv'
  <2>1. UNCHANGED <<table, adding, lines, rows, added, before, beside, wiped>>
    BY <1>8 DEF Db!Count, Db!history
  <2>2. PICK t \in {HotTable, MarkTable} :
           /\ doing[p] = "counting" /\ tables[p] # <<>> /\ t = Head(tables[p])
           /\ IF table[t].rows = <<>> THEN Db!Goto(p, "dropping") /\ UNCHANGED tables
              ELSE Db!Goto(p, "looking") /\ Db!Onward(p)
    BY <1>8, TwoTables DEF Db!Count, Db!At
  <2>3. CASE doing' = [doing EXCEPT ![p] = "looking"] /\ tables' = [tables EXCEPT ![p] = Tail(@)]
    <3>1. tables' = [tables EXCEPT ![p] = Tail(tables[p])] /\ Tail(tables[p]) \in Pending
      BY <1>0, <1>3, <1>4, <2>2, <2>3
    <3> QED BY <1>2, <1>4, <2>1, <2>3, <3>1
  <2>4. CASE table[t].rows = <<>> /\ doing' = [doing EXCEPT ![p] = "dropping"] /\ UNCHANGED tables
    <3>1. Db!Rows(t) = {}
      BY <2>4, TwoTables
    <3>2. \A q : Db!Rows(q)' = Db!Rows(q)
      BY <2>1 DEF Db!Rows
    <3>3. DOMAIN doing' = Proc /\ doing'[p] = "dropping" /\ \A q \in Proc \ {p} : doing'[q] = doing[q]
      BY <1>0, <2>4
    <3>4. \A q \in Proc, u \in {HotTable, MarkTable} : Dropping(q, u)' => Dropping(q, u) \/ u = t
      BY <2>2, <2>4, <3>3 DEF Dropping, Db!At
    <3>5. DroppersKnown'
      BY <2>1, <3>1, <3>2, <3>4 DEF DbInv, DroppersKnown
    <3>6. DbTypes'
      BY <2>1, <2>4, <3>3 DEF DbInv, DbTypes
    <3>7. AddedOnce'
      BY <2>1, <3>3 DEF DbInv, AddedOnce, Busy
    <3>8. RowsKnown'
      <4>1. RowsKnown /\ Db!Rows(HotTable)' = Db!Rows(HotTable)
        BY <3>2 DEF DbInv
      <4> QED BY <2>1, <4>1 DEF RowsKnown
    <3>9. Db!CopiesFollowRows'
      BY <2>1, <3>2 DEF DbInv, Db!CopiesFollowRows
    <3>10. MarksOrdered'
      BY <2>1, <3>2 DEF DbInv, MarksOrdered, Db!Newest
    <3> QED BY <3>5, <3>6, <3>7, <3>8, <3>9, <3>10 DEF DbInv
  <2> QED BY <2>2, <2>3, <2>4 DEF Db!Goto, Db!Onward
<1>9. ASSUME NEW p \in Proc, Db!AllSeen(p) PROVE DbInv'
  <2>1. /\ doing' = [doing EXCEPT ![p] = "making"] /\ tables' = [tables EXCEPT ![p] = <<MarkTable, HotTable>>]
        /\ UNCHANGED <<table, adding, lines, rows, added, before, beside, wiped>>
    BY <1>9, TwoTables DEF Db!AllSeen, Db!Goto, Db!history
  <2> QED BY <1>2, <1>4, <1>5, <2>1
<1>10. ASSUME NEW p \in Proc, Db!Load(p) PROVE DbInv'
  <2>1. /\ doing' = [doing EXCEPT ![p] = "ready"] /\ UNCHANGED tables
        /\ UNCHANGED <<table, adding, lines, rows, added, before, beside, wiped>>
    BY <1>10 DEF Db!Load, Db!Goto, Db!history
  <2> QED BY <1>2, <1>4, <1>5, <2>1
<1>11. ASSUME NEW p \in Proc, Db!OpenFails(p) \/ Db!Dies(p) \/ Db!AddFails(p) PROVE DbInv'
  <2>1. PICK x \in {"failed", "dead", "ready"} : doing' = [doing EXCEPT ![p] = x]
    BY <1>11 DEF Db!OpenFails, Db!Dies, Db!AddFails, Db!Goto
  <2>2. /\ UNCHANGED <<table, lines, rows, added, before, beside, wiped>>
        /\ UNCHANGED adding \/ adding' = [adding EXCEPT ![p] = Nothing]
        /\ UNCHANGED tables \/ tables' = [tables EXCEPT ![p] = <<>>]
    BY <1>11 DEF Db!OpenFails, Db!Dies, Db!AddFails, Db!history
  <2> QED BY <1>2, <1>4, <1>5, <2>1, <2>2
<1>12. ASSUME NEW p \in Proc, Db!Drop(p) PROVE DbInv'
  <2>1. PICK t \in {HotTable, MarkTable} :
           /\ tables[p] # <<>> /\ t = Head(tables[p])
           /\ table' = [table EXCEPT ![t] = [schema |-> "none", rows |-> <<>>]]
           /\ wiped' = [m \in DOMAIN wiped \cup (IF t = HotTable THEN Db!Rows(t) ELSE {}) |->
                          IF m \in DOMAIN wiped THEN wiped[m] ELSE p]
    BY <1>12, TwoTables DEF Db!Drop, Db!At, HotTable
  <2>2. /\ doing[p] = "dropping" /\ doing' = [doing EXCEPT ![p] = "looking"]
        /\ tables' = [tables EXCEPT ![p] = Tail(tables[p])]
        /\ UNCHANGED <<adding, lines, rows, added, before, beside>>
    BY <1>12 DEF Db!Drop, Db!Goto, Db!Onward
  <2>3. /\ DOMAIN doing' = Proc /\ doing'[p] = "looking" /\ tables' \in [Proc -> Pending]
        /\ \A q \in Proc \ {p} : doing'[q] = doing[q] /\ tables'[q] = tables[q]
    BY <1>3, <1>4, <2>1, <2>2
  <2>4. Dropping(p, t)
    BY <2>1, <2>2 DEF Dropping, Db!At
  <2>5. table' \in [{HotTable, MarkTable} -> [schema : {"none", "old", "new"}, rows : Seq(Said \cup {Old})]]
    <3>1. [schema |-> "none", rows |-> <<>>] \in [schema : {"none", "old", "new"}, rows : Seq(Said \cup {Old})]
      OBVIOUS
    <3> QED BY <1>0, <2>1, <3>1
  <2>6. table'[t].rows = <<>> /\ \A u \in {HotTable, MarkTable} \ {t} : table'[u] = table[u]
    BY <1>0, <2>1
  <2>7. Db!Rows(t)' = {} /\ \A u \in {HotTable, MarkTable} \ {t} : Db!Rows(u)' = Db!Rows(u)
    <3>1. Db!Rows(t)' = {table'[t].rows[i] : i \in DOMAIN table'[t].rows}
      BY DEF Db!Rows, Db!Range
    <3>2. Db!Rows(t)' = {}
      BY <2>6, <3>1, NoRows
    <3>3. \A u \in {HotTable, MarkTable} \ {t} : Db!Rows(u)' = Db!Rows(u)
      BY <2>6 DEF Db!Rows
    <3> QED BY <3>2, <3>3
  <2>8. DbTypes'
    BY <1>0, <2>2, <2>3, <2>5 DEF DbTypes
  <2>9. AddedOnce'
    BY <2>2, <2>3 DEF DbInv, AddedOnce, Busy
  <2>10. \A q \in Proc, u \in {HotTable, MarkTable} : Dropping(q, u)' => Dropping(q, u)
    BY <2>3 DEF Dropping, Db!At
  <2>11. DroppersKnown'
    BY <2>2, <2>6, <2>7, <2>10 DEF DbInv, DroppersKnown
  <2>12. RowsKnown'
    <3>1. RowsKnown /\ DroppersKnown
      BY DEF DbInv
    <3>2. CASE t = HotTable
      <4>1. Old \notin Db!Rows(HotTable)
        BY <2>4, <3>1, <3>2 DEF DroppersKnown
      <4>2. \A m \in Db!Rows(HotTable) : m \in rows /\ m \in Said
        BY <1>0, <3>1, <4>1 DEF RowsKnown
      <4>3. \A m \in Db!Rows(HotTable) : p \in beside[m]
        BY <2>4, <3>1, <3>2, <4>2 DEF DroppersKnown
      <4>4. /\ DOMAIN wiped' = DOMAIN wiped \cup Db!Rows(HotTable)
            /\ \A m \in DOMAIN wiped' : wiped'[m] = IF m \in DOMAIN wiped THEN wiped[m] ELSE p
        BY <2>1, <3>2
      <4>5. Old \notin DOMAIN wiped' /\ \A m \in DOMAIN wiped' : m \in rows /\ wiped'[m] \in beside[m]
        BY <3>1, <4>1, <4>2, <4>3, <4>4 DEF RowsKnown
      <4>6. \A m \in rows : m \in DOMAIN wiped'
        BY <3>1, <4>4 DEF RowsKnown
      <4> QED BY <2>2, <2>7, <3>2, <4>5, <4>6 DEF RowsKnown
    <3>3. CASE t = MarkTable
      <4>1. DOMAIN wiped' = DOMAIN wiped /\ \A m \in DOMAIN wiped : wiped'[m] = wiped[m]
        BY <2>1, <3>3, TwoTables
      <4>2. Db!Rows(HotTable)' = Db!Rows(HotTable)
        BY <2>7, <3>3, TwoTables
      <4> QED BY <2>2, <3>1, <4>1, <4>2 DEF RowsKnown
    <3> QED BY <3>2, <3>3
  <2>13. Db!CopiesFollowRows'
    <3>1. Db!Rows(MarkTable)' \subseteq Db!Rows(MarkTable)
      BY <2>7
    <3> QED BY <2>2, <3>1 DEF DbInv, Db!CopiesFollowRows, MarkTable
  <2>14. MarksOrdered'
    <3>1. CASE t = MarkTable
      <4>1. Db!Newest(MarkTable)' = Nothing
        BY <2>6, <3>1 DEF Db!Newest
      <4> QED BY <4>1 DEF MarksOrdered, DbConstants
    <3>2. CASE t = HotTable
      <4>1. table'[MarkTable] = table[MarkTable] /\ Db!Rows(MarkTable)' = Db!Rows(MarkTable)
        BY <2>6, <2>7, <3>2, TwoTables
      <4> QED BY <2>2, <4>1 DEF DbInv, MarksOrdered, Db!Newest
    <3> QED BY <3>1, <3>2
  <2> QED BY <2>8, <2>9, <2>11, <2>12, <2>13, <2>14 DEF DbInv
<1>13. ASSUME NEW p \in Proc, Db!Make(p) PROVE DbInv'
  <2>1. PICK t \in {HotTable, MarkTable} :
           /\ tables[p] # <<>> /\ tables' = [tables EXCEPT ![p] = Tail(tables[p])]
           /\ table' = IF table[t].schema # "none" THEN table
                       ELSE [table EXCEPT ![t] = [schema |-> "new", rows |-> <<>>]]
    BY <1>13, TwoTables DEF Db!Make, Db!At, Db!Onward
  <2>2. doing[p] = "making" /\ UNCHANGED <<doing, adding, lines, rows, added, before, beside, wiped>>
    BY <1>13 DEF Db!Make, Db!history
  <2>3. /\ tables' \in [Proc -> Pending] /\ \A q \in Proc \ {p} : tables'[q] = tables[q]
    BY <1>3, <1>4, <2>1
  <2>4. table' \in [{HotTable, MarkTable} -> [schema : {"none", "old", "new"}, rows : Seq(Said \cup {Old})]]
    <3>1. [schema |-> "new", rows |-> <<>>] \in [schema : {"none", "old", "new"}, rows : Seq(Said \cup {Old})]
      OBVIOUS
    <3> QED BY <1>0, <2>1, <3>1
  <2>5. \A u \in {HotTable, MarkTable} : /\ table'[u].rows = table[u].rows
                                         /\ table'[u].schema = "none" => table[u].schema = "none"
    <3>1. \A u \in {HotTable, MarkTable} : table[u].schema = "none" => table[u].rows = <<>>
      BY DEF DbInv, DroppersKnown
    <3> QED BY <1>0, <2>1, <3>1
  <2>6. \A u \in {HotTable, MarkTable} : Db!Rows(u)' = Db!Rows(u) /\ Db!Newest(u)' = Db!Newest(u)
    BY <2>5 DEF Db!Rows, Db!Newest
  <2>7. DbTypes'
    BY <1>0, <2>2, <2>3, <2>4 DEF DbTypes
  <2>8. AddedOnce'
    BY <2>2 DEF DbInv, AddedOnce, Busy
  <2>9. \A q \in Proc, u \in {HotTable, MarkTable} : Dropping(q, u)' => Dropping(q, u)
    BY <2>2, <2>3 DEF Dropping, Db!At
  <2>10. DroppersKnown'
    BY <2>2, <2>5, <2>6, <2>9 DEF DbInv, DroppersKnown
  <2>11. RowsKnown'
    <3>1. RowsKnown /\ Db!Rows(HotTable)' = Db!Rows(HotTable)
      BY <2>6 DEF DbInv
    <3> QED BY <2>2, <3>1 DEF RowsKnown
  <2>12. Db!CopiesFollowRows'
    BY <2>2, <2>6 DEF DbInv, Db!CopiesFollowRows, MarkTable
  <2>13. MarksOrdered'
    BY <2>2, <2>6 DEF DbInv, MarksOrdered
  <2> QED BY <2>7, <2>8, <2>10, <2>11, <2>12, <2>13 DEF DbInv
<1>14. ASSUME NEW p \in Proc, NEW m \in Said, Db!Begin(p, m) PROVE DbInv'
  <2>1. /\ doing[p] = "ready" /\ m \notin rows /\ doing' = [doing EXCEPT ![p] = "adding"]
        /\ adding' = [adding EXCEPT ![p] = m] /\ before' = [before EXCEPT ![m] = added \cap FromUser]
        /\ UNCHANGED <<table, tables, lines, rows, added, beside, wiped>>
    BY <1>14 DEF Db!Begin, Db!Goto
  <2>2. \A q \in Proc : adding[q] # m
    BY <1>0, <1>14 DEF Db!Begin, Db!Range
  <2>3. DOMAIN doing' = Proc /\ doing'[p] = "adding" /\ \A q \in Proc \ {p} : doing'[q] = doing[q]
    BY <1>4, <2>1
  <2>4. adding' \in [Proc -> Said \cup {Nothing}] /\ adding'[p] = m /\ \A q \in Proc \ {p} : adding'[q] = adding[q]
    BY <1>0, <2>1
  <2>5. before' \in [Said -> SUBSET Said] /\ before'[m] \subseteq added /\ \A x \in Said \ {m} : before'[x] = before[x]
    BY <1>0, <2>1
  <2>6. DbTypes'
    BY <1>0, <2>1, <2>3, <2>4, <2>5 DEF DbTypes
  <2>7. AddedOnce'
    <3>1. m \notin added /\ AddedOnce
      BY <2>1 DEF DbInv, AddedOnce
    <3>2. \A x \in Said : before'[x] \subseteq added
      BY <2>5, <3>1 DEF AddedOnce
    <3>3. \A q \in Proc \ {p} : Busy(q)' <=> Busy(q)
      BY <2>3 DEF Busy
    <3>4. \A q \in Proc : Busy(q)' => adding'[q] \in Said \ added
      BY <2>4, <3>1, <3>3 DEF AddedOnce
    <3>5. \A q \in Proc : /\ doing'[q] = "adding" => adding'[q] \notin rows
                          /\ doing'[q] \in {"stored", "marking"} => adding'[q] \in rows
      BY <2>1, <2>3, <2>4, <3>1 DEF AddedOnce
    <3>6. \A q, r \in Proc : adding'[q] = adding'[r] => q = r \/ adding'[q] = Nothing
      BY <2>2, <2>4, <3>1 DEF AddedOnce
    <3> QED BY <2>1, <3>1, <3>2, <3>4, <3>5, <3>6 DEF AddedOnce
  <2>8. \A q \in Proc, u \in {HotTable, MarkTable} : Dropping(q, u)' => Dropping(q, u)
    BY <2>1, <2>3 DEF Dropping, Db!At
  <2>9. \A u : Db!Rows(u)' = Db!Rows(u) /\ Db!Newest(u)' = Db!Newest(u)
    BY <2>1 DEF Db!Rows, Db!Newest
  <2>10. DroppersKnown'
    BY <2>1, <2>8, <2>9 DEF DbInv, DroppersKnown
  <2>11. RowsKnown'
    <3>1. RowsKnown /\ Db!Rows(HotTable)' = Db!Rows(HotTable)
      BY <2>9 DEF DbInv
    <3> QED BY <2>1, <3>1 DEF RowsKnown
  <2>12. Db!CopiesFollowRows'
    BY <2>1, <2>9 DEF DbInv, Db!CopiesFollowRows
  <2>13. MarksOrdered'
    <3>1. \A x \in Said \cap Db!Rows(MarkTable) : x # m
      BY <2>1 DEF DbInv, Db!CopiesFollowRows, MarkTable, DbConstants
    <3> QED BY <2>5, <2>9, <3>1 DEF DbInv, MarksOrdered
  <2> QED BY <2>6, <2>7, <2>10, <2>11, <2>12, <2>13 DEF DbInv
\* A row goes to a table.
<1>15. ASSUME NEW t \in {HotTable, MarkTable}, NEW m \in Said, Db!Insert(t, m)
       PROVE  /\ table' \in [{HotTable, MarkTable} -> [schema : {"none", "old", "new"}, rows : Seq(Said \cup {Old})]]
              /\ table'[t].schema = table[t].schema /\ Db!Rows(t)' = Db!Rows(t) \cup {m} /\ Db!Newest(t)' = m
              /\ \A u \in {HotTable, MarkTable} \ {t} : table'[u] = table[u] /\ Db!Rows(u)' = Db!Rows(u)
  <2>1. PICK s \in Seq(Said \cup {Old}) : s = table[t].rows
    BY <1>0
  <2>2. PICK r \in [schema : {"none", "old", "new"}, rows : Seq(Said \cup {Old})] :
             table' = [table EXCEPT ![t] = r] /\ r.rows = Append(s, m) /\ r.schema = table[t].schema
    <3>1. table' = [table EXCEPT ![t] = [table[t] EXCEPT !.rows = Append(s, m)]]
      BY <1>15, <2>1 DEF Db!Insert
    <3>2. table[t] \in [schema : {"none", "old", "new"}, rows : Seq(Said \cup {Old})] /\ Append(s, m) \in Seq(Said \cup {Old})
      BY <1>0, <2>1
    <3>3. PICK n \in Seq(Said \cup {Old}) : n = Append(s, m)
      BY <3>2
    <3>4. /\ [table[t] EXCEPT !.rows = n] \in [schema : {"none", "old", "new"}, rows : Seq(Said \cup {Old})]
          /\ [table[t] EXCEPT !.rows = n].rows = n /\ [table[t] EXCEPT !.rows = n].schema = table[t].schema
      BY <3>2
    <3> QED BY <3>1, <3>3, <3>4
  <2>3. table' \in [{HotTable, MarkTable} -> [schema : {"none", "old", "new"}, rows : Seq(Said \cup {Old})]]
    BY <1>0, <2>2
  <2>4. table'[t] = r /\ \A u \in {HotTable, MarkTable} \ {t} : table'[u] = table[u]
    BY <1>0, <2>2
  <2>5. \A u : Db!Rows(u)' = {table'[u].rows[i] : i \in DOMAIN table'[u].rows}
    BY DEF Db!Rows, Db!Range
  <2>6. Db!Rows(t)' = Db!Rows(t) \cup {m}
    <3>1. Db!Rows(t) = {s[i] : i \in DOMAIN s}
      BY <2>1, TwoTables
    <3>2. Db!Rows(t)' = {Append(s, m)[i] : i \in DOMAIN Append(s, m)}
      BY <2>2, <2>4, <2>5
    <3> DEFINE S == Said \cup {Old}
    <3>3. m \in S /\ s \in Seq(S)
      OBVIOUS
    <3> HIDE DEF S
    <3>4. {Append(s, m)[i] : i \in DOMAIN Append(s, m)} = {s[i] : i \in DOMAIN s} \cup {m}
      BY <3>3, OneRow
    <3> QED BY <3>1, <3>2, <3>4
  <2>7. Db!Newest(t)' = m
    <3> DEFINE S == Said \cup {Old}
    <3>0. m \in S /\ s \in Seq(S)
      OBVIOUS
    <3> HIDE DEF S
    <3>1. Append(s, m) # <<>> /\ Append(s, m)[Len(Append(s, m))] = m
      BY <3>0, OneRow
    <3>2. table'[t].rows = Append(s, m)
      BY <2>2, <2>4
    <3> QED BY <3>1, <3>2 DEF Db!Newest
  <2>8. \A u \in {HotTable, MarkTable} \ {t} : Db!Rows(u)' = Db!Rows(u)
    BY <2>4 DEF Db!Rows
  <2> QED BY <2>2, <2>3, <2>4, <2>6, <2>7, <2>8
<1>16. ASSUME NEW p \in Proc, Db!InsertHot(p) PROVE DbInv'
  <2>1. PICK m \in Said : m = adding[p] /\ m \notin rows /\ m \notin added
    <3>1. doing[p] = "adding"
      BY <1>16 DEF Db!InsertHot
    <3> QED BY <3>1 DEF DbInv, AddedOnce, Busy
  <2>2. /\ doing[p] = "adding" /\ Db!Insert(HotTable, m) /\ doing' = [doing EXCEPT ![p] = "stored"]
        /\ rows' = rows \cup {m} /\ beside' = [beside EXCEPT ![m] = Db!Opening]
        /\ UNCHANGED <<tables, adding, lines, before, added, wiped>>
    BY <1>16, <2>1 DEF Db!InsertHot, Db!Goto, HotTable
  <2>3. DOMAIN doing' = Proc /\ doing'[p] = "stored" /\ \A q \in Proc \ {p} : doing'[q] = doing[q]
    BY <1>4, <2>2
  <2>4. /\ table' \in [{HotTable, MarkTable} -> [schema : {"none", "old", "new"}, rows : Seq(Said \cup {Old})]]
        /\ table'[HotTable].schema = table[HotTable].schema /\ Db!Rows(HotTable)' = Db!Rows(HotTable) \cup {m}
        /\ table'[MarkTable] = table[MarkTable] /\ Db!Rows(MarkTable)' = Db!Rows(MarkTable)
    BY <1>15, <2>2, TwoTables
  <2>5. Db!Opening \subseteq Proc /\ \A q \in Proc : doing[q] = "dropping" => q \in Db!Opening
    BY DEF Db!Opening
  <2>6. beside' \in [Said -> SUBSET Proc] /\ beside'[m] = Db!Opening /\ \A x \in Said \ {m} : beside'[x] = beside[x]
    BY <1>0, <2>2, <2>5
  <2>7. DbTypes'
    BY <1>0, <2>2, <2>3, <2>4, <2>6 DEF DbTypes
  <2>8. AddedOnce'
    <3>1. AddedOnce
      BY DEF DbInv
    <3>2. \A q \in Proc : Busy(q)' <=> Busy(q)
      BY <2>2, <2>3 DEF Busy
    <3>3. \A q \in Proc \ {p} : adding[q] # m
      BY <2>1, <3>1 DEF AddedOnce, DbConstants
    <3> QED BY <2>1, <2>2, <2>3, <3>1, <3>2, <3>3 DEF AddedOnce
  <2>9. \A q \in Proc, u \in {HotTable, MarkTable} : Dropping(q, u)' => Dropping(q, u) /\ q \in Db!Opening
    BY <2>2, <2>3, <2>5 DEF Dropping, Db!At
  <2>10. DroppersKnown'
    <3>1. DroppersKnown /\ m # Old /\ table[HotTable].schema = "new"
      BY <1>16 DEF DbInv, DbConstants, Db!InsertHot, HotTable
    <3>2. \A u \in {HotTable, MarkTable} : table'[u].schema = "none" => table'[u].rows = <<>>
      BY <2>4, <3>1 DEF DroppersKnown
    <3>3. \A q \in Proc, u \in {HotTable, MarkTable} : Dropping(q, u)' => Old \notin Db!Rows(u)'
      BY <2>4, <2>9, <3>1 DEF DroppersKnown
    <3>4. \A q \in Proc, x \in Said : x \in Db!Rows(HotTable)' /\ Dropping(q, HotTable)' => q \in beside'[x]
      BY <2>4, <2>6, <2>9, <3>1 DEF DroppersKnown
    <3> QED BY <3>2, <3>3, <3>4 DEF DroppersKnown
  <2>11. RowsKnown'
    <3>1. RowsKnown
      BY DEF DbInv
    <3>2. \A x \in DOMAIN wiped : x \in Said \ {m}
      BY <1>0, <2>1, <3>1 DEF RowsKnown
    <3> QED BY <2>2, <2>4, <2>6, <3>1, <3>2 DEF RowsKnown
  <2>12. Db!CopiesFollowRows'
    BY <2>2, <2>4 DEF DbInv, Db!CopiesFollowRows, MarkTable
  <2>13. MarksOrdered'
    BY <2>2, <2>4 DEF DbInv, MarksOrdered, Db!Newest
  <2> QED BY <2>7, <2>8, <2>10, <2>11, <2>12, <2>13 DEF DbInv
\* add_to_hot returns.
<1>17. ASSUME NEW p \in Proc, NEW m \in Said, m = adding[p], Busy(p), doing' = [doing EXCEPT ![p] = "ready"],
              adding' = [adding EXCEPT ![p] = Nothing], added' = added \cup {m}, m \in rows,
              UNCHANGED <<rows, before>>
       PROVE  /\ AddedOnce' /\ DOMAIN doing' = Proc /\ adding' \in [Proc -> Said \cup {Nothing}] /\ added' \subseteq Said
              /\ doing'[p] = "ready" /\ \A q \in Proc \ {p} : doing'[q] = doing[q]
  <2>1. AddedOnce
    BY DEF DbInv
  <2>2. DOMAIN doing' = Proc /\ doing'[p] = "ready" /\ \A q \in Proc \ {p} : doing'[q] = doing[q]
    BY <1>4, <1>17
  <2>3. adding' \in [Proc -> Said \cup {Nothing}] /\ adding'[p] = Nothing /\ \A q \in Proc \ {p} : adding'[q] = adding[q]
    BY <1>0, <1>17
  <2>4. \A q \in Proc \ {p} : adding[q] # m
    BY <1>17, <2>1 DEF AddedOnce, DbConstants
  <2>5. \A q \in Proc : Busy(q)' => q # p /\ Busy(q)
    BY <2>2 DEF Busy
  <2>6. \A q \in Proc : Busy(q)' => adding'[q] \in Said \ added'
    BY <1>17, <2>1, <2>3, <2>4, <2>5 DEF AddedOnce
  <2>7. \A q \in Proc : /\ doing'[q] = "adding" => adding'[q] \notin rows
                        /\ doing'[q] \in {"stored", "marking"} => adding'[q] \in rows
    BY <2>1, <2>2, <2>3 DEF AddedOnce
  <2>8. \A q, r \in Proc : adding'[q] = adding'[r] => q = r \/ adding'[q] = Nothing
    BY <2>1, <2>3 DEF AddedOnce
  <2>9. AddedOnce'
    BY <1>17, <2>1, <2>6, <2>7, <2>8 DEF AddedOnce
  <2> QED BY <1>0, <1>17, <2>2, <2>3, <2>9
<1>18. ASSUME NEW p \in Proc, Db!Mirror(p) PROVE DbInv'
  <2>1. PICK m \in Said : m = adding[p] /\ m \in rows /\ Busy(p)
    <3>1. doing[p] = "stored"
      BY <1>18 DEF Db!Mirror
    <3> QED BY <3>1 DEF DbInv, AddedOnce, Busy
  <2>2. /\ doing[p] = "stored" /\ lines' \subseteq lines \cup {m}
        /\ UNCHANGED <<table, tables, before, beside, rows, wiped>>
        /\ \/ doing' = [doing EXCEPT ![p] = "marking"] /\ UNCHANGED <<adding, added>>
           \/ /\ doing' = [doing EXCEPT ![p] = "ready"] /\ added' = added \cup {m}
              /\ adding' = [adding EXCEPT ![p] = Nothing]
    BY <1>18, <2>1 DEF Db!Mirror, Db!Goto
  <2>3. PICK x \in {"marking", "ready"} : doing' = [doing EXCEPT ![p] = x]
    BY <2>2
  <2>4. DOMAIN doing' = Proc /\ doing'[p] = x /\ \A q \in Proc \ {p} : doing'[q] = doing[q]
    BY <1>4, <2>3
  <2>5. \A q \in Proc, u \in {HotTable, MarkTable} : Dropping(q, u)' => Dropping(q, u)
    BY <2>2, <2>4 DEF Dropping, Db!At
  <2>6. lines' \subseteq rows
    BY <1>0, <2>1, <2>2
  <2>7. DroppersKnown' /\ RowsKnown' /\ Db!CopiesFollowRows' /\ MarksOrdered'
    BY <2>2, <2>5, <2>6, TablesStay
  <2>8. CASE doing' = [doing EXCEPT ![p] = "marking"] /\ UNCHANGED <<adding, added>>
    <3>1. doing'[p] = "marking"
      BY <1>4, <2>8
    <3>2. AddedOnce'
      BY <2>1, <2>2, <2>4, <2>8, <3>1 DEF DbInv, AddedOnce, Busy
    <3>3. DbTypes'
      BY <1>0, <2>2, <2>4, <2>6, <2>8 DEF DbTypes
    <3> QED BY <2>7, <3>2, <3>3 DEF DbInv
  <2>9. CASE /\ doing' = [doing EXCEPT ![p] = "ready"] /\ added' = added \cup {m}
             /\ adding' = [adding EXCEPT ![p] = Nothing]
    <3>1. AddedOnce' /\ adding' \in [Proc -> Said \cup {Nothing}] /\ added' \subseteq Said
      BY <1>17, <2>1, <2>2, <2>9
    <3>2. DbTypes'
      BY <1>0, <2>2, <2>4, <2>6, <3>1 DEF DbTypes
    <3> QED BY <2>7, <3>1, <3>2 DEF DbInv
  <2> QED BY <2>2, <2>8, <2>9
<1>19. ASSUME NEW p \in Proc, Db!InsertCheckpoint(p) PROVE DbInv'
  <2>1. PICK m \in Said : m = adding[p] /\ m \in rows /\ m \notin added /\ Busy(p)
    <3>1. doing[p] = "marking"
      BY <1>19 DEF Db!InsertCheckpoint
    <3> QED BY <3>1 DEF DbInv, AddedOnce, Busy
  <2>2. /\ table[MarkTable].schema = "new" /\ Db!Insert(MarkTable, m) /\ doing' = [doing EXCEPT ![p] = "ready"]
        /\ added' = added \cup {m} /\ adding' = [adding EXCEPT ![p] = Nothing]
        /\ UNCHANGED <<tables, lines, before, beside, rows, wiped>>
    BY <1>19, <2>1 DEF Db!InsertCheckpoint, Db!Goto, MarkTable
  <2>3. /\ AddedOnce' /\ DOMAIN doing' = Proc /\ adding' \in [Proc -> Said \cup {Nothing}] /\ added' \subseteq Said
        /\ doing'[p] = "ready" /\ \A q \in Proc \ {p} : doing'[q] = doing[q]
    BY <1>17, <2>1, <2>2
  <2>4. /\ table' \in [{HotTable, MarkTable} -> [schema : {"none", "old", "new"}, rows : Seq(Said \cup {Old})]]
        /\ table'[MarkTable].schema = "new" /\ Db!Rows(MarkTable)' = Db!Rows(MarkTable) \cup {m}
        /\ Db!Newest(MarkTable)' = m
        /\ table'[HotTable] = table[HotTable] /\ Db!Rows(HotTable)' = Db!Rows(HotTable)
    BY <1>15, <2>2, TwoTables
  <2>5. DbTypes'
    BY <1>0, <2>2, <2>3, <2>4 DEF DbTypes
  <2>6. \A q \in Proc, u \in {HotTable, MarkTable} : Dropping(q, u)' => Dropping(q, u)
    BY <2>2, <2>3 DEF Dropping, Db!At
  <2>7. DroppersKnown'
    <3>1. DroppersKnown /\ m # Old
      BY DEF DbInv, DbConstants
    <3>2. \A u \in {HotTable, MarkTable} : table'[u].schema = "none" => table'[u].rows = <<>>
      BY <2>4, <3>1 DEF DroppersKnown
    <3>3. \A q \in Proc, u \in {HotTable, MarkTable} : Dropping(q, u)' => Old \notin Db!Rows(u)'
      BY <2>4, <2>6, <3>1 DEF DroppersKnown
    <3>4. \A q \in Proc, x \in Said : x \in Db!Rows(HotTable)' /\ Dropping(q, HotTable)' => q \in beside'[x]
      BY <2>2, <2>4, <2>6, <3>1 DEF DroppersKnown
    <3> QED BY <3>2, <3>3, <3>4 DEF DroppersKnown
  <2>8. RowsKnown'
    <3>1. RowsKnown /\ Db!Rows(HotTable)' = Db!Rows(HotTable)
      BY <2>4 DEF DbInv
    <3> QED BY <2>2, <3>1 DEF RowsKnown
  <2>9. Db!CopiesFollowRows'
    BY <2>1, <2>2, <2>4 DEF DbInv, Db!CopiesFollowRows, MarkTable
  <2>10. MarksOrdered'
    <3>1. \A x \in Said : m \notin before[x]
      BY <2>1 DEF DbInv, AddedOnce
    <3> QED BY <2>2, <2>4, <3>1 DEF MarksOrdered
  <2> QED BY <2>3, <2>5, <2>7, <2>8, <2>9, <2>10 DEF DbInv
<1> QED BY <1>1, <1>6, <1>7, <1>8, <1>9, <1>10, <1>11, <1>12, <1>13, <1>14, <1>16, <1>18, <1>19 DEF Db!Next

\* While processes open the file, drop and make tables, add messages, fail and die at any
\* statement: no row of the older schema and no message is lost but to one who was
\* opening the file when its row was made, nothing is copied that has no row, and the
\* session resumes with the newest command (memory/db.py, _migrate_legacy_tables;
\* memory/manager.py, add_to_hot, get_session_resume).
THEOREM DatabaseAlwaysSound == Db!Spec => []Db!MemoryDbIsSound
<1>1. Db!Init => DbInv
  BY DbConstants, DbInitially
<1>2. DbInv /\ [Db!Next]_Db!vars => DbInv'
  BY DbConstants, DbStep
<1>3. DbInv => Db!MemoryDbIsSound
  <2> SUFFICES ASSUME DbInv PROVE Db!MemoryDbIsSound
    OBVIOUS
  <2>1. Db!RowsSurvive
    BY DEF DbInv, RowsKnown, Db!RowsSurvive, HotTable
  <2>2. ASSUME Db!Newest(MarkTable) \notin {Nothing, Old} PROVE Db!Newest(MarkTable) \in Said
    <3> DEFINE S == Said \cup {Old}
               s == table[MarkTable].rows
    <3>1. s \in Seq(S) /\ s # <<>> /\ Db!Newest(MarkTable) = s[Len(s)]
      BY <2>2 DEF DbInv, DbTypes, Db!Newest
    <3>2. s[Len(s)] \in S
      <4> HIDE DEF s, S
      <4> QED BY <3>1
    <3> QED BY <2>2, <3>1, <3>2
  <2>3. Db!ResumeIsNewest
    BY <2>2 DEF DbInv, DbTypes, MarksOrdered, Db!ResumeIsNewest, MarkTable
  <2> QED BY <2>1, <2>3 DEF DbInv, Db!MemoryDbIsSound
<1> QED BY <1>1, <1>2, <1>3, PTL DEF Db!Spec

-------------------------------------------------------------------------------
\* The scheduler's store of the lanes is the store of SchedulerStore_proofs.
Kept == INSTANCE SchedulerStore_proofs WITH last <- found, crashes <- died, TaskId <- {1, 2}, Key <- {},
  Maintains <- {}, NewTasks <- {<<TRUE, FALSE>>}, Reports <- {"completed"},
  MaxEvents <- 3, MaxMaintenance <- 0, MaxClock <- 0

LEMMA SameOperations ==
  ASSUME NEW p \in Proc, NEW id
  PROVE  /\ \A timed, test, key : Store!Create(p, timed, test, key) <=> Kept!Create(p, timed, test, key)
         /\ \A said : Store!Update(p, id, said) <=> Kept!Update(p, id, said)
         /\ Store!Pause(p, id) <=> Kept!Pause(p, id)
         /\ Store!Resume(p, id) <=> Kept!Resume(p, id)
         /\ Store!Cancel(p, id) <=> Kept!Cancel(p, id)
         /\ Store!Archive(p, id) <=> Kept!Archive(p, id)
         /\ Store!Execute(p, id) <=> Kept!Execute(p, id)
<1>1. ASSUME NEW timed, NEW test, NEW key
      PROVE  Store!Create(p, timed, test, key) <=> Kept!Create(p, timed, test, key)
  BY DEF Store!Create, Kept!Create, Store!CreateEvent, Kept!CreateEvent, Store!NextRun,
       Kept!NextRun, Store!Cardinality, Kept!Cardinality, Store!Logged, Kept!Logged,
       Store!WriteSteps, Kept!WriteSteps, Store!Pending, Kept!Pending, Store!UsedIds,
       Kept!UsedIds, Store!disk, Kept!disk, Store!bounds, Kept!bounds, Store!Ready,
       Kept!Ready
<1>2. ASSUME NEW said PROVE Store!Update(p, id, said) <=> Kept!Update(p, id, said)
  BY DEF Store!Update, Kept!Update, Store!Change, Kept!Change, Store!Logged, Kept!Logged,
       Store!Cardinality, Kept!Cardinality, Store!WriteSteps, Kept!WriteSteps,
       Store!Pending, Kept!Pending, Store!UsedIds, Kept!UsedIds, Store!Changed,
       Kept!Changed, Store!Merge, Kept!Merge, Store!disk, Kept!disk, Store!local,
       Kept!local, Store!bounds, Kept!bounds, Store!Ready, Kept!Ready
<1>3. Store!Pause(p, id) <=> Kept!Pause(p, id)
  BY DEF Store!Pause, Kept!Pause, Store!NoData, Kept!NoData, Store!Change, Kept!Change,
       Store!Logged, Kept!Logged, Store!Cardinality, Kept!Cardinality, Store!WriteSteps,
       Kept!WriteSteps, Store!Pending, Kept!Pending, Store!UsedIds, Kept!UsedIds,
       Store!Changed, Kept!Changed, Store!Merge, Kept!Merge, Store!disk, Kept!disk,
       Store!local, Kept!local, Store!bounds, Kept!bounds, Store!Ready, Kept!Ready
<1>4. Store!Cancel(p, id) <=> Kept!Cancel(p, id)
  BY DEF Store!Cancel, Kept!Cancel, Store!NoData, Kept!NoData, Store!Change, Kept!Change,
       Store!Logged, Kept!Logged, Store!Cardinality, Kept!Cardinality, Store!WriteSteps,
       Kept!WriteSteps, Store!Pending, Kept!Pending, Store!UsedIds, Kept!UsedIds,
       Store!Changed, Kept!Changed, Store!Merge, Kept!Merge, Store!disk, Kept!disk,
       Store!local, Kept!local, Store!bounds, Kept!bounds, Store!Ready, Kept!Ready
<1>5. Store!Archive(p, id) <=> Kept!Archive(p, id)
  BY DEF Store!Archive, Kept!Archive, Store!NoData, Kept!NoData, Store!Change,
       Kept!Change, Store!Logged, Kept!Logged, Store!Cardinality, Kept!Cardinality,
       Store!WriteSteps, Kept!WriteSteps, Store!Pending, Kept!Pending, Store!UsedIds,
       Kept!UsedIds, Store!Changed, Kept!Changed, Store!Merge, Kept!Merge, Store!disk,
       Kept!disk, Store!local, Kept!local, Store!bounds, Kept!bounds, Store!Ready,
       Kept!Ready
<1>6. Store!Resume(p, id) <=> Kept!Resume(p, id)
  BY DEF Store!Resume, Kept!Resume, Store!NextRun, Kept!NextRun, Store!Change,
       Kept!Change, Store!Logged, Kept!Logged, Store!Cardinality, Kept!Cardinality,
       Store!WriteSteps, Kept!WriteSteps, Store!Pending, Kept!Pending, Store!UsedIds,
       Kept!UsedIds, Store!Changed, Kept!Changed, Store!Merge, Kept!Merge, Store!disk,
       Kept!disk, Store!local, Kept!local, Store!bounds, Kept!bounds, Store!Ready,
       Kept!Ready
<1>7. Store!Execute(p, id) <=> Kept!Execute(p, id)
  BY DEF Store!Execute, Kept!Execute, Store!Ready, Kept!Ready, Store!local, Kept!local,
       Store!bounds, Kept!bounds
<1> QED BY <1>1, <1>2, <1>3, <1>4, <1>5, <1>6, <1>7

LEMMA SameStore == (Store!Init <=> Kept!Init) /\ (Store!Next <=> Kept!Next) /\ (Store!StoreIsOrdered <=> Kept!StoreIsOrdered)
<1>1. Store!Init <=> Kept!Init
  BY DEF Store!Init, Kept!Init, Store!NoEvent, Kept!NoEvent, Store!NoTasks, Kept!NoTasks,
       Store!NoData, Kept!NoData, Store!Blank, Kept!Blank
<1>2. Store!StoreIsOrdered <=> Kept!StoreIsOrdered
  BY DEF Store!StoreIsOrdered, Kept!StoreIsOrdered, Store!WriteAhead, Kept!WriteAhead,
       Store!GenerationCounts, Kept!GenerationCounts
<1>3. Store!Tick <=> Kept!Tick
  BY DEF Store!Tick, Kept!Tick, Store!disk, Kept!disk, Store!local, Kept!local,
       Store!bounds, Kept!bounds
<1>4. ASSUME NEW p \in Proc
      PROVE  /\ Store!Open(p) <=> Kept!Open(p)
             /\ Store!Close(p) <=> Kept!Close(p)
             /\ Store!Crash(p) <=> Kept!Crash(p)
             /\ Store!Operation(p) <=> Kept!Operation(p)
             /\ Store!Step(p) <=> Kept!Step(p)
  <2>1. Store!Open(p) <=> Kept!Open(p)
    BY DEF Store!Open, Kept!Open, Store!disk, Kept!disk, Store!bounds, Kept!bounds
  <2>2. Store!Close(p) <=> Kept!Close(p)
    BY DEF Store!Close, Kept!Close, Store!Ready, Kept!Ready, Store!Forget, Kept!Forget,
       Store!NoEvent, Kept!NoEvent, Store!NoTasks, Kept!NoTasks, Store!NoData, Kept!NoData,
       Store!Blank, Kept!Blank, Store!disk, Kept!disk, Store!bounds, Kept!bounds
  <2>3. Store!TakeLock(p) <=> Kept!TakeLock(p)
    BY DEF Store!TakeLock, Kept!TakeLock, Store!At, Kept!At, Store!StepDone, Kept!StepDone,
       Store!disk, Kept!disk, Store!bounds, Kept!bounds
  <2>4. Store!LockHeld(p) <=> Kept!LockHeld(p)
    BY DEF Store!LockHeld, Kept!LockHeld, Store!At, Kept!At, Store!Forget, Kept!Forget,
       Store!NoEvent, Kept!NoEvent, Store!NoTasks, Kept!NoTasks, Store!NoData, Kept!NoData,
       Store!Blank, Kept!Blank, Store!disk, Kept!disk, Store!bounds, Kept!bounds
  <2>5. Store!AppendEvent(p) <=> Kept!AppendEvent(p)
    BY DEF Store!AppendEvent, Kept!AppendEvent, Store!At, Kept!At, Store!StepDone,
       Kept!StepDone, Store!bounds, Kept!bounds
  <2>6. Store!Count(p) <=> Kept!Count(p)
    BY DEF Store!Count, Kept!Count, Store!At, Kept!At, Store!StepDone, Kept!StepDone,
       Store!disk, Kept!disk, Store!bounds, Kept!bounds
  <2>7. Store!Bump(p) <=> Kept!Bump(p)
    BY DEF Store!Bump, Kept!Bump, Store!At, Kept!At, Store!StepDone, Kept!StepDone,
       Store!Forget, Kept!Forget, Store!NoEvent, Kept!NoEvent, Store!NoTasks, Kept!NoTasks,
       Store!NoData, Kept!NoData, Store!Blank, Kept!Blank, Store!bounds, Kept!bounds
  <2>8. Store!Save(p) <=> Kept!Save(p)
    BY DEF Store!Save, Kept!Save, Store!At, Kept!At, Store!StepDone, Kept!StepDone,
       Store!NoEvent, Kept!NoEvent, Store!NoData, Kept!NoData, Store!Written, Kept!Written,
       Store!With, Kept!With, Store!Merge, Kept!Merge, Store!Blank, Kept!Blank,
       Store!bounds, Kept!bounds
  <2>9. Store!Settle(p) <=> Kept!Settle(p)
    BY DEF Store!Settle, Kept!Settle, Store!At, Kept!At, Store!StepDone, Kept!StepDone,
       Store!Settled, Kept!Settled, Store!NextRun, Kept!NextRun, Store!bounds, Kept!bounds
  <2>10. Store!Crash(p) <=> Kept!Crash(p)
    BY DEF Store!Crash, Kept!Crash, Store!Forget, Kept!Forget, Store!NoEvent, Kept!NoEvent,
       Store!NoTasks, Kept!NoTasks, Store!NoData, Kept!NoData, Store!Blank, Kept!Blank,
       Store!disk, Kept!disk
  <2>11. Store!ClearTestTasks(p) <=> Kept!ClearTestTasks(p)
    BY DEF Store!ClearTestTasks, Kept!ClearTestTasks, Store!Ready, Kept!Ready,
       Store!Maintenance, Kept!Maintenance, Store!disk, Kept!disk
  <2>12. Store!Reconcile(p) <=> Kept!Reconcile(p)
    BY DEF Store!Reconcile, Kept!Reconcile, Store!Ready, Kept!Ready, Store!Maintenance,
       Kept!Maintenance, Store!disk, Kept!disk, Store!RebuildAll, Kept!RebuildAll,
       Store!Rebuilt, Kept!Rebuilt, Store!NoTasks, Kept!NoTasks, Store!NoData, Kept!NoData,
       Store!Blank, Kept!Blank, Store!With, Kept!With, Store!Merge, Kept!Merge,
       Store!Changed, Kept!Changed, Store!Reconciled, Kept!Reconciled, Store!States,
       Kept!States, Store!NextRun, Kept!NextRun
  <2>13. Store!Recover(p) <=> Kept!Recover(p)
    BY DEF Store!Recover, Kept!Recover, Store!Maintenance, Kept!Maintenance, Store!disk,
       Kept!disk, Store!RebuildAll, Kept!RebuildAll, Store!Rebuilt, Kept!Rebuilt,
       Store!ReplayAll, Kept!ReplayAll, Store!Replayed, Kept!Replayed, Store!Repaired,
       Kept!Repaired, Store!NoTasks, Kept!NoTasks, Store!NoData, Kept!NoData, Store!Blank,
       Kept!Blank, Store!With, Kept!With, Store!Merge, Kept!Merge, Store!Changed,
       Kept!Changed, Store!States, Kept!States
  <2>14. Store!Operation(p) <=> Kept!Operation(p)
    BY <2>11, <2>12, <2>13, SameOperations DEF Store!Operation, Kept!Operation
  <2>15. Store!Step(p) <=> Kept!Step(p)
    BY <2>3, <2>4, <2>5, <2>6, <2>7, <2>8, <2>9 DEF Store!Step, Kept!Step
  <2> QED BY <2>1, <2>2, <2>10, <2>14, <2>15
<1>5. Store!Next <=> Kept!Next
  BY <1>3, <1>4 DEF Store!Next, Kept!Next
<1> QED BY <1>1, <1>2, <1>5

LEMMA StoreKept == ASSUME NoProc \notin Proc PROVE Kept!Spec => []Kept!StoreIsOrdered
<1>1. /\ NoProc \notin Proc /\ {} \subseteq Proc
      /\ {<<TRUE, FALSE>>} \subseteq BOOLEAN \X BOOLEAN /\ {"completed"} \subseteq Kept!Reported
      /\ NoKey \notin {}
      /\ 3 \in Nat /\ 0 \in Nat
      /\ MaxCrashes \in Nat /\ 0 \in Nat
  <2>1. {<<TRUE, FALSE>>} \subseteq BOOLEAN \X BOOLEAN
    <3>1. <<TRUE, FALSE>> \in BOOLEAN \X BOOLEAN
      OBVIOUS
    <3> QED BY <3>1, Zenon
  <2>2. {"completed"} \subseteq Kept!Reported
    BY DEF Kept!Reported
  <2> QED BY <2>1, <2>2, MemoryConstants DEF MemoryConstants
<1> QED BY <1>1, Kept!StoreKeepsOrder, Zenon

-------------------------------------------------------------------------------
(* The lanes together. *)

LanesVars == <<part, vars, talk, feed, download, asking, keeping, planning>>

\* Whichever of the lanes runs, each of the stores takes a step of its own or none.
LEMMA StoresStep ==
  ASSUME [LanesNext]_LanesVars
  PROVE  [Next]_vars /\ [Db!Next]_Db!vars /\ [Kept!Next]_Kept!vars
<1>1. CASE UNCHANGED <<keeping, planning>> /\ (Next \/ UNCHANGED vars)
  BY <1>1 DEF keeping, planning, Db!vars, Db!open, Db!history,
              Kept!vars, Kept!disk, Kept!local, Kept!bounds
<1>2. CASE UNCHANGED <<vars, planning>> /\ Db!Next
  BY <1>2 DEF planning, Kept!vars, Kept!disk, Kept!local, Kept!bounds
<1>3. CASE UNCHANGED <<vars, keeping>> /\ Store!Next
  BY <1>3, SameStore DEF keeping, Db!vars, Db!open, Db!history
<1> QED BY <1>1, <1>2, <1>3 DEF LanesNext, LanesVars

\* The copies of a line are explained, the database keeps its rows, and the scheduler's
\* store its order, whichever of them runs and whoever crashes (memory/tiers.py,
\* memory/db.py, lib/scheduler/store.py).
THEOREM StoresAlwaysSound == LanesSpec => []StoresAreSound
<1>1. LanesInit => Init /\ Db!Init /\ Kept!Init
  BY SameStore DEF LanesInit
<1>2. [LanesNext]_LanesVars => [Next]_vars /\ [Db!Next]_Db!vars /\ [Kept!Next]_Kept!vars
  BY StoresStep
<1>3. LanesSpec => Spec /\ Db!Spec /\ Kept!Spec
  BY <1>1, <1>2, PTL DEF LanesSpec, LanesVars, Spec, Db!Spec, Kept!Spec
<1>4. CopiesExplained /\ Db!MemoryDbIsSound /\ Kept!StoreIsOrdered => StoresAreSound
  BY SameStore DEF StoresAreSound
<1>5. Spec => []CopiesExplained
  BY MemoryConstants, CopiesAlwaysExplained
<1>6. Kept!Spec => []Kept!StoreIsOrdered
  BY DbConstants, StoreKept DEF DbConstants
<1> QED BY <1>3, <1>4, <1>5, <1>6, DatabaseAlwaysSound, PTL
===============================================================================
