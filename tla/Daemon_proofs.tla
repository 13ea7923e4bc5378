----------------------------- MODULE Daemon_proofs ----------------------------
(***************************************************************************)
(* Proofs about the daemon: about the claims of sessions and the reaper of *)
(* the model, for any set of processes; about its life, for any number of  *)
(* commands given at once and of daemons started one after the other; and  *)
(* about its control server, for any set of connections and any number of  *)
(* slots.                                                                  *)
(***************************************************************************)
EXTENDS ControlServer, ModelReaper, DaemonLife, FiniteSetTheorems, TLAPS

\* The processes of an open session live, and so does whoever is a parent.
LivingInv ==
  /\ \A p \in Pid : parent[p] \in alive \cup {NoPid}
  /\ \A c \in open : family[c] \subseteq alive

\* The claim a session holds names its processes; that of one without processes
\* names nobody. The pruner keeps both.
HeldInv ==
  \A c \in Program : Holds(c) =>
    /\ family[c] \subseteq claims[given[c]].pids
    /\ family[c] = {} => claims[given[c]].pids = {}

\* Of two claims one is the older.
OrderInv == \A x, y \in DOMAIN claims : <<x, y>> \in older => <<y, x>> \notin older

Claimless == {c \in open : ~Holds(c)}

ClaimsInv ==
  /\ SessionsTypeOK /\ LivingInv /\ HeldInv /\ OrderInv
  /\ Cardinality(Claimless) <= unclear

-------------------------------------------------------------------------------
LEMMA KeepTypes ==
  ASSUME SessionsTypeOK, NEW keys \in SUBSET DOMAIN claims, Keep(keys)
  PROVE  /\ DOMAIN claims' = keys
         /\ \A k \in keys : claims'[k] = claims[k]
         /\ DOMAIN claims' \subseteq Key /\ claims' \in [DOMAIN claims' -> [pids : SUBSET Pid, by : Program]]
         /\ older' \subseteq (DOMAIN claims') \X (DOMAIN claims')
         /\ OrderInv => OrderInv'
<1>1. DOMAIN claims' = keys /\ \A k \in keys : claims'[k] = claims[k]
  BY DEF Keep
<1>2. DOMAIN claims' \subseteq Key /\ claims' \in [DOMAIN claims' -> [pids : SUBSET Pid, by : Program]]
  BY <1>1 DEF Keep, SessionsTypeOK
<1>3. older' \subseteq (DOMAIN claims') \X (DOMAIN claims')
  BY <1>1 DEF Keep
<1>4. ASSUME OrderInv PROVE OrderInv'
  BY <1>1, <1>4 DEF Keep, OrderInv
<1> QED BY <1>1, <1>2, <1>3, <1>4

\* The pruner leaves the claims that are held.
LEMMA HeldIsLive ==
  ASSUME ClaimsInv, NEW c \in Program, Holds(c)
  PROVE  given[c] \in Live
<1>1. c \in open /\ family[c] \subseteq alive /\ given[c] \in DOMAIN claims
  BY DEF Holds, ClaimsInv, LivingInv
<1>2. /\ family[c] \subseteq claims[given[c]].pids
      /\ family[c] = {} => claims[given[c]].pids = {}
  BY DEF ClaimsInv, HeldInv
<1>3. Kept(given[c])
  BY <1>1, <1>2 DEF Kept
<1> QED BY <1>1, <1>3 DEF Live

\* Who holds a claim when they are reduced.
LEMMA HoldersLeft ==
  ASSUME SessionsTypeOK, NEW keys \in SUBSET DOMAIN claims, Keep(keys), given' = given,
         NEW c \in Program
  PROVE  Holds(c)' <=> given[c] \in keys /\ c \in open' /\ claims[given[c]].by = c
<1>1. DOMAIN claims' = keys /\ \A k \in keys : claims'[k] = claims[k]
  BY KeepTypes
<1> QED BY <1>1 DEF Holds

LEMMA HeldStays ==
  ASSUME ClaimsInv, NEW keys \in SUBSET DOMAIN claims, Keep(keys), given' = given,
         open' \subseteq open, \A c \in open' : family'[c] = family[c]
  PROVE  HeldInv'
<1>1. DOMAIN claims' = keys /\ \A k \in keys : claims'[k] = claims[k]
  BY KeepTypes DEF ClaimsInv
<1>2. ASSUME NEW c \in Program, Holds(c)'
      PROVE  /\ family'[c] \subseteq claims'[given'[c]].pids
             /\ family'[c] = {} => claims'[given'[c]].pids = {}
  <2>1. c \in open' /\ Holds(c) /\ given[c] \in keys
    BY <1>1, <1>2 DEF Holds
  <2>2. claims'[given'[c]] = claims[given[c]] /\ family'[c] = family[c]
    BY <1>1, <2>1
  <2> QED BY <2>1, <2>2 DEF ClaimsInv, HeldInv
<1> QED BY <1>2 DEF HeldInv

\* The pruner keeps the count.
LEMMA PrunedClaims ==
  ASSUME ClaimsInv, Keep(Live), UNCHANGED <<processes, used, programs>>, answering' \in 0..1
  PROVE  ClaimsInv'
<1>1. Live \in SUBSET DOMAIN claims /\ SessionsTypeOK /\ OrderInv
  BY DEF Live, ClaimsInv
<1>2. SessionsTypeOK' /\ OrderInv'
  BY <1>1, KeepTypes DEF SessionsTypeOK, processes, programs
<1>3. HeldInv'
  BY <1>1, HeldStays DEF programs
<1>4. LivingInv'
  BY DEF ClaimsInv, LivingInv, processes, programs
<1>5. Claimless' = Claimless
  <2>1. ASSUME NEW c \in Program PROVE Holds(c)' <=> Holds(c)
    BY <1>1, HoldersLeft, HeldIsLive DEF programs, Holds
  <2>2. open \subseteq Program /\ open' = open
    BY <1>1 DEF SessionsTypeOK, programs
  <2> QED BY <2>1, <2>2 DEF Claimless
<1> QED BY <1>2, <1>3, <1>4, <1>5 DEF ClaimsInv, programs

\* One more at most.
LEMMA OneMore ==
  ASSUME SessionConstants, SessionsTypeOK, NEW S \in SUBSET Program, NEW x, S \subseteq Claimless \cup {x}
  PROVE  /\ IsFiniteSet(S) /\ Cardinality(S) \in Nat /\ Cardinality(Claimless) \in Nat
         /\ Cardinality(S) <= Cardinality(Claimless) + 1
         /\ S \subseteq Claimless => Cardinality(S) <= Cardinality(Claimless)
<1>1. Claimless \subseteq Program
  BY DEF Claimless, SessionsTypeOK
<1>2. IsFiniteSet(Claimless) /\ IsFiniteSet(S)
  BY <1>1, FS_Subset DEF SessionConstants
<1>3. /\ IsFiniteSet(Claimless \cup {x})
      /\ Cardinality(Claimless \cup {x}) = IF x \in Claimless THEN Cardinality(Claimless) ELSE Cardinality(Claimless) + 1
  BY <1>2, FS_AddElement
<1>4. Cardinality(S) <= Cardinality(Claimless \cup {x})
  BY <1>3, FS_Subset
<1>5. S \subseteq Claimless => Cardinality(S) <= Cardinality(Claimless)
  BY <1>2, FS_Subset
<1>6. Cardinality(S) \in Nat /\ Cardinality(Claimless) \in Nat
  BY <1>2, FS_CardinalityType
<1> QED BY <1>2, <1>3, <1>4, <1>5, <1>6

\* A new claim takes the place of one other session's at most.
LEMMA ClaimedKeeps ==
  ASSUME SessionConstants, ClaimsInv, NEW c \in Program, NEW key \in Key, NEW pids \in SUBSET alive,
         Claimed(c, key, pids), used' \subseteq Anon
  PROVE  ClaimsInv'
<1>0. SessionsTypeOK /\ LivingInv /\ HeldInv /\ OrderInv /\ Cardinality(Claimless) <= unclear
  BY DEF ClaimsInv
<1> DEFINE new == [pids |-> pids, by |-> c]
<1>1. DOMAIN claims' = DOMAIN claims \cup {key}
  BY DEF Claimed
<1>2. claims'[key] = new /\ \A k \in DOMAIN claims \ {key} : claims'[k] = claims[k]
  BY DEF Claimed
<1>3. /\ alive' = alive /\ parent' = parent /\ open' = open \cup {c}
      /\ given' = [given EXCEPT ![c] = key] /\ family' = [family EXCEPT ![c] = pids]
  BY DEF Claimed, processes
<1>4. given \in [Program -> Key \cup {NoSid}] /\ family \in [Program -> SUBSET Pid] /\ open \subseteq Program
  BY <1>0 DEF SessionsTypeOK
<1>5. SessionsTypeOK'
  <2>1. pids \in SUBSET Pid
    BY <1>0 DEF SessionsTypeOK
  <2>2. claims' = [k \in DOMAIN claims \cup {key} |-> IF k = key THEN new ELSE claims[k]]
    BY DEF Claimed
  <2>3. ASSUME NEW k \in DOMAIN claims' PROVE claims'[k] \in [pids : SUBSET Pid, by : Program]
    BY <1>0, <1>1, <1>2, <2>1, <2>3 DEF SessionsTypeOK
  <2>4. DOMAIN claims' \subseteq Key /\ claims' \in [DOMAIN claims' -> [pids : SUBSET Pid, by : Program]]
    BY <1>0, <1>1, <2>2, <2>3 DEF SessionsTypeOK
  <2>5. older' \subseteq (DOMAIN claims') \X (DOMAIN claims')
    BY <1>0, <1>1 DEF Claimed, SessionsTypeOK
  <2>6. /\ open' \subseteq Program
        /\ given' \in [Program -> Key \cup {NoSid}] /\ family' \in [Program -> SUBSET Pid]
    BY <1>3, <1>4, <2>1
  <2>7. answering' \in 0..1 /\ unclear' \in 0..MaxUnclear
    BY <1>0 DEF Claimed, Doubted, SessionsTypeOK, SessionConstants
  <2> QED BY <1>0, <1>3, <2>4, <2>5, <2>6, <2>7 DEF SessionsTypeOK
<1>6. LivingInv'
  <2>1. ASSUME NEW d \in open' PROVE family'[d] \subseteq alive
    BY <1>0, <1>3, <1>4, <2>1 DEF LivingInv
  <2> QED BY <1>0, <1>3, <2>1 DEF LivingInv
<1>7. OrderInv'
  BY <1>0, <1>1 DEF Claimed, OrderInv, SessionsTypeOK
<1>8. ASSUME NEW d \in Program, d # c
      PROVE  /\ given'[d] = given[d] /\ family'[d] = family[d]
             /\ Holds(d)' <=> Holds(d) /\ given[d] # key
  <2>1. given'[d] = given[d] /\ family'[d] = family[d] /\ (d \in open' <=> d \in open)
    BY <1>3, <1>4, <1>8
  <2>2. CASE given[d] = key
    <3>1. claims'[given'[d]].by = c
      BY <1>2, <2>1, <2>2
    <3> QED BY <1>8, <2>1, <2>2, <3>1 DEF Holds
  <2>3. CASE given[d] # key
    <3>1. given[d] \in DOMAIN claims => claims'[given[d]] = claims[given[d]]
      BY <1>2, <2>3
    <3> QED BY <1>1, <2>1, <2>3, <3>1 DEF Holds
  <2> QED BY <2>1, <2>2, <2>3
<1>9. c \in open' /\ given'[c] = key /\ family'[c] = pids
  BY <1>3, <1>4
<1>10. Holds(c)'
  <2>1. claims'[given'[c]].by = c
    BY <1>2, <1>9
  <2> QED BY <1>1, <1>9, <2>1 DEF Holds
<1>11. HeldInv'
  <2>1. ASSUME NEW d \in Program, Holds(d)'
        PROVE  /\ family'[d] \subseteq claims'[given'[d]].pids
               /\ family'[d] = {} => claims'[given'[d]].pids = {}
    <3>1. CASE d = c
      <4>1. claims'[given'[d]].pids = pids /\ family'[d] = pids
        BY <1>2, <1>9, <3>1
      <4> QED BY <4>1
    <3>2. CASE d # c
      <4>1. Holds(d) /\ given[d] # key /\ given'[d] = given[d] /\ family'[d] = family[d]
        BY <1>8, <2>1, <3>2
      <4>2. claims'[given'[d]] = claims[given[d]]
        BY <1>2, <4>1 DEF Holds
      <4> QED BY <1>0, <4>1, <4>2 DEF HeldInv
    <3> QED BY <3>1, <3>2
  <2> QED BY <2>1 DEF HeldInv
<1>12. Cardinality(Claimless') <= unclear'
  <2> DEFINE Other == \E d \in Program \ {c} : Holds(d) /\ given[d] = key
  <2>1. Claimless' \subseteq Program /\ c \notin Claimless'
    BY <1>3, <1>4, <1>10 DEF Claimless
  <2>2. ASSUME NEW d \in Claimless', d \notin Claimless PROVE Holds(d) /\ given[d] = key /\ d # c
    <3>1. d \in open /\ d # c /\ d \in Program /\ ~Holds(d)'
      BY <1>3, <1>4, <2>1, <2>2 DEF Claimless
    <3> QED BY <1>8, <2>2, <3>1 DEF Claimless
  <2>3. Claimless' \subseteq Claimless \cup {claims[key].by}
    BY <2>2 DEF Holds
  <2>4. CASE Other
    <3>1. unclear' = unclear + 1
      BY <2>4 DEF Claimed, Doubted
    <3>2. Cardinality(Claimless') <= Cardinality(Claimless) + 1 /\ Cardinality(Claimless) \in Nat
          /\ Cardinality(Claimless') \in Nat
      BY <1>0, <2>1, <2>3, OneMore
    <3> QED BY <1>0, <3>1, <3>2 DEF SessionsTypeOK
  <2>5. CASE ~Other
    <3>1. unclear' = unclear
      BY <1>0, <2>5 DEF Claimed, Doubted, SessionsTypeOK
    <3>2. Claimless' \subseteq Claimless
      BY <2>1, <2>2, <2>5
    <3>3. Cardinality(Claimless') <= Cardinality(Claimless) /\ Cardinality(Claimless) \in Nat
          /\ Cardinality(Claimless') \in Nat
      BY <1>0, <2>1, <2>3, <3>2, OneMore
    <3> QED BY <1>0, <3>1, <3>3 DEF SessionsTypeOK
  <2> QED BY <2>4, <2>5
<1> QED BY <1>5, <1>6, <1>7, <1>11, <1>12 DEF ClaimsInv

\* A session-end takes one claim at most.
LEMMA OneOldest ==
  ASSUME ClaimsInv, NEW p \in Pid \cup {NoPid}, NEW sid,
         NEW x \in Drop(p, sid), NEW y \in Drop(p, sid)
  PROVE  x = y /\ x \in Live
<1>1. Mine(p) \subseteq Live /\ Live \subseteq DOMAIN claims
  BY DEF Mine, Live
<1>2. CASE sid \in Live
  BY <1>2 DEF Drop
<1>3. CASE sid \notin Live
  <2>1. PICK keys \in SUBSET Live : Drop(p, sid) = Oldest(keys)
    BY <1>1, <1>3 DEF Drop
  <2>2. x \in keys /\ y \in keys
    BY <2>1 DEF Oldest
  <2>3. x # y => <<x, y>> \in older /\ <<y, x>> \in older
    BY <2>1, <2>2 DEF Oldest
  <2>4. x \in DOMAIN claims /\ y \in DOMAIN claims
    BY <1>1, <2>2
  <2>5. ~(<<x, y>> \in older /\ <<y, x>> \in older)
    BY <2>4 DEF ClaimsInv, OrderInv
  <2> QED BY <2>2, <2>3, <2>5
<1> QED BY <1>2, <1>3

\* Which of them, when it is clear whose is meant.
LEMMA ClearEnd ==
  ASSUME SessionConstants, ClaimsInv, NEW c \in Program, NEW p \in Pid \cup {NoPid}, NEW sid \in {NoSid, given[c]},
         Holds(c), sid = given[c] \/ Mine(p) = {given[c]}
  PROVE  Drop(p, sid) \subseteq {given[c]}
<1>1. given[c] \in Live
  BY HeldIsLive
<1>2. CASE sid = given[c]
  BY <1>1, <1>2 DEF Drop
<1>3. CASE sid # given[c]
  <2>1. sid = NoSid /\ Mine(p) = {given[c]}
    BY <1>3
  <2>2. sid \notin Live
    BY <2>1 DEF Live, ClaimsInv, SessionsTypeOK, SessionConstants, Key
  <2>3. Drop(p, sid) = Oldest({given[c]})
    BY <2>1, <2>2 DEF Drop
  <2> QED BY <2>3 DEF Oldest
<1> QED BY <1>2, <1>3

LEMMA EndKeeps ==
  ASSUME SessionConstants, ClaimsInv, NEW c \in Program, NEW p \in Pid \cup {NoPid}, NEW sid, SessionEnd(c, p, sid)
  PROVE  ClaimsInv'
<1>0. SessionsTypeOK /\ LivingInv /\ HeldInv /\ OrderInv /\ Cardinality(Claimless) <= unclear
  BY DEF ClaimsInv
<1> DEFINE left == Live \ Drop(p, sid)
           doubt == c \notin open \/ (Holds(c) /\ sid # given[c] /\ Mine(p) # {given[c]})
<1>1. left \in SUBSET DOMAIN claims /\ Live \subseteq DOMAIN claims
  BY DEF Live
<1>2. /\ Keep(left) /\ sid \in {NoSid, given[c]} /\ open' = open \ {c} /\ given' = given
      /\ family' = [family EXCEPT ![c] = {}] /\ UNCHANGED <<processes, answering, used>>
  BY DEF SessionEnd
<1>3. family \in [Program -> SUBSET Pid] /\ open \subseteq Program
  BY <1>0 DEF SessionsTypeOK
<1>4. unclear' = (IF doubt THEN unclear + 1 ELSE unclear) /\ unclear' \in 0..MaxUnclear
  BY <1>0 DEF SessionEnd, Doubted, SessionsTypeOK, SessionConstants
<1>5. SessionsTypeOK' /\ OrderInv'
  <2>1. family' \in [Program -> SUBSET Pid] /\ open' \subseteq Program
    BY <1>2, <1>3
  <2>2. /\ DOMAIN claims' \subseteq Key /\ claims' \in [DOMAIN claims' -> [pids : SUBSET Pid, by : Program]]
        /\ older' \subseteq (DOMAIN claims') \X (DOMAIN claims') /\ OrderInv'
    BY <1>0, <1>1, <1>2, KeepTypes
  <2> QED BY <1>0, <1>2, <1>4, <2>1, <2>2 DEF SessionsTypeOK, processes
<1>6. \A d \in open' : family'[d] = family[d]
  BY <1>2, <1>3
<1>7. HeldInv'
  BY <1>1, <1>2, <1>6, HeldStays
<1>8. LivingInv'
  BY <1>0, <1>2, <1>6 DEF LivingInv, processes
<1>9. ASSUME NEW d \in Claimless', d \notin Claimless
      PROVE  Holds(d) /\ given[d] \in Drop(p, sid) /\ d # c /\ d \in Program
  <2>1. d \in open /\ d # c /\ d \in open' /\ d \in Program /\ ~Holds(d)'
    BY <1>2, <1>3, <1>9 DEF Claimless
  <2>2. Holds(d)
    BY <1>9, <2>1 DEF Claimless
  <2>3. given[d] \in Live
    BY <2>1, <2>2, HeldIsLive
  <2>4. given[d] \notin left
    <3>1. claims[given[d]].by = d
      BY <2>2 DEF Holds
    <3> QED BY <1>0, <1>1, <1>2, <2>1, <3>1, HoldersLeft
  <2> QED BY <2>1, <2>2, <2>3, <2>4
<1>10. PICK x : Claimless' \subseteq (Claimless \ {c}) \cup {x} /\ (x \in Claimless' \ Claimless \/ Claimless' \subseteq Claimless)
  <2>1. c \notin Claimless'
    BY <1>2 DEF Claimless
  <2>2. CASE \E d \in Claimless' : d \notin Claimless
    <3>1. PICK d \in Claimless' : d \notin Claimless
      BY <2>2
    <3>2. ASSUME NEW e \in Claimless', e \notin Claimless PROVE e = d
      <4>1. given[d] = given[e]
        BY <1>9, <3>1, <3>2, OneOldest
      <4> QED BY <1>9, <3>1, <3>2, <4>1 DEF Holds
    <3> QED BY <2>1, <3>1, <3>2
  <2>3. CASE ~\E d \in Claimless' : d \notin Claimless
    BY <2>1, <2>3
  <2> QED BY <2>2, <2>3
<1>11. Claimless' \subseteq Program /\ Claimless' \subseteq Claimless \cup {x}
  BY <1>2, <1>3, <1>10 DEF Claimless
<1>12. /\ Cardinality(Claimless') <= Cardinality(Claimless) + 1
       /\ Cardinality(Claimless) \in Nat /\ Cardinality(Claimless') \in Nat
       /\ Claimless' \subseteq Claimless => Cardinality(Claimless') <= Cardinality(Claimless)
  BY <1>0, <1>11, OneMore
<1>13. ASSUME doubt PROVE Cardinality(Claimless') <= unclear'
  BY <1>0, <1>4, <1>12, <1>13 DEF SessionsTypeOK
<1>14. ASSUME ~doubt, Claimless' \subseteq Claimless PROVE Cardinality(Claimless') <= unclear'
  BY <1>0, <1>4, <1>12, <1>14 DEF SessionsTypeOK
<1>15. ASSUME ~doubt, ~(Claimless' \subseteq Claimless) PROVE Cardinality(Claimless') <= unclear'
  <2>1. x \in Claimless' /\ x \notin Claimless
    BY <1>10, <1>15
  <2>2. Holds(x) /\ given[x] \in Drop(p, sid) /\ x # c
    BY <1>9, <2>1
  <2>3. ~Holds(c)
    <3>1. SUFFICES ASSUME Holds(c) PROVE FALSE
      OBVIOUS
    <3>2. Drop(p, sid) \subseteq {given[c]}
      BY <1>2, <1>15, <3>1, ClearEnd
    <3> QED BY <2>2, <3>1, <3>2 DEF Holds
  <2>4. c \in Claimless
    BY <1>15, <2>3 DEF Claimless
  <2>5. Claimless \subseteq Program /\ IsFiniteSet(Claimless)
    BY <1>3, FS_Subset DEF Claimless, SessionConstants
  <2>6. IsFiniteSet(Claimless \ {c}) /\ Cardinality(Claimless \ {c}) = Cardinality(Claimless) - 1
    BY <2>4, <2>5, FS_RemoveElement
  <2>7. /\ IsFiniteSet((Claimless \ {c}) \cup {x})
        /\ Cardinality((Claimless \ {c}) \cup {x}) = Cardinality(Claimless \ {c}) + 1
    BY <2>1, <2>6, FS_AddElement
  <2>8. Cardinality(Claimless') <= Cardinality((Claimless \ {c}) \cup {x})
    BY <1>10, <2>7, FS_Subset
  <2> QED BY <1>0, <1>4, <1>12, <1>15, <2>6, <2>7, <2>8 DEF SessionsTypeOK
<1>16. Cardinality(Claimless') <= unclear'
  BY <1>13, <1>14, <1>15
<1> QED BY <1>5, <1>7, <1>8, <1>16 DEF ClaimsInv

LEMMA DeathKeeps ==
  ASSUME SessionConstants, ClaimsInv, NEW p \in Pid, Dies(p)
  PROVE  ClaimsInv'
<1>0. SessionsTypeOK /\ LivingInv /\ HeldInv /\ OrderInv /\ Cardinality(Claimless) <= unclear
  BY DEF ClaimsInv
<1>1. /\ alive' = alive \ {p} /\ family' = [c \in Program |-> family[c] \ {p}]
      /\ parent' = [q \in Pid |-> IF parent[q] = p \/ q = p THEN NoPid ELSE parent[q]]
      /\ open' = {c \in open : family[c] # {p}}
      /\ UNCHANGED <<claims, older, answering, used, given, unclear>>
  BY DEF Dies, table
<1>2. family \in [Program -> SUBSET Pid] /\ open \subseteq Program /\ alive \subseteq Pid
      /\ parent \in [Pid -> Pid \cup {NoPid}]
  BY <1>0 DEF SessionsTypeOK
<1>3. \A c \in Program : family'[c] = family[c] \ {p}
  BY <1>1
<1>4. /\ alive' \subseteq Pid /\ parent' \in [Pid -> Pid \cup {NoPid}]
      /\ family' \in [Program -> SUBSET Pid] /\ open' \subseteq Program
  BY <1>1, <1>2
<1>5. SessionsTypeOK'
  BY <1>0, <1>1, <1>4 DEF SessionsTypeOK
<1>6. LivingInv'
  <2>1. ASSUME NEW q \in Pid PROVE parent'[q] \in alive' \cup {NoPid}
    BY <1>0, <1>1, <2>1 DEF LivingInv
  <2>2. ASSUME NEW c \in open' PROVE family'[c] \subseteq alive'
    BY <1>0, <1>1, <1>2, <1>3, <2>2 DEF LivingInv
  <2> QED BY <2>1, <2>2 DEF LivingInv
<1>7. ASSUME NEW c \in Program PROVE Holds(c)' <=> Holds(c) /\ c \in open'
  BY <1>1 DEF Holds
<1>8. HeldInv'
  <2>1. ASSUME NEW c \in Program, Holds(c)'
        PROVE  /\ family'[c] \subseteq claims'[given'[c]].pids
               /\ family'[c] = {} => claims'[given'[c]].pids = {}
    <3>1. Holds(c) /\ c \in open' /\ claims' = claims /\ given' = given
      BY <1>1, <1>7, <2>1
    <3>2. family'[c] \subseteq family[c] /\ (family'[c] = {} => family[c] = {})
      BY <1>1, <1>3, <3>1
    <3>3. /\ family[c] \subseteq claims[given[c]].pids
          /\ family[c] = {} => claims[given[c]].pids = {}
      BY <1>0, <3>1 DEF HeldInv
    <3> QED BY <3>1, <3>2, <3>3
  <2> QED BY <2>1 DEF HeldInv
<1>9. OrderInv'
  BY <1>0, <1>1 DEF OrderInv
<1>10. Claimless' \subseteq Claimless /\ Claimless' \subseteq Program
  BY <1>1, <1>2, <1>7 DEF Claimless
<1>11. Cardinality(Claimless') <= Cardinality(Claimless)
       /\ Cardinality(Claimless') \in Nat /\ Cardinality(Claimless) \in Nat
  BY <1>0, <1>10, OneMore
<1> QED BY <1>0, <1>1, <1>5, <1>6, <1>8, <1>9, <1>11 DEF ClaimsInv, SessionsTypeOK

-------------------------------------------------------------------------------
LEMMA ClaimsInitially == ASSUME SessionConstants, SessionsInit PROVE ClaimsInv
<1>1. SessionsTypeOK
  BY DEF SessionsInit, SessionsTypeOK, SessionConstants
<1>2. LivingInv /\ HeldInv /\ OrderInv
  BY DEF SessionsInit, LivingInv, HeldInv, OrderInv, Holds
<1>3. Claimless = {} /\ unclear = 0
  BY DEF SessionsInit, Claimless
<1>4. Cardinality(Claimless) = 0
  BY <1>3, FS_EmptySet
<1> QED BY <1>1, <1>2, <1>3, <1>4 DEF ClaimsInv

LEMMA SameClaims ==
  ASSUME ClaimsInv, UNCHANGED sessionVars
  PROVE  ClaimsInv'
<1>1. Claimless' = Claimless
  BY DEF sessionVars, table, programs, Claimless, Holds
<1> QED BY <1>1 DEF ClaimsInv, sessionVars, processes, table, programs, SessionsTypeOK, LivingInv, HeldInv,
                    OrderInv, Holds

LEMMA ClaimsStep ==
  ASSUME SessionConstants, ClaimsInv, [SessionsNext]_sessionVars
  PROVE  ClaimsInv'
<1>0. SessionsTypeOK /\ LivingInv /\ HeldInv /\ OrderInv /\ Cardinality(Claimless) <= unclear
  BY DEF ClaimsInv
<1>1. CASE UNCHANGED sessionVars
  BY <1>1, SameClaims
<1>2. ASSUME NEW p \in Pid, NEW q \in Pid \cup {NoPid}, Born(p, q) PROVE ClaimsInv'
  <2>1. /\ alive' = alive \cup {p} /\ parent' = [parent EXCEPT ![p] = q] /\ q \in alive \cup {NoPid}
        /\ UNCHANGED <<claims, older, answering, used, open, given, family, unclear>>
    BY <1>2 DEF Born, table, programs
  <2>2. SessionsTypeOK'
    BY <1>0, <2>1 DEF SessionsTypeOK
  <2>3. LivingInv'
    BY <1>0, <2>1 DEF LivingInv, SessionsTypeOK
  <2>4. HeldInv' /\ OrderInv' /\ Claimless' = Claimless
    BY <1>0, <2>1 DEF HeldInv, OrderInv, Claimless, Holds
  <2> QED BY <1>0, <2>1, <2>2, <2>3, <2>4 DEF ClaimsInv
<1>3. ASSUME NEW p \in Pid, Dies(p) PROVE ClaimsInv'
  BY <1>3, DeathKeeps
<1>4. ASSUME NEW c \in Program, NEW p \in Pid, SessionStart(c, p) PROVE ClaimsInv'
  <2>1. Chain(p) \in SUBSET alive /\ p \in Key /\ Claimed(c, p, Chain(p)) /\ used' = used
    BY <1>0, <1>4 DEF SessionStart, Chain, LivingInv, Key
  <2> QED BY <1>0, <2>1, ClaimedKeeps DEF SessionsTypeOK
<1>5. ASSUME NEW c \in Program, NEW a \in Anon, SessionStartAnon(c, a) PROVE ClaimsInv'
  <2>1. a \in Key /\ {} \in SUBSET alive /\ Claimed(c, a, {}) /\ used' = used \cup {a}
    BY <1>5 DEF SessionStartAnon, Key
  <2> QED BY <1>0, <2>1, ClaimedKeeps DEF SessionsTypeOK
<1>6. ASSUME LiveSessions PROVE ClaimsInv'
  <2>1. answering' \in 0..1
    BY <1>0, <1>6 DEF LiveSessions, SessionsTypeOK
  <2> QED BY <1>6, <2>1, PrunedClaims DEF LiveSessions
<1>7. ASSUME NEW c \in Program, NEW p \in Pid \cup {NoPid}, NEW sid \in Key \cup {NoSid}, SessionEnd(c, p, sid)
      PROVE  ClaimsInv'
  BY <1>7, EndKeeps
<1>8. ASSUME SessionReset PROVE ClaimsInv'
  <2>1. /\ Keep({}) /\ open' = {} /\ family' = [c \in Program |-> {}]
        /\ UNCHANGED <<processes, answering, used, given, unclear>>
    BY <1>8 DEF SessionReset
  <2>2. SessionsTypeOK' /\ OrderInv'
    BY <1>0, <2>1, KeepTypes DEF processes, SessionsTypeOK
  <2>3. LivingInv' /\ HeldInv' /\ Claimless' = {}
    BY <1>0, <2>1 DEF LivingInv, HeldInv, Claimless, Holds, processes
  <2>4. Cardinality(Claimless') = 0
    BY <2>3, FS_EmptySet
  <2> QED BY <1>0, <2>1, <2>2, <2>3, <2>4 DEF ClaimsInv, SessionsTypeOK
<1>9. ASSUME Prune PROVE ClaimsInv'
  <2>1. answering' \in 0..1
    BY <1>0, <1>9 DEF Prune, SessionsTypeOK
  <2> QED BY <1>9, <2>1, PrunedClaims DEF Prune
<1> QED BY <1>1, <1>2, <1>3, <1>4, <1>5, <1>6, <1>7, <1>8, <1>9 DEF SessionsNext

\* However sessions overlap, end, end again or are ended by those that never began one,
\* whichever processes die and whichever pids come back: the open sessions that lost
\* their claim are no more than the requests that did not tell whose they meant.
THEOREM OpenSessionsKeepTheirClaims == SessionsSpec => []OpenSessionsClaimed
<1>1. SessionsInit => ClaimsInv
  BY SessionConstants, ClaimsInitially
<1>2. ClaimsInv /\ [SessionsNext]_sessionVars => ClaimsInv'
  BY SessionConstants, ClaimsStep
<1>3. ClaimsInv => OpenSessionsClaimed
  BY DEF ClaimsInv, Claimless, OpenSessionsClaimed
<1> QED BY <1>1, <1>2, <1>3, PTL DEF SessionsSpec

-------------------------------------------------------------------------------
\* The rounds of the reaper that go on after its look at the claims.
Going == {"tui", "slot", "model", "tui again", "slot again", "stop"}

\* A round goes on only if no claim was left, so the sessions that were open by then,
\* and still are, are among those that had lost theirs; the others it has not seen.
RoundInv == round \in Going => Cardinality(open \ unseen) <= unclear

ReaperInv == ClaimsInv /\ ReaperTypeOK /\ RoundInv

LEMMA ReaperInitially == ASSUME SessionConstants, ReaperInit PROVE ReaperInv
BY ClaimsInitially DEF ReaperInit, SessionsInit, ReaperInv, ReaperTypeOK, RoundInv, Going

\* The look at the claims keeps those that are held.
LEMMA LookKeepsClaims ==
  ASSUME SessionConstants, ClaimsInv, LookAtClaims
  PROVE  ClaimsInv'
<1>1. answering' \in 0..1
  BY DEF LookAtClaims, ClaimsInv, SessionsTypeOK
<1> QED BY <1>1, PrunedClaims DEF LookAtClaims

\* Without claims, all open sessions have lost theirs.
LEMMA NoneHeld ==
  ASSUME ClaimsInv, Live = {}
  PROVE  Cardinality(open) <= unclear
<1>1. \A c \in open : ~Holds(c)
  BY HeldIsLive DEF ClaimsInv, SessionsTypeOK
<1>2. Claimless = open
  BY <1>1 DEF Claimless
<1> QED BY <1>2 DEF ClaimsInv

LEMMA Fewer ==
  ASSUME SessionConstants, SessionsTypeOK, NEW S, S \subseteq open \ unseen
  PROVE  /\ Cardinality(S) \in Nat /\ Cardinality(open \ unseen) \in Nat
         /\ Cardinality(S) <= Cardinality(open \ unseen)
<1>1. open \ unseen \subseteq Program
  BY DEF SessionsTypeOK
<1>2. IsFiniteSet(open \ unseen)
  BY <1>1, FS_Subset DEF SessionConstants
<1>3. IsFiniteSet(S)
  BY <1>2, FS_Subset
<1> QED BY <1>2, <1>3, FS_Subset, FS_CardinalityType

LEMMA UnclearGrows ==
  ASSUME SessionsTypeOK, SessionsNext
  PROVE  unclear' >= unclear
<1>1. unclear \in Nat
  BY DEF SessionsTypeOK
<1>2. ASSUME NEW doubt \in BOOLEAN, Doubted(doubt) PROVE unclear' >= unclear
  BY <1>1, <1>2 DEF Doubted
<1>3. ASSUME NEW c, NEW key, NEW pids, Claimed(c, key, pids) PROVE unclear' >= unclear
  BY <1>2, <1>3 DEF Claimed
<1>4. ASSUME NEW c, NEW p, NEW sid, SessionEnd(c, p, sid) PROVE unclear' >= unclear
  BY <1>2, <1>4 DEF SessionEnd
<1>5. ASSUME unclear' = unclear PROVE unclear' >= unclear
  BY <1>1, <1>5
<1>6. ASSUME NEW p \in Pid, Dies(p) \/ \E q \in Pid \cup {NoPid} : Born(p, q) PROVE unclear' = unclear
  BY <1>6 DEF Dies, Born, programs
<1>7. ASSUME LiveSessions \/ SessionReset \/ Prune PROVE unclear' = unclear
  BY <1>7 DEF LiveSessions, SessionReset, Prune, programs
<1> QED
  BY <1>3, <1>4, <1>5, <1>6, <1>7 DEF SessionsNext, SessionStart, SessionStartAnon

LEMMA ReaperStep ==
  ASSUME SessionConstants, ReaperInv, [ReaperNext]_<<sessionVars, reaper>>
  PROVE  ReaperInv'
<1>0. ClaimsInv /\ ReaperTypeOK /\ RoundInv
  BY DEF ReaperInv
<1>1. CASE UNCHANGED <<sessionVars, reaper>>
  <2>1. ClaimsInv'
    BY <1>0, <1>1, SameClaims
  <2> QED BY <1>0, <1>1, <2>1 DEF ReaperInv, ReaperTypeOK, RoundInv, reaper, sessionVars, programs
<1>2. CASE LookAtClaims
  <2>1. ClaimsInv'
    BY <1>0, <1>2, LookKeepsClaims
  <2>2. open' \ unseen' = open /\ unclear' = unclear /\ (Live = {} => Cardinality(open) <= unclear)
    BY <1>0, <1>2, NoneHeld DEF LookAtClaims, programs
  <2>3. RoundInv'
    BY <1>2, <2>2 DEF LookAtClaims, Ends, RoundInv, Going
  <2>4. ReaperTypeOK'
    BY <1>0, <1>2 DEF LookAtClaims, Ends, ReaperTypeOK, programs
  <2> QED BY <2>1, <2>3, <2>4 DEF ReaperInv
<1>3. CASE LookForTui \/ LookAtSlot \/ LookForModel \/ IdleForLong \/ StopModel \/ Waited \/ WaitFails
  <2>1. ClaimsInv' /\ open' = open /\ unseen' = unseen /\ unclear' = unclear
    BY <1>0, <1>3, SameClaims
       DEF LookForTui, LookAtSlot, LookForModel, IdleForLong, StopModel, Waited, WaitFails, sessionVars, programs
  <2>2. round' \in Going => round \in Going
    BY <1>3 DEF LookForTui, LookAtSlot, LookForModel, IdleForLong, StopModel, Waited, WaitFails, Ends, Going
  <2>3. ReaperTypeOK'
    BY <1>0, <1>3, <2>1 DEF LookForTui, LookAtSlot, LookForModel, IdleForLong, StopModel, Waited, WaitFails,
                            Ends, ReaperTypeOK
  <2> QED BY <1>0, <2>1, <2>2, <2>3 DEF ReaperInv, RoundInv
<1>4. CASE ClaimsMove
  <2>1. ClaimsInv'
    BY <1>0, <1>4, ClaimsStep DEF ClaimsMove
  <2>2. RoundInv'
    <3>1. open' \ unseen' \subseteq open \ unseen /\ round' = round
      BY <1>4 DEF ClaimsMove
    <3>2. Cardinality(open' \ unseen') <= Cardinality(open \ unseen)
          /\ Cardinality(open' \ unseen') \in Nat /\ Cardinality(open \ unseen) \in Nat
      BY <1>0, <3>1, Fewer DEF ClaimsInv
    <3>3. unclear' >= unclear /\ unclear \in Nat /\ unclear' \in Nat
      BY <1>0, <1>4, <2>1, UnclearGrows DEF ClaimsMove, ClaimsInv, SessionsTypeOK
    <3> QED BY <1>0, <3>1, <3>2, <3>3 DEF RoundInv
  <2>3. ReaperTypeOK'
    BY <1>0, <1>4 DEF ClaimsMove, ReaperTypeOK
  <2> QED BY <2>1, <2>2, <2>3 DEF ReaperInv
<1>5. CASE ModelStarts \/ ModelEnds \/ TuiStartsOrEnds \/ RequestBegins \/ RequestEnds
  <2>1. ClaimsInv' /\ open' = open /\ unseen' = unseen /\ round' = round /\ unclear' = unclear
    BY <1>0, <1>5, SameClaims
       DEF ModelStarts, ModelEnds, TuiStartsOrEnds, RequestBegins, RequestEnds, sessionVars, programs
  <2>2. ReaperTypeOK'
    BY <1>0, <1>5, <2>1
       DEF ModelStarts, ModelEnds, TuiStartsOrEnds, RequestBegins, RequestEnds, ReaperTypeOK
  <2> QED BY <1>0, <2>1, <2>2 DEF ReaperInv, RoundInv
<1> QED BY <1>1, <1>2, <1>3, <1>4, <1>5 DEF ReaperNext, Round

\* _model_reaper: the model is told to end only by the round that found no claim, and
\* of the sessions open by then, those that did not begin since had all lost theirs to
\* a request that did not tell whose it meant.
THEOREM SeenSessionsAlwaysKeepTheModel == ReaperSpec => SeenSessionsKeepTheModel
<1>1. ReaperInit => ReaperInv
  BY SessionConstants, ReaperInitially
<1>2. ReaperInv /\ [ReaperNext]_<<sessionVars, reaper>> => ReaperInv'
  BY SessionConstants, ReaperStep
<1>3. ReaperInv /\ [ReaperNext]_<<sessionVars, reaper>> =>
        [model = "up" /\ model' = "stopping" => Cardinality(open \ unseen) <= unclear]_<<sessionVars, reaper>>
  <2> SUFFICES ASSUME ReaperInv, ReaperNext, model = "up", model' = "stopping"
               PROVE  Cardinality(open \ unseen) <= unclear
    OBVIOUS
  <2>1. StopModel
    BY DEF ReaperNext, Round, LookAtClaims, LookForTui, LookAtSlot, LookForModel, IdleForLong,
           Waited, WaitFails, ClaimsMove, ModelStarts, ModelEnds, TuiStartsOrEnds, RequestBegins, RequestEnds
  <2>2. round \in Going
    BY <2>1 DEF StopModel, Going
  <2> QED BY <2>2 DEF ReaperInv, RoundInv
<1> QED BY <1>1, <1>2, <1>3, PTL DEF ReaperSpec, SeenSessionsKeepTheModel

-------------------------------------------------------------------------------
\* The missing pid file names no daemon.
LifeConstants == Nobody \notin Daemon

\* No two commands are given at once, and no two daemons live at once.
OneAtATime ==
  /\ \A a, b \in Command : command[a] # "idle" /\ command[b] # "idle" => a = b
  /\ \A d, e \in Running : d = e

\* A command that has looked knows which daemon lives, if one does.
CommandKnows ==
  \A c \in Command :
    /\ command[c] # "idle" => \A d \in Running : main[d] # "claim"
    /\ command[c] = "launch" => Running = {}
    /\ command[c] \in {"write pid", "ask", "wait"} => Running \subseteq {target[c]}

\* A daemon that works is in the pid file, or about to be written there.
PidKnown ==
  \A d \in Running : main[d] = "loop" =>
    pidfile = d \/ \E c \in Command : command[c] = "write pid" /\ target[c] = d

\* Nobody takes the path of the socket from the daemon that has it.
PathKept ==
  \A d \in Running :
    /\ main[d] = "claim" => server[d] = "start"
    /\ server[d] # "failed"
    /\ server[d] = "bind" => path = Nobody
    /\ server[d] = "up" /\ main[d] \in {"loop", "clear path"} => path = d

Fresh == \A d \in Daemon : main[d] = "unborn" => server[d] = "start"

Orderly == OneAtATime /\ CommandKnows /\ PidKnown /\ PathKept

LifeInv == LifeTypeOK /\ Fresh /\ (~rushed => Orderly)

-------------------------------------------------------------------------------
LEMMA LifeInitially == ASSUME LifeConstants, LifeInit PROVE LifeInv
<1>1. LifeTypeOK
  BY DEF LifeInit, LifeTypeOK
<1>2. Running = {}
  BY DEF LifeInit, Running
<1>3. Fresh /\ Orderly
  BY <1>2 DEF LifeInit, Fresh, Orderly, OneAtATime, CommandKnows, PidKnown, PathKept
<1> QED BY <1>1, <1>3 DEF LifeInv

LEMMA TypedStep == ASSUME LifeConstants, LifeTypeOK, [LifeNext]_life PROVE LifeTypeOK'
<1>1. CASE UNCHANGED life
  BY <1>1 DEF life, files, daemons, commands, LifeTypeOK
<1>2. ASSUME NEW c \in Command, CommandStep(c) PROVE LifeTypeOK'
  <2>1. CASE LookToStart(c)
    BY <2>1 DEF LookToStart, Look, Goes, daemons, LifeTypeOK
  <2>2. CASE WritePid(c)
    BY <2>2 DEF WritePid, Goes, Aims, daemons, LifeTypeOK
  <2>3. CASE LookToStop(c)
    BY <2>3 DEF LookToStop, Look, Goes, Aims, daemons, LifeTypeOK
  <2>4. CASE Ask(c)
    BY <2>4 DEF Ask, Goes, Aims, files, Listening, Running, LifeTypeOK
  <2>5. CASE StopEnds(c)
    BY <2>5 DEF StopEnds, Goes, Aims, daemons, LifeTypeOK
  <2>6. ASSUME NEW d \in Daemon, Fork(c, d) \/ RunInForeground(c, d) PROVE LifeTypeOK'
    <3>1. CASE Fork(c, d)
      BY <2>6, <3>1 DEF Fork, Goes, Aims, Runs, files, LifeTypeOK
    <3>2. CASE RunInForeground(c, d)
      BY <2>6, <3>2 DEF RunInForeground, Goes, Runs, files, LifeTypeOK
    <3> QED BY <2>6, <3>1, <3>2
  <2> QED BY <1>2, <2>1, <2>2, <2>3, <2>4, <2>5, <2>6 DEF CommandStep
<1>3. ASSUME NEW d \in Daemon, DaemonStep(d) PROVE LifeTypeOK'
  <2>1. CASE ClaimPid(d) \/ UnlinkPath(d) \/ Bind(d)
    BY <2>1 DEF ClaimPid, UnlinkPath, Bind, Runs, commands, LifeTypeOK
  <2>2. CASE LoopEnds(d) \/ ClearPath(d) \/ Leave(d)
    BY <2>2 DEF LoopEnds, ClearPath, Leave, Runs, commands, LifeTypeOK
  <2> QED BY <1>3, <2>1, <2>2 DEF DaemonStep
<1>4. ASSUME NEW d \in Daemon, Signalled(d) \/ Killed(d) \/ PidReused(d) PROVE LifeTypeOK'
  BY <1>4 DEF Signalled, Killed, PidReused, Runs, files, commands, LifeTypeOK
<1> QED BY <1>1, <1>2, <1>3, <1>4 DEF LifeNext

LEMMA FreshStep == ASSUME LifeTypeOK, Fresh, [LifeNext]_life PROVE Fresh'
<1>1. CASE UNCHANGED life
  BY <1>1 DEF life, daemons, Fresh
<1>2. ASSUME NEW c \in Command, CommandStep(c) PROVE Fresh'
  BY <1>2 DEF CommandStep, LookToStart, WritePid, LookToStop, Ask, StopEnds, Fork,
              RunInForeground, Runs, daemons, LifeTypeOK, Fresh
<1>3. ASSUME NEW d \in Daemon, DaemonStep(d) PROVE Fresh'
  BY <1>3 DEF DaemonStep, ClaimPid, UnlinkPath, Bind, LoopEnds, ClearPath, Leave, Runs,
              Running, LifeTypeOK, Fresh
<1>4. ASSUME NEW d \in Daemon, Signalled(d) \/ Killed(d) \/ PidReused(d) PROVE Fresh'
  BY <1>4 DEF Signalled, Killed, PidReused, Runs, Running, LifeTypeOK, Fresh
<1> QED BY <1>1, <1>2, <1>3, <1>4 DEF LifeNext

-------------------------------------------------------------------------------
\* A command that waits for its turn, and for a daemon that leaves, finds all
\* other commands idle, and the daemon that lives at work and in the pid file.
LEMMA LookSeesAll ==
  ASSUME LifeConstants, LifeTypeOK, Orderly, NEW c \in Command,
         command[c] = "idle", Rush(c), ~rushed'
  PROVE  /\ ~rushed
         /\ \A other \in Command : command[other] = "idle"
         /\ \A d \in Running : main[d] = "loop" /\ pidfile = d /\ Lives(pidfile)
<1>1. /\ ~rushed /\ Leaving = {} /\ ~ \E d \in Daemon : main[d] = "claim"
      /\ \A other \in Command \ {c} : command[other] = "idle"
  BY DEF Rush
<1>2. \A other \in Command : command[other] = "idle"
  BY <1>1
<1>3. \A d \in Running : main[d] = "loop"
  BY <1>1 DEF LifeTypeOK, Running, Leaving
<1>4. \A d \in Running : pidfile = d
  BY <1>2, <1>3, Zenon DEF Orderly, PidKnown
<1> QED BY <1>1, <1>2, <1>3, <1>4 DEF Lives

\* Who is asked to end, and whose pid a program has, is not in the order.
LEMMA OrderStays ==
  ASSUME Orderly, pidfile' = pidfile, path' = path, main' = main, server' = server,
         command' = command, target' = target
  PROVE  Orderly'
<1>1. Running' = Running
  BY DEF Running
<1>2. OneAtATime' /\ CommandKnows'
  BY <1>1 DEF Orderly, OneAtATime, CommandKnows
<1>3. PidKnown' /\ PathKept'
  BY <1>1 DEF Orderly, PidKnown, PathKept
<1> QED BY <1>2, <1>3 DEF Orderly

LEMMA OrderlyStep ==
  ASSUME LifeConstants, LifeInv, [LifeNext]_life, ~rushed'
  PROVE  Orderly'
<1>0. LifeTypeOK /\ Fresh /\ (~rushed => Orderly)
  BY DEF LifeInv
<1>1. CASE UNCHANGED life
  BY <1>0, <1>1, OrderStays DEF life, files, daemons, commands
<1>2. ASSUME NEW c \in Command, CommandStep(c) PROVE Orderly'
  <2>1. CASE LookToStart(c)
    <3>1. ~rushed /\ Orderly /\ Rush(c) /\ command[c] = "idle"
      BY <1>0, <2>1 DEF LookToStart, Rush
    <3>2. Running' = Running /\ main' = main /\ server' = server /\ path' = path
      BY <2>1 DEF LookToStart, daemons, Running
    <3>3. /\ \A other \in Command \ {c} : command'[other] = "idle"
          /\ command'[c] \in {"idle", "launch"}
          /\ command'[c] = "launch" => Running = {}
          /\ \A d \in Running : main[d] = "loop" /\ pidfile' = d
      BY <1>0, <2>1, <3>1, LookSeesAll DEF LookToStart, Look, Goes, LifeTypeOK
    <3>4. OneAtATime' /\ CommandKnows' /\ PidKnown'
      BY <3>1, <3>2, <3>3 DEF Orderly, OneAtATime, CommandKnows, PidKnown
    <3>5. PathKept'
      BY <3>1, <3>2 DEF Orderly, PathKept
    <3> QED BY <3>4, <3>5 DEF Orderly
  <2>2. CASE WritePid(c)
    <3>1. Orderly
      BY <1>0, <2>2 DEF WritePid
    <3>2. Running' = Running /\ main' = main /\ server' = server /\ path' = path
      BY <2>2 DEF WritePid, daemons, Running
    <3>3. /\ \A other \in Command : command'[other] = "idle"
          /\ pidfile' = target[c] /\ Running \subseteq {target[c]}
      BY <1>0, <2>2, <3>1 DEF WritePid, Goes, LifeTypeOK, Orderly, OneAtATime, CommandKnows
    <3>4. OneAtATime' /\ CommandKnows' /\ PidKnown'
      BY <3>1, <3>2, <3>3 DEF Orderly, OneAtATime, CommandKnows, PidKnown
    <3>5. PathKept'
      BY <3>1, <3>2 DEF Orderly, PathKept
    <3> QED BY <3>4, <3>5 DEF Orderly
  <2>3. CASE LookToStop(c)
    <3>1. ~rushed /\ Orderly /\ Rush(c) /\ command[c] = "idle"
      BY <1>0, <2>3 DEF LookToStop, Rush
    <3>2. Running' = Running /\ main' = main /\ server' = server /\ path' = path
      BY <2>3 DEF LookToStop, daemons, Running
    <3>3. /\ \A other \in Command \ {c} : command'[other] = "idle"
          /\ command'[c] = "ask"
          /\ \A d \in Running : main[d] = "loop" /\ pidfile' = d /\ target'[c] = d
      BY <1>0, <2>3, <3>1, LookSeesAll DEF LookToStop, Look, Goes, Aims, LifeTypeOK
    <3>4. OneAtATime' /\ CommandKnows' /\ PidKnown'
      BY <3>1, <3>2, <3>3 DEF Orderly, OneAtATime, CommandKnows, PidKnown
    <3>5. PathKept'
      BY <3>1, <3>2 DEF Orderly, PathKept
    <3> QED BY <3>4, <3>5 DEF Orderly
  <2>4. CASE Ask(c)
    <3>1. Orderly /\ Lives(target[c])
      BY <1>0, <2>4 DEF Ask
    <3>2. Running' = Running /\ main' = main /\ server' = server /\ path' = path
          /\ pidfile' = pidfile
      BY <2>4 DEF Ask, files, Running
    <3>3. /\ command' = [command EXCEPT ![c] = "wait"]
          /\ target' = [target EXCEPT ![c] = target[c]]
          /\ command[c] = "ask"
      BY <2>4, <3>1 DEF Ask, Goes, Aims
    <3>4. /\ \A other \in Command \ {c} : command[other] = "idle" /\ command'[other] = "idle"
          /\ command'[c] = "wait" /\ target'[c] = target[c]
      BY <1>0, <3>1, <3>3 DEF LifeTypeOK, Orderly, OneAtATime
    <3>5. OneAtATime'
      BY <3>1, <3>2, <3>4 DEF Orderly, OneAtATime
    <3>6. CommandKnows'
      BY <3>1, <3>2, <3>3, <3>4 DEF Orderly, CommandKnows
    <3>7. PidKnown'
      BY <3>1, <3>2, <3>3, <3>4 DEF Orderly, PidKnown
    <3>8. PathKept'
      BY <3>1, <3>2 DEF Orderly, PathKept
    <3> QED BY <3>5, <3>6, <3>7, <3>8 DEF Orderly
  <2>5. CASE StopEnds(c)
    <3>1. Orderly /\ ~Lives(target[c]) /\ command[c] = "wait"
      BY <1>0, <2>5 DEF StopEnds
    <3>2. Running = {}
      BY <3>1 DEF Orderly, CommandKnows, Lives
    <3>3. Running' = {}
      BY <2>5, <3>2 DEF StopEnds, daemons, Running
    <3>4. command' = [command EXCEPT ![c] = "idle"]
      BY <2>5 DEF StopEnds, Goes
    <3>5. OneAtATime' /\ CommandKnows' /\ PidKnown' /\ PathKept'
      <4>1. \A other \in Command : command'[other] # "idle" => command'[other] = command[other]
        BY <1>0, <3>4 DEF LifeTypeOK
      <4>2. OneAtATime'
        BY <3>1, <3>3, <4>1 DEF Orderly, OneAtATime
      <4> QED BY <3>3, <4>2 DEF CommandKnows, PidKnown, PathKept
    <3> QED BY <3>5 DEF Orderly
  <2>6. ASSUME NEW d \in Daemon, Fork(c, d) PROVE Orderly'
    <3>1. Orderly /\ command[c] = "launch"
      BY <1>0, <2>6 DEF Fork
    <3>2. Running = {}
      BY <3>1 DEF Orderly, CommandKnows
    <3>3. Running' = {d} /\ main'[d] = "loop" /\ server'[d] = "start"
      BY <1>0, <2>6, <3>2 DEF Fork, Runs, LifeTypeOK, Fresh, Running
    <3>4. /\ command' = [command EXCEPT ![c] = "write pid"]
          /\ target' = [target EXCEPT ![c] = d]
      BY <2>6 DEF Fork, Goes, Aims
    <3>5. /\ \A other \in Command \ {c} : command'[other] = "idle"
          /\ command'[c] = "write pid" /\ target'[c] = d
      BY <1>0, <3>1, <3>4 DEF LifeTypeOK, Orderly, OneAtATime
    <3>6. OneAtATime' /\ CommandKnows'
      BY <3>3, <3>5 DEF OneAtATime, CommandKnows
    <3>7. PidKnown' /\ PathKept'
      BY <3>3, <3>5 DEF PidKnown, PathKept
    <3> QED BY <3>6, <3>7 DEF Orderly
  <2>7. ASSUME NEW d \in Daemon, RunInForeground(c, d) PROVE Orderly'
    <3>1. Orderly /\ command[c] = "launch"
      BY <1>0, <2>7 DEF RunInForeground
    <3>2. Running = {}
      BY <3>1 DEF Orderly, CommandKnows
    <3>3. Running' = {d} /\ main'[d] = "claim" /\ server'[d] = "start"
      BY <1>0, <2>7, <3>2 DEF RunInForeground, Runs, LifeTypeOK, Fresh, Running
    <3>4. \A other \in Command : command'[other] = "idle"
      BY <1>0, <2>7, <3>1 DEF RunInForeground, Goes, LifeTypeOK, Orderly, OneAtATime
    <3>5. OneAtATime' /\ CommandKnows' /\ PidKnown' /\ PathKept'
      BY <3>3, <3>4 DEF OneAtATime, CommandKnows, PidKnown, PathKept
    <3> QED BY <3>5 DEF Orderly
  <2> QED BY <1>2, <2>1, <2>2, <2>3, <2>4, <2>5, <2>6, <2>7 DEF CommandStep
<1>3. ASSUME NEW d \in Daemon,
             DaemonStep(d) \/ Signalled(d) \/ Killed(d) \/ PidReused(d)
      PROVE  Orderly'
  <2>0. ~rushed /\ Orderly /\ command' = command /\ target' = target
    <3>1. UNCHANGED <<commands, rushed>>
      BY <1>3, Zenon DEF DaemonStep, ClaimPid, UnlinkPath, Bind, LoopEnds, ClearPath, Leave,
                         Signalled, Killed, PidReused
    <3> QED BY <1>0, <3>1 DEF commands
  <2>1. CASE ClaimPid(d)
    <3>1. d \in Running /\ Running' = Running
      BY <1>0, <2>1 DEF ClaimPid, Runs, Running, LifeTypeOK
    <3>2. /\ pidfile' = d /\ path' = path /\ server' = server /\ server[d] = "start"
          /\ main' = [main EXCEPT ![d] = "loop"] /\ main[d] = "claim"
      BY <2>0, <2>1, <3>1 DEF ClaimPid, Runs, Orderly, PathKept
    <3>3. \A e \in Running : e = d
      BY <2>0, <3>1 DEF Orderly, OneAtATime
    <3> QED BY <1>0, <2>0, <3>1, <3>2, <3>3
            DEF LifeTypeOK, Orderly, OneAtATime, CommandKnows, PidKnown, PathKept
  <2>2. CASE UnlinkPath(d) \/ Bind(d)
    <3>1. d \in Running /\ Running' = Running /\ pidfile' = pidfile /\ main' = main
      BY <2>2 DEF UnlinkPath, Bind, Running
    <3>2. \A e \in Running : e = d
      BY <2>0, <3>1 DEF Orderly, OneAtATime
    <3>3. OneAtATime' /\ CommandKnows' /\ PidKnown'
      BY <2>0, <3>1 DEF Orderly, OneAtATime, CommandKnows, PidKnown
    <3>4. PathKept'
      BY <1>0, <2>0, <2>2, <3>1, <3>2 DEF UnlinkPath, Bind, LifeTypeOK, Orderly, PathKept
    <3> QED BY <3>3, <3>4 DEF Orderly
  <2>3. CASE LoopEnds(d) \/ ClearPath(d)
    <3>1. d \in Running /\ Running' = Running
      BY <1>0, <2>3 DEF LoopEnds, ClearPath, Runs, Running, LifeTypeOK
    <3>2. \A e \in Running : e = d
      BY <2>0, <3>1 DEF Orderly, OneAtATime
    <3>3. /\ server' = server /\ main[d] # "claim"
          /\ \/ main' = [main EXCEPT ![d] = "clear path"] /\ path' = path /\ main[d] = "loop"
             \/ main' = [main EXCEPT ![d] = "leave"] /\ path' = Nobody
      BY <2>3 DEF LoopEnds, ClearPath, Runs
    <3>4. main'[d] \in {"clear path", "leave"}
      BY <1>0, <3>3 DEF LifeTypeOK
    <3>5. OneAtATime' /\ CommandKnows' /\ PidKnown'
      BY <2>0, <3>1, <3>2, <3>4 DEF Orderly, OneAtATime, CommandKnows, PidKnown
    <3>6. PathKept'
      BY <1>0, <2>0, <3>1, <3>2, <3>3 DEF LifeTypeOK, Orderly, PathKept
    <3> QED BY <3>5, <3>6 DEF Orderly
  <2>4. CASE Leave(d) \/ Killed(d)
    <3>1. d \in Running /\ Running' = Running \ {d}
      BY <1>0, <2>4 DEF Leave, Killed, Runs, Running, LifeTypeOK
    <3>2. Running' = {}
      BY <2>0, <3>1 DEF Orderly, OneAtATime
    <3> QED BY <2>0, <3>2 DEF Orderly, OneAtATime, CommandKnows, PidKnown, PathKept
  <2>5. CASE Signalled(d) \/ PidReused(d)
    BY <2>0, <2>5, OrderStays DEF Signalled, PidReused, files
  <2> QED BY <1>3, <2>1, <2>2, <2>3, <2>4, <2>5 DEF DaemonStep
<1> QED BY <1>1, <1>2, <1>3 DEF LifeNext

-------------------------------------------------------------------------------
LEMMA LifeAlways == ASSUME LifeConstants PROVE LifeSpec => []LifeInv
<1>1. LifeInit => LifeInv
  BY LifeInitially
<1>2. LifeInv /\ [LifeNext]_life => LifeInv'
  BY TypedStep, FreshStep, OrderlyStep DEF LifeInv
<1> QED BY <1>1, <1>2, PTL DEF LifeSpec

\* Every variable of a daemon's life keeps its type.
THEOREM LifeTyped == ASSUME LifeConstants PROVE LifeSpec => []LifeTypeOK
<1>1. LifeInv => LifeTypeOK
  BY DEF LifeInv
<1> QED BY <1>1, LifeAlways, PTL

LEMMA OrderIsReach == ASSUME LifeConstants, LifeInv PROVE OneDaemonInReach
<1> SUFFICES ASSUME ~rushed PROVE /\ Cardinality(Running) <= 1
                                  /\ Quiet => \A d \in Running : pidfile = d /\ path = d
                                                                 /\ server[d] = "up"
  BY DEF OneDaemonInReach
<1>1. Orderly
  BY DEF LifeInv
<1>2. Cardinality(Running) <= 1
  <2>1. CASE Running = {}
    BY <2>1, FS_EmptySet
  <2>2. CASE Running # {}
    <3>1. PICK d \in Running : Running = {d}
      BY <1>1, <2>2 DEF Orderly, OneAtATime
    <3>2. Cardinality({d}) = 1
      BY FS_Singleton
    <3> QED BY <3>1, <3>2
  <2> QED BY <2>1, <2>2
<1>3. ASSUME Quiet, NEW d \in Running PROVE pidfile = d /\ path = d /\ server[d] = "up"
  <2>1. main[d] = "loop" /\ server[d] = "up"
    BY <1>1, <1>3 DEF Quiet, Orderly, PathKept
  <2>2. path = d
    BY <1>1, <2>1 DEF Orderly, PathKept
  <2>3. pidfile = d
    BY <1>1, <1>3, <2>1, Zenon DEF Quiet, Orderly, PidKnown
  <2> QED BY <2>1, <2>2, <2>3
<1> QED BY <1>2, <1>3

\* As long as commands take turns and let a daemon that leaves go, there is never
\* more than one daemon, and when all is quiet the pid file names it and the path
\* leads to it, whatever was killed and whoever has the pids of the dead
\* (lib/daemon.py _is_running, start, stop and _run_daemon).
THEOREM OneDaemonAtATime == ASSUME LifeConstants PROVE LifeSpec => []OneDaemonInReach
<1>1. LifeInv => OneDaemonInReach
  BY OrderIsReach
<1> QED BY <1>1, LifeAlways, PTL

-------------------------------------------------------------------------------
\* The control server.

Types ==
  /\ accepting \in Conn \cup {NoConn}
  /\ phase \in [Conn -> Phase]
  /\ free \in Nat
  /\ sent \in [Conn -> Arrived]
  /\ gone \subseteq Conn /\ handled \subseteq Conn
  /\ reply \in [Conn -> {"none", "busy", "error", "answer"}]
  /\ failures \in 0..MaxStartFailures

\* The kernel hands out every connection once: those in its queue are waiting
\* there, each in one place.
QueuedOnce ==
  /\ queue \in Seq(Conn)
  /\ \A i \in 1..Len(queue) : phase[queue[i]] = "queued"
  /\ \A i, j \in 1..Len(queue) : queue[i] = queue[j] => i = j

SlotsInv == Types /\ QueuedOnce /\ SlotsAccounted

\* What a worker has read, it has read: the client sent it all.
ReadInv ==
  \A c \in Conn :
    /\ (phase[c] = "handling" \/ c \in handled) /\ Tcp => sent[c] = "plain"
    /\ phase[c] = "replying" => reply[c] # "none"

-------------------------------------------------------------------------------
\* A connection that enters a phase moves the set of the busy ones, and their
\* number, by itself only.
LEMMA EnterCounts ==
  ASSUME ControlConstants, phase \in [Conn -> Phase], NEW c \in Conn, NEW ph \in Phase, Enter(c, ph)
  PROVE  /\ phase' \in [Conn -> Phase]
         /\ phase'[c] = ph
         /\ \A d \in Conn \ {c} : phase'[d] = phase[d]
         /\ Cardinality(Busy) \in Nat /\ Cardinality(Busy') \in Nat
         /\ ph \in Working /\ c \notin Busy => Cardinality(Busy') = Cardinality(Busy) + 1
         /\ ph \notin Working /\ c \in Busy => Cardinality(Busy') = Cardinality(Busy) - 1
         /\ (ph \in Working <=> c \in Busy) => Cardinality(Busy') = Cardinality(Busy)
<1>1. /\ phase' \in [Conn -> Phase]
      /\ phase'[c] = ph
      /\ \A d \in Conn \ {c} : phase'[d] = phase[d]
  BY DEF Enter
<1>2. IsFiniteSet(Busy)
  BY FS_Subset DEF ControlConstants, Busy
<1>3. Busy' = IF ph \in Working THEN Busy \cup {c} ELSE Busy \ {c}
  BY <1>1 DEF Busy
<1>4. /\ IsFiniteSet(Busy \cup {c})
      /\ Cardinality(Busy \cup {c}) = IF c \in Busy THEN Cardinality(Busy) ELSE Cardinality(Busy) + 1
  BY <1>2, FS_AddElement
<1>5. /\ IsFiniteSet(Busy \ {c})
      /\ Cardinality(Busy \ {c}) = IF c \in Busy THEN Cardinality(Busy) - 1 ELSE Cardinality(Busy)
  BY <1>2, FS_RemoveElement
<1>6. IsFiniteSet(Busy')
  BY <1>3, <1>4, <1>5
<1>7. Cardinality(Busy) \in Nat /\ Cardinality(Busy') \in Nat
  BY <1>2, <1>6, FS_CardinalityType
<1> QED BY <1>1, <1>3, <1>4, <1>5, <1>7

\* Leaving the queue alone, a connection that is not waiting in it may enter
\* any phase.
LEMMA QueueUntouched ==
  ASSUME Types, QueuedOnce, NEW c \in Conn, NEW ph, Enter(c, ph), phase[c] # "queued", queue' = queue
  PROVE  QueuedOnce'
<1>1. \A i \in 1..Len(queue) : queue[i] \in Conn /\ queue[i] # c
  BY DEF QueuedOnce
<1>2. \A d \in Conn \ {c} : phase'[d] = phase[d]
  BY DEF Enter, Types
<1> QED BY <1>1, <1>2 DEF QueuedOnce

-------------------------------------------------------------------------------
LEMMA SlotsInitially == ASSUME ControlConstants, Init PROVE SlotsInv
<1>1. Busy = {}
  BY DEF Init, Busy, Working
<1>2. Cardinality(Busy) = 0
  BY <1>1, FS_EmptySet
<1>3. SlotsAccounted
  BY <1>2 DEF SlotsAccounted, Init, ControlConstants
<1>4. QueuedOnce
  BY DEF Init, QueuedOnce
<1>5. Types
  BY DEF Init, Types, Phase, Arrived, ControlConstants
<1> QED BY <1>3, <1>4, <1>5 DEF SlotsInv

LEMMA SlotsStep == ASSUME ControlConstants, SlotsInv, [Next]_vars PROVE SlotsInv'
<1> USE DEF SlotsInv
<1>1. CASE UNCHANGED vars
  BY <1>1 DEF vars, client, Types, QueuedOnce, SlotsAccounted, Busy
<1>2. ASSUME NEW c \in Conn, Connect(c) PROVE SlotsInv'
  <2>1. Enter(c, "queued") /\ "queued" \in Phase /\ "queued" \notin Working /\ c \notin Busy
    BY <1>2 DEF Connect, Phase, Working, Busy
  <2>2. /\ phase' \in [Conn -> Phase] /\ phase'[c] = "queued"
        /\ \A d \in Conn \ {c} : phase'[d] = phase[d]
        /\ Cardinality(Busy') = Cardinality(Busy)
    BY <2>1, EnterCounts DEF Types
  <2>3. Types' /\ SlotsAccounted'
    BY <1>2, <2>2 DEF Connect, client, Types, SlotsAccounted
  <2>4. \A i \in 1..Len(queue) : queue[i] # c
    BY <1>2 DEF Connect, QueuedOnce
  <2>5. /\ queue' \in Seq(Conn) /\ Len(queue') = Len(queue) + 1
        /\ \A i \in 1..Len(queue') : queue'[i] = IF i <= Len(queue) THEN queue[i] ELSE c
    BY <1>2 DEF Connect, QueuedOnce
  <2>6. QueuedOnce'
    BY <2>2, <2>4, <2>5 DEF QueuedOnce
  <2> QED BY <2>3, <2>6
<1>3. ASSUME NEW c \in Conn, NEW more \in Arrived, Send(c, more) PROVE SlotsInv'
  BY <1>3 DEF Send, Types, QueuedOnce, SlotsAccounted, Busy
<1>4. ASSUME NEW c \in Conn, HangUp(c) PROVE SlotsInv'
  BY <1>4 DEF HangUp, Types, QueuedOnce, SlotsAccounted, Busy
<1>5. ASSUME Accept PROVE SlotsInv'
  <2> DEFINE c == Head(queue)
  <2>1. /\ Len(queue) \in Nat /\ Len(queue) >= 1 /\ c = queue[1] /\ c \in Conn
        /\ queue' \in Seq(Conn) /\ Len(queue') = Len(queue) - 1
        /\ \A i \in 1..Len(queue') : queue'[i] = queue[i + 1]
    BY <1>5 DEF Accept, QueuedOnce
  <2>2. phase[c] = "queued"
    BY <2>1 DEF QueuedOnce
  <2>3. Enter(c, "accepted") /\ "accepted" \in Phase /\ "accepted" \notin Working /\ c \notin Busy
    BY <1>5, <2>2 DEF Accept, Phase, Working, Busy
  <2>4. /\ phase' \in [Conn -> Phase]
        /\ \A d \in Conn \ {c} : phase'[d] = phase[d]
        /\ Cardinality(Busy') = Cardinality(Busy)
    BY <2>1, <2>3, EnterCounts DEF Types
  <2>5. Types' /\ SlotsAccounted'
    BY <1>5, <2>1, <2>4 DEF Accept, client, Types, SlotsAccounted
  <2>6. \A i \in 1..Len(queue') : i + 1 \in 1..Len(queue) /\ i + 1 # 1
    BY <2>1
  <2>7. \A i \in 1..Len(queue') : queue'[i] \in Conn \ {c} /\ phase[queue'[i]] = "queued"
    BY <2>1, <2>6 DEF QueuedOnce
  <2>8. \A i, j \in 1..Len(queue') : queue'[i] = queue'[j] => i = j
    BY <2>1, <2>6 DEF QueuedOnce
  <2>9. QueuedOnce'
    BY <2>1, <2>4, <2>7, <2>8 DEF QueuedOnce
  <2> QED BY <2>5, <2>9
<1>6. ASSUME TakeSlot PROVE SlotsInv'
  <2>1. accepting \in Conn /\ phase[accepting] = "accepted" /\ accepting \notin Busy
    BY <1>6 DEF TakeSlot, Types, Busy, Working
  <2>2. CASE free > 0 /\ free' = free - 1 /\ Enter(accepting, "starting")
    <3>1. "starting" \in Phase /\ "starting" \in Working
      BY DEF Phase, Working
    <3>2. phase' \in [Conn -> Phase] /\ Cardinality(Busy') = Cardinality(Busy) + 1
          /\ Cardinality(Busy) \in Nat
      BY <2>1, <2>2, <3>1, EnterCounts DEF Types
    <3>3. Types' /\ SlotsAccounted'
      BY <1>6, <2>2, <3>2 DEF TakeSlot, client, Types, SlotsAccounted, ControlConstants
    <3>4. QueuedOnce'
      BY <1>6, <2>1, <2>2, QueueUntouched DEF TakeSlot
    <3> QED BY <3>3, <3>4
  <2>3. CASE free = 0 /\ free' = free /\ Enter(accepting, "shedding")
    <3>1. "shedding" \in Phase /\ "shedding" \notin Working
      BY DEF Phase, Working
    <3>2. phase' \in [Conn -> Phase] /\ Cardinality(Busy') = Cardinality(Busy)
      BY <2>1, <2>3, <3>1, EnterCounts DEF Types
    <3>3. Types' /\ SlotsAccounted'
      BY <1>6, <2>3, <3>2 DEF TakeSlot, client, Types, SlotsAccounted
    <3>4. QueuedOnce'
      BY <1>6, <2>1, <2>3, QueueUntouched DEF TakeSlot
    <3> QED BY <3>3, <3>4
  <2> QED BY <1>6, <2>2, <2>3 DEF TakeSlot
<1>7. ASSUME Shed PROVE SlotsInv'
  <2>1. accepting \in Conn /\ Enter(accepting, "closed") /\ accepting \notin Busy
        /\ phase[accepting] = "shedding" /\ "closed" \in Phase /\ "closed" \notin Working
    BY <1>7 DEF Shed, Types, Busy, Working, Phase
  <2>2. phase' \in [Conn -> Phase] /\ Cardinality(Busy') = Cardinality(Busy)
    BY <2>1, EnterCounts DEF Types
  <2>3. Types' /\ SlotsAccounted'
    BY <1>7, <2>1, <2>2 DEF Shed, client, Types, SlotsAccounted
  <2> QED BY <1>7, <2>1, <2>3, QueueUntouched DEF Shed
<1>8. ASSUME StartWorker PROVE SlotsInv'
  <2>1. accepting \in Conn /\ Enter(accepting, "reading") /\ accepting \in Busy
        /\ phase[accepting] = "starting" /\ "reading" \in Phase /\ "reading" \in Working
    BY <1>8 DEF StartWorker, Types, Busy, Working, Phase
  <2>2. phase' \in [Conn -> Phase] /\ Cardinality(Busy') = Cardinality(Busy)
    BY <2>1, EnterCounts DEF Types
  <2>3. Types' /\ SlotsAccounted'
    BY <1>8, <2>1, <2>2 DEF StartWorker, client, Types, SlotsAccounted
  <2> QED BY <1>8, <2>1, <2>3, QueueUntouched DEF StartWorker
<1>9. ASSUME StartFails PROVE SlotsInv'
  <2>1. accepting \in Conn /\ Enter(accepting, "closed") /\ accepting \in Busy
        /\ phase[accepting] = "starting" /\ "closed" \in Phase /\ "closed" \notin Working
    BY <1>9 DEF StartFails, Types, Busy, Working, Phase
  <2>2. phase' \in [Conn -> Phase] /\ Cardinality(Busy') = Cardinality(Busy) - 1
        /\ Cardinality(Busy) \in Nat
    BY <2>1, EnterCounts DEF Types
  <2>3. Types' /\ SlotsAccounted'
    BY <1>9, <2>1, <2>2 DEF StartFails, client, Types, SlotsAccounted, ControlConstants
  <2> QED BY <1>9, <2>1, <2>3, QueueUntouched DEF StartFails
<1>10. ASSUME NEW c \in Conn, Worker(c) PROVE SlotsInv'
  <2>1. c \in Busy <=> phase[c] \in Working
    BY DEF Busy
  <2>2. /\ "handling" \in Phase \cap Working /\ "replying" \in Phase \cap Working
        /\ "closed" \in Phase \ Working /\ "queued" \notin Working
        /\ "reading" \in Working
    BY DEF Phase, Working
  <2>3. CASE Received(c) \/ Deadline(c) \/ Handle(c)
    <3>1. PICK ph \in {"handling", "replying"} : Enter(c, ph)
      BY <2>3 DEF Received, Deadline, Handle
    <3>2. c \in Busy /\ phase[c] # "queued" /\ ph \in Phase /\ ph \in Working
      BY <2>1, <2>2, <2>3 DEF Received, Deadline, Handle
    <3>3. phase' \in [Conn -> Phase] /\ Cardinality(Busy') = Cardinality(Busy)
      BY <3>1, <3>2, EnterCounts DEF Types
    <3>4. queue' = queue /\ free' = free /\ accepting' = accepting /\ sent' = sent
          /\ gone' = gone /\ failures' = failures
      BY <2>3 DEF Received, Deadline, Handle, client
    <3>5. reply' \in [Conn -> {"none", "busy", "error", "answer"}] /\ handled' \subseteq Conn
      BY <2>3 DEF Received, Deadline, Handle, Types
    <3>6. Types' /\ SlotsAccounted'
      BY <3>3, <3>4, <3>5 DEF Types, SlotsAccounted
    <3> QED BY <3>1, <3>2, <3>4, <3>6, QueueUntouched
  <2>4. CASE Finish(c)
    <3>1. c \in Busy /\ phase[c] # "queued" /\ Enter(c, "closed")
      BY <2>1, <2>2, <2>4 DEF Finish
    <3>2. phase' \in [Conn -> Phase] /\ Cardinality(Busy') = Cardinality(Busy) - 1
          /\ Cardinality(Busy) \in Nat
      BY <2>2, <3>1, EnterCounts DEF Types
    <3>3. Types' /\ SlotsAccounted'
      BY <2>4, <3>2 DEF Finish, client, Types, SlotsAccounted, ControlConstants
    <3> QED BY <2>4, <3>1, <3>3, QueueUntouched DEF Finish
  <2> QED BY <1>10, <2>3, <2>4 DEF Worker
<1> QED
  BY <1>1, <1>2, <1>3, <1>4, <1>5, <1>6, <1>7, <1>8, <1>9, <1>10 DEF Next, Acceptor, Client

\* The workers a server runs at a time never outnumber its slots, and whatever
\* clients and threads do, every slot comes back.
THEOREM EverySlotAccounted == Spec => []SlotsAccounted
<1>1. Init => SlotsInv
  BY ControlConstants, SlotsInitially
<1>2. SlotsInv /\ [Next]_vars => SlotsInv'
  BY ControlConstants, SlotsStep
<1>3. SlotsInv => SlotsAccounted
  BY DEF SlotsInv
<1> QED BY <1>1, <1>2, <1>3, PTL DEF Spec

\* No variable leaves its type: in particular the semaphore of slots is never
\* released above its value, which BoundedSemaphore would answer with an error.
THEOREM ControlTyped == Spec => []TypeOK
<1>1. ASSUME SlotsInv PROVE TypeOK
  <2>1. Cardinality(Busy) \in Nat
    <3>1. IsFiniteSet(Busy)
      BY ControlConstants, FS_Subset DEF Busy, ControlConstants
    <3> QED BY <3>1, FS_CardinalityType
  <2>2. free \in 0..Slots
    BY <1>1, <2>1, ControlConstants DEF SlotsInv, Types, SlotsAccounted, ControlConstants
  <2> QED BY <1>1, <2>2 DEF SlotsInv, Types, QueuedOnce, TypeOK
<1>2. Init => SlotsInv
  BY ControlConstants, SlotsInitially
<1>3. SlotsInv /\ [Next]_vars => SlotsInv'
  BY ControlConstants, SlotsStep
<1> QED BY <1>1, <1>2, <1>3, PTL DEF Spec

-------------------------------------------------------------------------------
LEMMA ReadStep == ASSUME ControlConstants, SlotsInv, ReadInv, [Next]_vars PROVE ReadInv'
<1> USE DEF SlotsInv
<1>1. CASE UNCHANGED vars
  BY <1>1 DEF vars, client, ReadInv
<1>2. ASSUME NEW c \in Conn, Connect(c) PROVE ReadInv'
  BY <1>2 DEF Connect, client, Enter, Types, ReadInv
<1>3. ASSUME NEW c \in Conn, NEW more \in Arrived, Send(c, more) PROVE ReadInv'
  BY <1>3 DEF Send, Types, ReadInv
<1>4. ASSUME NEW c \in Conn, HangUp(c) PROVE ReadInv'
  BY <1>4 DEF HangUp, ReadInv
<1>5. ASSUME Accept PROVE ReadInv'
  BY <1>5 DEF Accept, QueuedOnce, client, Enter, Types, ReadInv
<1>6. ASSUME TakeSlot PROVE ReadInv'
  BY <1>6 DEF TakeSlot, client, Enter, Types, ReadInv
<1>7. ASSUME Shed PROVE ReadInv'
  BY <1>7 DEF Shed, client, Enter, Types, ReadInv
<1>8. ASSUME StartWorker PROVE ReadInv'
  BY <1>8 DEF StartWorker, client, Enter, Types, ReadInv
<1>9. ASSUME StartFails PROVE ReadInv'
  BY <1>9 DEF StartFails, client, Enter, Types, ReadInv
<1>10. ASSUME NEW c \in Conn, Worker(c) PROVE ReadInv'
  <2>1. CASE Received(c)
    <3>1. CASE Accepted(c)
      <4>1. Tcp => sent[c] = "plain"
        BY <3>1, ControlConstants DEF Accepted, Allowed, Request, ControlConstants
      <4> QED BY <2>1, <3>1, <4>1 DEF Received, client, Enter, Types, ReadInv
    <3>2. CASE ~Accepted(c)
      BY <2>1, <3>2 DEF Received, client, Enter, Types, ReadInv
    <3> QED BY <3>1, <3>2
  <2>2. CASE Deadline(c)
    BY <2>2 DEF Deadline, client, Enter, Types, ReadInv
  <2>3. CASE Handle(c)
    BY <2>3 DEF Handle, client, Enter, Types, ReadInv
  <2>4. CASE Finish(c)
    BY <2>4 DEF Finish, client, Enter, Types, ReadInv
  <2> QED BY <1>10, <2>1, <2>2, <2>3, <2>4 DEF Worker
<1> QED
  BY <1>1, <1>2, <1>3, <1>4, <1>5, <1>6, <1>7, <1>8, <1>9, <1>10 DEF Next, Acceptor, Client

\* Over TCP nothing reaches the handler without the token, and no command that
\* needs to know who calls, whatever the connections do meanwhile.
THEOREM OnlyAllowedRequestsHandled == Spec => []HandledWasAllowed
<1>1. Init => SlotsInv /\ ReadInv
  BY ControlConstants, SlotsInitially DEF Init, ReadInv
<1>2. SlotsInv /\ ReadInv /\ [Next]_vars => SlotsInv' /\ ReadInv'
  BY ControlConstants, SlotsStep, ReadStep
<1>3. SlotsInv /\ ReadInv => HandledWasAllowed
  BY DEF SlotsInv, Types, ReadInv, HandledWasAllowed
<1> QED BY <1>1, <1>2, <1>3, PTL DEF Spec

LEMMA AnswerStep ==
  ASSUME ControlConstants, SlotsInv, ReadInv, WaitingClientsAnswered, [Next]_vars
  PROVE  WaitingClientsAnswered'
<1> USE DEF SlotsInv
<1>1. CASE UNCHANGED vars
  BY <1>1 DEF vars, client, WaitingClientsAnswered
<1>2. ASSUME NEW c \in Conn, Connect(c) PROVE WaitingClientsAnswered'
  BY <1>2 DEF Connect, client, Enter, Types, WaitingClientsAnswered
<1>3. ASSUME NEW c \in Conn, NEW more \in Arrived, Send(c, more) PROVE WaitingClientsAnswered'
  BY <1>3 DEF Send, WaitingClientsAnswered
<1>4. ASSUME NEW c \in Conn, HangUp(c) PROVE WaitingClientsAnswered'
  BY <1>4 DEF HangUp, WaitingClientsAnswered
<1>5. ASSUME Accept PROVE WaitingClientsAnswered'
  BY <1>5 DEF Accept, QueuedOnce, client, Enter, Types, WaitingClientsAnswered
<1>6. ASSUME TakeSlot PROVE WaitingClientsAnswered'
  BY <1>6 DEF TakeSlot, client, Enter, Types, WaitingClientsAnswered
<1>7. ASSUME Shed PROVE WaitingClientsAnswered'
  BY <1>7 DEF Shed, client, Enter, Types, WaitingClientsAnswered
<1>8. ASSUME StartWorker PROVE WaitingClientsAnswered'
  BY <1>8 DEF StartWorker, client, Enter, Types, WaitingClientsAnswered
<1>9. ASSUME StartFails PROVE WaitingClientsAnswered'
  BY <1>9 DEF StartFails, Types, WaitingClientsAnswered
<1>10. ASSUME NEW c \in Conn, Received(c) \/ Deadline(c) \/ Handle(c) PROVE WaitingClientsAnswered'
  BY <1>10 DEF Received, Deadline, Handle, client, Enter, Types, WaitingClientsAnswered
<1>11. ASSUME NEW c \in Conn, Finish(c) PROVE WaitingClientsAnswered'
  BY <1>11 DEF Finish, client, Enter, Types, ReadInv, WaitingClientsAnswered
<1> QED
  BY <1>1, <1>2, <1>3, <1>4, <1>5, <1>6, <1>7, <1>8, <1>9, <1>10, <1>11
  DEF Next, Acceptor, Client, Worker

\* A client that waits is answered before its connection is closed, busy or
\* not, unless a thread could not be started.
THEOREM WaitersAnswered == Spec => []WaitingClientsAnswered
<1>1. Init => SlotsInv /\ ReadInv /\ WaitingClientsAnswered
  BY ControlConstants, SlotsInitially DEF Init, ReadInv, WaitingClientsAnswered
<1>2. SlotsInv /\ ReadInv /\ WaitingClientsAnswered /\ [Next]_vars
        => SlotsInv' /\ ReadInv' /\ WaitingClientsAnswered'
  BY ControlConstants, SlotsStep, ReadStep, AnswerStep
<1> QED BY <1>1, <1>2, PTL DEF Spec
===============================================================================
