---------------------------- MODULE DaemonSessions ----------------------------
(***************************************************************************)
(* The session claims of the daemon (lib/daemon.py): a session-start makes *)
(* a claim that names the calling process and its parent, a session-end    *)
(* takes one claim away, and claims whose processes are all dead are       *)
(* pruned. The claims keep the daemon from unloading the model. Processes  *)
(* are born, die, leave children behind and hand their pid on. A program   *)
(* ends its session from whatever process it likes, with or without the    *)
(* claim id it was given, again when it got no answer, and even if it has  *)
(* not begun one: the launcher (bin/cortexagent) sends nothing but a       *)
(* session-end without a claim id, from a process of its own.              *)
(***************************************************************************)
EXTENDS Integers, FiniteSets

CONSTANTS
  Pid,                 \* process ids above 1
  NoPid,               \* no process: init, or a caller the kernel cannot name
  Anon,                \* claim ids of callers without a pid, each used once
  NoSid,               \* no claim id
  Program,             \* the programs that have sessions
  MaxUnclear           \* a bound on unclear

ASSUME SessionConstants ==
  /\ NoPid \notin Pid /\ Anon \cap (Pid \cup {NoPid}) = {}
  /\ NoSid \notin Pid \cup Anon
  /\ IsFiniteSet(Program)
  /\ MaxUnclear \in Nat

VARIABLES
  alive,               \* the living processes
  parent,              \* the parent of each, as /proc tells it now
  claims,              \* _claims: the pids of every claim, and whose session it was made for
  older,               \* the order of their ts
  answering,           \* the number of session-starts that have yet to count
  used,                \* the anonymous claim ids handed out
  open,                \* those that have a session
  given,               \* the claim id each was given last
  family,              \* the living processes of the session of each
  unclear              \* the requests that did not tell whose claim they were about

processes == <<alive, parent>>
table == <<claims, older>>
programs == <<open, given, family, unclear>>
sessionVars == <<processes, table, answering, used, programs>>

\* "pid:<anchor>", or "anon:<time>".
Key == Pid \cup Anon

\* _pid_alive, of any of the pids of a claim; a claim without pids is kept.
Kept(key) == claims[key].pids = {} \/ claims[key].pids \cap alive # {}

Live_AnyProcess == {key \in DOMAIN claims : claims[key].pids # {} => claims[key].pids \cap Pid # {}} \* mutated form

\* What _prune_claims_locked leaves.
Live == {key \in DOMAIN claims : Kept(key)}

\* The claims are reduced to these.
Keep(keys) ==
  /\ claims' = [key \in keys |-> claims[key]]
  /\ older' = older \cap (keys \X keys)

Chain_KeepsInit(p) == {p, parent[p]}                     \* mutated form

\* _claim_pids: the caller and, while it runs, its parent.
Chain(p) == {p, IF p \in alive THEN parent[p] ELSE NoPid} \ {NoPid}

SessionsInit ==
  /\ alive = {}
  /\ parent = [p \in Pid |-> NoPid]
  /\ claims = [key \in {} |-> {}] /\ older = {}
  /\ answering = 0
  /\ used = {}
  /\ open = {} /\ given = [c \in Program |-> NoSid] /\ family = [c \in Program |-> {}]
  /\ unclear = 0

-------------------------------------------------------------------------------
\* Processes.

Born(p, q) ==
  /\ p \notin alive
  /\ q \in (alive \cup {NoPid}) \ {p}
  /\ alive' = alive \cup {p}
  /\ parent' = [parent EXCEPT ![p] = q]
  /\ UNCHANGED <<table, answering, used, programs>>

\* Orphans go to init. A session is over with the last of its processes.
Dies(p) ==
  /\ p \in alive
  /\ alive' = alive \ {p}
  /\ parent' = [q \in Pid |-> IF parent[q] = p \/ q = p THEN NoPid ELSE parent[q]]
  /\ family' = [c \in Program |-> family[c] \ {p}]
  /\ open' = {c \in open : family[c] # {p}}
  /\ UNCHANGED <<table, answering, used, given, unclear>>

-------------------------------------------------------------------------------
\* The handler; each step holds the lock.

\* The program has a session, and the claim that was made for it.
Holds(c) == c \in open /\ given[c] \in DOMAIN claims /\ claims[given[c]].by = c

\* One more request may have been about the claim of another session than it took.
Doubted(doubt) ==
  /\ unclear' = unclear + IF doubt THEN 1 ELSE 0
  /\ unclear' <= MaxUnclear

\* A claim that is there already is made anew, with the time of now; it may be that of
\* another session, whose process had the same pid.
Claimed(c, key, pids) ==
  /\ claims' = [k \in DOMAIN claims \cup {key} |->
                  IF k = key THEN [pids |-> pids, by |-> c] ELSE claims[k]]
  /\ older' = {pair \in older : key \notin {pair[1], pair[2]}}
                \cup ((DOMAIN claims \ {key}) \X {key})
  /\ open' = open \cup {c}
  /\ given' = [given EXCEPT ![c] = key]
  /\ family' = [family EXCEPT ![c] = pids]
  /\ Doubted(\E d \in Program \ {c} : Holds(d) /\ given[d] = key)
  /\ answering < 1 /\ answering' = answering + 1
  /\ UNCHANGED processes

SessionStart(c, p) ==
  /\ p \in alive
  /\ Claimed(c, p, Chain(p))
  /\ UNCHANGED used

SessionStartAnon(c, a) ==
  /\ a \notin used
  /\ Claimed(c, a, {})
  /\ used' = used \cup {a}

\* The answer to a session-start counts the live sessions.
LiveSessions ==
  /\ answering > 0
  /\ answering' = answering - 1
  /\ Keep(Live)
  /\ UNCHANGED <<processes, used, programs>>

\* The claims of the caller's own chain.
Mine(p) == {key \in Live : claims[key].pids \cap Chain(p) # {}}

Oldest(keys) == {key \in keys : \A other \in keys \ {key} : <<key, other>> \in older}

Drop_IgnoresSid(p, sid) == Oldest(IF Mine(p) # {} THEN Mine(p) ELSE Live) \* mutated form

\* Which claim a session-end takes: the one it names, else the oldest one of
\* the caller's chain, else the oldest of all.
Drop(p, sid) ==
  IF sid \in Live THEN {sid} ELSE Oldest(IF Mine(p) # {} THEN Mine(p) ELSE Live)

\* A program ends its session, with or without the claim id, which may be for the second
\* time or without ever having begun one; p is the process that calls for it, perhaps
\* dead by now. It is clear whose claim is meant if the program has a session, and its
\* claim is named or the only one of the caller's chain, or taken already.
SessionEnd(c, p, sid) ==
  /\ sid \in {NoSid, given[c]}
  /\ Keep(Live \ Drop(p, sid))
  /\ open' = open \ {c}
  /\ family' = [family EXCEPT ![c] = {}]
  /\ Doubted(c \notin open \/ (Holds(c) /\ sid # given[c] /\ Mine(p) # {given[c]}))
  /\ UNCHANGED <<processes, answering, used, given>>

\* Whoever sends it takes all sessions for over; the one who did (overseer.py,
\* _watchdog_cortexagent) is retired.
SessionReset ==
  /\ Keep({}) /\ open' = {} /\ family' = [c \in Program |-> {}]
  /\ UNCHANGED <<processes, answering, used, given, unclear>>

-------------------------------------------------------------------------------
\* One round of _claim_pruner.
Prune ==
  /\ Keep(Live)
  /\ UNCHANGED <<processes, answering, used, programs>>

SessionsNext ==
  \/ \E p \in Pid : Dies(p) \/ \E q \in Pid \cup {NoPid} : Born(p, q)
  \/ \E c \in Program :
       \/ \E p \in Pid : SessionStart(c, p)
       \/ \E a \in Anon : SessionStartAnon(c, a)
       \/ \E p \in Pid \cup {NoPid}, sid \in Key \cup {NoSid} : SessionEnd(c, p, sid)
  \/ LiveSessions
  \/ SessionReset
  \/ Prune

SessionsSpec == SessionsInit /\ [][SessionsNext]_sessionVars

\* The pruner's loop goes on as long as the daemon runs.
FairSessions == SessionsSpec /\ WF_sessionVars(Prune)

-------------------------------------------------------------------------------
SessionsTypeOK ==
  /\ alive \subseteq Pid /\ parent \in [Pid -> Pid \cup {NoPid}]
  /\ DOMAIN claims \subseteq Key /\ claims \in [DOMAIN claims -> [pids : SUBSET Pid, by : Program]]
  /\ older \subseteq (DOMAIN claims) \X (DOMAIN claims)
  /\ answering \in 0..1
  /\ used \subseteq Anon /\ open \subseteq Program
  /\ given \in [Program -> Key \cup {NoSid}] /\ family \in [Program -> SUBSET Pid]
  /\ unclear \in 0..MaxUnclear

\* "overlapping sessions must not pop each other's claims": whatever sessions start and
\* end, whichever processes share a parent and whichever pids come back, the open
\* sessions without their claim are no more than the requests so far that did not tell
\* whose claim they were about. Those are what it takes, and each costs one session at
\* most, though the next end may pass the loss on.
OpenSessionsClaimed == Cardinality({c \in open : ~Holds(c)}) <= unclear

\* Claims all of whose processes are dead do not keep the model for ever: again
\* and again there are none of them, though sessions go on dying.
DeadClaimsPruned == []<>(\A key \in DOMAIN claims : Kept(key))

\* "session-end can then target that exact claim instead of the oldest one": a
\* session-end that names a claim takes no other.
SidEndsExactClaim ==
  [][\A c \in Program, p \in Pid \cup {NoPid}, sid \in Key :
       SessionEnd(c, p, sid) => Live \ DOMAIN claims' \subseteq {sid}]_sessionVars
===============================================================================
