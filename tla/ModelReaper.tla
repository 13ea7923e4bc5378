----------------------------- MODULE ModelReaper ------------------------------
(***************************************************************************)
(* The thread of the daemon that stops the model server when it has been   *)
(* idle (lib/daemon.py, _model_reaper), beside the sessions' claims. One   *)
(* round looks, one after the other, at the claims, for the terminal       *)
(* interface and for a request in work; when all rounds of the idle time   *)
(* found nothing it looks again, though not at the claims, and stops the   *)
(* model.                                                                  *)
(***************************************************************************)
EXTENDS DaemonSessions

VARIABLES
  round,               \* where the reaper is in its round
  idle,                \* idle_since: whether the rounds so far found nothing
  model,               \* the llama-server: up, told to end, or not there
  tui,                 \* whether the terminal interface runs
  busy,                \* whether the server's log ends within a request
  unseen               \* the programs whose open session began since the round's look at the claims

reaper == <<round, idle, model, tui, busy, unseen>>

ReaperInit ==
  /\ SessionsInit
  /\ round = "asleep" /\ idle = FALSE
  /\ model = "down" /\ tui = FALSE /\ busy = FALSE
  /\ unseen = {}

Ends == round' = "asleep" /\ idle' = FALSE

-------------------------------------------------------------------------------
\* A round, with idle_unload_sec above zero.

LookAtClaims_OnceIdle ==                                 \* mutated form
  /\ round = "asleep"
  /\ Keep(Live)
  /\ IF Live = {} \/ idle THEN round' = "tui" /\ UNCHANGED idle ELSE Ends
  /\ unseen' = {}
  /\ UNCHANGED <<processes, answering, used, programs, model, tui, busy>>

\* _live_sessions prunes.
LookAtClaims ==
  /\ round = "asleep"
  /\ Keep(Live)
  /\ IF Live = {} THEN round' = "tui" /\ UNCHANGED idle ELSE Ends
  /\ unseen' = {}
  /\ UNCHANGED <<processes, answering, used, programs, model, tui, busy>>

\* Each of the checks, twice in a round that stops the model.
LookForTui ==
  /\ round \in {"tui", "tui again"}
  /\ IF tui THEN Ends
     ELSE round' = (IF round = "tui" THEN "slot" ELSE "slot again") /\ UNCHANGED idle
  /\ UNCHANGED <<sessionVars, model, tui, busy, unseen>>

LookAtSlot ==
  /\ round \in {"slot", "slot again"}
  /\ IF busy THEN Ends
     ELSE round' = (IF round = "slot" THEN "model" ELSE "stop") /\ UNCHANGED idle
  /\ UNCHANGED <<sessionVars, model, tui, busy, unseen>>

\* No server, the first idle round, or not idle for long enough.
LookForModel ==
  /\ round = "model"
  /\ round' = "asleep" /\ idle' = (model # "down")
  /\ UNCHANGED <<sessionVars, model, tui, busy, unseen>>

IdleForLong ==
  /\ round = "model" /\ model # "down" /\ idle
  /\ round' = "tui again" /\ UNCHANGED idle
  /\ UNCHANGED <<sessionVars, model, tui, busy, unseen>>

StopModel ==
  /\ round = "stop"
  /\ model' = IF model = "down" THEN "down" ELSE "stopping"
  /\ round' = "wait" /\ UNCHANGED idle
  /\ UNCHANGED <<sessionVars, tui, busy, unseen>>

Waited_NoKill ==                                         \* mutated form
  /\ round = "wait"
  /\ Ends
  /\ UNCHANGED <<sessionVars, model, tui, busy, unseen>>

\* The server is gone; or fifteen seconds are over, and it is killed unless a
\* request is in work. One that was started meanwhile has another pid.
Waited ==
  /\ round = "wait"
  /\ model' = IF model = "stopping" /\ ~busy THEN "down" ELSE model
  /\ Ends
  /\ UNCHANGED <<sessionVars, tui, busy, unseen>>

\* pgrep cannot be run or takes too long, which nothing catches here: the thread ends.
WaitFails ==
  /\ round = "wait" /\ round' = "ended" /\ UNCHANGED idle
  /\ UNCHANGED <<sessionVars, model, tui, busy, unseen>>

-------------------------------------------------------------------------------
\* The rest of the machine.

ModelStarts ==
  /\ model = "down" /\ model' = "up"
  /\ UNCHANGED <<sessionVars, round, idle, tui, busy, unseen>>

\* It was told to, or it crashes; the log does not say so.
ModelEnds ==
  /\ model # "down" /\ model' = "down"
  /\ UNCHANGED <<sessionVars, round, idle, tui, busy, unseen>>

TuiStartsOrEnds ==
  /\ tui' = ~tui
  /\ UNCHANGED <<sessionVars, round, idle, model, busy, unseen>>

RequestBegins ==
  /\ model = "up" /\ ~busy /\ busy' = TRUE
  /\ UNCHANGED <<sessionVars, round, idle, model, tui, unseen>>

RequestEnds ==
  /\ model # "down" /\ busy /\ busy' = FALSE
  /\ UNCHANGED <<sessionVars, round, idle, model, tui, unseen>>

\* The claims change as in DaemonSessions.
ClaimsMove ==
  /\ SessionsNext
  /\ unseen' = (unseen \cup (open' \ open)) \cap open'
  /\ UNCHANGED <<round, idle, model, tui, busy>>

Round ==
  LookAtClaims \/ LookForTui \/ LookAtSlot \/ LookForModel \/ IdleForLong \/ StopModel \/ Waited

ReaperNext ==
  \/ Round \/ WaitFails \/ ClaimsMove
  \/ ModelStarts \/ ModelEnds \/ TuiStartsOrEnds \/ RequestBegins \/ RequestEnds

\* The reaper's thread runs on, and an idle model has been idle for
\* long enough in some round.
ReaperSpec ==
  /\ ReaperInit /\ [][ReaperNext]_<<sessionVars, reaper>>
  /\ WF_<<sessionVars, reaper>>(Round)
  /\ SF_<<sessionVars, reaper>>(IdleForLong)

-------------------------------------------------------------------------------
ReaperTypeOK ==
  /\ round \in {"asleep", "tui", "slot", "model", "tui again", "slot again", "stop", "wait", "ended"}
  /\ idle \in BOOLEAN /\ model \in {"up", "stopping", "down"}
  /\ tui \in BOOLEAN /\ busy \in BOOLEAN
  /\ unseen \subseteq open

\* _model_reaper: when a model is told to end, the sessions that are open by then began
\* after the round had looked at the claims, but for as many as requests that did not
\* tell whose claim they were about.
SeenSessionsKeepTheModel ==
  [][model = "up" /\ model' = "stopping" => Cardinality(open \ unseen) <= unclear]_<<sessionVars, reaper>>

\* "Idle reaper": a model that nobody claims and nobody uses does not stay, unless the
\* reaper's thread has ended.
IdleModelStopped ==
  <>[](Live = {} /\ ~tui /\ ~busy) => []<>(model = "down" \/ round = "ended")
===============================================================================
