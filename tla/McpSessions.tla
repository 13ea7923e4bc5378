------------------------------ MODULE McpSessions ------------------------------
(***************************************************************************)
(* The client's sessions with one server (lib/mcp_client.py). A session is *)
(* kept under the server's name and used by all threads; it is opened when *)
(* there is none, on a loop of its own, and a call that fails drops what   *)
(* is kept under the name. The server may be one of the proxies. Two       *)
(* threads that make the loop at once make two; what that comes to is a    *)
(* call that fails and a session that cannot be closed, as there are here. *)
(***************************************************************************)
EXTENDS StdioProxy

CONSTANTS
  Caller,              \* threads of the program
  NoSession,
  MaxSessions          \* bound on sessions that are opened

ASSUME ClientConstants == NoSession \notin 1..MaxSessions

Session == 1..MaxSessions

VARIABLES
  kept,                \* the session under the server's name
  link,                \* how every session stands
  at, own,             \* what a caller does, and with which session
  errand,              \* whether it calls a tool or lists the tools
  missed               \* sessions a call has given up on

clientVars == <<kept, link, at, own, errand, missed>>

ClientInit ==
  /\ kept = NoSession /\ link = [s \in Session |-> "unmade"]
  /\ at = [c \in Caller |-> "idle"] /\ own = [c \in Caller |-> NoSession]
  /\ errand = [c \in Caller |-> "call"] /\ missed = {}

Unmade == {s \in Session : link[s] = "unmade"}
NextOne == CHOOSE s \in Unmade : \A u \in Unmade : s <= u

-------------------------------------------------------------------------------
\* _get_session looks under the name, and else asks the loop for a connection.

Begin(c) ==
  /\ at[c] = "idle" /\ \E j \in {"call", "list"} : errand' = [errand EXCEPT ![c] = j]
  /\ \/ /\ kept # NoSession /\ at' = [at EXCEPT ![c] = "taking"] /\ UNCHANGED <<link, own>>
     \/ /\ kept = NoSession /\ Unmade # {} /\ own' = [own EXCEPT ![c] = NextOne]
        /\ link' = [link EXCEPT ![NextOne] = "connecting"]
        /\ at' = [at EXCEPT ![c] = "connecting"]
  /\ UNCHANGED <<kept, missed>>

Ends(c) == at' = [at EXCEPT ![c] = "idle"] /\ own' = [own EXCEPT ![c] = NoSession] /\ UNCHANGED errand

\* What it found may be dropped before it is taken: then the call fails.
Take(c) ==
  /\ at[c] = "taking"
  /\ IF kept # NoSession
     THEN own' = [own EXCEPT ![c] = kept] /\ at' = [at EXCEPT ![c] = "calling"] /\ UNCHANGED errand
     ELSE IF errand[c] = "call" THEN at' = [at EXCEPT ![c] = "failing"] /\ UNCHANGED <<own, errand>>
     ELSE Ends(c)
  /\ UNCHANGED <<kept, link, missed>>

\* The loop ends the handshake, also when nobody waits for it any more.
Connected(s) ==
  /\ link[s] = "connecting"
  /\ \E l \in {"open", "failed"} : link' = [link EXCEPT ![s] = l]
  /\ UNCHANGED <<kept, at, own, errand, missed>>

\* Another caller may have put a session there in the meantime.
KeepSession(c) ==
  /\ at[c] = "connecting" /\ link[own[c]] = "open"
  /\ kept' = own[c] /\ at' = [at EXCEPT ![c] = "calling"]
  /\ UNCHANGED <<link, own, errand, missed>>

\* The session under the name, whichever it is; its processes may survive it.
DropSession ==
  /\ kept' = NoSession
  /\ IF kept = NoSession THEN UNCHANGED link
     ELSE \E l \in {"closed", "open"} : link' = [link EXCEPT ![kept] = l]

\* The call that found nothing to take: by now another may be kept.
DropOther(c) == at[c] = "failing" /\ DropSession /\ Ends(c) /\ UNCHANGED missed

\* The connection fails, or takes longer than 45 seconds: the connection goes on.
GiveUpConnecting(c) ==
  /\ at[c] = "connecting" /\ link[own[c]] \in {"connecting", "failed"}
  /\ IF errand[c] = "call" THEN DropSession ELSE UNCHANGED <<kept, link>>
  /\ Ends(c) /\ UNCHANGED missed

Answered(c) ==
  /\ at[c] = "calling" /\ link[own[c]] = "open"
  /\ Ends(c) /\ UNCHANGED <<kept, link, missed>>

\* The answer is an exception or does not come within 120 seconds.
GiveUp(c) ==
  /\ at[c] = "calling" /\ errand[c] = "call" /\ missed' = missed \cup {own[c]}
  /\ DropSession /\ Ends(c)

\* A list that fails leaves everything as it is.
GiveUpListing(c) ==
  /\ at[c] = "calling" /\ errand[c] = "list"
  /\ Ends(c) /\ UNCHANGED <<kept, link, missed>>

\* close_all: what is kept is closed on the loop, and may be taken meanwhile.
CloseAll ==
  /\ kept # NoSession /\ link' = [link EXCEPT ![kept] = "closed"]
  /\ UNCHANGED <<kept, at, own, errand, missed>>

\* Then, and after ten seconds at any rate, whatever is kept is forgotten.
ForgetAll ==
  /\ kept # NoSession /\ kept' = NoSession /\ UNCHANGED <<link, at, own, errand, missed>>

-------------------------------------------------------------------------------
ClientNext ==
  \/ \E c \in Caller : Begin(c) \/ Take(c) \/ KeepSession(c) \/ DropOther(c) \/ GiveUpConnecting(c)
                       \/ Answered(c) \/ GiveUp(c) \/ GiveUpListing(c)
  \/ \E s \in Session : Connected(s)
  \/ CloseAll \/ ForgetAll

ClientSpec == ClientInit /\ [][ClientNext]_clientVars

-------------------------------------------------------------------------------
ClientTypeOK ==
  /\ kept \in Session \cup {NoSession} /\ missed \subseteq Session
  /\ link \in [Session -> {"unmade", "connecting", "open", "failed", "closed"}]
  /\ at \in [Caller -> {"idle", "taking", "failing", "connecting", "calling"}]
  /\ own \in [Caller -> Session \cup {NoSession}] /\ errand \in [Caller -> {"call", "list"}]

\* A session a call has given up on, whose answer may still come, is never handed
\* out again, though callers open sessions side by side and drop them by the name;
\* and what is kept has been opened.
MissedIsForgotten == kept \notin missed /\ (kept # NoSession => link[kept] \in {"open", "closed"})

\* What comes back to a caller is the answer to its call, through the session and the
\* proxy behind it, and nothing that a call has begun is left over.
CallsRelayedTruly == RelayedTruly /\ ChildrenEnd /\ MissedIsForgotten
===============================================================================
