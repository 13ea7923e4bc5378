-------------------------------- MODULE MCParts -------------------------------
(***************************************************************************)
(* Parts of which only safety is checked. They share no state, and the run *)
(* has them one at a time: the claims of two processes and a nameless      *)
(* caller; the daemon's life with two terminals; the overseer's queue with *)
(* a worker or a command line process beside the tick; its copy of the hot *)
(* memory; two distillers.                                                 *)
(***************************************************************************)
EXTENDS DaemonSessions, DaemonLife, OverseerQueue, McpSessions, TLC

CONSTANTS Width, MaxTorn,
          Facts, Distiller, Cap, MaxRuns,
          Reader, Window, Extra, Limits, MaxRows, MaxHalves, MaxNotes, MaxReads,
          Alert, FromCve, WithAddress, Shown, Many, MaxCommands,
          IdleReaper, Tab, FirstTab, MaxDrivers, MaxUses

VARIABLES
  part,                \* which of them runs
  hot, warm, written, cleared, measured, gap, torn,
  rows, pc, seen, saved, unsorted, cold, runs, upsets,
  hotfile, lastRow, halves, notes, serving, look, reads, answers,
  stores, odd, cards, dismissed, summary, failed, orders, state, readState, applied, refused, told,
  tabs, driver, started, line, ended, wedged, lastUse, lock, doing, use, page, list, cache, closed,
  crossed, uses

Warm == INSTANCE WarmCopy WITH rows <- written
Cold == INSTANCE ColdDistiller WITH todo <- unsorted
Files == INSTANCE MemoryFiles WITH file <- hotfile, written <- lastRow, torn <- halves, MaxTorn <- MaxHalves
Desk == INSTANCE SecurityDesk WITH copy <- readState, commands <- orders
Browser == INSTANCE BrowserLane
           WITH link <- line, used <- lastUse, at <- doing, job <- use, calls <- uses, MaxCalls <- MaxUses

copying == <<hot, warm, written, cleared, measured, gap, torn>>
sorting == <<rows, pc, seen, saved, unsorted, cold, runs, upsets>>
reading == <<hotfile, lastRow, halves, notes, serving, look, reads, answers>>
watching == <<stores, odd, cards, dismissed, summary, failed, orders, state, readState, applied,
              refused, told>>
browsing == <<tabs, driver, started, line, ended, wedged, lastUse, lock, doing, use, page, list, cache, closed,
              crossed, uses>>

\* Finitely many distillers; alerts are numbered, the newest has the highest number; the
\* reaper is no caller, and nobody is one.
ASSUME DistillConstants == IsFiniteSet(Distiller) /\ Facts \in Seq(SUBSET Cold!Fact)
ASSUME DeskConstants == Alert \subseteq Nat /\ Shown \in Nat /\ Many \in Nat \ {0}
ASSUME BrowserConstants == {"nobody", IdleReaper} \cap Caller = {} /\ FirstTab \in Tab

OneBesideTheTick == {{a} : a \in Pool \cup Cli} \cup {{}}

\* Rows of three bytes and of two; rows that share a fact, and one that has none.
LongAndShort == <<3, 2, 3, 2>>
OneShared == <<{"f"}, {"f", "g"}, {}>>

Alike == Permutations(Daemon) \cup Permutations(Caller) \cup Permutations(Command)

\* Part p runs, and the others stay as they are.
Only(p) ==
  /\ part = p /\ UNCHANGED part
  /\ p # "sessions" => UNCHANGED sessionVars
  /\ p # "daemon" => UNCHANGED life
  /\ p # "overseer" => UNCHANGED queueVars
  /\ p # "warm" => UNCHANGED copying
  /\ p # "cold" => UNCHANGED sorting
  /\ p # "proxy" => UNCHANGED proxyVars
  /\ p # "client" => UNCHANGED clientVars
  /\ p # "files" => UNCHANGED reading
  /\ p # "desk" => UNCHANGED watching
  /\ p # "browser" => UNCHANGED browsing

\* Of the crews only the overseer's part knows, and so on.
PartsInit ==
  /\ part \in {"sessions", "daemon", "overseer", "warm", "cold", "proxy", "client", "files",
              "desk", "browser"}
  /\ SessionsInit /\ LifeInit /\ QueueInit /\ Warm!Init /\ Cold!DistillInit
  /\ ProxyInit /\ ClientInit /\ Files!Init /\ Desk!Init /\ Browser!Init
  /\ part # "overseer" => crew = {}
  /\ part # "proxy" => kind = "lazy"
  /\ part # "files" => notes = 0

PartsNext ==
  \/ Only("sessions") /\ SessionsNext
  \/ Only("daemon") /\ LifeNext
  \/ Only("overseer") /\ QueueNext
  \/ Only("warm") /\ Warm!Next
  \/ Only("cold") /\ Cold!DistillNext
  \/ Only("proxy") /\ ProxyNext
  \/ Only("client") /\ ClientNext
  \/ Only("files") /\ Files!Next
  \/ Only("desk") /\ Desk!Next
  \/ Only("browser") /\ Browser!Next

PartsSpec ==
  PartsInit /\ [][PartsNext]_<<part, sessionVars, life, queueVars, copying, sorting, proxyVars, clientVars,
                              reading, watching, browsing>>

-------------------------------------------------------------------------------
\* The type of the part that runs, and the properties by the names they have there.
PartsTypeOK ==
  CASE part = "sessions" -> SessionsTypeOK
    [] part = "daemon" -> LifeTypeOK
    [] part = "overseer" -> QueueTypeOK
    [] part = "warm" -> Warm!TypeOK
    [] part = "cold" -> Cold!DistillTypeOK
    [] part = "proxy" -> ProxyTypeOK
    [] part = "client" -> ClientTypeOK
    [] part = "files" -> Files!TypeOK
    [] part = "desk" -> Desk!TypeOK
    [] part = "browser" -> Browser!TypeOK
CopiesFollow ==
  /\ part = "warm" => Warm!WarmFollowsHot
  /\ part = "cold" => Cold!FactsOnce
  /\ part = "files" => Files!ReadsNewest
WindowsAreSound ==
  /\ part = "desk" => Desk!CardsFollowAlerts /\ Desk!NoCommandLost
  /\ part = "browser" => Browser!DriversAccounted /\ Browser!ListsForgetClosed
===============================================================================
