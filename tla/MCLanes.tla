-------------------------------- MODULE MCLanes -------------------------------
(***************************************************************************)
(* The other parts of which only safety is checked, one at a time, as they *)
(* share no state: two messages appended with up to two memory daemons; a  *)
(* turn of the language model with a tool it may not trust, one that       *)
(* performs what it says and one that is disabled; the event feed with two *)
(* viewers; the download of a file; a question or a page for the research  *)
(* lane; two processes that open the database of the memory and add        *)
(* messages; two that use the scheduler's store, without keys and          *)
(* maintenance, while the clock stands still.                              *)
(***************************************************************************)
EXTENDS MemoryAppend, AgentTurn, FetchLane, TLC

CONSTANTS Viewer, Nobody, Value, Unseen, RingSize, MaxLines, MaxEvents,
          Url, Host, Ported, LeadsTo, Excluded, Spam, Social, Primary, NoPage, Enough, MaxResults,
          MaxPages, MaxSearches,
          Proc, Said, FromUser, Old, Nothing, NoProc, NoKey

ASSUME DbConstants ==
  /\ Old \notin Said /\ Nothing \notin Said \cup {Old} /\ FromUser \subseteq Said
  /\ NoProc \notin Proc

VARIABLES
  part,                \* which of them runs
  bridge, writing, cursor, first, batch, missed, state, last, watching, pushed, greeting, served,
  received,
  searches, rung, pool, plan, page, way, text, pages,
  table, doing, tables, adding, resumes, lines, before, beside, rows, added, wiped,
  lock, log, snapshot, generation, ran, clock, session, tasks, event, todo, seen, found, maintained,
  died

Feed == INSTANCE EventFeed WITH clients <- served
Research == INSTANCE ResearchLane
Db == INSTANCE MemoryDb WITH Msg <- Said, pc <- doing, todo <- tables, stored <- rows
Store == INSTANCE SchedulerStore WITH last <- found, crashes <- died, TaskId <- {1, 2}, Key <- {},
  Maintains <- {}, NewTasks <- {<<TRUE, FALSE>>}, Reports <- {"completed"},
  MaxEvents <- 3, MaxMaintenance <- 0, MaxClock <- 0

feed == <<bridge, writing, cursor, first, batch, missed, state, last, watching, pushed, greeting,
          served, received>>
asking == <<searches, rung, pool, plan, page, way, text, pages>>
keeping == <<table, doing, tables, adding, resumes, lines, before, beside, rows, added, wiped>>
planning == <<lock, log, snapshot, generation, ran, clock, session, tasks, event, todo, seen, found,
              maintained, died>>

Alike == Permutations(Msg) \cup Permutations(Daemon) \cup Permutations(Proc)

\* Three pages of one domain, one of a host that is excluded with three labels; one of
\* a host that is excluded with two, and one of the same at a port; one that is odd.
Hosts == [a1 |-> <<"learn", "a", "com">>, a2 |-> <<"www", "a", "com">>, a3 |-> <<"a", "com">>,
          dictionary |-> <<"dictionary", "b", "org">>, forum |-> <<"old", "forum", "com">>,
          port |-> <<"forum", "com">>, odd |-> <<>>]
Urls == DOMAIN Hosts
Exclusions == {<<"dictionary", "b", "org">>, <<"forum", "com">>}
OneDomain == {<<"a", "com">>}
Redirects == [a2 |-> "forum"]

\* The parts that do not run begin in one way.
LanesInit ==
  /\ part \in {"memory", "agent", "feed", "fetch", "research", "database", "store"}
  /\ Init /\ TurnInit /\ Feed!Init /\ FetchInit /\ Research!Init /\ Db!Init /\ Store!Init
  /\ part # "feed" => bridge = <<>> /\ state = CHOOSE v \in Value : TRUE
  /\ part # "fetch" => remote = CHOOSE v \in Version : TRUE
  /\ part # "research" => searches = 1
  /\ part # "database" => \A t \in DOMAIN table : table[t].schema = "none"

Only(p) == part = p /\ UNCHANGED part

LanesNext ==
  \/ Only("memory") /\ UNCHANGED <<talk, feed, download, asking, keeping, planning>> /\ Next
  \/ Only("agent") /\ UNCHANGED <<vars, feed, download, asking, keeping, planning>> /\ TurnNext
  \/ Only("feed") /\ UNCHANGED <<vars, talk, download, asking, keeping, planning>> /\ Feed!Next
  \/ Only("fetch") /\ UNCHANGED <<vars, talk, feed, asking, keeping, planning>> /\ FetchNext
  \/ Only("research") /\ UNCHANGED <<vars, talk, feed, download, keeping, planning>> /\ Research!Next
  \/ Only("database") /\ UNCHANGED <<vars, talk, feed, download, asking, planning>> /\ Db!Next
  \/ Only("store") /\ UNCHANGED <<vars, talk, feed, download, asking, keeping>> /\ Store!Next

LanesSpec == LanesInit /\ [][LanesNext]_<<part, vars, talk, feed, download, asking, keeping, planning>>

-------------------------------------------------------------------------------
\* The type of the part that runs, and the properties by the names they have there.
LanesTypeOK ==
  CASE part = "memory" -> TypeOK
    [] part = "agent" -> TurnTypeOK
    [] part = "feed" -> Feed!TypeOK
    [] part = "fetch" -> FetchTypeOK
    [] part = "research" -> Research!TypeOK
    [] part = "database" -> Db!TypeOK
    [] part = "store" -> Store!TypeOK
StoresAreSound ==
  /\ CopiesExplained
  /\ part = "database" => Db!MemoryDbIsSound
  /\ part = "store" => Store!StoreIsOrdered
AnswersAreSound ==
  /\ part = "feed" => Feed!FeedIsComplete
  /\ part = "research" => Research!ResearchIsSound
===============================================================================
