------------------------------ MODULE BrowserLane ------------------------------
(***************************************************************************)
(* The connection all threads of a program share with the browser          *)
(* (lib/browser_control.py): a driver process and a link, made under a     *)
(* lock, given up after a failure for a while and closed when unused; and  *)
(* the tabs, which are listed from a cache, opened, closed and used.       *)
(* Chrome and its user are outside. An expression or a text that cannot be *)
(* had over the link is asked for by another way, which is not modelled.   *)
(***************************************************************************)
EXTENDS Naturals, Sequences, FiniteSets

CONSTANTS
  Caller,              \* threads
  IdleReaper,          \* the thread that closes an unused browser
  Tab, FirstTab,       \* tabs, and the one that is open at first
  MaxDrivers, MaxCalls \* bounds

VARIABLES
  tabs,                \* the open tabs
  driver, link,        \* _playwright, the driver in use (0: none), and whether a link is kept, and alive
  started,             \* how many drivers were ever started
  ended,               \* drivers that were stopped, and those given up as they could not be
  wedged, used,        \* whether a connection failed lately; when the browser was used last
  lock,
  at, job, page,       \* what every thread is doing, with which call and which tab
  list,                \* the tabs a thread has been told, with what was closed by then
  cache,               \* the tabs kept, and whether they are young enough
  closed, crossed,     \* tabs the program has closed, and those closed while a list was made
  calls                \* calls begun

closing == <<closed, crossed>>
connection == <<driver, started, link, ended, wedged, used>>
vars == <<tabs, connection, lock, at, job, page, list, cache, closing, calls>>

NoOne == "nobody"
Ages == {"never", "lately", "long ago"}
NoPage == "no page"
NoList == [told |-> <<>>, before |-> {}]
NoJob == [do |-> "none", tab |-> NoPage]
Job == [do : {"list", "open", "look"}, tab : {NoPage}] \cup [do : {"close", "use"}, tab : Tab]

Init ==
  /\ tabs = <<FirstTab>>
  /\ driver = 0 /\ started = 0 /\ link = "none" /\ ended = [stopped |-> {}, left |-> {}]
  /\ wedged = FALSE /\ used = "never" /\ lock = NoOne
  /\ at = [c \in Caller \cup {IdleReaper} |-> "idle"] /\ job = [c \in Caller |-> NoJob]
  /\ page = [c \in Caller |-> NoPage] /\ list = [c \in Caller |-> NoList]
  /\ cache = [tabs |-> <<>>, young |-> FALSE] /\ closed = {} /\ crossed = {} /\ calls = 0

Goto(c, where) == at' = [at EXCEPT ![c] = where]
Members(s) == {s[i] : i \in DOMAIN s}

\* The other tabs, in their order: no tab is listed twice.
Without(t, s) ==
  IF t \notin Members(s) THEN s
  ELSE LET i == CHOOSE i \in DOMAIN s : s[i] = t IN SubSeq(s, 1, i - 1) \o SubSeq(s, i + 1, Len(s))

\* Tabs whose close_tab is under way: an id is not given twice.
Leaving == {page[c] : c \in {d \in Caller : at[d] = "closed"}}
NoCache == [tabs |-> <<>>, young |-> FALSE]

-------------------------------------------------------------------------------
\* Chrome, its user and the time.

LinkIsCut ==
  /\ link = "live" /\ link' = "cut"
  /\ UNCHANGED <<tabs, driver, started, ended, wedged, used, lock, at, job, page, list, cache, closing, calls>>

UnusedForLong ==
  /\ used = "lately" /\ used' = "long ago"
  /\ UNCHANGED <<tabs, driver, started, link, ended, wedged, lock, at, job, page, list, cache, closing, calls>>

CooledDown ==
  /\ wedged /\ wedged' = FALSE
  /\ UNCHANGED <<tabs, driver, started, link, ended, used, lock, at, job, page, list, cache, closing, calls>>

CacheAges ==
  /\ cache.young /\ cache' = [tabs |-> cache.tabs, young |-> FALSE]
  /\ UNCHANGED <<tabs, connection, lock, at, job, page, list, closing, calls>>

-------------------------------------------------------------------------------
\* A call. A list that is young enough needs no connection.

Begin(c) ==
  /\ at[c] = "idle" /\ calls < MaxCalls /\ calls' = calls + 1
  /\ \E j \in Job :
       /\ job' = [job EXCEPT ![c] = j]
       /\ list' = [list EXCEPT ![c] = [told |-> <<>>, before |-> IF j.do = "list" THEN closed ELSE {}]]
       /\ Goto(c, IF j.do = "list" THEN "listing" ELSE "asking")
  /\ UNCHANGED <<tabs, connection, lock, page, cache, closing>>

Told(c, s) == list' = [list EXCEPT ![c].told = s]

ListFromCache(c) ==
  /\ at[c] = "listing" /\ cache.young /\ cache.tabs # <<>>
  /\ Told(c, cache.tabs) /\ Goto(c, "told")
  /\ UNCHANGED <<tabs, connection, lock, job, page, cache, closing, calls>>

ListAnew(c) ==
  /\ at[c] = "listing" /\ ~(cache.young /\ cache.tabs # <<>>) /\ Goto(c, "asking")
  /\ UNCHANGED <<tabs, connection, lock, job, page, list, cache, closing, calls>>

-------------------------------------------------------------------------------
\* _get_browser. The failure of another thread is looked at before the lock.

\* A call is over, whatever has come of it.
Ends(c) ==
  /\ Goto(c, "idle") /\ job' = [job EXCEPT ![c] = NoJob] /\ page' = [page EXCEPT ![c] = NoPage]
  /\ list' = [list EXCEPT ![c] = NoList]

\* It gets no browser, or no tab: a list asks Chrome by another way.
Fails(c) ==
  IF job[c].do = "list" THEN Goto(c, "asking raw") /\ UNCHANGED <<job, page, list>> ELSE Ends(c)

Refused(c) ==
  /\ at[c] = "asking" /\ wedged /\ Fails(c)
  /\ UNCHANGED <<tabs, connection, lock, cache, closing, calls>>

Passes(c) ==
  /\ at[c] = "asking" /\ ~wedged /\ Goto(c, "waiting")
  /\ UNCHANGED <<tabs, connection, lock, job, page, list, cache, closing, calls>>

\* A link that is alive is used; else one is made, with a driver, if there is none.
Reuse(c) ==
  /\ at[c] = "waiting" /\ lock = NoOne /\ link = "live"
  /\ used' = "lately" /\ Goto(c, "connected")
  /\ UNCHANGED <<tabs, driver, started, link, ended, wedged, lock, job, page, list, cache, closing, calls>>

\* A driver that cannot be started leaves no trace.
StartFails(c) ==
  /\ at[c] = "waiting" /\ lock = NoOne /\ link # "live" /\ driver = 0
  /\ link' = "none" /\ Fails(c)
  /\ UNCHANGED <<tabs, driver, started, ended, wedged, used, lock, cache, closing, calls>>

Connect(c) ==
  /\ at[c] = "waiting" /\ lock = NoOne /\ link # "live" /\ lock' = c /\ link' = "none"
  /\ \/ driver = 0 /\ started < MaxDrivers /\ started' = started + 1 /\ driver' = started + 1
     \/ driver # 0 /\ UNCHANGED <<driver, started>>
  /\ Goto(c, "connecting")
  /\ UNCHANGED <<tabs, ended, wedged, used, job, page, list, cache, closing, calls>>

\* The time of use is set after the lock was given back.
Connected(c) ==
  /\ at[c] = "connecting" /\ link' = "live" /\ lock' = NoOne /\ Goto(c, "linked")
  /\ UNCHANGED <<tabs, driver, started, ended, wedged, used, job, page, list, cache, closing, calls>>

ConnectFails(c) ==
  /\ at[c] = "connecting" /\ wedged' = TRUE /\ link' = "none" /\ lock' = NoOne /\ Fails(c)
  /\ UNCHANGED <<tabs, driver, started, ended, used, cache, closing, calls>>

\* Another thread may have closed the browser by then: what is returned is nothing.
MarkUsed(c) ==
  /\ at[c] = "linked" /\ used' = "lately"
  /\ IF link = "none" THEN Fails(c) ELSE Goto(c, "connected") /\ UNCHANGED <<job, page, list>>
  /\ UNCHANGED <<tabs, driver, started, link, ended, wedged, lock, cache, closing, calls>>

-------------------------------------------------------------------------------
\* The tabs, over a link that may have been cut or closed since, and that only the
\* thread that made it may be let to use.

Lost(c) ==
  /\ at[c] \in {"connected", "paged"} /\ Fails(c)
  /\ UNCHANGED <<tabs, connection, lock, cache, closing, calls>>

\* A tab that is not there any more stands for the first one.
Resolve(c) ==
  /\ at[c] = "connected" /\ link = "live" /\ job[c].do \in {"close", "use"}
  /\ IF tabs = <<>> THEN Ends(c)
     ELSE /\ page' = [page EXCEPT ![c] = IF job[c].tab \in Members(tabs) THEN job[c].tab ELSE tabs[1]]
          /\ Goto(c, "paged") /\ UNCHANGED <<job, list>>
  /\ UNCHANGED <<tabs, connection, lock, cache, closing, calls>>

\* A tab that is gone closes without a word.
CloseTab(c) ==
  /\ at[c] = "paged" /\ job[c].do = "close" /\ link = "live"
  /\ tabs' = Without(page[c], tabs) /\ Goto(c, "closed")
  /\ UNCHANGED <<connection, lock, job, page, list, cache, closing, calls>>

\* A list under way may yet be kept, with the tab in it.
Across(t) ==
  crossed' = IF \E d \in Caller : at[d] = "keeping" THEN crossed \cup {t} ELSE crossed

CloseEnds(c) ==
  /\ at[c] = "closed" /\ Ends(c) /\ cache' = NoCache
  /\ closed' = closed \cup {page[c]} /\ Across(page[c])
  /\ UNCHANGED <<tabs, connection, lock, calls>>

\* A click, a text, a page's text, or a new page in the tab: only the last drops the cache.
UseTab(c) ==
  /\ at[c] = "paged" /\ job[c].do = "use" /\ link = "live" /\ Ends(c)
  /\ cache' \in {NoCache, cache}
  /\ UNCHANGED <<tabs, connection, lock, closing, calls>>

\* health() asks for the connection alone.
LookAtLink(c) ==
  /\ at[c] = "connected" /\ job[c].do = "look" /\ Ends(c)
  /\ UNCHANGED <<tabs, connection, lock, cache, closing, calls>>

\* A page that cannot be loaded is open all the same, and the cache is kept.
OpenTab(c) ==
  /\ at[c] = "connected" /\ job[c].do = "open" /\ link = "live" /\ Ends(c)
  /\ \E t \in Tab \ (Members(tabs) \cup closed \cup Leaving) : tabs' = Append(tabs, t)
  /\ cache' \in {NoCache, cache}
  /\ UNCHANGED <<connection, lock, closing, calls>>

\* The list is made here and kept below, with the age it had when it was asked for.
ListPages(c) ==
  /\ at[c] = "connected" /\ job[c].do = "list" /\ link = "live"
  /\ Told(c, tabs) /\ Goto(c, "keeping")
  /\ UNCHANGED <<tabs, connection, lock, job, page, cache, closing, calls>>

ListRaw(c) ==
  /\ at[c] = "asking raw"
  /\ \/ Told(c, tabs) /\ Goto(c, "keeping")
     \/ Goto(c, "told") /\ UNCHANGED list
  /\ UNCHANGED <<tabs, connection, lock, job, page, cache, closing, calls>>

KeepList(c) ==
  /\ at[c] = "keeping" /\ \E young \in BOOLEAN : cache' = [tabs |-> list[c].told, young |-> young]
  /\ Goto(c, "told")
  /\ UNCHANGED <<tabs, connection, lock, job, page, list, closing, calls>>

Return(c) ==
  /\ at[c] = "told" /\ Ends(c)
  /\ UNCHANGED <<tabs, connection, lock, cache, closing, calls>>

-------------------------------------------------------------------------------
\* The reaper looks once a minute, and then waits for the lock.

\* Mutated form: a driver without a link is not looked for.
Wakes_Linked ==
  /\ at[IdleReaper] = "idle" /\ link # "none" /\ used = "long ago" /\ Goto(IdleReaper, "closing")
  /\ UNCHANGED <<tabs, connection, lock, job, page, list, cache, closing, calls>>

Wakes ==
  /\ at[IdleReaper] = "idle" /\ driver # 0 /\ used = "long ago" /\ Goto(IdleReaper, "closing")
  /\ UNCHANGED <<tabs, connection, lock, job, page, list, cache, closing, calls>>

\* The link and the driver are forgotten, whether or not they could be stopped: what
\* _playwright.stop() raises is passed over, and the process lives on.
Close ==
  /\ at[IdleReaper] = "closing" /\ lock = NoOne
  /\ link' = "none" /\ driver' = 0
  /\ \E how \in {"stopped", "left"} :
       ended' = IF driver = 0 THEN ended ELSE [ended EXCEPT ![how] = @ \cup {driver}]
  /\ cache' = NoCache /\ Goto(IdleReaper, "idle")
  /\ UNCHANGED <<tabs, started, wedged, used, lock, job, page, list, closing, calls>>

-------------------------------------------------------------------------------
Call(c) ==
  \/ ListFromCache(c) \/ ListAnew(c) \/ Refused(c) \/ Passes(c) \/ Reuse(c) \/ StartFails(c) \/ Connect(c)
  \/ Connected(c) \/ ConnectFails(c) \/ MarkUsed(c) \/ Lost(c) \/ Resolve(c) \/ CloseTab(c)
  \/ CloseEnds(c) \/ UseTab(c) \/ LookAtLink(c) \/ OpenTab(c)
  \/ ListPages(c) \/ ListRaw(c) \/ KeepList(c) \/ Return(c)
Reap == Wakes \/ Close
Next == (\E c \in Caller : Begin(c) \/ Call(c)) \/ Reap
        \/ LinkIsCut \/ UnusedForLong \/ CooledDown \/ CacheAges

Spec == Init /\ [][Next]_vars
FairSpec ==
  Spec /\ WF_vars(Reap) /\ WF_vars(UnusedForLong) /\ \A c \in Caller : WF_vars(Call(c))

-------------------------------------------------------------------------------
TypeOK ==
  /\ {wedged, cache.young} \subseteq BOOLEAN /\ {tabs, cache.tabs} \subseteq Seq(Tab)
  /\ {driver, started} \subseteq 0..MaxDrivers /\ link \in {"none", "live", "cut"} /\ used \in Ages
  /\ lock \in Caller \cup {NoOne} /\ \A c \in Caller : job[c] \in Job \cup {NoJob} /\ page[c] \in Tab \cup {NoPage}
  /\ closed \cup crossed \subseteq Tab

\* However the threads and the reaper meet, no driver is forgotten: those that were
\* started have ended, could not be stopped, or are the one in use; and a link that
\* is kept has a driver.
DriversAccounted ==
  /\ 1..started = ended.stopped \cup ended.left \cup ({driver} \ {0})
  /\ driver \notin ended.stopped \cup ended.left
  /\ link # "none" => driver # 0

\* A list shows no tab whose close_tab had returned before the list was asked for,
\* from the cache or anew, unless another list was being made across the closing.
ListsForgetClosed ==
  \A c \in Caller : at[c] = "told" => Members(list[c].told) \cap list[c].before \subseteq crossed

\* The processes of drivers, and those of them nobody has a hold of.
Living == 1..started \ ended.stopped
LeftAlone == Living \ {driver}

\* "closes (and thereby reaps the driver)": once the browser has been used at all, a
\* driver lives on after the last call only if its stop raised; it is not tried again.
\* (A driver whose first connection failed is kept: the time of use is then unset, and
\* the reaper passes over it.)
UnusedDriverEnds ==
  \A d \in 1..MaxDrivers : driver = d /\ used # "never" ~> d \notin Living \/ d \in LeftAlone \cap ended.left
===============================================================================
