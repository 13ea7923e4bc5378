------------------------------ MODULE MCServices ------------------------------
(***************************************************************************)
(* Services whose liveness is checked: the control server with fewer slots *)
(* than connections, the reaper of the model beside the sessions' claims,  *)
(* the overseer's queue with a command line process beside the tick, the   *)
(* memory daemon on a disk that fills up and is freed again, and the       *)
(* browser's connection. They share no state and are checked one at a time.*)
(***************************************************************************)
EXTENDS ControlServer, ModelReaper

CONSTANTS Tick, Pool, Cli, Crews, MaxTasks, MaxStops, DrainLimit, KeepFirst, Unreadable,
          Msg, Guest, Daemon, None, DiskFills, Capacity, MaxCapacity, MaxCrashes, MaxFaults,
          Caller, IdleReaper, Tab, FirstTab, MaxDrivers, MaxUses

VARIABLES
  service,             \* which of them runs
  crew, file, copy, stage, job, todo, robbed, made, ids, due, fired, ran, added, removed, unmarked,
  stopping, stops, unsettled, stale, disturbed,
  log, synced, capacity, sock, pid, dphase, serving, waiting, thread, conn, answer, crashes, faults,
  tabs, driver, started, line, ended, wedged, lastUse, held, doing, use, page, list, cache, shut,
  crossed, uses

Overseer == INSTANCE OverseerQueue
Space == INSTANCE MemoryAppend WITH file <- log, queue <- waiting, phase <- thread
Browser == INSTANCE BrowserLane
           WITH link <- line, used <- lastUse, lock <- held, at <- doing, job <- use, closed <- shut,
                calls <- uses, MaxCalls <- MaxUses

reaping == <<sessionVars, reaper>>
ticking == <<crew, file, copy, stage, job, todo, robbed, made, ids, due, fired, ran, added, removed,
             unmarked, stopping, stops, unsettled, stale, disturbed>>
storing == <<log, synced, capacity, sock, pid, dphase, serving, waiting, thread, conn, answer,
             crashes, faults>>
browsing == <<tabs, driver, started, line, ended, wedged, lastUse, held, doing, use, page, list, cache, shut,
              crossed, uses>>
all == <<service, vars, reaping, ticking, storing, browsing>>

Only(s) == service = s /\ UNCHANGED service

Control == Only("control") /\ UNCHANGED <<reaping, ticking, storing, browsing>>
Reaping == Only("reaper") /\ UNCHANGED <<vars, ticking, storing, browsing>>
Ticking == Only("overseer") /\ UNCHANGED <<vars, reaping, storing, browsing>>
Storing == Only("memory") /\ UNCHANGED <<vars, reaping, ticking, browsing>>
Browsing == Only("browser") /\ UNCHANGED <<vars, reaping, ticking, storing>>

ServicesInit ==
  /\ service \in {"control", "reaper", "overseer", "memory", "browser"}
  /\ Init /\ ReaperInit /\ Overseer!QueueInit /\ Space!Init /\ Browser!Init

ServicesNext ==
  \/ Control /\ Next
  \/ Reaping /\ ReaperNext
  \/ Ticking /\ Overseer!QueueNext
  \/ Storing /\ Space!Next
  \/ Browsing /\ Browser!Next

\* The fairness of each of the specifications.
ServicesFairness ==
  /\ WF_all(Control /\ Acceptor)
  /\ \A c \in Conn : WF_all(Control /\ Worker(c))
  /\ WF_all(Reaping /\ Round) /\ SF_all(Reaping /\ IdleForLong)
  /\ WF_all(Reaping /\ Prune /\ UNCHANGED <<round, idle, model, tui, busy, unseen>>)
  /\ WF_all(Ticking /\ Overseer!TickStep)
  /\ WF_all(Ticking /\ Overseer!Start) /\ WF_all(Ticking /\ Overseer!Exit)
  /\ \A a \in Overseer!Actor : WF_all(Ticking /\ Overseer!EndSave(a))
  /\ \A m \in Msg : WF_all(Storing /\ Space!Client(m))
  /\ WF_all(Browsing /\ Browser!Reap) /\ WF_all(Browsing /\ Browser!UnusedForLong)
  /\ \A c \in Caller : WF_all(Browsing /\ Browser!Call(c))

ServicesSpec == ServicesInit /\ [][ServicesNext]_all /\ ServicesFairness

-------------------------------------------------------------------------------
OneCommandLine == {Cli}

\* The properties of the others, by the names they have there.
QueuedTasksTaken == Overseer!QueuedTasksTaken
AppendsEnd == Space!AppendsEnd
UnusedDriverEnds == Browser!UnusedDriverEnds
===============================================================================
