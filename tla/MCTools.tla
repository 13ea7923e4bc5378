-------------------------------- MODULE MCTools -------------------------------
(***************************************************************************)
(* The prompt queue with an unlocked clear, and the tools beside the       *)
(* daemon, one at a time, as they share no state: the schedules and the    *)
(* plan with the commands that change them; the console's windows and its  *)
(* pane; the downloads of a file, by themselves or beside that of another  *)
(* one; the doctors and launches at a configuration file; two polls of   *)
(* the vulnerability feeds.                                                *)
(***************************************************************************)
EXTENDS MCPromptQueue, CveIntel

CONSTANTS Ticker, Cli, Planner, Name, Within, Timing, Hour, MaxMinutes, MaxEntries, MaxTicks, MaxSteps,
          Unreadable, NoPlan,
          Console, Nobody, Work, TimedWork, MaxWrites, MaxSlips,
          Getter, Beside, Version, Length, Lanes, Gone, NoHash, MaxUpdates,
          Doctor, Launch, Common, Gated, DoctorOnly, LaunchOnly, Users, Unset, FromEnv, FromConf,
          Missing, Blank, Crews, Keep, h1, h2, l1, l2, MaxSeconds, MaxEdits, MaxRuns,
          MaxPieces

VARIABLES
  part,                \* which of them runs
  mixed,               \* a clear was at work on the queue beside another call
  overwritten,         \* the items of archives that a clear of the same second renamed over
  topic, now, schedules, plan, stage, copy, at, pos, ticks, named, made, fired, unmarked, kept, gone,
  steps, stale, disturbed,
  view, record, window, held, blind, slips, ended, time, tasks, snapshot, log, dirty, glanced,
  shown, had, canceled,
  remote, updates, getting, expected, size, lane, parts, whole, dest, verdict, short, manifest, prior,
  crossed,
  file, crew, content, legacy, conf, second, baks, previous, doing, job, read, when, copied, passed,
  runs, edits, clash, cut

Times == INSTANCE Timetable WITH Tick <- Ticker
Overlay == INSTANCE ConsoleWindow WITH topic <- view, stage <- window, killed <- ended, clock <- time
Download == INSTANCE Downloader WITH stage <- getting
Config == INSTANCE ConfigFiles WITH now <- second, stage <- doing, disturbed <- passed

clearing == <<mixed, overwritten>>
scheduling == <<topic, now, schedules, plan, stage, copy, at, pos, ticks, named, made, fired, unmarked,
                kept, gone, steps, stale, disturbed>>
showing == <<view, record, window, held, blind, slips, ended, time, tasks, snapshot, log, dirty,
             glanced, shown, had, canceled>>
loading == <<remote, updates, getting, expected, size, lane, parts, whole, dest, verdict, short,
             manifest, prior, crossed>>
repairing == <<file, crew, content, legacy, conf, second, baks, previous, doing, job, read, when, copied,
               passed, runs, edits, clash, cut>>

\* A prompt with two parts, and one that revises what was said before.
TwoPrompts == {PromptOf(<<Api, React>>, FALSE), PromptOf(<<Vue>>, TRUE)}

\* One that is due every second minute, one of a date whose name has the first in it, and
\* one whose time cannot be read.
Times3 ==
  [cve |-> [type |-> "cron", field |-> [kind |-> "step", from |-> 0, by |-> 2]],
   cvedaily |-> [type |-> "date", readable |-> TRUE, minute |-> 1],
   odd |-> [type |-> "daily", readable |-> FALSE, minute |-> 0]]
Names3 == DOMAIN Times3
NamesWithin == {<<n, n>> : n \in Names3} \cup {<<"cve", "cvedaily">>}

\* Versions of two lengths.
TwoOrThree == [v \in Version |-> IF v = CHOOSE w \in Version : TRUE THEN 2 ELSE 3]

\* Two doctors, one with a launch, two launches.
TwoAtWork == {{h1, h2}, {h1, l1}, {l1, l2}}

Alike == Permutations(Poll)

\* The parts that do not run begin in one way.
ToolsInit ==
  /\ part \in {"queue", "timetable", "console", "download", "manifest", "config", "intel"}
  /\ Init /\ mixed = FALSE /\ overwritten = {} /\ Times!Init /\ Overlay!Init /\ Download!Init /\ Config!Init /\ IntelInit
  /\ part # "timetable" => topic = "plan"
  /\ part # "console" => view = "pane"
  /\ part # "download" => remote = CHOOSE v \in Version : TRUE
  /\ (part = "manifest") = (getting[Beside] # "off")
  /\ part # "config" => file = "mcp" /\ crew = (CHOOSE c \in Crews : TRUE) /\ content.mcp = Missing /\ legacy = Missing

\* Part p runs, and the others stay as they are.
Only(p) ==
  /\ part = p /\ UNCHANGED part
  /\ p # "queue" => UNCHANGED <<vars, clearing>>
  /\ p # "timetable" => UNCHANGED scheduling
  /\ p # "console" => UNCHANGED showing
  /\ p \notin {"download", "manifest"} => UNCHANGED loading
  /\ p # "config" => UNCHANGED repairing
  /\ p # "intel" => UNCHANGED intelVars

\* A session that has looked for the queue file and is not done with it.
AtWork(p) == pc[p] \in {"read", "corrupt", "parts", "archive", "open", "write", "replace"}

QueueNext ==
  /\ Next
  /\ mixed' = (mixed \/ (\E p \in Clearer : op[p].kind = "clear" /\ AtWork(p)
                                             /\ \E r \in Proc \ {p} : AtWork(r))')
  /\ overwritten' = IF archived'[clock] # archived[clock]
       THEN overwritten \cup Pairs(Content(archived[clock])) ELSE overwritten

ToolsNext ==
  \/ Only("queue") /\ QueueNext
  \/ Only("timetable") /\ Times!Next
  \/ Only("console") /\ Overlay!Next
  \/ Only("download") /\ Download!Next
  \/ Only("manifest") /\ Download!Next /\ UNCHANGED remote /\ \A p \in Getter : getting'[p] # "chunks"
  \/ Only("config") /\ Config!Next
  \/ Only("intel") /\ IntelNext /\ Len(intel') <= MaxPieces

ToolsSpec ==
  ToolsInit /\ [][ToolsNext]_<<part, vars, clearing, scheduling, showing, loading, repairing, intelVars>>

-------------------------------------------------------------------------------
\* A clear that no other call runs beside costs nothing but the archive of an earlier
\* clear in the same second: every other item a submit ever reported is in the queue or
\* in an archive (clear() of lib/prompt_queue.py: "Clearing keeps an archive copy").
ClearsCostOneArchive ==
  part = "queue" /\ ~mixed => accepted \subseteq overwritten \cup UNION {Pairs(list) : list \in Stored}

\* The type of the part that runs, and the properties by the names they have there.
TimetableIsKept == part = "timetable" => Times!TypeOK /\ Times!TimetableIsKept
ToolsAreSound ==
  /\ part = "console" => Overlay!TypeOK /\ Overlay!ConsoleIsSound
  /\ part \in {"download", "manifest"} => Download!TypeOK /\ Download!DownloadsAreSound
  /\ part = "config" => Config!TypeOK /\ Config!ConfigIsKept
  /\ part = "intel" => IntelTypeOK
===============================================================================
