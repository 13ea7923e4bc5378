------------------------------- MODULE ConfigFiles ------------------------------
(***************************************************************************)
(* The configuration files: settings.json and mcp.json, which the doctor   *)
(* (lib/doctor.py) checks and repairs and every launch (bin/cortexagent)   *)
(* renders anew, the file of the user they are rendered from              *)
(* (lib/config.py), and the copies that are made before a file is written. *)
(* Doctors, launches and the user's editor know nothing of each other. As  *)
(* the two files share nothing, a behaviour is about one of them.          *)
(***************************************************************************)
EXTENDS Integers, Sequences, FiniteSetsExt, TLC

CONSTANTS
  Doctor, Launch,      \* processes
  Common, Gated,       \* servers that both render, always or behind the browser's switch
  DoctorOnly, LaunchOnly, Users,      \* servers one of them renders, and those of the user
  Unset, FromEnv, FromConf,           \* paths of the model
  Missing, Blank, Torn,               \* no file; one that was just opened; one that is no JSON
  Crews,               \* sets of processes, of which one is at work
  Keep,                \* copies that are kept (three in the code)
  MaxSeconds, MaxEdits, MaxRuns

Actor == Doctor \cup Launch
File == {"settings", "mcp"}
Server == Common \cup Gated \cup DoctorOnly \cup LaunchOnly \cup Users
Path == {Unset, FromEnv, FromConf}

VARIABLES
  file, crew,          \* the file the behaviour is about, and the processes at it
  content,             \* the files; settings.json is a path it was rendered for, or the user's own
  legacy,              \* mcp.json at its old place, which may have a server of the user's
  conf,                \* the path in cortexagent.conf
  now, baks, previous, \* the second; the doctor's copies by second, and the launcher's one
  stage, job,          \* what each process does, in what environment
  read,                \* what it read
  when, copied,        \* the second of its copy, and whether that was made
  disturbed,           \* whether another has written to the file since it looked
  runs, edits,         \* counters the bounds apply to
  clash, cut           \* whether a copy took the place of one just made; files whose writer was killed

disk == <<file, crew, content, legacy, conf, baks, previous>>
process == <<stage, job, read, when, copied, disturbed>>
history == <<runs, edits, clash, cut>>
vars == <<disk, now, process, history>>

Switch == {"unset", "0", "1"}
NoJob == [fix |-> FALSE, path |-> Unset, browser |-> FALSE]

\* _env: a value that is set and not empty, or the conf's, or a default.
Resolve(env) == IF env # Unset THEN env ELSE conf

\* The path of the model, which the doctor has from the configuration it loads. A launch
\* asks the configuration only if it starts the model; if that is running, the path is the
\* environment's.
ModelPath(p, env, starts) == IF p \in Doctor \/ starts THEN Resolve(env) ELSE env

\* The browser's switch is off for the doctor and on for a launch, if nothing is said.
BrowserOn(p, switch) == switch = "1" \/ (p \in Launch /\ switch = "unset")

\* Without --fix the doctor only looks; the rest is what the file depends on.
Jobs(p) ==
  [fix : IF p \in Doctor THEN BOOLEAN ELSE {TRUE},
   path : IF file = "mcp" THEN {Unset} ELSE {ModelPath(p, e, s) : e \in {Unset, FromEnv}, s \in BOOLEAN},
   browser : IF file = "mcp" THEN {BrowserOn(p, s) : s \in Switch} ELSE {FALSE}]

Init ==
  /\ file \in File /\ crew \in Crews
  /\ content = [f \in File |-> Missing] \/ content = [settings |-> "users", mcp |-> [s \in Users |-> "user"]]
  /\ IF file = "mcp" THEN conf = Unset /\ legacy \in {Missing, [s \in Users |-> "user"]}
     ELSE conf \in {Unset, FromConf} /\ legacy = Missing
  /\ now = 0 /\ baks = [f \in File |-> <<>>] /\ previous = [f \in File |-> Missing]
  /\ stage = [p \in Actor |-> "off"]
  /\ job = [p \in Actor |-> NoJob]
  /\ read = [p \in Actor |-> Missing] /\ when = [p \in Actor |-> 0]
  /\ copied = [p \in Actor |-> FALSE] /\ disturbed = [p \in Actor |-> FALSE]
  /\ clash = FALSE /\ cut = {} /\ runs = 0 /\ edits = 0

Enter(p, s) == stage' = [stage EXCEPT ![p] = s]
Has == content[file]

\* Whoever has looked at the file and is not done with it did not see this.
Disturb(p, f) ==
  disturbed' = [q \in Actor |-> disturbed[q] \/ (q # p /\ stage[q] # "off" /\ file = f)]

-------------------------------------------------------------------------------
Rendered(p) == Common \cup (IF job[p].browser THEN Gated ELSE {})
                      \cup (IF p \in Doctor THEN DoctorOnly ELSE LaunchOnly)

\* _render_mcp, and the launcher's own, which starts every server through a shim.
Servers(p) == [s \in Rendered(p) |-> IF p \in Doctor THEN "plain" ELSE "wrapped"]

Parsed(c) == IF c \in {Missing, Blank} THEN <<>> ELSE c
DriftKeys(p, have) == {s \in Rendered(p) : s \notin DOMAIN have \/ have[s] # Servers(p)[s]}

\* What the process finds in order: the doctor, that its own servers are as they should be.
InOrder(p, c) ==
  CASE file = "settings" -> c = job[p].path
    [] file = "mcp" /\ p \in Launch -> c = Servers(p)
    [] OTHER -> c # Torn /\ DriftKeys(p, Parsed(c)) = {}

\* Its own servers as they should be, and the others as they are.
Merged(p, have) == Servers(p) @@ have

Wanted(p, c) ==
  CASE file = "settings" -> job[p].path
    [] file = "mcp" /\ (p \in Launch \/ c = Torn) -> Servers(p)
    [] OTHER -> Merged(p, Parsed(c))

-------------------------------------------------------------------------------
Start(p) ==
  /\ stage[p] = "off" /\ runs < MaxRuns /\ runs' = runs + 1
  /\ \E j \in Jobs(p) : job' = [job EXCEPT ![p] = j]
  /\ Enter(p, "looking")
  /\ disturbed' = [disturbed EXCEPT ![p] = FALSE]
  /\ UNCHANGED <<disk, now, read, when, copied, edits, clash, cut>>

\* The old file is copied to its new place, and looked at there.
Migrate(p) ==
  /\ stage[p] = "looking" /\ file = "mcp" /\ p \in Doctor /\ job[p].fix
  /\ content.mcp = Missing /\ legacy # Missing
  /\ content' = [content EXCEPT !.mcp = legacy] /\ Disturb(p, "mcp")
  /\ UNCHANGED <<file, crew, legacy, conf, now, baks, previous, stage, job, read, when,
                 copied, history>>

\* Once it has ended.
Forget(p) ==
  /\ job' = [job EXCEPT ![p] = NoJob] /\ when' = [when EXCEPT ![p] = 0]
  /\ disturbed' = [disturbed EXCEPT ![p] = FALSE]
  /\ read' = [read EXCEPT ![p] = Missing] /\ copied' = [copied EXCEPT ![p] = FALSE]

\* A check writes nothing; who finds the file in order is done.
Look(p) ==
  /\ stage[p] = "looking"
  /\ ~(file = "mcp" /\ p \in Doctor /\ content.mcp = Missing /\ legacy # Missing /\ job[p].fix)
  /\ IF InOrder(p, Has) \/ ~job[p].fix THEN Enter(p, "off") /\ Forget(p)
     ELSE /\ Enter(p, "copying") /\ read' = [read EXCEPT ![p] = Has]
          /\ disturbed' = [disturbed EXCEPT ![p] = FALSE] /\ UNCHANGED <<job, when, copied>>
  /\ UNCHANGED <<disk, now, history>>

\* The newest copies by the second in their names.
Newest(copies) ==
  [t \in {u \in DOMAIN copies : Cardinality({v \in DOMAIN copies : v > u}) < Keep} |-> copies[t]]

\* _bak with _prune_baks, and the launcher's copy. What fails is passed over. Seconds pass
\* at any time, but only the doctor's copy looks at the clock.
Copy(p) ==
  /\ stage[p] = "copying" /\ Enter(p, "opening")
  /\ now' \in IF p \in Doctor THEN now..MaxSeconds ELSE {now}
  /\ when' = IF p \in Doctor THEN [when EXCEPT ![p] = now'] ELSE when
  /\ \/ UNCHANGED <<baks, previous, copied, clash>>
     \/ /\ Has # Missing /\ copied' = [copied EXCEPT ![p] = TRUE]
        /\ IF p \in Launch
           THEN /\ previous' = [previous EXCEPT ![file] = Has] /\ UNCHANGED baks
                /\ clash' = (clash \/ \E q \in Launch \ {p} : stage[q] \in {"opening", "filling", "written"})
           ELSE /\ baks' = [baks EXCEPT ![file] = Newest((now' :> Has) @@ @)]
                /\ clash' = (clash \/ now' \in DOMAIN baks[file]) /\ UNCHANGED previous
  /\ UNCHANGED <<file, crew, content, legacy, conf, job, read, disturbed, cut, runs, edits>>

Open(p) ==
  /\ stage[p] = "opening" /\ Enter(p, "filling")
  /\ content' = [content EXCEPT ![file] = Blank] /\ Disturb(p, file)
  /\ UNCHANGED <<file, crew, legacy, conf, now, baks, previous, job, read, when, copied, history>>

Fill(p) ==
  /\ stage[p] = "filling" /\ Enter(p, "written")
  /\ content' = [content EXCEPT ![file] = Wanted(p, read[p])] /\ Disturb(p, file)
  /\ UNCHANGED <<file, crew, legacy, conf, now, baks, previous, job, read, when, copied, history>>

End(p) ==
  /\ stage[p] = "written" /\ Enter(p, "off") /\ Forget(p)
  /\ UNCHANGED <<disk, now, history>>

Killed(p) ==
  /\ stage[p] # "off" /\ Enter(p, "off") /\ Forget(p)
  /\ cut' = IF stage[p] = "filling" THEN cut \cup {file} ELSE cut
  /\ UNCHANGED <<disk, now, clash, runs, edits>>

\* The user writes a server into mcp.json, spoils it, or changes settings.json or the conf.
Edit ==
  /\ edits < MaxEdits /\ edits' = edits + 1
  /\ \/ /\ file = "mcp" /\ content.mcp # Torn
        /\ content' = [content EXCEPT !.mcp = [s \in Users |-> "user"] @@ Parsed(@)]
        /\ Disturb(Unset, file) /\ UNCHANGED conf
     \/ /\ content' = [content EXCEPT ![file] = IF file = "mcp" THEN Torn ELSE "users"]
        /\ Disturb(Unset, file) /\ UNCHANGED conf
     \/ /\ file = "settings" /\ conf' \in {Unset, FromConf}
        /\ UNCHANGED <<content, disturbed>>
  /\ UNCHANGED <<file, crew, legacy, baks, previous, now, stage, job, read, when, copied, clash, cut, runs>>

Next ==
  \/ \E p \in crew :
       \/ Start(p) \/ Look(p) \/ Copy(p) \/ Open(p) \/ Fill(p) \/ End(p) \/ Killed(p) \/ Migrate(p)
  \/ Edit

Spec == Init /\ [][Next]_vars

-------------------------------------------------------------------------------
Mcp(c) == c \in {Missing, Blank, Torn} \/ (DOMAIN c \subseteq Server /\ \A s \in DOMAIN c : c[s] \in {"plain", "wrapped", "user"})

TypeOK ==
  /\ content.settings \in Path \cup {Missing, Blank, "users"} /\ Mcp(content.mcp) /\ Mcp(legacy)
  /\ stage \in [Actor -> {"off", "looking", "copying", "opening", "filling", "written"}]
  /\ \A f \in File : Cardinality(DOMAIN baks[f]) <= Keep
  /\ now \in 0..MaxSeconds /\ conf \in Path

\* A process that has just written a file, with nobody else at it since it looked.
Wrote(p) == stage[p] = "written" /\ ~disturbed[p]

\* A repair holds: who looks again, in the same environment, finds the file in order.
RepairHolds == \A p \in Actor : Wrote(p) => InOrder(p, Has)

\* A doctor that can read mcp.json keeps every server it does not render, as it is; those
\* of the file's old place too.
OthersKept ==
  \A p \in Doctor : Wrote(p) /\ file = "mcp" /\ read[p] # Torn =>
    \A s \in DOMAIN Parsed(read[p]) \ Rendered(p) :
      s \in DOMAIN content.mcp /\ content.mcp[s] = read[p][s]

\* What was written over is in a copy, unless making it failed or newer ones have taken its
\* place, or one of the same second, or that of another launch beside this one: which may be
\* a copy of the file this one has emptied.
CopiedBefore ==
  \A p \in Actor : stage[p] \in {"filling", "written"} /\ copied[p] /\ ~disturbed[p] =>
    IF p \in Launch THEN clash \/ previous[file] = read[p]
    ELSE clash \/ (when[p] \in DOMAIN baks[file] /\ baks[file][when[p]] = read[p])
         \/ Cardinality({t \in DOMAIN baks[file] : t > when[p]}) >= Keep

\* A file is empty only while somebody is about to fill it, or if he was killed then.
EmptyIsTransient ==
  \A f \in File : content[f] = Blank =>
    f \in cut \/ \E p \in Actor : stage[p] = "filling" /\ file = f

ConfigIsKept == RepairHolds /\ OthersKept /\ CopiedBefore /\ EmptyIsTransient
===============================================================================
