------------------------------- MODULE Timetable -------------------------------
(***************************************************************************)
(* The schedules of the overseer and its plan (lib/overseer.py): what the  *)
(* commands of the command line make of them, and what a tick of the       *)
(* daemon, which may take minutes, makes due. Schedules are entries of a   *)
(* JSON file or, where the scheduler's store can be had, tasks of its      *)
(* snapshot; either is loaded, changed and saved as a whole, by a tick     *)
(* once for every entry it puts into the queue. The store saves under a    *)
(* lock that covers the save alone, so that a copy may be outdated; what   *)
(* saves of the files that overlap leave is one of the copies, or no JSON  *)
(* (OverseerQueue and SchedulerStore have the two in detail).              *)
(***************************************************************************)
EXTENDS Integers, Sequences, FiniteSetsExt, SequencesExt

CONSTANTS
  Tick,                \* the daemon's thread
  Cli, Planner,        \* command line processes: for the schedules, and for the plan
  Name,                \* names of schedules
  Within,              \* <<a, b>>: name a is a part of name b
  Timing,              \* for a name: its type, and what its value says
  Hour,                \* minutes after which the clock's fields repeat
  MaxMinutes, MaxEntries, MaxTicks,
  MaxSteps,            \* bound on the steps of a plan
  Unreadable, NoPlan

Actor == {Tick} \cup Cli \cup Planner
Id == 1..MaxEntries

VARIABLES
  topic,               \* schedules in the store or in the file, or the plan, which has no part in them
  now,                 \* the minute it is
  schedules,           \* the file, or the tasks of the store
  plan,                \* the plan file
  stage, copy,         \* what each actor does, and the schedules or the plan it holds
  at, pos, ticks,      \* the minute the tick began in, the entry it is at; how many there were
  named, made,         \* the name of every entry ever made, and how many
  fired, unmarked,     \* the minutes every entry was put into the queue for; the entries whose
                       \* firing could not be noted
  kept, gone,          \* entries that were saved; and those a saver took out or switched off
                       \* (what its copy was outdated in, it did not take out)
  steps,               \* plain steps of the plan that were acknowledged since it was set
  stale, disturbed     \* the entries every actor holds an outdated copy of, and those that were
                       \* saved from such a copy; all of them stand for the plan

files == <<schedules, plan>>
tick == <<at, pos, ticks>>
births == <<named, made>>
history == <<fired, unmarked, kept, gone, steps, disturbed>>
vars == <<topic, now, files, stage, copy, tick, births, history, stale>>

stored == topic = "store"

Entry == [id : Id, last : -1..MaxMinutes, open : BOOLEAN]
Ids(q) == {q[i].id : i \in DOMAIN q}
Open(q) == {q[i].id : i \in {j \in DOMAIN q : q[j].open}}
Loaded == IF schedules = Unreadable THEN <<>> ELSE schedules

-------------------------------------------------------------------------------
\* _cron_matches for one field, whose values are 0..Hour-1: yes, no, or the text
\* cannot be read as that kind of field and an exception is raised.
CronMatches(field, value) ==
  CASE field.kind = "any" -> "yes"
    [] field.kind = "list" -> IF value \in field.values THEN "yes" ELSE "no"
    [] field.kind = "step" ->
         IF field.by = 0 THEN "raises"
         ELSE IF value >= field.from /\ (value - field.from) % field.by = 0 THEN "yes" ELSE "no"
    [] field.kind = "range" -> IF value \in field.from..field.to THEN "yes" ELSE "no"
    [] OTHER -> "raises"

\* The chain of the schedule's types. In the file a date fires once, for last_run.
Due(e, minute) ==
  LET timing == Timing[named[e.id]]
  IN CASE timing.type = "cron" -> CronMatches(timing.field, minute % Hour)
       [] timing.type = "daily" ->
            IF ~timing.readable THEN "raises" ELSE IF minute % Hour = timing.minute THEN "yes" ELSE "no"
       [] timing.type = "date" ->
            IF timing.readable /\ minute >= timing.minute /\ (stored \/ e.last < timing.minute)
            THEN "yes" ELSE "no"
       [] timing.type = "interval" -> IF stored THEN "yes" ELSE "no"

Init ==
  /\ topic \in {"store", "file", "plan"} /\ now = 0
  /\ schedules = <<>> /\ plan = NoPlan
  /\ stage = [a \in Actor |-> IF a = Tick THEN "asleep" ELSE "idle"]
  /\ copy = [a \in Actor |-> <<>>]
  /\ at = 0 /\ pos = 0 /\ ticks = 0
  /\ named = <<>> /\ made = 0
  /\ fired = [i \in Id |-> <<>>] /\ unmarked = {}
  /\ kept = {} /\ gone = {} /\ steps = 0
  /\ stale = [a \in Actor |-> {}] /\ disturbed = {}

Enter(a, s) == stage' = [stage EXCEPT ![a] = s]
Hold(a, c) == copy' = [copy EXCEPT ![a] = c]

-------------------------------------------------------------------------------
\* _save_json: one temporary file for each file. The store's lock lets one save at a time.

Schedulers == {a \in Actor : stage[a] \in {"saving", "noting"}}
Planners == {a \in Actor : stage[a] = "planning"}
Written(savers) == {copy[a] : a \in savers} \cup (IF Cardinality(savers) > 1 THEN {Unreadable} ELSE {})

\* Those who hold a copy they may save: a tick has one from its beginning to its end.
Holding == Schedulers \cup (IF stage[Tick] \in {"looking", "queued"} THEN {Tick} ELSE {})

\* The entries that two lists have differently.
Differing(q, r) == {i \in Id : SelectSeq(q, LAMBDA e : e.id = i) # SelectSeq(r, LAMBDA e : e.id = i)}

\* The copy of whoever holds one is outdated in what a saves; a's own, no more.
Outdated(a, holders, entries) ==
  stale' = [b \in Actor |-> IF b = a THEN {} ELSE IF b \in holders THEN stale[b] \cup entries ELSE stale[b]]
Fresh(a) == stale' = [stale EXCEPT ![a] = {}]

SaveSchedules(a) ==
  /\ a \in Schedulers
  /\ schedules' \in IF stored THEN {copy[a]} ELSE Written(Schedulers)
  /\ Enter(a, IF a = Tick THEN "looking" ELSE "done")
  /\ pos' = IF a = Tick THEN pos + 1 ELSE pos
  /\ disturbed' = disturbed \cup (IF stored \/ Schedulers = {a} THEN stale[a] ELSE Id)
  /\ Outdated(a, Holding, Differing(Loaded, copy[a]))
  /\ kept' = kept \cup Ids(copy[a])
  /\ gone' = gone \cup (Open(Loaded) \ (Open(copy[a]) \cup stale[a]))
  /\ UNCHANGED <<topic, now, plan, copy, at, ticks, births, fired, unmarked, steps>>

SavePlan(a) ==
  /\ a \in Planners
  /\ plan' \in Written(Planners) /\ Enter(a, "done")
  /\ disturbed' = disturbed \cup (IF Planners = {a} THEN stale[a] ELSE Id)
  /\ Outdated(a, Planners, Id)
  /\ steps' = IF copy[a].completed \/ copy[a].set THEN copy[a].current ELSE steps + 1
  /\ UNCHANGED <<topic, now, schedules, copy, tick, births, fired, unmarked, kept, gone>>

\* Another has renamed the temporary file, or holds the store's lock, which is not waited
\* for, or the file cannot be written.
SaveFails(a) ==
  /\ a \in Schedulers \cup Planners
  /\ Enter(a, IF a = Tick THEN "asleep" ELSE "done")
  /\ unmarked' = IF a = Tick THEN unmarked \cup {copy[a][pos].id} ELSE unmarked
  /\ UNCHANGED <<topic, now, files, copy, tick, births, fired, kept, gone, steps, stale, disturbed>>

-------------------------------------------------------------------------------
\* The commands: overseer.py schedule add and remove, plan-set, plan-step, plan-complete.

\* In the file an entry replaces those of its name; the store takes another one.
ScheduleAdd(c) ==
  /\ stage[c] = "idle" /\ made < MaxEntries /\ made' = made + 1
  /\ \E n \in Name :
       LET entry == [id |-> made + 1, last |-> -1, open |-> TRUE]
           others == SelectSeq(Loaded, LAMBDA e : stored \/ named[e.id] # n)
       IN named' = Append(named, n) /\ Hold(c, Append(others, entry))
  /\ Enter(c, "saving") /\ Fresh(c)
  /\ UNCHANGED <<topic, now, files, tick, history>>

\* In the store: the first whose title is or has the name in it, as the store lists them,
\* those taken out before among them.
ScheduleRemove(c) ==
  /\ stage[c] = "idle"
  /\ \E n \in Name :
       \/ /\ stored
          /\ \E i \in DOMAIN Loaded :
               /\ <<n, named[Loaded[i].id]>> \in Within
               /\ Hold(c, [Loaded EXCEPT ![i].open = FALSE])
       \/ ~stored /\ Hold(c, SelectSeq(Loaded, LAMBDA e : named[e.id] # n))
  /\ Enter(c, "saving") /\ Fresh(c)
  /\ UNCHANGED <<topic, now, files, tick, births, history>>

ReadPlan == IF plan \in {Unreadable, NoPlan} THEN NoPlan ELSE plan
Plans(c, p) ==
  /\ stage[c] = "idle" /\ Hold(c, p) /\ Enter(c, "planning") /\ Fresh(c)
  /\ UNCHANGED <<topic, now, files, tick, births, history>>

PlanSet(c) ==
  \E total \in 0..MaxSteps : Plans(c, [total |-> total, current |-> 0, completed |-> FALSE, set |-> TRUE])

Stepped_Past(p) ==                                       \* mutated form
  [p EXCEPT !.current = @ + 1, !.completed = p.current + 1 > p.total, !.set = FALSE]

Stepped(p) ==
  IF p.current + 1 > p.total THEN [p EXCEPT !.completed = TRUE, !.current = p.total, !.set = FALSE]
  ELSE [p EXCEPT !.current = @ + 1, !.set = FALSE]

\* The next step, or the step of a number, whichever that is.
PlanStep(c) ==
  LET p == ReadPlan
  IN /\ p # NoPlan /\ ~p.completed
     /\ \/ Plans(c, Stepped(p))
        \/ \E n \in 1..p.total : Plans(c, [p EXCEPT !.current = n, !.set = TRUE])

PlanComplete(c) ==
  ReadPlan # NoPlan /\ Plans(c, [ReadPlan EXCEPT !.completed = TRUE, !.set = FALSE])

-------------------------------------------------------------------------------
\* _check_schedule, and _check_schedule_legacy.

TickBegins ==
  /\ topic # "plan" /\ stage[Tick] = "asleep" /\ ticks < MaxTicks /\ ticks' = ticks + 1
  /\ at' = now /\ pos' = 1 /\ Hold(Tick, Loaded) /\ Enter(Tick, "looking")
  /\ Fresh(Tick)
  /\ UNCHANGED <<topic, now, files, births, history>>

Entries == copy[Tick]
Looking == stage[Tick] = "looking" /\ pos <= Len(Entries)
Skipped(e) == ~e.open \/ e.last = at

Pass ==
  /\ Looking /\ (Skipped(Entries[pos]) \/ Due(Entries[pos], at) = "no")
  /\ pos' = pos + 1
  /\ UNCHANGED <<topic, now, files, stage, copy, at, ticks, births, history, stale>>

\* The exception ends the tick: no entry behind this one is looked at, nor the queue.
Raises ==
  /\ Looking /\ ~Skipped(Entries[pos]) /\ Due(Entries[pos], at) = "raises"
  /\ Enter(Tick, "asleep")
  /\ UNCHANGED <<topic, now, files, copy, tick, births, history, stale>>

\* queue_add, which fails and ends the tick when the queue cannot be saved.
Enqueue ==
  /\ Looking /\ ~Skipped(Entries[pos]) /\ Due(Entries[pos], at) = "yes"
  /\ \/ /\ Enter(Tick, "queued")
        /\ fired' = [fired EXCEPT ![Entries[pos].id] = Append(@, at)]
     \/ Enter(Tick, "asleep") /\ UNCHANGED fired
  /\ UNCHANGED <<topic, now, files, copy, tick, births, unmarked, kept, gone, steps, stale, disturbed>>

\* last_run in the copy, which is saved; or, in the store, the state. The version that
\* update() asks for is the copy's own.
Note ==
  /\ stage[Tick] = "queued"
  /\ Hold(Tick, IF stored THEN [Entries EXCEPT ![pos].open = FALSE] ELSE [Entries EXCEPT ![pos].last = at])
  /\ Enter(Tick, "noting")
  /\ UNCHANGED <<topic, now, files, tick, births, history, stale>>

TickEnds ==
  /\ stage[Tick] = "looking" /\ pos > Len(Entries) /\ Enter(Tick, "rested")
  /\ UNCHANGED <<topic, now, files, copy, tick, births, history, stale>>

Wakes ==
  /\ stage[Tick] = "rested" /\ Enter(Tick, "asleep")
  /\ UNCHANGED <<topic, now, files, copy, tick, births, history, stale>>

Minute ==
  /\ topic # "plan" /\ now < MaxMinutes /\ now' = now + 1
  /\ UNCHANGED <<topic, files, stage, copy, tick, births, history, stale>>

Next ==
  \/ TickBegins \/ Pass \/ Raises \/ Enqueue \/ Note \/ TickEnds \/ Wakes \/ Minute
  \/ topic # "plan" /\ \E c \in Cli : ScheduleAdd(c) \/ ScheduleRemove(c)
  \/ topic = "plan" /\ \E c \in Planner : PlanSet(c) \/ PlanStep(c) \/ PlanComplete(c)
  \/ \E a \in Actor : SaveSchedules(a) \/ SavePlan(a) \/ SaveFails(a)

Spec == Init /\ [][Next]_vars

-------------------------------------------------------------------------------
TypeOK ==
  /\ now \in 0..MaxMinutes /\ at \in 0..MaxMinutes
  /\ schedules = Unreadable \/ schedules \in Seq(Entry)
  /\ plan \in {NoPlan, Unreadable} \/ plan.current \in 0..MaxSteps
  /\ stage[Tick] \in {"asleep", "looking", "queued", "noting", "rested"}
  /\ made = Len(named) /\ \A i \in Id : fired[i] \in Seq(0..MaxMinutes)

Fires(i) == Len(fired[i])

\* An entry whose firing was noted fires once in a minute, in the file, and a date once at
\* all; in the store, every one once. That takes a note that was saved and that no copy
\* from before it was saved over: the note of one entry is undone by a tick or a command
\* that loaded before, also when it was about another entry.
FiresOnce ==
  \A i \in 1..made \ (unmarked \cup disturbed) :
    /\ Cardinality({fired[i][k] : k \in DOMAIN fired[i]}) = Fires(i)
    /\ (stored \/ Timing[named[i]].type = "date") => Fires(i) <= 1

\* A tick that comes to its end has put into the queue every entry that it found open and
\* that was due in the minute it began in, if not one before it had, in the same minute or,
\* for a date, at any time.
NoneForgotten ==
  stage[Tick] = "rested" =>
    \A e \in Range(Entries) :
      e.open /\ Due([e EXCEPT !.last = -1], at) = "yes" =>
        IF Timing[named[e.id]].type = "date" THEN fired[e.id] # <<>> ELSE at \in Range(fired[e.id])

\* What was saved is there, and what was taken out stays out, of every entry that no copy
\* was saved over that had it otherwise.
EditsLast ==
  schedules # Unreadable =>
    /\ gone \cap Open(schedules) \subseteq disturbed
    /\ kept \ gone \subseteq Ids(schedules) \cup disturbed

\* The plan counts its steps: every step that was acknowledged, and none beyond the last.
PlanCounts ==
  disturbed = {} /\ ReadPlan # NoPlan => plan.current \in 0..plan.total /\ plan.current = steps

TimetableIsKept == FiresOnce /\ NoneForgotten /\ EditsLast /\ PlanCounts
===============================================================================
