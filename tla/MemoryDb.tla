------------------------------- MODULE MemoryDb --------------------------------
(***************************************************************************)
(* The database behind the memory (memory/db.py, memory/manager.py): every *)
(* process that imports it opens the file, puts away tables of an older    *)
(* schema that are empty, makes those that are missing, and then adds      *)
(* messages: a row, a line for the JSONL tier, and, for what a user said,  *)
(* the command the session resumes with. Of the tables the messages and    *)
(* the checkpoints are here; the log is written in between, and what fails *)
(* of it is passed over. Nothing calls the clean-up.                       *)
(***************************************************************************)
EXTENDS Naturals, Sequences, Functions

CONSTANTS
  Proc,                \* processes
  Msg, FromUser,       \* messages of one platform, and those a user sent
  Old, Nothing         \* a row of the older schema; no message

Tables == <<"Checkpoints", "Memory_Hot">>

VARIABLES
  table,               \* the schema and the rows of each table
  pc, todo,            \* what each process does, and the tables it has yet to see to
  adding,              \* the message it adds
  resumes,             \* last_commands: what was loaded, and what it added itself
  lines,               \* messages that have reached the JSONL tier
  before,              \* for a message: those of users that had been added when it was begun,
  beside,              \* and the processes that were opening the file when its row was made
  stored, added,       \* messages whose row was made; whose add_to_hot has returned
  wiped                \* for a message whose row was dropped: by whom

open == <<pc, todo>>
history == <<before, beside, stored, added, wiped>>
vars == <<table, open, adding, resumes, lines, history>>

Rows(t) == Range(table[t].rows)
Newest(t) == IF table[t].rows = <<>> THEN Nothing ELSE table[t].rows[Len(table[t].rows)]
Opening == {p \in Proc : pc[p] \in {"looking", "counting", "dropping", "making"}}

Goto(p, where) == pc' = [pc EXCEPT ![p] = where]
At(p, t) == todo[p] # <<>> /\ t = Head(todo[p])
Onward(p) == todo' = [todo EXCEPT ![p] = Tail(@)]

Init ==
  /\ table \in [Range(Tables) -> {[schema |-> "none", rows |-> <<>>], [schema |-> "old", rows |-> <<>>],
                                  [schema |-> "old", rows |-> <<Old>>]}]
  /\ pc = [p \in Proc |-> "off"] /\ todo = [p \in Proc |-> <<>>]
  /\ adding = [p \in Proc |-> Nothing]
  /\ resumes = [p \in Proc |-> [loaded |-> Nothing, own |-> Nothing]]
  /\ lines = {} /\ stored = {} /\ added = {}
  /\ before = [m \in Msg |-> {}] /\ beside = [m \in Msg |-> {}]
  /\ wiped = [m \in {} |-> Nothing]

-------------------------------------------------------------------------------
\* _get_connection: every statement commits by itself.

Open(p) ==
  /\ pc[p] = "off" /\ Goto(p, "looking")
  /\ todo' = [todo EXCEPT ![p] = Tables]
  /\ UNCHANGED <<table, adding, resumes, lines, history>>

\* _migrate_legacy_tables: the columns of a table, and the number of its rows.
Look(p) ==
  /\ pc[p] = "looking"
  /\ \E t \in Range(Tables) :
       /\ At(p, t)
       /\ IF table[t].schema = "old" THEN Goto(p, "counting") /\ UNCHANGED todo
          ELSE Onward(p) /\ UNCHANGED pc
  /\ UNCHANGED <<table, adding, resumes, lines, history>>

\* Mutated form: a table of the older schema goes, whatever it holds.
Count_Any(p) ==
  /\ pc[p] = "counting"
  /\ \E t \in Range(Tables) : At(p, t) /\ table[t].schema # "none"
  /\ Goto(p, "dropping")
  /\ UNCHANGED <<table, todo, adding, resumes, lines, history>>

Count(p) ==
  /\ pc[p] = "counting"
  /\ \E t \in Range(Tables) :
       /\ At(p, t) /\ table[t].schema # "none"
       /\ IF table[t].rows = <<>> THEN Goto(p, "dropping") /\ UNCHANGED todo
          ELSE Goto(p, "looking") /\ Onward(p)
  /\ UNCHANGED <<table, adding, resumes, lines, history>>

\* Whatever table has the name by now.
Drop(p) ==
  /\ pc[p] = "dropping"
  /\ \E t \in Range(Tables) :
       /\ At(p, t) /\ table[t].schema # "none"
       /\ table' = [table EXCEPT ![t] = [schema |-> "none", rows |-> <<>>]]
       /\ wiped' = [m \in DOMAIN wiped \cup (IF t = "Memory_Hot" THEN Rows(t) ELSE {}) |->
                      IF m \in DOMAIN wiped THEN wiped[m] ELSE p]
  /\ Goto(p, "looking") /\ Onward(p)
  /\ UNCHANGED <<adding, resumes, lines, before, beside, stored, added>>

AllSeen(p) ==
  /\ pc[p] = "looking" /\ todo[p] = <<>>
  /\ Goto(p, "making") /\ todo' = [todo EXCEPT ![p] = Tables]
  /\ UNCHANGED <<table, adding, resumes, lines, history>>

\* CREATE TABLE IF NOT EXISTS
Make(p) ==
  /\ pc[p] = "making"
  /\ \E t \in Range(Tables) :
       /\ At(p, t) /\ Onward(p)
       /\ table' = IF table[t].schema # "none" THEN table
                   ELSE [table EXCEPT ![t] = [schema |-> "new", rows |-> <<>>]]
  /\ UNCHANGED <<pc, adding, resumes, lines, history>>

\* _load_state: the newest checkpoint, or none if there is no such table.
Load(p) ==
  /\ pc[p] = "making" /\ todo[p] = <<>> /\ Goto(p, "ready")
  /\ resumes' = [resumes EXCEPT ![p].loaded =
                   IF table["Checkpoints"].schema = "new" THEN Newest("Checkpoints") ELSE Nothing]
  /\ UNCHANGED <<table, todo, adding, lines, history>>

\* A statement cannot be run (the file is locked, the table is gone): no import.
OpenFails(p) ==
  /\ p \in Opening /\ Goto(p, "failed") /\ todo' = [todo EXCEPT ![p] = <<>>]
  /\ UNCHANGED <<table, adding, resumes, lines, history>>

-------------------------------------------------------------------------------
\* add_to_hot

Begin(p, m) ==
  /\ pc[p] = "ready" /\ m \notin stored \cup Range(adding) /\ Goto(p, "adding")
  /\ adding' = [adding EXCEPT ![p] = m]
  /\ before' = [before EXCEPT ![m] = added \cap FromUser]
  /\ UNCHANGED <<table, todo, resumes, lines, beside, stored, added, wiped>>

Insert(t, m) == table' = [table EXCEPT ![t].rows = Append(@, m)]

InsertHot(p) ==
  /\ pc[p] = "adding" /\ table["Memory_Hot"].schema = "new"
  /\ Insert("Memory_Hot", adding[p]) /\ Goto(p, "stored")
  /\ stored' = stored \cup {adding[p]}
  /\ beside' = [beside EXCEPT ![adding[p]] = Opening]
  /\ UNCHANGED <<todo, adding, resumes, lines, before, added, wiped>>

\* A daemon that has taken the line may yet lose it. What a user said is the command
\* the process knows before it is a checkpoint.
Mirror(p) ==
  /\ pc[p] = "stored" /\ lines' \in {lines, lines \cup {adding[p]}}
  /\ IF adding[p] \in FromUser
     THEN /\ Goto(p, "marking") /\ resumes' = [resumes EXCEPT ![p].own = adding[p]]
          /\ UNCHANGED <<adding, added>>
     ELSE /\ Goto(p, "ready") /\ added' = added \cup {adding[p]}
          /\ adding' = [adding EXCEPT ![p] = Nothing] /\ UNCHANGED resumes
  /\ UNCHANGED <<table, todo, before, beside, stored, wiped>>

InsertCheckpoint(p) ==
  /\ pc[p] = "marking" /\ table["Checkpoints"].schema = "new"
  /\ Insert("Checkpoints", adding[p]) /\ Goto(p, "ready")
  /\ added' = added \cup {adding[p]} /\ adding' = [adding EXCEPT ![p] = Nothing]
  /\ UNCHANGED <<todo, resumes, lines, before, beside, stored, wiped>>

\* Wherever it has come to: no row, no line, or no checkpoint.
AddFails(p) ==
  /\ pc[p] \in {"adding", "stored", "marking"} /\ Goto(p, "ready")
  /\ adding' = [adding EXCEPT ![p] = Nothing]
  /\ UNCHANGED <<table, todo, resumes, lines, history>>

Dies(p) ==
  /\ pc[p] \notin {"off", "failed", "dead"} /\ Goto(p, "dead")
  /\ todo' = [todo EXCEPT ![p] = <<>>] /\ adding' = [adding EXCEPT ![p] = Nothing]
  /\ UNCHANGED <<table, resumes, lines, history>>

Next ==
  \E p \in Proc :
    \/ Open(p) \/ Look(p) \/ Count(p) \/ Drop(p) \/ AllSeen(p) \/ Make(p) \/ Load(p) \/ OpenFails(p)
    \/ InsertHot(p) \/ Mirror(p) \/ InsertCheckpoint(p) \/ AddFails(p) \/ Dies(p)
    \/ \E m \in Msg : Begin(p, m)

Spec == Init /\ [][Next]_vars

-------------------------------------------------------------------------------
TypeOK ==
  /\ \A t \in Range(Tables) : table[t].schema \in {"none", "old", "new"} /\ Rows(t) \subseteq Msg \cup {Old}
  /\ adding \in [Proc -> Msg \cup {Nothing}]
  /\ resumes \in [Proc -> [loaded : FromUser \cup {Nothing}, own : FromUser \cup {Nothing}]]
  /\ lines \cup stored \cup added \subseteq Msg /\ DOMAIN wiped \subseteq Msg \cup {Old}

\* "Never destroy data" (memory/db.py:144): rows of the older schema stay, and so
\* does every message that was stored; only a process that was opening the file when
\* the row was made may have dropped it, having counted the rows of the table before.
RowsSurvive ==
  /\ Old \notin DOMAIN wiped
  /\ \A m \in stored : m \in Rows("Memory_Hot") \/ (m \in DOMAIN wiped /\ wiped[m] \in beside[m])

\* Neither a line nor a checkpoint is there without the row it repeats.
CopiesFollowRows == lines \cup (Rows("Checkpoints") \ {Old}) \subseteq stored

\* The session resumes with the newest command (get_session_resume): never with one that
\* had been added before another began that was added too.
ResumeIsNewest ==
  Newest("Checkpoints") \notin {Nothing, Old} =>
    \A m \in added \cap FromUser :
      m \in Rows("Checkpoints") => Newest("Checkpoints") \notin before[m]

MemoryDbIsSound == RowsSurvive /\ CopiesFollowRows /\ ResumeIsNewest
===============================================================================
