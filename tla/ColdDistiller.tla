----------------------------- MODULE ColdDistiller ----------------------------
(***************************************************************************)
(* Distillers (lib/cold_distiller.py): they read the rows of the hot       *)
(* memory and write the facts they find to the cold table, each fact once. *)
(* One runs in the overseer, others as a command or as a daemon, and all   *)
(* keep one file of what they have seen; any may die.                      *)
(***************************************************************************)
EXTENDS Integers, Sequences, FiniteSets

CONSTANTS
  Facts,               \* the facts of every row, in the order in which the rows come
  Distiller,
  Cap,                 \* seen facts that are kept: 10000
  MaxRuns              \* bound on the runs of the distillers

Row == DOMAIN Facts
Fact == UNION {Facts[r] : r \in Row}

VARIABLES
  rows,                \* how many rows the hot memory has
  pc,                  \* where every distiller is
  seen, saved,         \* what it has seen, and the file of it
  todo,                \* facts of the rows it has read
  cold,                \* how often every fact is in the cold table
  runs, upsets         \* runs so far, those that were disturbed

distillVars == <<rows, pc, seen, saved, todo, cold, runs, upsets>>

DistillInit ==
  /\ rows = 0
  /\ pc = [d \in Distiller |-> "off"]
  /\ seen = [d \in Distiller |-> {}] /\ saved = {} /\ todo = [d \in Distiller |-> {}]
  /\ cold = [f \in Fact |-> 0] /\ runs = 0 /\ upsets = 0

AddRow ==
  /\ rows < Len(Facts) /\ rows' = rows + 1
  /\ UNCHANGED <<pc, seen, saved, todo, cold, runs, upsets>>

\* A run is upset when another distiller is at work as it begins, when it cannot
\* read what was seen, when it dies, and when not all of what it has seen is kept.
Upset(b) == upsets' = upsets + IF b THEN 1 ELSE 0

\* A file that cannot be read counts as an empty one.
Load(d) ==
  /\ pc[d] = "off" /\ runs < MaxRuns
  /\ pc' = [pc EXCEPT ![d] = "scan"] /\ runs' = runs + 1
  /\ \E readable \in BOOLEAN :
       /\ seen' = [seen EXCEPT ![d] = IF readable THEN saved ELSE {}]
       /\ Upset(~readable \/ \E e \in Distiller \ {d} : pc[e] # "off")
  /\ UNCHANGED <<rows, saved, todo, cold>>

Scan(d) ==
  /\ pc[d] = "scan" /\ pc' = [pc EXCEPT ![d] = "write"]
  /\ todo' = [todo EXCEPT ![d] = UNION {Facts[r] : r \in 1..rows}]
  /\ UNCHANGED <<rows, seen, saved, cold, runs, upsets>>

\* Mutated form: a fact counts as seen when the table has refused it.
WriteFact_SeenFirst(d) ==
  /\ pc[d] = "write"
  /\ \E f \in todo[d] :
       /\ todo' = [todo EXCEPT ![d] = @ \ {f}]
       /\ seen' = [seen EXCEPT ![d] = @ \cup {f}]
       /\ \E ok \in {0, 1} :
            cold' = IF f \in seen[d] THEN cold ELSE [cold EXCEPT ![f] = @ + ok]
  /\ UNCHANGED <<rows, pc, saved, runs, upsets>>

\* The table may refuse, and the fact has to wait for the next run.
WriteFact(d) ==
  /\ pc[d] = "write"
  /\ \E f \in todo[d] :
       /\ todo' = [todo EXCEPT ![d] = @ \ {f}]
       /\ \/ /\ f \notin seen[d]
             /\ cold' = [cold EXCEPT ![f] = @ + 1] /\ seen' = [seen EXCEPT ![d] = @ \cup {f}]
          \/ UNCHANGED <<cold, seen>>
  /\ UNCHANGED <<rows, pc, saved, runs, upsets>>

\* _save_seen_facts empties the file, then writes what fits.
BeginSave(d) ==
  /\ pc[d] = "write" /\ todo[d] = {}
  /\ pc' = [pc EXCEPT ![d] = "save"] /\ saved' = {}
  /\ UNCHANGED <<rows, seen, todo, cold, runs, upsets>>

Kept(facts) ==
  {kept \in SUBSET facts :
     Cardinality(kept) = IF Cardinality(facts) < Cap THEN Cardinality(facts) ELSE Cap}

\* If it cannot be written, the file stays empty. The daemon goes on with what it knows.
EndSave(d) ==
  /\ pc[d] = "save"
  /\ \E kept \in Kept(seen[d]) \cup {{}} : saved' = kept /\ Upset(kept # seen[d])
  /\ \/ pc' = [pc EXCEPT ![d] = "off"] /\ seen' = [seen EXCEPT ![d] = {}] /\ UNCHANGED runs
     \/ /\ runs < MaxRuns /\ runs' = runs + 1
        /\ pc' = [pc EXCEPT ![d] = "scan"] /\ UNCHANGED seen
  /\ UNCHANGED <<rows, todo, cold>>

\* A distiller that has yet to write loses nothing.
Die(d) ==
  /\ pc[d] \in {"write", "save"} /\ pc' = [pc EXCEPT ![d] = "off"]
  /\ seen' = [seen EXCEPT ![d] = {}] /\ todo' = [todo EXCEPT ![d] = {}]
  /\ Upset(TRUE)
  /\ UNCHANGED <<rows, saved, cold, runs>>

DistillNext ==
  \/ AddRow
  \/ \E d \in Distiller : Load(d) \/ Scan(d) \/ WriteFact(d) \/ BeginSave(d) \/ EndSave(d) \/ Die(d)

DistillSpec == DistillInit /\ [][DistillNext]_distillVars

-------------------------------------------------------------------------------
DistillTypeOK ==
  /\ rows \in 0..Len(Facts)
  /\ pc \in [Distiller -> {"off", "scan", "write", "save"}]
  /\ seen \in [Distiller -> SUBSET Fact] /\ todo \in [Distiller -> SUBSET Fact]
  /\ saved \subseteq Fact /\ cold \in [Fact -> Nat]
  /\ runs \in 0..MaxRuns /\ upsets \in Nat

\* A fact is in the cold table once, and once more for every upset at most; and what
\* counts as seen, in a file or a distiller, is in the table, so none is given up.
FactsOnce ==
  \A f \in Fact :
    /\ cold[f] <= 1 + upsets
    /\ f \in saved \cup UNION {seen[d] : d \in Distiller} => cold[f] > 0
===============================================================================
