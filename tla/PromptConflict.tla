---------------------------- MODULE PromptConflict ----------------------------
(***************************************************************************)
(* The directive a prompt part is read as, and the rule that decides       *)
(* whether a new part contradicts an earlier one                           *)
(* (lib/prompt_queue.py: _directive, _conflict_between).                   *)
(*                                                                         *)
(* A part is the record of what the regular expressions of the source      *)
(* extract from its text; "" stands for the None of the source.            *)
(*   verb        the first word that is a key of _VERB_POLARITY            *)
(*   negWord     a negation word stands within three words of the verb     *)
(*   target      the first content word after the verb                     *)
(*   choice      what is used, installed, switched to, adopted             *)
(*   role        what it is used for / as / to / in                        *)
(*   renameSubj, renameVal   "rename <subj> to <val>"                      *)
(***************************************************************************)
EXTENDS Integers

\* A role name is a text: RoleWithin(r, s) says that r is a substring of s.
CONSTANT RoleWithin(_, _)

None == ""

VerbPolarity ==
  [add |-> 1, create |-> 1, build |-> 1, make |-> 1, include |-> 1, keep |-> 1,
   enable |-> 1, start |-> 1, install |-> 1, use |-> 1, write |-> 1,
   implement |-> 1, drop |-> 0,
   remove |-> -1, delete |-> -1, disable |-> -1, stop |-> -1, exclude |-> -1,
   hide |-> -1]

Verbs == DOMAIN VerbPolarity

\* The window the negation is looked for in contains the verb itself, and
\* "stop" is both a verb and a negation word.
Negated(d) == d.negWord \/ d.verb = "stop"

Polarity(d) ==
  IF d.verb = None THEN 0
  ELSE IF Negated(d) THEN -VerbPolarity[d.verb] ELSE VerbPolarity[d.verb]

\* The pairs of the `exclusive` table. The source looks a pair up after
\* sorting it, so the two entries that are not written in alphabetical order,
\* <<"enable", "disable">> and <<"include", "exclude">>, are never found.
ExclusiveTable ==
  { <<"add", "remove">>, <<"create", "delete">>, <<"start", "stop">>,
    <<"enable", "disable">>, <<"include", "exclude">> }

\* tuple(sorted([v, w])) for the verbs of the table: v precedes w in the
\* alphabet exactly when <<v, w>> is one of these.
Sorted ==
  { <<"add", "remove">>, <<"create", "delete">>, <<"start", "stop">>,
    <<"disable", "enable">>, <<"exclude", "include">> }

Exclusive(v, w) ==
  \E pair \in ExclusiveTable \cap Sorted : pair = <<v, w>> \/ pair = <<w, v>>

SameTarget(new, old) == new.target # None /\ new.target = old.target

OppositeDirection(new, old) ==
  /\ SameTarget(new, old)
  /\ Polarity(new) # 0
  /\ Polarity(old) # 0
  /\ Polarity(new) # Polarity(old)

ExclusiveVerbs(new, old) ==
  /\ SameTarget(new, old)
  /\ Exclusive(new.verb, old.verb)

\* One of the two roles is the other or contains it.
SameRole(r, s) == r = s \/ RoleWithin(r, s) \/ RoleWithin(s, r)

OtherChoiceForRole(new, old) ==
  /\ new.choice # None /\ old.choice # None /\ new.choice # old.choice
  /\ new.verb = old.verb
  /\ new.verb \in {"use", "install"}   \* "switch", "go", "adopt" are no verbs
  /\ new.role # None /\ old.role # None
  /\ SameRole(new.role, old.role)

RenamedTwice(new, old) ==
  /\ new.renameSubj # None /\ new.renameSubj = old.renameSubj
  /\ new.renameVal # None /\ old.renameVal # None
  /\ new.renameVal # old.renameVal

ConflictBetween(new, old) ==
  \/ OppositeDirection(new, old)
  \/ ExclusiveVerbs(new, old)
  \/ OtherChoiceForRole(new, old)
  \/ RenamedTwice(new, old)

===============================================================================
