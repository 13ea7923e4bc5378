----------------------------- MODULE MCPromptQueue ----------------------------
(***************************************************************************)
(* The prompt queue over four real parts: "build api", "use react for the  *)
(* frontend", "use vue for the frontend" and "use postgres for the db".    *)
(* The second and the third contradict each other and name one role.       *)
(***************************************************************************)
EXTENDS PromptQueue, TLC

MCRoleWithin(r, s) == FALSE
Directives == INSTANCE PromptConflict WITH RoleWithin <- MCRoleWithin

PartOf(verb, target, choice, role) ==
  [verb |-> verb, negWord |-> FALSE, target |-> target, choice |-> choice,
   role |-> role, renameSubj |-> "", renameVal |-> ""]

Api == PartOf("build", "api", "", "")
React == PartOf("use", "react", "react", "frontend")
Vue == PartOf("use", "vue", "vue", "frontend")
Postgres == PartOf("use", "postgres", "postgres", "db")

MCPart == {Api, React, Vue, Postgres}
MCConflict(new, old) == Directives!ConflictBetween(new, old)
MCRole(part) == part.role
\* "frontend" and "react" or "vue" are two words; nothing else is shared.
MCOverlap(new, old) == IF new = old THEN 2 ELSE IF new.role = old.role THEN 1 ELSE 0

PromptOf(parts, revision) == [parts |-> parts, revision |-> revision]
MCPrompt ==
  { PromptOf(<<>>, FALSE), PromptOf(<<Api, React>>, FALSE),
    PromptOf(<<Vue>>, FALSE), PromptOf(<<Vue>>, TRUE),
    PromptOf(<<React, Postgres>>, TRUE) }

Sessions == Permutations(Proc)

\* The queue is cleared while no other call is on its way, in a second of its own.
QuietNext ==
  /\ Next
  /\ \A p \in Proc : op'[p].kind = "clear" =>
       /\ pc[p] = "idle" => archived[clock] = Absent
       /\ \A other \in Proc \ {p} : pc'[other] = "idle"

QuietSpec == Init /\ [][QuietNext]_vars /\ Fairness
===============================================================================
