---------------------------- MODULE PromptQueueSpec ---------------------------
(***************************************************************************)
(* What the prompt queue promises its callers: one list of items that      *)
(* every operation changes in one step, and an archive that keeps what     *)
(* clearing takes out of it (lib/prompt_queue.py, _locked and clear).      *)
(***************************************************************************)
EXTENDS PromptQueueOps

VARIABLES
  q,                   \* the list of items
  archive              \* the lists that were cleared

specVars == <<q, archive>>

SpecInit == q = <<>> /\ archive = {}

\* The places of the parts that contradict no live item but the target.
Fitting(items, prompt) ==
  {k \in DOMAIN prompt.parts :
     \A i \in Live(items) \ {TargetOf(items, prompt)} :
       ~Conflict(prompt.parts[k], items[i].text)}

\* Those among them up to a place.
FittingUpTo(items, prompt, k) == {j \in Fitting(items, prompt) : j <= k}

\* The n-th of them.
NthFitting(items, prompt, n) ==
  CHOOSE k \in Fitting(items, prompt) : Cardinality(FittingUpTo(items, prompt, k)) = n

\* The n-th new item: they are numbered on from the largest id.
Added(items, prompt, n) ==
  [NewItem(items, prompt.parts[NthFitting(items, prompt, n)]) EXCEPT !.id = @ + n - 1]

\* A revision supersedes its target; the parts of a prompt that contradict no
\* other live item become the last items of the list; the target points at the
\* first of them.
AfterSubmit(items, prompt) ==
  LET new == Cardinality(Fitting(items, prompt)) IN
  [i \in 1..(Len(items) + new) |->
     IF i = TargetOf(items, prompt)
       THEN [items[i] EXCEPT !.status = "superseded",
                             !.by = IF new = 0 THEN 0 ELSE NextId(items)]
     ELSE IF i <= Len(items) THEN items[i]
     ELSE Added(items, prompt, i - Len(items))]

Submit(prompt) == q' = AfterSubmit(q, prompt) /\ UNCHANGED archive

Mark(id, status) ==
  id \in Ids(q) /\ q' = AfterMark(q, id, status) /\ UNCHANGED archive

Clear == q # <<>> /\ q' = <<>> /\ archive' = archive \cup {q}

SpecNext ==
  \/ \E prompt \in Prompt : Submit(prompt)
  \/ \E id \in Ids(q), status \in {"done", "dropped"} : Mark(id, status)
  \/ Clear

Spec == SpecInit /\ [][SpecNext]_specVars
===============================================================================
