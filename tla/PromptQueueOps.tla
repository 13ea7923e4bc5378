---------------------------- MODULE PromptQueueOps ----------------------------
(***************************************************************************)
(* The list of items of the prompt queue and what each operation makes of  *)
(* it (lib/prompt_queue.py). Ids are the numbers n of "Q-n"; the field by  *)
(* is superseded_by, 0 for None. The time stamps of the items are left out.*)
(***************************************************************************)
EXTENDS Integers, Sequences, FiniteSets

CONSTANTS
  Part,                \* the parts a prompt can be decomposed into
  Prompt,              \* the prompts: [parts : Seq(Part), revision : BOOLEAN]
  Conflict(_, _),      \* a new part contradicts an earlier one
  Role(_), NoRole,     \* the role a part names, if any
  Overlap(_, _)        \* number of content words two parts share

ASSUME PromptsAreParts ==
  \A prompt \in Prompt :
    prompt.parts \in Seq(Part) /\ prompt.revision \in BOOLEAN

Status == {"queued", "active", "done", "superseded", "dropped"}

Closed == {"done", "superseded", "dropped"}

Item == [id : Nat, text : Part, status : Status, by : Nat]

Live(items) == {i \in DOMAIN items : items[i].status \notin Closed}

Ids(items) == {items[i].id : i \in DOMAIN items}

MaxId(items) ==
  CHOOSE n \in Ids(items) \cup {0} : \A m \in Ids(items) : m <= n

NextId_LiveOnly(items) ==                                \* mutated form
  1 + CHOOSE n \in {items[i].id : i \in Live(items)} \cup {0} :
        \A i \in Live(items) : items[i].id <= n

NextId(items) == MaxId(items) + 1

Latest(S) == CHOOSE i \in S : \A j \in S : j <= i

\* _supersede_target: the latest live item for the same role, else the latest
\* of the live items that share most words, at least two, with the new part.
SupersedeTarget(part, items) ==
  LET live == Live(items)
      sameRole == {i \in live : Role(items[i].text) = Role(part)}
      similar == {i \in live :
                    /\ Overlap(part, items[i].text) >= 2
                    /\ \A j \in live : Overlap(part, items[j].text)
                                         <= Overlap(part, items[i].text)}
  IN  IF Role(part) # NoRole /\ sameRole # {} THEN Latest(sameRole)
      ELSE IF similar # {} THEN Latest(similar)
      ELSE 0

\* The index of the item a prompt supersedes, 0 if it supersedes none.
TargetOf(items, prompt) ==
  IF prompt.revision /\ prompt.parts # <<>>
    THEN SupersedeTarget(Head(prompt.parts), items) ELSE 0

NewItem(items, part) ==
  [id |-> NextId(items), text |-> part, status |-> "queued", by |-> 0]

\* mark_done() and drop(): the first item with that id, whatever its status.
AfterMark(items, id, status) ==
  [i \in 1..Len(items) |->
     IF items[i].id = id /\ \A j \in 1..(i - 1) : items[j].id # id
       THEN [items[i] EXCEPT !.status = status] ELSE items[i]]
===============================================================================
