------------------------------ MODULE SecurityDesk -----------------------------
(***************************************************************************)
(* The security tracker's window (lib/sec_controls.py): it merges three    *)
(* stores of alerts, shows a card for each, and hands the firewall's       *)
(* helper what is to be blocked, as the playbooks (lib/soar_playbooks.py)  *)
(* do. The helper is another program: it goes through the file of commands *)
(* and keeps how far it is in a state file, which the window rewrites.     *)
(***************************************************************************)
EXTENDS Naturals, Sequences, FiniteSets

CONSTANTS
  Alert,               \* alerts, numbers in the order of their time
  FromCve,             \* those that come from the file of vulnerabilities
  WithAddress,         \* those that name an address
  Shown,               \* how many are merged, at most
  Many,                \* bound on the cards that are told apart
  MaxCommands          \* bound on commands to the firewall

VARIABLES
  stores,              \* the alerts in the three stores
  odd,                 \* whether some entry is not what it should be
  cards,               \* how many cards every alert has
  dismissed, summary,  \* alerts dismissed, and those the status line counts
  failed,              \* whether the last refresh has raised an error
  commands, state,     \* the file of commands; the state file: commands done, addresses blocked
  copy,                \* what the window read of the state file and will write back
  applied, refused,    \* commands the helper has run, with success or without
  told                 \* what the window says of the last block

window == <<cards, dismissed, summary, failed>>
helper == <<state, applied, refused>>
vars == <<stores, odd, window, commands, copy, helper, told>>

NoCopy == [done |-> 0, blocked |-> {}, of |-> 0]
Fresh == [done |-> 0, blocked |-> {}]

Init ==
  /\ stores = {} /\ odd = FALSE
  /\ cards = [a \in Alert |-> 0] /\ dismissed = {} /\ summary = {} /\ failed = FALSE
  /\ commands = <<>> /\ state = Fresh /\ copy = NoCopy /\ applied = {} /\ refused = {}
  /\ told = "ready"

-------------------------------------------------------------------------------
\* The stores are written by others.

Raise(a) ==
  /\ a \notin stores /\ stores' = stores \cup {a}
  /\ UNCHANGED <<odd, window, commands, copy, helper, told>>

\* An entry that is no object, a score that is no number, a time that is no text comes
\* into reach of the reader or leaves it.
Upset == odd' = ~odd /\ UNCHANGED <<stores, window, commands, copy, helper, told>>

-------------------------------------------------------------------------------
\* The window. Between the two halves of a block it does nothing else.

Free == copy = NoCopy

\* _merge_and_sort: the newest of all stores.
Merged(all) == {a \in all : Cardinality({b \in all : b > a}) < Shown}

\* _render_alerts looks for the card an alert has among those with a body, and none
\* is made with one: it makes another card.
Rendered(these) ==
  [a \in Alert |-> IF a \notin these THEN 0 ELSE IF cards[a] < Many THEN cards[a] + 1 ELSE Many]

\* One of them raises: by then those newer than it have another card, and the cards of
\* others are still there.
Begun(these, a) ==
  [b \in Alert |-> IF b \in these /\ b > a /\ cards[b] < Many THEN cards[b] + 1 ELSE cards[b]]

\* _apply_filters, after what else the same handler does: the stores are read, the status
\* line is set, the cards are made. An odd entry raises in the first or in the last.
Apply(all, gone) ==
  LET these == Merged(all) \ gone IN
  /\ failed' = odd
  /\ \/ odd /\ UNCHANGED <<cards, summary>>
     \/ odd /\ summary' = these /\ \E a \in these : cards' = Begun(these, a)
     \/ ~odd /\ summary' = these /\ cards' = Rendered(these)

\* Every two seconds, and by the button. The button that pauses has no effect here.
Refresh ==
  /\ Free /\ Apply(stores, dismissed)
  /\ UNCHANGED <<stores, odd, dismissed, commands, copy, helper, told>>

Dismiss(a) ==
  /\ Free /\ cards[a] > 0
  /\ dismissed' = dismissed \cup {a} /\ Apply(stores, dismissed \cup {a})
  /\ UNCHANGED <<stores, odd, commands, copy, helper, told>>

\* do_clear empties the log and the feed, as far as it can, and not the
\* vulnerabilities.
ClearLogs ==
  /\ Free
  /\ \E gone \in SUBSET (stores \ FromCve) :
       stores' = stores \ gone /\ Apply(stores \ gone, dismissed)
  /\ UNCHANGED <<odd, dismissed, commands, copy, helper, told>>

\* Mutated form: the file of commands is opened anew.
QueueBlock_Truncates(a) ==
  /\ Free /\ cards[a] > 0 /\ a \in WithAddress /\ Len(commands) < MaxCommands
  /\ commands' = <<a>> /\ \E s \in {state, Fresh} : copy' = [done |-> s.done, blocked |-> s.blocked, of |-> a]
  /\ UNCHANGED <<stores, odd, window, helper, told>>

\* _queue_block: the command first, then the state file is read; one that cannot be
\* read, for it is just being written, counts as new.
QueueBlock(a) ==
  /\ Free /\ cards[a] > 0 /\ a \in WithAddress /\ Len(commands) < MaxCommands
  /\ commands' = Append(commands, a)
  /\ \E s \in {state, Fresh} : copy' = [done |-> s.done, blocked |-> s.blocked, of |-> a]
  /\ UNCHANGED <<stores, odd, window, helper, told>>

\* The directory or the file cannot be written.
FailToQueue(a) ==
  /\ Free /\ cards[a] > 0 /\ a \in WithAddress /\ told' = "failed"
  /\ UNCHANGED <<stores, odd, window, commands, copy, helper>>

\* A success the helper ever had with the address will do.
RecordBlock ==
  /\ ~Free
  /\ \/ state' = [done |-> copy.done, blocked |-> copy.blocked \cup {copy.of}]
     \/ UNCHANGED state
  /\ told' = IF copy.of \in applied THEN "blocked" ELSE "queued"
  /\ copy' = NoCopy
  /\ UNCHANGED <<stores, odd, window, commands, applied, refused>>

-------------------------------------------------------------------------------
\* The others: a playbook appends a block of its own; the helper takes the next
\* command.

Playbook(a) ==
  /\ a \in WithAddress \cap stores /\ Len(commands) < MaxCommands
  /\ commands' = Append(commands, a)
  /\ UNCHANGED <<stores, odd, window, copy, helper, told>>

HelperTakes ==
  /\ state.done < Len(commands)
  /\ LET a == commands[state.done + 1] IN
     \/ /\ applied' = applied \cup {a} /\ UNCHANGED refused
        /\ state' = [done |-> state.done + 1, blocked |-> state.blocked \cup {a}]
     \/ /\ refused' = refused \cup {a} /\ UNCHANGED applied
        /\ state' = [state EXCEPT !.done = @ + 1]
  /\ UNCHANGED <<stores, odd, window, commands, copy, told>>

-------------------------------------------------------------------------------
Next ==
  \/ \E a \in Alert : Raise(a) \/ Dismiss(a) \/ QueueBlock(a) \/ FailToQueue(a) \/ Playbook(a)
  \/ Upset \/ Refresh \/ ClearLogs \/ RecordBlock \/ HelperTakes

Spec == Init /\ [][Next]_vars

-------------------------------------------------------------------------------
TypeOK ==
  /\ UNION {stores, dismissed, summary, applied, refused} \subseteq Alert
  /\ {odd, failed} \subseteq BOOLEAN /\ cards \in [Alert -> 0..Many]
  /\ commands \in Seq(Alert) /\ state.done \in 0..MaxCommands /\ state.blocked \subseteq Alert
  /\ told \in {"ready", "failed", "queued", "blocked"}

\* After a refresh that raised nothing the window tells the truth: every alert it
\* counts has a card, no other has, and none that was dismissed, however often the
\* stores are cleared and filled again and whatever a refresh that raised has left of
\* cards. (How many cards an alert has is another matter: each refresh makes one more.)
CardsFollowAlerts ==
  /\ ~failed => /\ summary \cap dismissed = {}
                /\ \A a \in Alert : a \in summary <=> cards[a] > 0
  /\ Cardinality(summary) <= Shown

\* No command is passed over, though the window writes back how far the helper was
\* some time ago: what lies behind the helper has been tried. It may be run twice.
NoCommandLost ==
  \A i \in DOMAIN commands : i <= state.done => commands[i] \in applied \cup refused
===============================================================================
