------------------------------- MODULE CveIntel -------------------------------
(***************************************************************************)
(* The vulnerability intelligence of the security console                  *)
(* (lib/cve_intel.py) and those who act on it (lib/soar_playbooks.py,      *)
(* lib/siem_bridge.py). A poll asks NVD, CISA, GHSA and OSV, drops what is *)
(* already in the intel file and appends the rest; polls are processes of  *)
(* their own, take no lock, and may die. The file is what was written to   *)
(* it, piece by piece.                                                     *)
(***************************************************************************)
EXTENDS Integers, Sequences, FiniteSets

CONSTANTS
  Cve,                 \* identifiers
  Exploited,           \* those that CISA ever lists
  Severe,              \* those that NVD ever rates 9.0 or more
  Poll,                \* polls, each at most once
  NoLine,              \* no line begun
  Limit                \* the most entries recent returns

VARIABLES
  intel,               \* the pieces of intel.jsonl
  polling,                  \* where every poll is
  got,                 \* the identifiers it got
  marked,              \* those it takes for critical
  unwritten,                \* those it is yet to append
  begun,               \* the one of which it has written the beginning
  delivered,           \* what the polls that ended had got
  overlap,             \* whether a poll looked at the file while another was to write, or could not read it
  torn,                \* how many polls have died within a line
  alerted              \* the playbooks run so far

poll == <<polling, got, marked, unwritten, begun>>
history == <<delivered, overlap, torn>>
intelVars == <<intel, poll, history, alerted>>

Nothing == [p \in Poll |-> {}]

IntelInit ==
  /\ intel = <<>>
  /\ polling = [p \in Poll |-> "ask"]
  /\ got = Nothing /\ marked = Nothing /\ unwritten = Nothing /\ begun = [p \in Poll |-> NoLine]
  /\ delivered = {} /\ overlap = FALSE /\ torn = 0 /\ alerted = {}

\* Entries of the file. A line begins behind a line's end; it can be parsed when it
\* is in one piece or when its rest follows its head.
EndsLine(piece) == piece.kind \in {"line", "rest"}
Joined(i) == i < Len(intel) /\ intel[i + 1] = [intel[i] EXCEPT !.kind = "rest"]
Parses(i) == /\ i = 1 \/ EndsLine(intel[i - 1])
             /\ intel[i].kind = "line" \/ (intel[i].kind \in {"head", "cut"} /\ Joined(i))
Rows == {i \in DOMAIN intel : Parses(i)}

Recorded == {intel[i].id : i \in Rows}

\* A line that ends within a character makes the file unreadable, for good unless
\* its rest comes: UnicodeDecodeError is none of the errors that are caught.
Readable == \A i \in DOMAIN intel : intel[i].kind = "cut" => Joined(i)

-------------------------------------------------------------------------------
\* What a poll gets. An answer that is not JSON counts as an empty one.

\* poll_nvd: the last answer has to do when NVD cannot be reached.
Nvd == SUBSET Cve

\* _nvd_to_entry: NVD alone rates an entry, as it does at the time; those rated 9.0
\* or more.
Rated == SUBSET Severe

\* poll_kev: the list as it is now or was six hours ago, or was not to be had then.
Kev == SUBSET Exploited

\* poll_ghsa, poll_osv: what fails is passed over.
Ghsa == SUBSET Cve
Osv == SUBSET Cve

\* diff_against_last: a file that cannot be opened counts as empty.
Diff(p, entries) ==
  \/ /\ Readable
     /\ unwritten' = [unwritten EXCEPT ![p] = entries \ Recorded]
     /\ overlap' = (overlap \/ \E q \in Poll \ {p} : polling[q] = "write")
  \/ unwritten' = [unwritten EXCEPT ![p] = entries] /\ overlap' = TRUE

\* The entries by identifier, and what of them is new; asking has no other effect.
\* NVD's entry of an identifier goes before GHSA's; what only OSV has comes when the
\* exploited ones are already marked.
Ask(p) ==
  /\ polling[p] = "ask" /\ polling' = [polling EXCEPT ![p] = "write"]
  /\ \E nvd \in Nvd, rated \in Rated, kev \in Kev, ghsa \in Ghsa, osv \in Osv :
       LET entries == nvd \cup ghsa \cup osv IN
       /\ got' = [got EXCEPT ![p] = entries]
       /\ marked' = [marked EXCEPT ![p] = (rated \cap nvd) \cup (kev \cap (nvd \cup ghsa))]
       /\ Diff(p, entries)
  /\ UNCHANGED <<intel, begun, delivered, torn, alerted>>

\* The poll ends, with or without an error.
Over(p, how) ==
  /\ polling' = [polling EXCEPT ![p] = how]
  /\ got' = [got EXCEPT ![p] = {}] /\ marked' = [marked EXCEPT ![p] = {}]
  /\ unwritten' = [unwritten EXCEPT ![p] = {}] /\ begun' = [begun EXCEPT ![p] = NoLine]

\* An error that nothing catches ends a poll that cannot read the file. One that
\* fails to ask never gets that far.
Fail(p) ==
  /\ polling[p] = "ask" /\ ~Readable
  /\ Over(p, "dead")
  /\ UNCHANGED <<intel, history, alerted>>

Piece(p, c, kind) == [id |-> c, critical |-> c \in marked[p], by |-> p, kind |-> kind]

\* Mutated form: write_intel opens the file anew.
WriteEntry_Truncates(p) ==
  /\ polling[p] = "write" /\ begun[p] = NoLine
  /\ \E c \in unwritten[p] :
       /\ unwritten' = [unwritten EXCEPT ![p] = @ \ {c}]
       /\ intel' = <<Piece(p, c, "line")>>
  /\ UNCHANGED <<polling, got, marked, begun, history, alerted>>

\* write_intel: the buffer goes to the file when it is full, which may be within a
\* line or a character.
WriteEntry(p) ==
  /\ polling[p] = "write" /\ begun[p] = NoLine
  /\ \E c \in unwritten[p] :
       /\ unwritten' = [unwritten EXCEPT ![p] = @ \ {c}]
       /\ \/ intel' = Append(intel, Piece(p, c, "line")) /\ UNCHANGED begun
          \/ \E kind \in {"head", "cut"} : /\ intel' = Append(intel, Piece(p, c, kind))
                                           /\ begun' = [begun EXCEPT ![p] = c]
  /\ UNCHANGED <<polling, got, marked, history, alerted>>

WriteRest(p) ==
  /\ begun[p] # NoLine
  /\ intel' = Append(intel, Piece(p, begun[p], "rest"))
  /\ begun' = [begun EXCEPT ![p] = NoLine]
  /\ UNCHANGED <<polling, got, marked, unwritten, history, alerted>>

Close(p) ==
  /\ polling[p] = "write" /\ unwritten[p] = {} /\ begun[p] = NoLine
  /\ Over(p, "done")
  /\ delivered' = delivered \cup got[p]
  /\ UNCHANGED <<intel, overlap, torn, alerted>>

Die(p) ==
  /\ polling[p] = "write" /\ Over(p, "dead")
  /\ torn' = torn + IF begun[p] # NoLine THEN 1 ELSE 0
  /\ UNCHANGED <<intel, delivered, overlap, alerted>>

\* run_on_recent and push_recent_cves: recent takes the first entries of the file
\* that were published within its window, and not the newest.
Recent(within) == {i \in within : Cardinality({j \in within : j < i}) < Limit}

\* run_for_cve: a critical entry sets off the playbooks that notify, block and
\* isolate; of the others, those rated 7.0 or more are logged.

Act ==
  /\ Readable
  /\ \E within \in SUBSET Rows :
       alerted' = alerted \cup {[id |-> intel[i].id, critical |-> intel[i].critical] : i \in Recent(within)}
  /\ UNCHANGED <<intel, poll, history>>

PollStep(p) ==
  \/ Ask(p) \/ Fail(p) \/ WriteEntry(p) \/ WriteRest(p) \/ Close(p) \/ Die(p)

IntelNext == (\E p \in Poll : PollStep(p)) \/ Act

IntelSpec == IntelInit /\ [][IntelNext]_intelVars

-------------------------------------------------------------------------------
IntelTypeOK ==
  /\ intel \in Seq([id : Cve, critical : BOOLEAN, by : Poll, kind : {"line", "head", "cut", "rest"}])
  /\ polling \in [Poll -> {"ask", "write", "done", "dead"}]
  /\ {got, marked, unwritten} \subseteq [Poll -> SUBSET Cve]
  /\ begun \in [Poll -> Cve \cup {NoLine}]
  /\ delivered \subseteq Cve /\ overlap \in BOOLEAN /\ torn \in 0..Cardinality(Poll)
  /\ alerted \subseteq [id : Cve, critical : BOOLEAN]

\* What the polls that ended had got is in the file, whatever was in it when they
\* began: once each, and a poll that died within a line costs at most one entry of
\* a later one. So the playbooks take every entry for the same, all the time, and none
\* for critical that CISA never listed and NVD never rated so. Polls that overlap
\* write entries twice.
IntelIsComplete ==
  /\ ~overlap =>
       /\ \A i, j \in Rows : intel[i].id = intel[j].id => i = j
       /\ Cardinality(delivered \ Recorded) <= torn
       /\ \A a, b \in alerted : a.id = b.id => a = b
  /\ \A a \in alerted : a.critical => a.id \in Exploited \cup Severe
===============================================================================
