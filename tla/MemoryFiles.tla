------------------------------ MODULE MemoryFiles ------------------------------
(***************************************************************************)
(* The hot and the cold file of the memory, as the memory server           *)
(* (memory/mcp_server.py), the agent's tools (lib/converted_mcp_tools.py)  *)
(* and the launcher (lib/memory_thin.py) write, read and clear them, all   *)
(* with the tail reader of lib/memory_readers.py. A row is two pieces, the *)
(* second of which ends its line; a write that is cut short leaves the     *)
(* first, and runs into the row that follows.                              *)
(***************************************************************************)
EXTENDS Naturals, Sequences, SequencesExt

CONSTANTS
  Reader,              \* those who read
  Window, Extra,       \* pieces the tail reader looks at, and takes beyond
  Limits,              \* how many rows may be asked for
  MaxRows, MaxTorn, MaxNotes, MaxReads    \* bounds

Tier == {"hot", "cold"}
Row == 1..MaxRows

VARIABLES
  file,                \* the pieces of both files
  written,             \* rows written so far
  torn,                \* writes that were cut short
  notes,               \* lines of the markdown file beside the cold file
  serving,             \* whether the memory server runs
  look,                \* what a reader has found out before it opens the file
  reads,               \* reads that were begun
  answers              \* what the reads have yielded

store == <<file, written, torn, notes, serving>>
vars == <<store, look, reads, answers>>

Idle == [tier |-> "none"]

Init ==
  /\ file = [t \in Tier |-> <<>>] /\ written = 0 /\ torn = 0 /\ notes \in 0..MaxNotes
  /\ serving = TRUE /\ look = [r \in Reader |-> Idle] /\ reads = 0 /\ answers = {}

-------------------------------------------------------------------------------
\* The tail reader.

\* Where the lines of a file end, and the rows that stand alone on their line.
Ends(f) == {i \in DOMAIN f : f[i][2] = 2}
Alone(f) == {i \in Ends(f) : /\ i > 1 /\ f[i - 1] = <<f[i][1], 1>>
                             /\ i = 2 \/ i - 2 \in Ends(f)}
RowsAt(f, places) == LET in == SetToSortSeq(places, <) IN [k \in DOMAIN in |-> f[in[k]][1]]

\* Lines that do not parse are dropped.
Parse(f) == RowsAt(f, Alone(f))

\* The reader begins behind the first end of a line it meets.
Behind(f, skipped) ==
  IF skipped = 0 THEN 0
  ELSE LET later == {i \in Ends(f) : i > skipped} IN
       IF later = {} THEN Len(f) ELSE CHOOSE i \in later : \A j \in later : i <= j

Tail_(f, size) ==
  LET window == IF size < Window THEN size ELSE Window
      from == Behind(f, size - window)
      to == from + window + Extra IN
  SubSeq(f, from + 1, IF to < Len(f) THEN to ELSE Len(f))

LastOf(n, rows) == SubSeq(rows, IF n < Len(rows) THEN Len(rows) - n + 1 ELSE 1, Len(rows))

-------------------------------------------------------------------------------
\* Those who write and clear.

Write(t) ==
  /\ written < MaxRows /\ written' = written + 1
  /\ \/ file' = [file EXCEPT ![t] = @ \o <<<<written + 1, 1>>, <<written + 1, 2>>>>] /\ UNCHANGED torn
     \/ /\ torn < MaxTorn /\ torn' = torn + 1
        /\ file' = [file EXCEPT ![t] = Append(@, <<written + 1, 1>>)]
  /\ UNCHANGED <<notes, serving, look, reads, answers>>

\* The readers under way will not find what they have seen.
Lost(t) == look' = [r \in Reader |-> IF look[r].tier = t THEN [look[r] EXCEPT !.kept = FALSE] ELSE look[r]]

\* The server clears the markdown file with the cold file, the agent's tool does not.
Clear(t, server) ==
  /\ file[t] # <<>> /\ (server => serving)
  /\ file' = [file EXCEPT ![t] = <<>>] /\ Lost(t)
  /\ notes' = IF server /\ t = "cold" THEN 0 ELSE notes
  /\ UNCHANGED <<written, torn, serving, reads, answers>>

\* A request that is no JSON, or a limit that is no number, ends the server.
Misunderstand == serving /\ serving' = FALSE /\ UNCHANGED <<file, written, torn, notes, look, reads, answers>>

-------------------------------------------------------------------------------
\* A read: the size of the file first, then what it holds. In reach are the rows
\* behind another line's end in the window, or all of them, if the file fits.

InReach(f) ==
  {i \in Alone(f) : Len(f) <= Window \/ i - 2 > Len(f) - Window}

Measure(r, t, n, server) ==
  /\ look[r] = Idle /\ reads < MaxReads /\ (server => serving)
  /\ look' = [look EXCEPT ![r] = [tier |-> t, size |-> Len(file[t]), limit |-> n, server |-> server,
                                  old |-> RowsAt(file[t], InReach(file[t])), kept |-> TRUE]]
  /\ reads' = reads + 1 /\ UNCHANGED <<store, answers>>

\* Of the cold file the server shows the markdown lines too, after the rows.
ShownRows(l, rows) ==
  IF l.server /\ l.tier = "cold" /\ notes > 0
  THEN IF notes >= l.limit THEN <<>> ELSE LastOf(l.limit - notes, rows)
  ELSE rows

TakeTail(r) ==
  /\ look[r] # Idle
  /\ LET l == look[r]
         rows == LastOf(l.limit, Parse(Tail_(file[l.tier], l.size))) IN
     /\ answers' = answers \cup {[look |-> l, rows |-> ShownRows(l, rows), whole |-> ShownRows(l, rows) = rows]}
     /\ look' = [look EXCEPT ![r] = Idle]
  /\ UNCHANGED <<store, reads>>

-------------------------------------------------------------------------------
Next ==
  \/ \E t \in Tier, b \in BOOLEAN : Write(t) \/ Clear(t, b)
  \/ Misunderstand
  \/ \E r \in Reader, t \in Tier, n \in Limits, b \in BOOLEAN : Measure(r, t, n, b)
  \/ \E r \in Reader : TakeTail(r)

Spec == Init /\ [][Next]_vars

-------------------------------------------------------------------------------
TypeOK ==
  /\ file \in [Tier -> Seq(Row \X {1, 2})] /\ written \in 0..MaxRows /\ torn \in 0..MaxTorn
  /\ notes \in 0..MaxNotes /\ serving \in BOOLEAN /\ reads \in 0..MaxReads
  /\ \A r \in Reader : look[r].tier \in Tier \cup {"none"}
  /\ \A a \in answers : a.rows \in Seq(Row)

\* A read yields rows in the order of the file, each once, and the newest: a row
\* that was there when the read began and in reach is shown, or as many later ones
\* as were asked for, whatever broken lines there are and whatever is written
\* meanwhile; unless the file is cleared meanwhile or markdown lines take the place.
ReadsNewest ==
  \A a \in answers :
    /\ \A i, j \in DOMAIN a.rows : i < j => a.rows[i] < a.rows[j]
    /\ a.look.kept /\ a.whole =>
         \A row \in Range(a.look.old) :
           \/ row \in Range(a.rows)
           \/ Len(a.rows) = a.look.limit /\ \A i \in DOMAIN a.rows : a.rows[i] > row
===============================================================================
