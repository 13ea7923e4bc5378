------------------------------- MODULE WarmCopy --------------------------------
(***************************************************************************)
(* The warm copy of the hot memory (lib/overseer.py): at every tick the    *)
(* overseer appends what the warm file lacks, as bytes and by the lengths  *)
(* of the two files, while the hot file grows, and may be emptied by the   *)
(* memory server (memory/mcp_server.py).                                   *)
(***************************************************************************)
EXTENDS Integers, Sequences, FiniteSets

CONSTANTS
  Width,               \* bytes of every row, the end of the line among them
  MaxTorn              \* bound on copies that are cut short

Row == DOMAIN Width

VARIABLES
  hot, warm,           \* the files, as bytes
  rows,                \* rows written so far
  cleared,             \* whether memory_clear has emptied the hot file
  measured, gap,       \* the length that was measured, what is to be appended
  torn                 \* copies that were cut short

copying == <<warm, measured, gap, torn>>
store == <<hot, rows, cleared>>
vars == <<store, copying>>

Idle == -1

Init ==
  /\ hot = <<>> /\ warm = <<>> /\ rows = 0 /\ cleared = FALSE
  /\ measured = Idle /\ gap = <<>> /\ torn = 0

Line(r) == [k \in 1..Width[r] |-> <<r, k>>]
Ends(byte) == byte[2] = Width[byte[1]]

\* The lines of a file, by their last bytes: those that are a row, and the others
\* that are more than the end of a line.
Reads(file, r) ==
  {i \in DOMAIN file : /\ i >= Width[r] /\ SubSeq(file, i - Width[r] + 1, i) = Line(r)
                       /\ i = Width[r] \/ Ends(file[i - Width[r]])}
Spoilt(file) ==
  {i \in DOMAIN file : /\ Ends(file[i]) /\ \A r \in Row : i \notin Reads(file, r)
                       /\ i > 1 /\ ~Ends(file[i - 1])}

-------------------------------------------------------------------------------
\* The hot file.

AddRow ==
  /\ rows < Len(Width)
  /\ rows' = rows + 1 /\ hot' = hot \o Line(rows + 1)
  /\ UNCHANGED <<cleared, copying>>

\* memory_clear of the memory server
ClearHot ==
  /\ hot # <<>> /\ hot' = <<>> /\ cleared' = TRUE
  /\ UNCHANGED <<rows, copying>>

-------------------------------------------------------------------------------
\* _hot_to_warm_sync: it looks at the lengths, reads what lies behind the last but
\* one byte, and appends that.

From(size) == IF size = 0 THEN 0 ELSE size - 1

Measure ==
  /\ measured = Idle /\ Len(warm) < Len(hot)
  /\ measured' = Len(warm)
  /\ UNCHANGED <<store, warm, gap, torn>>

ReadGap ==
  /\ measured # Idle /\ gap = <<>>
  /\ LET read == SubSeq(hot, From(measured) + 1, Len(hot)) IN
     gap' = read /\ measured' = IF read = <<>> THEN Idle ELSE measured
  /\ UNCHANGED <<store, warm, torn>>

\* The disk is full, or the overseer dies, when a part is written.
AppendGap ==
  /\ gap # <<>>
  /\ \/ warm' = warm \o gap /\ UNCHANGED torn
     \/ /\ torn < MaxTorn /\ torn' = torn + 1
        /\ \E n \in 0..Len(gap) - 1 : warm' = warm \o SubSeq(gap, 1, n)
  /\ measured' = Idle /\ gap' = <<>>
  /\ UNCHANGED store

-------------------------------------------------------------------------------
Next == AddRow \/ ClearHot \/ Measure \/ ReadGap \/ AppendGap

Spec == Init /\ [][Next]_vars

-------------------------------------------------------------------------------
TypeOK ==
  /\ {hot, warm, gap} \subseteq Seq(UNION {{<<r, k>> : k \in 1..Width[r]} : r \in Row})
  /\ rows \in 0..Len(Width) /\ cleared \in BOOLEAN
  /\ measured \in Nat \cup {Idle} /\ torn \in 0..MaxTorn

\* As long as the hot file only grows, the warm file has each of its rows once and
\* in their order, up to where it goes, although every copy but the first begins
\* with a byte it has already; a copy that was cut short spoils one row at most.
WarmFollowsHot ==
  ~cleared =>
    /\ \A r \in Row : Cardinality(Reads(warm, r)) <= 1
    /\ \A r, q \in Row : \A i \in Reads(warm, r), j \in Reads(warm, q) : i < j => r < q
    /\ Cardinality(Spoilt(warm)) <= torn
    /\ LET last == {r \in Row : \E q \in Row : q >= r /\ Reads(warm, q) # {}} IN
       Cardinality({r \in last : Reads(warm, r) = {}}) <= torn
===============================================================================
