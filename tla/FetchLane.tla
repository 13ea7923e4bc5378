------------------------------ MODULE FetchLane -------------------------------
(***************************************************************************)
(* The download of one file (actions/fetch.py), run again and again until  *)
(* it is there: the checksum, the size, aria2c if there is one, else a     *)
(* stream that goes on where the partial file ends; the file is checked    *)
(* and moved to its place. A file is a sequence of chunks, a chunk is the  *)
(* version of the remote file it was taken from, and Hole where aria2c has *)
(* reserved it and written none. Anything may end the process at any time. *)
(***************************************************************************)
EXTENDS Integers, Sequences

CONSTANTS
  Version,             \* the remote file's versions
  Chunks,              \* its length
  Hole,                \* a chunk that was never written
  Absent,              \* no such file, no checksum
  MaxUpdates           \* bound on the remote file's updates

VARIABLES
  remote, updates,     \* the version that is served, and how often it has changed
  leg,                 \* where the process is
  expected,            \* the version whose checksum is known
  total,               \* what the server says the length is; 0: nothing
  resuming,            \* whether the open stream goes on from the partial file
  unread,              \* the rest of the body of the open stream
  partial, final,      \* the partial file and the file
  odd                  \* since the partial file began, the remote file changed,
                       \* its length was not known or aria2c had a hand in it

process == <<leg, expected, total, resuming, unread>>
saved == <<partial, final>>
download == <<remote, updates, process, saved, odd>>

Whole(v) == [i \in 1..Chunks |-> v]
Idle == leg' = "idle" /\ expected' = Absent /\ total' = 0 /\ resuming' = FALSE /\ unread' = <<>>
Have == IF partial = Absent THEN 0 ELSE Len(partial)

FetchInit ==
  /\ remote \in Version /\ updates = 0
  /\ leg = "idle" /\ expected = Absent /\ total = 0 /\ resuming = FALSE /\ unread = <<>>
  /\ partial = Absent /\ final = Absent /\ odd = FALSE

Update ==
  /\ updates < MaxUpdates /\ updates' = updates + 1
  /\ remote' \in Version \ {remote}
  /\ odd' = (odd \/ partial # Absent \/ leg # "idle")
  /\ UNCHANGED <<process, saved>>

\* The process is killed, or an exception of the stream ends it.
Killed ==
  /\ leg # "idle" /\ Idle
  /\ UNCHANGED <<remote, updates, saved, odd>>

\* --sha256, or what the server publishes; the lookup may fail. A file in its
\* place is kept if nothing is known or it is right.
Begin ==
  /\ leg = "idle"
  /\ expected' \in Version \cup {Absent}
  /\ final = Absent \/ (expected' # Absent /\ final # Whole(expected'))
  /\ leg' = "aria"
  /\ UNCHANGED <<remote, updates, total, resuming, unread, saved, odd>>

\* aria2c is a program of its own: it fills the rest of the partial file, or
\* leaves it at any length with any of the new chunks written.
Aria ==
  /\ leg = "aria"
  /\ \/ leg' = "size" /\ UNCHANGED <<partial, odd>>            \* there is none
     \/ /\ leg' \in {"check", "size"} /\ odd' = TRUE
        /\ \E n \in Have..Chunks, written \in SUBSET (Have + 1..Chunks) :
             /\ leg' = "check" => n = Chunks /\ written = Have + 1..Chunks
             /\ partial' = [i \in 1..n |-> IF i <= Have THEN partial[i]
                                        ELSE IF i \in written THEN remote ELSE Hole]
  /\ UNCHANGED <<remote, updates, expected, total, resuming, unread, final>>

-------------------------------------------------------------------------------
\* python_fetch.

\* The HEAD request; what fails is 0. A partial file as long as that is done.
Size ==
  /\ leg = "size"
  /\ total' \in {0, Chunks}
  /\ leg' = IF total' # 0 /\ Have >= total' THEN "check" ELSE "open"
  /\ UNCHANGED <<remote, updates, expected, resuming, unread, saved, odd>>

\* The server goes on from the length it is asked for (206; at the end of the
\* file it refuses, which ends the process) or sends everything (200), and the
\* partial file begins anew. The body may end early.
Open ==
  /\ leg = "open" /\ leg' = "read"
  /\ \E sent \in 0..Chunks :
       \/ /\ Have > 0 /\ Have < Chunks /\ resuming' = TRUE
          /\ unread' = SubSeq(Whole(remote), Have + 1, sent)
          /\ partial' = partial /\ odd' = (odd \/ total = 0)
       \/ /\ resuming' = FALSE
          /\ unread' = SubSeq(Whole(remote), 1, sent)
          /\ partial' = <<>> /\ odd' = (total = 0)
  /\ UNCHANGED <<remote, updates, expected, total, final>>

Read ==
  /\ leg = "read" /\ unread # <<>>
  /\ partial' = Append(partial, Head(unread)) /\ unread' = Tail(unread)
  /\ UNCHANGED <<remote, updates, leg, expected, total, resuming, final, odd>>

EndOfBody_Unmeasured ==                                  \* mutated form
  /\ leg = "read" /\ unread = <<>> /\ leg' = "check"
  /\ UNCHANGED <<remote, updates, expected, total, resuming, unread, saved, odd>>

EndOfBody ==
  /\ leg = "read" /\ unread = <<>>
  /\ IF total # 0 /\ Len(partial) # total THEN Idle
     ELSE leg' = "check" /\ UNCHANGED <<expected, total, resuming, unread>>
  /\ UNCHANGED <<remote, updates, saved, odd>>

-------------------------------------------------------------------------------
\* A partial file that is not what was expected is kept, and so is one whose second
\* checksum is not the one the user has named (--md5), be that right or not.
Verify ==
  /\ leg = "check"
  /\ \E misnamed \in BOOLEAN :
       IF misnamed \/ (expected # Absent /\ partial # Whole(expected)) THEN Idle
       ELSE leg' = "replace" /\ UNCHANGED <<expected, total, resuming, unread>>
  /\ UNCHANGED <<remote, updates, saved, odd>>

\* The checksum is written down and the file moved.
Replace ==
  /\ leg = "replace" /\ Idle
  /\ final' = partial /\ partial' = Absent /\ odd' = FALSE
  /\ UNCHANGED <<remote, updates>>

FetchNext ==
  \/ Update \/ Killed \/ Begin \/ Aria \/ Size \/ Open \/ Read \/ EndOfBody \/ Verify \/ Replace

FetchSpec == FetchInit /\ [][FetchNext]_download

-------------------------------------------------------------------------------
File == Seq(Version \cup {Hole}) \cup {Absent}

FetchTypeOK ==
  /\ remote \in Version /\ updates \in 0..MaxUpdates
  /\ leg \in {"idle", "aria", "size", "open", "read", "check", "replace"}
  /\ expected \in Version \cup {Absent} /\ total \in {0, Chunks} /\ resuming \in BOOLEAN
  /\ unread \in Seq(Version) /\ odd \in BOOLEAN
  /\ partial \in File /\ final \in File

\* Whatever was left behind by the runs before, what is moved to its place has
\* the checksum that was expected; if none is known it is one version of the
\* remote file from end to end, unless that one changed under the partial file,
\* its length could not be had, or aria2c left the partial file.
PublishedIsRemote ==
  [][final' # final =>
       \/ expected # Absent /\ final' = Whole(expected)
       \/ expected = Absent /\ (odd \/ \E v \in Version : final' = Whole(v))]_download
===============================================================================
