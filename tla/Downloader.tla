------------------------------- MODULE Downloader -------------------------------
(***************************************************************************)
(* The download of a large file (lib/download_verified.py), as the tool of *)
(* the model starts it (lib/tool_registry.py): in chunks, each with a part *)
(* file that a later download resumes, or in one piece; then the check of  *)
(* its hash and the entry in the manifest of the directory. One that is    *)
(* waited for is killed when time is up. The downloads of this file come   *)
(* one after the other, the next one whatever the last one left; beside    *)
(* them another file is downloaded to the same directory.                  *)
(***************************************************************************)
EXTENDS Integers, Sequences, FiniteSetsExt, SequencesExt

CONSTANTS
  Getter, Beside,      \* processes that download the file; one that downloads another
  Version, Length,     \* versions of the remote file, and the pieces each has
  Lanes,               \* workers of a download: 1..n
  Gone, NoHash,
  MaxUpdates           \* bound on changes of the remote file

Piece == {<<v, i>> : v \in Version, i \in 0..7}
Whole(v) == [i \in 1..Length[v] |-> <<v, i - 1>>]

VARIABLES
  remote, updates,     \* the version that is served, and how often it changed
  stage,               \* where each process is
  expected,            \* the hash it goes by: of a version, or none
  size,                \* the length it was told
  lane,                \* what each worker does; lane 0 is the download in one piece
  parts, whole,        \* the part files <name>.part0, ..., and <name>.part
  dest,            \* the file, and where each process writes in it
  verdict, short,      \* the status it recorded; whether its one piece ended too soon
  manifest, prior,     \* MANIFEST.json, and the one each process read
  crossed              \* whether two read the manifest before either had written it

net == <<remote, updates>>
disk == <<parts, whole, dest, manifest>>
memory == <<expected, size, lane, verdict, short, prior>>
vars == <<net, stage, disk, memory, crossed>>

NoEntries == [others |-> FALSE, file |-> "none", beside |-> "none"]
Actor == Getter \cup {Beside}
Len0(f) == IF f = Gone THEN 0 ELSE Len(f)

\* The manifest has entries of earlier downloads of other files.
Init ==
  /\ remote \in Version /\ updates = 0
  /\ \E s \in {"off", "noting"} : stage = [p \in Actor |-> IF p = Beside THEN s ELSE "off"]
  /\ expected = [p \in Getter |-> NoHash] /\ size = [p \in Getter |-> 0]
  /\ lane = [p \in Getter |-> [k \in Lanes \cup {0} |-> "none"]]
  /\ parts = [k \in Lanes |-> Gone] /\ whole = Gone
  /\ dest = Gone
  /\ verdict = [p \in Actor |-> IF p = Beside THEN "verified" ELSE "none"] /\ short = [p \in Getter |-> FALSE]
  /\ manifest = [NoEntries EXCEPT !.others = TRUE] /\ prior = [p \in Actor |-> NoEntries]
  /\ crossed = FALSE

Enter(p, s) == stage' = [stage EXCEPT ![p] = s]
Lane(p, k, s) == lane' = [lane EXCEPT ![p][k] = s]

\* A process that has ended, one way or the other.
Forget(p) ==
  /\ prior' = [prior EXCEPT ![p] = NoEntries]
  /\ IF p = Beside THEN UNCHANGED <<expected, size, lane, verdict, short>>
     ELSE /\ expected' = [expected EXCEPT ![p] = NoHash] /\ size' = [size EXCEPT ![p] = 0]
          /\ lane' = [lane EXCEPT ![p] = [k \in Lanes \cup {0} |-> "none"]]
          /\ verdict' = [verdict EXCEPT ![p] = "none"] /\ short' = [short EXCEPT ![p] = FALSE]

-------------------------------------------------------------------------------
\* _download of the tool, or the command line; then _remote_size.

Begin(p) ==
  /\ stage[p] = "off" /\ \A q \in Getter : stage[q] \in {"off", "done", "dead"}
  /\ Enter(p, "sizing")
  /\ UNCHANGED <<net, disk, memory, crossed>>

Starting(p) ==
  lane' = [lane EXCEPT ![p] = [k \in Lanes \cup {0} |-> "look"]]

\* Large files come in chunks, where the server can serve ranges.
Size(p) ==
  /\ stage[p] = "sizing" /\ Starting(p)
  /\ \/ Enter(p, "chunks") /\ size' = [size EXCEPT ![p] = Length[remote]]
     \/ Enter(p, "plain") /\ UNCHANGED size
  /\ UNCHANGED <<net, disk, expected, verdict, short, prior, crossed>>

-------------------------------------------------------------------------------
\* _chunk_worker

First(p, k) == (k - 1) * (size[p] \div Cardinality(Lanes))
Final(p, k) ==
  IF k = Cardinality(Lanes) THEN size[p] - 1 ELSE First(p, k) + size[p] \div Cardinality(Lanes) - 1
Wanted(p, k) == Final(p, k) - First(p, k) + 1

\* An attempt has failed: there is another one, or it was the eighth.
Again(p, k) == Lane(p, k, "look") \/ Lane(p, k, "failed")

\* The n pieces a response brought.
Brought(from, n) == [i \in 1..n |-> <<remote, from + i - 1>>]

\* One attempt: the part is complete, or the request fails, or the server sends the file from
\* its beginning, or it brings the rest or some of it, which is kept. Nobody else is at the
\* part, so what is stored before the end of the response needs no steps of its own.
ChunkTry(p, k) ==
  /\ stage[p] = "chunks" /\ lane[p][k] = "look"
  /\ LET have == Len0(parts[k])
         start == First(p, k) + have
     IN IF have >= Wanted(p, k) THEN Lane(p, k, "ok") /\ UNCHANGED parts
        ELSE \/ Again(p, k) /\ UNCHANGED parts
             \/ Lane(p, k, "ignored") /\ UNCHANGED parts
             \/ \E n \in 0..Min({Final(p, k) + 1, Length[remote]}) - start :
                  /\ parts' = [parts EXCEPT ![k] = (IF @ = Gone THEN <<>> ELSE @) \o Brought(start, n)]
                  /\ IF have + n >= Wanted(p, k) THEN Lane(p, k, "ok") ELSE Again(p, k)
  /\ UNCHANGED <<net, stage, whole, dest, manifest, expected, size, verdict, short, prior, crossed>>

\* _download_chunked has the results of all. A worker that was given the file from its
\* beginning raises, unless one that has failed was looked at before it.
ChunksEnd(p) ==
  LET results == {lane[p][k] : k \in Lanes}
  IN /\ stage[p] = "chunks" /\ results \subseteq {"ok", "failed", "ignored"}
     /\ \/ results = {"ok"} /\ Enter(p, "merging") /\ dest' = <<>> /\ UNCHANGED <<parts, whole>>
        \/ "failed" \in results /\ Enter(p, "plain") /\ UNCHANGED <<parts, whole, dest>>
        \/ /\ "ignored" \in results /\ Enter(p, "plain")
           /\ parts' = [k \in Lanes |-> Gone] /\ whole' = Gone /\ UNCHANGED dest
     /\ UNCHANGED <<net, manifest, expected, size, lane, verdict, short, prior, crossed>>

\* The first part that was not taken yet.
Taken(p) == {k \in Lanes : lane[p][k] = "none"}

Merge(p) ==
  /\ stage[p] = "merging" /\ Taken(p) # Lanes
  /\ LET k == CHOOSE i \in Lanes \ Taken(p) : \A j \in Lanes \ Taken(p) : i <= j
     IN dest' = dest \o parts[k] /\ parts' = [parts EXCEPT ![k] = Gone] /\ Lane(p, k, "none")
  /\ UNCHANGED <<net, stage, whole, manifest, expected, size, verdict, short, prior, crossed>>

Merged(p) ==
  /\ stage[p] = "merging" /\ Taken(p) = Lanes /\ Enter(p, "hashing")
  /\ UNCHANGED <<net, disk, memory, crossed>>

-------------------------------------------------------------------------------
\* _download_plain

\* The stream ends, where it should or before, and the file is taken as it is; or it fails.
Streams(p, from, kept) ==
  \E n \in 0..Length[remote] - from :
    LET got == kept \o Brought(from, n)
    IN \/ /\ dest' = got /\ whole' = Gone /\ Enter(p, "hashing")
          /\ short' = [short EXCEPT ![p] = from + n < Length[remote]] /\ UNCHANGED lane
       \/ whole' = got /\ Again(p, 0) /\ UNCHANGED <<dest, stage, short>>

\* It goes on behind what is there, or begins anew if the server will not; a server that
\* has nothing behind it has sent it all.
PlainTry(p) ==
  LET have == Len0(whole)
  IN /\ stage[p] = "plain" /\ lane[p][0] = "look"
     /\ \/ Again(p, 0) /\ UNCHANGED <<whole, dest, stage, short>>
        \/ Streams(p, 0, <<>>)
        \/ have \in 1..Length[remote] - 1 /\ Streams(p, have, whole)
        \/ /\ have >= Length[remote] /\ dest' = whole /\ whole' = Gone
           /\ Enter(p, "hashing") /\ UNCHANGED <<lane, short>>
     /\ UNCHANGED <<net, parts, manifest, expected, size, verdict, prior, crossed>>

Verdict(p, v) == verdict' = [verdict EXCEPT ![p] = v]

PlainFails(p) ==
  /\ stage[p] = "plain" /\ lane[p][0] = "failed" /\ Verdict(p, "failed") /\ Enter(p, "noting")
  /\ UNCHANGED <<net, disk, expected, size, lane, short, prior, crossed>>

-------------------------------------------------------------------------------
\* The end of fetch, and main.

\* The hash that was given, or found beside the file before the download, matters only here.
Hash(p) ==
  /\ stage[p] = "hashing" /\ Enter(p, "noting")
  /\ \E h \in Version \cup {NoHash} :
       /\ expected' = [expected EXCEPT ![p] = h]
       /\ CASE h = NoHash -> Verdict(p, "unverified_no_hash") /\ UNCHANGED dest
            [] h # NoHash /\ dest = Whole(h) -> Verdict(p, "verified") /\ UNCHANGED dest
            [] OTHER -> Verdict(p, "hash_mismatch") /\ dest' = Gone
  /\ UNCHANGED <<net, parts, whole, manifest, size, lane, short, prior, crossed>>

\* A manifest that cannot be read counts as empty, and it is written in place.
ReadManifest(p) ==
  /\ stage[p] = "noting" /\ Enter(p, "noted")
  /\ prior' = [prior EXCEPT ![p] = IF manifest = Gone THEN NoEntries ELSE manifest]
  /\ crossed' = (crossed \/ \E q \in Actor : stage[q] \in {"noted", "writing"})
  /\ UNCHANGED <<net, disk, expected, size, lane, verdict, short>>

OpenManifest(p) ==
  /\ stage[p] = "noted" /\ Enter(p, "writing") /\ manifest' = Gone
  /\ UNCHANGED <<net, parts, whole, dest, memory, crossed>>

WriteManifest(p) ==
  /\ stage[p] = "writing" /\ Enter(p, "done") /\ Forget(p)
  /\ manifest' = IF p = Beside THEN [prior[p] EXCEPT !.beside = verdict[p]]
                 ELSE [prior[p] EXCEPT !.file = verdict[p]]
  /\ UNCHANGED <<net, parts, whole, dest, crossed>>

\* The tool kills the download it waits for after ten minutes.
Killed(p) ==
  /\ stage[p] \notin {"off", "done", "dead"} /\ Enter(p, "dead") /\ Forget(p)
  /\ UNCHANGED <<net, disk, crossed>>

RemoteChanges ==
  /\ updates < MaxUpdates /\ updates' = updates + 1 /\ remote' \in Version \ {remote}
  /\ UNCHANGED <<stage, disk, memory, crossed>>

Next ==
  \/ \E p \in Getter :
       \/ Begin(p) \/ Size(p) \/ ChunksEnd(p) \/ Merge(p) \/ Merged(p)
       \/ PlainTry(p) \/ PlainFails(p)
       \/ Hash(p)
       \/ \E k \in Lanes : ChunkTry(p, k)
  \/ \E p \in Actor : ReadManifest(p) \/ OpenManifest(p) \/ WriteManifest(p) \/ Killed(p)
  \/ RemoteChanges

Spec == Init /\ [][Next]_vars

-------------------------------------------------------------------------------
File == Seq(Piece) \cup {Gone}

TypeOK ==
  /\ remote \in Version /\ expected \in [Getter -> Version \cup {NoHash}]
  /\ whole \in File /\ dest \in File /\ \A k \in Lanes : parts[k] \in File
  /\ \A p \in Getter, k \in Lanes \cup {0} :
       lane[p][k] \in {"none", "look", "ok", "failed", "ignored"}

\* Those that are between their first write to the file and their entry, or died there.
Unsettled == {p \in Getter : stage[p] \in {"merging", "hashing", "noting", "noted", "writing", "dead"}}

\* What the manifest calls verified is one whole version, also if the file that was resumed
\* was begun from another one; but for a later download that died before it made its entry.
VerifiedIsWhole ==
  Unsettled = {} /\ ~crossed /\ manifest # Gone /\ manifest.file = "verified" =>
    \E v \in Version : dest = Whole(v)

\* Of a remote file that has not changed, a download without a hash is the beginning, however
\* many downloads were resumed and killed before it; all of it if no stream ended too soon.
\* And one with the file's hash is refused only then.
ResumedIsRemote ==
  updates = 0 =>
    \A p \in Getter : stage[p] \in {"noting", "noted", "writing"} =>
      /\ verdict[p] = "unverified_no_hash" =>
           IF short[p] THEN IsPrefix(dest, Whole(remote)) ELSE dest = Whole(remote)
      /\ verdict[p] = "hash_mismatch" => short[p] \/ expected[p] # remote

\* Entries are lost only to one that writes at the same time, or dies while it writes.
EntriesKept ==
  ~crossed /\ {p \in Actor : stage[p] \in {"writing", "dead"}} = {} =>
    /\ manifest # Gone /\ manifest.others
    /\ stage[Beside] = "done" => manifest.beside = verdict[Beside]

DownloadsAreSound == VerifiedIsWhole /\ ResumedIsRemote /\ EntriesKept
===============================================================================
