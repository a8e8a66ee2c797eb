----------------------------- MODULE PartialStore -----------------------------
(***************************************************************************)
(* The on-disk store of partially received archives, one directory         *)
(* .peerline-resume/<source>/<resource>/ per descriptor, as the operators  *)
(* resume_state, append_chunk, complete_partial and remove_partial of      *)
(* peerline-net/src/resume.rs leave it.  The module has no variables: the  *)
(* specifications that own a disk apply these operators to it.             *)
(*                                                                         *)
(* A "resource" stands for the pair (source_id, resource_id) that names    *)
(* the directory.  resource_id is the BLAKE3 hash of the archive, so it    *)
(* fixes every field metadata_matches compares; the model therefore keeps  *)
(* only the two fields that vary, received_bytes and updated_at_unix.      *)
(* Byte i of an archive is the number i: a part file is intact exactly     *)
(* when it reads 1, 2, 3, ..., and equality with the archive stands for    *)
(* equality of hashes.                                                     *)
(***************************************************************************)
EXTENDS Naturals, Sequences

CONSTANTS
  Resource,   \* the directories senders may name
  Size,       \* archive_bytes of each resource's archive
  Retention   \* PARTIAL_RETENTION, in clock ticks

ASSUME StoreAssumption ==
  /\ Size \in [Resource -> Nat \ {0}]
  /\ Retention \in Nat

\* archive.part, metadata.json and metadata.json.tmp.
File == {"part", "meta", "tmp"}

\* One resource directory.  It exists exactly when it holds a file; the
\* contents of a file that is absent have a fixed default.
Dir == [files : SUBSET File, part : Seq(Nat), received : Nat, updated : Nat]

EmptyDir == [files |-> {}, part |-> << >>, received |-> 0, updated |-> 0]

\* n bytes of an archive, starting after its first `from` bytes.
Bytes(from, n) == [i \in 1..n |-> from + i]

Archive(r) == Bytes(0, Size[r])

\* The bytes of a part file are those of the archive, in place.
IsIntact(content, r) ==
  /\ Len(content) <= Size[r]
  /\ \A i \in 1..Len(content) : content[i] = i

-------------------------------------------------------------------------------
(* File operations of a directory. *)

\* write_metadata: create the directory, write the temporary file, rename it.
WriteMetadata(d, received, now) ==
  [d EXCEPT !.files = (@ \cup {"meta"}) \ {"tmp"},
            !.received = received,
            !.updated = now]

\* The first half of append_chunk: an O_APPEND write to the part file.
AppendPart(d, bytes) ==
  [d EXCEPT !.files = @ \cup {"part"}, !.part = @ \o bytes]

RemovePart(d) == [d EXCEPT !.files = @ \ {"part"}, !.part = << >>]

RemoveMeta(d) == [d EXCEPT !.files = @ \ {"meta"}, !.received = 0, !.updated = 0]

\* remove_partial_paths: the part file first, then its metadata.
RemovePartial(d) == RemoveMeta(RemovePart(d))

-------------------------------------------------------------------------------
(* The public operations. *)

\* A directory cleanup_expired deletes: its metadata is too old, or cannot be
\* read.
Stale(d, now) ==
  /\ d.files # {}
  /\ "meta" \notin d.files \/ d.updated + Retention < now

CleanupExpired(ds, now) ==
  [r \in Resource |-> IF Stale(ds[r], now) THEN EmptyDir ELSE ds[r]]

\* resume_state keeps a partial whose length is what its metadata recorded.
Resumable(d, r) ==
  /\ {"part", "meta"} \subseteq d.files
  /\ Len(d.part) <= Size[r]
  /\ Len(d.part) = d.received

\* Mutant of ResumeOffset: trusts received_bytes without the file's length.
ResumeOffsetFromMetadata(d, r) ==
  IF {"part", "meta"} \subseteq d.files /\ Len(d.part) <= Size[r] THEN d.received ELSE 0

ResumeOffset(d, r) == IF Resumable(d, r) THEN Len(d.part) ELSE 0

\* Mutant of KeepOrRemove: starts over whenever there is a partial.
KeepNothing(d, r) == RemovePartial(d)

\* The directory once resume_state returns: anything it cannot resume from is
\* removed, and a transfer that starts from zero has fresh metadata.  A
\* resumed one keeps the metadata, and the age, it had.
KeepOrRemove(d, r) ==
  IF Resumable(d, r) \/ d.files \cap {"part", "meta"} = {} THEN d ELSE RemovePartial(d)

OpenDir(d, r, now) ==
  IF ResumeOffset(d, r) = 0
  THEN WriteMetadata(KeepOrRemove(d, r), 0, now)
  ELSE KeepOrRemove(d, r)

\* resume_state as a whole: expiry of every directory, then this one.
ResumeState(ds, r, now) ==
  LET cleaned == CleanupExpired(ds, now) IN
  [cleaned EXCEPT ![r] = OpenDir(cleaned[r], r, now)]

\* append_chunk opens the part file with create(true), which needs the
\* directory; `offset` is the session's offset after the chunk.
CanAppend(d) == d.files # {}

\* Mutant of AppendChunk: updated_at_unix stays what it was.
AppendWithoutTouch(d, bytes, offset, now) == WriteMetadata(AppendPart(d, bytes), offset, d.updated)

AppendChunk(d, bytes, offset, now) == WriteMetadata(AppendPart(d, bytes), offset, now)

\* Mutant of CompletePartial: checks the size and not the hash.
CompleteBySize(d, r) ==
  CASE "part" \notin d.files -> "missing"
    [] "part" \in d.files /\ Len(d.part) # Size[r] -> "mismatch"
    [] "part" \in d.files /\ Len(d.part) = Size[r] -> "whole"

\* complete_partial's verdict on the part file: it cannot be opened, it has
\* the wrong size or hash (and is removed), or it is the archive.
CompletePartial(d, r) ==
  CASE "part" \notin d.files    -> "missing"
    [] "part" \in d.files /\ d.part # Archive(r) -> "mismatch"
    [] "part" \in d.files /\ d.part = Archive(r) -> "whole"

-------------------------------------------------------------------------------
(* What the disk may hold if the process dies inside an operation. *)

\* A directory of which only the files in keep are left.
Leftover(d, keep) ==
  LET p == IF "part" \in keep THEN d ELSE RemovePart(d)
      m == IF "meta" \in keep THEN p ELSE RemoveMeta(p)
  IN  [m EXCEPT !.files = d.files \cap keep]

\* remove_dir_all deletes files in any order and stops anywhere.
TornCleanup(ds, now) ==
  {[r \in Resource |-> IF Stale(ds[r], now) THEN Leftover(ds[r], keep[r]) ELSE ds[r]] :
     keep \in [Resource -> SUBSET File]}

TornRemove(d) == {d, RemovePart(d), RemovePartial(d)}

\* The temporary file is written and not yet renamed.
TornMetadata(d) == [d EXCEPT !.files = @ \cup {"tmp"}]

TornOpen(d, r) ==
  (IF KeepOrRemove(d, r) = d THEN {d} ELSE TornRemove(d))
    \cup (IF ResumeOffset(d, r) = 0 THEN {TornMetadata(KeepOrRemove(d, r))} ELSE {})

TornResumeState(ds, r, now) ==
  LET cleaned == CleanupExpired(ds, now) IN
  TornCleanup(ds, now) \cup {[cleaned EXCEPT ![r] = d] : d \in TornOpen(cleaned[r], r)}

\* Any prefix of the chunk may be on disk, its metadata not yet.
TornAppend(d, bytes) ==
  {AppendPart(d, SubSeq(bytes, 1, n)) : n \in 0..Len(bytes)}
    \cup {TornMetadata(AppendPart(d, bytes))}

===============================================================================
