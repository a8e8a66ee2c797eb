-------------------------- MODULE DirectTransferProofs --------------------------
(***************************************************************************)
(* Proofs about DirectTransfer, for any number of senders, attempts and    *)
(* faults and archives of any size: on the direct route the partial is the *)
(* whole archive whenever Done is read, what has been received is kept,    *)
(* each copy beyond the first and each lost attempt takes a fault, and     *)
(* every behaviour is one of Delivery.                                     *)
(*                                                                         *)
(* The invariant behind all of them, DirectInv, says that the listener has *)
(* the attempts of a sender in order, that a connection it has not served  *)
(* yet holds nothing but the intro, and that the frames in flight on the   *)
(* one being served take the session from where the receiver is to where   *)
(* the sender is, without a gap (Path).                                    *)
(***************************************************************************)
EXTENDS DirectTransfer, SequenceTheorems, TLAPS

-------------------------------------------------------------------------------

\* The store: what its operators keep, whatever the archive and the chunks.

\* The directories the store's operators produce: an absent part file reads
\* as the empty sequence.
DirOK(d) == d \in Dir /\ ("part" \notin d.files => d.part = << >>)

\* n bytes of an archive form a sequence of length n.
LEMMA BytesType ==
  ASSUME NEW from \in Nat, NEW n \in Nat
  PROVE  /\ Bytes(from, n) \in Seq(Nat)
         /\ Len(Bytes(from, n)) = n
         /\ \A i \in 1..n : Bytes(from, n)[i] = from + i
  BY DEF Bytes

\* The empty directory is well formed.
LEMMA EmptyDirOK == DirOK(EmptyDir) /\ EmptyDir.files = {} /\ EmptyDir.part = << >>
  BY DEF DirOK, EmptyDir, Dir, File

\* The empty part file agrees with every archive.
LEMMA EmptyIntact == \A r \in Resource : IsIntact(<< >>, r)
  BY StoreAssumption DEF IsIntact

\* write_metadata leaves the part file alone and records what it is given.
LEMMA WriteMetadataOK ==
  ASSUME NEW d, NEW n \in Nat, NEW now \in Nat, DirOK(d)
  PROVE  /\ DirOK(WriteMetadata(d, n, now))
         /\ WriteMetadata(d, n, now).part = d.part
         /\ WriteMetadata(d, n, now).updated = now
         /\ "meta" \in WriteMetadata(d, n, now).files
  BY DEF DirOK, Dir, File, WriteMetadata

\* Removing the part file empties it; removing the metadata leaves it alone.
LEMMA RemovePartOK ==
  ASSUME NEW d, DirOK(d)
  PROVE  /\ DirOK(RemovePart(d))
         /\ RemovePart(d).part = << >>
         /\ RemovePart(d).files = d.files \ {"part"}
<1> DEFINE empty == << >>
<1>1. empty \in Seq(Nat)
  OBVIOUS
<1> HIDE DEF empty
<1>2. RemovePart(d) = [d EXCEPT !.files = d.files \ {"part"}, !.part = empty]
  BY DEF RemovePart, empty
<1>3. RemovePart(d) \in Dir /\ RemovePart(d).part = empty
      /\ RemovePart(d).files = d.files \ {"part"}
  BY <1>1, <1>2 DEF DirOK, Dir
<1> QED
  BY <1>3 DEF DirOK, empty

\* Removing the metadata leaves the part file alone.
LEMMA RemoveMetaOK ==
  ASSUME NEW d, DirOK(d)
  PROVE  /\ DirOK(RemoveMeta(d))
         /\ RemoveMeta(d).part = d.part
         /\ RemoveMeta(d).files = d.files \ {"meta"}
  BY DEF DirOK, Dir, File, RemoveMeta

\* remove_partial leaves neither part file nor metadata.
LEMMA RemovePartialOK ==
  ASSUME NEW d, DirOK(d)
  PROVE  /\ DirOK(RemovePartial(d))
         /\ RemovePartial(d).part = << >>
         /\ RemovePartial(d).files = d.files \ {"part", "meta"}
  BY RemovePartOK, RemoveMetaOK DEF RemovePartial

\* An O_APPEND write of any bytes keeps the directory well formed.
LEMMA AppendPartOK ==
  ASSUME NEW d, NEW b \in Seq(Nat), DirOK(d)
  PROVE  /\ DirOK(AppendPart(d, b))
         /\ AppendPart(d, b).part = d.part \o b
         /\ AppendPart(d, b).files = d.files \cup {"part"}
<1> DEFINE content == d.part \o b
<1>1. content \in Seq(Nat)
  BY DEF DirOK, Dir
<1> HIDE DEF content
<1>2. AppendPart(d, b) = [d EXCEPT !.files = d.files \cup {"part"}, !.part = content]
  BY DEF AppendPart, content
<1>3. AppendPart(d, b) \in Dir /\ AppendPart(d, b).part = content
      /\ AppendPart(d, b).files = d.files \cup {"part"}
  BY <1>1, <1>2 DEF DirOK, Dir, File
<1> QED
  BY <1>3 DEF DirOK, content

\* append_chunk: the chunk is appended and its metadata is fresh.
LEMMA AppendChunkOK ==
  ASSUME NEW d, NEW b \in Seq(Nat), NEW offset \in Nat, NEW now \in Nat, DirOK(d)
  PROVE  /\ DirOK(AppendChunk(d, b, offset, now))
         /\ AppendChunk(d, b, offset, now).part = d.part \o b
         /\ AppendChunk(d, b, offset, now).updated = now
         /\ "meta" \in AppendChunk(d, b, offset, now).files
<1>1. /\ DirOK(AppendPart(d, b))
      /\ AppendPart(d, b).part = d.part \o b
  BY AppendPartOK
<1> QED
  BY <1>1, WriteMetadataOK DEF AppendChunk

\* Appending the bytes that follow an intact part file keeps it intact.
LEMMA AppendIntact ==
  ASSUME NEW r \in Resource, NEW c \in Seq(Nat), IsIntact(c, r),
         NEW n \in Nat, Len(c) + n <= Size[r],
         NEW b \in Seq(Nat), Len(b) = n, \A i \in 1..n : b[i] = Len(c) + i
  PROVE  IsIntact(c \o b, r) /\ Len(c \o b) = Len(c) + n
<1>1. Len(c \o b) = Len(c) + n /\ Len(c) \in Nat
  BY SMT
<1>2. ASSUME NEW i \in 1..Len(c \o b)
      PROVE  (c \o b)[i] = i
  <2>1. CASE i <= Len(c)
    BY <2>1 DEF IsIntact
  <2>2. CASE i > Len(c)
    <3>1. (c \o b)[i] = b[i - Len(c)]
      BY <2>2, <1>1
    <3>2. i - Len(c) \in 1..n
      BY <2>2, <1>1
    <3> QED
      BY <3>1, <3>2
  <2> QED
    BY <2>1, <2>2, <1>1
<1> QED
  BY <1>1, <1>2 DEF IsIntact

\* The same for the chunk a session appends, and for any prefix of it.
LEMMA ChunkIntact ==
  ASSUME NEW r \in Resource, NEW c \in Seq(Nat), NEW n \in Nat, NEW k \in 0..n,
         IsIntact(c, r), Len(c) + n <= Size[r]
  PROVE  /\ IsIntact(c \o Bytes(Len(c), n), r)
         /\ Len(c \o Bytes(Len(c), n)) = Len(c) + n
         /\ IsIntact(c \o SubSeq(Bytes(Len(c), n), 1, k), r)
<1>1. Len(c) \in Nat
  OBVIOUS
<1>2. /\ Bytes(Len(c), n) \in Seq(Nat)
      /\ Len(Bytes(Len(c), n)) = n
      /\ \A i \in 1..n : Bytes(Len(c), n)[i] = Len(c) + i
  BY <1>1, BytesType
<1> DEFINE b == Bytes(Len(c), n)
           p == SubSeq(b, 1, k)
<1> HIDE DEF b
<1>3. b \in Seq(Nat) /\ Len(b) = n /\ \A i \in 1..n : b[i] = Len(c) + i
  BY <1>2 DEF b
<1>4. p \in Seq(Nat) /\ Len(p) = k
  BY <1>3
<1>5. \A i \in 1..k : p[i] = b[i]
  BY <1>3
<1> HIDE DEF p
<1>6. k \in Nat /\ Len(c) + k <= Size[r] /\ \A i \in 1..k : p[i] = Len(c) + i
  BY <1>1, <1>3, <1>5, StoreAssumption
<1>7. IsIntact(c \o b, r) /\ Len(c \o b) = Len(c) + n
  BY <1>3, AppendIntact
<1>8. IsIntact(c \o p, r)
  BY <1>4, <1>6, AppendIntact
<1> QED
  BY <1>7, <1>8 DEF b, p

\* cleanup_expired leaves a directory as it is or empties it, and empties no
\* directory whose metadata is within the retention time.
LEMMA CleanupOK ==
  ASSUME NEW ds, NEW now \in Nat, \A r \in Resource : DirOK(ds[r]),
         NEW r \in Resource
  PROVE  /\ DirOK(CleanupExpired(ds, now)[r])
         /\ \/ CleanupExpired(ds, now)[r] = ds[r]
            \/ /\ CleanupExpired(ds, now)[r] = EmptyDir
               /\ "meta" \notin ds[r].files \/ ds[r].updated + Retention < now
<1>1. CleanupExpired(ds, now)[r] = IF Stale(ds[r], now) THEN EmptyDir ELSE ds[r]
  BY DEF CleanupExpired
<1> QED
  BY <1>1, EmptyDirOK DEF Stale

\* resume_state on the directory of its own resource: the part file is kept
\* whole or emptied, its length is the offset offered, and metadata exists.
LEMMA OpenDirOK ==
  ASSUME NEW d, NEW r \in Resource, NEW now \in Nat, DirOK(d)
  PROVE  /\ DirOK(OpenDir(d, r, now))
         /\ OpenDir(d, r, now).part = d.part \/ OpenDir(d, r, now).part = << >>
         /\ Len(OpenDir(d, r, now).part) = ResumeOffset(d, r)
         /\ "meta" \in OpenDir(d, r, now).files
         /\ ResumeOffset(d, r) \in Nat
         /\ ResumeOffset(d, r) <= Size[r]
         /\ KeepOrRemove(d, r) = d \/ KeepOrRemove(d, r) = RemovePartial(d)
<1>1. d.part \in Seq(Nat) /\ Len(d.part) \in Nat /\ Size[r] \in Nat
  BY StoreAssumption DEF DirOK, Dir
<1>2. CASE Resumable(d, r)
  <2>1. KeepOrRemove(d, r) = d /\ ResumeOffset(d, r) = Len(d.part)
        /\ Len(d.part) <= Size[r] /\ "meta" \in d.files
    BY <1>2 DEF KeepOrRemove, ResumeOffset, Resumable
  <2>2. CASE Len(d.part) = 0
    <3>1. OpenDir(d, r, now) = WriteMetadata(d, 0, now)
      BY <2>1, <2>2 DEF OpenDir
    <3>2. /\ DirOK(WriteMetadata(d, 0, now))
          /\ WriteMetadata(d, 0, now).part = d.part
          /\ "meta" \in WriteMetadata(d, 0, now).files
      BY WriteMetadataOK
    <3> QED
      BY <3>1, <3>2, <2>1, <2>2, <1>1
  <2>3. CASE Len(d.part) # 0
    <3>1. OpenDir(d, r, now) = d
      BY <2>1, <2>3 DEF OpenDir
    <3> QED
      BY <3>1, <2>1, <1>1
  <2> QED
    BY <2>2, <2>3
<1>3. CASE ~Resumable(d, r)
  <2> DEFINE k == KeepOrRemove(d, r)
  <2>1. ResumeOffset(d, r) = 0
    BY <1>3 DEF ResumeOffset
  <2>2. /\ k = d \/ k = RemovePartial(d)
        /\ DirOK(k)
        /\ k.part = << >>
    <3>1. CASE d.files \cap {"part", "meta"} = {}
      BY <3>1 DEF KeepOrRemove, DirOK
    <3>2. CASE d.files \cap {"part", "meta"} # {}
      BY <3>2, <1>3, RemovePartialOK DEF KeepOrRemove
    <3> QED
      BY <3>1, <3>2
  <2>3. OpenDir(d, r, now) = WriteMetadata(k, 0, now)
    BY <2>1 DEF OpenDir
  <2> HIDE DEF k
  <2>4. /\ DirOK(WriteMetadata(k, 0, now))
        /\ WriteMetadata(k, 0, now).part = << >>
        /\ "meta" \in WriteMetadata(k, 0, now).files
    BY <2>2, WriteMetadataOK
  <2>5. Len(WriteMetadata(k, 0, now).part) = 0
    BY <2>4
  <2> QED
    BY <2>1, <2>2, <2>3, <2>4, <2>5, <1>1 DEF k
<1> QED
  BY <1>2, <1>3

\* remove_dir_all interrupted: the part file is there, whole, or gone.
LEMMA LeftoverOK ==
  ASSUME NEW d, NEW keep \in SUBSET File, DirOK(d)
  PROVE  /\ DirOK(Leftover(d, keep))
         /\ Leftover(d, keep).part = d.part \/ Leftover(d, keep).part = << >>
<1> DEFINE p == IF "part" \in keep THEN d ELSE RemovePart(d)
           m == IF "meta" \in keep THEN p ELSE RemoveMeta(p)
<1>1. DirOK(p) /\ (p.part = d.part \/ p.part = << >>)
      /\ ("part" \notin keep => p.part = << >>)
  BY RemovePartOK
<1>2. DirOK(m) /\ m.part = p.part
  BY <1>1, RemoveMetaOK
<1>3. Leftover(d, keep) = [m EXCEPT !.files = d.files \cap keep]
  BY DEF Leftover
<1> HIDE DEF p, m
<1>4. /\ Leftover(d, keep) \in Dir
      /\ Leftover(d, keep).part = m.part
      /\ Leftover(d, keep).files = d.files \cap keep
  BY <1>2, <1>3 DEF DirOK, Dir
<1>5. "part" \notin d.files \cap keep => m.part = << >>
  BY <1>1, <1>2 DEF DirOK
<1> QED
  BY <1>1, <1>2, <1>4, <1>5 DEF DirOK

\* write_metadata interrupted before its rename: the part file is untouched.
LEMMA TornMetadataOK ==
  ASSUME NEW d, DirOK(d)
  PROVE  DirOK(TornMetadata(d)) /\ TornMetadata(d).part = d.part
  BY DEF DirOK, Dir, File, TornMetadata

\* remove_partial_paths interrupted: the part file is untouched or gone.
LEMMA TornRemoveOK ==
  ASSUME NEW d, DirOK(d), NEW e \in TornRemove(d)
  PROVE  DirOK(e) /\ (e.part = d.part \/ e.part = << >>)
  BY RemovePartOK, RemovePartialOK DEF TornRemove

\* resume_state interrupted in its own directory: the part file is untouched
\* or gone.
LEMMA TornOpenOK ==
  ASSUME NEW d, NEW r \in Resource, DirOK(d), NEW e \in TornOpen(d, r)
  PROVE  DirOK(e) /\ (e.part = d.part \/ e.part = << >>)
<1> DEFINE k == KeepOrRemove(d, r)
<1>1. DirOK(k) /\ (k.part = d.part \/ k.part = << >>)
  BY RemovePartialOK DEF KeepOrRemove
<1>2. e = d \/ e \in TornRemove(d) \/ e = TornMetadata(k)
  BY DEF TornOpen
<1> HIDE DEF k
<1> QED
  BY <1>1, <1>2, TornRemoveOK, TornMetadataOK

\* resume_state interrupted anywhere: no part file of any resource gains a byte.
LEMMA TornResumeStateOK ==
  ASSUME NEW ds, NEW r \in Resource, NEW now \in Nat,
         \A q \in Resource : DirOK(ds[q]),
         NEW es \in TornResumeState(ds, r, now), NEW q \in Resource
  PROVE  /\ es \in [Resource -> Dir]
         /\ DirOK(es[q])
         /\ es[q].part = ds[q].part \/ es[q].part = << >>
<1> DEFINE cleaned == CleanupExpired(ds, now)
           Good(e, p) == DirOK(e) /\ (e.part = ds[p].part \/ e.part = << >>)
<1> SUFFICES \A p \in Resource : Good(es[p], p) /\ es = [x \in Resource |-> es[x]]
  BY DEF DirOK
<1>1. CASE es \in TornCleanup(ds, now)
  <2>1. PICK keep \in [Resource -> SUBSET File] :
          es = [p \in Resource |->
                  IF Stale(ds[p], now) THEN Leftover(ds[p], keep[p]) ELSE ds[p]]
    BY <1>1 DEF TornCleanup
  <2>2. ASSUME NEW p \in Resource
        PROVE  Good(es[p], p)
    <3>1. es[p] = IF Stale(ds[p], now) THEN Leftover(ds[p], keep[p]) ELSE ds[p]
      BY <2>1
    <3>2. keep[p] \in SUBSET File
      OBVIOUS
    <3> QED
      BY <3>1, <3>2, LeftoverOK
  <2> QED
    BY <2>1, <2>2
<1>2. CASE es \in {[cleaned EXCEPT ![r] = d] : d \in TornOpen(cleaned[r], r)}
  <2>1. PICK d \in TornOpen(cleaned[r], r) : es = [cleaned EXCEPT ![r] = d]
    BY <1>2
  <2>2. cleaned = [x \in Resource |-> cleaned[x]]
    BY DEF CleanupExpired
  <2>3. \A p \in Resource : Good(cleaned[p], p)
    BY CleanupOK, EmptyDirOK
  <2> HIDE DEF cleaned
  <2>4. DirOK(d) /\ (d.part = cleaned[r].part \/ d.part = << >>)
    BY <2>3, TornOpenOK
  <2>5. Good(d, r)
    BY <2>3, <2>4
  <2>6. es = [x \in Resource |-> IF x = r THEN d ELSE cleaned[x]]
    BY <2>1, <2>2
  <2> HIDE DEF Good
  <2> QED
    BY <2>3, <2>5, <2>6
<1> QED
  BY <1>1, <1>2 DEF TornResumeState

\* Of a chunk the process died appending, a prefix may be in the part file.
LEMMA TornAppendOK ==
  ASSUME NEW d, NEW b \in Seq(Nat), DirOK(d), NEW e \in TornAppend(d, b)
  PROVE  /\ DirOK(e)
         /\ \E n \in 0..Len(b) : e.part = d.part \o SubSeq(b, 1, n)
<1>1. CASE \E n \in 0..Len(b) : e = AppendPart(d, SubSeq(b, 1, n))
  <2>1. PICK n \in 0..Len(b) : e = AppendPart(d, SubSeq(b, 1, n))
    BY <1>1
  <2>2. SubSeq(b, 1, n) \in Seq(Nat)
    OBVIOUS
  <2> QED
    BY <2>1, <2>2, AppendPartOK
<1>2. CASE e = TornMetadata(AppendPart(d, b))
  <2>1. DirOK(e) /\ e.part = d.part \o b
    BY <1>2, AppendPartOK, TornMetadataOK
  <2>2. b = SubSeq(b, 1, Len(b)) /\ Len(b) \in 0..Len(b)
    OBVIOUS
  <2> QED
    BY <2>1, <2>2
<1> QED
  BY <1>1, <1>2 DEF TornAppend

\* resume_state does not touch it.
LEMMA OpenKept ==
  ASSUME NEW d, NEW r \in Resource, NEW now, DirOK(d), Resumable(d, r), d.part # << >>
  PROVE  OpenDir(d, r, now) = d /\ \A e \in TornOpen(d, r) : e = d
<1>1. Len(d.part) # 0
  BY DEF DirOK, Dir
<1>2. KeepOrRemove(d, r) = d /\ ResumeOffset(d, r) # 0
  BY <1>1 DEF KeepOrRemove, ResumeOffset
<1> QED
  BY <1>2 DEF OpenDir, TornOpen

\* resume_state as a whole removes it only when it is too old.
LEMMA ResumeKept ==
  ASSUME NEW ds, NEW r \in Resource, NEW now \in Nat,
         \A q \in Resource : DirOK(ds[q]),
         NEW q \in Resource, Resumable(ds[q], q), ds[q].part # << >>
  PROVE  \/ ResumeState(ds, r, now)[q] = ds[q]
         \/ ds[q].updated + Retention < now /\ ResumeState(ds, r, now)[q].part = << >>
<1>1. PICK cleaned : cleaned = CleanupExpired(ds, now)
  OBVIOUS
<1>2. /\ DirOK(cleaned[q])
      /\ \/ cleaned[q] = ds[q]
         \/ cleaned[q] = EmptyDir /\ ds[q].updated + Retention < now
  BY <1>1, CleanupOK DEF Resumable
<1>3. ResumeState(ds, r, now)[q] = IF q = r THEN OpenDir(cleaned[r], r, now) ELSE cleaned[q]
  <2>1. ResumeState(ds, r, now) = [cleaned EXCEPT ![r] = OpenDir(cleaned[r], r, now)]
    BY <1>1 DEF ResumeState
  <2>2. cleaned = [x \in Resource |-> cleaned[x]]
    BY <1>1 DEF CleanupExpired
  <2>3. PICK e : e = OpenDir(cleaned[r], r, now)
    OBVIOUS
  <2> QED
    BY <2>1, <2>2, <2>3
<1>4. CASE cleaned[q] = ds[q]
  BY <1>3, <1>4, OpenKept
<1>5. CASE cleaned[q] = EmptyDir /\ ds[q].updated + Retention < now
  <2>1. cleaned[q].part = << >>
    BY <1>5, EmptyDirOK
  <2>2. OpenDir(cleaned[q], q, now).part = << >>
    BY <1>2, <2>1, OpenDirOK
  <2> QED
    BY <1>3, <1>5, <2>1, <2>2
<1> QED
  BY <1>2, <1>4, <1>5

\* What remove_dir_all leaves of the metadata is what it was.
LEMMA LeftoverKept ==
  ASSUME NEW d, NEW keep \in SUBSET File, DirOK(d), "meta" \in Leftover(d, keep).files
  PROVE  Leftover(d, keep).received = d.received
<1>1. PICK p : p = IF "part" \in keep THEN d ELSE RemovePart(d)
  OBVIOUS
<1>2. PICK m : m = IF "meta" \in keep THEN p ELSE RemoveMeta(p)
  OBVIOUS
<1>3. DirOK(p) /\ p.received = d.received
  BY <1>1, RemovePartOK DEF RemovePart, DirOK, Dir
<1>4. PICK files : files = d.files \cap keep
  OBVIOUS
<1>5. Leftover(d, keep) = [m EXCEPT !.files = files]
  BY <1>1, <1>2, <1>4 DEF Leftover
<1>6. DirOK(m)
  BY <1>2, <1>3, RemoveMetaOK
<1>7. PICK l : l = [m EXCEPT !.files = files]
  OBVIOUS
<1>8. l.files = files /\ l.received = m.received
  BY <1>6, <1>7 DEF DirOK, Dir
<1>9. "meta" \in keep
  BY <1>4, <1>5, <1>7, <1>8
<1> QED
  BY <1>2, <1>3, <1>5, <1>7, <1>8, <1>9

\* resume_state interrupted loses it only when it is too old, and what is left
\* of it agrees with what is left of its metadata.
LEMMA TornResumeKept ==
  ASSUME NEW ds, NEW r \in Resource, NEW now \in Nat,
         \A q \in Resource : DirOK(ds[q]),
         NEW es \in TornResumeState(ds, r, now),
         NEW q \in Resource, Resumable(ds[q], q), ds[q].part # << >>
  PROVE  /\ es[q].part = ds[q].part \/ ds[q].updated + Retention < now
         /\ es[q].part = ds[q].part /\ "meta" \in es[q].files => es[q].received = ds[q].received
<1>1. PICK cleaned : cleaned = CleanupExpired(ds, now)
  OBVIOUS
<1>2. /\ DirOK(cleaned[q])
      /\ \/ cleaned[q] = ds[q]
         \/ cleaned[q] = EmptyDir /\ ds[q].updated + Retention < now
  BY <1>1, CleanupOK DEF Resumable
<1>3. CASE es \in TornCleanup(ds, now)
  <2>1. PICK keep \in [Resource -> SUBSET File] :
          es = [p \in Resource |->
                  IF Stale(ds[p], now) THEN Leftover(ds[p], keep[p]) ELSE ds[p]]
    BY <1>3 DEF TornCleanup
  <2>2. es[q] = IF Stale(ds[q], now) THEN Leftover(ds[q], keep[q]) ELSE ds[q]
    BY <2>1
  <2>3. CASE Stale(ds[q], now)
    <3>1. ds[q].updated + Retention < now
      BY <2>3 DEF Stale, Resumable
    <3>2. keep[q] \in SUBSET File
      OBVIOUS
    <3> QED
      BY <2>2, <2>3, <3>1, <3>2, LeftoverKept
  <2>4. CASE ~Stale(ds[q], now)
    BY <2>2, <2>4
  <2> QED
    BY <2>3, <2>4
<1>4. CASE \E d \in TornOpen(cleaned[r], r) : es = [cleaned EXCEPT ![r] = d]
  <2>1. PICK d \in TornOpen(cleaned[r], r) : es = [cleaned EXCEPT ![r] = d]
    BY <1>4
  <2>2. cleaned = [x \in Resource |-> cleaned[x]]
    BY <1>1 DEF CleanupExpired
  <2>3. es[q] = IF q = r THEN d ELSE cleaned[q]
    BY <2>1, <2>2
  <2>4. CASE cleaned[q] = ds[q]
    <3>1. q = r => d = ds[q]
      BY <2>1, <2>4, OpenKept
    <3> QED
      BY <2>3, <2>4, <3>1
  <2>5. CASE cleaned[q] = EmptyDir /\ ds[q].updated + Retention < now
    <3>1. cleaned[q].part = << >>
      BY <2>5, EmptyDirOK
    <3>2. q = r => d.part = << >>
      BY <1>2, <2>1, <3>1, TornOpenOK
    <3>3. es[q].part = << >>
      BY <2>3, <3>1, <3>2
    <3> QED
      BY <2>5, <3>3
  <2> QED
    BY <1>2, <2>4, <2>5
<1> QED
  BY <1>1, <1>3, <1>4 DEF TornResumeState

\* append_chunk records the offset it is given.
LEMMA AppendChunkKept ==
  ASSUME NEW d, NEW b \in Seq(Nat), NEW offset \in Nat, NEW now \in Nat, DirOK(d)
  PROVE  /\ "part" \in AppendChunk(d, b, offset, now).files
         /\ "meta" \in AppendChunk(d, b, offset, now).files
         /\ AppendChunk(d, b, offset, now).received = offset
<1>1. PICK e : e = AppendPart(d, b)
  OBVIOUS
<1>2. DirOK(e) /\ "part" \in e.files
  BY <1>1, AppendPartOK
<1>3. PICK w : w = WriteMetadata(e, offset, now)
  OBVIOUS
<1>4. "part" \in w.files /\ "meta" \in w.files /\ w.received = offset
  BY <1>2, <1>3 DEF WriteMetadata, DirOK, Dir, File
<1> QED
  BY <1>1, <1>3, <1>4 DEF AppendChunk

\* append_chunk interrupted has not recorded it yet.
LEMMA TornAppendKept ==
  ASSUME NEW d, NEW b \in Seq(Nat), DirOK(d), NEW e \in TornAppend(d, b)
  PROVE  e.received = d.received
<1>1. ASSUME NEW c \in Seq(Nat)
      PROVE  DirOK(AppendPart(d, c)) /\ AppendPart(d, c).received = d.received
    BY AppendPartOK DEF AppendPart, DirOK, Dir
<1>2. CASE \E n \in 0..Len(b) : e = AppendPart(d, SubSeq(b, 1, n))
  <2>1. PICK n \in 0..Len(b) : e = AppendPart(d, SubSeq(b, 1, n))
    BY <1>2
  <2>2. SubSeq(b, 1, n) \in Seq(Nat)
    OBVIOUS
  <2> QED
    BY <1>1, <2>1, <2>2
<1>3. CASE e = TornMetadata(AppendPart(d, b))
  <2>1. PICK m : m = AppendPart(d, b)
    OBVIOUS
  <2>2. DirOK(m) /\ m.received = d.received
    BY <1>1, <2>1
  <2>3. e = TornMetadata(m)
    BY <1>3, <2>1
  <2> QED
    BY <2>2, <2>3 DEF TornMetadata, DirOK, Dir
<1> QED
  BY <1>2, <1>3 DEF TornAppend

-------------------------------------------------------------------------------

\* The states of a sender within an attempt.
InAttempt == {"opening", "sending", "waiting"}

\* A connection the receiver will serve or serves: its intro has not been read
\* yet, ...
InBacklog(c) == \E i \in 1..Len(backlog) : backlog[i] = c

InLine(c) == InBacklog(c) \/ rcv.conn = <<c>>

Waiting(c) == InBacklog(c) \/ (rcv.conn = <<c>> /\ rcv.pc = "intro")

\* ... or it has, and the offer has been made.
Serving(c) == rcv.conn = <<c>> /\ rcv.pc \in {"finish", "header", "body"}

\* What is written on a connection arrives.
Up(k) == k.client = "open" /\ k.net = "up"

-------------------------------------------------------------------------------
(* How far a session has come: ClientFinish takes it from 0 to 1, Header   *)
(* to the offset offered plus 2, every byte one further, Done beyond all.  *)

Here == CASE rcv.pc = "finish" -> 0 [] rcv.pc = "header" -> 1 [] OTHER -> rcv.offset + 2

There(t, size) ==
  CASE t.pc = "opening" -> 0 [] t.pc = "sending" -> t.pos + 2 [] OTHER -> size + 3

\* The frames of a session for an archive of this size.
Request(size) ==
  {f \in Frame : /\ f.type \in {"client_finish", "header", "chunk", "done"}
                 /\ f.type = "chunk" => f.at + f.len <= size}

\* Where a frame takes the session up, and where it leaves it.
From(f, size) ==
  CASE f.type = "client_finish" -> 0
    [] f.type = "header" -> 1
    [] f.type = "chunk" -> f.at + 2
    [] OTHER -> size + 2

To(f, base, size) ==
  CASE f.type = "client_finish" -> 1
    [] f.type = "header" -> base + 2
    [] f.type = "chunk" -> f.at + f.len + 2
    [] OTHER -> size + 3

\* The frames of a queue take the session from a to b without a gap.
Path(q, a, b, base, size) ==
  /\ q \in Seq(Request(size))
  /\ q = << >> => a = b
  /\ q # << >> => From(q[1], size) = a /\ To(q[Len(q)], base, size) = b
  /\ \A i \in 1..(Len(q) - 1) : To(q[i], base, size) = From(q[i + 1], size)

Offer == <<[type |-> "server_intro", at |-> rcv.offset, len |-> 0]>>

-------------------------------------------------------------------------------
(* The invariant.  k is the state of connection c, t that of its sender.   *)

LinkOK(k, t, c) ==
  /\ k.client = "open" => t.tries = c[2] /\ t.pc \in InAttempt
  /\ k.client = "gone" => t.pc = "gone"
  /\ k.client # "open" => k.s2c = << >>
  /\ k.server = "open" => Waiting(c) \/ Serving(c)
  /\ Waiting(c) => /\ k.server = "open"
                   /\ k.c2s = <<Signal("client_intro")>>
                   /\ k.s2c = << >>
                   /\ k.client = "open" => t.pc = "opening"

SessionOK(k, t, c) ==
  /\ k.server = "open"
  /\ \E b \in Nat :
       /\ Path(k.c2s, Here, b, rcv.offset, Size[ResourceOf[c[1]]])
       /\ Up(k) => b = There(t, Size[ResourceOf[c[1]]])
  /\ k.s2c # << >> =>
       k.s2c = Offer /\ k.c2s = << >> /\ rcv.pc = "finish" /\ t.pc = "opening"

SenderOK(t, k) ==
  /\ t.pc = "idle" => t.tries < MaxAttempts
  /\ t.pc \in InAttempt => t.tries >= 1 /\ k.client = "open"

ReceiverOK ==
  /\ rcv.pc \in {"accept", "down"} => rcv.conn = << >>
  /\ rcv.pc \notin {"accept", "down"} => \E c \in Conn : rcv.conn = <<c>>
  /\ rcv.pc \in {"finish", "header", "body"} =>
       Len(disk[Named].part) = rcv.offset /\ "meta" \in disk[Named].files

DiskOK == \A r \in Resource : DirOK(disk[r]) /\ IsIntact(disk[r].part, r)

\* The attempts of a sender are in line in their order.
QueueOK ==
  /\ \A i, j \in 1..Len(backlog) :
       i < j /\ backlog[i][1] = backlog[j][1] => backlog[i][2] < backlog[j][2]
  /\ \A c, d \in Conn :
       rcv.conn = <<c>> /\ InBacklog(d) /\ c[1] = d[1] => c[2] < d[2]
  /\ \A c \in Conn : InLine(c) => c[2] <= snd[c[1]].tries

DirectInv ==
  /\ TypeOK
  /\ DiskOK
  /\ ReceiverOK
  /\ QueueOK
  /\ \A c \in Conn : LinkOK(conn[c], snd[c[1]], c)
  /\ \A c \in Conn : Serving(c) => SessionOK(conn[c], snd[c[1]], c)
  /\ \A s \in Sender : SenderOK(snd[s], Link(s))

-------------------------------------------------------------------------------
(* Connections. *)

\* A connection neither end has is one.
LEMMA NoConnType == NoConn \in Connection
  BY DEF NoConn, Connection

\* The sender drops its end.
LEMMA CloseClientIs ==
  ASSUME NEW k \in Connection
  PROVE  /\ CloseClient(k) \in Connection
         /\ CloseClient(k).client = "closed"
         /\ CloseClient(k).s2c = << >>
         /\ CloseClient(k).server = k.server
         /\ k.server = "open" => CloseClient(k).c2s = k.c2s /\ CloseClient(k).net = k.net
<1> DEFINE none == << >>
           m == [k EXCEPT !.client = "closed", !.s2c = none]
<1>1. none \in Seq(Frame)
  OBVIOUS
<1>2. m \in Connection /\ m.client = "closed" /\ m.s2c = none /\ m.server = k.server
      /\ m.c2s = k.c2s /\ m.net = k.net
  <2> HIDE DEF none
  <2> QED
    BY <1>1 DEF Connection
<1>3. CloseClient(k) = Settle(m)
  BY DEF CloseClient
<1> HIDE DEF m
<1>4. CASE k.server = "closed"
  BY <1>2, <1>3, <1>4, NoConnType DEF Settle, NoConn
<1>5. CASE k.server # "closed"
  <2>1. k.server = "open"
    BY <1>5 DEF Connection
  <2> QED
    BY <1>2, <1>3, <2>1 DEF Settle
<1> QED
  BY <1>4, <1>5

\* The sender's host is lost.
LEMMA VanishedIs ==
  ASSUME NEW k \in Connection
  PROVE  /\ Vanished(k) \in Connection
         /\ Vanished(k).client \in {"gone", "closed"}
         /\ Vanished(k).s2c = << >>
         /\ Vanished(k).server = k.server
         /\ k.server = "open" => Vanished(k).c2s = k.c2s /\ Vanished(k).net = k.net
<1> DEFINE none == << >>
           m == [k EXCEPT !.client = "gone", !.s2c = none]
<1>1. none \in Seq(Frame)
  OBVIOUS
<1>2. m \in Connection /\ m.client = "gone" /\ m.s2c = none /\ m.server = k.server
      /\ m.c2s = k.c2s /\ m.net = k.net
  <2> HIDE DEF none
  <2> QED
    BY <1>1 DEF Connection
<1>3. Vanished(k) = Settle(m)
  BY DEF Vanished
<1> HIDE DEF m
<1>4. CASE k.server = "closed"
  BY <1>2, <1>3, <1>4, NoConnType DEF Settle, NoConn
<1>5. CASE k.server # "closed"
  <2>1. k.server = "open"
    BY <1>5 DEF Connection
  <2> QED
    BY <1>2, <1>3, <2>1 DEF Settle
<1> QED
  BY <1>4, <1>5

\* The receiver drops its end, and with it what it has not read.
LEMMA CloseServerIs ==
  ASSUME NEW k \in Connection
  PROVE  /\ CloseServer(k) \in Connection
         /\ CloseServer(k).server = "closed"
         /\ CloseServer(k).client # "gone"
         /\ CloseServer(k).client = "open" <=> k.client = "open"
         /\ k.client = "open" => CloseServer(k).s2c = k.s2c /\ CloseServer(k).net = k.net
         /\ k.client # "open" => CloseServer(k).s2c = << >>
<1> DEFINE none == << >>
           m == [k EXCEPT !.server = "closed", !.c2s = none]
<1>1. none \in Seq(Frame)
  OBVIOUS
<1>2. m \in Connection /\ m.server = "closed" /\ m.client = k.client /\ m.s2c = k.s2c
      /\ m.net = k.net
  <2> HIDE DEF none
  <2> QED
    BY <1>1 DEF Connection
<1>3. CloseServer(k) = Settle(m)
  BY DEF CloseServer
<1> HIDE DEF m
<1>4. CASE k.client = "open"
  BY <1>2, <1>3, <1>4 DEF Settle
<1>5. CASE k.client # "open"
  BY <1>2, <1>3, <1>5, NoConnType DEF Settle, NoConn
<1> QED
  BY <1>4, <1>5

\* The receiver's process dies.
LEMMA ResetIs ==
  ASSUME NEW k \in Connection
  PROVE  /\ Reset(k) \in Connection
         /\ Reset(k).server = "closed"
         /\ Reset(k).client # "gone"
         /\ Reset(k).client = "open" <=> k.client = "open"
         /\ k.client = "open" => /\ Reset(k).s2c = k.s2c
                                 /\ Reset(k).net = IF k.server = "open" THEN "cut" ELSE k.net
         /\ k.client # "open" => Reset(k).s2c = << >>
<1> DEFINE m == IF k.server = "open" THEN [k EXCEPT !.net = "cut"] ELSE k
<1>1. m \in Connection /\ m.client = k.client /\ m.s2c = k.s2c
      /\ m.net = (IF k.server = "open" THEN "cut" ELSE k.net)
  BY DEF Connection
<1>2. Reset(k) = CloseServer(m)
  BY DEF Reset
<1> HIDE DEF m
<1> QED
  BY <1>1, <1>2, CloseServerIs

\* A write of the sender arrives, or is lost on a connection that is gone.
LEMMA ToServerIs ==
  ASSUME NEW k \in Connection, NEW frames \in Seq(Frame)
  PROVE  /\ ToServer(k, frames) \in Connection
         /\ ToServer(k, frames).client = k.client
         /\ ToServer(k, frames).server = k.server
         /\ ToServer(k, frames).net = k.net
         /\ ToServer(k, frames).s2c = k.s2c
         /\ ToServer(k, frames).c2s =
              IF k.server = "open" /\ k.net = "up" THEN k.c2s \o frames ELSE k.c2s
<1>1. PICK q : q = k.c2s \o frames
  OBVIOUS
<1>2. q \in Seq(Frame)
  BY <1>1 DEF Connection
<1>3. CASE k.server = "open" /\ k.net = "up"
  <2>1. ToServer(k, frames) = [k EXCEPT !.c2s = q]
    BY <1>1, <1>3 DEF ToServer
  <2> QED
    BY <1>1, <1>2, <1>3, <2>1 DEF Connection
<1>4. CASE ~(k.server = "open" /\ k.net = "up")
  <2>1. ToServer(k, frames) = k
    BY <1>4 DEF ToServer, Connection
  <2> QED
    BY <1>4, <2>1
<1> QED
  BY <1>3, <1>4

\* The same for the receiver.
LEMMA ToClientIs ==
  ASSUME NEW k \in Connection, NEW frames \in Seq(Frame)
  PROVE  /\ ToClient(k, frames) \in Connection
         /\ ToClient(k, frames).client = k.client
         /\ ToClient(k, frames).server = k.server
         /\ ToClient(k, frames).net = k.net
         /\ ToClient(k, frames).c2s = k.c2s
         /\ ToClient(k, frames).s2c = IF Up(k) THEN k.s2c \o frames ELSE k.s2c
<1>1. PICK q : q = k.s2c \o frames
  OBVIOUS
<1>2. q \in Seq(Frame)
  BY <1>1 DEF Connection
<1>3. CASE Up(k)
  <2>1. ToClient(k, frames) = [k EXCEPT !.s2c = q]
    BY <1>1, <1>3 DEF ToClient, Up
  <2> QED
    BY <1>1, <1>2, <1>3, <2>1 DEF Connection
<1>4. CASE ~Up(k)
  <2>1. ToClient(k, frames) = k
    BY <1>4 DEF ToClient, Connection, Up
  <2> QED
    BY <1>4, <2>1
<1> QED
  BY <1>3, <1>4

\* A read of the receiver.
LEMMA ConsumedIs ==
  ASSUME NEW k \in Connection, k.c2s # << >>
  PROVE  /\ Consumed(k) \in Connection
         /\ Consumed(k).client = k.client
         /\ Consumed(k).server = k.server
         /\ Consumed(k).net = k.net
         /\ Consumed(k).s2c = k.s2c
         /\ Consumed(k).c2s = Tail(k.c2s)
<1>1. PICK q : q = Tail(k.c2s)
  OBVIOUS
<1>2. q \in Seq(Frame)
  BY <1>1 DEF Connection
<1>3. Consumed(k) = [k EXCEPT !.c2s = q]
  BY <1>1 DEF Consumed
<1> QED
  BY <1>1, <1>2, <1>3 DEF Connection

\* A read of the sender.
LEMMA AnsweredIs ==
  ASSUME NEW k \in Connection, k.s2c # << >>
  PROVE  /\ Answered(k) \in Connection
         /\ Answered(k).client = k.client
         /\ Answered(k).server = k.server
         /\ Answered(k).net = k.net
         /\ Answered(k).c2s = k.c2s
         /\ Answered(k).s2c = Tail(k.s2c)
<1>1. PICK q : q = Tail(k.s2c)
  OBVIOUS
<1>2. q \in Seq(Frame)
  BY <1>1 DEF Connection
<1>3. Answered(k) = [k EXCEPT !.s2c = q]
  BY <1>1 DEF Answered
<1> QED
  BY <1>1, <1>2, <1>3 DEF Connection

-------------------------------------------------------------------------------
(* Frames and the path they make. *)

\* The frames that carry nothing.
LEMMA SignalIs ==
  ASSUME NEW type \in {"client_intro", "server_intro", "client_finish", "header", "chunk", "done",
                       "ack", "version_error", "unpack_error"}
  PROVE  Signal(type) \in Frame /\ Signal(type).type = type
  BY DEF Signal, Frame

\* What a frame of a session is, and that it leaves the session somewhere.
LEMMA RequestIs ==
  ASSUME NEW size \in Nat, NEW base \in Nat, NEW f \in Request(size)
  PROVE  /\ f \in Frame /\ f.at \in Nat /\ f.len \in Nat
         /\ f.type \in {"client_finish", "header", "chunk", "done"}
         /\ From(f, size) \in Nat
         /\ To(f, base, size) \in Nat /\ To(f, base, size) >= 1
         /\ f.type = "client_finish" => From(f, size) = 0 /\ To(f, base, size) = 1
         /\ f.type = "header" => From(f, size) = 1 /\ To(f, base, size) = base + 2
         /\ f.type = "chunk" => /\ From(f, size) = f.at + 2
                                /\ To(f, base, size) = f.at + f.len + 2
                                /\ f.at + f.len <= size
         /\ f.type = "done" => From(f, size) = size + 2 /\ To(f, base, size) = size + 3
<1>1. f \in Frame /\ f.at \in Nat /\ f.len \in Nat
      /\ f.type \in {"client_finish", "header", "chunk", "done"}
      /\ (f.type = "chunk" => f.at + f.len <= size)
  BY DEF Request, Frame
<1> QED
  BY <1>1 DEF From, To

\* Two frames sent one after the other.
LEMMA PairIs ==
  ASSUME NEW S, NEW f \in S, NEW g \in S
  PROVE  <<f>> \o <<g>> = <<f, g>>
<1>1. <<f>> \in Seq(S) /\ <<g>> \in Seq(S) /\ <<f, g>> \in Seq(S)
  OBVIOUS
<1>2. PICK q : q = <<f>> \o <<g>>
  OBVIOUS
<1>3. q \in Seq(S) /\ Len(q) = 2 /\ q[1] = f /\ q[2] = g
  BY <1>1, <1>2
<1>4. PICK p : p = <<f, g>>
  OBVIOUS
<1>5. p \in Seq(S) /\ Len(p) = 2 /\ p[1] = f /\ p[2] = g
  BY <1>1, <1>4
<1>6. \A i \in 1..2 : p[i] = q[i]
  BY <1>3, <1>5
<1>7. p = q
  BY <1>3, <1>5, <1>6, SeqEqual
<1> QED
  BY <1>2, <1>4, <1>7

\* Nothing is in flight.
LEMMA PathEmpty ==
  ASSUME NEW a, NEW base, NEW size
  PROVE  Path(<< >>, a, a, base, size)
<1>1. << >> \in Seq(Request(size)) /\ Len(<< >>) = 0
  OBVIOUS
<1> QED
  BY <1>1 DEF Path

\* Without a frame in flight the two ends agree.
LEMMA PathOfNone ==
  ASSUME NEW a, NEW b, NEW base, NEW size, NEW q, Path(q, a, b, base, size), q = << >>
  PROVE  a = b
  BY DEF Path

\* The first frame starts where the receiver is.
LEMMA PathHead ==
  ASSUME NEW size \in Nat, NEW base \in Nat, NEW a, NEW b, NEW q,
         Path(q, a, b, base, size), q # << >>
  PROVE  /\ Head(q) \in Request(size)
         /\ From(Head(q), size) = a
         /\ Path(Tail(q), To(Head(q), base, size), b, base, size)
<1>1. q \in Seq(Request(size)) /\ Len(q) \in Nat /\ Len(q) >= 1 /\ Head(q) = q[1]
  BY DEF Path
<1>2. Head(q) \in Request(size) /\ From(Head(q), size) = a
  BY <1>1 DEF Path
<1>3. PICK r : r = Tail(q)
  OBVIOUS
<1>4. r \in Seq(Request(size)) /\ Len(r) = Len(q) - 1
      /\ \A i \in 1..Len(r) : i + 1 \in 1..Len(q) /\ r[i] = q[i + 1]
  BY <1>1, <1>3
<1>5. CASE r = << >>
  <2>1. Len(q) = 1
    BY <1>1, <1>4, <1>5
  <2>2. To(q[1], base, size) = b
    BY <1>1, <2>1 DEF Path
  <2>3. Path(r, b, b, base, size)
    BY <1>5, PathEmpty
  <2> QED
    BY <1>1, <1>2, <1>3, <2>2, <2>3
<1>6. CASE r # << >>
  <2>1. Len(r) \in Nat /\ Len(r) >= 1 /\ 1 \in 1..Len(r) /\ Len(r) \in 1..Len(r)
    BY <1>4, <1>6
  <2>2. r[1] = q[2] /\ r[Len(r)] = q[Len(q)] /\ 1 \in 1..(Len(q) - 1)
    BY <1>1, <1>4, <2>1
  <2>3. From(r[1], size) = To(q[1], base, size)
    BY <2>2 DEF Path
  <2>4. To(r[Len(r)], base, size) = b
    BY <1>1, <2>2 DEF Path
  <2>5. ASSUME NEW i \in 1..(Len(r) - 1)
        PROVE  To(r[i], base, size) = From(r[i + 1], size)
    <3>1. i + 1 \in 1..(Len(q) - 1) /\ i \in 1..Len(r) /\ i + 1 \in 1..Len(r)
      BY <1>1, <1>4
    <3>2. To(q[i + 1], base, size) = From(q[i + 1 + 1], size)
      BY <3>1 DEF Path
    <3> QED
      BY <1>4, <3>1, <3>2
  <2>6. Path(r, To(q[1], base, size), b, base, size)
    BY <1>4, <1>6, <2>3, <2>4, <2>5 DEF Path
  <2> QED
    BY <1>1, <1>2, <1>3, <2>6
<1> QED
  BY <1>5, <1>6

\* A frame that starts where the sender is goes on from there.
LEMMA PathAppend ==
  ASSUME NEW size \in Nat, NEW base \in Nat, NEW a, NEW b, NEW q,
         Path(q, a, b, base, size), NEW f \in Request(size), From(f, size) = b
  PROVE  Path(q \o <<f>>, a, To(f, base, size), base, size)
<1>1. q \in Seq(Request(size)) /\ Len(q) \in Nat
  BY DEF Path
<1>2. PICK r : r = q \o <<f>>
  OBVIOUS
<1>3. r \in Seq(Request(size)) /\ Len(r) = Len(q) + 1 /\ r # << >>
      /\ (\A i \in 1..Len(q) : r[i] = q[i]) /\ r[Len(q) + 1] = f
  BY <1>1, <1>2
<1>4. From(r[1], size) = a
  <2>1. CASE q = << >>
    BY <1>3, <2>1 DEF Path
  <2>2. CASE q # << >>
    <3>1. 1 \in 1..Len(q)
      BY <1>1, <2>2
    <3> QED
      BY <1>3, <2>2, <3>1 DEF Path
  <2> QED
    BY <2>1, <2>2
<1>5. ASSUME NEW i \in 1..(Len(r) - 1)
      PROVE  To(r[i], base, size) = From(r[i + 1], size)
  <2>1. CASE i = Len(q)
    <3>1. r[i] = q[Len(q)] /\ r[i + 1] = f /\ q # << >>
      BY <1>1, <1>3, <2>1
    <3> QED
      BY <3>1 DEF Path
  <2>2. CASE i # Len(q)
    <3>1. i \in 1..(Len(q) - 1) /\ i \in 1..Len(q) /\ i + 1 \in 1..Len(q)
      BY <1>1, <1>3, <2>2
    <3> QED
      BY <1>3, <3>1 DEF Path
  <2> QED
    BY <2>1, <2>2
<1>6. Path(r, a, To(f, base, size), base, size)
  BY <1>3, <1>4, <1>5 DEF Path
<1> QED
  BY <1>2, <1>6

\* The offset offered matters only until the header is read.
LEMMA PathRebase ==
  ASSUME NEW size \in Nat, NEW base \in Nat, NEW a \in Nat, a >= 2, NEW b, NEW q,
         Path(q, a, b, base, size), NEW base2 \in Nat
  PROVE  Path(q, a, b, base2, size)
<1>1. q \in Seq(Request(size)) /\ Len(q) \in Nat
  BY DEF Path
<1>2. \A i \in 1..Len(q) : q[i] \in Request(size)
  BY <1>1
<1>3. q # << >> => From(q[1], size) >= 2
  BY DEF Path
<1>4. ASSUME NEW i \in 1..Len(q), q[i].type = "client_finish"
      PROVE  FALSE
  <2>1. From(q[i], size) = 0
    BY <1>2, <1>4, RequestIs
  <2>2. CASE i = 1
    BY <1>1, <1>3, <2>1, <2>2
  <2>3. CASE i # 1
    <3>1. i - 1 \in 1..(Len(q) - 1) /\ i - 1 \in 1..Len(q) /\ i - 1 + 1 = i
      BY <1>1, <2>3
    <3>2. To(q[i - 1], base, size) = 0
      BY <2>1, <3>1 DEF Path
    <3> QED
      BY <1>2, <3>1, <3>2, RequestIs
  <2> QED
    BY <2>2, <2>3
<1>5. ASSUME NEW i \in 1..Len(q), q[i].type = "header"
      PROVE  FALSE
  <2>1. From(q[i], size) = 1
    BY <1>2, <1>5, RequestIs
  <2>2. CASE i = 1
    BY <1>1, <1>3, <2>1, <2>2
  <2>3. CASE i # 1
    <3>1. i - 1 \in 1..(Len(q) - 1) /\ i - 1 \in 1..Len(q) /\ i - 1 + 1 = i
      BY <1>1, <2>3
    <3>2. To(q[i - 1], base, size) = 1
      BY <2>1, <3>1 DEF Path
    <3>3. q[i - 1].type = "client_finish"
      <4>1. PICK f \in Request(size) : f = q[i - 1]
        BY <1>2, <3>1
      <4>2. To(f, base, size) = 1
        BY <3>2, <4>1
      <4>3. /\ f.type \in {"client_finish", "header", "chunk", "done"}
            /\ f.type = "header" => To(f, base, size) = base + 2
            /\ f.type = "chunk" => To(f, base, size) = f.at + f.len + 2
            /\ f.type = "done" => To(f, base, size) = size + 3
            /\ f.at \in Nat /\ f.len \in Nat
        BY DEF To, Request, Frame
      <4>4. f.type = "client_finish"
        BY <4>2, <4>3
      <4> QED
        BY <4>1, <4>4
    <3> QED
      BY <1>4, <3>1, <3>3
  <2> QED
    BY <2>2, <2>3
<1>6. \A i \in 1..Len(q) : To(q[i], base2, size) = To(q[i], base, size)
  BY <1>5 DEF To
<1> QED
  <2>1. q # << >> => Len(q) \in 1..Len(q)
    BY <1>1
  <2>2. \A i \in 1..(Len(q) - 1) : i \in 1..Len(q)
    BY <1>1
  <2> QED
    BY <1>6, <2>1, <2>2 DEF Path

-------------------------------------------------------------------------------
(* What the invariant says of the parts. *)

\* The connections are named by a sender and an attempt.
LEMMA ConnFacts ==
  /\ \A c \in Conn : c[1] \in Sender /\ c[2] \in 1..MaxAttempts /\ c = <<c[1], c[2]>>
  /\ \A s \in Sender, n \in 1..MaxAttempts : <<s, n>> \in Conn
  BY DEF Conn

\* The types, field by field.
LEMMA TypeFacts ==
  ASSUME TypeOK
  PROVE  /\ disk \in [Resource -> Dir] /\ clock \in Nat
         /\ snd \in [Sender -> SenderState]
         /\ conn \in [Conn -> Connection]
         /\ backlog \in Seq(Conn)
         /\ rcv \in ReceiverState /\ rcv.conn \in Seq(Conn) /\ rcv.offset \in Nat
         /\ delivered \in [Sender -> Nat]
         /\ faults \in 0..MaxFaults /\ faults \in Nat
         /\ \A s \in Sender : snd[s] \in SenderState /\ snd[s].tries \in 0..MaxAttempts
                              /\ snd[s].tries \in Nat /\ snd[s].pos \in Nat
         /\ \A s \in Sender : /\ ResourceOf[s] \in Resource
                              /\ Size[ResourceOf[s]] \in Nat
         /\ MaxAttempts \in Nat /\ MaxFaults \in Nat
<1>1. MaxAttempts \in Nat /\ MaxFaults \in Nat
      /\ \A s \in Sender : ResourceOf[s] \in Resource /\ Size[ResourceOf[s]] \in Nat
  BY DirectAssumption, StoreAssumption
<1>2. \A s \in Sender : snd[s] \in SenderState
  BY DEF TypeOK
<1>3. \A s \in Sender : snd[s].tries \in 0..MaxAttempts /\ snd[s].pos \in Nat
  BY <1>2 DEF SenderState
<1>4. \A s \in Sender : snd[s].tries \in Nat
  BY <1>1, <1>3
<1> QED
  BY <1>1, <1>2, <1>3, <1>4 DEF TypeOK, ReceiverState

\* A sender within an attempt has a connection of its own.
LEMMA SenderFacts ==
  ASSUME DirectInv, NEW s \in Sender, snd[s].pc \in InAttempt
  PROVE  /\ Attempt(s) \in Conn /\ Attempt(s)[1] = s /\ Attempt(s)[2] = snd[s].tries
         /\ Link(s) = conn[Attempt(s)] /\ Link(s) \in Connection
         /\ Link(s).client = "open"
<1>1. SenderOK(snd[s], Link(s)) /\ snd[s].tries \in 0..MaxAttempts /\ MaxAttempts \in Nat
  BY TypeFacts DEF DirectInv
<1>2. snd[s].tries \in 1..MaxAttempts /\ Link(s).client = "open"
  BY <1>1 DEF SenderOK
<1>3. Attempt(s) \in Conn
  BY <1>2, ConnFacts DEF Attempt
<1> QED
  BY <1>2, <1>3, TypeFacts DEF Attempt, Link, DirectInv

\* The connection being served.
LEMMA ServedFacts ==
  ASSUME DirectInv, rcv.pc \notin {"accept", "down"}
  PROVE  /\ rcv.conn = <<Served>> /\ Served \in Conn
         /\ Peer \in Sender /\ Peer = Served[1]
         /\ Named \in Resource /\ Named = ResourceOf[Served[1]]
         /\ InLine(Served)
         /\ Served[2] <= snd[Peer].tries
         /\ conn[Served] \in Connection
         /\ ~InBacklog(Served)
         /\ \A d \in Conn : rcv.conn = <<d>> => d = Served
<1>1. PICK c \in Conn : rcv.conn = <<c>>
  BY DEF DirectInv, ReceiverOK
<1>2. Served = c
  BY <1>1 DEF Served
<1>3. c[1] \in Sender /\ c[2] \in 1..MaxAttempts
  BY ConnFacts
<1>4. Peer = c[1] /\ Named = ResourceOf[c[1]] /\ Named \in Resource
  BY <1>2, <1>3, DirectAssumption DEF Peer, Named
<1>5. InLine(c)
  BY <1>1 DEF InLine
<1>6. c[2] <= snd[c[1]].tries
  BY <1>5 DEF DirectInv, QueueOK
<1>7. ~InBacklog(c)
  BY <1>1, <1>3 DEF DirectInv, QueueOK
<1>8. conn[c] \in Connection
  BY TypeFacts DEF DirectInv
<1>9. \A d : rcv.conn = <<d>> => d = c
  BY <1>1
<1> QED
  BY <1>1, <1>2, <1>3, <1>4, <1>5, <1>6, <1>7, <1>8, <1>9

\* The line only moves up.
LEMMA QueueKept ==
  ASSUME DirectInv, backlog' = backlog, rcv'.conn = rcv.conn \/ rcv'.conn = << >>,
         \A s \in Sender : snd'[s].tries \in Nat /\ snd'[s].tries >= snd[s].tries
  PROVE  QueueOK'
<1>1. \A c \in Conn : c[1] \in Sender /\ c[2] \in Nat
  BY ConnFacts
<1>2. \A c : rcv'.conn = <<c>> => rcv.conn = <<c>>
  OBVIOUS
<1>3. \A s \in Sender : snd[s].tries \in Nat
  BY TypeFacts DEF DirectInv
<1>4. QueueOK
  BY DEF DirectInv
<1>5. \A c : InBacklog(c)' <=> InBacklog(c)
  BY DEF InBacklog
<1>6. ASSUME NEW c \in Conn, InLine(c)'
      PROVE  c[2] <= snd'[c[1]].tries
  <2>1. InLine(c)
    BY <1>2, <1>5, <1>6 DEF InLine
  <2>2. c[2] <= snd[c[1]].tries
    BY <2>1, <1>4 DEF QueueOK
  <2> QED
    BY <2>2, <1>1, <1>3
<1> QED
  BY <1>2, <1>4, <1>5, <1>6 DEF QueueOK

-------------------------------------------------------------------------------
(* The steps of a sender. *)

\* A step of a sender within its attempt, or at its end.
LEMMA SenderRule ==
  ASSUME DirectInv, NEW s \in Sender, snd[s].pc \in InAttempt,
         NEW next \in SenderState, next.tries = snd[s].tries,
         NEW k \in Connection, SenderOK(next, k),
         LinkOK(k, next, Attempt(s)),
         Serving(Attempt(s)) => SessionOK(k, next, Attempt(s)),
         snd' = [snd EXCEPT ![s] = next],
         conn' = [conn EXCEPT ![Attempt(s)] = k],
         SenderLeavesRest, faults' \in 0..MaxFaults
  PROVE  DirectInv'
<1>1. PICK c \in Conn : c = Attempt(s) /\ c[1] = s /\ c[2] = snd[s].tries /\ Link(s) = conn[c]
  BY SenderFacts
<1>2. /\ \A t \in Sender : snd'[t] = IF t = s THEN next ELSE snd[t]
      /\ \A d \in Conn : conn'[d] = IF d = c THEN k ELSE conn[d]
      /\ disk' = disk /\ clock' = clock /\ backlog' = backlog /\ rcv' = rcv
      /\ delivered' = delivered /\ torn' = torn /\ unwelcome' = unwelcome
  BY <1>1, TypeFacts DEF DirectInv, SenderLeavesRest
<1>3. TypeOK'
  <2>1. snd' \in [Sender -> SenderState] /\ conn' \in [Conn -> Connection]
    BY <1>1, TypeFacts DEF DirectInv
  <2> QED
    BY <1>2, <2>1 DEF DirectInv, TypeOK
<1>4. DiskOK' /\ ReceiverOK'
  BY <1>2 DEF DirectInv, DiskOK, ReceiverOK, Named, Peer, Served
<1>5. QueueOK'
  <2>1. \A t \in Sender : snd'[t].tries \in Nat /\ snd'[t].tries >= snd[t].tries
    BY <1>2, TypeFacts DEF DirectInv
  <2> QED
    BY <1>2, <2>1, QueueKept
<1>6. \A d : /\ Waiting(d)' <=> Waiting(d)
             /\ Serving(d)' <=> Serving(d)
  BY <1>2 DEF Waiting, Serving, InBacklog
<1>7. Here' = Here /\ Offer' = Offer
  BY <1>2 DEF Here, Offer
<1>8. ASSUME NEW d \in Conn
      PROVE  /\ LinkOK(conn[d], snd[d[1]], d)'
             /\ Serving(d)' => SessionOK(conn[d], snd[d[1]], d)'
  <2>1. d[1] \in Sender /\ d[2] \in Nat /\ d = <<d[1], d[2]>> /\ c = <<c[1], c[2]>>
    BY ConnFacts
  <2>2. CASE d = c
    <3>1. snd'[d[1]] = next /\ conn'[d] = k
      BY <1>1, <1>2, <2>1, <2>2
    <3>2. LinkOK(k, next, d)'
      BY <1>1, <1>6, <2>2 DEF LinkOK
    <3>3. ASSUME Serving(d)
          PROVE  SessionOK(k, next, d)'
      <4>1. SessionOK(k, next, d)
        BY <1>1, <2>2, <3>3
      <4> QED
        BY <4>1, <1>2, <1>7 DEF SessionOK
    <3> QED
      BY <1>6, <3>1, <3>2, <3>3
  <2>3. CASE d # c
    <3>1. conn'[d] = conn[d] /\ LinkOK(conn[d], snd[d[1]], d)
      BY <1>2, <2>3 DEF DirectInv
    <3>2. CASE d[1] # s
      <4>1. snd'[d[1]] = snd[d[1]]
        BY <1>2, <2>1, <3>2
      <4>2. LinkOK(conn[d], snd[d[1]], d)'
        BY <1>6, <3>1, <4>1 DEF LinkOK
      <4>3. ASSUME Serving(d)
            PROVE  SessionOK(conn[d], snd[d[1]], d)'
        <5>1. SessionOK(conn[d], snd[d[1]], d)
          BY <4>3 DEF DirectInv
        <5> QED
          BY <5>1, <1>2, <1>7, <3>1, <4>1 DEF SessionOK
      <4> QED
        BY <1>6, <4>2, <4>3
    <3>3. CASE d[1] = s
      <4>1. conn[d].client # "open"
        BY <1>1, <2>1, <2>3, <3>1, <3>3 DEF LinkOK
      <4>2. conn[d].client # "gone"
        BY <3>1, <3>3 DEF LinkOK, InAttempt
      <4>3. snd'[d[1]] = next /\ conn[d].s2c = << >>
        BY <1>2, <2>1, <3>1, <3>3, <4>1 DEF LinkOK
      <4>4. LinkOK(conn[d], snd[d[1]], d)'
        BY <1>6, <3>1, <4>1, <4>2 DEF LinkOK
      <4>5. ASSUME Serving(d)
            PROVE  SessionOK(conn[d], snd[d[1]], d)'
        <5>1. SessionOK(conn[d], snd[d[1]], d)
          BY <4>5 DEF DirectInv
        <5> QED
          BY <5>1, <1>2, <1>7, <3>1, <4>1, <4>3 DEF SessionOK, Up
      <4> QED
        BY <1>6, <4>4, <4>5
    <3> QED
      BY <3>2, <3>3
  <2> QED
    BY <2>2, <2>3
<1>9. ASSUME NEW t \in Sender
      PROVE  SenderOK(snd[t], Link(t))'
  <2>1. CASE t = s
    <3>1. Attempt(t)' = c
      BY <1>1, <1>2, <2>1 DEF Attempt
    <3>2. Link(t)' = k /\ snd'[t] = next
      BY <1>2, <2>1, <3>1 DEF Link
    <3> QED
      BY <3>2 DEF SenderOK
  <2>2. CASE t # s
    <3>1. snd'[t] = snd[t] /\ SenderOK(snd[t], Link(t))
      BY <1>2, <2>2 DEF DirectInv
    <3>2. CASE snd[t].pc \in InAttempt
      <4>1. PICK d \in Conn : d = Attempt(t) /\ d[1] = t /\ Link(t) = conn[d]
        BY <3>2, SenderFacts
      <4>2. Attempt(t)' = d /\ d # c
        BY <1>1, <2>2, <3>1, <4>1 DEF Attempt
      <4>3. Link(t)' = conn[d]
        BY <1>2, <4>2 DEF Link
      <4> QED
        BY <3>1, <4>1, <4>3 DEF SenderOK
    <3>3. CASE snd[t].pc \notin InAttempt
      BY <3>1, <3>3 DEF SenderOK
    <3> QED
      BY <3>2, <3>3
  <2> QED
    BY <2>1, <2>2
<1>10. \A d \in Conn : LinkOK(conn[d], snd[d[1]], d)'
  BY <1>8
<1>11. \A d \in Conn : Serving(d)' => SessionOK(conn[d], snd[d[1]], d)'
  BY <1>8
<1> QED
  BY <1>3, <1>4, <1>5, <1>9, <1>10, <1>11 DEF DirectInv

\* The end of an attempt, whether the stream is dropped or the host is lost.
LEMMA LeaveRule ==
  ASSUME DirectInv, NEW s \in Sender, snd[s].pc \in InAttempt,
         NEW next \in SenderState, next.tries = snd[s].tries, next.pc \notin InAttempt,
         next.pc = "idle" => next.tries < MaxAttempts,
         NEW k \in Connection, k.client # "open", k.client = "gone" => next.pc = "gone",
         k.s2c = << >>, k.server = Link(s).server,
         k.server = "open" => k.c2s = Link(s).c2s,
         snd' = [snd EXCEPT ![s] = next],
         conn' = [conn EXCEPT ![Attempt(s)] = k],
         SenderLeavesRest, faults' \in 0..MaxFaults
  PROVE  DirectInv'
<1>1. PICK c \in Conn : c = Attempt(s) /\ c[1] = s /\ c[2] = snd[s].tries /\ Link(s) = conn[c]
  BY SenderFacts
<1>2. LinkOK(conn[c], snd[s], c)
  BY <1>1 DEF DirectInv
<1>3. SenderOK(next, k)
  BY DEF SenderOK
<1>4. LinkOK(k, next, c)
  BY <1>1, <1>2 DEF LinkOK
<1>5. ASSUME Serving(c)
      PROVE  SessionOK(k, next, c)
  <2>1. SessionOK(conn[c], snd[s], c)
    BY <1>1, <1>5 DEF DirectInv
  <2> QED
    BY <1>1, <2>1 DEF SessionOK, Up
<1> QED
  BY <1>1, <1>3, <1>4, <1>5, SenderRule

\* The attempt ends and the stream is dropped.
LEMMA EndAttemptOK ==
  ASSUME DirectInv, NEW s \in Sender, snd[s].pc \in InAttempt,
         NEW next \in SenderState, next.tries = snd[s].tries, next.pc \notin InAttempt,
         next.pc = "idle" => next.tries < MaxAttempts,
         EndAttempt(s, next), SenderLeavesRest, faults' \in 0..MaxFaults
  PROVE  DirectInv'
<1>1. PICK k : k = CloseClient(Link(s))
  OBVIOUS
<1>2. Link(s) \in Connection /\ Link(s) = conn[Attempt(s)]
  BY SenderFacts
<1>3. /\ k \in Connection /\ k.client = "closed" /\ k.s2c = << >> /\ k.server = Link(s).server
      /\ k.server = "open" => k.c2s = Link(s).c2s
  BY <1>1, <1>2, CloseClientIs
<1>4. snd' = [snd EXCEPT ![s] = next] /\ conn' = [conn EXCEPT ![Attempt(s)] = k]
  BY <1>1, <1>2 DEF EndAttempt
<1> QED
  BY <1>3, <1>4, LeaveRule

\* The states a sender's attempt may end in.
LEMMA EndStates ==
  ASSUME DirectInv, NEW s \in Sender
  PROVE  /\ \A pc \in {"ok", "refused", "exhausted", "gone", "idle"} :
              LET next == [snd[s] EXCEPT !.pc = pc, !.pos = 0] IN
              next \in SenderState /\ next.tries = snd[s].tries /\ next.pc = pc
              /\ next.kind = snd[s].kind
         /\ Transient(s) \in SenderState /\ Transient(s).tries = snd[s].tries
         /\ Transient(s).kind = snd[s].kind
         /\ Transient(s).pc = IF snd[s].tries = MaxAttempts THEN "exhausted" ELSE "idle"
         /\ Fatal(s) \in SenderState /\ Fatal(s).tries = snd[s].tries
         /\ Fatal(s).kind = snd[s].kind /\ Fatal(s).pc = "refused"
<1>1. snd[s] \in SenderState
  BY TypeFacts DEF DirectInv
<1>2. ASSUME NEW pc \in {"ok", "refused", "exhausted", "gone", "idle"}
      PROVE  /\ [snd[s] EXCEPT !.pc = pc, !.pos = 0] \in SenderState
             /\ [snd[s] EXCEPT !.pc = pc, !.pos = 0].tries = snd[s].tries
             /\ [snd[s] EXCEPT !.pc = pc, !.pos = 0].pc = pc
             /\ [snd[s] EXCEPT !.pc = pc, !.pos = 0].kind = snd[s].kind
  BY <1>1 DEF SenderState
<1>3. PICK pc \in {"exhausted", "idle"} :
        pc = IF snd[s].tries = MaxAttempts THEN "exhausted" ELSE "idle"
  OBVIOUS
<1>4. PICK m : m = [snd[s] EXCEPT !.pc = pc, !.pos = 0]
  OBVIOUS
<1>5. m \in SenderState /\ m.tries = snd[s].tries /\ m.kind = snd[s].kind /\ m.pc = pc
  BY <1>1, <1>4 DEF SenderState
<1>7. Transient(s) = m
  BY <1>3, <1>4 DEF Transient
<1>6. /\ Fatal(s) \in SenderState /\ Fatal(s).tries = snd[s].tries
      /\ Fatal(s).kind = snd[s].kind /\ Fatal(s).pc = "refused"
  BY <1>2 DEF Fatal
<1> QED
  BY <1>2, <1>3, <1>5, <1>6, <1>7

\* How an attempt can end without success, seen from the retry loop.
LEMMA FailedOK ==
  ASSUME DirectInv, NEW s \in Sender, snd[s].pc \in InAttempt,
         NEW next \in {Fatal(s), Transient(s)},
         EndAttempt(s, next), SenderLeavesRest, faults' \in 0..MaxFaults
  PROVE  DirectInv'
<1>1. /\ next \in SenderState /\ next.tries = snd[s].tries
      /\ next.pc \in {"refused", "exhausted", "idle"}
  <2>1. CASE next = Fatal(s)
    BY <2>1, EndStates
  <2>2. CASE next = Transient(s)
    BY <2>2, EndStates
  <2> QED
    BY <2>1, <2>2
<1>2. next.pc \notin InAttempt
  BY <1>1 DEF InAttempt
<1>3. snd[s].tries \in 0..MaxAttempts /\ MaxAttempts \in Nat
  BY TypeFacts DEF DirectInv
<1>4. next.pc = "idle" => next.tries < MaxAttempts
  <2>1. CASE next = Fatal(s)
    BY <2>1, EndStates
  <2>2. CASE next = Transient(s)
    <3>1. next.pc = IF snd[s].tries = MaxAttempts THEN "exhausted" ELSE "idle"
      BY <2>2, EndStates
    <3> QED
      BY <1>1, <1>3, <3>1
  <2> QED
    BY <2>1, <2>2
<1> QED
  BY <1>1, <1>2, <1>4, EndAttemptOK

\* A fault is counted.
LEMMA FaultIs ==
  ASSUME TypeOK, NEW kind, Fault(kind)
  PROVE  faults' \in 0..MaxFaults /\ faults' = faults + 1
<1>1. faults \in 0..MaxFaults /\ MaxFaults \in Nat /\ faults < MaxFaults
  BY TypeFacts DEF Fault
<1> QED
  BY <1>1 DEF Fault


\* The attempt ends with the send: it succeeded, or its process is gone.
LEMMA EndedOK ==
  ASSUME DirectInv, NEW s \in Sender, snd[s].pc \in InAttempt, NEW pc \in {"ok", "gone"},
         EndAttempt(s, [snd[s] EXCEPT !.pc = pc, !.pos = 0]),
         SenderLeavesRest, faults' \in 0..MaxFaults
  PROVE  DirectInv'
<1>1. PICK next : next = [snd[s] EXCEPT !.pc = pc, !.pos = 0]
  OBVIOUS
<1>2. next \in SenderState /\ next.tries = snd[s].tries /\ next.pc = pc
  BY <1>1, TypeFacts DEF DirectInv, SenderState
<1>3. next.pc \notin InAttempt /\ next.pc # "idle"
  BY <1>2 DEF InAttempt
<1>4. EndAttempt(s, next)
  BY <1>1
<1> QED
  BY <1>2, <1>3, <1>4, EndAttemptOK

\* Every way an attempt ends without the sender's host being lost.
LEMMA EndStepOK ==
  ASSUME DirectInv, NEW s \in Sender,
         \/ RejectServerIntro(s) \/ RecvVersionError(s) \/ RecvAck(s) \/ RecvUnpackError(s)
         \/ SenderError(s) \/ OpenTimeout(s) \/ LateAnswer(s) \/ Quit(s)
  PROVE  DirectInv'
<1>1. faults \in 0..MaxFaults /\ TypeOK
  BY TypeFacts DEF DirectInv
<1>2. faults' \in 0..MaxFaults /\ SenderLeavesRest
  BY <1>1, FaultIs DEF RejectServerIntro, RecvVersionError, RecvAck, RecvUnpackError, SenderError,
     OpenTimeout, LateAnswer, Quit
<1>3. snd[s].pc \in InAttempt
  BY DEF RejectServerIntro, RecvVersionError, RecvAck, RecvUnpackError, SenderError,
     OpenTimeout, LateAnswer, Quit, InAttempt
<1>4. CASE RecvAck(s)
  <2>1. PICK next \in {[snd[s] EXCEPT !.pc = "ok", !.pos = 0], Transient(s)} : EndAttempt(s, next)
    BY <1>4 DEF RecvAck
  <2>2. CASE next = [snd[s] EXCEPT !.pc = "ok", !.pos = 0]
    <3>1. EndAttempt(s, [snd[s] EXCEPT !.pc = "ok", !.pos = 0])
      BY <2>1, <2>2
    <3> QED
      BY <1>2, <1>3, <3>1, EndedOK
  <2>3. CASE next = Transient(s)
    BY <1>2, <1>3, <2>1, <2>3, FailedOK
  <2> QED
    BY <2>1, <2>2, <2>3
<1>5. CASE Quit(s)
  <2>1. EndAttempt(s, [snd[s] EXCEPT !.pc = "gone", !.pos = 0])
    BY <1>5 DEF Quit
  <2> QED
    BY <1>2, <1>3, <2>1, EndedOK
<1>6. CASE ~RecvAck(s) /\ ~Quit(s)
  <2>1. PICK next \in {Fatal(s), Transient(s)} : EndAttempt(s, next)
    BY <1>6 DEF RejectServerIntro, RecvVersionError, RecvUnpackError, SenderError,
       OpenTimeout, LateAnswer, OnUnpackError, OnWrongCode
  <2> QED
    BY <1>2, <1>3, <2>1, FailedOK
<1> QED
  BY <1>4, <1>5, <1>6

\* The sender's host is lost.
LEMMA VanishOK ==
  ASSUME DirectInv, NEW s \in Sender, Vanish(s)
  PROVE  DirectInv'
<1>1. PICK k : k = Vanished(Link(s))
  OBVIOUS
<1>2. snd[s].pc \in InAttempt
  BY DEF Vanish, InAttempt
<1>3. Link(s) \in Connection /\ Link(s) = conn[Attempt(s)] /\ snd[s] \in SenderState /\ TypeOK
  BY <1>2, SenderFacts, TypeFacts DEF DirectInv
<1>4. /\ k \in Connection /\ k.client \in {"gone", "closed"} /\ k.s2c = << >>
      /\ k.server = Link(s).server
      /\ k.server = "open" => k.c2s = Link(s).c2s
  BY <1>1, <1>3, VanishedIs
<1>5. PICK next : next = [snd[s] EXCEPT !.pc = "gone", !.pos = 0]
  OBVIOUS
<1>6. next \in SenderState /\ next.tries = snd[s].tries /\ next.pc = "gone"
  BY <1>3, <1>5 DEF SenderState
<1>7. snd' = [snd EXCEPT ![s] = next] /\ conn' = [conn EXCEPT ![Attempt(s)] = k]
  BY <1>1, <1>3, <1>5, TypeFacts DEF Vanish, DirectInv
<1>8. faults' \in 0..MaxFaults /\ SenderLeavesRest
  BY <1>3, FaultIs DEF Vanish
<1>9. next.pc \notin InAttempt
  BY <1>6 DEF InAttempt
<1> QED
  BY <1>2, <1>4, <1>6, <1>7, <1>8, <1>9, LeaveRule

\* A sender within an attempt whose connection the receiver still reads is in
\* line or being served.
LEMMA LinkFacts ==
  ASSUME DirectInv, NEW s \in Sender, snd[s].pc \in InAttempt
  PROVE  /\ LinkOK(Link(s), snd[s], Attempt(s))
         /\ Serving(Attempt(s)) => SessionOK(Link(s), snd[s], Attempt(s))
         /\ Waiting(Attempt(s)) => snd[s].pc = "opening"
         /\ ~(Waiting(Attempt(s)) /\ Serving(Attempt(s)))
<1>1. Attempt(s) \in Conn /\ Attempt(s)[1] = s /\ Link(s) = conn[Attempt(s)]
      /\ Link(s).client = "open"
  BY SenderFacts
<1>2. LinkOK(Link(s), snd[s], Attempt(s))
  BY <1>1 DEF DirectInv
<1>3. Serving(Attempt(s)) => SessionOK(Link(s), snd[s], Attempt(s))
  BY <1>1 DEF DirectInv
<1>4. ASSUME Waiting(Attempt(s)), Serving(Attempt(s))
      PROVE  FALSE
  <2>1. rcv.conn = <<Attempt(s)>> /\ rcv.pc \in {"finish", "header", "body"}
    BY <1>4 DEF Serving
  <2>2. Served = Attempt(s) /\ ~InBacklog(Served)
    BY <2>1, ServedFacts DEF Served
  <2> QED
    BY <1>4, <2>1, <2>2 DEF Waiting
<1> QED
  BY <1>1, <1>2, <1>3, <1>4 DEF LinkOK

\* The offer is taken up: ClientFinish and Header are on their way.
LEMMA RecvServerIntroOK ==
  ASSUME DirectInv, NEW s \in Sender, RecvServerIntro(s)
  PROVE  DirectInv'
<1>1. snd[s].pc = "opening" /\ snd[s].pc \in InAttempt
  BY DEF RecvServerIntro, InAttempt
<1>2. PICK c \in Conn : c = Attempt(s) /\ c[1] = s /\ c[2] = snd[s].tries /\ Link(s) = conn[c]
  BY <1>1, SenderFacts
<1>3. PICK k : k = Link(s)
  OBVIOUS
<1>4. k \in Connection /\ k.client = "open" /\ k = conn[c] /\ k.s2c # << >>
  BY <1>1, <1>2, <1>3, SenderFacts DEF RecvServerIntro, Arrived
<1>5. PICK size : size = Size[ResourceOf[s]]
  OBVIOUS
<1>6. size \in Nat /\ snd[s] \in SenderState /\ rcv.offset \in Nat /\ snd[s].tries \in Nat
      /\ faults \in 0..MaxFaults
  BY <1>5, TypeFacts DEF DirectInv
<1>7. LinkOK(k, snd[s], c) /\ (Serving(c) => SessionOK(k, snd[s], c))
  BY <1>1, <1>2, <1>3, LinkFacts
<1>8. PICK frames : frames = <<Signal("client_finish"), Signal("header")>>
  OBVIOUS
<1>9. frames \in Seq(Frame) /\ Len(frames) = 2
      /\ frames[1] = Signal("client_finish") /\ frames[2] = Signal("header")
  BY <1>8, SignalIs
<1>10. PICK pos : pos = Head(k.s2c).at
  OBVIOUS
<1>11. pos \in Nat
  <2>1. Head(k.s2c) \in Frame
    BY <1>4 DEF Connection
  <2> QED
    BY <1>10, <2>1 DEF Frame
<1>12. PICK next : next = [snd[s] EXCEPT !.pc = "sending", !.pos = pos]
  OBVIOUS
<1>13. next \in SenderState /\ next.pc = "sending" /\ next.pos = pos /\ next.tries = snd[s].tries
  BY <1>6, <1>11, <1>12 DEF SenderState
<1>14. PICK m : m = Answered(k)
  OBVIOUS
<1>15. /\ m \in Connection /\ m.client = k.client /\ m.server = k.server /\ m.net = k.net
       /\ m.c2s = k.c2s /\ m.s2c = Tail(k.s2c)
  BY <1>4, <1>14, AnsweredIs
<1>16. PICK j : j = ToServer(m, frames)
  OBVIOUS
<1>17. /\ j \in Connection /\ j.client = k.client /\ j.server = k.server /\ j.net = k.net
       /\ j.s2c = Tail(k.s2c)
       /\ j.c2s = IF k.server = "open" /\ k.net = "up" THEN k.c2s \o frames ELSE k.c2s
  BY <1>9, <1>15, <1>16, ToServerIs
<1>18. snd' = [snd EXCEPT ![s] = next] /\ conn' = [conn EXCEPT ![Attempt(s)] = j]
  BY <1>2, <1>3, <1>8, <1>10, <1>12, <1>14, <1>16, TypeFacts DEF DirectInv, RecvServerIntro
<1>19. ~Waiting(c)
  BY <1>4, <1>7 DEF LinkOK
<1>20. LinkOK(j, next, c)
  BY <1>2, <1>4, <1>7, <1>13, <1>17, <1>19 DEF LinkOK, InAttempt
<1>21. ASSUME Serving(c)
       PROVE  SessionOK(j, next, c)
  <2>1. k.server = "open" /\ k.s2c = Offer /\ k.c2s = << >> /\ rcv.pc = "finish"
    BY <1>4, <1>7, <1>21 DEF SessionOK
  <2>2. pos = rcv.offset /\ Tail(k.s2c) = << >>
    BY <1>10, <2>1 DEF Offer
  <2>3. Here = 0
    BY <2>1 DEF Here
  <2>4. CASE k.net = "up"
    <3>1. j.c2s = frames
      <4>1. << >> \o frames = frames
        BY <1>9
      <4> QED
        BY <1>17, <2>1, <2>4, <4>1
    <3>2. Path(<< >>, 0, 0, rcv.offset, size)
      BY PathEmpty
    <3>3. PICK f : f = Signal("client_finish")
      OBVIOUS
    <3>4. PICK g : g = Signal("header")
      OBVIOUS
    <3>5. f \in Request(size) /\ g \in Request(size) /\ f.type = "client_finish" /\ g.type = "header"
      BY <3>3, <3>4, SignalIs DEF Request
    <3>6. From(f, size) = 0 /\ To(f, rcv.offset, size) = 1 /\ From(g, size) = 1
          /\ To(g, rcv.offset, size) = rcv.offset + 2
      BY <3>5 DEF From, To
    <3>7. Path(<< >> \o <<f>>, 0, 1, rcv.offset, size)
      BY <1>6, <3>2, <3>5, <3>6, PathAppend
    <3>8. PICK q : q = << >> \o <<f>>
      OBVIOUS
    <3>9. PICK r : r = q \o <<g>>
      OBVIOUS
    <3>12. Path(r, 0, rcv.offset + 2, rcv.offset, size)
      BY <1>6, <3>5, <3>6, <3>7, <3>8, <3>9, PathAppend
    <3>13. r = frames
      <4>1. q = <<f>>
        BY <3>8
      <4>2. <<f>> \o <<g>> = <<f, g>>
        BY <3>5, PairIs
      <4>3. frames = <<f, g>>
        BY <1>8, <3>3, <3>4
      <4> QED
        BY <3>9, <4>1, <4>2, <4>3
    <3>10. There(next, size) = rcv.offset + 2
      BY <1>13, <2>2 DEF There
    <3>11. Path(j.c2s, Here, rcv.offset + 2, rcv.offset, size) /\ rcv.offset + 2 \in Nat
      BY <1>6, <2>3, <3>1, <3>12, <3>13
    <3> QED
      BY <1>2, <1>5, <1>17, <2>1, <2>2, <3>10, <3>11 DEF SessionOK
  <2>5. CASE k.net # "up"
    <3>1. j.c2s = k.c2s /\ ~Up(j)
      BY <1>17, <2>5 DEF Up
    <3>2. \E b \in Nat : Path(k.c2s, Here, b, rcv.offset, Size[ResourceOf[c[1]]])
      BY <1>7, <1>21 DEF SessionOK
    <3> QED
      BY <1>17, <2>1, <2>2, <3>1, <3>2 DEF SessionOK
  <2> QED
    BY <2>4, <2>5
<1>22. SenderOK(next, j)
  <2>1. snd[s].tries >= 1
    BY <1>2, ConnFacts
  <2> QED
    BY <1>4, <1>13, <1>17, <2>1 DEF SenderOK
<1>23. faults' \in 0..MaxFaults /\ SenderLeavesRest
  BY <1>6 DEF RecvServerIntro
<1> QED
  BY <1>1, <1>2, <1>13, <1>17, <1>18, <1>20, <1>21, <1>22, <1>23, SenderRule


\* A frame goes out from where the sender is.
LEMMA SendRule ==
  ASSUME DirectInv, NEW s \in Sender, snd[s].pc = "sending",
         NEW next \in SenderState, next.tries = snd[s].tries, next.pc \in {"sending", "waiting"},
         NEW f \in Request(Size[ResourceOf[s]]), f.type \in {"chunk", "done"},
         From(f, Size[ResourceOf[s]]) = There(snd[s], Size[ResourceOf[s]]),
         To(f, rcv.offset, Size[ResourceOf[s]]) = There(next, Size[ResourceOf[s]]),
         snd' = [snd EXCEPT ![s] = next],
         conn' = [conn EXCEPT ![Attempt(s)] = ToServer(@, <<f>>)],
         SenderLeavesRest, UNCHANGED faults
  PROVE  DirectInv'
<1>1. snd[s].pc \in InAttempt
  BY DEF InAttempt
<1>2. PICK c \in Conn : c = Attempt(s) /\ c[1] = s /\ c[2] = snd[s].tries /\ Link(s) = conn[c]
  BY <1>1, SenderFacts
<1>3. PICK k : k = Link(s)
  OBVIOUS
<1>4. k \in Connection /\ k.client = "open" /\ k = conn[c]
  BY <1>1, <1>2, <1>3, SenderFacts
<1>5. PICK size : size = Size[ResourceOf[s]]
  OBVIOUS
<1>6. size \in Nat /\ rcv.offset \in Nat /\ snd[s].tries \in Nat /\ faults \in 0..MaxFaults
  BY <1>5, TypeFacts DEF DirectInv
<1>7. LinkOK(k, snd[s], c) /\ (Serving(c) => SessionOK(k, snd[s], c)) /\ ~Waiting(c)
  BY <1>1, <1>2, <1>3, LinkFacts
<1>8. PICK frames : frames = <<f>>
  OBVIOUS
<1>9. frames \in Seq(Frame)
  BY <1>8 DEF Request
<1>10. PICK j : j = ToServer(k, frames)
  OBVIOUS
<1>11. /\ j \in Connection /\ j.client = k.client /\ j.server = k.server /\ j.net = k.net
       /\ j.s2c = k.s2c
       /\ j.c2s = IF k.server = "open" /\ k.net = "up" THEN k.c2s \o frames ELSE k.c2s
  BY <1>4, <1>9, <1>10, ToServerIs
<1>12. conn' = [conn EXCEPT ![Attempt(s)] = j]
  BY <1>2, <1>4, <1>8, <1>10, TypeFacts DEF DirectInv
<1>13. LinkOK(j, next, c)
  BY <1>2, <1>4, <1>7, <1>11 DEF LinkOK, InAttempt
<1>14. ASSUME Serving(c)
       PROVE  SessionOK(j, next, c)
  <2>1. k.server = "open" /\ k.s2c = << >>
    BY <1>7, <1>14 DEF SessionOK
  <2>2. PICK b \in Nat : /\ Path(k.c2s, Here, b, rcv.offset, size)
                         /\ Up(k) => b = There(snd[s], size)
    BY <1>2, <1>5, <1>7, <1>14 DEF SessionOK
  <2>3. CASE k.net = "up"
    <3>1. b = From(f, size) /\ j.c2s = k.c2s \o <<f>>
      BY <1>4, <1>5, <1>8, <1>11, <2>1, <2>2, <2>3 DEF Up
    <3>2. PICK e : e = To(f, rcv.offset, size)
      OBVIOUS
    <3>3. Path(k.c2s \o <<f>>, Here, e, rcv.offset, size)
      BY <1>5, <1>6, <2>2, <3>1, <3>2, PathAppend
    <3>4. e \in Nat
      BY <1>5, <1>6, <3>2 DEF To, Request, Frame
    <3>5. e = There(next, size)
      BY <1>5, <3>2
    <3>6. Path(j.c2s, Here, e, rcv.offset, Size[ResourceOf[c[1]]])
      BY <1>2, <1>5, <3>1, <3>3
    <3> QED
      BY <1>2, <1>5, <1>11, <2>1, <3>4, <3>5, <3>6 DEF SessionOK
  <2>4. CASE k.net # "up"
    <3>1. j.c2s = k.c2s /\ ~Up(j)
      BY <1>11, <2>4 DEF Up
    <3> QED
      BY <1>2, <1>5, <1>11, <2>1, <2>2, <3>1 DEF SessionOK
  <2> QED
    BY <2>3, <2>4
<1>15. SenderOK(next, j)
  <2>1. snd[s].tries >= 1
    BY <1>2, ConnFacts
  <2> QED
    BY <1>4, <1>11, <2>1 DEF SenderOK
<1>16. faults' \in 0..MaxFaults
  BY <1>6
<1> QED
  BY <1>1, <1>2, <1>11, <1>12, <1>13, <1>14, <1>15, <1>16, SenderRule

\* Archive bytes go out in order.
LEMMA SendChunkOK ==
  ASSUME DirectInv, NEW s \in Sender, NEW n \in 1..MaxChunk, SendChunk(s, n)
  PROVE  DirectInv'
<1>1. PICK size : size = Size[ResourceOf[s]]
  OBVIOUS
<1>2. size \in Nat /\ snd[s] \in SenderState /\ snd[s].pos \in Nat /\ rcv.offset \in Nat
      /\ n \in Nat
  BY <1>1, TypeFacts, DirectAssumption DEF DirectInv
<1>3. PICK f : f = [type |-> "chunk", at |-> snd[s].pos, len |-> n]
  OBVIOUS
<1>4. f.type = "chunk" /\ f.at = snd[s].pos /\ f.len = n /\ f \in Request(size)
  <2>1. f.type = "chunk" /\ f.at = snd[s].pos /\ f.len = n /\ f \in Frame
    BY <1>2, <1>3 DEF Frame
  <2>2. snd[s].pos + n <= size
    BY <1>1 DEF SendChunk
  <2> QED
    BY <2>1, <2>2 DEF Request
<1>5. PICK pos : pos = snd[s].pos + n
  OBVIOUS
<1>6. PICK next : next = [snd[s] EXCEPT !.pos = pos]
  OBVIOUS
<1>7. next \in SenderState /\ next.tries = snd[s].tries /\ next.pc = "sending" /\ next.pos = pos
      /\ snd[s].pc = "sending"
  BY <1>2, <1>5, <1>6 DEF SendChunk, SenderState
<1>8. From(f, size) = There(snd[s], size)
  BY <1>4, <1>7 DEF From, There
<1>9. To(f, rcv.offset, size) = There(next, size)
  BY <1>2, <1>4, <1>5, <1>7 DEF To, There
<1>10. snd' = [snd EXCEPT ![s] = next]
  BY <1>5, <1>6, TypeFacts DEF DirectInv, SendChunk
<1>11. conn' = [conn EXCEPT ![Attempt(s)] = ToServer(@, <<f>>)]
  BY <1>3 DEF SendChunk
<1>12. SenderLeavesRest /\ UNCHANGED faults
  BY DEF SendChunk
<1> QED
  BY <1>1, <1>4, <1>7, <1>8, <1>9, <1>10, <1>11, <1>12, SendRule

\* Done follows the last byte.
LEMMA SendDoneOK ==
  ASSUME DirectInv, NEW s \in Sender, SendDone(s)
  PROVE  DirectInv'
<1>1. PICK size : size = Size[ResourceOf[s]]
  OBVIOUS
<1>2. size \in Nat /\ snd[s] \in SenderState
  BY <1>1, TypeFacts DEF DirectInv
<1>3. PICK f : f = Signal("done")
  OBVIOUS
<1>4. f.type = "done" /\ f \in Request(size)
  BY <1>3, SignalIs DEF Request
<1>5. PICK next : next = [snd[s] EXCEPT !.pc = "waiting"]
  OBVIOUS
<1>6. next \in SenderState /\ next.tries = snd[s].tries /\ next.pc = "waiting"
      /\ snd[s].pc = "sending" /\ snd[s].pos = size
  BY <1>1, <1>2, <1>5 DEF SendDone, SenderState
<1>7. From(f, size) = There(snd[s], size)
  BY <1>4, <1>6 DEF From, There
<1>8. To(f, rcv.offset, size) = There(next, size)
  BY <1>4, <1>6 DEF To, There
<1>9. snd' = [snd EXCEPT ![s] = next]
  BY <1>5, TypeFacts DEF DirectInv, SendDone
<1>10. conn' = [conn EXCEPT ![Attempt(s)] = ToServer(@, <<f>>)]
  BY <1>3 DEF SendDone
<1>11. SenderLeavesRest /\ UNCHANGED faults
  BY DEF SendDone
<1> QED
  BY <1>1, <1>4, <1>6, <1>7, <1>8, <1>9, <1>10, <1>11, SendRule


\* Outside an attempt no connection of the sender is open, and none of them
\* expects anything of it.
LEMMA IdleFacts ==
  ASSUME DirectInv, NEW s \in Sender, snd[s].pc = "idle", NEW c \in Conn, c[1] = s
  PROVE  /\ conn[c].client # "open" /\ conn[c].client # "gone" /\ conn[c].s2c = << >>
         /\ ~Up(conn[c])
<1>1. LinkOK(conn[c], snd[s], c)
  BY DEF DirectInv
<1> QED
  BY <1>1 DEF LinkOK, InAttempt, Up

\* Nobody listens.
LEMMA ConnectRefusedOK ==
  ASSUME DirectInv, NEW s \in Sender, ConnectRefused(s)
  PROVE  DirectInv'
<1>1. snd[s].pc = "idle" /\ SenderOK(snd[s], Link(s)) /\ TypeOK
  BY DEF ConnectRefused, DirectInv
<1>2. snd[s] \in SenderState /\ snd[s].tries \in Nat /\ MaxAttempts \in Nat
      /\ snd[s].tries < MaxAttempts
  BY <1>1, TypeFacts DEF SenderOK
<1>3. PICK tries : tries = snd[s].tries + 1
  OBVIOUS
<1>4. PICK pc \in {"exhausted", "idle"} : pc = IF tries = MaxAttempts THEN "exhausted" ELSE "idle"
  OBVIOUS
<1>5. PICK next : next = [snd[s] EXCEPT !.pc = pc, !.tries = tries]
  OBVIOUS
<1>6. tries \in 0..MaxAttempts /\ tries > snd[s].tries
  BY <1>2, <1>3
<1>7. next \in SenderState /\ next.tries = tries /\ next.pc = pc
  BY <1>2, <1>5, <1>6 DEF SenderState
<1>8. snd' = [snd EXCEPT ![s] = next]
  BY <1>3, <1>4, <1>5, <1>1, TypeFacts DEF ConnectRefused
<1>9. /\ \A t \in Sender : snd'[t] = IF t = s THEN next ELSE snd[t]
      /\ disk' = disk /\ clock' = clock /\ backlog' = backlog /\ rcv' = rcv /\ conn' = conn
      /\ delivered' = delivered /\ torn' = torn /\ unwelcome' = unwelcome
  BY <1>1, <1>8, TypeFacts DEF ConnectRefused, SenderLeavesRest
<1>10. TypeOK'
  <2>1. snd' \in [Sender -> SenderState]
    BY <1>1, <1>7, <1>8, TypeFacts
  <2>2. faults' \in 0..MaxFaults
    BY <1>1, FaultIs DEF ConnectRefused
  <2> QED
    BY <1>1, <1>9, <2>1, <2>2 DEF TypeOK
<1>11. DiskOK' /\ ReceiverOK'
  BY <1>9 DEF DirectInv, DiskOK, ReceiverOK, Named, Peer, Served
<1>12. QueueOK'
  <2>1. \A t \in Sender : snd'[t].tries \in Nat /\ snd'[t].tries >= snd[t].tries
    BY <1>1, <1>2, <1>6, <1>7, <1>9, TypeFacts
  <2> QED
    BY <1>9, <2>1, QueueKept
<1>13. (\A d : (Waiting(d)' <=> Waiting(d)) /\ (Serving(d)' <=> Serving(d)))
       /\ Here' = Here /\ Offer' = Offer
  BY <1>9 DEF Waiting, Serving, InBacklog, Here, Offer
<1>14. ASSUME NEW d \in Conn
       PROVE  /\ LinkOK(conn[d], snd[d[1]], d)'
              /\ Serving(d)' => SessionOK(conn[d], snd[d[1]], d)'
  <2>1. d[1] \in Sender /\ LinkOK(conn[d], snd[d[1]], d) /\ conn'[d] = conn[d]
    BY <1>9, ConnFacts DEF DirectInv
  <2>2. d[1] = s => conn[d].client # "open" /\ conn[d].client # "gone" /\ conn[d].s2c = << >>
                    /\ ~Up(conn[d])
    BY <1>1, IdleFacts
  <2>3. d[1] # s => snd'[d[1]] = snd[d[1]]
    BY <1>9, <2>1
  <2>4. LinkOK(conn[d], snd[d[1]], d)'
    BY <1>13, <2>1, <2>2, <2>3 DEF LinkOK
  <2>5. ASSUME Serving(d)
        PROVE  SessionOK(conn[d], snd[d[1]], d)'
    <3>1. SessionOK(conn[d], snd[d[1]], d)
      BY <2>5 DEF DirectInv
    <3> QED
      BY <3>1, <1>9, <1>13, <2>1, <2>2, <2>3 DEF SessionOK
  <2> QED
    BY <1>13, <2>4, <2>5
<1>15. ASSUME NEW t \in Sender
       PROVE  SenderOK(snd[t], Link(t))'
  <2>1. CASE t = s
    <3>1. pc = "idle" => tries < MaxAttempts
      BY <1>2, <1>4, <1>6
    <3>2. snd'[t] = next /\ next.pc \notin InAttempt
      BY <1>7, <1>9, <2>1 DEF InAttempt
    <3> QED
      BY <1>7, <3>1, <3>2 DEF SenderOK
  <2>2. CASE t # s
    <3>1. snd'[t] = snd[t] /\ SenderOK(snd[t], Link(t))
      BY <1>9, <2>2 DEF DirectInv
    <3>2. Link(t)' = Link(t)
      BY <1>9, <3>1 DEF Link, Attempt
    <3> QED
      BY <3>1, <3>2 DEF SenderOK
  <2> QED
    BY <2>1, <2>2
<1>16. \A d \in Conn : LinkOK(conn[d], snd[d[1]], d)'
  BY <1>14
<1>17. \A d \in Conn : Serving(d)' => SessionOK(conn[d], snd[d[1]], d)'
  BY <1>14
<1> QED
  BY <1>10, <1>11, <1>12, <1>15, <1>16, <1>17 DEF DirectInv

\* The sender dials: c is its new attempt, k that attempt's connection and next
\* its own new state.
Dialled(s, c, next, k) ==
  /\ snd[s].pc = "idle" /\ snd[s].tries < MaxAttempts
  /\ c[1] = s /\ c[2] = snd[s].tries + 1
  /\ next.pc = "opening" /\ next.tries = c[2] /\ next.kind = snd[s].kind
  /\ k.client = "open" /\ k.server = "open" /\ k.net = "up"
  /\ k.c2s = <<Signal("client_intro")>> /\ k.s2c = << >>
  /\ snd' = [snd EXCEPT ![s] = next]
  /\ conn' = [conn EXCEPT ![c] = k]
  /\ backlog' = Append(backlog, c)
  /\ UNCHANGED <<disk, clock, rcv, delivered, faults, torn, unwelcome>>

\* That is what connecting does.
LEMMA ConnectDials ==
  ASSUME DirectInv, NEW s \in Sender, Connect(s)
  PROVE  \E c \in Conn, next \in SenderState, k \in Connection : Dialled(s, c, next, k)
<1>1. snd[s].pc = "idle" /\ SenderOK(snd[s], Link(s)) /\ TypeOK
  BY DEF Connect, DirectInv
<1>2. snd[s] \in SenderState /\ snd[s].tries \in Nat /\ MaxAttempts \in Nat
      /\ snd[s].tries < MaxAttempts
  BY <1>1, TypeFacts DEF SenderOK
<1>3. PICK tries : tries = snd[s].tries + 1
  OBVIOUS
<1>4. tries \in 1..MaxAttempts /\ tries \in 0..MaxAttempts
  BY <1>2, <1>3
<1>5. PICK c \in Conn : c = <<s, tries>> /\ c[1] = s /\ c[2] = tries
  BY <1>4, ConnFacts
<1>6. PICK next : next = [snd[s] EXCEPT !.pc = "opening", !.tries = tries]
  OBVIOUS
<1>7. next \in SenderState /\ next.tries = tries /\ next.pc = "opening" /\ next.kind = snd[s].kind
  BY <1>2, <1>4, <1>6 DEF SenderState
<1>8. PICK k : k = [c2s |-> <<Signal("client_intro")>>, s2c |-> << >>, client |-> "open",
                    server |-> "open", net |-> "up"]
  OBVIOUS
<1>9. /\ k \in Connection /\ k.client = "open" /\ k.server = "open" /\ k.net = "up"
      /\ k.c2s = <<Signal("client_intro")>> /\ k.s2c = << >>
  <2>1. PICK q : q = <<Signal("client_intro")>>
    OBVIOUS
  <2>2. PICK n : n = << >>
    OBVIOUS
  <2>3. q \in Seq(Frame) /\ n \in Seq(Frame)
    BY <2>1, <2>2, SignalIs
  <2>4. k = [c2s |-> q, s2c |-> n, client |-> "open", server |-> "open", net |-> "up"]
    BY <1>8, <2>1, <2>2
  <2> QED
    BY <2>1, <2>2, <2>3, <2>4 DEF Connection
<1>10. /\ snd' = [snd EXCEPT ![s] = next]
       /\ conn' = [conn EXCEPT ![c] = k]
       /\ backlog' = Append(backlog, c)
  BY <1>1, <1>3, <1>5, <1>6, <1>8, TypeFacts DEF Connect
<1>11. UNCHANGED <<disk, clock, rcv, delivered, faults, torn, unwelcome>>
  BY DEF Connect
<1> QED
  BY <1>1, <1>2, <1>3, <1>5, <1>7, <1>9, <1>10, <1>11 DEF Dialled

\* A new attempt joins the end of the line.
LEMMA ConnectOK ==
  ASSUME DirectInv, NEW s \in Sender, Connect(s)
  PROVE  DirectInv'
<1>1. snd[s].pc = "idle" /\ TypeOK
  BY DEF Connect, DirectInv
<1>2. snd[s].tries \in Nat /\ MaxAttempts \in Nat
  BY <1>1, TypeFacts
<1>3. PICK tries : tries = snd[s].tries + 1
  OBVIOUS
<1>4. PICK c \in Conn, next \in SenderState, k \in Connection : Dialled(s, c, next, k)
  BY ConnectDials
<1>5. c[1] = s /\ c[2] = tries /\ c = <<s, tries>>
  BY <1>3, <1>4, ConnFacts DEF Dialled
<1>6. next \in SenderState /\ next.tries = tries /\ next.pc = "opening"
  BY <1>3, <1>4 DEF Dialled
<1>7. tries \in 1..MaxAttempts /\ tries \in 0..MaxAttempts /\ tries > snd[s].tries
  BY <1>2, <1>3, <1>4 DEF Dialled
<1>8. /\ k \in Connection /\ k.client = "open" /\ k.server = "open" /\ k.net = "up"
      /\ k.c2s = <<Signal("client_intro")>> /\ k.s2c = << >>
  BY <1>4 DEF Dialled
<1>9. /\ snd' = [snd EXCEPT ![s] = next]
       /\ conn' = [conn EXCEPT ![c] = k]
       /\ backlog' = Append(backlog, c)
  BY <1>4 DEF Dialled
<1>10. /\ \A t \in Sender : snd'[t] = IF t = s THEN next ELSE snd[t]
       /\ \A d \in Conn : conn'[d] = IF d = c THEN k ELSE conn[d]
       /\ disk' = disk /\ clock' = clock /\ rcv' = rcv /\ faults' = faults
       /\ delivered' = delivered /\ torn' = torn /\ unwelcome' = unwelcome
  BY <1>1, <1>4, <1>9, TypeFacts DEF Dialled
<1>11. backlog \in Seq(Conn) /\ backlog' \in Seq(Conn) /\ Len(backlog) \in Nat
       /\ Len(backlog') = Len(backlog) + 1 /\ backlog'[Len(backlog) + 1] = c
       /\ \A i \in 1..Len(backlog) : backlog'[i] = backlog[i]
  BY <1>1, <1>9, TypeFacts
<1>12. TypeOK'
  <2>1. snd' \in [Sender -> SenderState] /\ conn' \in [Conn -> Connection]
    BY <1>1, <1>6, <1>8, <1>9, TypeFacts
  <2> QED
    BY <1>1, <1>10, <1>11, <2>1 DEF TypeOK
<1>13. DiskOK' /\ ReceiverOK'
  BY <1>10 DEF DirectInv, DiskOK, ReceiverOK, Named, Peer, Served
<1>14. \A d : InBacklog(d)' <=> InBacklog(d) \/ d = c
  BY <1>11 DEF InBacklog
<1>15. /\ \A d : Waiting(d)' <=> Waiting(d) \/ d = c
       /\ \A d : Serving(d)' <=> Serving(d)
       /\ \A d : InLine(d)' <=> InLine(d) \/ d = c
       /\ Here' = Here /\ Offer' = Offer
  BY <1>10, <1>14 DEF Waiting, Serving, InLine, Here, Offer
<1>16. \A d \in Conn : InLine(d) /\ d[1] = s => d[2] < tries
  <2>1. ASSUME NEW d \in Conn, InLine(d), d[1] = s
        PROVE  d[2] < tries
    <3>1. d[2] <= snd[d[1]].tries
      BY <2>1 DEF DirectInv, QueueOK
    <3>2. d[2] \in Nat
      BY ConnFacts
    <3> QED
      BY <1>2, <1>3, <2>1, <3>1, <3>2
  <2> QED
    BY <2>1
<1>17. ~InLine(c)
  BY <1>5, <1>7, <1>16
<1>18. QueueOK'
  <2>1. ASSUME NEW i \in 1..Len(backlog'), NEW j \in 1..Len(backlog'),
               i < j, backlog'[i][1] = backlog'[j][1]
        PROVE  backlog'[i][2] < backlog'[j][2]
    <3>1. i \in 1..Len(backlog) /\ backlog'[i] = backlog[i] /\ backlog[i] \in Conn
      BY <1>11, <2>1
    <3>2. CASE j \in 1..Len(backlog)
      <4>1. backlog'[j] = backlog[j]
        BY <1>11, <3>2
      <4> QED
        BY <2>1, <3>1, <3>2, <4>1 DEF DirectInv, QueueOK
    <3>3. CASE j \notin 1..Len(backlog)
      <4>1. backlog'[j] = c
        BY <1>11, <3>3
      <4>2. InLine(backlog[i])
        BY <3>1 DEF InLine, InBacklog
      <4> QED
        BY <1>5, <1>16, <2>1, <3>1, <4>1, <4>2
    <3> QED
      BY <3>2, <3>3
  <2>2. ASSUME NEW e \in Conn, NEW d \in Conn, rcv'.conn = <<e>>, InBacklog(d)', e[1] = d[1]
        PROVE  e[2] < d[2]
    <3>1. rcv.conn = <<e>> /\ InLine(e)
      BY <1>10, <2>2 DEF InLine
    <3>2. CASE d = c
      BY <1>5, <1>16, <2>2, <3>1, <3>2
    <3>3. CASE InBacklog(d)
      BY <2>2, <3>1, <3>3 DEF DirectInv, QueueOK
    <3> QED
      BY <1>14, <2>2, <3>2, <3>3
  <2>3. ASSUME NEW d \in Conn, InLine(d)'
        PROVE  d[2] <= snd'[d[1]].tries
    <3>1. d[1] \in Sender /\ d[2] \in Nat
      BY ConnFacts
    <3>2. CASE d = c
      BY <1>7, <1>5, <1>6, <1>10, <3>2
    <3>3. CASE InLine(d)
      <4>1. d[2] <= snd[d[1]].tries
        BY <3>3 DEF DirectInv, QueueOK
      <4>2. CASE d[1] = s
        BY <1>2, <1>7, <1>6, <1>10, <3>1, <4>1, <4>2
      <4>3. CASE d[1] # s
        BY <1>10, <3>1, <4>1, <4>3
      <4> QED
        BY <4>2, <4>3
    <3> QED
      BY <1>15, <2>3, <3>2, <3>3
  <2> QED
    BY <2>1, <2>2, <2>3 DEF QueueOK
<1>19. ASSUME NEW d \in Conn
       PROVE  /\ LinkOK(conn[d], snd[d[1]], d)'
              /\ Serving(d)' => SessionOK(conn[d], snd[d[1]], d)'
  <2>1. d[1] \in Sender
    BY ConnFacts
  <2>2. CASE d = c
    <3>1. conn'[d] = k /\ snd'[d[1]] = next /\ Waiting(d)'
      BY <1>5, <1>10, <1>15, <2>2
    <3>2. LinkOK(conn[d], snd[d[1]], d)'
      BY <1>5, <1>6, <1>8, <2>2, <3>1 DEF LinkOK, InAttempt
    <3>3. ~Serving(d)
      BY <1>17, <2>2 DEF Serving, InLine
    <3> QED
      BY <1>15, <3>2, <3>3
  <2>3. CASE d # c
    <3>1. LinkOK(conn[d], snd[d[1]], d) /\ conn'[d] = conn[d]
          /\ (Waiting(d)' <=> Waiting(d)) /\ (Serving(d)' <=> Serving(d))
      BY <1>10, <1>15, <2>3 DEF DirectInv
    <3>2. d[1] = s => conn[d].client # "open" /\ conn[d].client # "gone" /\ conn[d].s2c = << >>
                      /\ ~Up(conn[d])
      BY <1>1, IdleFacts
    <3>3. d[1] # s => snd'[d[1]] = snd[d[1]]
      BY <1>10, <2>1
    <3>4. LinkOK(conn[d], snd[d[1]], d)'
      BY <3>1, <3>2, <3>3 DEF LinkOK
    <3>5. ASSUME Serving(d)
          PROVE  SessionOK(conn[d], snd[d[1]], d)'
      <4>1. SessionOK(conn[d], snd[d[1]], d)
        BY <3>5 DEF DirectInv
      <4> QED
        BY <4>1, <1>10, <1>15, <3>1, <3>2, <3>3 DEF SessionOK
    <3> QED
      BY <3>1, <3>4, <3>5
  <2> QED
    BY <2>2, <2>3
<1>20. ASSUME NEW t \in Sender
       PROVE  SenderOK(snd[t], Link(t))'
  <2>1. CASE t = s
    <3>1. Attempt(t)' = c
      BY <1>5, <1>6, <1>10, <2>1 DEF Attempt
    <3>2. Link(t)' = k /\ snd'[t] = next
      BY <1>10, <2>1, <3>1 DEF Link
    <3> QED
      BY <1>7, <1>6, <1>8, <3>2 DEF SenderOK
  <2>2. CASE t # s
    <3>1. snd'[t] = snd[t] /\ SenderOK(snd[t], Link(t))
      BY <1>10, <2>2 DEF DirectInv
    <3>2. CASE snd[t].pc \in InAttempt
      <4>1. PICK d \in Conn : d = Attempt(t) /\ d[1] = t /\ Link(t) = conn[d]
        BY <3>2, SenderFacts
      <4>2. Attempt(t)' = d /\ d # c
        BY <1>5, <2>2, <3>1, <4>1 DEF Attempt
      <4>3. Link(t)' = conn[d]
        BY <1>10, <4>2 DEF Link
      <4> QED
        BY <3>1, <4>1, <4>3 DEF SenderOK
    <3>3. CASE snd[t].pc \notin InAttempt
      BY <3>1, <3>3 DEF SenderOK
    <3> QED
      BY <3>2, <3>3
  <2> QED
    BY <2>1, <2>2
<1>21. \A d \in Conn : LinkOK(conn[d], snd[d[1]], d)'
  BY <1>19
<1>22. \A d \in Conn : Serving(d)' => SessionOK(conn[d], snd[d[1]], d)'
  BY <1>19
<1> QED
  BY <1>12, <1>13, <1>18, <1>20, <1>21, <1>22 DEF DirectInv


-------------------------------------------------------------------------------
(* The steps of the receiver. *)

\* What a step that leaves the senders alone keeps of theirs.
LEMMA SendersKept ==
  ASSUME DirectInv, snd' = snd,
         \A d \in Conn : conn'[d].client = "open" <=> conn[d].client = "open"
  PROVE  \A t \in Sender : SenderOK(snd[t], Link(t))'
<1> SUFFICES ASSUME NEW t \in Sender
             PROVE  SenderOK(snd[t], Link(t))'
  OBVIOUS
<1>1. SenderOK(snd[t], Link(t))
  BY DEF DirectInv
<1>2. CASE snd[t].pc \in InAttempt
  <2>1. PICK d \in Conn : d = Attempt(t) /\ Link(t) = conn[d]
    BY <1>2, SenderFacts
  <2>2. Link(t)' = conn'[d]
    BY <2>1 DEF Link, Attempt
  <2> QED
    BY <1>1, <2>1, <2>2 DEF SenderOK
<1>3. CASE snd[t].pc \notin InAttempt
  BY <1>1, <1>3 DEF SenderOK
<1> QED
  BY <1>2, <1>3

\* The receiver goes on with the connection it serves.
LEMMA ServeRule ==
  ASSUME DirectInv, rcv.pc \in {"intro", "finish", "header", "body"},
         NEW q \in ReceiverState, q.conn = rcv.conn, q.pc \in {"finish", "header", "body"},
         rcv' = q,
         NEW k \in Connection, k.client = conn[Served].client, k.client # "open" => k.s2c = << >>,
         SessionOK(k, snd[Served[1]], Served)',
         conn' = [conn EXCEPT ![Served] = k],
         disk' \in [Resource -> Dir], DiskOK',
         Len(disk'[Named].part) = q.offset, "meta" \in disk'[Named].files,
         torn' \subseteq Resource,
         UNCHANGED <<backlog, clock, snd, faults, delivered, unwelcome>>
  PROVE  DirectInv'
<1>1. PICK c \in Conn : /\ c = Served /\ rcv.conn = <<c>> /\ Peer = c[1]
                        /\ ~InBacklog(c) /\ \A d \in Conn : rcv.conn = <<d>> => d = c
  BY ServedFacts
<1>2. Served' = c /\ rcv'.conn = <<c>>
  BY <1>1 DEF Served
<1>3. Named' = Named
  BY <1>1, <1>2 DEF Named, Peer
<1>4. \A d \in Conn : conn'[d] = IF d = c THEN k ELSE conn[d]
  BY <1>1, TypeFacts DEF DirectInv
<1>5. TypeOK'
  <2>1. conn' \in [Conn -> Connection]
    BY <1>1, TypeFacts DEF DirectInv
  <2> QED
    BY <2>1 DEF DirectInv, TypeOK
<1>6. ReceiverOK'
  <2>1. Len(disk'[Named'].part) = rcv'.offset /\ "meta" \in disk'[Named'].files
    BY <1>3
  <2>2. \E d \in Conn : rcv'.conn = <<d>>
    BY <1>2
  <2> QED
    BY <2>1, <2>2 DEF ReceiverOK
<1>7. QueueOK'
  <2>1. \A t \in Sender : snd'[t].tries \in Nat /\ snd'[t].tries >= snd[t].tries
    BY TypeFacts DEF DirectInv
  <2> QED
    BY <2>1, QueueKept
<1>8. \A d : InBacklog(d)' <=> InBacklog(d)
  BY DEF InBacklog
<1>9. ~Waiting(c)' /\ Serving(c)'
  BY <1>1, <1>2, <1>8 DEF Waiting, Serving
<1>10. \A d \in Conn : d # c => (Waiting(d)' <=> Waiting(d)) /\ ~Serving(d)' /\ ~Serving(d)
  BY <1>1, <1>2, <1>8 DEF Waiting, Serving
<1>11. ASSUME NEW d \in Conn
       PROVE  LinkOK(conn[d], snd[d[1]], d)'
  <2>1. LinkOK(conn[d], snd[d[1]], d)
    BY DEF DirectInv
  <2>2. CASE d = c
    <3>1. conn'[d] = k /\ k.client = conn[d].client
      BY <1>1, <1>4, <2>2
    <3> QED
      BY <1>9, <2>1, <2>2, <3>1 DEF LinkOK
  <2>3. CASE d # c
    BY <1>4, <1>10, <2>1, <2>3 DEF LinkOK
  <2> QED
    BY <2>2, <2>3
<1>12. ASSUME NEW d \in Conn, Serving(d)'
       PROVE  SessionOK(conn[d], snd[d[1]], d)'
  <2>1. d = c
    BY <1>10, <1>12
  <2>2. conn'[d] = k /\ d = Served'
    BY <1>2, <1>4, <2>1
  <2> QED
    BY <2>2, <1>2 DEF SessionOK
<1>13. \A t \in Sender : SenderOK(snd[t], Link(t))'
  <2>1. \A d \in Conn : conn'[d].client = "open" <=> conn[d].client = "open"
    BY <1>1, <1>4
  <2> QED
    BY <2>1, SendersKept
<1> QED
  BY <1>5, <1>6, <1>7, <1>11, <1>12, <1>13 DEF DirectInv

\* Between two connections.
LEMMA AtListenerIs ==
  ASSUME NEW pc \in {"accept", "down"}
  PROVE  AtListener(pc) \in ReceiverState /\ AtListener(pc).pc = pc /\ AtListener(pc).conn = << >>
<1>1. << >> \in Seq(Conn)
  OBVIOUS
<1> QED
  BY <1>1 DEF AtListener, ReceiverState

\* The receiver leaves the connection it serves.
LEMMA HangupRule ==
  ASSUME DirectInv, rcv.pc \notin {"accept", "down"}, rcv' = AtListener("accept"),
         NEW k \in Connection, k.client = "open" <=> conn[Served].client = "open",
         k.client # "gone", k.client # "open" => k.s2c = << >>, k.server = "closed",
         conn' = [conn EXCEPT ![Served] = k],
         disk' \in [Resource -> Dir], DiskOK',
         torn' \subseteq Resource, unwelcome' \subseteq Sender, delivered' \in [Sender -> Nat],
         UNCHANGED <<backlog, clock, snd, faults>>
  PROVE  DirectInv'
<1>1. PICK c \in Conn : /\ c = Served /\ rcv.conn = <<c>> /\ Peer = c[1]
                        /\ ~InBacklog(c) /\ \A d \in Conn : rcv.conn = <<d>> => d = c
  BY ServedFacts
<1>2. rcv'.conn = << >> /\ rcv'.pc = "accept" /\ rcv' \in ReceiverState
  <2>1. PICK q : q = AtListener("accept")
    OBVIOUS
  <2>2. q.conn = << >> /\ q.pc = "accept" /\ q \in ReceiverState
    BY <2>1, AtListenerIs
  <2>3. rcv' = q
    BY <2>1
  <2> QED
    BY <2>2, <2>3
<1>3. \A d \in Conn : rcv'.conn # <<d>>
  <2>1. \A d \in Conn : << >> # <<d>>
    OBVIOUS
  <2> QED
    BY <1>2, <2>1
<1>4. \A d \in Conn : conn'[d] = IF d = c THEN k ELSE conn[d]
  BY <1>1, TypeFacts DEF DirectInv
<1>5. TypeOK'
  <2>1. conn' \in [Conn -> Connection]
    BY <1>1, TypeFacts DEF DirectInv
  <2> QED
    BY <1>2, <2>1 DEF DirectInv, TypeOK
<1>6. ReceiverOK'
  BY <1>2 DEF ReceiverOK
<1>7. QueueOK'
  <2>1. \A t \in Sender : snd'[t].tries \in Nat /\ snd'[t].tries >= snd[t].tries
    BY TypeFacts DEF DirectInv
  <2> QED
    BY <1>2, <2>1, QueueKept
<1>8. \A d : InBacklog(d)' <=> InBacklog(d)
  BY DEF InBacklog
<1>9. ~Waiting(c)'
  BY <1>1, <1>3, <1>8 DEF Waiting
<1>10. \A d \in Conn : d # c => (Waiting(d)' <=> Waiting(d)) /\ ~Serving(d)
  BY <1>1, <1>3, <1>8 DEF Waiting, Serving
<1>11. ASSUME NEW d \in Conn
       PROVE  LinkOK(conn[d], snd[d[1]], d)'
  <2>1. LinkOK(conn[d], snd[d[1]], d)
    BY DEF DirectInv
  <2>2. CASE d = c
    <3>1. conn'[d] = k /\ (k.client = "open" <=> conn[d].client = "open")
      BY <1>1, <1>4, <2>2
    <3> QED
      BY <1>9, <2>1, <2>2, <3>1 DEF LinkOK
  <2>3. CASE d # c
    BY <1>4, <1>10, <2>1, <2>3 DEF LinkOK
  <2> QED
    BY <2>2, <2>3
<1>12. \A d \in Conn : ~Serving(d)'
  BY <1>3 DEF Serving
<1>13. \A t \in Sender : SenderOK(snd[t], Link(t))'
  <2>1. \A d \in Conn : conn'[d].client = "open" <=> conn[d].client = "open"
    BY <1>1, <1>4
  <2> QED
    BY <2>1, SendersKept
<1> QED
  BY <1>5, <1>6, <1>7, <1>11, <1>12, <1>13 DEF DirectInv

\* It answers, if at all, and drops the stream.
LEMMA HangupIs ==
  ASSUME DirectInv, rcv.pc \notin {"accept", "down"},
         NEW replies \in Seq(Frame), Hangup(replies)
  PROVE  \E k \in Connection :
           /\ rcv' = AtListener("accept") /\ conn' = [conn EXCEPT ![Served] = k]
           /\ k.client = "open" <=> conn[Served].client = "open"
           /\ k.client # "gone" /\ k.server = "closed"
           /\ k.client # "open" => k.s2c = << >>
           /\ k.client = "open" =>
                /\ k.net = conn[Served].net
                /\ k.s2c = IF Up(conn[Served]) THEN conn[Served].s2c \o replies
                           ELSE conn[Served].s2c
<1>1. Served \in Conn /\ conn[Served] \in Connection
  BY ServedFacts
<1>2. PICK m : m = ToClient(conn[Served], replies)
  OBVIOUS
<1>3. /\ m \in Connection /\ m.client = conn[Served].client /\ m.net = conn[Served].net
      /\ m.s2c = IF Up(conn[Served]) THEN conn[Served].s2c \o replies ELSE conn[Served].s2c
  BY <1>1, <1>2, ToClientIs
<1>4. PICK k : k = CloseServer(m)
  OBVIOUS
<1>5. /\ k \in Connection /\ k.server = "closed" /\ k.client # "gone"
      /\ (k.client = "open" <=> m.client = "open")
      /\ (m.client = "open" => k.s2c = m.s2c /\ k.net = m.net)
      /\ (m.client # "open" => k.s2c = << >>)
  BY <1>3, <1>4, CloseServerIs
<1>6. rcv' = AtListener("accept") /\ conn' = [conn EXCEPT ![Served] = k]
  BY <1>1, <1>2, <1>4, TypeFacts DEF Hangup, DirectInv
<1> QED
  BY <1>3, <1>5, <1>6

\* A connection ends without a change to the store.
LEMMA PlainHangupOK ==
  ASSUME DirectInv, rcv.pc \notin {"accept", "down"},
         NEW replies \in Seq(Frame), Hangup(replies),
         UNCHANGED disk, torn' \subseteq Resource, unwelcome' \subseteq Sender,
         delivered' \in [Sender -> Nat], UNCHANGED <<backlog, clock, snd, faults>>
  PROVE  DirectInv'
<1>1. PICK k \in Connection :
           /\ rcv' = AtListener("accept") /\ conn' = [conn EXCEPT ![Served] = k]
           /\ k.client = "open" <=> conn[Served].client = "open"
           /\ k.client # "gone" /\ k.server = "closed"
           /\ k.client # "open" => k.s2c = << >>
  BY HangupIs
<1>2. disk' \in [Resource -> Dir]
  BY TypeFacts DEF DirectInv
<1>3. DiskOK'
  BY DEF DiskOK, DirectInv
<1> QED
  BY <1>1, <1>2, <1>3, HangupRule


\* A read that succeeds, and what the invariant says of the frame it takes.
LEMMA ReadingFacts ==
  ASSUME DirectInv, NEW pc \in {"intro", "finish", "header", "body"}, NEW type, Reading(pc, type)
  PROVE  /\ rcv.pc = pc /\ rcv.pc \notin {"accept", "down"}
         /\ Served \in Conn /\ conn[Served] \in Connection /\ conn[Served].c2s # << >>
         /\ Head(conn[Served].c2s).type = type
         /\ LinkOK(conn[Served], snd[Served[1]], Served)
         /\ pc = "intro" => Waiting(Served)
         /\ pc # "intro" =>
              /\ Serving(Served) /\ SessionOK(conn[Served], snd[Served[1]], Served)
              /\ Len(disk[Named].part) = rcv.offset /\ "meta" \in disk[Named].files
              /\ \E b \in Nat :
                   /\ Path(conn[Served].c2s, Here, b, rcv.offset, Size[Named])
                   /\ Up(conn[Served]) => b = There(snd[Served[1]], Size[Named])
<1>1. rcv.pc = pc /\ rcv.pc \notin {"accept", "down"} /\ conn[Served].c2s # << >>
      /\ Head(conn[Served].c2s).type = type
  BY DEF Reading, Arrived
<1>2. Served \in Conn /\ conn[Served] \in Connection /\ rcv.conn = <<Served>>
      /\ Named = ResourceOf[Served[1]]
  BY <1>1, ServedFacts
<1>3. LinkOK(conn[Served], snd[Served[1]], Served)
  BY <1>2 DEF DirectInv
<1>4. pc = "intro" => Waiting(Served)
  BY <1>1, <1>2 DEF Waiting
<1>5. ASSUME pc # "intro"
      PROVE  /\ Serving(Served) /\ SessionOK(conn[Served], snd[Served[1]], Served)
             /\ Len(disk[Named].part) = rcv.offset /\ "meta" \in disk[Named].files
             /\ \E b \in Nat :
                  /\ Path(conn[Served].c2s, Here, b, rcv.offset, Size[Named])
                  /\ Up(conn[Served]) => b = There(snd[Served[1]], Size[Named])
  <2>1. Serving(Served)
    BY <1>1, <1>2, <1>5 DEF Serving
  <2>2. SessionOK(conn[Served], snd[Served[1]], Served)
    BY <1>2, <2>1 DEF DirectInv
  <2>3. Len(disk[Named].part) = rcv.offset /\ "meta" \in disk[Named].files
    BY <2>1 DEF Serving, DirectInv, ReceiverOK
  <2> QED
    BY <1>2, <2>1, <2>2, <2>3 DEF SessionOK
<1> QED
  BY <1>1, <1>2, <1>3, <1>4, <1>5

\* The head of the line is accepted.
LEMMA AcceptOK ==
  ASSUME DirectInv, Accept
  PROVE  DirectInv'
<1>1. TypeOK /\ rcv.pc = "accept" /\ rcv.conn = << >> /\ backlog \in Seq(Conn) /\ backlog # << >>
      /\ Len(backlog) \in Nat
  BY TypeFacts DEF Accept, DirectInv, ReceiverOK
<1>2. PICK c \in Conn : c = Head(backlog) /\ c = backlog[1]
  BY <1>1
<1>3. PICK queue : queue = <<c>>
  OBVIOUS
<1>4. queue \in Seq(Conn)
  BY <1>3
<1>5. rcv' = [pc |-> "intro", conn |-> queue, offset |-> 0]
  BY <1>2, <1>3 DEF Accept
<1>6. rcv' \in ReceiverState /\ rcv'.pc = "intro" /\ rcv'.conn = <<c>>
  BY <1>3, <1>4, <1>5 DEF ReceiverState
<1>7. /\ disk' = disk /\ conn' = conn /\ clock' = clock /\ snd' = snd /\ faults' = faults
      /\ delivered' = delivered /\ torn' = torn /\ unwelcome' = unwelcome
  BY DEF Accept, ReceiverLeavesRest
<1>8. PICK rest : rest = Tail(backlog)
  OBVIOUS
<1>9. rest \in Seq(Conn) /\ Len(rest) = Len(backlog) - 1 /\ Len(rest) \in Nat
      /\ (\A i \in 1..Len(rest) : i + 1 \in 1..Len(backlog) /\ rest[i] = backlog[i + 1])
      /\ backlog' = rest
  BY <1>1, <1>8 DEF Accept
<1>10. TypeOK'
  BY <1>1, <1>6, <1>7, <1>9 DEF TypeOK
<1>11. DiskOK'
  BY <1>7 DEF DirectInv, DiskOK
<1>12. ReceiverOK'
  BY <1>6 DEF ReceiverOK
<1>13. \A d \in Conn : rcv'.conn = <<d>> <=> d = c
  BY <1>6
<1>14. \A d \in Conn : rcv.conn # <<d>>
  <2>1. \A d \in Conn : << >> # <<d>>
    OBVIOUS
  <2> QED
    BY <1>1, <2>1
<1>15. \A d \in Conn : InBacklog(d)' \/ d = c <=> InBacklog(d)
  <2>1. ASSUME NEW d \in Conn, InBacklog(d)'
        PROVE  InBacklog(d)
    BY <1>9, <2>1 DEF InBacklog
  <2>2. InBacklog(c)
    BY <1>1, <1>2 DEF InBacklog
  <2>3. ASSUME NEW d \in Conn, InBacklog(d), d # c
        PROVE  InBacklog(d)'
    <3>1. PICK i \in 1..Len(backlog) : backlog[i] = d
      BY <2>3 DEF InBacklog
    <3>2. i # 1
      BY <1>2, <2>3, <3>1
    <3>3. i - 1 \in 1..Len(rest) /\ i - 1 + 1 = i
      BY <1>1, <1>9, <3>2
    <3>4. rest[i - 1] = d
      BY <1>9, <3>1, <3>3
    <3> QED
      BY <1>9, <3>3, <3>4 DEF InBacklog
  <2> QED
    BY <2>1, <2>2, <2>3
<1>16. \A d \in Conn : /\ Waiting(d)' <=> Waiting(d)
                       /\ InLine(d)' <=> InLine(d)
                       /\ ~Serving(d)'
  BY <1>6, <1>13, <1>14, <1>15 DEF Waiting, InLine, Serving
<1>17. QueueOK'
  <2>1. ASSUME NEW i \in 1..Len(rest), NEW j \in 1..Len(rest), i < j, rest[i][1] = rest[j][1]
        PROVE  rest[i][2] < rest[j][2]
    <3>1. i + 1 \in 1..Len(backlog) /\ j + 1 \in 1..Len(backlog) /\ i + 1 < j + 1
          /\ rest[i] = backlog[i + 1] /\ rest[j] = backlog[j + 1]
      BY <1>9, <2>1
    <3> QED
      BY <2>1, <3>1 DEF DirectInv, QueueOK
  <2>2. ASSUME NEW e \in Conn, NEW d \in Conn, rcv'.conn = <<e>>, InBacklog(d)', e[1] = d[1]
        PROVE  e[2] < d[2]
    <3>1. PICK i \in 1..Len(rest) : rest[i] = d
      BY <1>9, <2>2 DEF InBacklog
    <3>2. i + 1 \in 1..Len(backlog) /\ 1 \in 1..Len(backlog) /\ 1 < i + 1
          /\ backlog[i + 1] = d /\ backlog[1] = e
      BY <1>1, <1>2, <1>9, <1>13, <2>2, <3>1
    <3> QED
      BY <2>2, <3>2 DEF DirectInv, QueueOK
  <2>3. ASSUME NEW d \in Conn, InLine(d)'
        PROVE  d[2] <= snd'[d[1]].tries
    <3>1. InLine(d)
      BY <1>16, <2>3
    <3> QED
      BY <1>7, <3>1 DEF DirectInv, QueueOK
  <2> QED
    BY <1>9, <2>1, <2>2, <2>3 DEF QueueOK
<1>18. \A d \in Conn : LinkOK(conn[d], snd[d[1]], d)'
  <2>1. \A d \in Conn : ~Serving(d)
    BY <1>14 DEF Serving
  <2> QED
    BY <1>7, <1>16, <2>1 DEF LinkOK, DirectInv
<1>19. \A t \in Sender : SenderOK(snd[t], Link(t))'
  BY <1>7, SendersKept
<1> QED
  BY <1>10, <1>11, <1>12, <1>16, <1>17, <1>18, <1>19 DEF DirectInv

\* The ways a connection ends without a change to the store.
LEMMA RejectOK ==
  ASSUME DirectInv, RejectVersion \/ RejectName \/ ReceiverError
  PROVE  DirectInv'
<1>1. rcv.pc \notin {"accept", "down"}
  BY DEF RejectVersion, RejectName, ReceiverError, Reading, DirectInv, ReceiverOK
<1>2. PICK replies \in Seq(Frame) : Hangup(replies)
  <2>1. << >> \in Seq(Frame) /\ <<Signal("version_error")>> \in Seq(Frame)
    BY SignalIs
  <2> QED
    BY <2>1 DEF RejectVersion, RejectName, ReceiverError
<1>3. Peer \in Sender
  BY <1>1, ServedFacts
<1>4. /\ UNCHANGED disk /\ torn' \subseteq Resource /\ unwelcome' \subseteq Sender
      /\ delivered' \in [Sender -> Nat] /\ UNCHANGED <<backlog, clock, snd, faults>>
  BY <1>3 DEF RejectVersion, RejectName, ReceiverError, ReceiverLeavesRest, DirectInv, TypeOK
<1> QED
  BY <1>1, <1>2, <1>4, PlainHangupOK


\* The directories are functions of the resource after each call.
LEMMA StoreTypes ==
  ASSUME DiskOK, disk \in [Resource -> Dir], NEW r \in Resource, NEW d \in Dir
  PROVE  /\ [disk EXCEPT ![r] = d] \in [Resource -> Dir]
         /\ [disk EXCEPT ![r] = d][r] = d
         /\ \A q \in Resource : q # r => [disk EXCEPT ![r] = d][q] = disk[q]
  OBVIOUS

\* The offer: what resume_state leaves is intact and as long as the offset.
LEMMA ResumeStateFacts ==
  ASSUME DiskOK, disk \in [Resource -> Dir], clock \in Nat, NEW r \in Resource,
         NEW offset, offset = ResumeOffset(CleanupExpired(disk, clock)[r], r),
         disk' = ResumeState(disk, r, clock)
  PROVE  /\ disk' \in [Resource -> Dir] /\ DiskOK'
         /\ offset \in Nat /\ Len(disk'[r].part) = offset /\ "meta" \in disk'[r].files
<1>1. PICK cleaned : cleaned = CleanupExpired(disk, clock)
  OBVIOUS
<1>2. \A q \in Resource : /\ DirOK(disk[q]) /\ IsIntact(disk[q].part, q)
  BY DEF DiskOK
<1>3. ASSUME NEW q \in Resource
      PROVE  /\ DirOK(cleaned[q])
             /\ cleaned[q].part = disk[q].part \/ cleaned[q].part = << >>
  BY <1>1, <1>2, CleanupOK, EmptyDirOK
<1>4. PICK e : e = OpenDir(cleaned[r], r, clock)
  OBVIOUS
<1>5. /\ DirOK(e) /\ (e.part = cleaned[r].part \/ e.part = << >>)
      /\ Len(e.part) = ResumeOffset(cleaned[r], r) /\ "meta" \in e.files
      /\ ResumeOffset(cleaned[r], r) \in Nat
  BY <1>3, <1>4, OpenDirOK
<1>6. disk' = [cleaned EXCEPT ![r] = e]
  BY <1>1, <1>4 DEF ResumeState
<1>7. \A q \in Resource : disk'[q] = IF q = r THEN e ELSE cleaned[q]
  BY <1>1, <1>6 DEF CleanupExpired
<1>8. disk' = [q \in Resource |-> IF q = r THEN e ELSE cleaned[q]]
  BY <1>1, <1>6 DEF CleanupExpired
<1>9. \A q \in Resource : DirOK(disk'[q])
  BY <1>3, <1>5, <1>7
<1>10. \A q \in Resource : disk'[q] \in Dir
  BY <1>9 DEF DirOK
<1>11. \A q \in Resource : disk'[q].part = disk[q].part \/ disk'[q].part = << >>
  BY <1>3, <1>5, <1>7
<1>12. \A q \in Resource : IsIntact(disk'[q].part, q)
  BY <1>2, <1>11, EmptyIntact
<1> QED
  BY <1>1, <1>5, <1>7, <1>8, <1>9, <1>10, <1>12 DEF DiskOK

\* The intro is read and the offer made.
LEMMA RecvClientIntroOK ==
  ASSUME DirectInv, RecvClientIntro
  PROVE  DirectInv'
<1>1. PICK offset : offset = ResumeOffset(CleanupExpired(disk, clock)[Named], Named)
  OBVIOUS
<1>2. Reading("intro", "client_intro")
  BY DEF RecvClientIntro
<1>3. /\ rcv.pc = "intro" /\ Served \in Conn /\ conn[Served] \in Connection
      /\ conn[Served].c2s # << >>
      /\ LinkOK(conn[Served], snd[Served[1]], Served) /\ Waiting(Served)
  BY <1>2, ReadingFacts
<1>4. Named \in Resource /\ rcv.conn = <<Served>>
  BY <1>3, ServedFacts
<1>5. disk' = ResumeState(disk, Named, clock)
  BY DEF RecvClientIntro
<1>6. /\ disk' \in [Resource -> Dir] /\ DiskOK' /\ offset \in Nat
      /\ Len(disk'[Named].part) = offset /\ "meta" \in disk'[Named].files
  BY <1>1, <1>4, <1>5, ResumeStateFacts, TypeFacts DEF DirectInv
<1>7. PICK q : q = [rcv EXCEPT !.pc = "finish", !.offset = offset]
  OBVIOUS
<1>8. q \in ReceiverState /\ q.conn = rcv.conn /\ q.pc = "finish" /\ q.offset = offset /\ rcv' = q
  BY <1>1, <1>6, <1>7, TypeFacts DEF RecvClientIntro, DirectInv, ReceiverState
<1>9. PICK k : k = conn[Served]
  OBVIOUS
<1>10. PICK m : m = Consumed(k)
  OBVIOUS
<1>11. /\ m \in Connection /\ m.client = k.client /\ m.server = k.server /\ m.net = k.net
       /\ m.s2c = k.s2c /\ m.c2s = Tail(k.c2s)
  BY <1>3, <1>9, <1>10, ConsumedIs
<1>12. PICK frame : frame = [type |-> "server_intro", at |-> offset, len |-> 0]
  OBVIOUS
<1>13. frame \in Frame
  BY <1>6, <1>12 DEF Frame
<1>14. PICK frames : frames = <<frame>>
  OBVIOUS
<1>15. frames \in Seq(Frame)
  BY <1>13, <1>14
<1>16. PICK j : j = ToClient(m, frames)
  OBVIOUS
<1>17. /\ j \in Connection /\ j.client = m.client /\ j.server = m.server /\ j.net = m.net
       /\ j.c2s = m.c2s /\ j.s2c = IF Up(m) THEN m.s2c \o frames ELSE m.s2c
  BY <1>11, <1>15, <1>16, ToClientIs
<1>18. conn' = [conn EXCEPT ![Served] = j]
  BY <1>1, <1>3, <1>9, <1>10, <1>12, <1>14, <1>16, TypeFacts DEF RecvClientIntro, DirectInv
<1>19. k.server = "open" /\ k.c2s = <<Signal("client_intro")>> /\ k.s2c = << >>
       /\ (k.client = "open" => snd[Served[1]].pc = "opening")
  BY <1>3, <1>9 DEF LinkOK
<1>20. j.c2s = << >> /\ j.server = "open" /\ j.client = k.client /\ j.net = k.net
       /\ (Up(k) => j.s2c = frames) /\ (~Up(k) => j.s2c = << >>)
  <2>1. Tail(<<Signal("client_intro")>>) = << >>
    OBVIOUS
  <2>2. << >> \o frames = frames
    BY <1>15
  <2>3. Up(m) <=> Up(k)
    BY <1>11 DEF Up
  <2>4. m.s2c = << >> /\ m.c2s = << >>
    BY <1>11, <1>19, <2>1
  <2> QED
    BY <1>11, <1>17, <1>19, <2>2, <2>3, <2>4
<1>21. Here' = 0 /\ Offer' = frames /\ rcv'.pc = "finish" /\ Served' = Served
  BY <1>8, <1>12, <1>14 DEF Here, Offer, Served
<1>22. SessionOK(j, snd[Served[1]], Served)'
  <2>1. PICK size : size = Size[ResourceOf[Served[1]]]
    OBVIOUS
  <2>2. Path(j.c2s, 0, 0, rcv'.offset, size)
    BY <1>20, PathEmpty
  <2>3. snd' = snd
    BY DEF RecvClientIntro, ReceiverLeavesRest
  <2>4. Up(j) => There(snd'[Served[1]], size) = 0
    BY <1>19, <1>20, <2>3 DEF Up, There
  <2>5. j.s2c # << >> => j.s2c = frames /\ snd'[Served[1]].pc = "opening"
    BY <1>19, <1>20, <2>3 DEF Up
  <2> QED
    BY <1>20, <1>21, <2>1, <2>2, <2>4, <2>5 DEF SessionOK
<1>23. torn' \subseteq Resource /\ UNCHANGED <<backlog, clock, snd, faults, delivered, unwelcome>>
  BY DEF RecvClientIntro, ReceiverLeavesRest, DirectInv, TypeOK
<1>24. j.client = conn[Served].client /\ (j.client # "open" => j.s2c = << >>)
  BY <1>9, <1>20 DEF Up
<1> QED
  BY <1>3, <1>6, <1>8, <1>17, <1>18, <1>22, <1>23, <1>24, ServeRule

\* A frame of the session is read and takes the receiver where it leads.
LEMMA ConsumeRule ==
  ASSUME DirectInv, NEW pc \in {"finish", "header", "body"}, NEW type, Reading(pc, type),
         NEW q \in ReceiverState, q.conn = rcv.conn, q.pc \in {"finish", "header", "body"},
         rcv' = q,
         Here' = To(Head(conn[Served].c2s), rcv.offset, Size[Named]),
         rcv.pc = "body" \/ q.offset = rcv.offset,
         conn' = [conn EXCEPT ![Served] = Consumed(@)],
         disk' \in [Resource -> Dir], DiskOK',
         Len(disk'[Named].part) = q.offset, "meta" \in disk'[Named].files,
         UNCHANGED <<backlog, clock, snd, faults, delivered, torn, unwelcome>>
  PROVE  DirectInv'
<1>1. PICK k : k = conn[Served]
  OBVIOUS
<1>2. /\ rcv.pc = pc /\ Served \in Conn /\ k \in Connection /\ k.c2s # << >>
      /\ SessionOK(k, snd[Served[1]], Served) /\ LinkOK(k, snd[Served[1]], Served)
  BY <1>1, ReadingFacts
<1>3. PICK j : j = Consumed(k)
  OBVIOUS
<1>4. /\ j \in Connection /\ j.client = k.client /\ j.server = k.server /\ j.net = k.net
      /\ j.s2c = k.s2c /\ j.c2s = Tail(k.c2s)
  BY <1>2, <1>3, ConsumedIs
<1>5. conn' = [conn EXCEPT ![Served] = j]
  BY <1>1, <1>2, <1>3, TypeFacts DEF DirectInv
<1>6. PICK size : size = Size[Named]
  OBVIOUS
<1>7. size \in Nat /\ rcv.offset \in Nat /\ q.offset \in Nat /\ Named = ResourceOf[Served[1]]
      /\ rcv.pc \notin {"accept", "down"}
  <2>1. rcv.pc \notin {"accept", "down"}
    BY <1>2
  <2>2. Named \in Resource /\ Named = ResourceOf[Served[1]]
    BY <2>1, ServedFacts
  <2> QED
    BY <1>6, <2>1, <2>2, TypeFacts, StoreAssumption DEF DirectInv, ReceiverState
<1>8. PICK b \in Nat : Path(k.c2s, Here, b, rcv.offset, size)
                       /\ (Up(k) => b = There(snd[Served[1]], size))
  BY <1>2, <1>6, <1>7 DEF SessionOK
<1>9. PICK f : f = Head(k.c2s)
  OBVIOUS
<1>10. f \in Request(size) /\ From(f, size) = Here
       /\ Path(Tail(k.c2s), To(f, rcv.offset, size), b, rcv.offset, size)
  BY <1>2, <1>7, <1>8, <1>9, PathHead
<1>11. Here' = To(f, rcv.offset, size)
  BY <1>1, <1>6, <1>9
<1>12. Path(j.c2s, Here', b, rcv'.offset, size)
  <2>1. CASE q.offset = rcv.offset
    BY <1>4, <1>10, <1>11, <2>1
  <2>2. CASE rcv.pc = "body"
    <3>1. PICK e : e = To(f, rcv.offset, size)
      OBVIOUS
    <3>2. f.type \in {"chunk", "done"} /\ f.at \in Nat /\ f.len \in Nat
      <4>1. PICK h \in Nat : h = Here /\ h # 0 /\ h # 1
        <5>1. rcv.offset + 2 \in Nat /\ Here = rcv.offset + 2 /\ Here # 0 /\ Here # 1
          BY <1>7, <2>2 DEF Here
        <5> QED
          BY <5>1
      <4>2. /\ f.type \in {"client_finish", "header", "chunk", "done"} /\ f.at \in Nat /\ f.len \in Nat
            /\ f.type = "client_finish" => From(f, size) = 0
            /\ f.type = "header" => From(f, size) = 1
        BY <1>10 DEF From, Request, Frame
      <4> QED
        BY <1>10, <4>1, <4>2
    <3>3. e \in Nat /\ e >= 2
      <4>1. /\ f.type = "chunk" => e = f.at + f.len + 2
            /\ f.type = "done" => e = size + 3
        BY <3>1 DEF To
      <4>2. f.at + f.len + 2 \in Nat /\ f.at + f.len + 2 >= 2 /\ size + 3 \in Nat /\ size + 3 >= 2
        BY <1>7, <3>2
      <4> QED
        BY <3>2, <4>1, <4>2
    <3>4. PICK r : r = Tail(k.c2s)
      OBVIOUS
    <3>5. Path(r, e, b, rcv.offset, size)
      BY <1>10, <3>1, <3>4
    <3>6. Path(r, e, b, q.offset, size)
      BY <1>7, <3>3, <3>5, PathRebase
    <3> QED
      BY <1>4, <1>11, <3>1, <3>4, <3>6
  <2> QED
    BY <2>1, <2>2
<1>13. Served' = Served
  BY DEF Served
<1>14. SessionOK(j, snd[Served[1]], Served)'
  <2>1. j.s2c = << >>
    BY <1>2, <1>4 DEF SessionOK
  <2>2. Up(j) => Up(k)
    BY <1>4 DEF Up
  <2>3. j.server = "open"
    BY <1>2, <1>4 DEF SessionOK
  <2> QED
    BY <1>6, <1>7, <1>8, <1>12, <1>13, <2>1, <2>2, <2>3 DEF SessionOK
<1>15. j.client = conn[Served].client /\ (j.client # "open" => j.s2c = << >>)
  BY <1>1, <1>2, <1>4 DEF LinkOK
<1>16. torn' \subseteq Resource
  BY DEF DirectInv, TypeOK
<1> QED
  BY <1>2, <1>4, <1>5, <1>14, <1>15, <1>16, ServeRule

\* ClientFinish and Header are read.
LEMMA AdvanceOK ==
  ASSUME DirectInv, RecvClientFinish \/ RecvHeader
  PROVE  DirectInv'
<1>1. PICK pc \in {"finish", "header"}, next \in {"header", "body"}, type \in {"client_finish", "header"} :
        /\ Reading(pc, type) /\ Advance(next)
        /\ type = "client_finish" => pc = "finish" /\ next = "header"
        /\ type = "header" => pc = "header" /\ next = "body"
  BY DEF RecvClientFinish, RecvHeader
<1>2. /\ rcv.pc = pc /\ Len(disk[Named].part) = rcv.offset /\ "meta" \in disk[Named].files
      /\ Head(conn[Served].c2s).type = type
  BY <1>1, ReadingFacts
<1>3. PICK q : q = [rcv EXCEPT !.pc = next]
  OBVIOUS
<1>4. q \in ReceiverState /\ q.conn = rcv.conn /\ q.pc = next /\ q.offset = rcv.offset /\ rcv' = q
  BY <1>1, <1>3, TypeFacts DEF Advance, DirectInv, ReceiverState
<1>5. Here' = To(Head(conn[Served].c2s), rcv.offset, Size[Named])
  BY <1>1, <1>2, <1>4 DEF Here, To
<1>6. /\ conn' = [conn EXCEPT ![Served] = Consumed(@)] /\ disk' = disk
      /\ UNCHANGED <<backlog, clock, snd, faults, delivered, torn, unwelcome>>
  BY <1>1 DEF Advance, ReceiverLeavesRest
<1>7. disk' \in [Resource -> Dir] /\ DiskOK'
  BY <1>6, TypeFacts DEF DirectInv, DiskOK
<1>8. Len(disk'[Named].part) = q.offset /\ "meta" \in disk'[Named].files
  BY <1>2, <1>4, <1>6
<1> QED
  BY <1>1, <1>4, <1>5, <1>6, <1>7, <1>8, ConsumeRule


\* The frame a body read takes: a chunk continues the part file, and Done
\* finds it whole.
LEMMA BodyFacts ==
  ASSUME DirectInv, NEW type \in {"chunk", "done"}, Reading("body", type)
  PROVE  /\ Named \in Resource /\ DirOK(disk[Named]) /\ IsIntact(disk[Named].part, Named)
         /\ Len(disk[Named].part) = rcv.offset /\ rcv.offset \in Nat
         /\ Head(conn[Served].c2s).type = type
         /\ type = "done" => rcv.offset = Size[Named]
         /\ type = "chunk" => /\ Head(conn[Served].c2s).at = rcv.offset
                              /\ Head(conn[Served].c2s).len \in Nat
                              /\ rcv.offset + Head(conn[Served].c2s).len <= Size[Named]
<1>1. PICK k : k = conn[Served]
  OBVIOUS
<1>2. PICK size : size = Size[Named]
  OBVIOUS
<1>3. /\ rcv.pc = "body" /\ k.c2s # << >> /\ Head(k.c2s).type = type
      /\ Len(disk[Named].part) = rcv.offset
      /\ \E b \in Nat : Path(k.c2s, Here, b, rcv.offset, size)
  BY <1>1, <1>2, ReadingFacts
<1>4. Named \in Resource /\ size \in Nat /\ rcv.offset \in Nat
  <2>1. Named \in Resource
    BY <1>3, ServedFacts
  <2> QED
    BY <1>2, <2>1, TypeFacts, StoreAssumption DEF DirectInv
<1>5. DirOK(disk[Named]) /\ IsIntact(disk[Named].part, Named)
  BY <1>4 DEF DirectInv, DiskOK
<1>6. PICK f : f = Head(k.c2s)
  OBVIOUS
<1>7. f \in Request(size) /\ From(f, size) = Here
  BY <1>3, <1>4, <1>6, PathHead
<1>8. Here = rcv.offset + 2
  BY <1>3 DEF Here
<1>9. CASE type = "done"
  <2>1. From(f, size) = size + 2
    BY <1>3, <1>6, <1>9 DEF From
  <2>2. size = rcv.offset
    BY <1>4, <1>7, <1>8, <2>1
  <2> QED
    BY <1>1, <1>2, <1>3, <1>4, <1>5, <1>9, <2>2
<1>10. CASE type = "chunk"
  <2>1. f.at \in Nat /\ f.len \in Nat /\ f.at + f.len <= size /\ From(f, size) = f.at + 2
    BY <1>3, <1>6, <1>7, <1>10 DEF From, Request, Frame
  <2>2. f.at = rcv.offset
    BY <1>4, <1>7, <1>8, <2>1
  <2> QED
    BY <1>1, <1>2, <1>3, <1>4, <1>5, <1>6, <1>10, <2>1, <2>2
<1> QED
  BY <1>9, <1>10

\* One chunk is appended.
LEMMA RecvChunkOK ==
  ASSUME DirectInv, RecvChunk
  PROVE  DirectInv'
<1>1. PICK f : f = Head(conn[Served].c2s)
  OBVIOUS
<1>2. Reading("body", "chunk")
  BY DEF RecvChunk
<1>3. PICK d : d = disk[Named]
  OBVIOUS
<1>4. /\ Named \in Resource /\ DirOK(d) /\ IsIntact(d.part, Named) /\ Len(d.part) = rcv.offset
      /\ rcv.offset \in Nat /\ f.at = rcv.offset /\ f.len \in Nat
      /\ rcv.offset + f.len <= Size[Named] /\ f.type = "chunk"
  BY <1>1, <1>2, <1>3, BodyFacts
<1>5. PICK n \in Nat : n = f.len
  BY <1>4
<1>6. PICK b : b = Bytes(f.at, n)
  OBVIOUS
<1>7. b \in Seq(Nat) /\ Len(b) = n
  BY <1>4, <1>6, BytesType
<1>8. PICK offset \in Nat : offset = rcv.offset + n
  BY <1>4
<1>9. PICK e : e = AppendChunk(d, b, offset, clock)
  OBVIOUS
<1>10. clock \in Nat /\ disk \in [Resource -> Dir]
  BY TypeFacts DEF DirectInv
<1>11. DirOK(e) /\ e.part = d.part \o b /\ "meta" \in e.files
  BY <1>4, <1>7, <1>9, <1>10, AppendChunkOK
<1>12. IsIntact(e.part, Named) /\ Len(e.part) = offset
  <2>1. PICK c : c = d.part
    OBVIOUS
  <2>2. c \in Seq(Nat) /\ Len(c) = rcv.offset /\ IsIntact(c, Named) /\ Len(c) + n <= Size[Named]
    BY <1>4, <1>5, <2>1 DEF DirOK, Dir
  <2>3. n \in 0..n
    OBVIOUS
  <2>4. IsIntact(c \o Bytes(Len(c), n), Named) /\ Len(c \o Bytes(Len(c), n)) = Len(c) + n
    BY <1>4, <2>2, <2>3, ChunkIntact
  <2>5. e.part = c \o Bytes(Len(c), n)
    BY <1>4, <1>6, <1>11, <2>1, <2>2
  <2> QED
    BY <1>8, <2>2, <2>4, <2>5
<1>13. disk' = [disk EXCEPT ![Named] = e]
  BY <1>1, <1>3, <1>4, <1>5, <1>6, <1>8, <1>9, <1>10 DEF RecvChunk
<1>14. PICK q : q = [rcv EXCEPT !.offset = offset]
  OBVIOUS
<1>15. q \in ReceiverState /\ q.conn = rcv.conn /\ q.pc = rcv.pc /\ q.offset = offset /\ rcv' = q
  BY <1>1, <1>5, <1>8, <1>14, TypeFacts DEF RecvChunk, DirectInv, ReceiverState
<1>16. rcv.pc = "body"
  BY <1>2, ReadingFacts
<1>17. Here' = To(Head(conn[Served].c2s), rcv.offset, Size[Named])
  <2>1. To(f, rcv.offset, Size[Named]) = f.at + f.len + 2
    BY <1>4 DEF To
  <2>2. Here' = offset + 2
    BY <1>15, <1>16 DEF Here
  <2> QED
    BY <1>1, <1>4, <1>5, <1>8, <2>1, <2>2
<1>18. disk' \in [Resource -> Dir] /\ disk'[Named] = e
       /\ \A r \in Resource : r # Named => disk'[r] = disk[r]
  <2>1. e \in Dir
    BY <1>11 DEF DirOK
  <2> QED
    BY <1>4, <1>10, <1>13, <2>1
<1>19. DiskOK'
  <2>1. ASSUME NEW r \in Resource
        PROVE  DirOK(disk'[r]) /\ IsIntact(disk'[r].part, r)
    <3>1. DirOK(disk[r]) /\ IsIntact(disk[r].part, r)
      BY DEF DirectInv, DiskOK
    <3>2. CASE r = Named
      BY <1>11, <1>12, <1>18, <3>2
    <3>3. CASE r # Named
      BY <1>18, <3>1, <3>3
    <3> QED
      BY <3>2, <3>3
  <2> QED
    BY <2>1 DEF DiskOK
<1>20. /\ conn' = [conn EXCEPT ![Served] = Consumed(@)]
       /\ UNCHANGED <<backlog, clock, snd, faults, delivered, torn, unwelcome>>
  BY DEF RecvChunk, ReceiverLeavesRest
<1>21. Len(disk'[Named].part) = q.offset /\ "meta" \in disk'[Named].files
  BY <1>11, <1>12, <1>15, <1>18
<1> QED
  BY <1>2, <1>15, <1>16, <1>17, <1>18, <1>19, <1>20, <1>21, ConsumeRule

\* The partial Done finds is the archive.
LEMMA WholeWhenDone ==
  ASSUME DirectInv, Reading("body", "done")
  PROVE  CompletePartial(disk[Named], Named) = "whole"
<1>1. PICK c : c = disk[Named].part
  OBVIOUS
<1>2. /\ Named \in Resource /\ DirOK(disk[Named]) /\ IsIntact(c, Named)
      /\ Len(c) = rcv.offset /\ rcv.offset = Size[Named]
  BY <1>1, BodyFacts
<1>3. PICK n \in Nat \ {0} : n = Size[Named]
  BY <1>2, StoreAssumption
<1>4. PICK a : a = Archive(Named)
  OBVIOUS
<1>5. a \in Seq(Nat) /\ Len(a) = n /\ \A i \in 1..n : a[i] = 0 + i
  <2>1. a = Bytes(0, n)
    BY <1>3, <1>4 DEF Archive
  <2> QED
    BY <2>1, BytesType
<1>6. c \in Seq(Nat) /\ Len(c) = n /\ \A i \in 1..n : c[i] = i
  BY <1>1, <1>2, <1>3 DEF DirOK, Dir, IsIntact
<1>7. c = a
  <2>1. \A i \in 1..Len(c) : c[i] = a[i]
    BY <1>5, <1>6
  <2> QED
    BY <1>5, <1>6, <2>1, SeqEqual
<1>8. c # << >>
  BY <1>3, <1>6
<1>9. "part" \in disk[Named].files
  BY <1>1, <1>2, <1>8 DEF DirOK
<1> QED
  BY <1>1, <1>4, <1>7, <1>9 DEF CompletePartial

\* The archive is unpacked or not, and the partial removed.
LEMMA RecvDoneOK ==
  ASSUME DirectInv, RecvDone
  PROVE  DirectInv'
<1>1. Reading("body", "done")
  BY DEF RecvDone
<1>2. rcv.pc = "body" /\ Named \in Resource /\ Peer \in Sender
  <2>1. rcv.pc \notin {"accept", "down"} /\ rcv.pc = "body"
    BY <1>1, ReadingFacts
  <2> QED
    BY <2>1, ServedFacts
<1>3. CompletePartial(disk[Named], Named) = "whole"
  BY <1>1, WholeWhenDone
<1>4. PICK unpacked \in BOOLEAN :
        /\ delivered' = [delivered EXCEPT ![Peer] = @ + IF unpacked THEN 1 ELSE 0]
        /\ Hangup(IF unpacked THEN <<Signal("ack")>> ELSE <<Signal("unpack_error")>>)
  BY <1>3 DEF RecvDone
<1>5. PICK replies \in Seq(Frame) : Hangup(replies)
  <2>1. <<Signal("ack")>> \in Seq(Frame) /\ <<Signal("unpack_error")>> \in Seq(Frame)
    BY SignalIs
  <2> QED
    BY <1>4, <2>1
<1>6. delivered' \in [Sender -> Nat]
  <2>1. delivered \in [Sender -> Nat] /\ delivered[Peer] \in Nat
    BY <1>2, TypeFacts DEF DirectInv
  <2>2. PICK n \in Nat : n = delivered[Peer] + IF unpacked THEN 1 ELSE 0
    BY <2>1
  <2>3. delivered' = [delivered EXCEPT ![Peer] = n]
    BY <1>4, <2>1, <2>2
  <2> QED
    BY <2>1, <2>3
<1>7. PICK e : e = RemovePartial(disk[Named])
  OBVIOUS
<1>8. DirOK(e) /\ e.part = << >>
  BY <1>2, <1>7, RemovePartialOK DEF DirectInv, DiskOK
<1>9. disk' = [disk EXCEPT ![Named] = e]
  <2>1. disk' = [disk EXCEPT ![Named] = RemovePartial(disk[Named])]
    BY <1>3 DEF RecvDone
  <2> QED
    BY <1>7, <2>1
<1>10. disk' \in [Resource -> Dir] /\ disk'[Named] = e
       /\ \A r \in Resource : r # Named => disk'[r] = disk[r]
  <2>1. e \in Dir
    BY <1>8 DEF DirOK
  <2> QED
    BY <1>2, <1>9, <2>1, TypeFacts DEF DirectInv
<1>11. DiskOK'
  <2>1. ASSUME NEW r \in Resource
        PROVE  DirOK(disk'[r]) /\ IsIntact(disk'[r].part, r)
    <3>1. DirOK(disk[r]) /\ IsIntact(disk[r].part, r)
      BY DEF DirectInv, DiskOK
    <3>2. CASE r = Named
      BY <1>8, <1>10, <3>2, EmptyIntact
    <3>3. CASE r # Named
      BY <1>10, <3>1, <3>3
    <3> QED
      BY <3>2, <3>3
  <2> QED
    BY <2>1 DEF DiskOK
<1>12. /\ torn' \subseteq Resource /\ unwelcome' \subseteq Sender
       /\ UNCHANGED <<backlog, clock, snd, faults>>
  BY DEF RecvDone, ReceiverLeavesRest, DirectInv, TypeOK
<1>13. PICK k \in Connection :
           /\ rcv' = AtListener("accept") /\ conn' = [conn EXCEPT ![Served] = k]
           /\ k.client = "open" <=> conn[Served].client = "open"
           /\ k.client # "gone" /\ k.server = "closed"
           /\ k.client # "open" => k.s2c = << >>
  BY <1>2, <1>5, HangupIs
<1> QED
  BY <1>2, <1>6, <1>10, <1>11, <1>12, <1>13, HangupRule


\* The receiver's process dies; the store is intact, whatever it was doing.
LEMMA DieRule ==
  ASSUME DirectInv, Die, disk' \in [Resource -> Dir], DiskOK', torn' \subseteq Resource,
         delivered' \in [Sender -> Nat]
  PROVE  DirectInv'
<1>1. rcv'.conn = << >> /\ rcv'.pc = "down" /\ rcv' \in ReceiverState
  <2>1. PICK q : q = AtListener("down")
    OBVIOUS
  <2>2. q.conn = << >> /\ q.pc = "down" /\ q \in ReceiverState
    BY <2>1, AtListenerIs
  <2>3. rcv' = q
    BY <2>1 DEF Die
  <2> QED
    BY <2>2, <2>3
<1>2. \A c \in Conn : rcv'.conn # <<c>>
  <2>1. \A d \in Conn : << >> # <<d>>
    OBVIOUS
  <2> QED
    BY <1>1, <2>1
<1>3. backlog' = << >> /\ UNCHANGED <<clock, snd, unwelcome>> /\ faults' \in 0..MaxFaults
  BY FaultIs DEF Die, DirectInv
<1>4. ASSUME NEW c \in Conn
      PROVE  /\ conn'[c] \in Connection /\ conn'[c].server = "closed" /\ conn'[c].client # "gone"
             /\ (conn'[c].client = "open" <=> conn[c].client = "open")
             /\ (conn'[c].client # "open" => conn'[c].s2c = << >>)
  <2>1. conn'[c] = Reset(conn[c]) /\ conn[c] \in Connection
    BY TypeFacts DEF Die, DirectInv
  <2> QED
    BY <2>1, ResetIs
<1>5. \A c \in Conn : ~InBacklog(c)'
  BY <1>3 DEF InBacklog
<1>6. \A c \in Conn : ~Waiting(c)' /\ ~Serving(c)' /\ ~InLine(c)'
  BY <1>2, <1>5 DEF Waiting, Serving, InLine
<1>7. TypeOK'
  <2>1. conn' \in [Conn -> Connection]
    <3>1. conn' = [c \in Conn |-> Reset(conn[c])]
      BY DEF Die
    <3> QED
      BY <1>4, <3>1
  <2>2. backlog' \in Seq(Conn)
    <3>1. << >> \in Seq(Conn)
      OBVIOUS
    <3> QED
      BY <1>3, <3>1
  <2> QED
    BY <1>1, <1>3, <2>1, <2>2 DEF TypeOK, DirectInv
<1>8. ReceiverOK'
  BY <1>1 DEF ReceiverOK
<1>9. QueueOK'
  BY <1>3, <1>2, <1>6 DEF QueueOK
<1>10. \A c \in Conn : LinkOK(conn[c], snd[c[1]], c)'
  <2>1. ASSUME NEW c \in Conn
        PROVE  LinkOK(conn[c], snd[c[1]], c)'
    <3>1. LinkOK(conn[c], snd[c[1]], c) /\ snd' = snd
      BY <1>3 DEF DirectInv
    <3> QED
      BY <1>4, <1>6, <3>1 DEF LinkOK
  <2> QED
    BY <2>1
<1>11. \A t \in Sender : SenderOK(snd[t], Link(t))'
  BY <1>3, <1>4, SendersKept
<1> QED
  BY <1>6, <1>7, <1>8, <1>9, <1>10, <1>11 DEF DirectInv

\* What WatchTorn records are resources.
LEMMA WatchTornType == TypeOK /\ WatchTorn => torn' \subseteq Resource
  BY DEF TypeOK, WatchTorn

\* A crash between two calls into the store.
LEMMA CrashOK == DirectInv /\ Crash => DirectInv'
<1> SUFFICES ASSUME DirectInv, Crash
             PROVE  DirectInv'
  OBVIOUS
<1>1. Die /\ disk' = disk /\ delivered' = delivered /\ torn' = torn
  BY DEF Crash
<1>2. disk' \in [Resource -> Dir] /\ DiskOK' /\ torn' \subseteq Resource
      /\ delivered' \in [Sender -> Nat]
  BY <1>1 DEF DirectInv, TypeOK, DiskOK
<1> QED
  BY <1>1, <1>2, DieRule

\* A crash within resume_state.
LEMMA CrashInIntroOK == DirectInv /\ CrashInIntro => DirectInv'
<1> SUFFICES ASSUME DirectInv, CrashInIntro
             PROVE  DirectInv'
  OBVIOUS
<1>1. /\ Die /\ disk' \in TornResumeState(disk, Named, clock) /\ delivered' = delivered
      /\ Reading("intro", "client_intro")
  BY DEF CrashInIntro
<1>2. Named \in Resource
  <2>1. rcv.pc \notin {"accept", "down"}
    BY <1>1, ReadingFacts
  <2> QED
    BY <2>1, ServedFacts
<1>3. clock \in Nat /\ \A q \in Resource : DirOK(disk[q]) /\ IsIntact(disk[q].part, q)
  BY TypeFacts DEF DirectInv, DiskOK
<1>4. PICK es \in TornResumeState(disk, Named, clock) : es = disk'
  BY <1>1
<1>5. ASSUME NEW q \in Resource
      PROVE  es \in [Resource -> Dir] /\ DirOK(es[q])
             /\ (es[q].part = disk[q].part \/ es[q].part = << >>)
  BY <1>2, <1>3, TornResumeStateOK
<1>6. \A q \in Resource : DirOK(disk'[q]) /\ IsIntact(disk'[q].part, q)
  BY <1>3, <1>4, <1>5, EmptyIntact
<1>7. disk' \in [Resource -> Dir]
  BY <1>2, <1>4, <1>5
<1>8. torn' \subseteq Resource /\ delivered' \in [Sender -> Nat]
  BY <1>1, WatchTornType DEF CrashInIntro, DirectInv, TypeOK
<1> QED
  BY <1>1, <1>6, <1>7, <1>8, DieRule DEF DiskOK

\* One directory is exchanged for another that is intact.
LEMMA OneDirChanged ==
  ASSUME DirectInv, NEW r \in Resource, NEW e, DirOK(e), IsIntact(e.part, r),
         disk' = [disk EXCEPT ![r] = e]
  PROVE  disk' \in [Resource -> Dir] /\ DiskOK' /\ disk'[r] = e
         /\ \A q \in Resource : q # r => disk'[q] = disk[q]
<1>1. disk' \in [Resource -> Dir] /\ disk'[r] = e
      /\ \A q \in Resource : q # r => disk'[q] = disk[q]
  <2>1. e \in Dir
    BY DEF DirOK
  <2> QED
    BY <2>1, TypeFacts DEF DirectInv
<1>2. DiskOK'
  <2>1. ASSUME NEW q \in Resource
        PROVE  DirOK(disk'[q]) /\ IsIntact(disk'[q].part, q)
    <3>1. DirOK(disk[q]) /\ IsIntact(disk[q].part, q)
      BY DEF DirectInv, DiskOK
    <3> QED
      BY <1>1, <3>1
  <2> QED
    BY <2>1 DEF DiskOK
<1> QED
  BY <1>1, <1>2

\* A crash within append_chunk.
LEMMA CrashInChunkOK == DirectInv /\ CrashInChunk => DirectInv'
<1> SUFFICES ASSUME DirectInv, CrashInChunk
             PROVE  DirectInv'
  OBVIOUS
<1>1. PICK f : f = Head(conn[Served].c2s)
  OBVIOUS
<1>2. Reading("body", "chunk") /\ Die /\ delivered' = delivered
  BY DEF CrashInChunk
<1>3. PICK d : d = disk[Named]
  OBVIOUS
<1>4. /\ Named \in Resource /\ DirOK(d) /\ IsIntact(d.part, Named) /\ Len(d.part) = rcv.offset
      /\ rcv.offset \in Nat /\ f.at = rcv.offset /\ f.len \in Nat
      /\ rcv.offset + f.len <= Size[Named]
  BY <1>1, <1>2, <1>3, BodyFacts
<1>5. PICK n \in Nat : n = f.len
  BY <1>4
<1>6. PICK b : b = Bytes(f.at, n)
  OBVIOUS
<1>7. b \in Seq(Nat) /\ Len(b) = n
  BY <1>4, <1>6, BytesType
<1>8. PICK e \in TornAppend(d, b) : disk' = [disk EXCEPT ![Named] = e]
  BY <1>1, <1>3, <1>5, <1>6 DEF CrashInChunk
<1>9. DirOK(e) /\ \E k \in 0..Len(b) : e.part = d.part \o SubSeq(b, 1, k)
  BY <1>4, <1>7, TornAppendOK
<1>10. PICK k \in 0..n : e.part = d.part \o SubSeq(b, 1, k)
  BY <1>7, <1>9
<1>11. IsIntact(e.part, Named)
  <2>1. PICK c : c = d.part
    OBVIOUS
  <2>2. c \in Seq(Nat) /\ Len(c) = rcv.offset /\ IsIntact(c, Named) /\ Len(c) + n <= Size[Named]
    BY <1>4, <1>5, <2>1 DEF DirOK, Dir
  <2>3. IsIntact(c \o SubSeq(Bytes(Len(c), n), 1, k), Named)
    BY <1>4, <2>2, ChunkIntact
  <2>4. b = Bytes(Len(c), n)
    BY <1>4, <1>6, <2>2
  <2>5. e.part = c \o SubSeq(Bytes(Len(c), n), 1, k)
    BY <1>10, <2>1, <2>4
  <2> QED
    BY <2>3, <2>5
<1>12. disk' \in [Resource -> Dir] /\ DiskOK'
  BY <1>4, <1>8, <1>9, <1>11, OneDirChanged
<1>13. torn' \subseteq Resource /\ delivered' \in [Sender -> Nat]
  BY <1>2, WatchTornType DEF CrashInChunk, DirectInv, TypeOK
<1> QED
  BY <1>2, <1>12, <1>13, DieRule

\* A crash after the archive was unpacked, or before, with the partial.
LEMMA CrashInDoneOK == DirectInv /\ CrashInDone => DirectInv'
<1> SUFFICES ASSUME DirectInv, CrashInDone
             PROVE  DirectInv'
  OBVIOUS
<1>1. Reading("body", "done") /\ Die
  BY DEF CrashInDone
<1>2. PICK d : d = disk[Named]
  OBVIOUS
<1>3. Named \in Resource /\ DirOK(d) /\ IsIntact(d.part, Named)
  BY <1>1, <1>2, BodyFacts
<1>4. PICK e \in TornRemove(d) : disk' = [disk EXCEPT ![Named] = e]
  BY <1>2 DEF CrashInDone
<1>5. DirOK(e) /\ (e.part = d.part \/ e.part = << >>)
  BY <1>3, TornRemoveOK
<1>6. IsIntact(e.part, Named)
  BY <1>3, <1>5, EmptyIntact
<1>7. disk' \in [Resource -> Dir] /\ DiskOK'
  BY <1>3, <1>4, <1>5, <1>6, OneDirChanged
<1>8. torn' \subseteq Resource
  BY WatchTornType DEF CrashInDone, DirectInv
<1>9. delivered' \in [Sender -> Nat]
  <2>1. Peer \in Sender
    <3>1. rcv.pc \notin {"accept", "down"}
      BY <1>1, ReadingFacts
    <3> QED
      BY <3>1, ServedFacts
  <2>2. delivered \in [Sender -> Nat] /\ delivered[Peer] \in Nat
    BY <2>1, TypeFacts DEF DirectInv
  <2>3. PICK n \in {0, 1} : delivered' = [delivered EXCEPT ![Peer] = @ + n]
    BY DEF CrashInDone
  <2>4. PICK m \in Nat : m = delivered[Peer] + n
    BY <2>2, <2>3
  <2>5. delivered' = [delivered EXCEPT ![Peer] = m]
    BY <2>1, <2>3, <2>4
  <2> QED
    BY <2>2, <2>5
<1> QED
  BY <1>1, <1>7, <1>8, <1>9, DieRule

\* The receiver is started again.
LEMMA RestartOK == DirectInv /\ Restart => DirectInv'
<1> SUFFICES ASSUME DirectInv, Restart
             PROVE  DirectInv'
  OBVIOUS
<1>1. UNCHANGED <<disk, clock, snd, conn, backlog, delivered, faults, torn, unwelcome>>
      /\ rcv.pc = "down" /\ rcv.conn = << >>
  BY DEF Restart, DirectInv, ReceiverOK
<1>2. rcv'.conn = << >> /\ rcv'.pc = "accept" /\ rcv' \in ReceiverState
  <2>1. PICK q : q = AtListener("accept")
    OBVIOUS
  <2>2. q.conn = << >> /\ q.pc = "accept" /\ q \in ReceiverState
    BY <2>1, AtListenerIs
  <2>3. rcv' = q
    BY <2>1 DEF Restart
  <2> QED
    BY <2>2, <2>3
<1>3. \A c \in Conn : rcv'.conn # <<c>> /\ rcv.conn # <<c>>
  <2>1. \A d \in Conn : << >> # <<d>>
    OBVIOUS
  <2> QED
    BY <1>1, <1>2, <2>1
<1>4. TypeOK' /\ DiskOK'
  BY <1>1, <1>2 DEF TypeOK, DirectInv, DiskOK
<1>5. ReceiverOK'
  BY <1>2 DEF ReceiverOK
<1>6. \A c \in Conn : (Waiting(c)' <=> Waiting(c)) /\ ~Serving(c)' /\ ~Serving(c)
  BY <1>1, <1>3 DEF Waiting, Serving, InBacklog
<1>7. QueueOK'
  <2>1. \A t \in Sender : snd'[t].tries \in Nat /\ snd'[t].tries >= snd[t].tries
    BY <1>1, TypeFacts DEF DirectInv
  <2> QED
    BY <1>1, <1>2, <2>1, QueueKept
<1>8. \A c \in Conn : LinkOK(conn[c], snd[c[1]], c)'
  BY <1>1, <1>6 DEF LinkOK, DirectInv
<1>9. \A t \in Sender : SenderOK(snd[t], Link(t))'
  BY <1>1, SendersKept
<1> QED
  BY <1>4, <1>5, <1>6, <1>7, <1>8, <1>9 DEF DirectInv

\* A connection is cut.
LEMMA BreakOK ==
  ASSUME DirectInv, NEW c \in Conn, Break(c)
  PROVE  DirectInv'
<1>1. UNCHANGED <<disk, clock, snd, backlog, rcv, delivered, torn, unwelcome>>
      /\ faults' \in 0..MaxFaults
  BY FaultIs DEF Break, DirectInv
<1>2. PICK k : k = [conn[c] EXCEPT !.net = "cut"]
  OBVIOUS
<1>3. /\ k \in Connection /\ k.client = conn[c].client /\ k.server = conn[c].server
      /\ k.c2s = conn[c].c2s /\ k.s2c = conn[c].s2c /\ k.net = "cut"
  <2>1. conn[c] \in Connection
    BY TypeFacts DEF DirectInv
  <2> QED
    BY <1>2, <2>1 DEF Connection
<1>4. conn' = [conn EXCEPT ![c] = k]
  <2>1. conn' = [conn EXCEPT ![c].net = "cut"]
    BY DEF Break
  <2> QED
    BY <1>2, <2>1, TypeFacts DEF DirectInv
<1>5. conn' \in [Conn -> Connection] /\ \A d \in Conn : conn'[d] = IF d = c THEN k ELSE conn[d]
  BY <1>3, <1>4, TypeFacts DEF DirectInv
<1>6. TypeOK' /\ DiskOK' /\ ReceiverOK'
  BY <1>1, <1>5 DEF TypeOK, DirectInv, DiskOK, ReceiverOK, Named, Peer, Served
<1>7. \A d \in Conn : (Waiting(d)' <=> Waiting(d)) /\ (Serving(d)' <=> Serving(d))
  BY <1>1 DEF Waiting, Serving, InBacklog
<1>8. QueueOK'
  <2>1. \A t \in Sender : snd'[t].tries \in Nat /\ snd'[t].tries >= snd[t].tries
    BY <1>1, TypeFacts DEF DirectInv
  <2> QED
    BY <1>1, <2>1, QueueKept
<1>9. Here' = Here /\ Offer' = Offer
  BY <1>1 DEF Here, Offer
<1>10. ASSUME NEW d \in Conn
       PROVE  LinkOK(conn[d], snd[d[1]], d)'
  <2>1. LinkOK(conn[d], snd[d[1]], d)
    BY DEF DirectInv
  <2>2. /\ conn'[d].client = conn[d].client /\ conn'[d].server = conn[d].server
        /\ conn'[d].c2s = conn[d].c2s /\ conn'[d].s2c = conn[d].s2c
    BY <1>3, <1>5
  <2> QED
    BY <1>1, <1>7, <2>1, <2>2 DEF LinkOK
<1>11. ASSUME NEW d \in Conn, Serving(d)
       PROVE  SessionOK(conn[d], snd[d[1]], d)'
  <2>1. SessionOK(conn[d], snd[d[1]], d)
    BY <1>11 DEF DirectInv
  <2>2. /\ conn'[d].server = conn[d].server /\ conn'[d].c2s = conn[d].c2s
        /\ conn'[d].s2c = conn[d].s2c /\ (Up(conn'[d]) => Up(conn[d]))
    BY <1>3, <1>5 DEF Up
  <2> QED
    BY <1>1, <1>9, <2>1, <2>2 DEF SessionOK
<1>12. \A t \in Sender : SenderOK(snd[t], Link(t))'
  BY <1>1, <1>3, <1>5, SendersKept
<1> QED
  BY <1>6, <1>7, <1>8, <1>10, <1>11, <1>12 DEF DirectInv

\* Time passes, or nothing does.
LEMMA TickOK == DirectInv /\ (Tick \/ UNCHANGED vars) => DirectInv'
<1> SUFFICES ASSUME DirectInv, Tick \/ UNCHANGED vars
             PROVE  DirectInv'
  OBVIOUS
<1>1. UNCHANGED <<disk, snd, conn, backlog, rcv, delivered, faults, torn, unwelcome>>
      /\ clock' \in Nat
  BY TypeFacts DEF Tick, vars, DirectInv
<1>2. TypeOK' /\ DiskOK' /\ ReceiverOK'
  BY <1>1 DEF TypeOK, DirectInv, DiskOK, ReceiverOK, Named, Peer, Served
<1>3. QueueOK'
  <2>1. \A t \in Sender : snd'[t].tries \in Nat /\ snd'[t].tries >= snd[t].tries
    BY <1>1, TypeFacts DEF DirectInv
  <2> QED
    BY <1>1, <2>1, QueueKept
<1>4. \A d \in Conn : (Waiting(d)' <=> Waiting(d)) /\ (Serving(d)' <=> Serving(d))
  BY <1>1 DEF Waiting, Serving, InBacklog
<1>5. \A d \in Conn : LinkOK(conn[d], snd[d[1]], d)'
  BY <1>1, <1>4 DEF LinkOK, DirectInv
<1>6. \A d \in Conn : Serving(d)' => SessionOK(conn[d], snd[d[1]], d)'
  BY <1>1, <1>4 DEF SessionOK, DirectInv, Here, Offer
<1>7. \A t \in Sender : SenderOK(snd[t], Link(t))'
  BY <1>1, SendersKept
<1> QED
  BY <1>2, <1>3, <1>5, <1>6, <1>7 DEF DirectInv

-------------------------------------------------------------------------------
(* The invariant holds. *)

\* Nothing has been sent and nobody is in line.
LEMMA DirectInit == Init => DirectInv
<1> SUFFICES ASSUME Init
             PROVE  DirectInv
  OBVIOUS
<1>1. PICK kind \in KindChoices :
        snd = [s \in Sender |-> [kind |-> kind[s], pc |-> "idle", tries |-> 0, pos |-> 0]]
  BY DEF Init
<1>2. MaxAttempts \in Nat /\ MaxAttempts >= 1 /\ MaxFaults \in Nat
  BY DirectAssumption
<1>3. /\ snd \in [Sender -> SenderState]
      /\ \A s \in Sender : snd[s].pc = "idle" /\ snd[s].tries = 0
  <2>1. \A s \in Sender : kind[s] \in Kinds
    BY <1>1, DirectAssumption
  <2>2. 0 \in 0..MaxAttempts
    BY <1>2
  <2> QED
    BY <1>1, <2>1, <2>2 DEF SenderState
<1>4. backlog = << >> /\ rcv.conn = << >> /\ rcv.pc = "accept" /\ rcv \in ReceiverState
  BY AtListenerIs DEF Init
<1>5. \A c \in Conn : << >> # <<c>>
  OBVIOUS
<1>6. \A c \in Conn : conn[c] = NoConn
  BY DEF Init
<1>7. \A r \in Resource : disk[r] = EmptyDir
  BY DEF Init
<1>8. DiskOK /\ disk \in [Resource -> Dir]
  BY <1>7, EmptyDirOK, EmptyIntact DEF DiskOK, Init, DirOK
<1>9. << >> \in Seq(Conn)
  OBVIOUS
<1>10. TypeOK
  BY <1>2, <1>3, <1>4, <1>8, <1>9, NoConnType DEF TypeOK, Init
<1>11. \A c \in Conn : ~InBacklog(c) /\ ~Waiting(c) /\ ~Serving(c) /\ ~InLine(c)
  BY <1>4, <1>5 DEF InBacklog, Waiting, Serving, InLine
<1>12. ReceiverOK
  BY <1>4 DEF ReceiverOK
<1>13. QueueOK
  BY <1>4, <1>5, <1>11 DEF QueueOK
<1>14. \A c \in Conn : LinkOK(conn[c], snd[c[1]], c)
  BY <1>6, <1>11 DEF LinkOK, NoConn
<1>15. \A s \in Sender : SenderOK(snd[s], Link(s))
  BY <1>2, <1>3 DEF SenderOK, InAttempt
<1> QED
  BY <1>8, <1>10, <1>11, <1>12, <1>13, <1>14, <1>15 DEF DirectInv

\* Every step keeps it.
LEMMA DirectNext == DirectInv /\ [Next]_vars => DirectInv'
<1> SUFFICES ASSUME DirectInv, [Next]_vars
             PROVE  DirectInv'
  OBVIOUS
<1>1. ASSUME NEW s \in Sender, SenderStep(s)
      PROVE  DirectInv'
  BY <1>1, ConnectOK, RecvServerIntroOK, EndStepOK, SendChunkOK, SendDoneOK DEF SenderStep
<1>2. CASE ReceiverStep
  BY <1>2, AcceptOK, RejectOK, RecvClientIntroOK, AdvanceOK, RecvChunkOK, RecvDoneOK, RestartOK
     DEF ReceiverStep
<1>3. CASE FaultStep
  <2>1. ASSUME NEW s \in Sender, ConnectRefused(s) \/ LateAnswer(s) \/ Quit(s) \/ Vanish(s)
        PROVE  DirectInv'
    BY <2>1, ConnectRefusedOK, EndStepOK, VanishOK
  <2>2. ASSUME NEW c \in Conn, Break(c)
        PROVE  DirectInv'
    BY <2>2, BreakOK
  <2>3. CASE Crash \/ CrashInIntro \/ CrashInChunk \/ CrashInDone
    BY <2>3, CrashOK, CrashInIntroOK, CrashInChunkOK, CrashInDoneOK
  <2> QED
    BY <1>3, <2>1, <2>2, <2>3 DEF FaultStep
<1>4. CASE Tick \/ Finished \/ UNCHANGED vars
  BY <1>4, TickOK DEF Finished
<1> QED
  BY <1>1, <1>2, <1>3, <1>4 DEF Next

\* DirectInv is an invariant: of every number of senders, attempts and faults.
THEOREM DirectInvariant == Spec => []DirectInv
  BY DirectInit, DirectNext, PTL DEF Spec

\* The types hold.
THEOREM DirectTypes == Spec => []TypeOK
<1>1. DirectInv => TypeOK
  BY DEF DirectInv
<1> QED
  BY <1>1, DirectInvariant, PTL

\* With the direct route alone, the partial is the whole archive whenever Done
\* is read, so complete_partial never discards a transfer: whatever was cut,
\* retried, interrupted by a crash or expired before.
THEOREM DoneIsWhole == Spec => []DoneMeansWhole
<1>1. DirectInv => DoneMeansWhole
  BY WholeWhenDone DEF DoneMeansWhole
<1> QED
  BY <1>1, DirectInvariant, PTL


-------------------------------------------------------------------------------
(* What has been received is kept.                                         *)

\* Unless a crash interrupted an operation on it, a partial has metadata that
\* records its length: the next resume_state offers all of it.
KeptInv == \A r \in Resource \ torn : disk[r].part # << >> => Resumable(disk[r], r)

\* One step of one resource: what was kept still is, and nothing is lost.
KeptStep(r) ==
  /\ r \notin torn' /\ disk'[r].part # << >> => Resumable(disk'[r], r)
  /\ r \notin torn /\ Len(disk'[r].part) < Len(disk[r].part) =>
       \/ Reading("body", "done") /\ Named = r
       \/ disk[r].updated + Retention < clock

\* A directory that is left alone keeps what it kept.
LEMMA SameKept ==
  ASSUME DirectInv, KeptInv, NEW r \in Resource, disk'[r] = disk[r],
         r \notin torn' => r \notin torn
  PROVE  KeptStep(r)
<1>1. Len(disk[r].part) \in Nat
  BY DEF DirectInv, DiskOK, DirOK, Dir
<1>2. ~(Len(disk'[r].part) < Len(disk[r].part))
  BY <1>1
<1> QED
  BY <1>2 DEF KeptInv, KeptStep

\* resume_state keeps what it can resume from.
LEMMA IntroKept ==
  ASSUME DirectInv, KeptInv, RecvClientIntro, NEW r \in Resource
  PROVE  KeptStep(r)
<1>1. PICK d : d = disk[r]
  OBVIOUS
<1>2. /\ disk' = ResumeState(disk, Named, clock)
      /\ torn' = {q \in torn : disk'[q].part # << >>}
      /\ Reading("intro", "client_intro")
  BY DEF RecvClientIntro
<1>3. Named \in Resource
  <2>1. rcv.pc \notin {"accept", "down"}
    BY <1>2, ReadingFacts
  <2> QED
    BY <2>1, ServedFacts
<1>4. clock \in Nat /\ \A q \in Resource : DirOK(disk[q])
  BY TypeFacts DEF DirectInv, DiskOK
<1>5. d.part \in Seq(Nat) /\ Len(d.part) \in Nat
  BY <1>1, <1>4 DEF DirOK, Dir
<1>6. CASE r \in torn
  <2>1. r \notin torn' => disk'[r].part = << >>
    BY <1>2, <1>6
  <2> QED
    BY <1>6, <2>1 DEF KeptStep
<1>7. CASE r \notin torn /\ d.part # << >>
  <2>1. Resumable(d, r)
    BY <1>1, <1>7 DEF KeptInv
  <2>2. disk'[r] = d \/ (d.updated + Retention < clock /\ disk'[r].part = << >>)
    BY <1>1, <1>2, <1>3, <1>4, <1>7, <2>1, ResumeKept
  <2>3. CASE disk'[r] = d
    <3>1. r \notin torn' => r \notin torn
      BY <1>7
    <3> QED
      BY <1>1, <2>3, <3>1, SameKept
  <2>4. CASE d.updated + Retention < clock /\ disk'[r].part = << >>
    BY <1>1, <2>4 DEF KeptStep
  <2> QED
    BY <2>2, <2>3, <2>4
<1>8. CASE r \notin torn /\ d.part = << >>
  <2>1. disk'[r].part = << >>
    <3>1. PICK cleaned : cleaned = CleanupExpired(disk, clock)
      OBVIOUS
    <3>2. DirOK(cleaned[r]) /\ cleaned[r].part = << >>
      BY <1>1, <1>4, <1>8, <3>1, CleanupOK, EmptyDirOK
    <3>3. OpenDir(cleaned[r], r, clock).part = << >>
      BY <1>4, <3>2, OpenDirOK
    <3>4. disk'[r] = IF r = Named THEN OpenDir(cleaned[Named], Named, clock) ELSE cleaned[r]
      <4>1. PICK e : e = OpenDir(cleaned[Named], Named, clock)
        OBVIOUS
      <4>2. disk' = [cleaned EXCEPT ![Named] = e]
        BY <1>2, <3>1, <4>1 DEF ResumeState
      <4>3. cleaned = [x \in Resource |-> cleaned[x]]
        BY <3>1 DEF CleanupExpired
      <4> QED
        BY <4>1, <4>2, <4>3
    <3> QED
      BY <3>2, <3>3, <3>4
  <2>2. Len(disk'[r].part) = Len(d.part)
    BY <1>8, <2>1
  <2> QED
    BY <1>1, <1>5, <2>1, <2>2 DEF KeptStep
<1> QED
  BY <1>6, <1>7, <1>8

\* append_chunk adds to the file and records its new length.
LEMMA ChunkKept ==
  ASSUME DirectInv, DirectInv', KeptInv, RecvChunk, NEW r \in Resource
  PROVE  KeptStep(r)
<1>1. PICK f : f = Head(conn[Served].c2s)
  OBVIOUS
<1>2. Reading("body", "chunk") /\ torn' = torn
  BY DEF RecvChunk
<1>3. PICK d : d = disk[Named]
  OBVIOUS
<1>4. /\ Named \in Resource /\ DirOK(d) /\ Len(d.part) = rcv.offset /\ rcv.offset \in Nat
      /\ f.at = rcv.offset /\ f.len \in Nat
  BY <1>1, <1>2, <1>3, BodyFacts
<1>5. PICK n \in Nat : n = f.len
  BY <1>4
<1>6. PICK b : b = Bytes(f.at, n)
  OBVIOUS
<1>7. b \in Seq(Nat) /\ Len(b) = n
  BY <1>4, <1>6, BytesType
<1>8. PICK offset \in Nat : offset = rcv.offset + n
  BY <1>4
<1>9. PICK e : e = AppendChunk(d, b, offset, clock)
  OBVIOUS
<1>10. clock \in Nat /\ disk \in [Resource -> Dir]
  BY TypeFacts DEF DirectInv
<1>11. /\ e.part = d.part \o b /\ {"part", "meta"} \subseteq e.files /\ e.received = offset
  <2>1. e.part = d.part \o b
    BY <1>4, <1>7, <1>9, <1>10, AppendChunkOK
  <2>2. "part" \in e.files /\ "meta" \in e.files /\ e.received = offset
    BY <1>4, <1>7, <1>9, <1>10, AppendChunkKept
  <2> QED
    BY <2>1, <2>2
<1>12. Len(e.part) = offset
  <2>1. PICK c \in Seq(Nat) : c = d.part
    BY <1>4 DEF DirOK, Dir
  <2>2. Len(c \o b) = Len(c) + Len(b)
    BY <1>7
  <2> QED
    BY <1>4, <1>7, <1>8, <1>11, <2>1, <2>2
<1>13. disk' = [disk EXCEPT ![Named] = e]
  BY <1>1, <1>3, <1>4, <1>5, <1>6, <1>8, <1>9, <1>10 DEF RecvChunk
<1>14. CASE r # Named
  <2>1. disk'[r] = disk[r]
    BY <1>10, <1>13, <1>14
  <2> QED
    BY <1>2, <2>1, SameKept
<1>15. CASE r = Named
  <2>1. disk'[r] = e
    BY <1>4, <1>10, <1>13, <1>15
  <2>2. Len(e.part) <= Size[r]
    <3>1. IsIntact(disk'[r].part, r)
      BY DEF DirectInv, DiskOK
    <3> QED
      BY <2>1, <3>1 DEF IsIntact
  <2>3. Resumable(e, r)
    BY <1>11, <1>12, <2>2 DEF Resumable
  <2>4. ~(Len(e.part) < Len(d.part))
    BY <1>4, <1>8, <1>12
  <2> QED
    BY <1>3, <1>15, <2>1, <2>3, <2>4 DEF KeptStep
<1> QED
  BY <1>14, <1>15

\* A completed transfer leaves nothing.
LEMMA DoneKept ==
  ASSUME DirectInv, KeptInv, RecvDone, NEW r \in Resource
  PROVE  KeptStep(r)
<1>1. Reading("body", "done") /\ torn' = torn \ {Named}
  BY DEF RecvDone
<1>2. Named \in Resource /\ DirOK(disk[Named])
  BY <1>1, BodyFacts
<1>3. PICK e : e = RemovePartial(disk[Named])
  OBVIOUS
<1>4. e.part = << >>
  BY <1>2, <1>3, RemovePartialOK
<1>5. disk' = [disk EXCEPT ![Named] = e]
  <2>1. CompletePartial(disk[Named], Named) = "whole"
    BY <1>1, WholeWhenDone
  <2> QED
    BY <1>3, <2>1 DEF RecvDone
<1>6. disk \in [Resource -> Dir]
  BY TypeFacts DEF DirectInv
<1>7. CASE r # Named
  <2>1. disk'[r] = disk[r]
    BY <1>5, <1>6, <1>7
  <2> QED
    BY <1>1, <1>7, <2>1, SameKept
<1>8. CASE r = Named
  <2>1. disk'[r].part = << >>
    BY <1>2, <1>4, <1>5, <1>6, <1>8
  <2> QED
    BY <1>1, <1>8, <2>1 DEF KeptStep
<1> QED
  BY <1>7, <1>8

\* A partial a dying process has touched counts as kept only if neither its
\* bytes nor its metadata changed.
LEMMA WatchedKept ==
  ASSUME DirectInv, DirectInv', KeptInv, WatchTorn, NEW r \in Resource, r \notin torn',
         disk'[r].part # << >>,
         disk'[r].part = disk[r].part /\ "meta" \in disk'[r].files
           => disk'[r].received = disk[r].received
  PROVE  Resumable(disk'[r], r)
<1>1. /\ r \notin torn /\ disk'[r].part = disk[r].part
      /\ ~("meta" \in disk[r].files \ disk'[r].files)
  BY DEF WatchTorn
<1>2. Resumable(disk[r], r)
  BY <1>1 DEF KeptInv
<1>3. "meta" \in disk'[r].files
  BY <1>1, <1>2 DEF Resumable
<1>4. "part" \in disk'[r].files
  BY DEF DirectInv, DiskOK, DirOK
<1> QED
  BY <1>1, <1>2, <1>3, <1>4 DEF Resumable

\* Crashes within the store's calls are watched.
LEMMA CrashKept ==
  ASSUME DirectInv, DirectInv', KeptInv, CrashInIntro \/ CrashInChunk \/ CrashInDone,
         NEW r \in Resource
  PROVE  KeptStep(r)
<1>1. WatchTorn
  BY DEF CrashInIntro, CrashInChunk, CrashInDone
<1>2. r \notin torn' => r \notin torn
  BY <1>1 DEF WatchTorn
<1>3. disk \in [Resource -> Dir] /\ clock \in Nat
      /\ \A q \in Resource : DirOK(disk[q]) /\ disk[q].part \in Seq(Nat) /\ Len(disk[q].part) \in Nat
  BY TypeFacts DEF DirectInv, DiskOK, DirOK, Dir
<1>4. CASE CrashInIntro
  <2>1. /\ disk' \in TornResumeState(disk, Named, clock) /\ Reading("intro", "client_intro")
    BY <1>4 DEF CrashInIntro
  <2>2. Named \in Resource
    <3>1. rcv.pc \notin {"accept", "down"}
      BY <2>1, ReadingFacts
    <3> QED
      BY <3>1, ServedFacts
  <2>3. PICK es \in TornResumeState(disk, Named, clock) : es = disk'
    BY <2>1
  <2>4. CASE r \notin torn /\ disk[r].part # << >>
    <3>1. Resumable(disk[r], r)
      BY <2>4 DEF KeptInv
    <3>2. /\ es[r].part = disk[r].part \/ disk[r].updated + Retention < clock
          /\ es[r].part = disk[r].part /\ "meta" \in es[r].files
               => es[r].received = disk[r].received
      BY <1>3, <2>2, <2>4, <3>1, TornResumeKept
    <3>3. r \notin torn' /\ disk'[r].part # << >> => Resumable(disk'[r], r)
      BY <1>1, <2>3, <3>2, WatchedKept
    <3>4. Len(disk'[r].part) < Len(disk[r].part) => disk[r].updated + Retention < clock
      BY <1>3, <2>3, <3>2
    <3> QED
      BY <3>3, <3>4 DEF KeptStep
  <2>5. CASE r \in torn
    BY <1>2, <2>5 DEF KeptStep
  <2>6. CASE disk[r].part = << >>
    <3>1. es[r].part = disk[r].part \/ es[r].part = << >>
      BY <1>3, <2>2, TornResumeStateOK
    <3>2. disk'[r].part = << >>
      BY <2>3, <2>6, <3>1
    <3>3. Len(disk'[r].part) = Len(disk[r].part)
      BY <2>6, <3>2
    <3> QED
      BY <1>3, <3>2, <3>3 DEF KeptStep
  <2> QED
    BY <2>4, <2>5, <2>6
<1>5. CASE CrashInChunk
  <2>1. PICK f : f = Head(conn[Served].c2s)
    OBVIOUS
  <2>2. Reading("body", "chunk")
    BY <1>5 DEF CrashInChunk
  <2>3. PICK d : d = disk[Named]
    OBVIOUS
  <2>4. /\ Named \in Resource /\ DirOK(d) /\ rcv.offset \in Nat
        /\ f.at = rcv.offset /\ f.len \in Nat
    BY <2>1, <2>2, <2>3, BodyFacts
  <2>5. PICK n \in Nat : n = f.len
    BY <2>4
  <2>6. PICK b : b = Bytes(f.at, n)
    OBVIOUS
  <2>7. b \in Seq(Nat) /\ Len(b) = n
    BY <2>4, <2>6, BytesType
  <2>8. PICK e \in TornAppend(d, b) : disk' = [disk EXCEPT ![Named] = e]
    BY <1>5, <2>1, <2>3, <2>5, <2>6 DEF CrashInChunk
  <2>9. e.received = d.received /\ \E k \in 0..Len(b) : e.part = d.part \o SubSeq(b, 1, k)
    BY <2>4, <2>7, TornAppendOK, TornAppendKept
  <2>10. ~(Len(e.part) < Len(d.part))
    <3>1. PICK k \in 0..Len(b) : e.part = d.part \o SubSeq(b, 1, k)
      BY <2>9
    <3>2. PICK c : c = SubSeq(b, 1, k)
      OBVIOUS
    <3>3. c \in Seq(Nat) /\ Len(c) \in Nat /\ d.part \in Seq(Nat) /\ Len(d.part) \in Nat
      BY <1>3, <2>3, <2>4, <2>7, <3>2
    <3>4. PICK a \in Seq(Nat) : a = d.part
      BY <3>3
    <3>5. Len(a \o c) = Len(a) + Len(c) /\ Len(a) \in Nat
      BY <3>3
    <3>6. Len(e.part) = Len(d.part) + Len(c)
      BY <3>1, <3>2, <3>4, <3>5
    <3> QED
      BY <3>3, <3>6
  <2>11. CASE r # Named
    <3>1. disk'[r] = disk[r]
      BY <1>3, <2>8, <2>11
    <3> QED
      BY <1>2, <3>1, SameKept
  <2>12. CASE r = Named
    <3>1. disk'[r] = e
      BY <1>3, <2>4, <2>8, <2>12
    <3>2. r \notin torn' /\ disk'[r].part # << >> => Resumable(disk'[r], r)
      BY <1>1, <2>3, <2>9, <2>12, <3>1, WatchedKept
    <3> QED
      BY <2>3, <2>10, <2>12, <3>1, <3>2 DEF KeptStep
  <2> QED
    BY <2>11, <2>12
<1>6. CASE CrashInDone
  <2>1. PICK d : d = disk[Named]
    OBVIOUS
  <2>2. Reading("body", "done")
    BY <1>6 DEF CrashInDone
  <2>3. Named \in Resource /\ DirOK(d) /\ Len(d.part) = rcv.offset /\ rcv.offset \in Nat
        /\ rcv.offset = Size[Named]
    BY <2>1, <2>2, BodyFacts
  <2>4. PICK e \in TornRemove(d) : disk' = [disk EXCEPT ![Named] = e]
    BY <1>6, <2>1 DEF CrashInDone
  <2>5. CASE r # Named
    <3>1. disk'[r] = disk[r]
      BY <1>3, <2>4, <2>5
    <3> QED
      BY <1>2, <3>1, SameKept
  <2>6. CASE r = Named
    <3>1. disk'[r] = e
      BY <1>3, <2>3, <2>4, <2>6
    <3>2. e = d \/ e.part = << >>
      BY <2>3, <2>4, RemovePartOK, RemovePartialOK DEF TornRemove
    <3>3. r \notin torn' /\ disk'[r].part # << >> => Resumable(disk'[r], r)
      BY <1>1, <2>1, <2>6, <3>1, <3>2, WatchedKept
    <3> QED
      BY <2>2, <2>6, <3>3 DEF KeptStep
  <2> QED
    BY <2>5, <2>6
<1> QED
  BY <1>4, <1>5, <1>6

\* Every step of the store is one of these.
LEMMA KeptSteps ==
  ASSUME DirectInv, DirectInv', KeptInv, [Next]_vars, NEW r \in Resource
  PROVE  KeptStep(r)
<1>1. CASE UNCHANGED <<disk, torn>>
  BY <1>1, SameKept
<1>2. ASSUME NEW s \in Sender, SenderStep(s) \/ ConnectRefused(s) \/ LateAnswer(s) \/ Quit(s) \/ Vanish(s)
      PROVE  UNCHANGED <<disk, torn>>
  BY <1>2 DEF SenderStep, Connect, RecvServerIntro, RejectServerIntro, RecvVersionError, SendChunk,
     SendDone, RecvAck, RecvUnpackError, SenderError, OpenTimeout, ConnectRefused, LateAnswer, Quit,
     Vanish, SenderLeavesRest
<1>3. CASE Accept \/ RejectVersion \/ RejectName \/ RecvClientFinish \/ RecvHeader
           \/ ReceiverError \/ Restart \/ Crash \/ Tick \/ Finished \/ UNCHANGED vars
           \/ \E c \in Conn : Break(c)
  <2>1. UNCHANGED <<disk, torn>>
    BY <1>3 DEF Accept, RejectVersion, RejectName, RecvClientFinish, RecvHeader, Advance,
       ReceiverError, Restart, Crash, Tick, Finished, vars, Break
  <2> QED
    BY <2>1, <1>1
<1>4. CASE RecvClientIntro
  BY <1>4, IntroKept
<1>5. CASE RecvChunk
  BY <1>5, ChunkKept
<1>6. CASE RecvDone
  BY <1>6, DoneKept
<1>7. CASE CrashInIntro \/ CrashInChunk \/ CrashInDone
  BY <1>7, CrashKept
<1> QED
  BY <1>1, <1>2, <1>3, <1>4, <1>5, <1>6, <1>7 DEF Next, ReceiverStep, FaultStep

\* KeptInv is an invariant.
LEMMA KeptInvariant == Spec => [](DirectInv /\ KeptInv)
<1>1. Init => DirectInv /\ KeptInv
  <2>1. Init => KeptInv
    BY EmptyDirOK DEF Init, KeptInv
  <2> QED
    BY <2>1, DirectInit
<1>2. DirectInv /\ KeptInv /\ [Next]_vars => (DirectInv /\ KeptInv)'
  <2> SUFFICES ASSUME DirectInv, KeptInv, [Next]_vars
               PROVE  DirectInv' /\ KeptInv'
    OBVIOUS
  <2>1. DirectInv'
    BY DirectNext
  <2>2. \A r \in Resource : KeptStep(r)
    BY <2>1, KeptSteps
  <2> QED
    BY <2>1, <2>2 DEF KeptInv, KeptStep
<1> QED
  BY <1>1, <1>2, PTL DEF Spec

\* Bytes the receiver has written are not lost to the sender: a part file
\* shrinks only when its transfer is completed, when it is older than the
\* retention time, or after a crash that interrupted a write to it.
THEOREM PartialsAreKept == Spec => ProgressKept
<1>1. DirectInv /\ KeptInv /\ [Next]_vars =>
        [\A r \in Resource : Len(disk'[r].part) < Len(disk[r].part) =>
           \/ Reading("body", "done") /\ Named = r
           \/ disk[r].updated + Retention < clock
           \/ r \in torn]_vars
  <2> SUFFICES ASSUME DirectInv, KeptInv, [Next]_vars
               PROVE  \A r \in Resource : Len(disk'[r].part) < Len(disk[r].part) =>
                        \/ Reading("body", "done") /\ Named = r
                        \/ disk[r].updated + Retention < clock
                        \/ r \in torn
    OBVIOUS
  <2>1. \A r \in Resource : KeptStep(r)
    BY DirectNext, KeptSteps
  <2> QED
    BY <2>1 DEF KeptStep
<1> QED
  BY <1>1, KeptInvariant, PTL DEF Spec, ProgressKept


-------------------------------------------------------------------------------
(* What the steps have in common, for the properties that count.           *)

\* A frame of this type is among those in flight.
Has(q, type) == \E i \in 1..Len(q) : q[i].type = type

\* Nothing is in flight.
LEMMA HasNone == \A type : ~Has(<< >>, type)
  BY DEF Has

\* What arrives was in flight.
LEMMA HasArrived ==
  ASSUME NEW q \in Seq(Frame), NEW type, Arrived(q, type)
  PROVE  Has(q, type)
<1>1. 1 \in 1..Len(q) /\ q[1] = Head(q)
  BY DEF Arrived
<1> QED
  BY <1>1 DEF Has, Arrived

\* Reading takes frames away.
LEMMA HasTail ==
  ASSUME NEW q \in Seq(Frame), q # << >>, NEW type, Has(Tail(q), type)
  PROVE  Has(q, type)
<1>1. PICK r : r = Tail(q)
  OBVIOUS
<1>2. Len(r) = Len(q) - 1 /\ Len(q) \in Nat
      /\ \A i \in 1..Len(r) : i + 1 \in 1..Len(q) /\ r[i] = q[i + 1]
  BY <1>1
<1>3. PICK i \in 1..Len(r) : r[i].type = type
  BY <1>1 DEF Has
<1> QED
  BY <1>2, <1>3 DEF Has

\* Writing adds those written.
LEMMA HasConcat ==
  ASSUME NEW q \in Seq(Frame), NEW p \in Seq(Frame), NEW type, Has(q \o p, type)
  PROVE  Has(q, type) \/ Has(p, type)
<1>1. PICK r : r = q \o p
  OBVIOUS
<1>2. Len(r) = Len(q) + Len(p) /\ Len(q) \in Nat /\ Len(p) \in Nat
      /\ \A i \in 1..Len(r) : r[i] = IF i <= Len(q) THEN q[i] ELSE p[i - Len(q)]
  BY <1>1
<1>3. PICK i \in 1..Len(r) : r[i].type = type
  BY <1>1 DEF Has
<1>4. CASE i <= Len(q)
  BY <1>2, <1>3, <1>4 DEF Has
<1>5. CASE i > Len(q)
  <2>1. i - Len(q) \in 1..Len(p) /\ p[i - Len(q)].type = type
    BY <1>2, <1>3, <1>5
  <2> QED
    BY <2>1 DEF Has
<1> QED
  BY <1>2, <1>4, <1>5

\* Why an attempt ended without the receiver's acknowledgement.
Cause(s) ==
  \/ faults' = faults + 1
  \/ Link(s).net = "cut"
  \/ Link(s).server = "closed" /\ Link(s).s2c = << >>
  \/ \E type \in {"server_intro", "version_error", "unpack_error"} : Arrived(Link(s).s2c, type)
  \/ snd[s].pc = "opening" /\ Blocked(Attempt(s))

\* A step of a sender within its attempt, or out of it: `next` is its new
\* state and k that of the attempt's connection.
Moved(s, next, k) ==
  /\ snd[s].pc \in InAttempt
  /\ next \in SenderState /\ next.tries = snd[s].tries /\ next.kind = snd[s].kind
  /\ next.pc # "idle" \/ next.tries < MaxAttempts
  /\ next.pc = "exhausted" => next.tries = MaxAttempts
  /\ k \in Connection /\ k.server = Link(s).server
  /\ snd' = [snd EXCEPT ![s] = next]
  /\ conn' = [conn EXCEPT ![Attempt(s)] = k]
  /\ SenderLeavesRest
  /\ faults' \in {faults, faults + 1}
  /\ \A type : Has(k.s2c, type) => Has(Link(s).s2c, type)
  /\ next.pc \in InAttempt =>
       /\ k.client = "open" /\ k.net = Link(s).net
       /\ k.s2c = Link(s).s2c \/ Arrived(Link(s).s2c, "server_intro")
       /\ k.net = "cut" => k.c2s = Link(s).c2s
  /\ next.pc \notin InAttempt =>
       /\ k.server = "open" => k.c2s = Link(s).c2s
       /\ k.client # "open"
       /\ next.pc # "ok" => Cause(s)
       /\ next.pc = "ok" => Arrived(Link(s).s2c, "ack")
       /\ next.pc \in {"idle", "exhausted"} /\ snd[s].kind = "direct" =>
            \/ faults' = faults + 1
            \/ Link(s).net = "cut"
            \/ Link(s).server = "closed" /\ Link(s).s2c = << >>
            \/ snd[s].pc = "opening" /\ Blocked(Attempt(s))

\* An attempt that ends is such a step.
LEMMA EndMoves ==
  ASSUME DirectInv, NEW s \in Sender, snd[s].pc \in InAttempt,
         NEW pc \in {"ok", "refused", "exhausted", "gone", "idle"},
         NEW next, next = [snd[s] EXCEPT !.pc = pc, !.pos = 0],
         pc = "idle" => snd[s].tries < MaxAttempts,
         pc = "exhausted" => snd[s].tries = MaxAttempts,
         EndAttempt(s, next), SenderLeavesRest, faults' \in {faults, faults + 1},
         pc = "ok" => Arrived(Link(s).s2c, "ack"),
         pc # "ok" => Cause(s),
         pc \in {"idle", "exhausted"} /\ snd[s].kind = "direct" =>
            \/ faults' = faults + 1
            \/ Link(s).net = "cut"
            \/ Link(s).server = "closed" /\ Link(s).s2c = << >>
            \/ snd[s].pc = "opening" /\ Blocked(Attempt(s))
  PROVE  \E k : Moved(s, next, k)
<1>1. Link(s) \in Connection /\ Link(s) = conn[Attempt(s)] /\ snd[s] \in SenderState
  BY SenderFacts, TypeFacts DEF DirectInv
<1>2. PICK k : k = CloseClient(Link(s))
  OBVIOUS
<1>3. /\ k \in Connection /\ k.client = "closed" /\ k.s2c = << >> /\ k.server = Link(s).server
      /\ k.server = "open" => k.c2s = Link(s).c2s
  BY <1>1, <1>2, CloseClientIs
<1>4. next \in SenderState /\ next.tries = snd[s].tries /\ next.kind = snd[s].kind /\ next.pc = pc
  BY <1>1 DEF SenderState
<1>5. next.pc \notin InAttempt
  BY <1>4 DEF InAttempt
<1>6. snd' = [snd EXCEPT ![s] = next] /\ conn' = [conn EXCEPT ![Attempt(s)] = k]
  BY <1>1, <1>2 DEF EndAttempt
<1>7. \A type : ~Has(k.s2c, type)
  BY <1>3, HasNone
<1> QED
  BY <1>3, <1>4, <1>5, <1>6, <1>7 DEF Moved

\* The retry loop's two answers to a failure, as states.
LEMMA TransientIs ==
  ASSUME DirectInv, NEW s \in Sender
  PROVE  \E pc \in {"exhausted", "idle"} :
           /\ Transient(s) = [snd[s] EXCEPT !.pc = pc, !.pos = 0]
           /\ pc = "idle" => snd[s].tries < MaxAttempts
           /\ pc = "exhausted" => snd[s].tries = MaxAttempts
<1>1. PICK pc \in {"exhausted", "idle"} :
        pc = IF snd[s].tries = MaxAttempts THEN "exhausted" ELSE "idle"
  OBVIOUS
<1>2. Transient(s) = [snd[s] EXCEPT !.pc = pc, !.pos = 0]
  BY <1>1 DEF Transient
<1>3. snd[s].tries \in 0..MaxAttempts /\ MaxAttempts \in Nat
  BY TypeFacts DEF DirectInv
<1>4. (pc = "idle" => snd[s].tries < MaxAttempts) /\ (pc = "exhausted" => snd[s].tries = MaxAttempts)
  BY <1>1, <1>3
<1> QED
  BY <1>2, <1>4

\* A failure the sender may repeat.
LEMMA TransientMoves ==
  ASSUME DirectInv, NEW s \in Sender, snd[s].pc \in InAttempt,
         EndAttempt(s, Transient(s)), SenderLeavesRest, faults' \in {faults, faults + 1},
         Cause(s),
         \/ snd[s].kind # "direct"
         \/ faults' = faults + 1
         \/ Link(s).net = "cut"
         \/ Link(s).server = "closed" /\ Link(s).s2c = << >>
         \/ snd[s].pc = "opening" /\ Blocked(Attempt(s))
  PROVE  \E next, k : Moved(s, next, k)
<1>1. PICK pc \in {"exhausted", "idle"} :
           /\ Transient(s) = [snd[s] EXCEPT !.pc = pc, !.pos = 0]
           /\ pc = "idle" => snd[s].tries < MaxAttempts
           /\ pc = "exhausted" => snd[s].tries = MaxAttempts
  BY TransientIs
<1>2. PICK next : next = [snd[s] EXCEPT !.pc = pc, !.pos = 0]
  OBVIOUS
<1>3. EndAttempt(s, next)
  BY <1>1, <1>2
<1>4. \E k : Moved(s, next, k)
  BY <1>1, <1>2, <1>3, EndMoves
<1> QED
  BY <1>4

\* A failure it does not repeat.
LEMMA FatalMoves ==
  ASSUME DirectInv, NEW s \in Sender, snd[s].pc \in InAttempt,
         NEW pc \in {"refused", "gone"}, EndAttempt(s, [snd[s] EXCEPT !.pc = pc, !.pos = 0]),
         SenderLeavesRest, faults' \in {faults, faults + 1}, Cause(s)
  PROVE  \E next, k : Moved(s, next, k)
<1>2. PICK next : next = [snd[s] EXCEPT !.pc = pc, !.pos = 0]
  OBVIOUS
<1>3. EndAttempt(s, next)
  BY <1>2
<1>4. \E k : Moved(s, next, k)
  BY <1>2, <1>3, EndMoves
<1> QED
  BY <1>4


\* Every step of a sender but the dial is such a step.
LEMMA SenderMoves ==
  ASSUME DirectInv, NEW s \in Sender,
         \/ RecvServerIntro(s) \/ RejectServerIntro(s) \/ RecvVersionError(s)
         \/ (\E n \in 1..MaxChunk : SendChunk(s, n)) \/ SendDone(s)
         \/ RecvAck(s) \/ RecvUnpackError(s) \/ SenderError(s) \/ OpenTimeout(s)
         \/ LateAnswer(s) \/ Quit(s) \/ Vanish(s)
  PROVE  \E next, k : Moved(s, next, k)
<1>1. snd[s].pc \in InAttempt
  BY DEF RecvServerIntro, RejectServerIntro, RecvVersionError, SendChunk, SendDone, RecvAck,
     RecvUnpackError, SenderError, OpenTimeout, LateAnswer, Quit, Vanish, InAttempt
<1>2. Link(s) \in Connection /\ Link(s) = conn[Attempt(s)] /\ Link(s).client = "open"
      /\ snd[s] \in SenderState /\ snd \in [Sender -> SenderState]
      /\ conn \in [Conn -> Connection] /\ Attempt(s) \in Conn
  BY <1>1, SenderFacts, TypeFacts DEF DirectInv
<1>3. Link(s).s2c \in Seq(Frame)
  BY <1>2 DEF Connection
<1>4. SenderLeavesRest /\ faults' \in {faults, faults + 1}
  BY DEF RecvServerIntro, RejectServerIntro, RecvVersionError, SendChunk, SendDone, RecvAck,
     RecvUnpackError, SenderError, OpenTimeout, LateAnswer, Quit, Vanish, Fault
<1>5. CASE RejectServerIntro(s)
  <2>1. Cause(s) /\ snd[s].kind # "direct"
    BY <1>5 DEF RejectServerIntro, Cause
  <2>2. PICK next \in {Fatal(s), Transient(s)} : EndAttempt(s, next)
    BY <1>5 DEF RejectServerIntro, OnWrongCode
  <2>3. CASE next = Transient(s)
    BY <1>1, <1>4, <2>1, <2>2, <2>3, TransientMoves
  <2>4. CASE next = Fatal(s)
    BY <1>1, <1>4, <2>1, <2>2, <2>4, FatalMoves DEF Fatal
  <2> QED
    BY <2>2, <2>3, <2>4
<1>6. CASE RecvVersionError(s)
  <2>1. Cause(s) /\ EndAttempt(s, Fatal(s))
    BY <1>6 DEF RecvVersionError, Cause
  <2> QED
    BY <1>1, <1>4, <2>1, FatalMoves DEF Fatal
<1>7. CASE RecvUnpackError(s)
  <2>1. Cause(s)
    BY <1>7 DEF RecvUnpackError, Cause
  <2>2. PICK next \in {Fatal(s), Transient(s)} :
          EndAttempt(s, next) /\ (snd[s].kind = "direct" => next = Fatal(s))
    BY <1>7 DEF RecvUnpackError, OnUnpackError
  <2>3. CASE next = Transient(s) /\ snd[s].kind # "direct"
    BY <1>1, <1>4, <2>1, <2>2, <2>3, TransientMoves
  <2>4. CASE next = Fatal(s)
    BY <1>1, <1>4, <2>1, <2>2, <2>4, FatalMoves DEF Fatal
  <2> QED
    BY <2>2, <2>3, <2>4
<1>8. CASE SenderError(s) \/ OpenTimeout(s) \/ LateAnswer(s)
  <2>1. EndAttempt(s, Transient(s))
        /\ \/ faults' = faults + 1
           \/ Link(s).net = "cut"
           \/ Link(s).server = "closed" /\ Link(s).s2c = << >>
           \/ snd[s].pc = "opening" /\ Blocked(Attempt(s))
    BY <1>8 DEF SenderError, OpenTimeout, LateAnswer, Fault
  <2>2. Cause(s)
    BY <2>1 DEF Cause
  <2> QED
    BY <1>1, <1>4, <2>1, <2>2, TransientMoves
<1>9. CASE RecvAck(s)
  <2>1. PICK next \in {[snd[s] EXCEPT !.pc = "ok", !.pos = 0], Transient(s)} :
          EndAttempt(s, next) /\ (next = [snd[s] EXCEPT !.pc = "ok", !.pos = 0] \/ Link(s).net = "cut")
    BY <1>9 DEF RecvAck
  <2>2. CASE next = [snd[s] EXCEPT !.pc = "ok", !.pos = 0]
    <3>1. Arrived(Link(s).s2c, "ack")
      BY <1>9 DEF RecvAck
    <3>2. PICK pc : pc = "ok"
      OBVIOUS
    <3>3. next = [snd[s] EXCEPT !.pc = pc, !.pos = 0]
      BY <2>2, <3>2
    <3>4. \E k : Moved(s, next, k)
      BY <1>1, <1>4, <2>1, <3>1, <3>2, <3>3, EndMoves
    <3> QED
      BY <3>4
  <2>3. CASE next = Transient(s) /\ Link(s).net = "cut"
    <3>1. Cause(s)
      BY <2>3 DEF Cause
    <3> QED
      BY <1>1, <1>4, <2>1, <2>3, <3>1, TransientMoves
  <2> QED
    BY <2>1, <2>2, <2>3
<1>10. CASE Quit(s)
  <2>1. Cause(s) /\ EndAttempt(s, [snd[s] EXCEPT !.pc = "gone", !.pos = 0])
    BY <1>10 DEF Quit, Cause, Fault
  <2> QED
    BY <1>1, <1>4, <2>1, FatalMoves
<1>11. CASE Vanish(s)
  <2>1. PICK k : k = Vanished(Link(s))
    OBVIOUS
  <2>2. PICK next : next = [snd[s] EXCEPT !.pc = "gone", !.pos = 0]
    OBVIOUS
  <2>3. next \in SenderState /\ next.tries = snd[s].tries /\ next.kind = snd[s].kind /\ next.pc = "gone"
    BY <1>2, <2>2 DEF SenderState
  <2>4. /\ k \in Connection /\ k.client # "open" /\ k.s2c = << >> /\ k.server = Link(s).server
        /\ k.server = "open" => k.c2s = Link(s).c2s
    BY <1>2, <2>1, VanishedIs
  <2>5. snd' = [snd EXCEPT ![s] = next] /\ conn' = [conn EXCEPT ![Attempt(s)] = k]
    BY <1>2, <1>11, <2>1, <2>2 DEF Vanish
  <2>6. Cause(s)
    BY <1>11 DEF Vanish, Fault, Cause
  <2>7. next.pc \notin InAttempt /\ \A type : ~Has(k.s2c, type)
    BY <2>3, <2>4, HasNone DEF InAttempt
  <2> QED
    BY <1>1, <1>4, <2>3, <2>4, <2>5, <2>6, <2>7 DEF Moved
<1>12. CASE RecvServerIntro(s)
  <2>1. PICK m : m = Answered(Link(s))
    OBVIOUS
  <2>2. Arrived(Link(s).s2c, "server_intro") /\ Link(s).s2c # << >>
    BY <1>12 DEF RecvServerIntro, Arrived
  <2>3. /\ m \in Connection /\ m.client = Link(s).client /\ m.server = Link(s).server
        /\ m.net = Link(s).net /\ m.c2s = Link(s).c2s /\ m.s2c = Tail(Link(s).s2c)
    BY <1>2, <2>1, <2>2, AnsweredIs
  <2>4. PICK frames : frames = <<Signal("client_finish"), Signal("header")>>
    OBVIOUS
  <2>5. frames \in Seq(Frame)
    BY <2>4, SignalIs
  <2>6. PICK j : j = ToServer(m, frames)
    OBVIOUS
  <2>7. /\ j \in Connection /\ j.client = "open" /\ j.server = Link(s).server /\ j.net = Link(s).net
        /\ j.s2c = Tail(Link(s).s2c) /\ (j.net = "cut" => j.c2s = Link(s).c2s)
    BY <1>2, <2>3, <2>5, <2>6, ToServerIs
  <2>8. \A type : Has(j.s2c, type) => Has(Link(s).s2c, type)
    BY <1>3, <2>2, <2>7, HasTail
  <2>9. PICK pos : pos = Head(Link(s).s2c).at
    OBVIOUS
  <2>10. pos \in Nat
    <3>1. PICK q \in Seq(Frame) : q = Link(s).s2c
      BY <1>3
    <3>2. Head(q) \in Frame
      BY <2>2, <3>1
    <3> QED
      BY <2>9, <3>1, <3>2 DEF Frame
  <2>11. PICK next : next = [snd[s] EXCEPT !.pc = "sending", !.pos = pos]
    OBVIOUS
  <2>12. next \in SenderState /\ next.tries = snd[s].tries /\ next.kind = snd[s].kind
         /\ next.pc = "sending"
    BY <1>2, <2>10, <2>11 DEF SenderState
  <2>13. snd' = [snd EXCEPT ![s] = next] /\ conn' = [conn EXCEPT ![Attempt(s)] = j]
    BY <1>2, <1>12, <2>1, <2>4, <2>6, <2>9, <2>11 DEF RecvServerIntro
  <2>14. next.pc \in InAttempt
    BY <2>12 DEF InAttempt
  <2> QED
    BY <1>1, <1>4, <2>2, <2>7, <2>8, <2>12, <2>13, <2>14 DEF Moved
<1>13. CASE (\E n \in 1..MaxChunk : SendChunk(s, n)) \/ SendDone(s)
  <2>1. PICK f \in Frame, next \in SenderState :
          /\ next.tries = snd[s].tries /\ next.kind = snd[s].kind
          /\ next.pc \in {"sending", "waiting"}
          /\ snd' = [snd EXCEPT ![s] = next]
          /\ conn' = [conn EXCEPT ![Attempt(s)] = ToServer(@, <<f>>)]
    <3>1. CASE SendDone(s)
      <4>1. PICK next : next = [snd[s] EXCEPT !.pc = "waiting"]
        OBVIOUS
      <4>2. next \in SenderState /\ next.tries = snd[s].tries /\ next.kind = snd[s].kind
            /\ next.pc = "waiting"
        BY <1>2, <4>1 DEF SenderState
      <4>3. PICK f : f = Signal("done")
        OBVIOUS
      <4>4. f \in Frame
        BY <4>3, SignalIs
      <4>5. snd' = [snd EXCEPT ![s] = next]
        BY <1>2, <3>1, <4>1 DEF SendDone
      <4>6. conn' = [conn EXCEPT ![Attempt(s)] = ToServer(@, <<f>>)]
        BY <3>1, <4>3 DEF SendDone
      <4> QED
        BY <4>2, <4>4, <4>5, <4>6
    <3>2. CASE \E n \in 1..MaxChunk : SendChunk(s, n)
      <4>1. PICK n \in 1..MaxChunk : SendChunk(s, n)
        BY <3>2
      <4>2. PICK pos \in Nat : pos = snd[s].pos + n
        <5>1. n \in Nat /\ snd[s].pos \in Nat
          BY DirectAssumption, TypeFacts DEF DirectInv
        <5> QED
          BY <5>1
      <4>3. PICK next : next = [snd[s] EXCEPT !.pos = pos]
        OBVIOUS
      <4>4. next \in SenderState /\ next.tries = snd[s].tries /\ next.kind = snd[s].kind
            /\ next.pc = "sending"
        BY <1>2, <4>1, <4>3 DEF SenderState, SendChunk
      <4>5. PICK f : f = [type |-> "chunk", at |-> snd[s].pos, len |-> n]
        OBVIOUS
      <4>6. f \in Frame
        <5>1. n \in Nat /\ snd[s].pos \in Nat
          BY DirectAssumption, TypeFacts DEF DirectInv
        <5> QED
          BY <4>5, <5>1 DEF Frame
      <4>7. snd' = [snd EXCEPT ![s] = next]
        BY <1>2, <4>1, <4>2, <4>3 DEF SendChunk
      <4>8. conn' = [conn EXCEPT ![Attempt(s)] = ToServer(@, <<f>>)]
        BY <4>1, <4>5 DEF SendChunk
      <4> QED
        BY <4>4, <4>6, <4>7, <4>8
    <3> QED
      BY <1>13, <3>1, <3>2
  <2>2. PICK frames : frames = <<f>>
    OBVIOUS
  <2>3. frames \in Seq(Frame)
    BY <2>1, <2>2
  <2>4. PICK j : j = ToServer(Link(s), frames)
    OBVIOUS
  <2>5. /\ j \in Connection /\ j.client = "open" /\ j.server = Link(s).server /\ j.net = Link(s).net
        /\ j.s2c = Link(s).s2c /\ (j.net = "cut" => j.c2s = Link(s).c2s)
    BY <1>2, <2>3, <2>4, ToServerIs
  <2>6. conn' = [conn EXCEPT ![Attempt(s)] = j]
    BY <1>2, <2>1, <2>2, <2>4
  <2>7. next.pc \in InAttempt /\ next.pc # "idle" /\ next.pc # "exhausted"
    BY <2>1 DEF InAttempt
  <2> QED
    BY <1>1, <1>4, <2>1, <2>5, <2>6, <2>7 DEF Moved
<1> QED
  BY <1>5, <1>6, <1>7, <1>8, <1>9, <1>10, <1>11, <1>12, <1>13

\* What such a step leaves alone.
LEMMA MovedFacts ==
  ASSUME DirectInv, NEW s \in Sender, NEW next, NEW k, Moved(s, next, k)
  PROVE  /\ \A t \in Sender : snd'[t] = IF t = s THEN next ELSE snd[t]
         /\ Attempt(s) \in Conn /\ Attempt(s)[1] = s /\ Attempt(s)[2] = snd[s].tries
         /\ Link(s) = conn[Attempt(s)] /\ Link(s).client = "open" /\ Link(s) \in Connection
         /\ \A d \in Conn : conn'[d] = IF d = Attempt(s) THEN k ELSE conn[d]
         /\ \A d : (InBacklog(d)' <=> InBacklog(d)) /\ (InLine(d)' <=> InLine(d))
                   /\ (Serving(d)' <=> Serving(d))
         /\ delivered' = delivered /\ rcv' = rcv /\ backlog' = backlog
         /\ \A t \in Sender : snd'[t].tries = snd[t].tries /\ snd'[t].kind = snd[t].kind
         /\ Link(s)' = k
         /\ \A t \in Sender : t # s /\ snd[t].pc \in InAttempt => Link(t)' = Link(t)
<1>1. /\ snd' = [snd EXCEPT ![s] = next] /\ conn' = [conn EXCEPT ![Attempt(s)] = k]
      /\ snd[s].pc \in InAttempt /\ next.tries = snd[s].tries /\ next.kind = snd[s].kind
      /\ UNCHANGED <<disk, clock, backlog, rcv, delivered, torn, unwelcome>>
  BY DEF Moved, SenderLeavesRest
<1>2. /\ Attempt(s) \in Conn /\ Attempt(s)[1] = s /\ Attempt(s)[2] = snd[s].tries
      /\ Link(s) = conn[Attempt(s)] /\ Link(s).client = "open" /\ Link(s) \in Connection
  BY <1>1, SenderFacts
<1>3. /\ \A t \in Sender : snd'[t] = IF t = s THEN next ELSE snd[t]
      /\ \A d \in Conn : conn'[d] = IF d = Attempt(s) THEN k ELSE conn[d]
  BY <1>1, <1>2, TypeFacts DEF DirectInv
<1>4. \A d : (InBacklog(d)' <=> InBacklog(d)) /\ (InLine(d)' <=> InLine(d))
             /\ (Serving(d)' <=> Serving(d))
  BY <1>1 DEF InBacklog, InLine, Serving
<1>5. \A t \in Sender : snd'[t].tries = snd[t].tries /\ snd'[t].kind = snd[t].kind
  BY <1>1, <1>3
<1>6. Link(s)' = k
  <2>1. Attempt(s)' = Attempt(s)
    BY <1>5 DEF Attempt
  <2> QED
    BY <1>2, <1>3, <2>1 DEF Link
<1>7. ASSUME NEW t \in Sender, t # s, snd[t].pc \in InAttempt
      PROVE  Link(t)' = Link(t)
  <2>1. Attempt(t)' = Attempt(t)
    BY <1>5 DEF Attempt
  <2>2. Attempt(t) \in Conn /\ Attempt(t)[1] = t /\ Link(t) = conn[Attempt(t)]
    BY <1>7, SenderFacts
  <2>3. Attempt(t) # Attempt(s)
    BY <1>2, <1>7, <2>2
  <2> QED
    BY <1>3, <2>1, <2>2, <2>3 DEF Link
<1> QED
  BY <1>1, <1>2, <1>3, <1>4, <1>5, <1>6, <1>7


\* A step of the receiver within its session: k is the new state of the
\* connection it serves.
Handled(k) ==
  /\ rcv.pc \notin {"accept", "down"} /\ rcv'.conn = rcv.conn
  /\ k \in Connection /\ k.client = conn[Served].client /\ k.net = conn[Served].net
  /\ k.server = "open"
  /\ conn' = [conn EXCEPT ![Served] = k]
  /\ Has(k.s2c, "ack") => Has(conn[Served].s2c, "ack")
  /\ Has(k.c2s, "done") => Serving(Served) /\ Has(conn[Served].c2s, "done")
  /\ UNCHANGED <<backlog, snd, delivered, faults>>

\* The connection being served after an intro, and what is written on it, have
\* no Done before the intro is read.
LEMMA WaitingHasNone ==
  ASSUME DirectInv, NEW c \in Conn, Waiting(c)
  PROVE  ~Has(conn[c].c2s, "done")
<1>1. conn[c].c2s = <<Signal("client_intro")>>
  BY DEF DirectInv, LinkOK
<1>2. PICK f \in Frame : f = Signal("client_intro") /\ f.type = "client_intro"
  BY SignalIs
<1>3. PICK q : q = <<f>>
  OBVIOUS
<1>4. Len(q) = 1 /\ q[1] = f
  BY <1>3
<1> QED
  BY <1>1, <1>2, <1>3, <1>4 DEF Has

\* The answer to the intro, ...
LEMMA IntroServes ==
  ASSUME DirectInv, RecvClientIntro
  PROVE  \E k : Handled(k)
<1>1. Reading("intro", "client_intro")
  BY DEF RecvClientIntro
<1>2. /\ rcv.pc = "intro" /\ rcv.pc \notin {"accept", "down"}
      /\ Served \in Conn /\ conn[Served] \in Connection /\ conn[Served].c2s # << >>
      /\ LinkOK(conn[Served], snd[Served[1]], Served) /\ Waiting(Served)
  BY <1>1, ReadingFacts
<1>3. conn[Served].server = "open" /\ conn[Served].s2c = << >>
  BY <1>2 DEF LinkOK
<1>4. PICK offset : offset = ResumeOffset(CleanupExpired(disk, clock)[Named], Named)
  OBVIOUS
<1>5. offset \in Nat
  <2>1. Named \in Resource
    BY <1>2, ServedFacts
  <2>2. disk' = ResumeState(disk, Named, clock)
    BY DEF RecvClientIntro
  <2> QED
    BY <1>4, <2>1, <2>2, ResumeStateFacts, TypeFacts DEF DirectInv
<1>6. PICK m : m = Consumed(conn[Served])
  OBVIOUS
<1>7. /\ m \in Connection /\ m.client = conn[Served].client /\ m.server = conn[Served].server
      /\ m.net = conn[Served].net /\ m.s2c = conn[Served].s2c /\ m.c2s = Tail(conn[Served].c2s)
  BY <1>2, <1>6, ConsumedIs
<1>8. PICK frame : frame = [type |-> "server_intro", at |-> offset, len |-> 0]
  OBVIOUS
<1>9. frame \in Frame /\ frame.type = "server_intro"
  BY <1>5, <1>8 DEF Frame
<1>10. PICK frames : frames = <<frame>>
  OBVIOUS
<1>11. frames \in Seq(Frame) /\ Len(frames) = 1 /\ frames[1] = frame
  BY <1>9, <1>10
<1>12. PICK k : k = ToClient(m, frames)
  OBVIOUS
<1>13. /\ k \in Connection /\ k.client = m.client /\ k.server = m.server /\ k.net = m.net
       /\ k.c2s = m.c2s /\ (k.s2c = m.s2c \o frames \/ k.s2c = m.s2c)
  BY <1>7, <1>11, <1>12, ToClientIs
<1>14. conn' = [conn EXCEPT ![Served] = k]
  <2>1. conn' = [conn EXCEPT ![Served] =
           ToClient(Consumed(@), <<[type |-> "server_intro", at |-> offset, len |-> 0]>>)]
    BY <1>4 DEF RecvClientIntro
  <2> QED
    BY <1>6, <1>8, <1>10, <1>12, <2>1
<1>15. ~Has(k.s2c, "ack")
  <2>1. ~Has(frames, "ack")
    BY <1>9, <1>11 DEF Has
  <2>2. ~Has(m.s2c, "ack") /\ m.s2c \in Seq(Frame)
    BY <1>3, <1>7, HasNone DEF Connection
  <2>3. CASE k.s2c = m.s2c \o frames
    <3>1. ~Has(m.s2c \o frames, "ack")
      BY <1>11, <2>1, <2>2, HasConcat
    <3> QED
      BY <2>3, <3>1
  <2> QED
    BY <1>13, <2>2, <2>3
<1>16. ~Has(k.c2s, "done")
  <2>1. ~Has(conn[Served].c2s, "done")
    BY <1>2, WaitingHasNone
  <2>2. PICK q \in Seq(Frame) : q = conn[Served].c2s
    BY <1>2 DEF Connection
  <2>3. ~Has(Tail(q), "done")
    BY <1>2, <2>1, <2>2, HasTail
  <2> QED
    BY <1>7, <1>13, <2>2, <2>3
<1>17. UNCHANGED <<backlog, snd, delivered, faults>> /\ rcv'.conn = rcv.conn
  BY TypeFacts DEF RecvClientIntro, ReceiverLeavesRest, DirectInv, ReceiverState
<1> QED
  BY <1>2, <1>3, <1>7, <1>13, <1>14, <1>15, <1>16, <1>17 DEF Handled

\* ... and each frame read after it.
LEMMA FrameServes ==
  ASSUME DirectInv, RecvClientFinish \/ RecvHeader \/ RecvChunk
  PROVE  \E k : Handled(k)
<1>0. PICK pc \in {"finish", "header", "body"} : \E type : Reading(pc, type)
  BY DEF RecvClientFinish, RecvHeader, RecvChunk
<1>1. PICK type : Reading(pc, type)
  BY <1>0
<1>2. /\ rcv.pc \notin {"accept", "down"} /\ Served \in Conn /\ conn[Served] \in Connection
      /\ conn[Served].c2s # << >> /\ Serving(Served)
      /\ SessionOK(conn[Served], snd[Served[1]], Served)
  BY <1>1, ReadingFacts
<1>3. PICK k : k = Consumed(conn[Served])
  OBVIOUS
<1>4. /\ k \in Connection /\ k.client = conn[Served].client /\ k.server = conn[Served].server
      /\ k.net = conn[Served].net /\ k.s2c = conn[Served].s2c /\ k.c2s = Tail(conn[Served].c2s)
  BY <1>2, <1>3, ConsumedIs
<1>5. conn[Served].server = "open"
  BY <1>2 DEF SessionOK
<1>6. Has(k.c2s, "done") => Has(conn[Served].c2s, "done")
  <2>1. PICK q \in Seq(Frame) : q = conn[Served].c2s
    BY <1>2 DEF Connection
  <2> QED
    BY <1>2, <1>4, <2>1, HasTail
<1>7. /\ conn' = [conn EXCEPT ![Served] = Consumed(@)]
      /\ UNCHANGED <<backlog, snd, delivered, faults>>
  BY DEF RecvClientFinish, RecvHeader, Advance, RecvChunk, ReceiverLeavesRest
<1>8. rcv'.conn = rcv.conn
  BY TypeFacts DEF RecvClientFinish, RecvHeader, Advance, RecvChunk, DirectInv, ReceiverState
<1>9. conn' = [conn EXCEPT ![Served] = k]
  BY <1>3, <1>7
<1> QED
  BY <1>2, <1>4, <1>5, <1>6, <1>7, <1>8, <1>9 DEF Handled

\* A step of the receiver that ends its session: it answers with these frames,
\* and k is what is left of the connection.
HungUp(k, replies) ==
  /\ rcv.pc \notin {"accept", "down"} /\ rcv'.conn = << >>
  /\ k \in Connection /\ k.server = "closed" /\ (k.client = "open" <=> conn[Served].client = "open")
  /\ k.client # "open" => k.s2c = << >>
  /\ k.client = "open" =>
       /\ k.net = conn[Served].net
       /\ k.s2c = IF Up(conn[Served]) THEN conn[Served].s2c \o replies ELSE conn[Served].s2c
  /\ conn' = [conn EXCEPT ![Served] = k]
  /\ UNCHANGED <<backlog, snd, faults>>
  /\ replies \in Seq(Frame)

\* It turns the peer away or meets an error, ...
TurnedAway(k, replies) ==
  /\ HungUp(k, replies) /\ ~Has(replies, "ack")
  /\ UNCHANGED delivered
  /\ snd[Peer].kind = "direct" => ~Up(conn[Served])

\* ... or has read Done and says whether the archive was unpacked.
Concluded(k, replies) ==
  /\ HungUp(k, replies)
  /\ Serving(Served) /\ conn[Served].s2c = << >> /\ Has(conn[Served].c2s, "done")
  /\ \E answer \in {"ack", "unpack_error"} :
       /\ replies = <<Signal(answer)>>
       /\ delivered' = IF answer = "ack" THEN [delivered EXCEPT ![Peer] = @ + 1] ELSE delivered

\* A hangup is one.
LEMMA HangupHangs ==
  ASSUME DirectInv, rcv.pc \notin {"accept", "down"},
         NEW replies \in Seq(Frame), Hangup(replies), UNCHANGED <<backlog, snd, faults>>
  PROVE  \E k : HungUp(k, replies)
<1>1. PICK k \in Connection :
           /\ rcv' = AtListener("accept") /\ conn' = [conn EXCEPT ![Served] = k]
           /\ k.client = "open" <=> conn[Served].client = "open"
           /\ k.client # "gone" /\ k.server = "closed"
           /\ k.client # "open" => k.s2c = << >>
           /\ k.client = "open" =>
                /\ k.net = conn[Served].net
                /\ k.s2c = IF Up(conn[Served]) THEN conn[Served].s2c \o replies
                           ELSE conn[Served].s2c
  BY HangupIs
<1>2. rcv'.conn = << >>
  BY <1>1, AtListenerIs
<1> QED
  BY <1>1, <1>2 DEF HungUp

\* The ways to turn a peer away.
LEMMA RejectHangs ==
  ASSUME DirectInv, RejectVersion \/ RejectName \/ ReceiverError
  PROVE  \E k, replies : TurnedAway(k, replies)
<1>1. rcv.pc \notin {"accept", "down"}
  BY DEF RejectVersion, RejectName, ReceiverError, Reading, DirectInv, ReceiverOK
<1>2. PICK replies \in Seq(Frame) : Hangup(replies) /\ ~Has(replies, "ack")
  <2>1. << >> \in Seq(Frame) /\ ~Has(<< >>, "ack")
    BY HasNone
  <2>2. PICK f \in Frame : f = Signal("version_error") /\ f.type = "version_error"
    BY SignalIs
  <2>3. PICK q : q = <<f>>
    OBVIOUS
  <2>4. q \in Seq(Frame) /\ Len(q) = 1 /\ q[1] = f
    BY <2>2, <2>3
  <2>5. ~Has(q, "ack")
    BY <2>2, <2>4 DEF Has
  <2>6. Hangup(<< >>) \/ Hangup(q)
    BY <2>2, <2>3 DEF RejectVersion, RejectName, ReceiverError
  <2> QED
    BY <2>1, <2>4, <2>5, <2>6
<1>3. UNCHANGED <<backlog, snd, faults>> /\ delivered' = delivered
  BY DEF RejectVersion, RejectName, ReceiverError, ReceiverLeavesRest
<1>4. PICK k : HungUp(k, replies)
  BY <1>1, <1>2, <1>3, HangupHangs
<1>5. snd[Peer].kind = "direct" => ~Up(conn[Served])
  <2>1. CASE RejectVersion \/ RejectName
    BY <2>1 DEF RejectVersion, RejectName
  <2>2. CASE ReceiverError
    <3>1. ~Unwritable
      <4>1. SUFFICES ASSUME Unwritable
                     PROVE  FALSE
        OBVIOUS
      <4>2. Reading("body", "chunk") /\ ~CanAppend(disk[Named])
        BY <4>1 DEF Unwritable
      <4>3. "meta" \in disk[Named].files
        BY <4>2, ReadingFacts
      <4> QED
        BY <4>2, <4>3 DEF CanAppend
    <3>2. conn[Served].net = "cut" \/ conn[Served].client = "closed"
      BY <2>2, <3>1 DEF ReceiverError
    <3> QED
      BY <3>2 DEF Up
  <2> QED
    BY <2>1, <2>2
<1> QED
  BY <1>2, <1>3, <1>4, <1>5 DEF TurnedAway

\* Done is read, and the archive is whole then.
LEMMA DoneHangs ==
  ASSUME DirectInv, RecvDone
  PROVE  \E k, replies : Concluded(k, replies)
<1>1. Reading("body", "done")
  BY DEF RecvDone
<1>2. /\ rcv.pc \notin {"accept", "down"} /\ Served \in Conn /\ conn[Served] \in Connection
      /\ conn[Served].c2s # << >> /\ Serving(Served)
      /\ SessionOK(conn[Served], snd[Served[1]], Served)
  BY <1>1, ReadingFacts
<1>3. conn[Served].s2c = << >>
  BY <1>2 DEF SessionOK
<1>4. Has(conn[Served].c2s, "done")
  <2>1. PICK q \in Seq(Frame) : q = conn[Served].c2s
    BY <1>2 DEF Connection
  <2>2. Arrived(q, "done")
    BY <1>1, <2>1 DEF Reading
  <2> QED
    BY <2>1, <2>2, HasArrived
<1>5. CompletePartial(disk[Named], Named) = "whole"
  BY <1>1, WholeWhenDone
<1>6. PICK unpacked \in BOOLEAN :
        /\ delivered' = [delivered EXCEPT ![Peer] = @ + IF unpacked THEN 1 ELSE 0]
        /\ Hangup(IF unpacked THEN <<Signal("ack")>> ELSE <<Signal("unpack_error")>>)
  BY <1>5 DEF RecvDone
<1>7. PICK answer \in {"ack", "unpack_error"} :
        /\ Hangup(<<Signal(answer)>>)
        /\ delivered' = IF answer = "ack" THEN [delivered EXCEPT ![Peer] = @ + 1] ELSE delivered
  <2>1. CASE unpacked
    BY <1>6, <2>1
  <2>2. CASE ~unpacked
    <3>1. Peer \in Sender /\ delivered \in [Sender -> Nat] /\ delivered[Peer] \in Nat
      BY <1>2, ServedFacts, TypeFacts DEF DirectInv
    <3>2. delivered' = [delivered EXCEPT ![Peer] = delivered[Peer]]
      <4>1. delivered' = [delivered EXCEPT ![Peer] = delivered[Peer] + 0]
        BY <1>6, <2>2, <3>1
      <4>2. PICK n : n = delivered[Peer] + 0
        OBVIOUS
      <4>3. n = delivered[Peer]
        BY <3>1, <4>2
      <4> QED
        BY <4>1, <4>2, <4>3
    <3>3. delivered' = delivered
      BY <3>1, <3>2
    <3> QED
      BY <1>6, <2>2, <3>3
  <2> QED
    BY <2>1, <2>2
<1>8. PICK replies : replies = <<Signal(answer)>>
  OBVIOUS
<1>9. replies \in Seq(Frame)
  BY <1>8, SignalIs
<1>10. UNCHANGED <<backlog, snd, faults>>
  BY DEF RecvDone, ReceiverLeavesRest
<1>11. PICK k : HungUp(k, replies)
  BY <1>2, <1>7, <1>8, <1>9, <1>10, HangupHangs
<1> QED
  BY <1>2, <1>3, <1>4, <1>7, <1>8, <1>11 DEF Concluded

\* The receiver's process dies, having counted the archive or not.
Died ==
  /\ rcv'.conn = << >> /\ backlog' = << >> /\ snd' = snd /\ faults' = faults + 1
  /\ conn' = [c \in Conn |-> Reset(conn[c])]
  /\ \/ UNCHANGED delivered
     \/ /\ rcv.pc \notin {"accept", "down"}
        /\ delivered' = [delivered EXCEPT ![Peer] = @ + 1]

\* Each crash is such a step.
LEMMA CrashDies ==
  ASSUME DirectInv, Crash \/ CrashInIntro \/ CrashInChunk \/ CrashInDone
  PROVE  Died
<1>1. Die
  BY DEF Crash, CrashInIntro, CrashInChunk, CrashInDone
<1>2. faults' = faults + 1
  BY <1>1, FaultIs DEF Die, DirectInv
<1>3. rcv'.conn = << >>
  BY <1>1, AtListenerIs DEF Die
<1>4. \/ UNCHANGED delivered
      \/ rcv.pc \notin {"accept", "down"} /\ delivered' = [delivered EXCEPT ![Peer] = @ + 1]
  <2>1. CASE CrashInDone
    <3>1. rcv.pc \notin {"accept", "down"}
      BY <2>1, ReadingFacts DEF CrashInDone
    <3>2. Peer \in Sender /\ delivered \in [Sender -> Nat] /\ delivered[Peer] \in Nat
      BY <3>1, ServedFacts, TypeFacts DEF DirectInv
    <3>3. PICK n \in {0, 1} : delivered' = [delivered EXCEPT ![Peer] = @ + n]
      BY <2>1 DEF CrashInDone
    <3>4. CASE n = 0
      <4>1. delivered' = [delivered EXCEPT ![Peer] = delivered[Peer]]
        <5>1. PICK m : m = delivered[Peer] + 0
          OBVIOUS
        <5>2. m = delivered[Peer]
          BY <3>2, <5>1
        <5>3. delivered' = [delivered EXCEPT ![Peer] = delivered[Peer] + 0]
          BY <3>2, <3>3, <3>4
        <5> QED
          BY <5>1, <5>2, <5>3
      <4>2. delivered' = delivered
        BY <3>2, <4>1
      <4> QED
        BY <4>2
    <3> QED
      BY <3>1, <3>3, <3>4
  <2>2. CASE Crash \/ CrashInIntro \/ CrashInChunk
    BY <2>2 DEF Crash, CrashInIntro, CrashInChunk
  <2> QED
    BY <2>1, <2>2
<1> QED
  BY <1>1, <1>2, <1>3, <1>4 DEF Died, Die

\* The dial puts one connection in line, which was not there, and touches no
\* other.
LEMMA DialFacts ==
  ASSUME DirectInv, NEW s \in Sender, NEW c \in Conn, NEW next \in SenderState,
         NEW k \in Connection, Dialled(s, c, next, k)
  PROVE  /\ \A t \in Sender : snd'[t] = IF t = s THEN next ELSE snd[t]
         /\ \A d \in Conn : conn'[d] = IF d = c THEN k ELSE conn[d]
         /\ \A d : InLine(d)' <=> InLine(d) \/ d = c
         /\ \A d : Serving(d)' <=> Serving(d)
         /\ ~InLine(c)
         /\ Link(s)' = k
         /\ \A t \in Sender : t # s /\ snd[t].pc \in InAttempt => Link(t)' = Link(t)
<1>1. TypeOK /\ backlog \in Seq(Conn) /\ Len(backlog) \in Nat /\ snd[s].tries \in Nat
  BY TypeFacts DEF DirectInv
<1>2. /\ c[1] = s /\ c[2] = snd[s].tries + 1 /\ next.tries = c[2]
      /\ snd' = [snd EXCEPT ![s] = next] /\ conn' = [conn EXCEPT ![c] = k]
      /\ backlog' = Append(backlog, c) /\ rcv' = rcv
  BY DEF Dialled
<1>3. /\ \A t \in Sender : snd'[t] = IF t = s THEN next ELSE snd[t]
      /\ \A d \in Conn : conn'[d] = IF d = c THEN k ELSE conn[d]
  BY <1>1, <1>2, TypeFacts
<1>4. /\ Len(backlog') = Len(backlog) + 1 /\ backlog'[Len(backlog) + 1] = c
      /\ \A i \in 1..Len(backlog) : backlog'[i] = backlog[i]
  BY <1>1, <1>2
<1>5. \A d : InBacklog(d)' <=> InBacklog(d) \/ d = c
  BY <1>1, <1>4 DEF InBacklog
<1>6. (\A d : InLine(d)' <=> InLine(d) \/ d = c) /\ (\A d : Serving(d)' <=> Serving(d))
  BY <1>2, <1>5 DEF InLine, Serving
<1>7. ~InLine(c)
  <2>1. InLine(c) => c[2] <= snd[s].tries
    BY <1>2 DEF DirectInv, QueueOK
  <2> QED
    BY <1>1, <1>2, <2>1
<1>8. Link(s)' = k
  <2>1. Attempt(s)' = c
    BY <1>2, <1>3, ConnFacts DEF Attempt
  <2> QED
    BY <1>3, <2>1 DEF Link
<1>9. ASSUME NEW t \in Sender, t # s, snd[t].pc \in InAttempt
      PROVE  Link(t)' = Link(t)
  <2>1. PICK d \in Conn : d = Attempt(t) /\ d[1] = t /\ Link(t) = conn[d]
    BY <1>9, SenderFacts
  <2>2. Attempt(t)' = d /\ d # c
    BY <1>2, <1>3, <1>9, <2>1 DEF Attempt
  <2> QED
    BY <1>3, <2>1, <2>2 DEF Link
<1> QED
  BY <1>3, <1>6, <1>7, <1>8, <1>9

\* A refused dial takes an attempt and a fault.
Refused(s) ==
  /\ snd[s].pc = "idle" /\ faults' = faults + 1 /\ UNCHANGED <<conn, delivered, backlog, rcv>>
  /\ \E pc \in {"exhausted", "idle"} :
       /\ \A t \in Sender : t # s => snd'[t] = snd[t]
       /\ snd'[s].pc = pc /\ snd'[s].tries = snd[s].tries + 1 /\ snd'[s].kind = snd[s].kind
       /\ pc = "exhausted" => snd'[s].tries = MaxAttempts

\* That is what a refusal does.
LEMMA RefusedIs ==
  ASSUME DirectInv, NEW s \in Sender, ConnectRefused(s)
  PROVE  Refused(s)
<1>1. snd[s].pc = "idle" /\ TypeOK /\ snd[s] \in SenderState
  BY TypeFacts DEF ConnectRefused, DirectInv
<1>2. PICK tries : tries = snd[s].tries + 1
  OBVIOUS
<1>3. PICK pc \in {"exhausted", "idle"} : pc = IF tries = MaxAttempts THEN "exhausted" ELSE "idle"
  OBVIOUS
<1>4. PICK next : next = [snd[s] EXCEPT !.pc = pc, !.tries = tries]
  OBVIOUS
<1>5. next.tries = tries /\ next.pc = pc /\ next.kind = snd[s].kind
  BY <1>1, <1>4 DEF SenderState
<1>6. snd' = [snd EXCEPT ![s] = next]
  BY <1>1, <1>2, <1>3, <1>4, TypeFacts DEF ConnectRefused
<1>7. faults' = faults + 1 /\ UNCHANGED <<conn, delivered, backlog, rcv>>
  BY <1>1, FaultIs DEF ConnectRefused, SenderLeavesRest
<1>8. \A t \in Sender : snd'[t] = IF t = s THEN next ELSE snd[t]
  BY <1>1, <1>6, TypeFacts
<1> QED
  BY <1>1, <1>2, <1>3, <1>5, <1>7, <1>8 DEF Refused

\* The line moves up, the receiver is started again, or time passes: nobody
\* joins the line.
Quiet ==
  /\ UNCHANGED <<conn, snd, delivered, faults>>
  /\ \A d \in Conn : (InLine(d)' => InLine(d)) /\ (Serving(d)' => Serving(d))

\* The steps of this kind.
LEMMA QuietSteps ==
  ASSUME DirectInv, Accept \/ Restart \/ Tick \/ UNCHANGED vars
  PROVE  Quiet
<1>1. UNCHANGED <<conn, snd, delivered, faults>>
  BY DEF Accept, ReceiverLeavesRest, Restart, Tick, vars
<1>2. CASE Accept
  <2>1. backlog \in Seq(Conn) /\ backlog # << >> /\ Len(backlog) \in Nat
    BY <1>2, TypeFacts DEF Accept, DirectInv
  <2>2. PICK c \in Conn : c = Head(backlog) /\ c = backlog[1]
    BY <2>1
  <2>3. PICK rest : rest = Tail(backlog)
    OBVIOUS
  <2>4. Len(rest) = Len(backlog) - 1 /\ backlog' = rest
        /\ \A i \in 1..Len(rest) : i + 1 \in 1..Len(backlog) /\ rest[i] = backlog[i + 1]
    BY <1>2, <2>1, <2>3 DEF Accept
  <2>5. rcv'.conn = <<c>> /\ rcv'.pc = "intro"
    BY <1>2, <2>2 DEF Accept
  <2>6. ASSUME NEW d \in Conn, InBacklog(d)'
        PROVE  InBacklog(d)
    BY <2>4, <2>6 DEF InBacklog
  <2>7. InBacklog(c)
    BY <2>1, <2>2 DEF InBacklog
  <2>8. \A d \in Conn : rcv'.conn = <<d>> => d = c
    BY <2>5
  <2>9. \A d \in Conn : (InLine(d)' => InLine(d)) /\ ~Serving(d)'
    BY <2>5, <2>6, <2>7, <2>8 DEF InLine, Serving
  <2> QED
    BY <1>1, <2>9 DEF Quiet
<1>3. CASE Restart
  <2>1. rcv'.conn = << >> /\ backlog' = backlog
    BY <1>3, AtListenerIs DEF Restart
  <2>2. \A d \in Conn : << >> # <<d>>
    OBVIOUS
  <2>3. \A d \in Conn : (InLine(d)' => InLine(d)) /\ ~Serving(d)'
    BY <2>1, <2>2 DEF InLine, InBacklog, Serving
  <2> QED
    BY <1>1, <2>3 DEF Quiet
<1>4. CASE Tick \/ UNCHANGED vars
  <2>1. rcv' = rcv /\ backlog' = backlog
    BY <1>4 DEF Tick, vars
  <2>2. \A d \in Conn : (InLine(d)' => InLine(d)) /\ (Serving(d)' => Serving(d))
    BY <2>1 DEF InLine, InBacklog, Serving
  <2> QED
    BY <1>1, <2>2 DEF Quiet
<1> QED
  BY <1>2, <1>3, <1>4

\* A connection is cut.
CutOff(c, k) ==
  /\ k \in Connection /\ k.client = conn[c].client /\ k.server = conn[c].server
  /\ k.c2s = conn[c].c2s /\ k.s2c = conn[c].s2c /\ k.net = "cut"
  /\ conn' = [conn EXCEPT ![c] = k] /\ faults' = faults + 1
  /\ UNCHANGED <<snd, backlog, rcv, delivered>>

\* That is what a break does.
LEMMA BreakCuts ==
  ASSUME DirectInv, NEW c \in Conn, Break(c)
  PROVE  \E k : CutOff(c, k)
<1>1. UNCHANGED <<snd, backlog, rcv, delivered>> /\ faults' = faults + 1
  BY FaultIs DEF Break, DirectInv
<1>2. PICK k : k = [conn[c] EXCEPT !.net = "cut"]
  OBVIOUS
<1>3. /\ k \in Connection /\ k.client = conn[c].client /\ k.server = conn[c].server
      /\ k.c2s = conn[c].c2s /\ k.s2c = conn[c].s2c /\ k.net = "cut"
  <2>1. conn[c] \in Connection
    BY TypeFacts DEF DirectInv
  <2> QED
    BY <1>2, <2>1 DEF Connection
<1>4. conn' = [conn EXCEPT ![c] = k]
  <2>1. conn' = [conn EXCEPT ![c].net = "cut"]
    BY DEF Break
  <2> QED
    BY <1>2, <2>1, TypeFacts DEF DirectInv
<1> QED
  BY <1>1, <1>3, <1>4 DEF CutOff

\* What each step is to the properties that count.
LEMMA StepKinds ==
  ASSUME DirectInv, [Next]_vars
  PROVE  \/ \E s \in Sender : \/ \E next, k : Moved(s, next, k)
                              \/ \E c \in Conn, next \in SenderState, k \in Connection :
                                   Dialled(s, c, next, k)
                              \/ Refused(s)
         \/ \E k : Handled(k)
         \/ \E k, replies : TurnedAway(k, replies) \/ Concluded(k, replies)
         \/ Died
         \/ \E c \in Conn : \E k : CutOff(c, k)
         \/ Quiet
<1>1. ASSUME NEW s \in Sender, SenderStep(s) \/ ConnectRefused(s) \/ LateAnswer(s) \/ Quit(s) \/ Vanish(s)
      PROVE  \/ \E next, k : Moved(s, next, k)
             \/ \E c \in Conn, next \in SenderState, k \in Connection : Dialled(s, c, next, k)
             \/ Refused(s)
  <2>1. CASE Connect(s)
    BY <2>1, ConnectDials
  <2>2. CASE ConnectRefused(s)
    BY <2>2, RefusedIs
  <2>3. CASE ~Connect(s) /\ ~ConnectRefused(s)
    BY <1>1, <2>3, SenderMoves DEF SenderStep
  <2> QED
    BY <2>1, <2>2, <2>3
<1>2. CASE ReceiverStep
  <2>1. CASE Accept \/ Restart
    BY <2>1, QuietSteps
  <2>2. CASE RejectVersion \/ RejectName \/ ReceiverError
    BY <2>2, RejectHangs
  <2>3. CASE RecvDone
    BY <2>3, DoneHangs
  <2>4. CASE RecvClientIntro
    BY <2>4, IntroServes
  <2>5. CASE RecvClientFinish \/ RecvHeader \/ RecvChunk
    BY <2>5, FrameServes
  <2> QED
    BY <1>2, <2>1, <2>2, <2>3, <2>4, <2>5 DEF ReceiverStep
<1>3. CASE Tick \/ Finished \/ UNCHANGED vars
  BY <1>3, QuietSteps DEF Finished
<1>4. CASE Crash \/ CrashInIntro \/ CrashInChunk \/ CrashInDone
  BY <1>4, CrashDies
<1>5. CASE \E c \in Conn : Break(c)
  BY <1>5, BreakCuts
<1> QED
  BY <1>1, <1>2, <1>3, <1>4, <1>5 DEF Next, FaultStep

\* What those of the receiver leave alone.
LEMMA ServedStep ==
  ASSUME DirectInv, rcv.pc \notin {"accept", "down"}, NEW k, conn' = [conn EXCEPT ![Served] = k]
  PROVE  /\ Served \in Conn /\ Peer \in Sender /\ Peer = Served[1] /\ rcv.conn = <<Served>>
         /\ InLine(Served) /\ ~InBacklog(Served)
         /\ LinkOK(conn[Served], snd[Peer], Served)
         /\ \A d \in Conn : conn'[d] = IF d = Served THEN k ELSE conn[d]
<1>1. Served \in Conn /\ Peer \in Sender /\ Peer = Served[1] /\ rcv.conn = <<Served>>
      /\ InLine(Served) /\ ~InBacklog(Served)
  BY ServedFacts
<1> QED
  BY <1>1, TypeFacts DEF DirectInv

-------------------------------------------------------------------------------
(* An Ack comes last: the archive has been unpacked by then, and what the  *)
(* sender still has in line are later attempts.                            *)

AckedOK(c) ==
  /\ delivered[c[1]] > 0
  /\ \A d \in Conn : InLine(d) /\ d[1] = c[1] => c[2] < d[2]

AckInv ==
  /\ \A c \in Conn : Has(conn[c].s2c, "ack") => AckedOK(c)
  /\ \A s \in Sender : snd[s].pc = "ok" =>
       delivered[s] > 0 /\ \A c \in Conn : InLine(c) => c[1] # s

\* It is kept where nobody joins the line and no new Ack is sent.
LEMMA AckRule ==
  ASSUME DirectInv, AckInv,
         \A s \in Sender : delivered'[s] \in Nat /\ delivered'[s] >= delivered[s],
         \A s \in Sender : snd'[s].pc = "ok" => snd[s].pc = "ok",
         \A d \in Conn : InLine(d)' => InLine(d),
         \A c \in Conn : Has(conn'[c].s2c, "ack") => Has(conn[c].s2c, "ack")
  PROVE  AckInv'
<1>1. \A s \in Sender : delivered[s] \in Nat
  BY TypeFacts DEF DirectInv
<1>2. \A s \in Sender : delivered[s] > 0 => delivered'[s] > 0
  BY <1>1
<1>3. ASSUME NEW c \in Conn, Has(conn'[c].s2c, "ack")
      PROVE  AckedOK(c)'
  <2>1. AckedOK(c) /\ c[1] \in Sender
    BY <1>3, ConnFacts DEF AckInv
  <2> QED
    BY <1>2, <2>1 DEF AckedOK
<1>4. ASSUME NEW s \in Sender, snd'[s].pc = "ok"
      PROVE  delivered'[s] > 0 /\ \A c \in Conn : InLine(c)' => c[1] # s
  <2>1. delivered[s] > 0 /\ \A c \in Conn : InLine(c) => c[1] # s
    BY <1>4 DEF AckInv
  <2> QED
    BY <1>2, <2>1
<1> QED
  BY <1>3, <1>4 DEF AckInv

\* The sender that takes up an Ack has nothing in line: its attempts are in
\* line in their order, and this is the last.
LEMMA AckEndsLine ==
  ASSUME DirectInv, AckInv, NEW s \in Sender, snd[s].pc \in InAttempt,
         Arrived(Link(s).s2c, "ack")
  PROVE  delivered[s] > 0 /\ \A c \in Conn : InLine(c) => c[1] # s
<1>1. PICK c \in Conn : c = Attempt(s) /\ c[1] = s /\ c[2] = snd[s].tries /\ Link(s) = conn[c]
                        /\ Link(s) \in Connection
  BY SenderFacts
<1>2. PICK q \in Seq(Frame) : q = Link(s).s2c
  BY <1>1 DEF Connection
<1>3. Has(conn[c].s2c, "ack")
  BY <1>1, <1>2, HasArrived
<1>4. AckedOK(c)
  BY <1>3 DEF AckInv
<1>5. ASSUME NEW d \in Conn, InLine(d), d[1] = s
      PROVE  FALSE
  <2>1. d[2] <= snd[s].tries
    BY <1>5 DEF DirectInv, QueueOK
  <2>2. c[2] < d[2]
    BY <1>1, <1>4, <1>5 DEF AckedOK
  <2>3. c[2] \in Nat /\ d[2] \in Nat
    BY ConnFacts
  <2> QED
    BY <1>1, <2>1, <2>2, <2>3
<1> QED
  BY <1>1, <1>4, <1>5 DEF AckedOK

\* The sender's steps keep it, ...
LEMMA AckMoved ==
  ASSUME DirectInv, AckInv, NEW s \in Sender, NEW next, NEW k, Moved(s, next, k)
  PROVE  AckInv'
<1>1. /\ \A t \in Sender : snd'[t] = IF t = s THEN next ELSE snd[t]
      /\ \A d \in Conn : conn'[d] = IF d = Attempt(s) THEN k ELSE conn[d]
      /\ \A d : InLine(d)' <=> InLine(d)
      /\ Link(s) = conn[Attempt(s)] /\ delivered' = delivered
  BY MovedFacts
<1>2. \A c \in Conn : Has(conn'[c].s2c, "ack") => Has(conn[c].s2c, "ack")
  BY <1>1 DEF Moved
<1>3. snd[s].pc \in InAttempt
  BY DEF Moved
<1>4. ASSUME NEW c \in Conn, Has(conn'[c].s2c, "ack")
      PROVE  AckedOK(c)'
  BY <1>1, <1>2, <1>4 DEF AckInv, AckedOK
<1>5. ASSUME NEW t \in Sender, snd'[t].pc = "ok"
      PROVE  delivered'[t] > 0 /\ \A c \in Conn : InLine(c)' => c[1] # t
  <2>1. CASE t = s
    <3>1. next.pc = "ok" /\ next.pc \notin InAttempt
      BY <1>1, <1>5, <2>1 DEF InAttempt
    <3>2. Arrived(Link(s).s2c, "ack")
      BY <3>1 DEF Moved
    <3> QED
      BY <1>1, <1>3, <2>1, <3>2, AckEndsLine
  <2>2. CASE t # s
    BY <1>1, <1>5, <2>2 DEF AckInv
  <2> QED
    BY <2>1, <2>2
<1> QED
  BY <1>4, <1>5 DEF AckInv

\* ... the dial among them, as no earlier attempt of this sender has an Ack,
LEMMA AckDialled ==
  ASSUME DirectInv, AckInv, NEW s \in Sender, NEW c \in Conn, NEW next \in SenderState,
         NEW k \in Connection, Dialled(s, c, next, k)
  PROVE  AckInv'
<1>1. /\ \A t \in Sender : snd'[t] = IF t = s THEN next ELSE snd[t]
      /\ \A d \in Conn : conn'[d] = IF d = c THEN k ELSE conn[d]
      /\ \A d : InLine(d)' <=> InLine(d) \/ d = c
  BY DialFacts
<1>2. snd[s].pc = "idle" /\ c[1] = s /\ next.pc = "opening" /\ k.s2c = << >> /\ delivered' = delivered
  BY DEF Dialled
<1>3. ASSUME NEW d \in Conn, Has(conn'[d].s2c, "ack")
      PROVE  AckedOK(d)'
  <2>1. d # c
    BY <1>1, <1>2, <1>3, HasNone
  <2>2. Has(conn[d].s2c, "ack")
    BY <1>1, <1>3, <2>1
  <2>3. d[1] # s
    BY <1>2, <2>2, IdleFacts, HasNone
  <2>4. AckedOK(d)
    BY <2>2 DEF AckInv
  <2> QED
    BY <1>1, <1>2, <2>3, <2>4 DEF AckedOK
<1>4. ASSUME NEW t \in Sender, snd'[t].pc = "ok"
      PROVE  delivered'[t] > 0 /\ \A d \in Conn : InLine(d)' => d[1] # t
  <2>1. t # s /\ snd[t].pc = "ok"
    BY <1>1, <1>2, <1>4
  <2>2. delivered[t] > 0 /\ \A d \in Conn : InLine(d) => d[1] # t
    BY <2>1 DEF AckInv
  <2> QED
    BY <1>1, <1>2, <2>1, <2>2
<1> QED
  BY <1>3, <1>4 DEF AckInv

\* ... and so does an answered Done, whose connection leaves the line before
\* any later attempt.
LEMMA AckConcluded ==
  ASSUME DirectInv, AckInv, NEW k, NEW replies, Concluded(k, replies)
  PROVE  AckInv'
<1>1. HungUp(k, replies) /\ conn[Served].s2c = << >>
  BY DEF Concluded
<1>2. rcv.pc \notin {"accept", "down"} /\ rcv'.conn = << >> /\ backlog' = backlog /\ snd' = snd
      /\ conn' = [conn EXCEPT ![Served] = k]
  BY <1>1 DEF HungUp
<1>3. /\ Served \in Conn /\ Peer \in Sender /\ Peer = Served[1] /\ rcv.conn = <<Served>>
      /\ InLine(Served)
      /\ \A d \in Conn : conn'[d] = IF d = Served THEN k ELSE conn[d]
  BY <1>2, ServedStep
<1>4. \A d \in Conn : (InLine(d)' <=> InBacklog(d))
  <2>1. \A d \in Conn : << >> # <<d>>
    OBVIOUS
  <2> QED
    BY <1>2, <2>1 DEF InLine, InBacklog
<1>5. delivered \in [Sender -> Nat]
  BY TypeFacts DEF DirectInv
<1>6. PICK answer \in {"ack", "unpack_error"} :
       /\ replies = <<Signal(answer)>>
       /\ delivered' = IF answer = "ack" THEN [delivered EXCEPT ![Peer] = @ + 1] ELSE delivered
  BY DEF Concluded
<1>7. \A s \in Sender : delivered'[s] = IF answer = "ack" /\ s = Peer THEN delivered[s] + 1 ELSE delivered[s]
  BY <1>3, <1>5, <1>6
<1>8. \A s \in Sender : delivered[s] > 0 => delivered'[s] > 0
  BY <1>5, <1>7
<1>9. ASSUME NEW d \in Conn, Has(conn'[d].s2c, "ack")
      PROVE  AckedOK(d)'
  <2>1. CASE d = Served
    <3>1. Has(k.s2c, "ack")
      BY <1>3, <1>9, <2>1
    <3>2. k.s2c = << >> \o replies \/ k.s2c = << >>
      BY <1>1 DEF HungUp
    <3>3. PICK f \in Frame : f = Signal(answer) /\ f.type = answer
      BY SignalIs
    <3>4. PICK q : q = <<f>>
      OBVIOUS
    <3>5. q \in Seq(Frame) /\ Len(q) = 1 /\ q[1] = f /\ q = replies
      BY <1>6, <3>3, <3>4
    <3>6. << >> \o q = q
      BY <3>5
    <3>7. Has(q, "ack")
      BY <3>1, <3>2, <3>5, <3>6, HasNone
    <3>8. answer = "ack"
      BY <3>3, <3>5, <3>7 DEF Has
    <3>9. delivered'[Peer] > 0
      BY <1>3, <1>5, <1>7, <3>8
    <3>10. \A e \in Conn : InLine(e)' /\ e[1] = d[1] => d[2] < e[2]
      BY <1>3, <1>4, <2>1 DEF DirectInv, QueueOK
    <3> QED
      BY <1>3, <2>1, <3>9, <3>10 DEF AckedOK
  <2>2. CASE d # Served
    <3>1. AckedOK(d) /\ d[1] \in Sender
      BY <1>3, <1>9, <2>2, ConnFacts DEF AckInv
    <3> QED
      BY <1>4, <1>8, <3>1 DEF AckedOK, InLine
  <2> QED
    BY <2>1, <2>2
<1>10. ASSUME NEW s \in Sender, snd'[s].pc = "ok"
       PROVE  delivered'[s] > 0 /\ \A c \in Conn : InLine(c)' => c[1] # s
  <2>1. delivered[s] > 0 /\ \A c \in Conn : InLine(c) => c[1] # s
    BY <1>2, <1>10 DEF AckInv
  <2> QED
    BY <1>4, <1>8, <2>1 DEF InLine
<1> QED
  BY <1>9, <1>10 DEF AckInv

\* The receiver's other steps, the refused dial and the faults answer nothing.
LEMMA AckOthers ==
  ASSUME DirectInv, AckInv,
         \/ \E s \in Sender : Refused(s)
         \/ \E k : Handled(k)
         \/ \E k, replies : TurnedAway(k, replies)
         \/ Died
         \/ \E c \in Conn : \E k : CutOff(c, k)
         \/ Quiet
  PROVE  AckInv'
<1>1. delivered \in [Sender -> Nat] /\ (\A s \in Sender : delivered[s] \in Nat)
      /\ conn \in [Conn -> Connection] /\ \A d \in Conn : << >> # <<d>>
  BY TypeFacts DEF DirectInv
<1>2. CASE \E s \in Sender : Refused(s)
  <2>1. PICK s \in Sender : Refused(s)
    BY <1>2
  <2>2. UNCHANGED <<conn, delivered, backlog, rcv>>
        /\ \A t \in Sender : snd'[t].pc = "ok" => snd[t].pc = "ok"
    BY <2>1 DEF Refused
  <2>3. \A d \in Conn : InLine(d)' => InLine(d)
    BY <2>2 DEF InLine, InBacklog
  <2> QED
    BY <1>1, <2>2, <2>3, AckRule
<1>3. CASE \E k : Handled(k)
  <2>1. PICK k : Handled(k)
    BY <1>3
  <2>2. /\ rcv.pc \notin {"accept", "down"} /\ rcv'.conn = rcv.conn
        /\ conn' = [conn EXCEPT ![Served] = k] /\ UNCHANGED <<backlog, snd, delivered>>
        /\ Has(k.s2c, "ack") => Has(conn[Served].s2c, "ack")
    BY <2>1 DEF Handled
  <2>3. \A d \in Conn : conn'[d] = IF d = Served THEN k ELSE conn[d]
    BY <2>2, ServedStep
  <2>4. \A c \in Conn : Has(conn'[c].s2c, "ack") => Has(conn[c].s2c, "ack")
    BY <2>2, <2>3
  <2>5. \A d \in Conn : InLine(d)' => InLine(d)
    BY <2>2 DEF InLine, InBacklog
  <2> QED
    BY <1>1, <2>2, <2>4, <2>5, AckRule
<1>4. CASE \E k, replies : TurnedAway(k, replies)
  <2>1. PICK k, replies : TurnedAway(k, replies)
    BY <1>4
  <2>2. HungUp(k, replies) /\ ~Has(replies, "ack") /\ delivered' = delivered
    BY <2>1 DEF TurnedAway
  <2>3. /\ rcv.pc \notin {"accept", "down"} /\ rcv'.conn = << >>
        /\ conn' = [conn EXCEPT ![Served] = k] /\ UNCHANGED <<backlog, snd>>
        /\ replies \in Seq(Frame)
        /\ \/ k.s2c = << >> \/ k.s2c = conn[Served].s2c \/ k.s2c = conn[Served].s2c \o replies
    BY <2>2 DEF HungUp
  <2>4. Served \in Conn /\ \A d \in Conn : conn'[d] = IF d = Served THEN k ELSE conn[d]
    BY <2>3, ServedStep
  <2>5. PICK q \in Seq(Frame) : q = conn[Served].s2c
    BY <1>1, <2>4 DEF Connection
  <2>6. Has(k.s2c, "ack") => Has(conn[Served].s2c, "ack")
    BY <2>2, <2>3, <2>5, HasNone, HasConcat
  <2>7. \A c \in Conn : Has(conn'[c].s2c, "ack") => Has(conn[c].s2c, "ack")
    BY <2>4, <2>6
  <2>8. \A d \in Conn : InLine(d)' => InLine(d)
    BY <1>1, <2>3 DEF InLine, InBacklog
  <2> QED
    BY <1>1, <2>2, <2>3, <2>7, <2>8, AckRule
<1>5. CASE Died
  <2>1. /\ rcv'.conn = << >> /\ backlog' = << >> /\ snd' = snd
        /\ conn' = [c \in Conn |-> Reset(conn[c])]
    BY <1>5 DEF Died
  <2>2. \A d \in Conn : ~InLine(d)'
    BY <1>1, <2>1 DEF InLine, InBacklog
  <2>3. ASSUME NEW c \in Conn, Has(conn'[c].s2c, "ack")
        PROVE  Has(conn[c].s2c, "ack")
    <3>1. conn[c] \in Connection /\ conn'[c] = Reset(conn[c])
      BY <1>1, <2>1
    <3>2. conn'[c].s2c = << >> \/ conn'[c].s2c = conn[c].s2c
      BY <3>1, ResetIs
    <3> QED
      BY <2>3, <3>2, HasNone
  <2>4. \A s \in Sender : delivered'[s] \in Nat /\ delivered'[s] >= delivered[s]
    <3>1. CASE delivered' = delivered
      BY <1>1, <3>1
    <3>2. CASE rcv.pc \notin {"accept", "down"} /\ delivered' = [delivered EXCEPT ![Peer] = @ + 1]
      <4>1. Peer \in Sender
        BY <3>2, ServedFacts
      <4>2. \A s \in Sender : delivered'[s] = IF s = Peer THEN delivered[s] + 1 ELSE delivered[s]
        BY <1>1, <3>2, <4>1
      <4> QED
        BY <1>1, <4>2
    <3> QED
      BY <1>5, <3>1, <3>2 DEF Died
  <2> QED
    BY <2>1, <2>2, <2>3, <2>4, AckRule
<1>6. CASE \E c \in Conn : \E k : CutOff(c, k)
  <2>0. PICK c \in Conn : \E k : CutOff(c, k)
    BY <1>6
  <2>1. PICK k : CutOff(c, k)
    BY <2>0
  <2>2. k.s2c = conn[c].s2c /\ conn' = [conn EXCEPT ![c] = k]
        /\ UNCHANGED <<snd, backlog, rcv, delivered>>
    BY <2>1 DEF CutOff
  <2>3. \A d \in Conn : Has(conn'[d].s2c, "ack") => Has(conn[d].s2c, "ack")
    BY <1>1, <2>2
  <2>4. \A d \in Conn : InLine(d)' => InLine(d)
    BY <2>2 DEF InLine, InBacklog
  <2> QED
    BY <1>1, <2>2, <2>3, <2>4, AckRule
<1>7. CASE Quiet
  <2>1. UNCHANGED <<conn, snd, delivered>> /\ \A d \in Conn : InLine(d)' => InLine(d)
    BY <1>7 DEF Quiet
  <2> QED
    BY <1>1, <2>1, AckRule
<1> QED
  BY <1>2, <1>3, <1>4, <1>5, <1>6, <1>7

\* Every step keeps it.
LEMMA AckNext == DirectInv /\ AckInv /\ [Next]_vars => AckInv'
<1> SUFFICES ASSUME DirectInv, AckInv, [Next]_vars
             PROVE  AckInv'
  OBVIOUS
<1>1. ASSUME NEW s \in Sender, NEW next, NEW k, Moved(s, next, k)
      PROVE  AckInv'
  BY <1>1, AckMoved
<1>2. ASSUME NEW s \in Sender, NEW c \in Conn, NEW next \in SenderState, NEW k \in Connection,
             Dialled(s, c, next, k)
      PROVE  AckInv'
  BY <1>2, AckDialled
<1>3. ASSUME NEW k, NEW replies, Concluded(k, replies)
      PROVE  AckInv'
  BY <1>3, AckConcluded
<1> QED
  BY <1>1, <1>2, <1>3, StepKinds, AckOthers

\* Nothing has been acknowledged at first.
LEMMA AckInit == Init => AckInv
<1> SUFFICES ASSUME Init
             PROVE  AckInv
  OBVIOUS
<1>1. \A c \in Conn : conn[c].s2c = << >>
  BY DEF Init, NoConn
<1>2. \A s \in Sender : snd[s].pc = "idle"
  BY DEF Init
<1> QED
  BY <1>1, <1>2, HasNone DEF AckInv

\* In every reachable state.
LEMMA AckInvariant == Spec => [](DirectInv /\ AckInv)
<1>1. Init => DirectInv /\ AckInv
  BY DirectInit, AckInit
<1>2. DirectInv /\ AckInv /\ [Next]_vars => (DirectInv /\ AckInv)'
  BY DirectNext, AckNext
<1> QED
  BY <1>1, <1>2, PTL DEF Spec

-------------------------------------------------------------------------------
(* The steps as those of Delivery.                                         *)

\* What a sender reports of its state.
Report(pc) ==
  CASE pc = "ok" -> "ok"
    [] pc \in {"refused", "exhausted", "gone"} -> "failed"
    [] OTHER -> "sending"

\* A step of one sender that is still sending.
LEMMA SenderDelivers ==
  ASSUME NEW s \in Sender, NEW pc, snd[s].pc \in InAttempt \cup {"idle"},
         snd'[s].pc = pc, \A t \in Sender : t # s => snd'[t] = snd[t],
         delivered' = delivered, pc = "ok" => delivered[s] > 0
  PROVE  [Promise!Next]_Promise!vars
<1>1. Reported = [t \in Sender |-> Report(snd[t].pc)] /\ Reported' = [t \in Sender |-> Report(snd'[t].pc)]
  BY DEF Reported, Report
<1>2. Reported' = [Reported EXCEPT ![s] = Report(pc)]
  BY <1>1
<1>3. Reported[s] = "sending"
  BY <1>1 DEF Report, InAttempt
<1>4. CASE pc = "ok"
  <2>1. Promise!Succeed(s)
    BY <1>2, <1>3, <1>4 DEF Promise!Succeed, Report
  <2> QED
    BY <2>1 DEF Promise!Next
<1>5. CASE pc \in {"refused", "exhausted", "gone"}
  <2>1. Promise!GiveUp(s)
    BY <1>2, <1>3, <1>5 DEF Promise!GiveUp, Report
  <2> QED
    BY <2>1 DEF Promise!Next
<1>6. CASE pc \notin {"ok", "refused", "exhausted", "gone"}
  <2>1. Reported' = Reported
    BY <1>1, <1>2, <1>3, <1>6 DEF Report
  <2> QED
    BY <2>1 DEF Promise!vars
<1> QED
  BY <1>4, <1>5, <1>6

\* A copy is unpacked for a sender in line, which has not reported success.
LEMMA CopyDelivers ==
  ASSUME DirectInv, AckInv, rcv.pc \notin {"accept", "down"}, snd' = snd,
         delivered' = [delivered EXCEPT ![Peer] = @ + 1]
  PROVE  [Promise!Next]_Promise!vars
<1>1. Served \in Conn /\ InLine(Served) /\ Peer \in Sender /\ Peer = Served[1]
  BY ServedFacts
<1>2. PICK s \in Sender : s = Peer
  BY <1>1
<1>3. snd[s].pc # "ok"
  BY <1>1, <1>2 DEF AckInv
<1>4. Reported[s] # "ok" /\ Reported' = Reported
  BY <1>3 DEF Reported
<1>5. Promise!Unpack(s)
  BY <1>2, <1>4 DEF Promise!Unpack
<1> QED
  BY <1>5 DEF Promise!Next

\* Each step is one of the promise, or changes no report and no copy.
LEMMA StepDelivers ==
  ASSUME DirectInv, AckInv, [Next]_vars
  PROVE  [Promise!Next]_Promise!vars
<1>1. ASSUME NEW s \in Sender, NEW next, NEW k, Moved(s, next, k)
      PROVE  [Promise!Next]_Promise!vars
  <2>1. (\A t \in Sender : snd'[t] = IF t = s THEN next ELSE snd[t]) /\ delivered' = delivered
    BY <1>1, MovedFacts
  <2>2. snd[s].pc \in InAttempt
    BY <1>1 DEF Moved
  <2>3. ASSUME next.pc = "ok"
        PROVE  delivered[s] > 0
    <3>1. next.pc \notin InAttempt
      BY <2>3 DEF InAttempt
    <3>2. Arrived(Link(s).s2c, "ack")
      BY <1>1, <2>3, <3>1 DEF Moved
    <3> QED
      BY <2>2, <3>2, AckEndsLine
  <2> QED
    BY <2>1, <2>2, <2>3, SenderDelivers
<1>2. ASSUME NEW s \in Sender, NEW c \in Conn, NEW next \in SenderState, NEW k \in Connection,
             Dialled(s, c, next, k)
      PROVE  [Promise!Next]_Promise!vars
  <2>1. \A t \in Sender : snd'[t] = IF t = s THEN next ELSE snd[t]
    BY <1>2, DialFacts
  <2>2. snd[s].pc = "idle" /\ next.pc = "opening" /\ delivered' = delivered
    BY <1>2 DEF Dialled
  <2> QED
    BY <2>1, <2>2, SenderDelivers
<1>3. ASSUME NEW s \in Sender, Refused(s)
      PROVE  [Promise!Next]_Promise!vars
  <2>1. PICK pc \in {"exhausted", "idle"} :
          snd'[s].pc = pc /\ \A t \in Sender : t # s => snd'[t] = snd[t]
    BY <1>3 DEF Refused
  <2>2. snd[s].pc = "idle" /\ delivered' = delivered
    BY <1>3 DEF Refused
  <2> QED
    BY <2>1, <2>2, SenderDelivers
<1>4. ASSUME NEW k, NEW replies, Concluded(k, replies)
      PROVE  [Promise!Next]_Promise!vars
  <2>1. snd' = snd /\ rcv.pc \notin {"accept", "down"}
        /\ (delivered' = delivered \/ delivered' = [delivered EXCEPT ![Peer] = @ + 1])
    BY <1>4 DEF Concluded, HungUp
  <2>2. CASE delivered' = delivered
    BY <2>1, <2>2 DEF Promise!vars, Reported
  <2> QED
    BY <2>1, <2>2, CopyDelivers
<1>5. CASE Died
  <2>1. CASE delivered' = delivered
    BY <1>5, <2>1 DEF Died, Promise!vars, Reported
  <2>2. CASE delivered' # delivered
    BY <1>5, <2>2, CopyDelivers DEF Died
  <2> QED
    BY <2>1, <2>2
<1>6. CASE \/ \E k : Handled(k)
           \/ \E k, replies : TurnedAway(k, replies)
           \/ \E c \in Conn : \E k : CutOff(c, k)
           \/ Quiet
  <2>1. snd' = snd /\ delivered' = delivered
    BY <1>6 DEF Handled, TurnedAway, HungUp, CutOff, Quiet
  <2> QED
    BY <2>1 DEF Promise!vars, Reported
<1> QED
  BY <1>1, <1>2, <1>3, <1>4, <1>5, <1>6, StepKinds

\* Whatever is lost, late or repeated, a send over the direct route reports
\* success only after the receiver unpacked its archive, and no connection it
\* had given up delivers another copy after that: the detailed specification
\* implements Delivery.
THEOREM DirectImplementsDelivery == Spec => ImplementsDelivery
<1>1. Init => Promise!Init
  <2> SUFFICES ASSUME Init PROVE Promise!Init
    OBVIOUS
  <2>1. \A s \in Sender : snd[s].pc = "idle"
    BY DEF Init
  <2>2. Reported = [s \in Sender |-> "sending"]
    BY <2>1 DEF Reported
  <2> QED
    BY <2>2 DEF Init, Promise!Init
<1>2. DirectInv /\ AckInv /\ [Next]_vars => [Promise!Next]_Promise!vars
  BY StepDelivers
<1> QED
  BY <1>1, <1>2, AckInvariant, PTL DEF Spec, ImplementsDelivery, Promise!Spec

-------------------------------------------------------------------------------
(* Copies and faults.  A copy of an archive is paid for by a fault, or is  *)
(* the one its sender has been told of and will not repeat.                *)

\* Nothing more is unpacked for this sender: it has succeeded, or the Ack
\* waits for it on a connection that works.
Rewarded(s) ==
  /\ \A c \in Conn : InLine(c) => c[1] # s
  /\ \/ snd[s].pc = "ok"
     \/ /\ snd[s].pc \in InAttempt /\ Arrived(Link(s).s2c, "ack")
        /\ Link(s).server = "closed" /\ Link(s).net = "up"

\* A copy may still be unpacked on this connection, but its sender will not
\* learn of it.
Lost(c) == Serving(c) /\ ~Up(conn[c]) /\ Has(conn[c].c2s, "done")

CopiesInv ==
  /\ \A s \in Sender : delivered[s] <= faults + IF Rewarded(s) THEN 1 ELSE 0
  /\ \A c \in Conn : Lost(c) => delivered[c[1]] < faults

\* A sender in line has not been rewarded.
LEMMA InLineUnpaid ==
  ASSUME DirectInv, CopiesInv, NEW c \in Conn, InLine(c)
  PROVE  delivered[c[1]] <= faults
<1>1. c[1] \in Sender /\ ~Rewarded(c[1])
  BY ConnFacts DEF Rewarded
<1>2. delivered[c[1]] \in Nat /\ faults \in Nat
  BY <1>1, TypeFacts DEF DirectInv
<1>3. delivered[c[1]] <= faults + 0
  BY <1>1 DEF CopiesInv
<1> QED
  BY <1>2, <1>3

\* A fault pays for whatever a step loses.
LEMMA FaultPays ==
  ASSUME DirectInv, CopiesInv, faults' = faults + 1, delivered' = delivered,
         \A d \in Conn : Serving(d)' => Serving(d)
  PROVE  CopiesInv'
<1>1. faults \in Nat /\ \A s \in Sender : delivered[s] \in Nat
  BY TypeFacts DEF DirectInv
<1>2. ASSUME NEW s \in Sender
      PROVE  delivered'[s] <= faults' + (IF Rewarded(s)' THEN 1 ELSE 0)
  <2>1. PICK n \in {0, 1} : n = IF Rewarded(s) THEN 1 ELSE 0
    OBVIOUS
  <2>2. PICK m \in {0, 1} : m = IF Rewarded(s)' THEN 1 ELSE 0
    OBVIOUS
  <2>3. delivered[s] <= faults + n
    BY <2>1 DEF CopiesInv
  <2>4. delivered'[s] <= faults' + m
    BY <1>1, <2>1, <2>2, <2>3
  <2> QED
    BY <2>2, <2>4
<1>3. ASSUME NEW c \in Conn, Lost(c)'
      PROVE  delivered'[c[1]] < faults'
  <2>1. InLine(c) /\ c[1] \in Sender
    BY <1>3, ConnFacts DEF Lost, Serving, InLine
  <2>2. delivered[c[1]] <= faults
    BY <2>1, InLineUnpaid
  <2> QED
    BY <1>1, <2>1, <2>2
<1> QED
  BY <1>2, <1>3 DEF CopiesInv

\* Otherwise it is kept where no reward and no copy is lost.
LEMMA CopiesRule ==
  ASSUME DirectInv, CopiesInv, faults' = faults, delivered' = delivered,
         \A s \in Sender : Rewarded(s) => Rewarded(s)',
         \A c \in Conn : Lost(c)' => Lost(c)
  PROVE  CopiesInv'
<1>1. faults \in Nat /\ \A s \in Sender : delivered[s] \in Nat
  BY TypeFacts DEF DirectInv
<1>2. ASSUME NEW s \in Sender
      PROVE  delivered'[s] <= faults' + (IF Rewarded(s)' THEN 1 ELSE 0)
  <2>1. PICK n \in {0, 1} : n = IF Rewarded(s) THEN 1 ELSE 0
    OBVIOUS
  <2>2. PICK m \in {0, 1} : m = IF Rewarded(s)' THEN 1 ELSE 0
    OBVIOUS
  <2>3. delivered[s] <= faults + n /\ n <= m
    BY <2>1, <2>2 DEF CopiesInv
  <2>4. delivered'[s] <= faults' + m
    BY <1>1, <2>1, <2>2, <2>3
  <2> QED
    BY <2>2, <2>4
<1> QED
  BY <1>2 DEF CopiesInv

\* A reward is kept by a step that neither puts this sender in line nor
\* touches it or its connection.
LEMMA RewardKept ==
  ASSUME DirectInv, NEW s \in Sender, Rewarded(s),
         \A c \in Conn : InLine(c)' => InLine(c) \/ c[1] # s,
         snd'[s] = snd[s], snd[s].pc \in InAttempt => Link(s)' = Link(s)
  PROVE  Rewarded(s)'
<1>1. \A c \in Conn : InLine(c)' => c[1] # s
  BY DEF Rewarded
<1>2. CASE snd[s].pc = "ok"
  BY <1>1, <1>2 DEF Rewarded
<1>3. CASE snd[s].pc \in InAttempt /\ Arrived(Link(s).s2c, "ack")
           /\ Link(s).server = "closed" /\ Link(s).net = "up"
  <2>1. Link(s)' = Link(s)
    BY <1>3
  <2>2. snd'[s].pc \in InAttempt /\ Arrived(Link(s)'.s2c, "ack")
        /\ Link(s)'.server = "closed" /\ Link(s)'.net = "up"
    BY <1>3, <2>1
  <2> QED
    BY <1>1, <2>2 DEF Rewarded
<1> QED
  BY <1>2, <1>3 DEF Rewarded

\* The sender that has the Ack on a working connection takes it.
LEMMA RewardMoved ==
  ASSUME DirectInv, NEW s \in Sender, NEW next, NEW k, Moved(s, next, k), Rewarded(s),
         faults' = faults
  PROVE  Rewarded(s)'
<1>1. /\ \A t \in Sender : snd'[t] = IF t = s THEN next ELSE snd[t]
      /\ Link(s)' = k /\ Attempt(s) \in Conn /\ Attempt(s)[1] = s
      /\ \A d : (InLine(d)' <=> InLine(d)) /\ (InBacklog(d)' <=> InBacklog(d))
  BY MovedFacts
<1>2. snd[s].pc \in InAttempt /\ k.server = Link(s).server /\ faults \in Nat
  BY TypeFacts DEF Moved, DirectInv
<1>3. snd[s].pc # "ok"
  BY <1>2 DEF InAttempt
<1>4. /\ Arrived(Link(s).s2c, "ack") /\ Link(s).server = "closed" /\ Link(s).net = "up"
      /\ \A c \in Conn : InLine(c)' => c[1] # s
  BY <1>1, <1>3 DEF Rewarded
<1>5. Link(s).s2c # << >> /\ \A type : Arrived(Link(s).s2c, type) => type = "ack"
  BY <1>4 DEF Arrived
<1>6. ~Blocked(Attempt(s))
  <2>1. ~InLine(Attempt(s))
    BY <1>1 DEF Rewarded
  <2> QED
    BY <2>1 DEF Blocked, InLine, InBacklog
<1>7. ~Cause(s)
  BY <1>2, <1>4, <1>5, <1>6 DEF Cause
<1>8. CASE next.pc \in InAttempt
  <2>1. k.net = Link(s).net /\ k.s2c = Link(s).s2c
    BY <1>5, <1>8 DEF Moved
  <2> QED
    BY <1>1, <1>2, <1>4, <1>8, <2>1 DEF Rewarded
<1>9. CASE next.pc \notin InAttempt
  <2>1. next.pc = "ok"
    BY <1>7, <1>9 DEF Moved
  <2> QED
    BY <1>1, <1>4, <2>1 DEF Rewarded
<1> QED
  BY <1>8, <1>9

\* A Done that waits to be read keeps its sender from leaving without a fault.
LEMMA LostMoved ==
  ASSUME DirectInv, NEW s \in Sender, NEW next, NEW k, Moved(s, next, k), faults' = faults,
         NEW c \in Conn, Lost(c)'
  PROVE  Lost(c)
<1>1. /\ \A d \in Conn : conn'[d] = IF d = Attempt(s) THEN k ELSE conn[d]
      /\ Serving(c)' <=> Serving(c)
      /\ Link(s) = conn[Attempt(s)] /\ Link(s).client = "open" /\ Link(s) \in Connection
  BY MovedFacts
<1>2. snd[s].pc \in InAttempt /\ k.server = Link(s).server /\ faults \in Nat
      /\ faults' # faults + 1
  BY TypeFacts DEF Moved, DirectInv
<1>3. CASE c # Attempt(s)
  BY <1>1, <1>3 DEF Lost
<1>4. CASE c = Attempt(s)
  <2>1. Serving(c) /\ ~Up(k) /\ Has(k.c2s, "done")
    BY <1>1, <1>4 DEF Lost
  <2>2. SessionOK(Link(s), snd[s], c) /\ ~InBacklog(c)
    <3>1. Served = c /\ rcv.pc \notin {"accept", "down"}
      BY <2>1 DEF Serving, Served
    <3> QED
      BY <1>2, <1>4, <2>1, <3>1, LinkFacts, ServedFacts
  <2>3. Link(s).server = "open" /\ (Link(s).s2c # << >> => Link(s).c2s = << >>)
    BY <2>2 DEF SessionOK
  <2>4. CASE next.pc \in InAttempt
    <3>1. k.net = Link(s).net /\ k.client = "open" /\ (k.net = "cut" => k.c2s = Link(s).c2s)
      BY <2>4 DEF Moved
    <3>2. k.net = "cut"
      <4>1. k \in Connection
        BY DEF Moved
      <4> QED
        BY <2>1, <3>1, <4>1 DEF Up, Connection
    <3> QED
      BY <1>1, <1>4, <2>1, <3>1, <3>2 DEF Lost, Up
  <2>5. CASE next.pc \notin InAttempt
    <3>1. k.c2s = Link(s).c2s
      BY <1>2, <2>3, <2>5 DEF Moved
    <3>2. Link(s).c2s # << >>
      BY <2>1, <3>1, HasNone
    <3>3. Link(s).s2c = << >>
      BY <2>3, <3>2
    <3>4. \A type : ~Arrived(Link(s).s2c, type)
      BY <3>3 DEF Arrived
    <3>5. Cause(s)
      BY <2>5, <3>4 DEF Moved
    <3>6. ~Blocked(Attempt(s))
      BY <1>4, <2>2 DEF Blocked, InBacklog
    <3>7. Link(s).net = "cut"
      BY <1>2, <2>3, <3>4, <3>5, <3>6 DEF Cause
    <3> QED
      BY <1>1, <1>4, <2>1, <3>1, <3>7 DEF Lost, Up
  <2> QED
    BY <2>4, <2>5
<1> QED
  BY <1>3, <1>4

\* A sender's step within its attempt, or out of it.
LEMMA CopiesMoved ==
  ASSUME DirectInv, CopiesInv, NEW s \in Sender, NEW next, NEW k, Moved(s, next, k)
  PROVE  CopiesInv'
<1>1. /\ \A t \in Sender : snd'[t] = IF t = s THEN next ELSE snd[t]
      /\ \A d : (InLine(d)' <=> InLine(d)) /\ (Serving(d)' <=> Serving(d))
      /\ delivered' = delivered
      /\ \A t \in Sender : t # s /\ snd[t].pc \in InAttempt => Link(t)' = Link(t)
  BY MovedFacts
<1>2. CASE faults' = faults + 1
  BY <1>1, <1>2, FaultPays
<1>3. CASE faults' = faults
  <2>1. ASSUME NEW t \in Sender, Rewarded(t)
        PROVE  Rewarded(t)'
    <3>1. CASE t = s
      BY <1>3, <2>1, <3>1, RewardMoved
    <3>2. CASE t # s
      BY <1>1, <2>1, <3>2, RewardKept
    <3> QED
      BY <3>1, <3>2
  <2>2. \A c \in Conn : Lost(c)' => Lost(c)
    BY <1>3, LostMoved
  <2> QED
    BY <1>1, <1>3, <2>1, <2>2, CopiesRule
<1> QED
  BY <1>2, <1>3 DEF Moved

\* The dial of a sender that has not been rewarded.
LEMMA CopiesDialled ==
  ASSUME DirectInv, CopiesInv, NEW s \in Sender, NEW c \in Conn, NEW next \in SenderState,
         NEW k \in Connection, Dialled(s, c, next, k)
  PROVE  CopiesInv'
<1>1. /\ \A t \in Sender : snd'[t] = IF t = s THEN next ELSE snd[t]
      /\ \A d \in Conn : conn'[d] = IF d = c THEN k ELSE conn[d]
      /\ \A d : (InLine(d)' <=> InLine(d) \/ d = c) /\ (Serving(d)' <=> Serving(d))
      /\ ~InLine(c)
      /\ \A t \in Sender : t # s /\ snd[t].pc \in InAttempt => Link(t)' = Link(t)
  BY DialFacts
<1>2. snd[s].pc = "idle" /\ c[1] = s /\ delivered' = delivered /\ faults' = faults
  BY DEF Dialled
<1>3. ASSUME NEW t \in Sender, Rewarded(t)
      PROVE  Rewarded(t)'
  <2>1. t # s
    BY <1>2, <1>3 DEF Rewarded, InAttempt
  <2> QED
    BY <1>1, <1>2, <1>3, <2>1, RewardKept
<1>4. ASSUME NEW d \in Conn, Lost(d)'
      PROVE  Lost(d)
  <2>1. Serving(d) /\ InLine(d)
    BY <1>1, <1>4 DEF Lost, Serving, InLine
  <2> QED
    BY <1>1, <1>4, <2>1 DEF Lost
<1> QED
  BY <1>2, <1>3, <1>4, CopiesRule

\* What the receiver does on the connection it serves takes no reward away:
\* that connection's sender has none.
LEMMA RewardElsewhere ==
  ASSUME DirectInv, rcv.pc \notin {"accept", "down"}, NEW k, conn' = [conn EXCEPT ![Served] = k],
         snd' = snd, \A d \in Conn : InLine(d)' => InLine(d), NEW s \in Sender, Rewarded(s)
  PROVE  Rewarded(s)'
<1>1. Served \in Conn /\ InLine(Served)
      /\ \A d \in Conn : conn'[d] = IF d = Served THEN k ELSE conn[d]
  BY ServedStep
<1>2. ASSUME snd[s].pc \in InAttempt
      PROVE  Link(s)' = Link(s)
  <2>1. PICK d \in Conn : d = Attempt(s) /\ d[1] = s /\ Link(s) = conn[d]
    BY <1>2, SenderFacts
  <2>2. d # Served
    BY <1>1, <2>1 DEF Rewarded
  <2>3. Attempt(s)' = d
    BY <2>1 DEF Attempt
  <2> QED
    BY <1>1, <2>1, <2>2, <2>3 DEF Link
<1> QED
  BY <1>2, RewardKept

\* Within a session, and when a peer is turned away.
LEMMA CopiesServed ==
  ASSUME DirectInv, CopiesInv, NEW k, Handled(k) \/ \E replies : TurnedAway(k, replies)
  PROVE  CopiesInv'
<1>1. /\ rcv.pc \notin {"accept", "down"} /\ conn' = [conn EXCEPT ![Served] = k]
      /\ UNCHANGED <<backlog, snd, delivered, faults>>
      /\ rcv'.conn = rcv.conn \/ rcv'.conn = << >>
  BY DEF Handled, TurnedAway, HungUp
<1>2. Served \in Conn /\ \A d \in Conn : conn'[d] = IF d = Served THEN k ELSE conn[d]
  BY <1>1, ServedStep
<1>3. \A d \in Conn : << >> # <<d>>
  OBVIOUS
<1>4. \A d \in Conn : InLine(d)' => InLine(d)
  BY <1>1, <1>3 DEF InLine, InBacklog
<1>5. \A s \in Sender : Rewarded(s) => Rewarded(s)'
  BY <1>1, <1>4, RewardElsewhere
<1>6. ASSUME NEW c \in Conn, Lost(c)'
      PROVE  Lost(c)
  <2>1. rcv'.conn = <<c>> /\ ~Up(conn'[c]) /\ Has(conn'[c].c2s, "done")
    BY <1>6 DEF Lost, Serving
  <2>2. rcv.conn = <<c>> /\ rcv'.conn = rcv.conn
    BY <1>1, <1>3, <2>1
  <2>3. c = Served /\ conn'[c] = k
    BY <1>2, <2>2 DEF Served
  <2>4. Handled(k)
    <3>1. ASSUME NEW replies, TurnedAway(k, replies)
          PROVE  FALSE
      BY <1>3, <2>1, <3>1 DEF TurnedAway, HungUp
    <3> QED
      BY <3>1
  <2>5. Serving(Served) /\ Has(conn[Served].c2s, "done") /\ (Up(conn[Served]) => Up(k))
    BY <2>1, <2>3, <2>4 DEF Handled, Up
  <2> QED
    BY <2>1, <2>3, <2>5 DEF Lost
<1> QED
  BY <1>1, <1>5, <1>6, CopiesRule

\* The Ack for a copy reaches the sender on a working connection; on one that
\* does not work the copy has been paid for.
LEMMA CopiesConcluded ==
  ASSUME DirectInv, CopiesInv, NEW k, NEW replies, Concluded(k, replies)
  PROVE  CopiesInv'
<1>1. /\ HungUp(k, replies) /\ Serving(Served) /\ conn[Served].s2c = << >>
      /\ Has(conn[Served].c2s, "done")
  BY DEF Concluded
<1>2. /\ rcv.pc \notin {"accept", "down"} /\ rcv'.conn = << >>
      /\ conn' = [conn EXCEPT ![Served] = k] /\ UNCHANGED <<backlog, snd, faults>>
  BY <1>1 DEF HungUp
<1>3. PICK answer \in {"ack", "unpack_error"} :
       /\ replies = <<Signal(answer)>>
       /\ delivered' = IF answer = "ack" THEN [delivered EXCEPT ![Peer] = @ + 1] ELSE delivered
  BY DEF Concluded
<1>4. PICK c \in Conn, p \in Sender :
        /\ c = Served /\ p = Peer /\ p = c[1] /\ rcv.conn = <<c>>
        /\ InLine(c) /\ ~InBacklog(c) /\ LinkOK(conn[c], snd[p], c)
        /\ \A d \in Conn : conn'[d] = IF d = c THEN k ELSE conn[d]
  BY <1>2, ServedStep
<1>5. delivered \in [Sender -> Nat] /\ (\A s \in Sender : delivered[s] \in Nat) /\ faults \in Nat
  BY TypeFacts DEF DirectInv
<1>6. \A d \in Conn : << >> # <<d>>
  OBVIOUS
<1>7. \A d \in Conn : (InLine(d)' => InBacklog(d)) /\ (InLine(d)' => InLine(d)) /\ ~Serving(d)'
  BY <1>2, <1>6 DEF InLine, InBacklog, Serving
<1>8. \A s \in Sender : Rewarded(s) => Rewarded(s)'
  BY <1>2, <1>7, RewardElsewhere
<1>9. \A d \in Conn : ~Lost(d)'
  BY <1>7 DEF Lost
<1>10. CASE answer # "ack"
  <2>1. delivered' = delivered
    BY <1>3, <1>10
  <2> QED
    BY <1>2, <1>8, <1>9, <2>1, CopiesRule
<1>11. CASE answer = "ack"
  <2>1. \A s \in Sender : delivered'[s] = IF s = p THEN delivered[s] + 1 ELSE delivered[s]
    BY <1>3, <1>4, <1>5, <1>11
  <2>2. ASSUME Up(conn[c])
        PROVE  Rewarded(p)'
    <3>1. k.client = "open" /\ k.net = "up" /\ k.server = "closed" /\ k.s2c = << >> \o replies
      BY <1>1, <1>4, <2>2 DEF HungUp, Up
    <3>2. snd[p].tries = c[2] /\ snd[p].pc \in InAttempt
      BY <1>4, <2>2 DEF LinkOK, Up
    <3>3. Link(p)' = k
      <4>1. Attempt(p)' = c
        BY <1>2, <1>4, <3>2, ConnFacts DEF Attempt
      <4> QED
        BY <1>4, <4>1 DEF Link
    <3>4. Arrived(k.s2c, "ack")
      <4>1. PICK f \in Frame : f = Signal("ack") /\ f.type = "ack"
        BY SignalIs
      <4>2. PICK q : q = <<f>>
        OBVIOUS
      <4>3. q \in Seq(Frame) /\ q # << >> /\ Head(q) = f /\ << >> \o q = q /\ q = replies
        BY <1>3, <1>11, <4>1, <4>2
      <4> QED
        BY <3>1, <4>1, <4>3 DEF Arrived
    <3>5. ASSUME NEW d \in Conn, InLine(d)', d[1] = p
          PROVE  FALSE
      <4>1. InBacklog(d) /\ InLine(d)
        BY <1>7, <3>5
      <4>2. c[2] < d[2]
        BY <1>4, <3>5, <4>1 DEF DirectInv, QueueOK
      <4>3. d[2] <= snd[p].tries
        BY <3>5, <4>1 DEF DirectInv, QueueOK
      <4>4. c[2] \in Nat /\ d[2] \in Nat
        BY ConnFacts
      <4> QED
        BY <3>2, <4>2, <4>3, <4>4
    <3> QED
      BY <1>2, <3>1, <3>2, <3>3, <3>4, <3>5 DEF Rewarded
  <2>3. ASSUME ~Up(conn[c])
        PROVE  delivered[p] < faults
    <3>1. Lost(c)
      BY <1>1, <1>4, <2>3 DEF Lost
    <3> QED
      BY <1>4, <3>1 DEF CopiesInv
  <2>4. delivered[p] <= faults
    BY <1>4, InLineUnpaid
  <2>5. ASSUME NEW s \in Sender
        PROVE  delivered'[s] <= faults' + (IF Rewarded(s)' THEN 1 ELSE 0)
    <3>1. PICK n \in {0, 1} : n = IF Rewarded(s) THEN 1 ELSE 0
      OBVIOUS
    <3>2. PICK m \in {0, 1} : m = IF Rewarded(s)' THEN 1 ELSE 0
      OBVIOUS
    <3>3. CASE s = p
      <4>1. m = 1 \/ delivered[p] < faults
        BY <2>2, <2>3, <3>2, <3>3
      <4>2. delivered'[s] <= faults' + m
        BY <1>2, <1>5, <2>1, <2>4, <3>2, <3>3, <4>1
      <4> QED
        BY <3>2, <4>2
    <3>4. CASE s # p
      <4>1. delivered[s] <= faults + n /\ n <= m
        BY <1>8, <3>1, <3>2 DEF CopiesInv
      <4>2. delivered'[s] <= faults' + m
        BY <1>2, <1>5, <2>1, <3>1, <3>2, <3>4, <4>1
      <4> QED
        BY <3>2, <4>2
    <3> QED
      BY <3>3, <3>4
  <2> QED
    BY <1>9, <2>5 DEF CopiesInv
<1> QED
  BY <1>10, <1>11

\* A crash after unpacking is a fault of its own.
LEMMA CopiesDied ==
  ASSUME DirectInv, CopiesInv, Died
  PROVE  CopiesInv'
<1>1. \A d \in Conn : << >> # <<d>>
  OBVIOUS
<1>2. rcv'.conn = << >> /\ faults' = faults + 1
  BY DEF Died
<1>3. \A d \in Conn : ~Serving(d)' /\ ~Lost(d)'
  BY <1>1, <1>2 DEF Serving, Lost
<1>4. CASE delivered' = delivered
  BY <1>2, <1>3, <1>4, FaultPays
<1>5. CASE rcv.pc \notin {"accept", "down"} /\ delivered' = [delivered EXCEPT ![Peer] = @ + 1]
  <2>1. PICK p \in Sender : p = Peer /\ delivered[p] <= faults
    <3>1. Served \in Conn /\ InLine(Served) /\ Peer \in Sender /\ Peer = Served[1]
      BY <1>5, ServedFacts
    <3> QED
      BY <3>1, InLineUnpaid
  <2>2. delivered \in [Sender -> Nat] /\ (\A s \in Sender : delivered[s] \in Nat) /\ faults \in Nat
    BY TypeFacts DEF DirectInv
  <2>3. \A s \in Sender : delivered'[s] = IF s = p THEN delivered[s] + 1 ELSE delivered[s]
    BY <1>5, <2>1, <2>2
  <2>4. ASSUME NEW s \in Sender
        PROVE  delivered'[s] <= faults' + (IF Rewarded(s)' THEN 1 ELSE 0)
    <3>1. PICK n \in {0, 1} : n = IF Rewarded(s) THEN 1 ELSE 0
      OBVIOUS
    <3>2. PICK m \in {0, 1} : m = IF Rewarded(s)' THEN 1 ELSE 0
      OBVIOUS
    <3>3. delivered[s] <= faults + n
      BY <3>1 DEF CopiesInv
    <3>4. delivered'[s] <= faults' + m
      BY <1>2, <2>1, <2>2, <2>3, <3>1, <3>2, <3>3
    <3> QED
      BY <3>2, <3>4
  <2> QED
    BY <1>3, <2>4 DEF CopiesInv
<1> QED
  BY <1>4, <1>5 DEF Died

\* Every step keeps it.
LEMMA CopiesNext == DirectInv /\ CopiesInv /\ [Next]_vars => CopiesInv'
<1> SUFFICES ASSUME DirectInv, CopiesInv, [Next]_vars
             PROVE  CopiesInv'
  OBVIOUS
<1>1. ASSUME NEW s \in Sender, NEW next, NEW k, Moved(s, next, k)
      PROVE  CopiesInv'
  BY <1>1, CopiesMoved
<1>2. ASSUME NEW s \in Sender, NEW c \in Conn, NEW next \in SenderState, NEW k \in Connection,
             Dialled(s, c, next, k)
      PROVE  CopiesInv'
  BY <1>2, CopiesDialled
<1>3. CASE (\E s \in Sender : Refused(s)) \/ (\E c \in Conn : \E k : CutOff(c, k))
  <2>1. faults' = faults + 1 /\ delivered' = delivered /\ rcv' = rcv
    BY <1>3 DEF Refused, CutOff
  <2>2. \A d \in Conn : Serving(d)' => Serving(d)
    BY <2>1 DEF Serving
  <2> QED
    BY <2>1, <2>2, FaultPays
<1>4. ASSUME NEW k, Handled(k) \/ \E replies : TurnedAway(k, replies)
      PROVE  CopiesInv'
  BY <1>4, CopiesServed
<1>5. ASSUME NEW k, NEW replies, Concluded(k, replies)
      PROVE  CopiesInv'
  BY <1>5, CopiesConcluded
<1>6. CASE Quiet
  <2>1. /\ UNCHANGED <<conn, snd, delivered, faults>>
        /\ \A d \in Conn : (InLine(d)' => InLine(d)) /\ (Serving(d)' => Serving(d))
    BY <1>6 DEF Quiet
  <2>2. \A t \in Sender : Link(t)' = Link(t)
    BY <2>1 DEF Link, Attempt
  <2>3. \A s \in Sender : Rewarded(s) => Rewarded(s)'
    BY <2>1, <2>2, RewardKept
  <2>4. \A c \in Conn : Lost(c)' => Lost(c)
    BY <2>1 DEF Lost
  <2> QED
    BY <2>1, <2>3, <2>4, CopiesRule
<1> QED
  BY <1>1, <1>2, <1>3, <1>4, <1>5, <1>6, StepKinds, CopiesDied

\* Nothing has been unpacked at first.
LEMMA CopiesInit == Init => CopiesInv
<1> SUFFICES ASSUME Init
             PROVE  CopiesInv
  OBVIOUS
<1>1. (\A s \in Sender : delivered[s] = 0 /\ ~Rewarded(s)) /\ faults = 0
  BY DEF Init, Rewarded, InAttempt
<1>2. \A c \in Conn : ~Lost(c)
  BY AtListenerIs DEF Init, Lost, Serving
<1>3. \A s \in Sender : delivered[s] <= faults + IF Rewarded(s) THEN 1 ELSE 0
  BY <1>1
<1> QED
  BY <1>2, <1>3 DEF CopiesInv

\* An archive is unpacked again only because something went wrong: every copy
\* beyond the first takes a fault (a lost Ack, a crash after unpacking), however
\* many senders, attempts and faults there are.
THEOREM CopiesTakeFaults == Spec => []CopiesNeedFaults
<1>1. Init => DirectInv /\ CopiesInv
  BY DirectInit, CopiesInit
<1>2. DirectInv /\ CopiesInv /\ [Next]_vars => (DirectInv /\ CopiesInv)'
  BY DirectNext, CopiesNext
<1>3. DirectInv /\ CopiesInv => CopiesNeedFaults
  <2> SUFFICES ASSUME DirectInv, CopiesInv, NEW s \in Sender
               PROVE  delivered[s] <= 1 + faults
    BY DEF CopiesNeedFaults
  <2>1. delivered[s] \in Nat /\ faults \in Nat
    BY TypeFacts DEF DirectInv
  <2>2. PICK n \in {0, 1} : n = IF Rewarded(s) THEN 1 ELSE 0
    OBVIOUS
  <2>3. delivered[s] <= faults + n
    BY <2>2 DEF CopiesInv
  <2> QED
    BY <2>1, <2>2, <2>3
<1> QED
  BY <1>1, <1>2, <1>3, PTL DEF Spec

-------------------------------------------------------------------------------
(* Attempts and faults.  A sender that dials an address and that nobody    *)
(* comes between loses each attempt but the one it is in to a fault.       *)

Alone(s) == snd[s].kind = "direct" /\ \A t \in Sender \ {s} : snd[t].tries = 0

\* The receiver does not leave such a sender without an answer to its Done.
AnswerOK(s) ==
  snd[s].kind = "direct" /\ snd[s].pc \in InAttempt
  /\ Link(s).server = "closed" /\ Link(s).net = "up"
    => \E type \in {"ack", "unpack_error"} : Arrived(Link(s).s2c, type)

TriesOK(s) ==
  Alone(s) =>
    /\ snd[s].pc \in {"idle", "exhausted"} => snd[s].tries <= faults
    /\ snd[s].pc \in InAttempt =>
         snd[s].tries <= faults + IF Link(s).net = "up" THEN 1 ELSE 0

AttemptsInv ==
  \A s \in Sender :
    /\ AnswerOK(s)
    /\ snd[s].pc = "exhausted" => snd[s].tries = MaxAttempts
    /\ TriesOK(s)

\* A sender that a step leaves where it was, on a connection that is no worse.
LEMMA AttemptsKept ==
  ASSUME DirectInv, NEW s \in Sender, snd'[s] = snd[s], AnswerOK(s), TriesOK(s),
         \A t \in Sender : snd'[t].tries = 0 => snd[t].tries = 0,
         faults' \in {faults, faults + 1}, snd[s].pc \in InAttempt => Link(s)' = Link(s)
  PROVE  AnswerOK(s)' /\ TriesOK(s)'
<1>1. faults \in Nat /\ snd[s].tries \in Nat
  BY TypeFacts DEF DirectInv
<1>2. Alone(s)' => Alone(s)
  BY DEF Alone
<1>3. AnswerOK(s)'
  <2>1. CASE snd[s].pc \in InAttempt
    <3>1. Link(s)' = Link(s)
      BY <2>1
    <3> QED
      BY <3>1 DEF AnswerOK
  <2>2. CASE snd[s].pc \notin InAttempt
    BY <2>2 DEF AnswerOK
  <2> QED
    BY <2>1, <2>2
<1>4. ASSUME Alone(s)', snd[s].pc \in {"idle", "exhausted"}
      PROVE  snd[s].tries <= faults'
  <2>1. snd[s].tries <= faults
    BY <1>2, <1>4 DEF TriesOK
  <2> QED
    BY <1>1, <2>1
<1>5. ASSUME Alone(s)', snd[s].pc \in InAttempt
      PROVE  snd[s].tries <= faults' + IF Link(s)'.net = "up" THEN 1 ELSE 0
  <2>1. PICK n \in {0, 1} : n = IF Link(s).net = "up" THEN 1 ELSE 0
    OBVIOUS
  <2>2. snd[s].tries <= faults + n
    BY <1>2, <1>5, <2>1 DEF TriesOK
  <2>3. snd[s].tries <= faults' + n
    BY <1>1, <2>1, <2>2
  <2>4. n = IF Link(s)'.net = "up" THEN 1 ELSE 0
    BY <1>5, <2>1
  <2> QED
    BY <2>3, <2>4
<1> QED
  BY <1>3, <1>4, <1>5 DEF TriesOK

\* One whose connection the step touches, at the price of a fault.
LEMMA AttemptsPaid ==
  ASSUME DirectInv, NEW s \in Sender, snd'[s] = snd[s], TriesOK(s),
         \A t \in Sender : snd'[t].tries = 0 => snd[t].tries = 0, faults' = faults + 1
  PROVE  TriesOK(s)'
<1>1. faults \in Nat /\ snd[s].tries \in Nat
  BY TypeFacts DEF DirectInv
<1>2. Alone(s)' => Alone(s)
  BY DEF Alone
<1>3. PICK n \in {0, 1} : n = IF Link(s)'.net = "up" THEN 1 ELSE 0
  OBVIOUS
<1>4. PICK m \in {0, 1} : m = IF Link(s).net = "up" THEN 1 ELSE 0
  OBVIOUS
<1>5. ASSUME Alone(s)', snd[s].pc \in InAttempt
      PROVE  snd[s].tries <= faults' + n
  <2>1. snd[s].tries <= faults + m
    BY <1>2, <1>4, <1>5 DEF TriesOK
  <2> QED
    BY <1>1, <1>3, <1>4, <2>1
<1>6. ASSUME Alone(s)', snd[s].pc \in {"idle", "exhausted"}
      PROVE  snd[s].tries <= faults'
  <2>1. snd[s].tries <= faults
    BY <1>2, <1>6 DEF TriesOK
  <2> QED
    BY <1>1, <2>1
<1> QED
  BY <1>3, <1>5, <1>6 DEF TriesOK

\* Nothing blocks a sender that is alone: the connection ahead of it would be
\* an earlier attempt of its own, which it has closed.
LEMMA AloneUnblocked ==
  ASSUME DirectInv, NEW s \in Sender, snd[s].pc \in InAttempt, Alone(s)
  PROVE  ~Blocked(Attempt(s))
<1> SUFFICES ASSUME Blocked(Attempt(s))
             PROVE  FALSE
  OBVIOUS
<1>1. PICK c \in Conn : c = Attempt(s) /\ c[1] = s /\ c[2] = snd[s].tries
  BY SenderFacts
<1>2. InBacklog(c) /\ rcv.conn # << >> /\ conn[Served].client # "closed"
  BY <1>1 DEF Blocked, InBacklog, Served
<1>3. rcv.pc \notin {"accept", "down"}
  BY <1>2 DEF DirectInv, ReceiverOK
<1>4. PICK d \in Conn : d = Served /\ rcv.conn = <<d>> /\ d[1] \in Sender /\ d[2] <= snd[d[1]].tries
  BY <1>3, ServedFacts
<1>5. d[2] \in Nat /\ d[2] >= 1 /\ c[2] \in Nat
  BY ConnFacts
<1>6. CASE d[1] = s
  <2>1. d[2] < c[2]
    BY <1>1, <1>2, <1>4, <1>6 DEF DirectInv, QueueOK
  <2>2. LinkOK(conn[d], snd[s], d) /\ conn[d].client \in {"open", "gone"}
    <3>1. conn[d] \in Connection
      BY TypeFacts DEF DirectInv
    <3> QED
      BY <1>2, <1>4, <1>6, <3>1 DEF DirectInv, Connection
  <2>3. snd[s].tries = d[2] \/ snd[s].pc = "gone"
    BY <2>2 DEF LinkOK
  <2> QED
    BY <1>1, <1>5, <2>1, <2>3 DEF InAttempt
<1>7. CASE d[1] # s
  <2>1. snd[d[1]].tries = 0
    BY <1>4, <1>7 DEF Alone
  <2> QED
    BY <1>4, <1>5, <2>1
<1> QED
  BY <1>6, <1>7

\* A sender's step within its attempt, or out of it.
LEMMA AttemptsMoved ==
  ASSUME DirectInv, AttemptsInv, NEW s \in Sender, NEW next, NEW k, Moved(s, next, k)
  PROVE  AttemptsInv'
<1>1. /\ \A t \in Sender : snd'[t] = IF t = s THEN next ELSE snd[t]
      /\ \A t \in Sender : snd'[t].tries = snd[t].tries /\ snd'[t].kind = snd[t].kind
      /\ Link(s)' = k
      /\ \A t \in Sender : t # s /\ snd[t].pc \in InAttempt => Link(t)' = Link(t)
  BY MovedFacts
<1>2. /\ snd[s].pc \in InAttempt /\ k.server = Link(s).server /\ faults' \in {faults, faults + 1}
      /\ next.tries = snd[s].tries /\ next.kind = snd[s].kind
      /\ next.pc = "exhausted" => next.tries = MaxAttempts
  BY DEF Moved
<1>3. faults \in Nat /\ snd[s].tries \in Nat
  BY TypeFacts DEF DirectInv
<1>4. AnswerOK(s) /\ TriesOK(s)
  BY DEF AttemptsInv
<1>5. ASSUME NEW t \in Sender, t # s
      PROVE  AnswerOK(t)' /\ TriesOK(t)' /\ (snd'[t].pc = "exhausted" => snd'[t].tries = MaxAttempts)
  <2>1. AnswerOK(t) /\ TriesOK(t) /\ (snd[t].pc = "exhausted" => snd[t].tries = MaxAttempts)
    BY DEF AttemptsInv
  <2> QED
    BY <1>1, <1>2, <1>5, <2>1, AttemptsKept
<1>6. AnswerOK(s)'
  <2>1. CASE next.pc \in InAttempt
    <3>1. k.net = Link(s).net /\ (k.s2c = Link(s).s2c \/ Arrived(Link(s).s2c, "server_intro"))
      BY <2>1 DEF Moved
    <3>2. ASSUME snd[s].kind = "direct", k.server = "closed", k.net = "up"
          PROVE  \E type \in {"ack", "unpack_error"} : Arrived(k.s2c, type)
      <4>1. \E type \in {"ack", "unpack_error"} : Arrived(Link(s).s2c, type)
        BY <1>2, <1>4, <3>1, <3>2 DEF AnswerOK
      <4>2. ~Arrived(Link(s).s2c, "server_intro")
        BY <4>1 DEF Arrived
      <4> QED
        BY <3>1, <4>1, <4>2
    <3> QED
      BY <1>1, <1>2, <3>2 DEF AnswerOK
  <2>2. CASE next.pc \notin InAttempt
    BY <1>1, <2>2 DEF AnswerOK
  <2> QED
    BY <2>1, <2>2
<1>7. ASSUME Alone(s)'
      PROVE  /\ next.pc \in {"idle", "exhausted"} => next.tries <= faults'
             /\ next.pc \in InAttempt =>
                  next.tries <= faults' + IF k.net = "up" THEN 1 ELSE 0
  <2>1. Alone(s)
    BY <1>1, <1>7 DEF Alone
  <2>2. PICK n \in {0, 1} : n = IF Link(s).net = "up" THEN 1 ELSE 0
    OBVIOUS
  <2>3. snd[s].tries <= faults + n
    BY <1>2, <1>4, <2>1, <2>2 DEF TriesOK
  <2>4. CASE next.pc \in InAttempt
    <3>1. k.net = Link(s).net
      BY <2>4 DEF Moved
    <3>2. n = IF k.net = "up" THEN 1 ELSE 0
      BY <2>2, <3>1
    <3>3. next.tries <= faults' + n
      BY <1>2, <1>3, <2>2, <2>3
    <3>4. next.pc \notin {"idle", "exhausted"}
      BY <2>4 DEF InAttempt
    <3> QED
      BY <3>2, <3>3, <3>4
  <2>5. CASE next.pc \in {"idle", "exhausted"}
    <3>1. next.pc \notin InAttempt
      BY <2>5 DEF InAttempt
    <3>2. \/ faults' = faults + 1
          \/ Link(s).net = "cut"
          \/ Link(s).server = "closed" /\ Link(s).s2c = << >>
          \/ snd[s].pc = "opening" /\ Blocked(Attempt(s))
      BY <2>1, <2>5, <3>1 DEF Moved, Alone
    <3>3. ~Blocked(Attempt(s))
      BY <1>2, <2>1, AloneUnblocked
    <3>4. Link(s).net # "up" \/ ~(Link(s).server = "closed" /\ Link(s).s2c = << >>)
      BY <1>2, <1>4, <2>1 DEF AnswerOK, Alone, Arrived
    <3>5. n = 0 \/ faults' = faults + 1
      <4>1. Link(s) \in Connection
        BY <1>2, SenderFacts
      <4>2. Link(s).net \in {"up", "cut"}
        BY <4>1 DEF Connection
      <4> QED
        BY <2>2, <3>2, <3>3, <3>4, <4>2
    <3>6. next.tries <= faults'
      BY <1>2, <1>3, <2>2, <2>3, <3>5
    <3> QED
      BY <3>1, <3>6
  <2> QED
    BY <2>4, <2>5
<1>8. TriesOK(s)'
  BY <1>1, <1>7 DEF TriesOK
<1> QED
  BY <1>1, <1>2, <1>5, <1>6, <1>8 DEF AttemptsInv

\* A dial takes an attempt, and its connection works.
LEMMA AttemptsDialled ==
  ASSUME DirectInv, AttemptsInv, NEW s \in Sender, NEW c \in Conn, NEW next \in SenderState,
         NEW k \in Connection, Dialled(s, c, next, k)
  PROVE  AttemptsInv'
<1>1. /\ \A t \in Sender : snd'[t] = IF t = s THEN next ELSE snd[t]
      /\ Link(s)' = k
      /\ \A t \in Sender : t # s /\ snd[t].pc \in InAttempt => Link(t)' = Link(t)
  BY DialFacts
<1>2. /\ snd[s].pc = "idle" /\ next.pc = "opening" /\ next.tries = snd[s].tries + 1
      /\ next.kind = snd[s].kind /\ faults' = faults /\ k.net = "up" /\ k.server = "open"
  BY DEF Dialled
<1>3. faults \in Nat /\ \A t \in Sender : snd[t].tries \in Nat
  BY TypeFacts DEF DirectInv
<1>4. \A t \in Sender : snd'[t].tries = 0 => snd[t].tries = 0
  BY <1>1, <1>2, <1>3
<1>5. ASSUME NEW t \in Sender, t # s
      PROVE  AnswerOK(t)' /\ TriesOK(t)' /\ (snd'[t].pc = "exhausted" => snd'[t].tries = MaxAttempts)
  <2>1. AnswerOK(t) /\ TriesOK(t) /\ (snd[t].pc = "exhausted" => snd[t].tries = MaxAttempts)
    BY DEF AttemptsInv
  <2>2. snd'[t] = snd[t] /\ (snd[t].pc \in InAttempt => Link(t)' = Link(t))
        /\ faults' \in {faults, faults + 1}
    BY <1>1, <1>2, <1>5
  <2>3. AnswerOK(t)' /\ TriesOK(t)'
    BY <1>4, <2>1, <2>2, AttemptsKept
  <2> QED
    BY <2>1, <2>2, <2>3
<1>6. AnswerOK(s)'
  BY <1>1, <1>2 DEF AnswerOK
<1>7. TriesOK(s)'
  <2>1. ASSUME Alone(s)'
        PROVE  next.tries <= faults' + 1
    <3>1. Alone(s)
      BY <1>1, <1>2, <1>4, <2>1 DEF Alone
    <3>2. snd[s].tries <= faults
      BY <1>2, <3>1 DEF AttemptsInv, TriesOK
    <3> QED
      BY <1>2, <1>3, <3>2
  <2> QED
    BY <1>1, <1>2, <2>1 DEF TriesOK
<1> QED
  BY <1>1, <1>2, <1>5, <1>6, <1>7 DEF AttemptsInv

\* A refused dial takes an attempt and is a fault.
LEMMA AttemptsRefused ==
  ASSUME DirectInv, AttemptsInv, NEW s \in Sender, Refused(s)
  PROVE  AttemptsInv'
<1>1. PICK pc \in {"exhausted", "idle"} :
        /\ \A t \in Sender : t # s => snd'[t] = snd[t]
        /\ snd'[s].pc = pc /\ snd'[s].tries = snd[s].tries + 1 /\ snd'[s].kind = snd[s].kind
        /\ pc = "exhausted" => snd'[s].tries = MaxAttempts
  BY DEF Refused
<1>2. snd[s].pc = "idle" /\ faults' = faults + 1 /\ conn' = conn
  BY DEF Refused
<1>3. faults \in Nat /\ \A t \in Sender : snd[t].tries \in Nat
  BY TypeFacts DEF DirectInv
<1>4. \A t \in Sender : snd'[t].tries = 0 => snd[t].tries = 0
  BY <1>1, <1>3
<1>5. ASSUME NEW t \in Sender, t # s
      PROVE  AnswerOK(t)' /\ TriesOK(t)' /\ (snd'[t].pc = "exhausted" => snd'[t].tries = MaxAttempts)
  <2>1. AnswerOK(t) /\ TriesOK(t) /\ (snd[t].pc = "exhausted" => snd[t].tries = MaxAttempts)
    BY DEF AttemptsInv
  <2>2. snd'[t] = snd[t] /\ Link(t)' = Link(t) /\ faults' \in {faults, faults + 1}
    BY <1>1, <1>2, <1>5 DEF Link, Attempt
  <2>3. AnswerOK(t)' /\ TriesOK(t)'
    BY <1>4, <2>1, <2>2, AttemptsKept
  <2> QED
    BY <2>1, <2>2, <2>3
<1>6. AnswerOK(s)'
  BY <1>1 DEF AnswerOK, InAttempt
<1>7. TriesOK(s)'
  <2>1. ASSUME Alone(s)'
        PROVE  snd'[s].tries <= faults'
    <3>1. Alone(s)
      BY <1>1, <1>4, <2>1 DEF Alone
    <3>2. snd[s].tries <= faults
      BY <1>2, <3>1 DEF AttemptsInv, TriesOK
    <3> QED
      BY <1>1, <1>2, <1>3, <3>2
  <2> QED
    BY <1>1, <2>1 DEF TriesOK, InAttempt
<1> QED
  BY <1>1, <1>5, <1>6, <1>7 DEF AttemptsInv

\* The receiver leaves a connection as good as it was, and with an answer
\* where it leaves it.
LEMMA AttemptsServed ==
  ASSUME DirectInv, AttemptsInv, rcv.pc \notin {"accept", "down"},
         NEW k, conn' = [conn EXCEPT ![Served] = k], snd' = snd, faults' = faults,
         conn[Served].client = "open" => k.net = conn[Served].net,
         conn[Served].client = "open" /\ snd[Peer].kind = "direct" /\ k.net = "up" =>
           k.server = "open" \/ \E type \in {"ack", "unpack_error"} : Arrived(k.s2c, type)
  PROVE  AttemptsInv'
<1> SUFFICES ASSUME NEW s \in Sender
             PROVE  AnswerOK(s)' /\ TriesOK(s)' /\ (snd'[s].pc = "exhausted" => snd'[s].tries = MaxAttempts)
  BY DEF AttemptsInv
<1>1. AnswerOK(s) /\ TriesOK(s) /\ (snd[s].pc = "exhausted" => snd[s].tries = MaxAttempts)
  BY DEF AttemptsInv
<1>2. Served \in Conn /\ Peer = Served[1]
      /\ \A d \in Conn : conn'[d] = IF d = Served THEN k ELSE conn[d]
  BY ServedStep
<1>3. CASE snd[s].pc \in InAttempt /\ Attempt(s) = Served
  <2>1. PICK d \in Conn : d = Attempt(s) /\ d[1] = s /\ Link(s) = conn[d] /\ conn[d].client = "open"
    BY <1>3, SenderFacts
  <2>2. Peer = s /\ k.net = Link(s).net
    BY <1>2, <1>3, <2>1
  <2>3. Link(s)' = k
    <3>1. Attempt(s)' = d
      BY <2>1 DEF Attempt
    <3> QED
      BY <1>2, <1>3, <2>1, <3>1 DEF Link
  <2>4. snd[s].kind = "direct" /\ k.net = "up" =>
           k.server = "open" \/ \E type \in {"ack", "unpack_error"} : Arrived(k.s2c, type)
    BY <1>3, <2>1, <2>2
  <2>5. AnswerOK(s)'
    BY <2>3, <2>4 DEF AnswerOK
  <2>6. TriesOK(s)'
    BY <1>1, <2>2, <2>3 DEF TriesOK, Alone
  <2> QED
    BY <1>1, <2>5, <2>6
<1>4. CASE ~(snd[s].pc \in InAttempt /\ Attempt(s) = Served)
  <2>1. ASSUME snd[s].pc \in InAttempt
        PROVE  Link(s)' = Link(s)
    <3>1. PICK d \in Conn : d = Attempt(s) /\ Link(s) = conn[d] /\ d # Served
      BY <1>4, <2>1, SenderFacts
    <3>2. Attempt(s)' = d
      BY <3>1 DEF Attempt
    <3> QED
      BY <1>2, <3>1, <3>2 DEF Link
  <2>2. AnswerOK(s)' /\ TriesOK(s)'
    BY <1>1, <2>1, AttemptsKept
  <2> QED
    BY <1>1, <2>2
<1> QED
  BY <1>3, <1>4

\* So do all its steps.
LEMMA AttemptsReceived ==
  ASSUME DirectInv, AttemptsInv,
         \/ \E k : Handled(k)
         \/ \E k, replies : TurnedAway(k, replies) \/ Concluded(k, replies)
  PROVE  AttemptsInv'
<1>1. ASSUME NEW k, Handled(k)
      PROVE  AttemptsInv'
  BY <1>1, AttemptsServed DEF Handled
<1>2. ASSUME NEW k, NEW replies, TurnedAway(k, replies)
      PROVE  AttemptsInv'
  <2>1. /\ HungUp(k, replies) /\ (snd[Peer].kind = "direct" => ~Up(conn[Served]))
    BY <1>2 DEF TurnedAway
  <2>2. /\ rcv.pc \notin {"accept", "down"} /\ conn' = [conn EXCEPT ![Served] = k]
        /\ snd' = snd /\ faults' = faults
        /\ (conn[Served].client = "open" => k.net = conn[Served].net)
    BY <2>1 DEF HungUp
  <2>3. ~(conn[Served].client = "open" /\ snd[Peer].kind = "direct" /\ k.net = "up")
    BY <2>1, <2>2 DEF Up
  <2> QED
    BY <2>2, <2>3, AttemptsServed
<1>3. ASSUME NEW k, NEW replies, Concluded(k, replies)
      PROVE  AttemptsInv'
  <2>1. HungUp(k, replies) /\ conn[Served].s2c = << >>
    BY <1>3 DEF Concluded
  <2>2. /\ rcv.pc \notin {"accept", "down"} /\ conn' = [conn EXCEPT ![Served] = k]
        /\ snd' = snd /\ faults' = faults
        /\ (conn[Served].client = "open" => k.net = conn[Served].net)
    BY <2>1 DEF HungUp
  <2>3. PICK answer \in {"ack", "unpack_error"} : replies = <<Signal(answer)>>
    BY <1>3 DEF Concluded
  <2>4. ASSUME conn[Served].client = "open", k.net = "up"
        PROVE  Arrived(k.s2c, answer)
    <3>1. k.s2c = << >> \o replies
      BY <2>1, <2>2, <2>4 DEF HungUp, Up
    <3>2. PICK f \in Frame : f = Signal(answer) /\ f.type = answer
      BY SignalIs
    <3>3. PICK q : q = <<f>>
      OBVIOUS
    <3>4. q # << >> /\ Head(q) = f /\ << >> \o q = q /\ q = replies
      <4>1. q \in Seq(Frame)
        BY <3>3
      <4> QED
        BY <2>3, <3>2, <3>3, <4>1
    <3> QED
      BY <3>1, <3>2, <3>4 DEF Arrived
  <2> QED
    BY <2>2, <2>4, AttemptsServed
<1> QED
  BY <1>1, <1>2, <1>3

\* A fault that takes connections away is one for each sender.
LEMMA AttemptsCut ==
  ASSUME DirectInv, AttemptsInv, Died \/ \E c \in Conn : \E k : CutOff(c, k)
  PROVE  AttemptsInv'
<1>1. snd' = snd /\ faults' = faults + 1
  BY DEF Died, CutOff
<1> SUFFICES ASSUME NEW s \in Sender
             PROVE  AnswerOK(s)' /\ TriesOK(s)' /\ (snd'[s].pc = "exhausted" => snd'[s].tries = MaxAttempts)
  BY DEF AttemptsInv
<1>2. AnswerOK(s) /\ TriesOK(s) /\ (snd[s].pc = "exhausted" => snd[s].tries = MaxAttempts)
  BY DEF AttemptsInv
<1>3. TriesOK(s)'
  BY <1>1, <1>2, AttemptsPaid
<1>4. CASE snd[s].pc \notin InAttempt
  BY <1>1, <1>2, <1>3, <1>4 DEF AnswerOK
<1>5. CASE snd[s].pc \in InAttempt
  <2>1. PICK d \in Conn : d = Attempt(s) /\ Link(s) = conn[d] /\ conn[d] \in Connection
                          /\ conn[d].client = "open"
    BY <1>5, SenderFacts
  <2>2. Link(s)' = conn'[d]
    <3>1. Attempt(s)' = d
      BY <1>1, <2>1 DEF Attempt
    <3> QED
      BY <3>1 DEF Link
  <2>3. conn \in [Conn -> Connection]
    BY TypeFacts DEF DirectInv
  <2>4. ASSUME conn'[d].net = "up"
        PROVE  conn'[d].s2c = Link(s).s2c /\ Link(s).net = "up"
               /\ (conn'[d].server = "closed" => Link(s).server = "closed")
    <3>1. CASE Died
      <4>1. conn'[d] = Reset(conn[d])
        BY <3>1 DEF Died
      <4>2. conn'[d].s2c = conn[d].s2c
            /\ conn'[d].net = IF conn[d].server = "open" THEN "cut" ELSE conn[d].net
        BY <2>1, <4>1, ResetIs
      <4>3. conn[d].server = "closed"
        BY <2>1, <2>4, <4>2 DEF Connection
      <4> QED
        BY <2>1, <2>4, <4>2, <4>3
    <3>2. CASE \E c \in Conn : \E k : CutOff(c, k)
      <4>0. PICK c \in Conn : \E k : CutOff(c, k)
        BY <3>2
      <4>1. PICK k : CutOff(c, k)
        BY <4>0
      <4>2. conn'[d] = (IF d = c THEN k ELSE conn[d]) /\ k.net = "cut"
        BY <2>3, <4>1 DEF CutOff
      <4> QED
        BY <2>1, <2>4, <4>2
    <3> QED
      BY <3>1, <3>2
  <2>5. AnswerOK(s)'
    BY <1>1, <1>2, <2>2, <2>4 DEF AnswerOK
  <2> QED
    BY <1>1, <1>2, <1>3, <2>5
<1> QED
  BY <1>4, <1>5

\* Every step keeps it.
LEMMA AttemptsNext == DirectInv /\ AttemptsInv /\ [Next]_vars => AttemptsInv'
<1> SUFFICES ASSUME DirectInv, AttemptsInv, [Next]_vars
             PROVE  AttemptsInv'
  OBVIOUS
<1>1. ASSUME NEW s \in Sender, NEW next, NEW k, Moved(s, next, k)
      PROVE  AttemptsInv'
  BY <1>1, AttemptsMoved
<1>2. ASSUME NEW s \in Sender, NEW c \in Conn, NEW next \in SenderState, NEW k \in Connection,
             Dialled(s, c, next, k)
      PROVE  AttemptsInv'
  BY <1>2, AttemptsDialled
<1>3. ASSUME NEW s \in Sender, Refused(s)
      PROVE  AttemptsInv'
  BY <1>3, AttemptsRefused
<1>4. CASE Quiet
  <2>1. UNCHANGED <<conn, snd, faults>>
    BY <1>4 DEF Quiet
  <2>2. \A t \in Sender : Link(t)' = Link(t)
    BY <2>1 DEF Link, Attempt
  <2> QED
    BY <2>1, <2>2 DEF AttemptsInv, AnswerOK, TriesOK, Alone
<1> QED
  BY <1>1, <1>2, <1>3, <1>4, StepKinds, AttemptsReceived, AttemptsCut

\* No attempt has been made at first.
LEMMA AttemptsInit == Init => AttemptsInv
<1> SUFFICES ASSUME Init
             PROVE  AttemptsInv
  OBVIOUS
<1>1. faults = 0 /\ \A s \in Sender : snd[s].pc = "idle" /\ snd[s].tries = 0
  BY DEF Init
<1> QED
  BY <1>1 DEF AttemptsInv, AnswerOK, TriesOK, InAttempt

\* A sender nobody else came between runs out of attempts only if each of them
\* met a fault of its own: no failure repeats itself through what it left on
\* the receiver.
THEOREM AttemptsTakeFaults == Spec => []AttemptsNeedFaults
<1>1. Init => DirectInv /\ AttemptsInv
  BY DirectInit, AttemptsInit
<1>2. DirectInv /\ AttemptsInv /\ [Next]_vars => (DirectInv /\ AttemptsInv)'
  BY DirectNext, AttemptsNext
<1>3. DirectInv /\ AttemptsInv => AttemptsNeedFaults
  <2> SUFFICES ASSUME DirectInv, AttemptsInv, NEW s \in Sender, snd[s].kind = "direct",
                      snd[s].pc = "exhausted", \A t \in Sender \ {s} : snd[t].tries = 0
               PROVE  faults >= MaxAttempts
    BY DEF AttemptsNeedFaults
  <2>1. snd[s].tries = MaxAttempts /\ snd[s].tries <= faults
    BY DEF AttemptsInv, TriesOK, Alone
  <2>2. faults \in Nat /\ MaxAttempts \in Nat
    BY TypeFacts DEF DirectInv
  <2> QED
    BY <2>1, <2>2
<1> QED
  BY <1>1, <1>2, <1>3, PTL DEF Spec
===============================================================================
