--------------------------- MODULE ResumeStoreProofs ---------------------------
(***************************************************************************)
(* The invariants of ResumeStore, for any number of sessions and           *)
(* resources, archives and chunks of any size, and a clock without bound.  *)
(*                                                                         *)
(* LoneSessionKeepsPrefix is not inductive: that a chunk lands in its      *)
(* place depends on the session's offset being the length of the file.     *)
(* Lone(r) adds that, and that the directory of a session with fresh       *)
(* metadata is still there; StoreInv adds what makes Lone(r) inductive     *)
(* when sessions come to overlap and when they cease to.                   *)
(***************************************************************************)
EXTENDS ResumeStore, TLAPS

-------------------------------------------------------------------------------

\* The store: what its operators keep, whatever the archive and the chunks.

\* The directories the store's operators produce: an absent part file reads
\* as the empty sequence.
DirOK(d) == d \in Dir /\ ("part" \notin d.files => d.part = << >>)

\* n bytes of an archive form a sequence of length n.
LEMMA BytesType ==
  ASSUME NEW from \in Nat, NEW n \in Nat
  PROVE  /\ Bytes(from, n) \in Seq(Nat)
         /\ Len(Bytes(from, n)) = n
         /\ \A i \in 1..n : Bytes(from, n)[i] = from + i
  BY DEF Bytes

\* The empty directory is well formed.
LEMMA EmptyDirOK == DirOK(EmptyDir) /\ EmptyDir.files = {} /\ EmptyDir.part = << >>
  BY DEF DirOK, EmptyDir, Dir, File

\* The empty part file agrees with every archive.
LEMMA EmptyIntact == \A r \in Resource : IsIntact(<< >>, r)
  BY StoreAssumption DEF IsIntact

\* write_metadata leaves the part file alone and records what it is given.
LEMMA WriteMetadataOK ==
  ASSUME NEW d, NEW n \in Nat, NEW now \in Nat, DirOK(d)
  PROVE  /\ DirOK(WriteMetadata(d, n, now))
         /\ WriteMetadata(d, n, now).part = d.part
         /\ WriteMetadata(d, n, now).updated = now
         /\ "meta" \in WriteMetadata(d, n, now).files
  BY DEF DirOK, Dir, File, WriteMetadata

\* Removing the part file empties it; removing the metadata leaves it alone.
LEMMA RemovePartOK ==
  ASSUME NEW d, DirOK(d)
  PROVE  /\ DirOK(RemovePart(d))
         /\ RemovePart(d).part = << >>
         /\ RemovePart(d).files = d.files \ {"part"}
<1> DEFINE empty == << >>
<1>1. empty \in Seq(Nat)
  OBVIOUS
<1> HIDE DEF empty
<1>2. RemovePart(d) = [d EXCEPT !.files = d.files \ {"part"}, !.part = empty]
  BY DEF RemovePart, empty
<1>3. RemovePart(d) \in Dir /\ RemovePart(d).part = empty
      /\ RemovePart(d).files = d.files \ {"part"}
  BY <1>1, <1>2 DEF DirOK, Dir
<1> QED
  BY <1>3 DEF DirOK, empty

\* Removing the metadata leaves the part file alone.
LEMMA RemoveMetaOK ==
  ASSUME NEW d, DirOK(d)
  PROVE  /\ DirOK(RemoveMeta(d))
         /\ RemoveMeta(d).part = d.part
         /\ RemoveMeta(d).files = d.files \ {"meta"}
  BY DEF DirOK, Dir, File, RemoveMeta

\* remove_partial leaves neither part file nor metadata.
LEMMA RemovePartialOK ==
  ASSUME NEW d, DirOK(d)
  PROVE  /\ DirOK(RemovePartial(d))
         /\ RemovePartial(d).part = << >>
         /\ RemovePartial(d).files = d.files \ {"part", "meta"}
  BY RemovePartOK, RemoveMetaOK DEF RemovePartial

\* An O_APPEND write of any bytes keeps the directory well formed.
LEMMA AppendPartOK ==
  ASSUME NEW d, NEW b \in Seq(Nat), DirOK(d)
  PROVE  /\ DirOK(AppendPart(d, b))
         /\ AppendPart(d, b).part = d.part \o b
         /\ AppendPart(d, b).files = d.files \cup {"part"}
<1> DEFINE content == d.part \o b
<1>1. content \in Seq(Nat)
  BY DEF DirOK, Dir
<1> HIDE DEF content
<1>2. AppendPart(d, b) = [d EXCEPT !.files = d.files \cup {"part"}, !.part = content]
  BY DEF AppendPart, content
<1>3. AppendPart(d, b) \in Dir /\ AppendPart(d, b).part = content
      /\ AppendPart(d, b).files = d.files \cup {"part"}
  BY <1>1, <1>2 DEF DirOK, Dir, File
<1> QED
  BY <1>3 DEF DirOK, content

\* append_chunk: the chunk is appended and its metadata is fresh.
LEMMA AppendChunkOK ==
  ASSUME NEW d, NEW b \in Seq(Nat), NEW offset \in Nat, NEW now \in Nat, DirOK(d)
  PROVE  /\ DirOK(AppendChunk(d, b, offset, now))
         /\ AppendChunk(d, b, offset, now).part = d.part \o b
         /\ AppendChunk(d, b, offset, now).updated = now
         /\ "meta" \in AppendChunk(d, b, offset, now).files
<1>1. /\ DirOK(AppendPart(d, b))
      /\ AppendPart(d, b).part = d.part \o b
  BY AppendPartOK
<1> QED
  BY <1>1, WriteMetadataOK DEF AppendChunk

\* Appending the bytes that follow an intact part file keeps it intact.
LEMMA AppendIntact ==
  ASSUME NEW r \in Resource, NEW c \in Seq(Nat), IsIntact(c, r),
         NEW n \in Nat, Len(c) + n <= Size[r],
         NEW b \in Seq(Nat), Len(b) = n, \A i \in 1..n : b[i] = Len(c) + i
  PROVE  IsIntact(c \o b, r) /\ Len(c \o b) = Len(c) + n
<1>1. Len(c \o b) = Len(c) + n /\ Len(c) \in Nat
  BY SMT
<1>2. ASSUME NEW i \in 1..Len(c \o b)
      PROVE  (c \o b)[i] = i
  <2>1. CASE i <= Len(c)
    BY <2>1 DEF IsIntact
  <2>2. CASE i > Len(c)
    <3>1. (c \o b)[i] = b[i - Len(c)]
      BY <2>2, <1>1
    <3>2. i - Len(c) \in 1..n
      BY <2>2, <1>1
    <3> QED
      BY <3>1, <3>2
  <2> QED
    BY <2>1, <2>2, <1>1
<1> QED
  BY <1>1, <1>2 DEF IsIntact

\* The same for the chunk a session appends, and for any prefix of it.
LEMMA ChunkIntact ==
  ASSUME NEW r \in Resource, NEW c \in Seq(Nat), NEW n \in Nat, NEW k \in 0..n,
         IsIntact(c, r), Len(c) + n <= Size[r]
  PROVE  /\ IsIntact(c \o Bytes(Len(c), n), r)
         /\ Len(c \o Bytes(Len(c), n)) = Len(c) + n
         /\ IsIntact(c \o SubSeq(Bytes(Len(c), n), 1, k), r)
<1>1. Len(c) \in Nat
  OBVIOUS
<1>2. /\ Bytes(Len(c), n) \in Seq(Nat)
      /\ Len(Bytes(Len(c), n)) = n
      /\ \A i \in 1..n : Bytes(Len(c), n)[i] = Len(c) + i
  BY <1>1, BytesType
<1> DEFINE b == Bytes(Len(c), n)
           p == SubSeq(b, 1, k)
<1> HIDE DEF b
<1>3. b \in Seq(Nat) /\ Len(b) = n /\ \A i \in 1..n : b[i] = Len(c) + i
  BY <1>2 DEF b
<1>4. p \in Seq(Nat) /\ Len(p) = k
  BY <1>3
<1>5. \A i \in 1..k : p[i] = b[i]
  BY <1>3
<1> HIDE DEF p
<1>6. k \in Nat /\ Len(c) + k <= Size[r] /\ \A i \in 1..k : p[i] = Len(c) + i
  BY <1>1, <1>3, <1>5, StoreAssumption
<1>7. IsIntact(c \o b, r) /\ Len(c \o b) = Len(c) + n
  BY <1>3, AppendIntact
<1>8. IsIntact(c \o p, r)
  BY <1>4, <1>6, AppendIntact
<1> QED
  BY <1>7, <1>8 DEF b, p

\* cleanup_expired leaves a directory as it is or empties it, and empties no
\* directory whose metadata is within the retention time.
LEMMA CleanupOK ==
  ASSUME NEW ds, NEW now \in Nat, \A r \in Resource : DirOK(ds[r]),
         NEW r \in Resource
  PROVE  /\ DirOK(CleanupExpired(ds, now)[r])
         /\ \/ CleanupExpired(ds, now)[r] = ds[r]
            \/ /\ CleanupExpired(ds, now)[r] = EmptyDir
               /\ "meta" \notin ds[r].files \/ ds[r].updated + Retention < now
<1>1. CleanupExpired(ds, now)[r] = IF Stale(ds[r], now) THEN EmptyDir ELSE ds[r]
  BY DEF CleanupExpired
<1> QED
  BY <1>1, EmptyDirOK DEF Stale

\* resume_state on the directory of its own resource: the part file is kept
\* whole or emptied, its length is the offset offered, and metadata exists.
LEMMA OpenDirOK ==
  ASSUME NEW d, NEW r \in Resource, NEW now \in Nat, DirOK(d)
  PROVE  /\ DirOK(OpenDir(d, r, now))
         /\ OpenDir(d, r, now).part = d.part \/ OpenDir(d, r, now).part = << >>
         /\ Len(OpenDir(d, r, now).part) = ResumeOffset(d, r)
         /\ "meta" \in OpenDir(d, r, now).files
         /\ ResumeOffset(d, r) \in Nat
         /\ ResumeOffset(d, r) <= Size[r]
         /\ KeepOrRemove(d, r) = d \/ KeepOrRemove(d, r) = RemovePartial(d)
<1>1. d.part \in Seq(Nat) /\ Len(d.part) \in Nat /\ Size[r] \in Nat
  BY StoreAssumption DEF DirOK, Dir
<1>2. CASE Resumable(d, r)
  <2>1. KeepOrRemove(d, r) = d /\ ResumeOffset(d, r) = Len(d.part)
        /\ Len(d.part) <= Size[r] /\ "meta" \in d.files
    BY <1>2 DEF KeepOrRemove, ResumeOffset, Resumable
  <2>2. CASE Len(d.part) = 0
    <3>1. OpenDir(d, r, now) = WriteMetadata(d, 0, now)
      BY <2>1, <2>2 DEF OpenDir
    <3>2. /\ DirOK(WriteMetadata(d, 0, now))
          /\ WriteMetadata(d, 0, now).part = d.part
          /\ "meta" \in WriteMetadata(d, 0, now).files
      BY WriteMetadataOK
    <3> QED
      BY <3>1, <3>2, <2>1, <2>2, <1>1
  <2>3. CASE Len(d.part) # 0
    <3>1. OpenDir(d, r, now) = d
      BY <2>1, <2>3 DEF OpenDir
    <3> QED
      BY <3>1, <2>1, <1>1
  <2> QED
    BY <2>2, <2>3
<1>3. CASE ~Resumable(d, r)
  <2> DEFINE k == KeepOrRemove(d, r)
  <2>1. ResumeOffset(d, r) = 0
    BY <1>3 DEF ResumeOffset
  <2>2. /\ k = d \/ k = RemovePartial(d)
        /\ DirOK(k)
        /\ k.part = << >>
    <3>1. CASE d.files \cap {"part", "meta"} = {}
      BY <3>1 DEF KeepOrRemove, DirOK
    <3>2. CASE d.files \cap {"part", "meta"} # {}
      BY <3>2, <1>3, RemovePartialOK DEF KeepOrRemove
    <3> QED
      BY <3>1, <3>2
  <2>3. OpenDir(d, r, now) = WriteMetadata(k, 0, now)
    BY <2>1 DEF OpenDir
  <2> HIDE DEF k
  <2>4. /\ DirOK(WriteMetadata(k, 0, now))
        /\ WriteMetadata(k, 0, now).part = << >>
        /\ "meta" \in WriteMetadata(k, 0, now).files
    BY <2>2, WriteMetadataOK
  <2>5. Len(WriteMetadata(k, 0, now).part) = 0
    BY <2>4
  <2> QED
    BY <2>1, <2>2, <2>3, <2>4, <2>5, <1>1 DEF k
<1> QED
  BY <1>2, <1>3

\* remove_dir_all interrupted: the part file is there, whole, or gone.
LEMMA LeftoverOK ==
  ASSUME NEW d, NEW keep \in SUBSET File, DirOK(d)
  PROVE  /\ DirOK(Leftover(d, keep))
         /\ Leftover(d, keep).part = d.part \/ Leftover(d, keep).part = << >>
<1> DEFINE p == IF "part" \in keep THEN d ELSE RemovePart(d)
           m == IF "meta" \in keep THEN p ELSE RemoveMeta(p)
<1>1. DirOK(p) /\ (p.part = d.part \/ p.part = << >>)
      /\ ("part" \notin keep => p.part = << >>)
  BY RemovePartOK
<1>2. DirOK(m) /\ m.part = p.part
  BY <1>1, RemoveMetaOK
<1>3. Leftover(d, keep) = [m EXCEPT !.files = d.files \cap keep]
  BY DEF Leftover
<1> HIDE DEF p, m
<1>4. /\ Leftover(d, keep) \in Dir
      /\ Leftover(d, keep).part = m.part
      /\ Leftover(d, keep).files = d.files \cap keep
  BY <1>2, <1>3 DEF DirOK, Dir
<1>5. "part" \notin d.files \cap keep => m.part = << >>
  BY <1>1, <1>2 DEF DirOK
<1> QED
  BY <1>1, <1>2, <1>4, <1>5 DEF DirOK

\* write_metadata interrupted before its rename: the part file is untouched.
LEMMA TornMetadataOK ==
  ASSUME NEW d, DirOK(d)
  PROVE  DirOK(TornMetadata(d)) /\ TornMetadata(d).part = d.part
  BY DEF DirOK, Dir, File, TornMetadata

\* remove_partial_paths interrupted: the part file is untouched or gone.
LEMMA TornRemoveOK ==
  ASSUME NEW d, DirOK(d), NEW e \in TornRemove(d)
  PROVE  DirOK(e) /\ (e.part = d.part \/ e.part = << >>)
  BY RemovePartOK, RemovePartialOK DEF TornRemove

\* resume_state interrupted in its own directory: the part file is untouched
\* or gone.
LEMMA TornOpenOK ==
  ASSUME NEW d, NEW r \in Resource, DirOK(d), NEW e \in TornOpen(d, r)
  PROVE  DirOK(e) /\ (e.part = d.part \/ e.part = << >>)
<1> DEFINE k == KeepOrRemove(d, r)
<1>1. DirOK(k) /\ (k.part = d.part \/ k.part = << >>)
  BY RemovePartialOK DEF KeepOrRemove
<1>2. e = d \/ e \in TornRemove(d) \/ e = TornMetadata(k)
  BY DEF TornOpen
<1> HIDE DEF k
<1> QED
  BY <1>1, <1>2, TornRemoveOK, TornMetadataOK

\* resume_state interrupted anywhere: no part file of any resource gains a byte.
LEMMA TornResumeStateOK ==
  ASSUME NEW ds, NEW r \in Resource, NEW now \in Nat,
         \A q \in Resource : DirOK(ds[q]),
         NEW es \in TornResumeState(ds, r, now), NEW q \in Resource
  PROVE  /\ es \in [Resource -> Dir]
         /\ DirOK(es[q])
         /\ es[q].part = ds[q].part \/ es[q].part = << >>
<1> DEFINE cleaned == CleanupExpired(ds, now)
           Good(e, p) == DirOK(e) /\ (e.part = ds[p].part \/ e.part = << >>)
<1> SUFFICES \A p \in Resource : Good(es[p], p) /\ es = [x \in Resource |-> es[x]]
  BY DEF DirOK
<1>1. CASE es \in TornCleanup(ds, now)
  <2>1. PICK keep \in [Resource -> SUBSET File] :
          es = [p \in Resource |->
                  IF Stale(ds[p], now) THEN Leftover(ds[p], keep[p]) ELSE ds[p]]
    BY <1>1 DEF TornCleanup
  <2>2. ASSUME NEW p \in Resource
        PROVE  Good(es[p], p)
    <3>1. es[p] = IF Stale(ds[p], now) THEN Leftover(ds[p], keep[p]) ELSE ds[p]
      BY <2>1
    <3>2. keep[p] \in SUBSET File
      OBVIOUS
    <3> QED
      BY <3>1, <3>2, LeftoverOK
  <2> QED
    BY <2>1, <2>2
<1>2. CASE es \in {[cleaned EXCEPT ![r] = d] : d \in TornOpen(cleaned[r], r)}
  <2>1. PICK d \in TornOpen(cleaned[r], r) : es = [cleaned EXCEPT ![r] = d]
    BY <1>2
  <2>2. cleaned = [x \in Resource |-> cleaned[x]]
    BY DEF CleanupExpired
  <2>3. \A p \in Resource : Good(cleaned[p], p)
    BY CleanupOK, EmptyDirOK
  <2> HIDE DEF cleaned
  <2>4. DirOK(d) /\ (d.part = cleaned[r].part \/ d.part = << >>)
    BY <2>3, TornOpenOK
  <2>5. Good(d, r)
    BY <2>3, <2>4
  <2>6. es = [x \in Resource |-> IF x = r THEN d ELSE cleaned[x]]
    BY <2>1, <2>2
  <2> HIDE DEF Good
  <2> QED
    BY <2>3, <2>5, <2>6
<1> QED
  BY <1>1, <1>2 DEF TornResumeState

\* Of a chunk the process died appending, a prefix may be in the part file.
LEMMA TornAppendOK ==
  ASSUME NEW d, NEW b \in Seq(Nat), DirOK(d), NEW e \in TornAppend(d, b)
  PROVE  /\ DirOK(e)
         /\ \E n \in 0..Len(b) : e.part = d.part \o SubSeq(b, 1, n)
<1>1. CASE \E n \in 0..Len(b) : e = AppendPart(d, SubSeq(b, 1, n))
  <2>1. PICK n \in 0..Len(b) : e = AppendPart(d, SubSeq(b, 1, n))
    BY <1>1
  <2>2. SubSeq(b, 1, n) \in Seq(Nat)
    OBVIOUS
  <2> QED
    BY <2>1, <2>2, AppendPartOK
<1>2. CASE e = TornMetadata(AppendPart(d, b))
  <2>1. DirOK(e) /\ e.part = d.part \o b
    BY <1>2, AppendPartOK, TornMetadataOK
  <2>2. b = SubSeq(b, 1, Len(b)) /\ Len(b) \in 0..Len(b)
    OBVIOUS
  <2> QED
    BY <2>1, <2>2
<1> QED
  BY <1>1, <1>2 DEF TornAppend

-------------------------------------------------------------------------------

\* A session that receives r alone is where its part file ends; only expiry
\* can have taken the directory away.
InStep(s, r) ==
  \/ /\ disk[r].files = {}
     /\ sess[s].touched + Retention < clock
  \/ /\ "meta" \in disk[r].files
     /\ disk[r].updated = sess[s].touched
     /\ Len(disk[r].part) = sess[s].offset

Lone(r) ==
  /\ IsIntact(disk[r].part, r)
  /\ \A s \in Session : Receiving(s, r) => InStep(s, r)

StoreInv ==
  /\ TypeOK
  /\ \A r \in Resource : DirOK(disk[r])
  /\ \A s \in Session : sess[s].offset <= Size[sess[s].res]
  /\ \A r \in Resource : Shared(r) => r \in overlap
  /\ \A r \in Resource \ overlap : Lone(r)
  /\ DeliveredIntact

-------------------------------------------------------------------------------

\* An idle session is well typed.
LEMMA IdleType == Idle \in SessionState /\ Idle.pc = "idle" /\ Idle.offset = 0
  BY SessionAssumption DEF Idle, SessionState

\* The initial states satisfy the invariant.
LEMMA InitInv == Init => StoreInv
<1> SUFFICES ASSUME Init PROVE StoreInv
  OBVIOUS
<1>1. /\ disk = [r \in Resource |-> EmptyDir]
      /\ sess = [s \in Session |-> Idle]
      /\ clock = 0 /\ delivered = {} /\ overlap = {}
  BY DEF Init
<1>2. \A r \in Resource : disk[r] = EmptyDir /\ DirOK(disk[r])
  BY <1>1, EmptyDirOK
<1>3. \A s \in Session : sess[s] = Idle
  BY <1>1
<1>4. TypeOK
  BY <1>1, <1>2, IdleType DEF TypeOK, DirOK
<1>5. \A s \in Session : sess[s].offset <= Size[sess[s].res]
  BY <1>3, IdleType, StoreAssumption DEF SessionState
<1>6. \A s \in Session, r \in Resource : ~Receiving(s, r)
  BY <1>3, IdleType DEF Receiving
<1>7. \A r \in Resource : IsIntact(disk[r].part, r)
  BY <1>2, EmptyDirOK, EmptyIntact
<1> QED
  BY <1>1, <1>2, <1>4, <1>5, <1>6, <1>7
     DEF StoreInv, Shared, Lone, DeliveredIntact

\* What a step has to establish: the history variable overlap takes care of
\* the resources that two sessions come to share or that are cleared.
LEMMA StepRule ==
  ASSUME StoreInv, WatchOverlap,
         disk' \in [Resource -> Dir],
         \A r \in Resource : DirOK(disk'[r]),
         sess' \in [Session -> SessionState],
         \A s \in Session : sess'[s].offset <= Size[sess'[s].res],
         clock' \in Nat,
         delivered' \subseteq Resource \X Seq(Nat),
         \A d \in delivered' : d[2] = Archive(d[1]),
         \A r \in Resource \ overlap : ~Shared(r)' => Lone(r)'
  PROVE  StoreInv'
<1>1. overlap' = {r \in Resource : Shared(r)' \/ (r \in overlap /\ ~Cleared(r)')}
  BY DEF WatchOverlap
<1>2. TypeOK'
  BY <1>1 DEF TypeOK
<1>3. \A r \in Resource : Shared(r)' => r \in overlap'
  BY <1>1
<1>4. ASSUME NEW r \in Resource, r \notin overlap'
      PROVE  Lone(r)'
  <2>1. ~Shared(r)' /\ (r \notin overlap \/ Cleared(r)')
    BY <1>1, <1>4
  <2>2. CASE r \notin overlap
    BY <2>1, <2>2
  <2>3. CASE Cleared(r)'
    <3>1. disk'[r].part = << >>
      BY <2>3 DEF Cleared, DirOK
    <3>2. \A s \in Session : ~Receiving(s, r)'
      BY <2>3 DEF Cleared
    <3>3. IsIntact(disk'[r].part, r)
      BY <3>1, EmptyIntact
    <3> QED
      BY <3>2, <3>3 DEF Lone
  <2> QED
    BY <2>1, <2>2, <2>3
<1> QED
  BY <1>2, <1>3, <1>4 DEF StoreInv, DeliveredIntact

\* A step of other resources' sessions leaves Lone(r) alone: the directory of
\* r is the same and whoever receives r afterwards already did.
LEMMA UntouchedLone ==
  ASSUME NEW r \in Resource, Lone(r),
         disk'[r] = disk[r],
         clock' = clock,
         \A s \in Session : Receiving(s, r)' => Receiving(s, r) /\ sess'[s] = sess[s]
  PROVE  Lone(r)'
  BY DEF Lone, InStep, Receiving

-------------------------------------------------------------------------------
(* One lemma per action. *)

\* resume_state: its own part file is kept whole or emptied to the offset it
\* offers, any other is kept or, with metadata out of date, gone.
LEMMA OpenStep ==
  ASSUME StoreInv, WatchOverlap, NEW s \in Session, NEW q \in Resource, OpenSession(s, q)
  PROVE  StoreInv'
<1> DEFINE cleaned == CleanupExpired(disk, clock)
           opened == OpenDir(cleaned[q], q, clock)
           offered == ResumeOffset(cleaned[q], q)
           session == [pc |-> "recv", res |-> q, offset |-> offered, touched |-> opened.updated]
<1>1. /\ TypeOK
      /\ \A r \in Resource : DirOK(disk[r])
      /\ \A r \in Resource \ overlap : Lone(r)
      /\ clock \in Nat
  BY DEF StoreInv, TypeOK
<1>2. \A r \in Resource :
        /\ DirOK(cleaned[r])
        /\ \/ cleaned[r] = disk[r]
           \/ /\ cleaned[r] = EmptyDir
              /\ "meta" \notin disk[r].files \/ disk[r].updated + Retention < clock
  BY <1>1, CleanupOK
<1>3. /\ DirOK(opened)
      /\ opened.part = cleaned[q].part \/ opened.part = << >>
      /\ Len(opened.part) = offered
      /\ "meta" \in opened.files
      /\ offered \in Nat /\ offered <= Size[q]
  BY <1>1, <1>2, OpenDirOK
<1>4. cleaned = [r \in Resource |-> cleaned[r]]
  BY DEF CleanupExpired
<1>5. disk' = [cleaned EXCEPT ![q] = opened]
  BY DEF OpenSession, ResumeState
<1>6. disk' = [r \in Resource |-> IF r = q THEN opened ELSE cleaned[r]]
  BY <1>4, <1>5
<1>7. sess' = [sess EXCEPT ![s] = session]
  BY <1>6 DEF OpenSession
<1>8. sess[s].pc = "idle" /\ clock' = clock /\ delivered' = delivered
  BY DEF OpenSession
<1> HIDE DEF cleaned, opened, offered
<1>9. session \in SessionState
  BY <1>3 DEF SessionState, DirOK, Dir
<1>10. \A t \in Session : sess'[t] = IF t = s THEN session ELSE sess[t]
  BY <1>7, <1>1 DEF TypeOK
<1>11. sess' \in [Session -> SessionState]
  BY <1>7, <1>9, <1>1 DEF TypeOK
<1>12. disk' \in [Resource -> Dir] /\ \A r \in Resource : DirOK(disk'[r])
  BY <1>2, <1>3, <1>6 DEF DirOK
<1>13. \A t \in Session : sess'[t].offset <= Size[sess'[t].res]
  BY <1>3, <1>10 DEF StoreInv
<1>14. ASSUME NEW r \in Resource, r \notin overlap, ~Shared(r)'
       PROVE  Lone(r)'
  <2>1. Lone(r)
    BY <1>1, <1>14
  <2>2. CASE r = q
    <3>1. IsIntact(disk'[r].part, r)
      BY <2>1, <2>2, <1>2, <1>3, <1>6, EmptyIntact, EmptyDirOK DEF Lone
    <3>2. ASSUME NEW t \in Session, Receiving(t, r)'
          PROVE  InStep(t, r)'
      <4>1. Receiving(s, r)'
        BY <2>2, <1>10 DEF Receiving
      <4>2. t = s
        BY <4>1, <3>2, <1>14 DEF Shared
      <4>3. sess'[t] = session /\ disk'[r] = opened
        BY <4>2, <2>2, <1>10, <1>6
      <4> QED
        BY <4>3, <1>3 DEF InStep
    <3> QED
      BY <3>1, <3>2 DEF Lone
  <2>3. CASE r # q
    <3>1. disk'[r] = cleaned[r]
      BY <2>3, <1>6
    <3>2. \A t \in Session : Receiving(t, r)' => Receiving(t, r) /\ sess'[t] = sess[t]
      BY <2>3, <1>10 DEF Receiving
    <3>3. CASE cleaned[r] = disk[r]
      BY <3>1, <3>2, <3>3, <2>1, <1>8, UntouchedLone
    <3>4. CASE /\ cleaned[r] = EmptyDir
               /\ "meta" \notin disk[r].files \/ disk[r].updated + Retention < clock
      <4>1. IsIntact(disk'[r].part, r) /\ disk'[r].files = {}
        BY <3>1, <3>4, EmptyDirOK, EmptyIntact
      <4>2. ASSUME NEW t \in Session, Receiving(t, r)'
            PROVE  sess'[t].touched + Retention < clock'
        <5>1. InStep(t, r) /\ sess'[t] = sess[t]
          BY <4>2, <3>2, <2>1 DEF Lone
        <5> QED
          BY <5>1, <3>4, <1>8 DEF InStep
      <4> QED
        BY <4>1, <4>2 DEF Lone, InStep
    <3> QED
      BY <3>3, <3>4, <1>2
  <2> QED
    BY <2>2, <2>3
<1> QED
  BY <1>1, <1>8, <1>11, <1>12, <1>13, <1>14, StepRule DEF StoreInv, TypeOK, DeliveredIntact

\* append_chunk: the chunk of the only session that receives q lands where
\* the part file ends, so what was intact stays intact.
LEMMA ReceiveStep ==
  ASSUME StoreInv, WatchOverlap, NEW s \in Session, NEW n \in 1..MaxChunk, ReceiveChunk(s, n)
  PROVE  StoreInv'
<1> DEFINE q == sess[s].res
           from == sess[s].offset
           offset == from + n
           bytes == Bytes(from, n)
           written == AppendChunk(disk[q], bytes, offset, clock)
           session == [sess[s] EXCEPT !.offset = offset, !.touched = clock]
<1>1. /\ sess \in [Session -> SessionState]
      /\ disk \in [Resource -> Dir]
      /\ clock \in Nat
      /\ \A r \in Resource : DirOK(disk[r])
      /\ \A r \in Resource \ overlap : Lone(r)
  BY DEF StoreInv, TypeOK
<1>2. q \in Resource /\ from \in Nat /\ n \in Nat
  BY <1>1, SessionAssumption DEF SessionState
<1>3. /\ sess[s].pc = "recv"
      /\ offset <= Size[q]
      /\ CanAppend(disk[q])
      /\ disk' = [disk EXCEPT ![q] = written]
      /\ clock' = clock /\ delivered' = delivered
  BY DEF ReceiveChunk
<1>4. sess' = [sess EXCEPT ![s] = session]
  BY <1>1 DEF ReceiveChunk
<1>5. bytes \in Seq(Nat) /\ offset \in Nat
  <2>1. offset \in Nat
    BY <1>2
  <2> HIDE DEF from
  <2> QED
    BY <2>1, <1>2, BytesType
<1>6. /\ DirOK(written)
      /\ written.part = disk[q].part \o bytes
      /\ written.updated = clock
      /\ "meta" \in written.files
  <2>1. DirOK(disk[q]) /\ clock \in Nat
    BY <1>1, <1>2
  <2> HIDE DEF q, bytes, offset
  <2> QED
    BY <2>1, <1>5, AppendChunkOK
<1>7. session \in SessionState /\ session.pc = "recv" /\ session.res = q
      /\ session.offset = offset /\ session.touched = clock
  <2>1. sess[s] \in SessionState
    BY <1>1
  <2>2. offset \in Nat /\ clock \in Nat
    BY <1>1, <1>5
  <2> HIDE DEF offset
  <2> QED
    BY <2>1, <2>2, <1>3 DEF SessionState
<1> HIDE DEF written, session
<1>8. /\ sess' \in [Session -> SessionState]
      /\ \A t \in Session : sess'[t] = IF t = s THEN session ELSE sess[t]
  BY <1>1, <1>4, <1>7
<1>9. \A r \in Resource : disk'[r] = IF r = q THEN written ELSE disk[r]
  BY <1>1, <1>3
<1>10. disk' \in [Resource -> Dir] /\ \A r \in Resource : DirOK(disk'[r])
  BY <1>1, <1>3, <1>6, <1>9 DEF DirOK
<1>11. \A t \in Session : sess'[t].offset <= Size[sess'[t].res]
  BY <1>3, <1>7, <1>8 DEF StoreInv
<1>12. ASSUME NEW r \in Resource, r \notin overlap, ~Shared(r)'
       PROVE  Lone(r)'
  <2>1. Lone(r)
    BY <1>1, <1>12
  <2>2. CASE r = q
    <3>1. InStep(s, r)
      BY <2>1, <2>2, <1>3 DEF Lone, Receiving
    <3>2. Len(disk[r].part) = from
      BY <3>1, <2>2, <1>3 DEF InStep, CanAppend
    <3>3. disk[r].part \in Seq(Nat) /\ IsIntact(disk[r].part, r)
      BY <2>1, <1>1 DEF Lone, DirOK, Dir
    <3>4. IsIntact(disk[r].part \o bytes, r) /\ Len(disk[r].part \o bytes) = offset
      <4>1. n \in 0..n /\ Len(disk[r].part) + n <= Size[r]
        BY <3>2, <2>2, <1>2, <1>3
      <4> QED
        BY <4>1, <3>2, <3>3, <1>2, ChunkIntact
    <3>5. ASSUME NEW t \in Session, Receiving(t, r)'
          PROVE  InStep(t, r)'
      <4>1. Receiving(s, r)'
        BY <2>2, <1>7, <1>8 DEF Receiving
      <4>2. t = s
        BY <4>1, <3>5, <1>12 DEF Shared
      <4> QED
        BY <4>2, <2>2, <3>4, <1>6, <1>7, <1>8, <1>9 DEF InStep
    <3> QED
      BY <3>4, <3>5, <2>2, <1>6, <1>9 DEF Lone
  <2>3. CASE r # q
    <3>1. \A t \in Session : Receiving(t, r)' => Receiving(t, r) /\ sess'[t] = sess[t]
      BY <2>3, <1>7, <1>8 DEF Receiving
    <3> QED
      BY <3>1, <2>1, <2>3, <1>3, <1>9, UntouchedLone
  <2> QED
    BY <2>2, <2>3
<1> QED
  BY <1>1, <1>3, <1>8, <1>10, <1>11, <1>12, StepRule DEF StoreInv, TypeOK, DeliveredIntact

\* complete_partial and remove_partial: the session is the last to receive a
\* resource that is not shared, and an archive it delivers passed the checks.
LEMMA RemoveStep ==
  ASSUME StoreInv, WatchOverlap, NEW s \in Session, sess[s].pc = "recv",
         RemoveOwn(s), clock' = clock,
         NEW after \in SessionState, after.pc # "recv", after.offset = 0,
         sess' = [sess EXCEPT ![s] = after],
         delivered' \subseteq Resource \X Seq(Nat),
         \A d \in delivered' : d[2] = Archive(d[1])
  PROVE  StoreInv'
<1> DEFINE q == sess[s].res
           removed == RemovePartial(disk[q])
<1>1. /\ sess \in [Session -> SessionState]
      /\ disk \in [Resource -> Dir]
      /\ clock \in Nat
      /\ \A r \in Resource : DirOK(disk[r])
      /\ \A r \in Resource \ overlap : Lone(r)
  BY DEF StoreInv, TypeOK
<1>2. q \in Resource
  BY <1>1 DEF SessionState
<1>3. DirOK(removed) /\ removed.part = << >>
  BY <1>1, <1>2, RemovePartialOK
<1>4. disk' = [disk EXCEPT ![q] = removed]
  BY DEF RemoveOwn
<1> HIDE DEF removed
<1>5. \A r \in Resource : disk'[r] = IF r = q THEN removed ELSE disk[r]
  BY <1>1, <1>4
<1>6. disk' \in [Resource -> Dir] /\ \A r \in Resource : DirOK(disk'[r])
  BY <1>1, <1>3, <1>4, <1>5 DEF DirOK
<1>7. /\ sess' \in [Session -> SessionState]
      /\ \A t \in Session : sess'[t] = IF t = s THEN after ELSE sess[t]
  BY <1>1
<1>8. \A t \in Session : sess'[t].offset <= Size[sess'[t].res]
  BY <1>7, StoreAssumption DEF StoreInv, SessionState
<1>9. \A t \in Session, r \in Resource :
        Receiving(t, r)' => t # s /\ Receiving(t, r) /\ sess'[t] = sess[t]
  BY <1>7 DEF Receiving
<1>10. ASSUME NEW r \in Resource, r \notin overlap, ~Shared(r)'
       PROVE  Lone(r)'
  <2>1. CASE r = q
    <3>1. Receiving(s, r) /\ ~Shared(r)
      BY <2>1, <1>10 DEF Receiving, StoreInv
    <3>2. \A t \in Session : ~Receiving(t, r)'
      BY <3>1, <1>9 DEF Shared
    <3>3. IsIntact(disk'[r].part, r)
      BY <2>1, <1>3, <1>5, EmptyIntact
    <3> QED
      BY <3>2, <3>3 DEF Lone
  <2>2. CASE r # q
    BY <2>2, <1>1, <1>5, <1>9, <1>10, UntouchedLone
  <2> QED
    BY <2>1, <2>2
<1> QED
  BY <1>1, <1>6, <1>7, <1>8, <1>10, StepRule

\* What complete_partial lets through is the archive.
LEMMA WholeArchive ==
  ASSUME StoreInv, NEW s \in Session, AtDone(s, "whole")
  PROVE  /\ sess[s].res \in Resource
         /\ disk[sess[s].res].part = Archive(sess[s].res)
         /\ disk[sess[s].res].part \in Seq(Nat)
<1>1. sess[s].res \in Resource /\ DirOK(disk[sess[s].res])
  BY DEF StoreInv, TypeOK, SessionState
<1>2. CompletePartial(disk[sess[s].res], sess[s].res) = "whole"
  BY DEF AtDone
<1>3. disk[sess[s].res].part = Archive(sess[s].res)
  BY <1>2 DEF CompletePartial
<1> QED
  BY <1>1, <1>3 DEF DirOK, Dir

\* Delivery of a verified archive.
LEMMA DeliverStep ==
  ASSUME StoreInv, WatchOverlap, NEW s \in Session, Deliver(s)
  PROVE  StoreInv'
<1> DEFINE after == [Idle EXCEPT !.pc = "done"]
           entry == <<sess[s].res, disk[sess[s].res].part>>
<1>1. after \in SessionState /\ after.pc # "recv" /\ after.offset = 0
  BY IdleType DEF SessionState
<1>2. /\ AtDone(s, "whole")
      /\ delivered' = delivered \cup {entry}
      /\ RemoveOwn(s)
      /\ sess' = [sess EXCEPT ![s] = after]
      /\ clock' = clock
  BY DEF Deliver
<1>3. sess[s].pc = "recv"
  BY <1>2 DEF AtDone
<1>4. entry \in Resource \X Seq(Nat) /\ entry[2] = Archive(entry[1])
  BY <1>2, WholeArchive
<1> HIDE DEF after, entry
<1>5. /\ delivered' \subseteq Resource \X Seq(Nat)
      /\ \A d \in delivered' : d[2] = Archive(d[1])
  BY <1>2, <1>4 DEF StoreInv, TypeOK, DeliveredIntact
<1> QED
  BY <1>1, <1>2, <1>3, <1>5, RemoveStep

\* An archive that fails the checks, or does not unpack.
LEMMA RejectStep ==
  ASSUME StoreInv, WatchOverlap, NEW s \in Session, RejectArchive(s)
  PROVE  StoreInv'
<1>1. sess[s].pc = "recv" /\ RemoveOwn(s) /\ clock' = clock /\ delivered' = delivered
      /\ sess' = [sess EXCEPT ![s] = Idle]
  BY DEF RejectArchive, AtDone, Close
<1>2. Idle.pc # "recv"
  BY IdleType
<1> QED
  BY <1>1, <1>2, IdleType, RemoveStep DEF StoreInv, TypeOK, DeliveredIntact

\* A session that ends without touching its directory.
LEMMA FailStep ==
  ASSUME StoreInv, WatchOverlap, NEW s \in Session, FailSession(s)
  PROVE  StoreInv'
<1>1. /\ disk' = disk /\ clock' = clock /\ delivered' = delivered
      /\ sess' = [sess EXCEPT ![s] = Idle]
  BY DEF FailSession, Close
<1>2. sess \in [Session -> SessionState]
  BY DEF StoreInv, TypeOK
<1>3. /\ sess' \in [Session -> SessionState]
      /\ \A t \in Session : sess'[t] = IF t = s THEN Idle ELSE sess[t]
  BY <1>1, <1>2, IdleType
<1>4. \A t \in Session : sess'[t].offset <= Size[sess'[t].res]
  BY <1>3, IdleType, StoreAssumption DEF StoreInv, SessionState
<1>5. \A t \in Session, r \in Resource :
        Receiving(t, r)' => Receiving(t, r) /\ sess'[t] = sess[t]
  BY <1>3, IdleType DEF Receiving
<1>6. \A r \in Resource \ overlap : Lone(r)'
  BY <1>1, <1>5, UntouchedLone DEF StoreInv
<1> QED
  BY <1>1, <1>3, <1>4, <1>6, StepRule DEF StoreInv, TypeOK, DeliveredIntact

\* A step after which no session is left: only the bytes on disk matter.
LEMMA CloseAllStep ==
  ASSUME StoreInv, WatchOverlap, CloseAll, clock' = clock,
         disk' \in [Resource -> Dir],
         \A r \in Resource : DirOK(disk'[r]),
         \A r \in Resource \ overlap : IsIntact(disk'[r].part, r),
         delivered' \subseteq Resource \X Seq(Nat),
         \A d \in delivered' : d[2] = Archive(d[1])
  PROVE  StoreInv'
<1>1. sess' \in [Session -> SessionState] /\ \A t \in Session : sess'[t] = Idle
  BY IdleType DEF CloseAll
<1>2. \A t \in Session : sess'[t].offset <= Size[sess'[t].res]
  BY <1>1, IdleType, StoreAssumption DEF SessionState
<1>3. \A t \in Session, r \in Resource : ~Receiving(t, r)'
  BY <1>1, IdleType DEF Receiving
<1>4. \A r \in Resource \ overlap : Lone(r)'
  BY <1>3 DEF Lone
<1>5. clock' \in Nat
  BY DEF StoreInv, TypeOK
<1> QED
  BY <1>1, <1>2, <1>4, <1>5, StepRule

\* The process dies between two calls, or a path returns its transfer.
LEMMA StopStep ==
  ASSUME StoreInv, WatchOverlap, CloseAll,
         disk' = disk, clock' = clock, delivered' = delivered
  PROVE  StoreInv'
<1>1. \A r \in Resource \ overlap : IsIntact(disk'[r].part, r)
  BY DEF StoreInv, Lone
<1> QED
  BY <1>1, CloseAllStep DEF StoreInv, TypeOK, DeliveredIntact

\* The process dies inside resume_state.
LEMMA CrashInResumeStateStep ==
  ASSUME StoreInv, WatchOverlap, NEW s \in Session, NEW q \in Resource,
         CrashInResumeState(s, q)
  PROVE  StoreInv'
<1>1. /\ CloseAll /\ clock' = clock /\ delivered' = delivered
      /\ disk' \in TornResumeState(disk, q, clock)
  BY DEF CrashInResumeState
<1>2. \A r \in Resource :
        /\ disk' \in [Resource -> Dir]
        /\ DirOK(disk'[r])
        /\ disk'[r].part = disk[r].part \/ disk'[r].part = << >>
  BY <1>1, TornResumeStateOK DEF StoreInv, TypeOK
<1>3. \A r \in Resource \ overlap : IsIntact(disk'[r].part, r)
  BY <1>2, EmptyIntact DEF StoreInv, Lone
<1>4. disk' \in [Resource -> Dir]
  BY <1>2
<1> QED
  BY <1>1, <1>2, <1>3, <1>4, CloseAllStep DEF StoreInv, TypeOK, DeliveredIntact

\* The process dies inside append_chunk: what is on disk of the chunk is a
\* prefix of it, in its place.
LEMMA CrashInAppendStep ==
  ASSUME StoreInv, WatchOverlap, NEW s \in Session, NEW n \in 1..MaxChunk,
         CrashInAppend(s, n)
  PROVE  StoreInv'
<1> DEFINE q == sess[s].res
           from == sess[s].offset
           bytes == Bytes(from, n)
<1>1. /\ sess \in [Session -> SessionState]
      /\ disk \in [Resource -> Dir]
      /\ \A r \in Resource : DirOK(disk[r])
      /\ \A r \in Resource \ overlap : Lone(r)
  BY DEF StoreInv, TypeOK
<1>2. q \in Resource /\ from \in Nat /\ n \in Nat
  BY <1>1, SessionAssumption DEF SessionState
<1>3. bytes \in Seq(Nat) /\ Len(bytes) = n /\ \A i \in 1..n : bytes[i] = from + i
  BY <1>2, BytesType
<1>4. /\ sess[s].pc = "recv" /\ from + n <= Size[q] /\ CanAppend(disk[q])
      /\ CloseAll /\ clock' = clock /\ delivered' = delivered
  BY DEF CrashInAppend
<1>5. PICK torn \in TornAppend(disk[q], bytes) : disk' = [disk EXCEPT ![q] = torn]
  BY DEF CrashInAppend
<1> HIDE DEF bytes
<1>6. DirOK(torn) /\ \E k \in 0..Len(bytes) : torn.part = disk[q].part \o SubSeq(bytes, 1, k)
  BY <1>1, <1>2, <1>3, TornAppendOK
<1>7. \A r \in Resource : disk'[r] = IF r = q THEN torn ELSE disk[r]
  BY <1>1, <1>5
<1>8. disk' \in [Resource -> Dir] /\ \A r \in Resource : DirOK(disk'[r])
  BY <1>1, <1>5, <1>6, <1>7 DEF DirOK
<1>9. ASSUME q \notin overlap PROVE IsIntact(torn.part, q)
  <2>1. PICK k \in 0..n : torn.part = disk[q].part \o SubSeq(bytes, 1, k)
    BY <1>3, <1>6
  <2>2. Lone(q) /\ Receiving(s, q)
    BY <1>1, <1>2, <1>4, <1>9 DEF Receiving
  <2>3. InStep(s, q)
    BY <2>2 DEF Lone
  <2>4. Len(disk[q].part) = from /\ IsIntact(disk[q].part, q)
    BY <2>2, <2>3, <1>4 DEF Lone, InStep, CanAppend
  <2>5. disk[q].part \in Seq(Nat)
    BY <1>1, <1>2 DEF DirOK, Dir
  <2>6. Len(disk[q].part) + n <= Size[q]
    BY <2>4, <1>4
  <2>7. bytes = Bytes(Len(disk[q].part), n)
    BY <2>4 DEF bytes
  <2> HIDE DEF q, from
  <2> QED
    BY <2>1, <2>4, <2>5, <2>6, <2>7, <1>2, ChunkIntact
<1>10. \A r \in Resource \ overlap : IsIntact(disk'[r].part, r)
  BY <1>1, <1>7, <1>9 DEF Lone
<1> QED
  BY <1>4, <1>8, <1>10, CloseAllStep DEF StoreInv, TypeOK, DeliveredIntact

\* The process dies while it verifies, unpacks or removes a partial.
LEMMA CrashInCompleteStep ==
  ASSUME StoreInv, WatchOverlap, NEW s \in Session, CrashInComplete(s)
  PROVE  StoreInv'
<1> DEFINE q == sess[s].res
           entry == <<q, disk[q].part>>
<1>1. /\ disk \in [Resource -> Dir]
      /\ \A r \in Resource : DirOK(disk[r])
      /\ \A r \in Resource \ overlap : Lone(r)
      /\ q \in Resource
  BY DEF StoreInv, TypeOK, SessionState
<1>2. /\ CloseAll /\ clock' = clock
      /\ delivered' = delivered \/ (AtDone(s, "whole") /\ delivered' = delivered \cup {entry})
  BY DEF CrashInComplete
<1>3. PICK torn \in TornRemove(disk[q]) : disk' = [disk EXCEPT ![q] = torn]
  BY DEF CrashInComplete
<1>4. DirOK(torn) /\ (torn.part = disk[q].part \/ torn.part = << >>)
  BY <1>1, TornRemoveOK
<1>5. \A r \in Resource : disk'[r] = IF r = q THEN torn ELSE disk[r]
  BY <1>1, <1>3
<1>6. disk' \in [Resource -> Dir] /\ \A r \in Resource : DirOK(disk'[r])
  BY <1>1, <1>3, <1>4, <1>5 DEF DirOK
<1>7. \A r \in Resource \ overlap : IsIntact(disk'[r].part, r)
  BY <1>1, <1>4, <1>5, EmptyIntact DEF Lone
<1>8. AtDone(s, "whole") => entry \in Resource \X Seq(Nat) /\ entry[2] = Archive(entry[1])
  BY WholeArchive
<1> HIDE DEF entry
<1>9. /\ delivered' \subseteq Resource \X Seq(Nat)
      /\ \A d \in delivered' : d[2] = Archive(d[1])
  BY <1>2, <1>8 DEF StoreInv, TypeOK, DeliveredIntact
<1> QED
  BY <1>2, <1>6, <1>7, <1>9, CloseAllStep

\* Time passes: metadata that was out of date stays so.
LEMMA TickStep ==
  ASSUME StoreInv, WatchOverlap, Tick
  PROVE  StoreInv'
<1>1. disk' = disk /\ sess' = sess /\ delivered' = delivered /\ clock' = clock + 1
  BY DEF Tick
<1>2. TypeOK
  BY DEF StoreInv
<1>3. \A s \in Session : sess[s].touched + Retention \in Nat
  BY <1>2, StoreAssumption DEF TypeOK, SessionState
<1>4. \A r \in Resource \ overlap : Lone(r)'
  BY <1>1, <1>2, <1>3 DEF StoreInv, TypeOK, Lone, InStep, Receiving
<1> QED
  BY <1>1, <1>2, <1>4, StepRule DEF StoreInv, TypeOK, DeliveredIntact

-------------------------------------------------------------------------------

\* Every step of the specification preserves the invariant.
LEMMA NextInv == StoreInv /\ [Next]_vars => StoreInv'
<1> SUFFICES ASSUME StoreInv, [Next]_vars PROVE StoreInv'
  OBVIOUS
<1>1. CASE Next
  <2>1. WatchOverlap
    BY <1>1 DEF Next
  <2>2. ASSUME NEW s \in Session, SessionStep(s) PROVE StoreInv'
    <3>1. ReturnTransfer(s) => StoreInv'
      BY <2>1, StopStep DEF ReturnTransfer
    <3> QED
      BY <2>1, <2>2, <3>1, OpenStep, ReceiveStep, DeliverStep, RejectStep, FailStep
         DEF SessionStep
  <2>3. ASSUME CrashStep PROVE StoreInv'
    <3>1. Crash => StoreInv'
      BY <2>1, StopStep DEF Crash
    <3> QED
      BY <2>1, <2>3, <3>1, CrashInResumeStateStep, CrashInAppendStep, CrashInCompleteStep
         DEF CrashStep
  <2> QED
    BY <1>1, <2>1, <2>2, <2>3, TickStep DEF Next
<1>2. CASE UNCHANGED vars
  BY <1>2 DEF vars, StoreInv, TypeOK, Shared, Lone, InStep, Receiving, DeliveredIntact
<1> QED
  BY <1>1, <1>2

\* The strengthened invariant holds in every reachable state.
THEOREM StoreInvariant == Spec => []StoreInv
<1>1. Init => StoreInv
  BY InitInv
<1>2. StoreInv /\ [Next]_vars => StoreInv'
  BY NextInv
<1> QED
  BY <1>1, <1>2, PTL DEF Spec

\* The variables keep their types: no offset, length or age goes negative and
\* no session is left in a state the code does not have.
THEOREM TypeCorrect == Spec => []TypeOK
<1>1. StoreInv => TypeOK
  BY DEF StoreInv
<1> QED
  BY <1>1, StoreInvariant, PTL

\* Nothing but a whole archive is ever handed to unpack_archive_from_reader,
\* for any number of concurrent sessions, crashes and expiries.
THEOREM OnlyWholeArchives == Spec => []DeliveredIntact
<1>1. StoreInv => DeliveredIntact
  BY DEF StoreInv
<1> QED
  BY <1>1, StoreInvariant, PTL

\* The part file of a resource that two sessions did not receive at once is a
\* prefix of the archive, wherever append_chunk or resume_state was cut short.
THEOREM PrefixKept == Spec => []LoneSessionKeepsPrefix
<1>1. StoreInv => LoneSessionKeepsPrefix
  BY DEF StoreInv, Lone, LoneSessionKeepsPrefix
<1> QED
  BY <1>1, StoreInvariant, PTL

\* A lone session with fresh metadata finds its part file as it left it.
THEOREM FreshPartialKept == Spec => []FreshSessionKeepsPartial
<1>1. ASSUME StoreInv, NEW s \in Session, NEW r \in Resource \ overlap,
             Receiving(s, r), clock <= sess[s].touched + Retention
      PROVE  CanAppend(disk[r]) /\ Len(disk[r].part) = sess[s].offset
  <2>1. InStep(s, r)
    BY <1>1 DEF StoreInv, Lone
  <2>2. clock \in Nat /\ sess[s].touched + Retention \in Nat
    BY <1>1, StoreAssumption DEF StoreInv, TypeOK, SessionState
  <2> QED
    BY <2>1, <2>2, <1>1 DEF InStep, CanAppend
<1>2. StoreInv => FreshSessionKeepsPartial
  BY <1>1 DEF FreshSessionKeepsPartial
<1> QED
  BY <1>2, StoreInvariant, PTL

===============================================================================
