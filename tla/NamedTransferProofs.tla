------------------------- MODULE NamedTransferProofs -------------------------
(***************************************************************************)
(* Proofs about NamedTransfer, for any number of senders, attempts and     *)
(* faults and archives of any size.  On any number of routes:              *)
(*  - the receive loop is never stopped by an error as long as no two      *)
(*    sessions shared an archive (NamedInv);                               *)
(*  - a send that failed had a fault or another transfer to blame          *)
(*    (CleanInv).                                                          *)
(* On a single route:                                                      *)
(*  - every copy after a sender's first has a fault or another transfer    *)
(*    for a cause (CopiesInv);                                             *)
(*  - as long as no two sessions shared an archive, the transfer           *)
(*    implements Delivery (AckInv).                                        *)
(*                                                                         *)
(* NamedInv, on which the others rest, says of every route how far its     *)
(* request or response and its session have come with respect to each      *)
(* other (PeerOK), and of every archive that no two sessions share that    *)
(* its partial is in order and as long as its session believes (LoneOK).   *)
(***************************************************************************)
EXTENDS NamedTransfer, FiniteSetTheorems, TLAPS

-------------------------------------------------------------------------------

\* The store: what its operators keep, whatever the archive and the chunks.

\* The directories the store's operators produce: an absent part file reads
\* as the empty sequence.
DirOK(d) == d \in Dir /\ ("part" \notin d.files => d.part = << >>)

\* n bytes of an archive form a sequence of length n.
LEMMA BytesType ==
  ASSUME NEW from \in Nat, NEW n \in Nat
  PROVE  /\ Bytes(from, n) \in Seq(Nat)
         /\ Len(Bytes(from, n)) = n
         /\ \A i \in 1..n : Bytes(from, n)[i] = from + i
  BY DEF Bytes

\* The empty directory is well formed.
LEMMA EmptyDirOK == DirOK(EmptyDir) /\ EmptyDir.files = {} /\ EmptyDir.part = << >>
  BY DEF DirOK, EmptyDir, Dir, File

\* The empty part file agrees with every archive.
LEMMA EmptyIntact == \A r \in Resource : IsIntact(<< >>, r)
  BY StoreAssumption DEF IsIntact

\* write_metadata leaves the part file alone and records what it is given.
LEMMA WriteMetadataOK ==
  ASSUME NEW d, NEW n \in Nat, NEW now \in Nat, DirOK(d)
  PROVE  /\ DirOK(WriteMetadata(d, n, now))
         /\ WriteMetadata(d, n, now).part = d.part
         /\ WriteMetadata(d, n, now).updated = now
         /\ "meta" \in WriteMetadata(d, n, now).files
  BY DEF DirOK, Dir, File, WriteMetadata

\* Removing the part file empties it; removing the metadata leaves it alone.
LEMMA RemovePartOK ==
  ASSUME NEW d, DirOK(d)
  PROVE  /\ DirOK(RemovePart(d))
         /\ RemovePart(d).part = << >>
         /\ RemovePart(d).files = d.files \ {"part"}
<1> DEFINE empty == << >>
<1>1. empty \in Seq(Nat)
  OBVIOUS
<1> HIDE DEF empty
<1>2. RemovePart(d) = [d EXCEPT !.files = d.files \ {"part"}, !.part = empty]
  BY DEF RemovePart, empty
<1>3. RemovePart(d) \in Dir /\ RemovePart(d).part = empty
      /\ RemovePart(d).files = d.files \ {"part"}
  BY <1>1, <1>2 DEF DirOK, Dir
<1> QED
  BY <1>3 DEF DirOK, empty

\* Removing the metadata leaves the part file alone.
LEMMA RemoveMetaOK ==
  ASSUME NEW d, DirOK(d)
  PROVE  /\ DirOK(RemoveMeta(d))
         /\ RemoveMeta(d).part = d.part
         /\ RemoveMeta(d).files = d.files \ {"meta"}
  BY DEF DirOK, Dir, File, RemoveMeta

\* remove_partial leaves neither part file nor metadata.
LEMMA RemovePartialOK ==
  ASSUME NEW d, DirOK(d)
  PROVE  /\ DirOK(RemovePartial(d))
         /\ RemovePartial(d).part = << >>
         /\ RemovePartial(d).files = d.files \ {"part", "meta"}
  BY RemovePartOK, RemoveMetaOK DEF RemovePartial

\* An O_APPEND write of any bytes keeps the directory well formed.
LEMMA AppendPartOK ==
  ASSUME NEW d, NEW b \in Seq(Nat), DirOK(d)
  PROVE  /\ DirOK(AppendPart(d, b))
         /\ AppendPart(d, b).part = d.part \o b
         /\ AppendPart(d, b).files = d.files \cup {"part"}
<1> DEFINE content == d.part \o b
<1>1. content \in Seq(Nat)
  BY DEF DirOK, Dir
<1> HIDE DEF content
<1>2. AppendPart(d, b) = [d EXCEPT !.files = d.files \cup {"part"}, !.part = content]
  BY DEF AppendPart, content
<1>3. AppendPart(d, b) \in Dir /\ AppendPart(d, b).part = content
      /\ AppendPart(d, b).files = d.files \cup {"part"}
  BY <1>1, <1>2 DEF DirOK, Dir, File
<1> QED
  BY <1>3 DEF DirOK, content

\* append_chunk: the chunk is appended and its metadata is fresh.
LEMMA AppendChunkOK ==
  ASSUME NEW d, NEW b \in Seq(Nat), NEW offset \in Nat, NEW now \in Nat, DirOK(d)
  PROVE  /\ DirOK(AppendChunk(d, b, offset, now))
         /\ AppendChunk(d, b, offset, now).part = d.part \o b
         /\ AppendChunk(d, b, offset, now).updated = now
         /\ "meta" \in AppendChunk(d, b, offset, now).files
<1>1. /\ DirOK(AppendPart(d, b))
      /\ AppendPart(d, b).part = d.part \o b
  BY AppendPartOK
<1> QED
  BY <1>1, WriteMetadataOK DEF AppendChunk

\* Appending the bytes that follow an intact part file keeps it intact.
LEMMA AppendIntact ==
  ASSUME NEW r \in Resource, NEW c \in Seq(Nat), IsIntact(c, r),
         NEW n \in Nat, Len(c) + n <= Size[r],
         NEW b \in Seq(Nat), Len(b) = n, \A i \in 1..n : b[i] = Len(c) + i
  PROVE  IsIntact(c \o b, r) /\ Len(c \o b) = Len(c) + n
<1>1. Len(c \o b) = Len(c) + n /\ Len(c) \in Nat
  BY SMT
<1>2. ASSUME NEW i \in 1..Len(c \o b)
      PROVE  (c \o b)[i] = i
  <2>1. CASE i <= Len(c)
    BY <2>1 DEF IsIntact
  <2>2. CASE i > Len(c)
    <3>1. (c \o b)[i] = b[i - Len(c)]
      BY <2>2, <1>1
    <3>2. i - Len(c) \in 1..n
      BY <2>2, <1>1
    <3> QED
      BY <3>1, <3>2
  <2> QED
    BY <2>1, <2>2, <1>1
<1> QED
  BY <1>1, <1>2 DEF IsIntact

\* The same for the chunk a session appends, and for any prefix of it.
LEMMA ChunkIntact ==
  ASSUME NEW r \in Resource, NEW c \in Seq(Nat), NEW n \in Nat, NEW k \in 0..n,
         IsIntact(c, r), Len(c) + n <= Size[r]
  PROVE  /\ IsIntact(c \o Bytes(Len(c), n), r)
         /\ Len(c \o Bytes(Len(c), n)) = Len(c) + n
         /\ IsIntact(c \o SubSeq(Bytes(Len(c), n), 1, k), r)
<1>1. Len(c) \in Nat
  OBVIOUS
<1>2. /\ Bytes(Len(c), n) \in Seq(Nat)
      /\ Len(Bytes(Len(c), n)) = n
      /\ \A i \in 1..n : Bytes(Len(c), n)[i] = Len(c) + i
  BY <1>1, BytesType
<1> DEFINE b == Bytes(Len(c), n)
           p == SubSeq(b, 1, k)
<1> HIDE DEF b
<1>3. b \in Seq(Nat) /\ Len(b) = n /\ \A i \in 1..n : b[i] = Len(c) + i
  BY <1>2 DEF b
<1>4. p \in Seq(Nat) /\ Len(p) = k
  BY <1>3
<1>5. \A i \in 1..k : p[i] = b[i]
  BY <1>3
<1> HIDE DEF p
<1>6. k \in Nat /\ Len(c) + k <= Size[r] /\ \A i \in 1..k : p[i] = Len(c) + i
  BY <1>1, <1>3, <1>5, StoreAssumption
<1>7. IsIntact(c \o b, r) /\ Len(c \o b) = Len(c) + n
  BY <1>3, AppendIntact
<1>8. IsIntact(c \o p, r)
  BY <1>4, <1>6, AppendIntact
<1> QED
  BY <1>7, <1>8 DEF b, p

\* resume_state on the directory of its own resource: the part file is kept
\* whole or emptied, its length is the offset offered, and metadata exists.
LEMMA OpenDirOK ==
  ASSUME NEW d, NEW r \in Resource, NEW now \in Nat, DirOK(d)
  PROVE  /\ DirOK(OpenDir(d, r, now))
         /\ OpenDir(d, r, now).part = d.part \/ OpenDir(d, r, now).part = << >>
         /\ Len(OpenDir(d, r, now).part) = ResumeOffset(d, r)
         /\ "meta" \in OpenDir(d, r, now).files
         /\ ResumeOffset(d, r) \in Nat
         /\ ResumeOffset(d, r) <= Size[r]
         /\ KeepOrRemove(d, r) = d \/ KeepOrRemove(d, r) = RemovePartial(d)
<1>1. d.part \in Seq(Nat) /\ Len(d.part) \in Nat /\ Size[r] \in Nat
  BY StoreAssumption DEF DirOK, Dir
<1>2. CASE Resumable(d, r)
  <2>1. KeepOrRemove(d, r) = d /\ ResumeOffset(d, r) = Len(d.part)
        /\ Len(d.part) <= Size[r] /\ "meta" \in d.files
    BY <1>2 DEF KeepOrRemove, ResumeOffset, Resumable
  <2>2. CASE Len(d.part) = 0
    <3>1. OpenDir(d, r, now) = WriteMetadata(d, 0, now)
      BY <2>1, <2>2 DEF OpenDir
    <3>2. /\ DirOK(WriteMetadata(d, 0, now))
          /\ WriteMetadata(d, 0, now).part = d.part
          /\ "meta" \in WriteMetadata(d, 0, now).files
      BY WriteMetadataOK
    <3> QED
      BY <3>1, <3>2, <2>1, <2>2, <1>1
  <2>3. CASE Len(d.part) # 0
    <3>1. OpenDir(d, r, now) = d
      BY <2>1, <2>3 DEF OpenDir
    <3> QED
      BY <3>1, <2>1, <1>1
  <2> QED
    BY <2>2, <2>3
<1>3. CASE ~Resumable(d, r)
  <2> DEFINE k == KeepOrRemove(d, r)
  <2>1. ResumeOffset(d, r) = 0
    BY <1>3 DEF ResumeOffset
  <2>2. /\ k = d \/ k = RemovePartial(d)
        /\ DirOK(k)
        /\ k.part = << >>
    <3>1. CASE d.files \cap {"part", "meta"} = {}
      BY <3>1 DEF KeepOrRemove, DirOK
    <3>2. CASE d.files \cap {"part", "meta"} # {}
      BY <3>2, <1>3, RemovePartialOK DEF KeepOrRemove
    <3> QED
      BY <3>1, <3>2
  <2>3. OpenDir(d, r, now) = WriteMetadata(k, 0, now)
    BY <2>1 DEF OpenDir
  <2> HIDE DEF k
  <2>4. /\ DirOK(WriteMetadata(k, 0, now))
        /\ WriteMetadata(k, 0, now).part = << >>
        /\ "meta" \in WriteMetadata(k, 0, now).files
    BY <2>2, WriteMetadataOK
  <2>5. Len(WriteMetadata(k, 0, now).part) = 0
    BY <2>4
  <2> QED
    BY <2>1, <2>2, <2>3, <2>4, <2>5, <1>1 DEF k
<1> QED
  BY <1>2, <1>3

\* append_chunk records the offset it is given.
LEMMA AppendChunkKept ==
  ASSUME NEW d, NEW b \in Seq(Nat), NEW offset \in Nat, NEW now \in Nat, DirOK(d)
  PROVE  /\ "part" \in AppendChunk(d, b, offset, now).files
         /\ "meta" \in AppendChunk(d, b, offset, now).files
         /\ AppendChunk(d, b, offset, now).received = offset
<1>1. PICK e : e = AppendPart(d, b)
  OBVIOUS
<1>2. DirOK(e) /\ "part" \in e.files
  BY <1>1, AppendPartOK
<1>3. PICK w : w = WriteMetadata(e, offset, now)
  OBVIOUS
<1>4. "part" \in w.files /\ "meta" \in w.files /\ w.received = offset
  BY <1>2, <1>3 DEF WriteMetadata, DirOK, Dir, File
<1> QED
  BY <1>1, <1>3, <1>4 DEF AppendChunk

-------------------------------------------------------------------------------

\* A route is waiting for a response.
Asks(t) == t.pc \notin {"off", "failed"}

\* How far a session has come before a request and after its Ack.
Before(type) ==
  CASE type = "intro" -> "none"
    [] type = "finish" -> "intro"
    [] type = "header" -> "ready"
    [] OTHER -> "body"

After(type) ==
  CASE type = "finish" -> "ready"
    [] type = "done" -> "result"
    [] OTHER -> "body"

\* A request finds the session it is meant for, ...
RequestOK(k, x, size) ==
  /\ k.type \in {"intro", "finish", "header", "chunk", "done"}
  /\ x.stage = Before(k.type)
  /\ k.type # "intro" => x.offset = k.at
  /\ k.at + k.len <= size
  /\ k.type = "done" => k.at = size
  /\ k.type # "chunk" => k.len = 0

\* ... and while the connection lasts a response leaves the session where the
\* next request will find it.
ResponseOK(t, k, x, size) ==
  /\ t.pc = "intro" =>
       /\ k.type = "server_intro" /\ k.at <= size
       /\ k.net = "up" => x.stage = "intro" /\ x.offset = k.at
  /\ t.pc # "intro" =>
       /\ k.type \in {"ack", "error"}
       /\ k.type = "error" => t.pc = "done"
       /\ k.net = "up" /\ k.type = "ack" => x.stage = After(t.pc) /\ x.offset = t.pos

PeerOK(t, k, x, size) ==
  /\ k.state = "request" => RequestOK(k, x, size)
  /\ Asks(t) =>
       /\ t.pos <= size
       /\ t.pc = "done" => t.pos = size
       /\ k.state # "none"
       /\ k.state = "request" => k.net = "up" /\ k.type = t.pc /\ t.pos = k.at + k.len
       /\ k.state \in {"answer", "written"} => ResponseOK(t, k, x, size)

\* Only the routes of the current attempt wait, and those of later attempts
\* have not begun.
LoopOK(p) ==
  /\ Waiting(p) => send[p[1]].pc = "trying" /\ p[2] = send[p[1]].tries
  /\ p[2] > send[p[1]].tries => sessions[p] = NoSession /\ link[p].state = "none"

\* Nothing is torn and nothing ages here.
DirInv(d) == DirOK(d) /\ "tmp" \notin d.files /\ d.updated = 0

\* A partial in order.
InOrder(d, r) ==
  /\ IsIntact(d.part, r)
  /\ d.files # {} => "meta" \in d.files
  /\ "part" \in d.files => d.received = Len(d.part)

LoneOK(r) ==
  /\ InOrder(disk[r], r)
  /\ \A p \in Peer : Named(p) = r /\ Active(p) =>
       "meta" \in disk[r].files /\ Len(disk[r].part) = sessions[p].offset

MixedOK ==
  \A p, q \in Peer :
    p # q /\ Named(p) = Named(q) /\ Active(p) /\ Active(q) => Named(p) \in mixed

NamedInv ==
  /\ TypeOK
  /\ \A s \in Sender : send[s].pc = "idle" => send[s].tries < MaxAttempts
  /\ \A p \in Peer : LoopOK(p)
  /\ \A p \in Peer : PeerOK(task[p], link[p], sessions[p], Size[Named(p)])
  /\ \A r \in Resource : DirInv(disk[r])
  /\ MixedOK
  /\ \A r \in Resource \ mixed : LoneOK(r)
  /\ PathSurvives

-------------------------------------------------------------------------------
(* Types. *)

\* A peer is a route of an attempt of a sender.
LEMMA PeerFacts ==
  ASSUME NEW p \in Peer
  PROVE  /\ p[1] \in Sender /\ p[2] \in 1..MaxAttempts /\ p[3] \in Route
         /\ p = <<p[1], p[2], p[3]>>
         /\ Named(p) \in Resource /\ Size[Named(p)] \in Nat \ {0}
<1>1. p[1] \in Sender /\ p[2] \in 1..MaxAttempts /\ p[3] \in Route /\ p = <<p[1], p[2], p[3]>>
  BY DEF Peer
<1>2. Named(p) \in Resource
  BY <1>1, NamedAssumption DEF Named
<1> QED
  BY <1>1, <1>2, StoreAssumption

\* The variables at one peer and its sender.
LEMMA TypeFacts ==
  ASSUME TypeOK
  PROVE  /\ \A p \in Peer :
              /\ task[p] \in TaskState /\ link[p] \in LinkState
              /\ sessions[p] \in SessionState /\ owed[p] \subseteq {"last", "old"}
         /\ \A s \in Sender : send[s] \in SendState /\ delivered[s] \in Nat /\ others[s] \in Nat
         /\ \A r \in Resource : disk[r] \in Dir
         /\ faults \in Nat /\ MaxFaults \in Nat /\ MaxAttempts \in Nat \ {0}
  BY NamedAssumption DEF TypeOK

\* The constants of the records.
LEMMA Records ==
  /\ Off \in TaskState /\ NoLink \in LinkState /\ NoSession \in SessionState
  /\ ~Asks(Off) /\ NoLink.state = "none" /\ NoSession.stage = "none"
  BY DEF Off, NoLink, NoSession, TaskState, LinkState, SessionState, Asks

\* What an abandoned connection still holds is a request.
LEMMA AbandonIs ==
  ASSUME NEW k \in LinkState
  PROVE  /\ Abandon(k) \in LinkState
         /\ \/ k.state # "request" /\ Abandon(k) = NoLink
            \/ /\ k.state = "request" /\ Abandon(k).state = "request"
               /\ Abandon(k).type = k.type /\ Abandon(k).at = k.at /\ Abandon(k).len = k.len
<1>1. CASE k.state = "request"
  <2>1. PICK j : j = [k EXCEPT !.net = "cut"]
    OBVIOUS
  <2>2. j \in LinkState /\ j.state = k.state /\ j.type = k.type /\ j.at = k.at /\ j.len = k.len
    BY <2>1 DEF LinkState
  <2> QED
    BY <1>1, <2>1, <2>2 DEF Abandon
<1>2. CASE k.state # "request"
  BY <1>2, Records DEF Abandon
<1> QED
  BY <1>1, <1>2

RequestType == {"intro", "finish", "header", "chunk", "done"}

\* A request goes out where there is a connection.
LEMMA RequestIs ==
  ASSUME NEW k \in LinkState, NEW type \in RequestType, NEW at \in Nat, NEW len \in Nat
  PROVE  /\ Request(k, type, at, len) \in LinkState
         /\ Request(k, type, at, len).type = type
         /\ Request(k, type, at, len).at = at
         /\ Request(k, type, at, len).len = len
         /\ Request(k, type, at, len).net = k.net
         /\ k.net = "up" => Request(k, type, at, len).state = "request"
         /\ k.net # "up" => Request(k, type, at, len).state = "dead"
<1>1. k.net \in {"up", "cut"}
  BY DEF LinkState
<1> QED
  BY <1>1 DEF Request, LinkState, RequestType

\* The end of a round: what has been written on a connection is still read.
Lost(k) == [k EXCEPT !.net = "cut", !.state = IF @ = "written" THEN @ ELSE "dead"]

\* A connection that dies takes the request or answer on it along, not a
\* response that is already written.
LEMMA LostIs ==
  ASSUME NEW k \in LinkState
  PROVE  /\ Lost(k) \in LinkState /\ Lost(k).net = "cut" /\ Lost(k).type = k.type
         /\ Lost(k).at = k.at /\ Lost(k).len = k.len
         /\ Lost(k).state = IF k.state = "written" THEN "written" ELSE "dead"
<1>1. PICK n : n = IF k.state = "written" THEN k.state ELSE "dead"
  OBVIOUS
<1>2. PICK j : j = [k EXCEPT !.net = "cut", !.state = n]
  OBVIOUS
<1>3. n \in {"written", "dead"}
  BY <1>1
<1>4. j \in LinkState /\ j.net = "cut" /\ j.type = k.type /\ j.at = k.at /\ j.len = k.len
      /\ j.state = n
  BY <1>2, <1>3 DEF LinkState
<1>5. Lost(k) = j
  BY <1>1, <1>2 DEF Lost
<1> QED
  BY <1>1, <1>4, <1>5

-------------------------------------------------------------------------------
(* The store. *)

\* Metadata written at the only time there is.
LEMMA Written ==
  ASSUME NEW d, DirOK(d), NEW n \in Nat
  PROVE  /\ DirInv(WriteMetadata(d, n, 0))
         /\ WriteMetadata(d, n, 0).part = d.part
         /\ WriteMetadata(d, n, 0).received = n
         /\ "meta" \in WriteMetadata(d, n, 0).files
         /\ ("part" \in WriteMetadata(d, n, 0).files <=> "part" \in d.files)
  BY WriteMetadataOK DEF DirInv, WriteMetadata, DirOK, Dir, File

\* A directory removed is empty.
LEMMA Removed ==
  ASSUME NEW d, DirInv(d), NEW r \in Resource
  PROVE  /\ DirInv(RemovePartial(d)) /\ RemovePartial(d).files = {}
         /\ RemovePartial(d).part = << >> /\ InOrder(RemovePartial(d), r)
<1>1. PICK e : e = RemovePart(d)
  OBVIOUS
<1>2. DirOK(e) /\ e.files = d.files \ {"part"} /\ e.part = << >>
  BY <1>1, RemovePartOK DEF DirInv
<1>3. PICK f : f = RemoveMeta(e)
  OBVIOUS
<1>4. DirOK(f) /\ f.files = e.files \ {"meta"} /\ f.part = << >>
  BY <1>2, <1>3, RemoveMetaOK
<1>5. f.updated = 0
  BY <1>2, <1>3 DEF RemoveMeta, DirOK, Dir
<1>6. f.files = {}
  BY <1>2, <1>4 DEF DirInv, DirOK, Dir, File
<1> QED
  BY <1>1, <1>3, <1>4, <1>5, <1>6, EmptyIntact DEF RemovePartial, DirInv, InOrder

\* Nothing ages.
LEMMA Cleaned ==
  ASSUME NEW ds, \A r \in Resource : DirInv(ds[r]), NEW r \in Resource
  PROVE  /\ DirInv(CleanupExpired(ds, 0)[r])
         /\ InOrder(ds[r], r) => CleanupExpired(ds, 0)[r] = ds[r]
<1>1. ~(0 + Retention < 0)
  BY StoreAssumption
<1>2. DirInv(EmptyDir)
  BY EmptyDirOK DEF DirInv, EmptyDir
<1>3. CleanupExpired(ds, 0)[r] = IF Stale(ds[r], 0) THEN EmptyDir ELSE ds[r]
  BY DEF CleanupExpired
<1>4. InOrder(ds[r], r) => ~Stale(ds[r], 0)
  BY <1>1 DEF InOrder, Stale, DirInv
<1> QED
  BY <1>2, <1>3, <1>4

\* resume_state keeps the directories well formed, ...
LEMMA OpenDirInv ==
  ASSUME NEW d, DirInv(d), NEW r \in Resource
  PROVE  DirInv(OpenDir(d, r, 0))
<1>1. PICK e : e = KeepOrRemove(d, r)
  OBVIOUS
<1>2. DirInv(e)
  BY <1>1, Removed DEF KeepOrRemove
<1>3. DirInv(WriteMetadata(e, 0, 0))
  BY <1>2, Written DEF DirInv
<1> QED
  BY <1>1, <1>2, <1>3 DEF OpenDir

\* ... and all of a partial in order, which it offers.
LEMMA OpenInOrder ==
  ASSUME NEW d, DirInv(d), NEW r \in Resource, InOrder(d, r)
  PROVE  /\ InOrder(OpenDir(d, r, 0), r)
         /\ OpenDir(d, r, 0).part = d.part
         /\ "meta" \in OpenDir(d, r, 0).files
         /\ ResumeOffset(d, r) = Len(d.part)
<1>1. d.part \in Seq(Nat) /\ Len(d.part) \in Nat /\ Len(<< >>) = 0
  BY DEF DirInv, DirOK, Dir
<1>2. CASE "part" \in d.files
  <2>1. Resumable(d, r)
    BY <1>2 DEF Resumable, InOrder, IsIntact
  <2>2. KeepOrRemove(d, r) = d /\ ResumeOffset(d, r) = Len(d.part)
    BY <2>1 DEF KeepOrRemove, ResumeOffset
  <2>3. CASE Len(d.part) = 0
    <3>1. OpenDir(d, r, 0) = WriteMetadata(d, 0, 0)
      BY <2>2, <2>3 DEF OpenDir
    <3>2. PICK e : e = WriteMetadata(d, 0, 0)
      OBVIOUS
    <3>3. e.part = d.part /\ e.received = 0 /\ "meta" \in e.files
      BY <3>2, Written DEF DirInv
    <3> QED
      BY <3>1, <3>2, <3>3, <2>2, <2>3 DEF InOrder
  <2>4. CASE Len(d.part) # 0
    BY <2>2, <2>4, <1>2 DEF OpenDir, InOrder
  <2> QED
    BY <2>3, <2>4
<1>3. CASE "part" \notin d.files
  <2>1. d.part = << >> /\ ~Resumable(d, r) /\ ResumeOffset(d, r) = 0
    BY <1>3 DEF DirInv, DirOK, Resumable, ResumeOffset
  <2>2. PICK e : e = KeepOrRemove(d, r)
    OBVIOUS
  <2>3. DirInv(e) /\ e.part = << >> /\ "part" \notin e.files
    BY <1>3, <2>1, <2>2, Removed DEF KeepOrRemove
  <2>4. PICK f : f = WriteMetadata(e, 0, 0)
    OBVIOUS
  <2>5. f.part = << >> /\ "meta" \in f.files /\ "part" \notin f.files
    BY <2>3, <2>4, Written DEF DirInv
  <2>6. OpenDir(d, r, 0) = f
    BY <2>1, <2>2, <2>4 DEF OpenDir
  <2> QED
    BY <1>1, <2>1, <2>5, <2>6, EmptyIntact DEF InOrder
<1> QED
  BY <1>2, <1>3

\* append_chunk keeps the directories well formed, ...
LEMMA AppendDirInv ==
  ASSUME NEW d, DirInv(d), NEW b \in Seq(Nat), NEW n \in Nat
  PROVE  DirInv(AppendChunk(d, b, n, 0))
<1>1. PICK e : e = AppendPart(d, b)
  OBVIOUS
<1>2. DirOK(e)
  BY <1>1, AppendPartOK DEF DirInv
<1> QED
  BY <1>1, <1>2, Written DEF AppendChunk

\* ... and a partial in order, if the chunk is the next one.
LEMMA AppendInOrder ==
  ASSUME NEW d, DirInv(d), NEW r \in Resource, InOrder(d, r),
         NEW n \in Nat, Len(d.part) + n <= Size[r]
  PROVE  LET e == AppendChunk(d, Bytes(Len(d.part), n), Len(d.part) + n, 0) IN
         InOrder(e, r) /\ "meta" \in e.files /\ Len(e.part) = Len(d.part) + n
<1>1. PICK c : c = d.part
  OBVIOUS
<1>2. c \in Seq(Nat) /\ Len(c) \in Nat
  BY <1>1 DEF DirInv, DirOK, Dir
<1>3. PICK b : b = Bytes(Len(c), n)
  OBVIOUS
<1>4. b \in Seq(Nat)
  BY <1>2, <1>3, BytesType
<1>5. PICK m \in Nat : m = Len(c) + n
  BY <1>2
<1>6. PICK e : e = AppendChunk(d, b, m, 0)
  OBVIOUS
<1>7. e.part = c \o b /\ "meta" \in e.files /\ e.received = m
  <2>1. DirOK(d) /\ 0 \in Nat
    BY DEF DirInv
  <2>2. AppendChunk(d, b, m, 0).part = c \o b /\ "meta" \in AppendChunk(d, b, m, 0).files
    BY <1>1, <1>4, <2>1, AppendChunkOK
  <2>3. AppendChunk(d, b, m, 0).received = m
    BY <1>4, <2>1, AppendChunkKept
  <2> QED
    BY <1>6, <2>2, <2>3
<1>8. IsIntact(c \o b, r) /\ Len(c \o b) = m
  <2>1. IsIntact(c, r) /\ Len(c) + n <= Size[r] /\ n \in 0..n
    BY <1>1 DEF InOrder
  <2> QED
    BY <1>2, <1>3, <1>5, <2>1, ChunkIntact
<1> QED
  BY <1>1, <1>3, <1>5, <1>6, <1>7, <1>8 DEF InOrder

\* A partial in order that is as long as the archive is the archive.
LEMMA FullIsWhole ==
  ASSUME NEW d, DirInv(d), NEW r \in Resource, InOrder(d, r), Len(d.part) = Size[r]
  PROVE  CompletePartial(d, r) = "whole"
<1>1. d.part \in Seq(Nat) /\ Size[r] \in Nat \ {0} /\ Len(<< >>) = 0
  BY StoreAssumption DEF DirInv, DirOK, Dir
<1>2. "part" \in d.files
  BY <1>1 DEF DirInv, DirOK
<1>3. d.part = [i \in 1..Size[r] |-> d.part[i]]
  BY <1>1
<1>4. \A i \in 1..Size[r] : d.part[i] = 0 + i
  BY <1>1 DEF InOrder, IsIntact
<1>5. d.part = Archive(r)
  BY <1>3, <1>4 DEF Archive, Bytes
<1> QED
  BY <1>2, <1>5 DEF CompletePartial

-------------------------------------------------------------------------------
(* The causes of failure. *)

\* A send that has met no reason to fail.
Clean(s) == faults = 0 /\ others[s] = 0 /\ mixed = {}

\* Its routes are all on their way, or one has the Ack to Done.
Healthy(p) ==
  Waiting(p) /\ link[p].net = "up" /\ link[p].state # "dead" /\ link[p].type # "error"

Acked(p) == task[p].pc = "done" /\ link[p].state = "written" /\ link[p].type = "ack"

CleanOK(s) ==
  Clean(s) =>
    /\ send[s].pc # "failed"
    /\ send[s].pc = "idle" => send[s].tries = 0
    /\ send[s].pc = "trying" =>
         /\ send[s].tries = 1
         /\ (\A p \in AttemptOf(s) : Healthy(p)) \/ (\E p \in AttemptOf(s) : Acked(p))

CleanInv == \A s \in Sender : CleanOK(s)

-------------------------------------------------------------------------------
(* The causes of a copy. *)

SingleRoute == \A a, b \in Route : a = b

\* The Ack to Done is on its way: the copy it is for is the one that is due.
Answering(p) ==
  task[p].pc = "done" /\ link[p].type = "ack" /\ link[p].state \in {"answer", "written"}

Paid(s) ==
  send[s].pc = "ok" \/ path = "stopped" \/ \E p \in Peer : p[1] = s /\ Answering(p)

\* A request whose sender has given up, and which may yet make a copy.
IsLate(p) == ~Waiting(p) /\ link[p].state = "request"

Late(s) == {n \in 1..MaxAttempts : \E p \in Peer : p[1] = s /\ p[2] = n /\ IsLate(p)}

CopiesOK(s) ==
  delivered[s] + Cardinality(Late(s)) <= faults + others[s] + (IF Paid(s) THEN 1 ELSE 0)

CopiesInv == \A s \in Sender : CopiesOK(s)

-------------------------------------------------------------------------------
(* What is promised. *)

\* The send has succeeded, or its Ack is on its way.
Settled(s) == send[s].pc = "ok" \/ \E p \in Peer : p[1] = s /\ Answering(p)

\* A late request that completes a partial.
LateDone(p) == IsLate(p) /\ link[p].type = "done"

AckOK(s) ==
  Settled(s) =>
    /\ delivered[s] > 0
    /\ mixed = {} => \A p \in Peer : p[1] = s => ~LateDone(p)

AckInv == \A s \in Sender : AckOK(s)

-------------------------------------------------------------------------------
(* What a step may do. *)

\* The receiver is not involved.
Quietly == UNCHANGED <<disk, path, sessions, owed, delivered, others>>

\* A route goes on with its next request, ...
Proceeds(p, t, k) ==
  /\ Waiting(p) /\ task[p].pc # "done"
  /\ link[p].state = "written" /\ link[p].type # "error"
  /\ task' = [task EXCEPT ![p] = t] /\ link' = [link EXCEPT ![p] = k]
  /\ t \in TaskState /\ k \in LinkState /\ Asks(t)
  /\ k.net = link[p].net /\ k.type = t.pc
  /\ k.state = IF k.net = "up" THEN "request" ELSE "dead"
  /\ PeerOK(t, k, sessions[p], Size[Named(p)])
  /\ Quietly /\ UNCHANGED <<send, faults>>

\* ... or fails, by a fault or by what it reads.
GivesUp(p) ==
  /\ Waiting(p)
  /\ task' = [task EXCEPT ![p] = [pc |-> "failed", pos |-> 0]]
  /\ link' = [link EXCEPT ![p] = Abandon(link[p])]
  /\ send' \in [Sender -> SendState]
  /\ \A s \in Sender : send'[s].pc = send[s].pc /\ send'[s].tries = send[s].tries
  /\ \/ link[p].state \in {"request", "answer"} /\ faults < MaxFaults /\ faults' = faults + 1
     \/ /\ link[p].state = "dead" \/ (link[p].state = "written" /\ link[p].type = "error")
        /\ faults' = faults
  /\ Quietly

\* A send ends, and its routes are dropped.
Ends(s) ==
  /\ send[s].pc = "trying"
  /\ \/ send'[s].pc = "failed" /\ faults < MaxFaults /\ faults' = faults + 1
     \/ /\ send'[s].pc = "ok" /\ faults' = faults
        /\ \E p \in Peer : p[1] = s /\ Acked(p)
  /\ send' \in [Sender -> SendState] /\ send'[s].tries = send[s].tries
  /\ \A r \in Sender \ {s} : send'[r] = send[r]
  /\ task' = [q \in Peer |-> IF q[1] = s THEN Off ELSE task[q]]
  /\ link' = [q \in Peer |-> IF q[1] = s THEN Abandon(link[q]) ELSE link[q]]
  /\ Quietly

\* A send counts an attempt that is over, or found nobody.
Counts(s) ==
  /\ \/ /\ send[s].pc = "idle" /\ send'[s].tries = send[s].tries + 1
        /\ send'[s].pc = (IF send'[s].tries = MaxAttempts THEN "failed" ELSE "idle")
        /\ faults < MaxFaults /\ faults' = faults + 1
     \/ /\ send[s].pc = "trying" /\ send'[s].tries = send[s].tries
        /\ send'[s].pc \in {"idle", "failed"}
        /\ send[s].tries = MaxAttempts => send'[s].pc = "failed"
        /\ \A p \in AttemptOf(s) : task[p].pc = "failed"
        /\ faults' = faults
  /\ send' \in [Sender -> SendState]
  /\ \A r \in Sender \ {s} : send'[r] = send[r]
  /\ UNCHANGED <<task, link>> /\ Quietly

\* A send begins an attempt on every route.
Starts(s, t, k) ==
  /\ t.pc = "intro" /\ t.pos = 0
  /\ k.type = "intro" /\ k.at = 0 /\ k.len = 0
  /\ k.net = (IF path = "running" THEN "up" ELSE "cut")
  /\ k.state = (IF k.net = "up" THEN "request" ELSE "dead")
  /\ send[s].pc = "idle" /\ send' \in [Sender -> SendState]
  /\ send'[s].pc = "trying" /\ send'[s].tries = send[s].tries + 1
  /\ \A r \in Sender \ {s} : send'[r] = send[r]
  /\ \A q \in Peer :
       IF q[1] = s /\ q[2] = send[s].tries + 1
       THEN task'[q] = t /\ link'[q] = k
       ELSE task'[q] = task[q] /\ link'[q] = link[q]
  /\ task' \in [Peer -> TaskState] /\ link' \in [Peer -> LinkState]
  /\ Quietly /\ faults' = faults

\* A request is handled, ...
Serves(p, x, k) ==
  /\ path = "running" /\ link[p].state = "request" /\ k.state = "answer" /\ k.net = link[p].net
  /\ k.type = "error" => faults' = faults + 1
  /\ sessions' = [sessions EXCEPT ![p] = x] /\ link' = [link EXCEPT ![p] = k]
  /\ x \in SessionState /\ k \in LinkState
  /\ owed' \in [Peer -> SUBSET {"last", "old"}]
  /\ PeerOK(task[p], k, x, Size[Named(p)])
  /\ disk' \in [Resource -> Dir] /\ \A r \in Resource : DirInv(disk'[r])
  /\ \A r \in Resource \ mixed' : LoneOK(r)'
  /\ delivered' = IF link[p].type = "done" /\ k.type = "ack"
                  THEN [delivered EXCEPT ![p[1]] = delivered[p[1]] + 1] ELSE delivered
  /\ faults' = faults \/ (faults < MaxFaults /\ faults' = faults + 1)
  /\ UNCHANGED <<send, task, path, others>>

\* ... and its response goes out or is lost.
Moves(p, k) ==
  /\ link' = [link EXCEPT ![p] = k] /\ k \in LinkState
  /\ owed' \in [Peer -> SUBSET {"last", "old"}]
  /\ \/ /\ ~Waiting(p) /\ link[p].state = "answer" /\ k = NoLink /\ faults' = faults
     \/ /\ Waiting(p) /\ link[p].state = "answer" /\ k.state = "written"
        /\ k.type = link[p].type /\ k.net = link[p].net /\ faults' = faults
     \/ /\ Waiting(p) /\ k.state = "dead" /\ faults < MaxFaults /\ faults' = faults + 1
  /\ PeerOK(task[p], k, sessions[p], Size[Named(p)])
  /\ UNCHANGED <<disk, send, task, path, sessions, delivered, others>>

\* A response that has been sent is taken note of.
Notes(p, x) ==
  /\ x = sessions[p] \/ (sessions[p].stage = "error" /\ x = NoSession)
  /\ sessions' = [sessions EXCEPT ![p] = x]
  /\ owed' \in [Peer -> SUBSET {"last", "old"}]
  /\ UNCHANGED <<disk, send, task, link, path, delivered, others, faults>>

\* It has been sent, and the transfer is complete.
Returns(p) ==
  /\ SentEvent(p, "last") /\ sessions[p].stage = "result"
  /\ others' = [s \in Sender |->
       IF send[s].pc = "trying" /\ p \notin AttemptOf(s) THEN others[s] + 1 ELSE others[s]]

\* The round ends: with a transfer, with an error, or by another path.
RoundOver ==
  /\ sessions' = [p \in Peer |-> NoSession]
  /\ owed' = [p \in Peer |-> {}]
  /\ link' = [p \in Peer |-> IF Waiting(p) THEN Lost(link[p]) ELSE NoLink]
  /\ others' \in [Sender -> Nat]
  /\ disk' \in [Resource -> Dir] /\ \A r \in Resource : DirInv(disk'[r])
  /\ \A r \in Resource \ mixed' : InOrder(disk'[r], r)
  /\ \/ (\E p \in Peer : Returns(p)) /\ path' = path /\ faults' = faults
     \/ path' = "stopped" /\ mixed # {} /\ UNCHANGED <<others, faults>>
     \/ path' = "running" /\ faults < MaxFaults /\ faults' = faults + 1 /\ others' = others
  /\ UNCHANGED <<send, task, delivered>>

-------------------------------------------------------------------------------
(* The invariant is kept. *)

\* Sessions that come to share an archive are remembered.
LEMMA MixedStep ==
  ASSUME TypeOK, MixedOK, [Next]_vars
  PROVE  mixed \subseteq mixed' /\ mixed' \subseteq Resource /\ MixedOK'
<1>1. CASE UNCHANGED vars
  BY <1>1 DEF vars, TypeOK, MixedOK, Active, Waiting
<1>2. CASE WatchMixed
  <2>1. mixed \subseteq mixed'
    BY <1>2 DEF WatchMixed
  <2>2. \A p \in Peer : Named(p) \in Resource
    BY PeerFacts
  <2>3. mixed' \subseteq Resource
    BY <1>2, <2>2 DEF WatchMixed, TypeOK
  <2>4. ASSUME NEW p \in Peer, NEW q \in Peer, p # q, Named(p) = Named(q), Active(p)', Active(q)'
        PROVE  Named(p) \in mixed'
    BY <1>2, <2>4 DEF WatchMixed
  <2>5. \A p \in Peer : Named(p)' = Named(p)
    BY DEF Named
  <2> QED
    BY <2>1, <2>3, <2>4, <2>5 DEF MixedOK
<1> QED
  BY <1>1, <1>2 DEF Next

\* Archives stay in order where no session moves.
LEMMA StillLone ==
  ASSUME NamedInv, mixed \subseteq mixed', disk' = disk,
         \A p \in Peer : Active(p)' => Active(p) /\ sessions'[p].offset = sessions[p].offset
  PROVE  \A r \in Resource \ mixed' : LoneOK(r)'
<1>1. \A r \in Resource \ mixed' : LoneOK(r)
  BY DEF NamedInv
<1>2. \A p \in Peer : Named(p)' = Named(p)
  BY DEF Named
<1> QED
  BY <1>1, <1>2 DEF LoneOK

\* Where the receiver is not involved.
LEMMA QuietRule ==
  ASSUME NamedInv, [Next]_vars, Quietly,
         send' \in [Sender -> SendState], task' \in [Peer -> TaskState],
         link' \in [Peer -> LinkState], faults' \in 0..MaxFaults,
         \A s \in Sender : send'[s].pc = "idle" => send'[s].tries < MaxAttempts,
         \A p \in Peer : LoopOK(p)',
         \A p \in Peer : PeerOK(task'[p], link'[p], sessions'[p], Size[Named(p)]),
         \A p \in Peer : Active(p)' => Active(p)
  PROVE  NamedInv'
<1>1. TypeOK /\ MixedOK
  BY DEF NamedInv
<1>2. mixed \subseteq mixed' /\ mixed' \subseteq Resource /\ MixedOK'
  BY <1>1, MixedStep
<1>3. UNCHANGED <<disk, path, sessions, owed, delivered, others>>
  BY DEF Quietly
<1>4. TypeOK'
  BY <1>1, <1>2, <1>3 DEF TypeOK
<1>5. \A r \in Resource \ mixed' : LoneOK(r)'
  BY <1>2, <1>3, StillLone
<1>6. \A r \in Resource : DirInv(disk'[r])
  BY <1>3 DEF NamedInv
<1>7. PathSurvives'
  BY <1>2, <1>3 DEF NamedInv, PathSurvives
<1>8. \A p \in Peer : Size[Named(p)]' = Size[Named(p)]
  BY DEF Named
<1> QED
  BY <1>2, <1>4, <1>5, <1>6, <1>7, <1>8 DEF NamedInv

\* A sender that takes a response and writes its next request.
LEMMA ProceedsInv ==
  ASSUME NamedInv, [Next]_vars, NEW p \in Peer, NEW t, NEW k, Proceeds(p, t, k)
  PROVE  NamedInv'
<1>1. TypeOK /\ (\A q \in Peer : LoopOK(q))
      /\ \A q \in Peer : PeerOK(task[q], link[q], sessions[q], Size[Named(q)])
  BY DEF NamedInv
<1>2. /\ task \in [Peer -> TaskState] /\ link \in [Peer -> LinkState]
      /\ faults \in 0..MaxFaults /\ send \in [Sender -> SendState]
  BY <1>1 DEF TypeOK
<1>3. /\ Waiting(p) /\ task' = [task EXCEPT ![p] = t] /\ link' = [link EXCEPT ![p] = k]
      /\ t \in TaskState /\ k \in LinkState /\ Asks(t)
      /\ PeerOK(t, k, sessions[p], Size[Named(p)])
      /\ Quietly /\ UNCHANGED <<send, faults>>
  BY DEF Proceeds
<1>4. sessions' = sessions
  BY <1>3 DEF Quietly
<1>5. task' \in [Peer -> TaskState] /\ link' \in [Peer -> LinkState]
  BY <1>2, <1>3
<1>6. /\ task'[p] = t /\ link'[p] = k
      /\ \A q \in Peer \ {p} : task'[q] = task[q] /\ link'[q] = link[q]
  BY <1>2, <1>3
<1>7. \A q \in Peer : PeerOK(task'[q], link'[q], sessions'[q], Size[Named(q)])
  BY <1>1, <1>3, <1>4, <1>6
<1>8. \A q \in Peer : LoopOK(q)'
  <2>1. LoopOK(p)'
    <3>1. send[p[1]].pc = "trying" /\ p[2] = send[p[1]].tries
      BY <1>1, <1>3 DEF LoopOK
    <3>2. p[2] \in Nat
      BY PeerFacts
    <3> QED
      BY <1>3, <3>1, <3>2 DEF LoopOK
  <2>2. \A q \in Peer \ {p} : LoopOK(q)'
    BY <1>1, <1>3, <1>4, <1>6 DEF LoopOK, Waiting
  <2> QED
    BY <2>1, <2>2
<1>9. \A q \in Peer : Active(q)' => Active(q)
  <2>1. Waiting(p)
    BY <1>3
  <2> QED
    BY <1>4, <1>6, <2>1 DEF Active, Waiting
<1>10. \A s \in Sender : send'[s].pc = "idle" => send'[s].tries < MaxAttempts
  BY <1>3 DEF NamedInv
<1>11. send' \in [Sender -> SendState] /\ faults' \in 0..MaxFaults
  BY <1>2, <1>3
<1> QED
  BY <1>3, <1>5, <1>7, <1>8, <1>9, <1>10, <1>11, QuietRule

\* A connection given up holds what it held, or nothing.
LEMMA AbandonedOK ==
  ASSUME NEW t, ~Asks(t), NEW k \in LinkState, NEW x, NEW size,
         k.state = "request" => RequestOK(k, x, size)
  PROVE  PeerOK(t, Abandon(k), x, size)
<1>1. PICK j : j = Abandon(k)
  OBVIOUS
<1>2. j.state = "request" =>
        k.state = "request" /\ j.type = k.type /\ j.at = k.at /\ j.len = k.len
  BY <1>1, AbandonIs, Records
<1>3. j.state = "request" => RequestOK(j, x, size)
  BY <1>2 DEF RequestOK
<1> QED
  BY <1>1, <1>3 DEF PeerOK

\* A sender that drops a route: an error, a failed request or a timeout.
LEMMA GivesUpInv ==
  ASSUME NamedInv, [Next]_vars, NEW p \in Peer, GivesUp(p)
  PROVE  NamedInv'
<1>1. TypeOK /\ (\A q \in Peer : LoopOK(q))
      /\ \A q \in Peer : PeerOK(task[q], link[q], sessions[q], Size[Named(q)])
  BY DEF NamedInv
<1>2. /\ task \in [Peer -> TaskState] /\ link \in [Peer -> LinkState]
      /\ faults \in 0..MaxFaults /\ send \in [Sender -> SendState] /\ MaxFaults \in Nat
  BY <1>1, NamedAssumption DEF TypeOK
<1>3. PICK t : t = [pc |-> "failed", pos |-> 0]
  OBVIOUS
<1>4. t \in TaskState /\ ~Asks(t)
  BY <1>3 DEF TaskState, Asks
<1>5. PICK k : k = Abandon(link[p])
  OBVIOUS
<1>6. k \in LinkState /\ (k.state = "request" => link[p].state = "request")
      /\ PeerOK(t, k, sessions[p], Size[Named(p)])
  BY <1>1, <1>2, <1>4, <1>5, AbandonIs, Records, AbandonedOK DEF PeerOK
<1>7. /\ Waiting(p) /\ task' = [task EXCEPT ![p] = t] /\ link' = [link EXCEPT ![p] = k]
      /\ send' \in [Sender -> SendState] /\ Quietly
      /\ \A s \in Sender : send'[s].pc = send[s].pc /\ send'[s].tries = send[s].tries
  BY <1>3, <1>5 DEF GivesUp
<1>8. faults' \in 0..MaxFaults
  BY <1>2 DEF GivesUp
<1>9. sessions' = sessions
  BY <1>7 DEF Quietly
<1>10. /\ task'[p] = t /\ link'[p] = k
       /\ \A q \in Peer \ {p} : task'[q] = task[q] /\ link'[q] = link[q]
  BY <1>2, <1>7
<1>11. task' \in [Peer -> TaskState] /\ link' \in [Peer -> LinkState]
  BY <1>2, <1>4, <1>6, <1>7
<1>12. \A q \in Peer : PeerOK(task'[q], link'[q], sessions'[q], Size[Named(q)])
  BY <1>1, <1>6, <1>9, <1>10
<1>13. \A q \in Peer : LoopOK(q)'
  <2>1. LoopOK(p)'
    <3>1. p[2] = send[p[1]].tries /\ p[1] \in Sender /\ p[2] \in Nat
      BY <1>1, <1>7, PeerFacts DEF LoopOK
    <3>2. ~Waiting(p)'
      BY <1>4, <1>10 DEF Waiting, Asks
    <3> QED
      BY <1>7, <3>1, <3>2 DEF LoopOK
  <2>2. ASSUME NEW q \in Peer \ {p} PROVE LoopOK(q)'
    <3>1. q[1] \in Sender
      BY PeerFacts
    <3> QED
      BY <1>1, <1>7, <1>9, <1>10, <3>1 DEF LoopOK, Waiting
  <2> QED
    BY <2>1, <2>2
<1>14. \A q \in Peer : Active(q)' => Active(q)
  BY <1>4, <1>6, <1>7, <1>9, <1>10 DEF Active, Waiting
<1>15. \A s \in Sender : send'[s].pc = "idle" => send'[s].tries < MaxAttempts
  BY <1>7 DEF NamedInv
<1> QED
  BY <1>7, <1>8, <1>11, <1>12, <1>13, <1>14, <1>15, QuietRule

\* A sender whose process ends, or whose Done was acknowledged.
LEMMA EndsInv ==
  ASSUME NamedInv, [Next]_vars, NEW s \in Sender, Ends(s)
  PROVE  NamedInv'
<1>1. TypeOK /\ (\A q \in Peer : LoopOK(q))
      /\ \A q \in Peer : PeerOK(task[q], link[q], sessions[q], Size[Named(q)])
  BY DEF NamedInv
<1>2. /\ task \in [Peer -> TaskState] /\ link \in [Peer -> LinkState]
      /\ faults \in 0..MaxFaults /\ send \in [Sender -> SendState] /\ MaxFaults \in Nat
  BY <1>1, NamedAssumption DEF TypeOK
<1>3. /\ send' \in [Sender -> SendState] /\ send'[s].tries = send[s].tries
      /\ send'[s].pc \in {"ok", "failed"}
      /\ \A r \in Sender \ {s} : send'[r] = send[r]
      /\ task' = [q \in Peer |-> IF q[1] = s THEN Off ELSE task[q]]
      /\ link' = [q \in Peer |-> IF q[1] = s THEN Abandon(link[q]) ELSE link[q]]
      /\ Quietly
  BY DEF Ends
<1>4. faults' \in 0..MaxFaults
  BY <1>2 DEF Ends
<1>5. sessions' = sessions
  BY <1>3 DEF Quietly
<1>6. \A q \in Peer : q[1] = s => task'[q] = Off /\ link'[q] = Abandon(link[q])
  BY <1>3
<1>7. \A q \in Peer : q[1] # s => task'[q] = task[q] /\ link'[q] = link[q]
  BY <1>3
<1>8. \A q \in Peer : Abandon(link[q]) \in LinkState
  BY <1>2, AbandonIs
<1>9. task' \in [Peer -> TaskState] /\ link' \in [Peer -> LinkState]
  BY <1>2, <1>3, <1>8, Records
<1>10. ASSUME NEW q \in Peer
       PROVE  /\ PeerOK(task'[q], link'[q], sessions'[q], Size[Named(q)])
              /\ LoopOK(q)' /\ (Active(q)' => Active(q))
  <2>1. CASE q[1] = s
    <3>1. PeerOK(Off, Abandon(link[q]), sessions[q], Size[Named(q)])
      BY <1>1, <1>2, Records, AbandonedOK DEF PeerOK
    <3>2. Abandon(link[q]).state = "request" => link[q].state = "request"
      BY <1>2, AbandonIs, Records
    <3>3. link[q].state = "none" => Abandon(link[q]).state = "none"
      BY <1>2, AbandonIs, Records
    <3>4. ~Waiting(q)'
      BY <1>6, <2>1 DEF Waiting, Off
    <3>5. LoopOK(q)'
      BY <1>1, <1>3, <1>5, <1>6, <2>1, <3>3, <3>4 DEF LoopOK
    <3> QED
      BY <1>5, <1>6, <2>1, <3>1, <3>2, <3>4, <3>5 DEF Active
  <2>2. CASE q[1] # s
    <3>1. q[1] \in Sender \ {s}
      BY <2>2, PeerFacts
    <3> QED
      BY <1>1, <1>3, <1>5, <1>7, <2>2, <3>1 DEF LoopOK, Active, Waiting
  <2> QED
    BY <2>1, <2>2
<1>11. \A r \in Sender : send'[r].pc = "idle" => send'[r].tries < MaxAttempts
  <2>1. send'[s].pc # "idle"
    BY <1>3
  <2> QED
    BY <1>3, <2>1 DEF NamedInv
<1> QED
  BY <1>3, <1>4, <1>9, <1>10, <1>11, QuietRule

\* A sender that fails an attempt and goes back to discovery.
LEMMA CountsInv ==
  ASSUME NamedInv, [Next]_vars, NEW s \in Sender, Counts(s)
  PROVE  NamedInv'
<1>1. TypeOK /\ (\A q \in Peer : LoopOK(q))
      /\ \A q \in Peer : PeerOK(task[q], link[q], sessions[q], Size[Named(q)])
  BY DEF NamedInv
<1>2. /\ task \in [Peer -> TaskState] /\ link \in [Peer -> LinkState]
      /\ faults \in 0..MaxFaults /\ send \in [Sender -> SendState] /\ MaxFaults \in Nat
      /\ MaxAttempts \in Nat \ {0}
  BY <1>1, NamedAssumption DEF TypeOK
<1>3. /\ send' \in [Sender -> SendState]
      /\ \A r \in Sender \ {s} : send'[r] = send[r]
      /\ UNCHANGED <<task, link>> /\ Quietly
  BY DEF Counts
<1>4. faults' \in 0..MaxFaults
  BY <1>2 DEF Counts
<1>5. sessions' = sessions /\ task' = task /\ link' = link
  BY <1>3 DEF Quietly
<1>6. send[s].tries \in 0..MaxAttempts /\ send'[s].tries \in 0..MaxAttempts
      /\ send[s].tries <= send'[s].tries
  <2>1. send[s].tries \in 0..MaxAttempts /\ send'[s].tries \in 0..MaxAttempts
    BY <1>2, <1>3 DEF SendState
  <2> QED
    BY <2>1 DEF Counts
<1>7. send'[s].pc = "idle" => send'[s].tries < MaxAttempts
  BY <1>2, <1>6 DEF Counts
<1>8. ASSUME NEW q \in Peer PROVE LoopOK(q)' /\ (Active(q)' => Active(q))
  <2>1. Active(q)' => Active(q)
    BY <1>5 DEF Active, Waiting
  <2>2. CASE q[1] = s
    <3>1. ~Waiting(q)
      <4>1. SUFFICES ASSUME Waiting(q) PROVE FALSE
        OBVIOUS
      <4>2. send[s].pc = "trying" /\ q[2] = send[s].tries
        BY <1>1, <2>2, <4>1 DEF LoopOK
      <4>3. q \in AttemptOf(s)
        BY <2>2, <4>2, PeerFacts DEF AttemptOf
      <4>4. task[q].pc = "failed"
        BY <4>2, <4>3 DEF Counts
      <4> QED
        BY <4>1, <4>4 DEF Waiting
    <3>2. ~Waiting(q)'
      BY <1>5, <3>1 DEF Waiting
    <3>3. q[2] \in Nat
      BY PeerFacts
    <3>4. q[2] > send'[s].tries => q[2] > send[s].tries
      BY <1>6, <3>3
    <3> QED
      BY <1>1, <1>5, <2>1, <2>2, <3>2, <3>4 DEF LoopOK
  <2>3. CASE q[1] # s
    <3>1. q[1] \in Sender \ {s}
      BY <2>3, PeerFacts
    <3> QED
      BY <1>1, <1>3, <1>5, <2>1, <3>1 DEF LoopOK, Waiting
  <2> QED
    BY <2>2, <2>3
<1>9. \A r \in Sender : send'[r].pc = "idle" => send'[r].tries < MaxAttempts
  BY <1>3, <1>7 DEF NamedInv
<1>10. \A q \in Peer : PeerOK(task'[q], link'[q], sessions'[q], Size[Named(q)])
  BY <1>1, <1>5
<1>11. task' \in [Peer -> TaskState] /\ link' \in [Peer -> LinkState]
  BY <1>2, <1>5
<1> QED
  BY <1>3, <1>4, <1>8, <1>9, <1>10, <1>11, QuietRule

\* The routes of a new attempt.
LEMMA StartFacts ==
  ASSUME NamedInv, NEW s \in Sender, StartAttempt(s)
  PROVE  \E t \in TaskState, k \in LinkState : Starts(s, t, k)
<1>1. /\ task \in [Peer -> TaskState] /\ link \in [Peer -> LinkState]
      /\ send \in [Sender -> SendState] /\ MaxAttempts \in Nat
  BY NamedAssumption DEF NamedInv, TypeOK
<1>2. PICK t \in TaskState : t = [pc |-> "intro", pos |-> 0]
  BY DEF TaskState
<1>3. PICK n \in {"up", "cut"} : n = IF path = "running" THEN "up" ELSE "cut"
  OBVIOUS
<1>4. PICK j : j = [NoLink EXCEPT !.net = n]
  OBVIOUS
<1>5. j \in LinkState /\ j.net = n
  BY <1>4 DEF NoLink, LinkState
<1>6. PICK k : k = Request(j, "intro", 0, 0)
  OBVIOUS
<1>7. /\ k \in LinkState /\ k.type = "intro" /\ k.at = 0 /\ k.len = 0 /\ k.net = n
      /\ k.state = IF n = "up" THEN "request" ELSE "dead"
  BY <1>5, <1>6, RequestIs DEF RequestType
<1>8. PICK m : m = send[s].tries + 1
  OBVIOUS
<1>9. send[s].tries < MaxAttempts /\ send[s].tries \in 0..MaxAttempts /\ send[s].pc = "idle"
  BY <1>1 DEF StartAttempt, NamedInv, SendState
<1>10. m \in 1..MaxAttempts
  BY <1>1, <1>8, <1>9
<1>11. send' = [send EXCEPT ![s] = [send[s] EXCEPT !.pc = "trying", !.tries = m]]
  BY <1>1, <1>8 DEF StartAttempt
<1>12. PICK e : e = [send[s] EXCEPT !.pc = "trying", !.tries = m]
  OBVIOUS
<1>13. e \in SendState /\ e.pc = "trying" /\ e.tries = m
  <2>1. send[s] \in SendState
    BY <1>1
  <2>2. m \in 0..MaxAttempts
    BY <1>1, <1>10
  <2> QED
    BY <1>12, <2>1, <2>2 DEF SendState
<1>14. send' = [send EXCEPT ![s] = e]
  BY <1>11, <1>12
<1>15. send' \in [Sender -> SendState] /\ send'[s] = e /\ \A r \in Sender \ {s} : send'[r] = send[r]
  BY <1>1, <1>13, <1>14
<1>16. PICK P : P = {s} \X {m} \X Route
  OBVIOUS
<1>17. /\ task' = [p \in Peer |-> IF p \in P THEN t ELSE task[p]]
       /\ link' = [p \in Peer |-> IF p \in P THEN k ELSE link[p]]
       /\ UNCHANGED <<disk, path, sessions, owed, delivered, others, faults>>
  BY <1>2, <1>3, <1>4, <1>6, <1>8, <1>16 DEF StartAttempt
<1>18. task' \in [Peer -> TaskState] /\ link' \in [Peer -> LinkState]
  BY <1>1, <1>7, <1>17
<1>19. \A q \in Peer : q \in P <=> q[1] = s /\ q[2] = m
  BY <1>16, PeerFacts
<1>20. \A q \in Peer : IF q[1] = s /\ q[2] = m
                       THEN task'[q] = t /\ link'[q] = k
                       ELSE task'[q] = task[q] /\ link'[q] = link[q]
  BY <1>17, <1>19
<1> QED
  <2>1. t.pc = "intro" /\ t.pos = 0
    BY <1>2
  <2>2. Quietly /\ faults' = faults
    BY <1>17 DEF Quietly
  <2> QED
    BY <1>3, <1>7, <1>8, <1>9, <1>13, <1>15, <1>18, <1>20, <2>1, <2>2 DEF Starts

\* A sender that starts an attempt on every route.
LEMMA StartInv ==
  ASSUME NamedInv, [Next]_vars, NEW s \in Sender, StartAttempt(s)
  PROVE  NamedInv'
<1>1. TypeOK /\ (\A q \in Peer : LoopOK(q))
      /\ \A q \in Peer : PeerOK(task[q], link[q], sessions[q], Size[Named(q)])
  BY DEF NamedInv
<1>2. faults \in 0..MaxFaults /\ send \in [Sender -> SendState]
  BY <1>1 DEF TypeOK
<1>3. PICK t \in TaskState, k \in LinkState : Starts(s, t, k)
  BY StartFacts
<1>4. sessions' = sessions
  BY <1>3 DEF Starts, Quietly
<1>5. send[s].tries \in Nat
  BY <1>2 DEF SendState
<1>6. ASSUME NEW q \in Peer
      PROVE  /\ PeerOK(task'[q], link'[q], sessions'[q], Size[Named(q)])
             /\ LoopOK(q)' /\ (Active(q)' => Active(q))
  <2>1. q[1] \in Sender /\ q[2] \in Nat /\ Size[Named(q)] \in Nat
    BY PeerFacts
  <2>2. CASE q[1] = s /\ q[2] = send[s].tries + 1
    <3>1. task'[q] = t /\ link'[q] = k
      BY <1>3, <2>2 DEF Starts
    <3>2. q[2] > send[q[1]].tries
      BY <1>5, <2>2
    <3>3. sessions[q] = NoSession
      BY <1>1, <3>2 DEF LoopOK
    <3>4. sessions[q].stage = "none"
      BY <3>3, Records
    <3>5. k.state = "request" => RequestOK(k, sessions[q], Size[Named(q)])
      BY <1>3, <2>1, <3>4 DEF Starts, RequestOK, Before
    <3>6. PeerOK(t, k, sessions[q], Size[Named(q)])
      BY <1>3, <2>1, <3>5 DEF Starts, PeerOK
    <3>7. LoopOK(q)'
      BY <1>3, <1>5, <2>1, <2>2, <3>1 DEF Starts, LoopOK
    <3>8. ~Active(q)'
      BY <1>4, <3>4 DEF Active
    <3> QED
      BY <1>4, <3>1, <3>6, <3>7, <3>8
  <2>3. CASE ~(q[1] = s /\ q[2] = send[s].tries + 1)
    <3>1. task'[q] = task[q] /\ link'[q] = link[q]
      BY <1>3, <2>3 DEF Starts
    <3>2. PeerOK(task'[q], link'[q], sessions'[q], Size[Named(q)]) /\ (Active(q)' => Active(q))
      BY <1>1, <1>4, <3>1 DEF Active, Waiting
    <3>3. CASE q[1] = s
      <4>1. ~Waiting(q)'
        BY <1>1, <1>3, <3>1, <3>3 DEF Starts, LoopOK, Waiting
      <4>2. q[2] > send'[s].tries => q[2] > send[s].tries
        BY <1>3, <1>5, <2>1 DEF Starts
      <4>3. LoopOK(q)'
        BY <1>1, <1>4, <3>1, <3>3, <4>1, <4>2 DEF LoopOK
      <4> QED
        BY <3>2, <4>3
    <3>4. CASE q[1] # s
      <4>1. send'[q[1]] = send[q[1]]
        BY <1>3, <2>1, <3>4 DEF Starts
      <4>2. LoopOK(q)'
        BY <1>1, <1>4, <3>1, <4>1 DEF LoopOK, Waiting
      <4> QED
        BY <3>2, <4>2
    <3> QED
      BY <3>3, <3>4
  <2> QED
    BY <2>2, <2>3
<1>7. \A r \in Sender : send'[r].pc = "idle" => send'[r].tries < MaxAttempts
  <2>1. send'[s].pc # "idle"
    BY <1>3 DEF Starts
  <2> QED
    BY <1>3, <2>1 DEF Starts, NamedInv
<1>8. send' \in [Sender -> SendState] /\ faults' \in 0..MaxFaults
      /\ task' \in [Peer -> TaskState] /\ link' \in [Peer -> LinkState] /\ Quietly
  BY <1>2, <1>3 DEF Starts
<1> QED
  BY <1>6, <1>7, <1>8, QuietRule

\* Where only the receiver and its connections move.
LEMMA ServedRule ==
  ASSUME NamedInv, [Next]_vars, UNCHANGED <<send, task>>,
         disk' \in [Resource -> Dir], link' \in [Peer -> LinkState], path' \in {"running", "stopped"},
         sessions' \in [Peer -> SessionState], owed' \in [Peer -> SUBSET {"last", "old"}],
         delivered' \in [Sender -> Nat], others' \in [Sender -> Nat], faults' \in 0..MaxFaults,
         path = "running" \/ mixed # {} => path' = "running" \/ mixed' # {},
         \A r \in Resource : DirInv(disk'[r]),
         \A r \in Resource \ mixed' : LoneOK(r)',
         \A p \in Peer : PeerOK(task[p], link'[p], sessions'[p], Size[Named(p)]),
         \A p \in Peer : link[p].state = "none" /\ sessions[p] = NoSession =>
                           link'[p].state = "none" /\ sessions'[p] = NoSession
  PROVE  NamedInv'
<1>1. TypeOK /\ MixedOK /\ PathSurvives /\ \A p \in Peer : LoopOK(p)
  BY DEF NamedInv
<1>2. mixed' \subseteq Resource /\ MixedOK'
  BY <1>1, MixedStep
<1>3. TypeOK'
  BY <1>1, <1>2 DEF TypeOK
<1>4. PathSurvives'
  BY <1>1 DEF PathSurvives
<1>5. \A p \in Peer : LoopOK(p)'
  BY <1>1 DEF LoopOK, Waiting
<1>6. \A p \in Peer : Size[Named(p)]' = Size[Named(p)]
  BY DEF Named
<1>7. \A s \in Sender : send'[s].pc = "idle" => send'[s].tries < MaxAttempts
  BY DEF NamedInv
<1> QED
  BY <1>2, <1>3, <1>4, <1>5, <1>6, <1>7 DEF NamedInv

\* The loop of recv_libp2p serving one request.
LEMMA ServesInv ==
  ASSUME NamedInv, [Next]_vars, NEW p \in Peer, NEW x, NEW k, Serves(p, x, k)
  PROVE  NamedInv'
<1>1. TypeOK /\ \A q \in Peer : PeerOK(task[q], link[q], sessions[q], Size[Named(q)])
  BY DEF NamedInv
<1>2. /\ link \in [Peer -> LinkState] /\ sessions \in [Peer -> SessionState]
      /\ delivered \in [Sender -> Nat] /\ others \in [Sender -> Nat]
      /\ faults \in 0..MaxFaults /\ path \in {"running", "stopped"} /\ MaxFaults \in Nat
  BY <1>1, NamedAssumption DEF TypeOK
<1>3. /\ sessions' = [sessions EXCEPT ![p] = x] /\ link' = [link EXCEPT ![p] = k]
      /\ x \in SessionState /\ k \in LinkState
      /\ PeerOK(task[p], k, x, Size[Named(p)])
      /\ link[p].state = "request"
      /\ UNCHANGED <<send, task, path, others>>
  BY DEF Serves
<1>4. /\ disk' \in [Resource -> Dir] /\ (\A r \in Resource : DirInv(disk'[r]))
      /\ owed' \in [Peer -> SUBSET {"last", "old"}]
      /\ \A r \in Resource \ mixed' : LoneOK(r)'
  BY DEF Serves
<1>5. link' \in [Peer -> LinkState] /\ sessions' \in [Peer -> SessionState]
  BY <1>2, <1>3
<1>6. faults' \in 0..MaxFaults
  BY <1>2 DEF Serves
<1>7. delivered' \in [Sender -> Nat]
  <2>1. p[1] \in Sender /\ delivered[p[1]] + 1 \in Nat
    BY <1>2, PeerFacts
  <2> QED
    BY <1>2, <2>1 DEF Serves
<1>8. \A q \in Peer \ {p} : link'[q] = link[q] /\ sessions'[q] = sessions[q]
  BY <1>2, <1>3
<1>9. link'[p] = k /\ sessions'[p] = x
  BY <1>2, <1>3
<1>10. \A q \in Peer : PeerOK(task[q], link'[q], sessions'[q], Size[Named(q)])
  BY <1>1, <1>3, <1>8, <1>9
<1>11. \A q \in Peer : link[q].state = "none" /\ sessions[q] = NoSession =>
                         link'[q].state = "none" /\ sessions'[q] = NoSession
  BY <1>3, <1>8
<1>12. TypeOK /\ MixedOK
  BY DEF NamedInv
<1>13. mixed \subseteq mixed'
  BY <1>12, MixedStep
<1>14. path = "running" \/ mixed # {} => path' = "running" \/ mixed' # {}
  BY <1>3, <1>13
<1>15. others' \in [Sender -> Nat] /\ path' \in {"running", "stopped"}
  BY <1>2, <1>3
<1> QED
  BY <1>3, <1>4, <1>5, <1>6, <1>7, <1>10, <1>11, <1>14, <1>15, ServedRule

\* An answer written to the connection, or a connection that dies.
LEMMA MovesInv ==
  ASSUME NamedInv, [Next]_vars, NEW p \in Peer, NEW k, Moves(p, k)
  PROVE  NamedInv'
<1>1. TypeOK /\ (\A r \in Resource : DirInv(disk[r]))
      /\ \A q \in Peer : PeerOK(task[q], link[q], sessions[q], Size[Named(q)])
  BY DEF NamedInv
<1>2. /\ link \in [Peer -> LinkState] /\ sessions \in [Peer -> SessionState]
      /\ delivered \in [Sender -> Nat] /\ others \in [Sender -> Nat]
      /\ disk \in [Resource -> Dir]
      /\ faults \in 0..MaxFaults /\ path \in {"running", "stopped"} /\ MaxFaults \in Nat
  BY <1>1, NamedAssumption DEF TypeOK
<1>3. /\ link' = [link EXCEPT ![p] = k] /\ k \in LinkState
      /\ PeerOK(task[p], k, sessions[p], Size[Named(p)])
      /\ owed' \in [Peer -> SUBSET {"last", "old"}]
      /\ UNCHANGED <<disk, send, task, path, sessions, delivered, others>>
  BY DEF Moves
<1>4. faults' \in 0..MaxFaults
  BY <1>2 DEF Moves
<1>5. link'[p] = k /\ \A q \in Peer \ {p} : link'[q] = link[q]
  BY <1>2, <1>3
<1>6. k.state # "request" /\ (link[p].state = "none" => k.state = "none")
  <2>1. Waiting(p) => link[p].state # "none"
    BY <1>1 DEF PeerOK, Waiting, Asks
  <2> QED
    BY <2>1, Records DEF Moves
<1>7. \A q \in Peer : Active(q)' => Active(q) /\ sessions'[q].offset = sessions[q].offset
  BY <1>3, <1>5, <1>6 DEF Active, Waiting
<1>8. mixed \subseteq mixed'
  BY MixedStep DEF NamedInv
<1>9. \A r \in Resource \ mixed' : LoneOK(r)'
  BY <1>3, <1>7, <1>8, StillLone
<1>10. \A q \in Peer : PeerOK(task[q], link'[q], sessions'[q], Size[Named(q)])
  BY <1>1, <1>3, <1>5
<1>11. \A q \in Peer : link[q].state = "none" /\ sessions[q] = NoSession =>
                         link'[q].state = "none" /\ sessions'[q] = NoSession
  BY <1>3, <1>5, <1>6
<1>12. link' \in [Peer -> LinkState]
  BY <1>2, <1>3
<1>13. path = "running" \/ mixed # {} => path' = "running" \/ mixed' # {}
  BY <1>3, <1>8
<1>14. /\ UNCHANGED <<send, task>> /\ disk' \in [Resource -> Dir] /\ path' \in {"running", "stopped"}
       /\ sessions' \in [Peer -> SessionState] /\ delivered' \in [Sender -> Nat]
       /\ others' \in [Sender -> Nat] /\ \A r \in Resource : DirInv(disk'[r])
  BY <1>1, <1>2, <1>3
<1> QED
  BY <1>3, <1>4, <1>9, <1>10, <1>11, <1>12, <1>13, <1>14, ServedRule

\* The loop of recv_libp2p forgetting a session.
LEMMA NotesInv ==
  ASSUME NamedInv, [Next]_vars, NEW p \in Peer, NEW x, Notes(p, x)
  PROVE  NamedInv'
<1>1. TypeOK /\ (\A r \in Resource : DirInv(disk[r]))
      /\ \A q \in Peer : PeerOK(task[q], link[q], sessions[q], Size[Named(q)])
  BY DEF NamedInv
<1>2. /\ link \in [Peer -> LinkState] /\ sessions \in [Peer -> SessionState]
      /\ delivered \in [Sender -> Nat] /\ others \in [Sender -> Nat]
      /\ disk \in [Resource -> Dir] /\ task \in [Peer -> TaskState]
      /\ faults \in 0..MaxFaults /\ path \in {"running", "stopped"}
  BY <1>1 DEF TypeOK
<1>3. /\ x = sessions[p] \/ (sessions[p].stage = "error" /\ x = NoSession)
      /\ sessions' = [sessions EXCEPT ![p] = x]
      /\ owed' \in [Peer -> SUBSET {"last", "old"}]
      /\ UNCHANGED <<disk, send, task, link, path, delivered, others, faults>>
  BY DEF Notes
<1>4. x \in SessionState
  BY <1>2, <1>3, Records
<1>5. sessions' \in [Peer -> SessionState] /\ sessions'[p] = x
      /\ \A q \in Peer \ {p} : sessions'[q] = sessions[q]
  BY <1>2, <1>3, <1>4
<1>6. PeerOK(task[p], link[p], x, Size[Named(p)])
  <2>1. CASE x = sessions[p]
    BY <1>1, <2>1
  <2>2. CASE sessions[p].stage = "error"
    <3>1. PeerOK(task[p], link[p], sessions[p], Size[Named(p)])
      BY <1>1
    <3>2. link[p].state # "request"
      BY <2>2, <3>1 DEF PeerOK, RequestOK, Before
    <3>3. ResponseOK(task[p], link[p], sessions[p], Size[Named(p)]) =>
            ResponseOK(task[p], link[p], x, Size[Named(p)])
      BY <2>2 DEF ResponseOK, After
    <3> QED
      BY <3>1, <3>2, <3>3 DEF PeerOK
  <2> QED
    BY <1>3, <2>1, <2>2
<1>7. \A q \in Peer : PeerOK(task[q], link'[q], sessions'[q], Size[Named(q)])
  BY <1>1, <1>3, <1>5, <1>6
<1>8. \A q \in Peer : Active(q)' => Active(q) /\ sessions'[q].offset = sessions[q].offset
  <2>1. NoSession.stage = "none"
    BY Records
  <2> QED
    BY <1>3, <1>5, <2>1 DEF Active, Waiting
<1>9. mixed \subseteq mixed'
  BY MixedStep DEF NamedInv
<1>10. \A r \in Resource \ mixed' : LoneOK(r)'
  BY <1>3, <1>8, <1>9, StillLone
<1>11. \A q \in Peer : link[q].state = "none" /\ sessions[q] = NoSession =>
                         link'[q].state = "none" /\ sessions'[q] = NoSession
  BY <1>3, <1>5
<1>12. path = "running" \/ mixed # {} => path' = "running" \/ mixed' # {}
  BY <1>3, <1>9
<1>13. /\ UNCHANGED <<send, task>> /\ disk' \in [Resource -> Dir] /\ path' \in {"running", "stopped"}
       /\ link' \in [Peer -> LinkState] /\ delivered' \in [Sender -> Nat]
       /\ others' \in [Sender -> Nat] /\ faults' \in 0..MaxFaults
       /\ \A r \in Resource : DirInv(disk'[r])
  BY <1>1, <1>2, <1>3
<1> QED
  BY <1>3, <1>5, <1>7, <1>10, <1>11, <1>12, <1>13, ServedRule

\* recv_libp2p returning to the listener loop and being called again.
LEMMA RoundOverInv ==
  ASSUME NamedInv, [Next]_vars, RoundOver
  PROVE  NamedInv'
<1>1. TypeOK /\ \A q \in Peer : PeerOK(task[q], link[q], sessions[q], Size[Named(q)])
  BY DEF NamedInv
<1>2. /\ link \in [Peer -> LinkState] /\ task \in [Peer -> TaskState]
      /\ delivered \in [Sender -> Nat] /\ others \in [Sender -> Nat]
      /\ faults \in 0..MaxFaults /\ path \in {"running", "stopped"} /\ MaxFaults \in Nat
  BY <1>1, NamedAssumption DEF TypeOK
<1>3. /\ sessions' = [p \in Peer |-> NoSession] /\ owed' = [p \in Peer |-> {}]
      /\ link' = [p \in Peer |-> IF Waiting(p) THEN Lost(link[p]) ELSE NoLink]
      /\ disk' \in [Resource -> Dir] /\ (\A r \in Resource : DirInv(disk'[r]))
      /\ (\A r \in Resource \ mixed' : InOrder(disk'[r], r))
      /\ UNCHANGED <<send, task, delivered>>
  BY DEF RoundOver
<1>4. sessions' \in [Peer -> SessionState] /\ owed' \in [Peer -> SUBSET {"last", "old"}]
  BY <1>3, Records
<1>5. \A q \in Peer : Lost(link[q]) \in LinkState
  BY <1>2, LostIs
<1>6. link' \in [Peer -> LinkState]
  BY <1>3, <1>5, Records
<1>7. \A q \in Peer : sessions'[q] = NoSession /\ ~Active(q)'
  BY <1>3, Records DEF Active
<1>8. \A r \in Resource \ mixed' : LoneOK(r)'
  BY <1>3, <1>7 DEF LoneOK
<1>9. ASSUME NEW q \in Peer
      PROVE  /\ PeerOK(task[q], link'[q], sessions'[q], Size[Named(q)])
             /\ link[q].state = "none" => link'[q].state = "none"
  <2>1. CASE Waiting(q)
    <3>1. PICK j : j = Lost(link[q])
      OBVIOUS
    <3>2. /\ j \in LinkState /\ j.net = "cut" /\ j.type = link[q].type /\ j.at = link[q].at
          /\ j.state = IF link[q].state = "written" THEN "written" ELSE "dead"
      BY <1>2, <3>1, LostIs
    <3>3. link'[q] = j
      BY <1>3, <2>1, <3>1
    <3>4. PeerOK(task[q], link[q], sessions[q], Size[Named(q)]) /\ Asks(task[q])
      BY <1>1, <2>1 DEF Waiting, Asks
    <3>5. link[q].state # "none"
      BY <3>4 DEF PeerOK
    <3>6. CASE link[q].state = "written"
      <4>1. ResponseOK(task[q], j, sessions'[q], Size[Named(q)])
        BY <3>2, <3>4, <3>6 DEF PeerOK, ResponseOK
      <4>2. PeerOK(task[q], j, sessions'[q], Size[Named(q)])
        BY <3>2, <3>4, <3>6, <4>1 DEF PeerOK
      <4> QED
        BY <3>3, <3>5, <4>2
    <3>7. CASE link[q].state # "written"
      <4>1. PeerOK(task[q], j, sessions'[q], Size[Named(q)])
        BY <3>2, <3>4, <3>7 DEF PeerOK
      <4> QED
        BY <3>3, <3>5, <4>1
    <3> QED
      BY <3>6, <3>7
  <2>2. CASE ~Waiting(q)
    <3>1. link'[q] = NoLink /\ ~Asks(task[q])
      BY <1>3, <2>2 DEF Waiting, Asks
    <3> QED
      BY <3>1, Records DEF PeerOK
  <2> QED
    BY <2>1, <2>2
<1>10. others' \in [Sender -> Nat] /\ faults' \in 0..MaxFaults
       /\ path' \in {"running", "stopped"}
  BY <1>2 DEF RoundOver
<1>11. mixed \subseteq mixed'
  BY MixedStep DEF NamedInv
<1>12. path = "running" \/ mixed # {} => path' = "running" \/ mixed' # {}
  BY <1>11 DEF RoundOver
<1>13. delivered' \in [Sender -> Nat] /\ UNCHANGED <<send, task>>
  BY <1>2, <1>3
<1> QED
  BY <1>3, <1>4, <1>6, <1>7, <1>8, <1>9, <1>10, <1>12, <1>13, ServedRule

-------------------------------------------------------------------------------
(* What the sender's actions do. *)

\* The request after a response makes the sender proceed: it finds the session
\* at the stage and offset it is meant for.
LEMMA NextRequestKind ==
  ASSUME NamedInv, NEW p \in Peer, NEW type \in {"finish", "header", "chunk", "done"},
         NEW pos \in Nat, NEW len \in Nat, NextRequest(p, type, pos, len),
         Waiting(p), task[p].pc # "done", link[p].state = "written", link[p].type # "error",
         len <= pos, pos <= Size[Named(p)], type # "chunk" => len = 0,
         type = "done" => pos = Size[Named(p)],
         link[p].net = "up" =>
           sessions[p].stage = Before(type) /\ sessions[p].offset = pos - len
  PROVE  \E t, k : Proceeds(p, t, k)
<1>1. link[p] \in LinkState /\ Size[Named(p)] \in Nat
  BY TypeFacts, PeerFacts DEF NamedInv
<1>2. PICK at \in Nat : at = pos - len
  OBVIOUS
<1>3. PICK k : k = Request(link[p], type, at, len)
  OBVIOUS
<1>4. /\ k \in LinkState /\ k.type = type /\ k.at = at /\ k.len = len /\ k.net = link[p].net
      /\ k.state = IF k.net = "up" THEN "request" ELSE "dead"
  <2>1. PICK j \in LinkState : j = link[p]
    BY <1>1
  <2>2. k = Request(j, type, at, len) /\ type \in {"intro", "finish", "header", "chunk", "done"}
    BY <1>3, <2>1
  <2>3. PICK n \in {"request", "dead"} : n = IF j.net = "up" THEN "request" ELSE "dead"
    OBVIOUS
  <2>4. PICK y \in RequestType : y = type
    BY <2>2 DEF RequestType
  <2>5. /\ Request(j, y, at, len) \in LinkState /\ Request(j, y, at, len).type = y
        /\ Request(j, y, at, len).at = at /\ Request(j, y, at, len).len = len
        /\ Request(j, y, at, len).net = j.net
        /\ j.net = "up" => Request(j, y, at, len).state = "request"
        /\ j.net # "up" => Request(j, y, at, len).state = "dead"
    BY RequestIs
  <2>6. /\ k \in LinkState /\ k.type = type /\ k.at = at /\ k.len = len /\ k.net = j.net
        /\ k.state = n
    BY <2>2, <2>3, <2>4, <2>5
  <2> QED
    BY <2>1, <2>3, <2>6
<1>5. PICK t \in TaskState : t = [pc |-> type, pos |-> pos]
  BY DEF TaskState
<1>6. t.pc = type /\ t.pos = pos /\ Asks(t)
  BY <1>5 DEF Asks
<1>7. k.at + k.len = pos
  BY <1>2, <1>4
<1>8. k.net \in {"up", "cut"}
  BY <1>4 DEF LinkState
<1>9. k.state = "request" => RequestOK(k, sessions[p], Size[Named(p)])
  BY <1>1, <1>2, <1>4, <1>7, <1>8 DEF RequestOK
<1>10. PeerOK(t, k, sessions[p], Size[Named(p)])
  BY <1>4, <1>6, <1>7, <1>8, <1>9 DEF PeerOK
<1>11. /\ task' = [task EXCEPT ![p] = t] /\ link' = [link EXCEPT ![p] = k]
       /\ UNCHANGED <<disk, send, path, sessions, owed, delivered, others, faults>>
  BY <1>2, <1>3, <1>5 DEF NextRequest
<1>12. Quietly /\ UNCHANGED <<send, faults>>
  BY <1>11 DEF Quietly
<1> QED
  BY <1>4, <1>6, <1>10, <1>11, <1>12 DEF Proceeds

\* What a response says of the session.
LEMMA AnsweredFacts ==
  ASSUME NamedInv, NEW p \in Peer, NEW type, Answered(p, type)
  PROVE  /\ Waiting(p) /\ link[p].state = "written" /\ link[p].type = type
         /\ ResponseOK(task[p], link[p], sessions[p], Size[Named(p)])
         /\ task[p].pos \in Nat /\ task[p].pos <= Size[Named(p)] /\ link[p].at \in Nat
         /\ task[p].pc \in {"intro", "finish", "header", "chunk", "done"}
<1>1. /\ task[p] \in TaskState /\ link[p] \in LinkState
      /\ PeerOK(task[p], link[p], sessions[p], Size[Named(p)])
  BY TypeFacts DEF NamedInv
<1>2. Waiting(p) /\ link[p].state = "written" /\ link[p].type = type
  BY DEF Answered
<1>3. Asks(task[p])
  BY <1>2 DEF Waiting, Asks
<1> QED
  BY <1>1, <1>2, <1>3 DEF PeerOK, Asks, TaskState, LinkState

\* The handlers of a good response are of the kind Proceeds.
LEMMA ProceedKinds ==
  ASSUME NamedInv, NEW p \in Peer, RecvServerIntro(p) \/ RecvFinishAck(p) \/ RecvStreamAck(p)
  PROVE  \E t, k : Proceeds(p, t, k)
<1>1. Size[Named(p)] \in Nat /\ MaxChunk \in Nat
  BY PeerFacts, NamedAssumption
<1>2. CASE RecvServerIntro(p)
  <2>1. Answered(p, "server_intro") /\ NextRequest(p, "finish", link[p].at, 0)
    BY <1>2 DEF RecvServerIntro
  <2>2. /\ Waiting(p) /\ link[p].state = "written" /\ link[p].type = "server_intro"
        /\ ResponseOK(task[p], link[p], sessions[p], Size[Named(p)]) /\ link[p].at \in Nat
        /\ task[p].pc \in {"intro", "finish", "header", "chunk", "done"}
    BY <2>1, AnsweredFacts
  <2>3. task[p].pc = "intro" /\ link[p].at <= Size[Named(p)]
        /\ (link[p].net = "up" => sessions[p].stage = "intro" /\ sessions[p].offset = link[p].at)
    BY <2>2 DEF ResponseOK
  <2>4. Before("finish") = "intro" /\ link[p].at - 0 = link[p].at
    BY <2>2 DEF Before
  <2> QED
    BY <2>1, <2>2, <2>3, <2>4, NextRequestKind
<1>3. ASSUME Answered(p, "ack"), task[p].pc \in {"finish", "header", "chunk"}
      PROVE  /\ Waiting(p) /\ link[p].state = "written" /\ link[p].type = "ack"
             /\ task[p].pos \in Nat /\ task[p].pos <= Size[Named(p)]
             /\ link[p].net = "up" =>
                  sessions[p].stage = After(task[p].pc) /\ sessions[p].offset = task[p].pos
  BY <1>3, AnsweredFacts DEF ResponseOK
<1>4. CASE RecvFinishAck(p)
  <2>1. Answered(p, "ack") /\ task[p].pc = "finish" /\ NextRequest(p, "header", task[p].pos, 0)
    BY <1>4 DEF RecvFinishAck
  <2>2. Before("header") = "ready" /\ After("finish") = "ready" /\ \A n \in Nat : n - 0 = n
    BY DEF Before, After
  <2> QED
    BY <1>3, <2>1, <2>2, NextRequestKind
<1>5. CASE RecvStreamAck(p)
  <2>1. Answered(p, "ack") /\ task[p].pc \in {"header", "chunk"}
    BY <1>5 DEF RecvStreamAck
  <2>2. /\ Before("chunk") = "body" /\ Before("done") = "body" /\ After("header") = "body"
        /\ After("chunk") = "body" /\ \A n \in Nat : n - 0 = n
    BY DEF Before, After
  <2>3. /\ Waiting(p) /\ link[p].state = "written" /\ link[p].type = "ack"
        /\ task[p].pos \in Nat /\ task[p].pos <= Size[Named(p)]
        /\ link[p].net = "up" =>
             sessions[p].stage = "body" /\ sessions[p].offset = task[p].pos
    BY <1>3, <2>1, <2>2
  <2>4. CASE task[p].pos = Size[Named(p)]
    <3>1. NextRequest(p, "done", task[p].pos, 0)
      BY <1>5, <2>4 DEF RecvStreamAck
    <3> QED
      BY <2>1, <2>2, <2>3, <2>4, <3>1, NextRequestKind
  <2>5. CASE task[p].pos # Size[Named(p)]
    <3>1. PICK n \in 1..MaxChunk :
            task[p].pos + n <= Size[Named(p)] /\ NextRequest(p, "chunk", task[p].pos + n, n)
      BY <1>5, <2>5 DEF RecvStreamAck
    <3>2. PICK pos \in Nat : pos = task[p].pos + n
      BY <1>1, <2>3
    <3>3. n \in Nat /\ n <= pos /\ pos - n = task[p].pos
      BY <1>1, <2>3, <3>2
    <3> QED
      BY <2>1, <2>2, <2>3, <3>1, <3>2, <3>3, NextRequestKind
  <2> QED
    BY <2>4, <2>5
<1> QED
  BY <1>2, <1>4, <1>5

\* The handlers of an error, a failure and a timeout are of the kind GivesUp.
LEMMA GiveUpKinds ==
  ASSUME NamedInv, NEW p \in Peer, RecvError(p) \/ RequestFailed(p) \/ RequestTimeout(p)
  PROVE  GivesUp(p)
<1>1. send \in [Sender -> SendState] /\ p[1] \in Sender
  BY PeerFacts DEF NamedInv, TypeOK
<1>2. ASSUME NEW w \in {"plain", "unpack"}, FailTask(p, w)
      PROVE  /\ task' = [task EXCEPT ![p] = [pc |-> "failed", pos |-> 0]]
             /\ link' = [link EXCEPT ![p] = Abandon(link[p])]
             /\ send' \in [Sender -> SendState]
             /\ \A s \in Sender : send'[s].pc = send[s].pc /\ send'[s].tries = send[s].tries
             /\ Quietly
  <2>1. PICK e : e = [send[p[1]] EXCEPT !.wording = w]
    OBVIOUS
  <2>2. e \in SendState /\ e.pc = send[p[1]].pc /\ e.tries = send[p[1]].tries
    BY <1>1, <2>1 DEF SendState
  <2>3. send' = [send EXCEPT ![p[1]] = e]
    BY <1>2, <2>1 DEF FailTask
  <2>4. [Off EXCEPT !.pc = "failed"] = [pc |-> "failed", pos |-> 0]
    BY DEF Off
  <2>5. task' = [task EXCEPT ![p] = [pc |-> "failed", pos |-> 0]]
        /\ link' = [link EXCEPT ![p] = Abandon(link[p])] /\ Quietly
    BY <1>2, <2>4 DEF FailTask, Quietly
  <2> QED
    BY <1>1, <2>2, <2>3, <2>5
<1>3. CASE RecvError(p)
  BY <1>2, <1>3 DEF RecvError, Answered, GivesUp
<1>4. CASE RequestFailed(p)
  BY <1>2, <1>4 DEF RequestFailed, GivesUp
<1>5. CASE RequestTimeout(p)
  BY <1>2, <1>5 DEF RequestTimeout, Fault, GivesUp
<1> QED
  BY <1>3, <1>4, <1>5

\* The handlers that end the send are of the kind Ends.
LEMMA EndKinds ==
  ASSUME NamedInv, NEW s \in Sender, NEW p \in Peer,
         Quit(s) \/ (p[1] = s /\ RecvDoneAck(p))
  PROVE  Ends(s)
<1>1. send \in [Sender -> SendState] /\ \A q \in Peer : LoopOK(q)
  BY DEF NamedInv, TypeOK
<1>2. ASSUME NEW pc \in {"ok", "failed"},
             send' = [send EXCEPT ![s].pc = pc, ![s].wording = "plain"]
      PROVE  /\ send' \in [Sender -> SendState] /\ send'[s].tries = send[s].tries
             /\ send'[s].pc = pc /\ \A r \in Sender \ {s} : send'[r] = send[r]
  <2>1. PICK e : e = [send[s] EXCEPT !.pc = pc, !.wording = "plain"]
    OBVIOUS
  <2>2. e \in SendState /\ e.pc = pc /\ e.tries = send[s].tries
    BY <1>1, <2>1 DEF SendState
  <2>3. send' = [send EXCEPT ![s] = e]
    BY <1>2, <2>1
  <2> QED
    BY <1>1, <2>2, <2>3
<1>3. CASE Quit(s)
  <2>1. /\ send[s].pc = "trying" /\ faults < MaxFaults /\ faults' = faults + 1
        /\ send' = [send EXCEPT ![s].pc = "failed", ![s].wording = "plain"]
        /\ task' = [q \in Peer |-> IF q[1] = s THEN Off ELSE task[q]]
        /\ link' = [q \in Peer |-> IF q[1] = s THEN Abandon(link[q]) ELSE link[q]]
        /\ Quietly
    BY <1>3 DEF Quit, Fault, Quietly
  <2> QED
    BY <1>2, <2>1 DEF Ends
<1>4. CASE p[1] = s /\ RecvDoneAck(p)
  <2>1. /\ Answered(p, "ack") /\ task[p].pc = "done" /\ faults' = faults
        /\ send' = [send EXCEPT ![s].pc = "ok", ![s].wording = "plain"]
        /\ task' = [q \in Peer |-> IF q[1] = s THEN Off ELSE task[q]]
        /\ link' = [q \in Peer |-> IF q[1] = s THEN Abandon(link[q]) ELSE link[q]]
        /\ Quietly
    BY <1>4 DEF RecvDoneAck, Quietly
  <2>2. Acked(p) /\ Waiting(p)
    BY <2>1 DEF Acked, Answered
  <2>3. send[s].pc = "trying"
    BY <1>1, <1>4, <2>2 DEF LoopOK
  <2> QED
    BY <1>2, <1>4, <2>1, <2>2, <2>3 DEF Ends
<1> QED
  BY <1>3, <1>4

\* The handlers that count a failed attempt are of the kind Counts.
LEMMA CountKinds ==
  ASSUME NamedInv, NEW s \in Sender, DiscoverNothing(s) \/ AttemptFails(s)
  PROVE  Counts(s)
<1>1. send \in [Sender -> SendState] /\ MaxAttempts \in Nat
      /\ (send[s].pc = "idle" => send[s].tries < MaxAttempts)
  BY NamedAssumption DEF NamedInv, TypeOK
<1>2. send[s] \in SendState /\ send[s].tries \in 0..MaxAttempts
  BY <1>1 DEF SendState
<1>3. CASE DiscoverNothing(s)
  <2>1. PICK m : m = send[s].tries + 1
    OBVIOUS
  <2>2. send[s].pc = "idle"
    BY <1>3 DEF DiscoverNothing
  <2>3. m \in 0..MaxAttempts
    BY <1>1, <1>2, <2>1, <2>2
  <2>4. PICK pc \in {"failed", "idle"} : pc = IF m = MaxAttempts THEN "failed" ELSE "idle"
    OBVIOUS
  <2>5. PICK e : e = [pc |-> pc, tries |-> m, wording |-> "plain"]
    OBVIOUS
  <2>6. e \in SendState /\ e.pc = pc /\ e.tries = m
    BY <2>3, <2>5 DEF SendState
  <2>7. send' = [send EXCEPT ![s] = e]
    BY <1>3, <2>1, <2>4, <2>5 DEF DiscoverNothing
  <2>8. send' \in [Sender -> SendState] /\ send'[s] = e /\ \A r \in Sender \ {s} : send'[r] = send[r]
    BY <1>1, <2>6, <2>7
  <2>9. /\ faults < MaxFaults /\ faults' = faults + 1 /\ UNCHANGED <<task, link>> /\ Quietly
    BY <1>3 DEF DiscoverNothing, Fault, Quietly
  <2> QED
    BY <2>1, <2>2, <2>4, <2>6, <2>8, <2>9 DEF Counts
<1>4. CASE AttemptFails(s)
  <2>1. PICK pc \in NextAttempt(s) : send' = [send EXCEPT ![s].pc = pc, ![s].wording = "plain"]
    BY <1>4 DEF AttemptFails
  <2>2. pc \in {"failed", "idle"} /\ (send[s].tries = MaxAttempts => pc = "failed")
    BY <2>1 DEF NextAttempt
  <2>3. PICK e : e = [send[s] EXCEPT !.pc = pc, !.wording = "plain"]
    OBVIOUS
  <2>4. e \in SendState /\ e.pc = pc /\ e.tries = send[s].tries
    BY <1>2, <2>2, <2>3 DEF SendState
  <2>5. send' = [send EXCEPT ![s] = e]
    BY <2>1, <2>3
  <2>6. send' \in [Sender -> SendState] /\ send'[s] = e /\ \A r \in Sender \ {s} : send'[r] = send[r]
    BY <1>1, <2>4, <2>5
  <2>7. /\ send[s].pc = "trying" /\ (\A p \in AttemptOf(s) : task[p].pc = "failed")
        /\ faults' = faults /\ UNCHANGED <<task, link>> /\ Quietly
    BY <1>4 DEF AttemptFails, Quietly
  <2> QED
    BY <2>2, <2>4, <2>6, <2>7 DEF Counts
<1> QED
  BY <1>3, <1>4

-------------------------------------------------------------------------------
(* What the receiver's actions do. *)

\* A response takes the place of the request.
LEMMA ResponseIs ==
  ASSUME NamedInv, NEW p \in Peer, NEW type \in {"server_intro", "ack", "error"}, NEW at \in Nat,
         Respond(p, type, at)
  PROVE  /\ \E k \in LinkState :
              /\ link' = [link EXCEPT ![p] = k]
              /\ k.state = "answer" /\ k.type = type /\ k.at = at /\ k.net = link[p].net
         /\ owed' \in [Peer -> SUBSET {"last", "old"}]
         /\ UNCHANGED <<send, task, path, others>>
<1>1. link \in [Peer -> LinkState] /\ owed \in [Peer -> SUBSET {"last", "old"}]
  BY DEF NamedInv, TypeOK
<1>2. PICK k : k = [link[p] EXCEPT !.state = "answer", !.type = type, !.at = at, !.len = 0]
  OBVIOUS
<1>3. link[p] \in LinkState
  BY <1>1
<1>4. /\ k \in LinkState /\ k.state = "answer" /\ k.type = type /\ k.at = at
      /\ k.net = link[p].net
  BY <1>2, <1>3 DEF LinkState
<1>5. link' = [link EXCEPT ![p] = k]
  BY <1>1, <1>2 DEF Respond
<1>6. PICK o \in SUBSET {"last", "old"} : o = {"last"} \cup (IF owed[p] = {} THEN {} ELSE {"old"})
  OBVIOUS
<1>7. owed' = [owed EXCEPT ![p] = o]
  BY <1>1, <1>6 DEF Respond
<1>8. owed' \in [Peer -> SUBSET {"last", "old"}]
  BY <1>1, <1>6, <1>7
<1> QED
  BY <1>4, <1>5, <1>8 DEF Respond

\* A request that arrives finds its session.
LEMMA ReceivedFacts ==
  ASSUME NamedInv, NEW p \in Peer, NEW type, Received(p, type)
  PROVE  /\ path = "running" /\ link[p].state = "request" /\ link[p].type = type
         /\ link[p] \in LinkState /\ task[p] \in TaskState /\ sessions[p] \in SessionState
         /\ RequestOK(link[p], sessions[p], Size[Named(p)])
         /\ Asks(task[p]) =>
              /\ link[p].net = "up" /\ task[p].pc = type
              /\ task[p].pos = link[p].at + link[p].len /\ task[p].pos <= Size[Named(p)]
              /\ type = "done" => task[p].pos = Size[Named(p)]
<1>1. /\ link[p] \in LinkState /\ task[p] \in TaskState /\ sessions[p] \in SessionState
      /\ PeerOK(task[p], link[p], sessions[p], Size[Named(p)])
  BY TypeFacts DEF NamedInv
<1> QED
  BY <1>1 DEF Received, PeerOK

\* A response that fits its request and its session.
LEMMA AnswerOK ==
  ASSUME NEW t, NEW k, NEW x, NEW size, k.state = "answer",
         Asks(t) => t.pos <= size /\ (t.pc = "done" => t.pos = size) /\ ResponseOK(t, k, x, size)
  PROVE  PeerOK(t, k, x, size)
  BY DEF PeerOK

\* The first request opens the session at what the partial offers.
LEMMA IntroKind ==
  ASSUME NamedInv, [Next]_vars, NEW p \in Peer, HandleIntro(p)
  PROVE  \E x, k : Serves(p, x, k)
<1>1. Named(p) \in Resource /\ Size[Named(p)] \in Nat
  BY PeerFacts
<1>2. PICK r \in Resource : r = Named(p)
  BY <1>1
<1>3. (\A q \in Resource : DirInv(disk[q])) /\ \A q \in Resource \ mixed : LoneOK(q)
  BY DEF NamedInv
<1>4. PICK ds : ds = CleanupExpired(disk, 0)
  OBVIOUS
<1>5. /\ \A q \in Resource : DirInv(ds[q]) /\ (InOrder(disk[q], q) => ds[q] = disk[q])
      /\ ds = [q \in Resource |-> ds[q]]
  BY <1>3, <1>4, Cleaned DEF CleanupExpired
<1>6. PICK offset : offset = ResumeOffset(ds[r], r)
  OBVIOUS
<1>7. offset \in Nat /\ offset <= Size[r]
  BY <1>5, <1>6, OpenDirOK DEF DirInv
<1>8. PICK d : d = OpenDir(ds[r], r, 0)
  OBVIOUS
<1>9. DirInv(d)
  BY <1>5, <1>8, OpenDirInv
<1>10. PICK x : x = [stage |-> "intro", offset |-> offset]
  OBVIOUS
<1>11. x \in SessionState /\ x.stage = "intro" /\ x.offset = offset
  BY <1>7, <1>10 DEF SessionState
<1>12. /\ Received(p, "intro") /\ disk' = [ds EXCEPT ![r] = d]
       /\ sessions' = [sessions EXCEPT ![p] = x] /\ Respond(p, "server_intro", offset)
       /\ UNCHANGED <<delivered, faults>>
  BY <1>2, <1>4, <1>6, <1>8, <1>10 DEF HandleIntro, OfferedOffset, ResumeState
<1>13. PICK k \in LinkState :
         /\ link' = [link EXCEPT ![p] = k] /\ k.state = "answer" /\ k.type = "server_intro"
         /\ k.at = offset /\ k.net = link[p].net
  BY <1>7, <1>12, ResponseIs
<1>14. owed' \in [Peer -> SUBSET {"last", "old"}] /\ UNCHANGED <<send, task, path, others>>
  BY <1>7, <1>12, ResponseIs
<1>15. /\ path = "running" /\ link[p].state = "request"
       /\ Asks(task[p]) => task[p].pc = "intro" /\ task[p].pos <= Size[Named(p)]
  BY <1>12, ReceivedFacts
<1>16. PeerOK(task[p], k, x, Size[Named(p)])
  <2>1. Asks(task[p]) => ResponseOK(task[p], k, x, Size[Named(p)])
    BY <1>2, <1>7, <1>11, <1>13, <1>15 DEF ResponseOK
  <2> QED
    BY <1>13, <1>15, <2>1, AnswerOK
<1>17. disk'[r] = d /\ \A q \in Resource \ {r} : disk'[q] = ds[q]
  BY <1>5, <1>12
<1>18. \A q \in Resource : DirInv(disk'[q])
  BY <1>5, <1>9, <1>17
<1>19. disk' \in [Resource -> Dir]
  <2>1. d \in Dir /\ \A q \in Resource : ds[q] \in Dir
    BY <1>5, <1>9 DEF DirInv, DirOK
  <2> QED
    BY <1>5, <1>12, <2>1
<1>20. \A q \in Resource \ mixed' : LoneOK(q)'
  <2> SUFFICES ASSUME NEW q \in Resource \ mixed'
               PROVE  LoneOK(q)'
    OBVIOUS
  <2>1. LoneOK(q) /\ ds[q] = disk[q]
    <3>1. q \notin mixed
      BY MixedStep DEF NamedInv
    <3> QED
      BY <1>3, <1>5, <3>1 DEF LoneOK
  <2>2. InOrder(disk[q], q)
    BY <2>1 DEF LoneOK
  <2>3. /\ InOrder(disk'[q], q) /\ disk'[q].part = disk[q].part
        /\ ("meta" \in disk[q].files \/ q = r) => "meta" \in disk'[q].files
        /\ q = r => offset = Len(disk[q].part)
    <3>1. CASE q = r
      <4>1. InOrder(ds[r], r) /\ DirInv(ds[r])
        BY <1>5, <2>1, <2>2, <3>1
      <4> QED
        BY <1>6, <1>8, <1>17, <2>1, <3>1, <4>1, OpenInOrder
    <3>2. CASE q # r
      BY <1>17, <2>1, <2>2, <3>2
    <3> QED
      BY <3>1, <3>2
  <2>4. ASSUME NEW s \in Peer, Named(s) = q, Active(s)'
        PROVE  "meta" \in disk'[q].files /\ Len(disk'[q].part) = sessions'[s].offset
    <3>0. sessions \in [Peer -> SessionState] /\ link \in [Peer -> LinkState]
      BY DEF NamedInv, TypeOK
    <3>1. CASE s = p
      <4>1. q = r /\ sessions'[s].offset = offset
        BY <1>2, <1>11, <1>12, <2>4, <3>0, <3>1
      <4> QED
        BY <2>3, <4>1
    <3>2. CASE s # p
      <4>1. sessions'[s] = sessions[s] /\ link'[s] = link[s]
        BY <1>12, <1>13, <3>0, <3>2
      <4>2. Active(s)
        BY <1>14, <2>4, <4>1 DEF Active, Waiting
      <4>3. "meta" \in disk[q].files /\ Len(disk[q].part) = sessions[s].offset
        BY <2>1, <2>4, <4>2 DEF LoneOK
      <4> QED
        BY <2>3, <4>1, <4>3
    <3> QED
      BY <3>1, <3>2
  <2>5. \A s \in Peer : Named(s)' = Named(s)
    BY DEF Named
  <2> QED
    BY <2>3, <2>4, <2>5 DEF LoneOK
<1> QED
  BY <1>11, <1>12, <1>13, <1>14, <1>15, <1>16, <1>18, <1>19, <1>20 DEF Serves

\* Two sessions that can append to one archive are remembered.
LEMMA OnlyOne ==
  ASSUME NamedInv, [Next]_vars, NEW p \in Peer, Active(p), Named(p) \notin mixed',
         NEW q \in Peer, Active(q), Named(q) = Named(p)
  PROVE  q = p
<1>1. MixedOK /\ mixed \subseteq mixed'
  BY MixedStep DEF NamedInv
<1> QED
  BY <1>1 DEF MixedOK

\* The requests between the first and the archive.
LEMMA InOrderKind ==
  ASSUME NamedInv, [Next]_vars, NEW p \in Peer, HandleFinish(p) \/ HandleHeader(p)
  PROVE  \E x, k : Serves(p, x, k)
<1>1. PICK type \in {"finish", "header"}, next \in {"ready", "body"} :
        /\ HandleInOrder(p, type, Before(type), next) /\ next = After(type)
  BY DEF HandleFinish, HandleHeader, Before, After
<1>2. /\ Received(p, type) /\ Respond(p, "ack", 0) /\ UNCHANGED <<disk, delivered, faults>>
      /\ sessions' = [sessions EXCEPT ![p].stage = next] /\ sessions[p].stage = Before(type)
  BY <1>1 DEF HandleInOrder
<1>3. PICK k \in LinkState :
        /\ link' = [link EXCEPT ![p] = k] /\ k.state = "answer" /\ k.type = "ack"
        /\ k.at = 0 /\ k.net = link[p].net
  BY <1>2, ResponseIs
<1>4. owed' \in [Peer -> SUBSET {"last", "old"}] /\ UNCHANGED <<send, task, path, others>>
  BY <1>2, ResponseIs
<1>5. PICK x : x = [sessions[p] EXCEPT !.stage = next]
  OBVIOUS
<1>6. /\ path = "running" /\ link[p].state = "request" /\ link[p].type = type
      /\ link[p] \in LinkState /\ sessions[p] \in SessionState
      /\ RequestOK(link[p], sessions[p], Size[Named(p)])
      /\ Asks(task[p]) =>
           /\ task[p].pc = type /\ task[p].pos = link[p].at + link[p].len
           /\ task[p].pos <= Size[Named(p)]
  BY <1>2, ReceivedFacts
<1>7. /\ x \in SessionState /\ x.stage = next /\ x.offset = sessions[p].offset
      /\ sessions' = [sessions EXCEPT ![p] = x]
  BY <1>2, <1>5, <1>6 DEF SessionState
<1>8. Asks(task[p]) => x.offset = task[p].pos
  <2>1. link[p].at \in Nat /\ link[p].len = 0 /\ sessions[p].offset = link[p].at
    BY <1>6 DEF RequestOK, LinkState
  <2> QED
    BY <1>6, <1>7, <2>1
<1>9. PeerOK(task[p], k, x, Size[Named(p)])
  <2>1. Asks(task[p]) => ResponseOK(task[p], k, x, Size[Named(p)])
    BY <1>1, <1>3, <1>6, <1>7, <1>8 DEF ResponseOK
  <2> QED
    BY <1>3, <1>6, <2>1, AnswerOK
<1>10. disk \in [Resource -> Dir] /\ \A r \in Resource : DirInv(disk[r])
  BY DEF NamedInv, TypeOK
<1>11. \A r \in Resource \ mixed' : LoneOK(r)'
  <2>0. sessions \in [Peer -> SessionState] /\ link \in [Peer -> LinkState]
    BY DEF NamedInv, TypeOK
  <2>1. Active(p)
    BY <1>1, <1>2, <1>6 DEF Active, Before
  <2>2. \A q \in Peer \ {p} : sessions'[q] = sessions[q] /\ link'[q] = link[q]
    BY <1>3, <1>7, <2>0
  <2>3. sessions'[p].offset = sessions[p].offset
    BY <1>7, <2>0
  <2>4. \A q \in Peer : Active(q)' => Active(q) /\ sessions'[q].offset = sessions[q].offset
    BY <1>4, <2>1, <2>2, <2>3 DEF Active, Waiting
  <2>5. mixed \subseteq mixed' /\ disk' = disk
    BY <1>2, MixedStep DEF NamedInv
  <2> QED
    BY <2>4, <2>5, StillLone
<1> QED
  BY <1>2, <1>3, <1>4, <1>6, <1>7, <1>9, <1>10, <1>11 DEF Serves

\* A chunk is appended.
LEMMA ChunkKind ==
  ASSUME NamedInv, [Next]_vars, NEW p \in Peer, HandleChunk(p)
  PROVE  \E x, k : Serves(p, x, k)
<1>1. Named(p) \in Resource /\ Size[Named(p)] \in Nat
  BY PeerFacts
<1>2. PICK r \in Resource : r = Named(p)
  BY <1>1
<1>3. /\ Received(p, "chunk") /\ Respond(p, "ack", 0) /\ sessions[p].stage = "body"
      /\ UNCHANGED <<delivered, faults>>
  BY DEF HandleChunk
<1>4. PICK k \in LinkState :
        /\ link' = [link EXCEPT ![p] = k] /\ k.state = "answer" /\ k.type = "ack"
        /\ k.at = 0 /\ k.net = link[p].net
  BY <1>3, ResponseIs
<1>5. owed' \in [Peer -> SUBSET {"last", "old"}] /\ UNCHANGED <<send, task, path, others>>
  BY <1>3, ResponseIs
<1>6. /\ path = "running" /\ link[p].state = "request" /\ link[p].type = "chunk"
      /\ link[p] \in LinkState /\ sessions[p] \in SessionState
      /\ RequestOK(link[p], sessions[p], Size[Named(p)])
      /\ Asks(task[p]) =>
           /\ task[p].pc = "chunk" /\ task[p].pos = link[p].at + link[p].len
           /\ task[p].pos <= Size[Named(p)]
  BY <1>3, ReceivedFacts
<1>7. PICK at \in Nat, len \in Nat : at = link[p].at /\ len = link[p].len
  BY <1>6 DEF LinkState
<1>8. sessions[p].offset = at /\ at + len <= Size[r]
  BY <1>2, <1>6, <1>7 DEF RequestOK
<1>9. PICK offset \in Nat : offset = at + len
  BY <1>7
<1>10. PICK x : x = [sessions[p] EXCEPT !.offset = offset]
  OBVIOUS
<1>11. /\ x \in SessionState /\ x.stage = "body" /\ x.offset = offset
  BY <1>3, <1>6, <1>10 DEF SessionState
<1>12. PICK b : b = Bytes(at, len)
  OBVIOUS
<1>13. b \in Seq(Nat)
  BY <1>7, <1>12, BytesType
<1>14. disk \in [Resource -> Dir] /\ \A q \in Resource : DirInv(disk[q])
  BY DEF NamedInv, TypeOK
<1>15. PICK d : d = AppendChunk(disk[r], b, offset, 0)
  OBVIOUS
<1>16. DirInv(d)
  BY <1>13, <1>14, <1>15, AppendDirInv
<1>17. disk' = [disk EXCEPT ![r] = d] /\ sessions' = [sessions EXCEPT ![p] = x]
  BY <1>2, <1>7, <1>8, <1>9, <1>10, <1>12, <1>14, <1>15 DEF HandleChunk
<1>18. disk'[r] = d /\ \A q \in Resource \ {r} : disk'[q] = disk[q]
  BY <1>14, <1>17
<1>19. disk' \in [Resource -> Dir] /\ \A q \in Resource : DirInv(disk'[q])
  BY <1>14, <1>16, <1>17, <1>18 DEF DirInv, DirOK
<1>20. PeerOK(task[p], k, x, Size[Named(p)])
  <2>1. Asks(task[p]) => ResponseOK(task[p], k, x, Size[Named(p)])
    BY <1>4, <1>6, <1>7, <1>9, <1>11 DEF ResponseOK, After
  <2> QED
    BY <1>4, <1>6, <2>1, AnswerOK
<1>21. \A q \in Resource \ mixed' : LoneOK(q)'
  <2> SUFFICES ASSUME NEW q \in Resource \ mixed'
               PROVE  LoneOK(q)'
    OBVIOUS
  <2>1. LoneOK(q)
    BY MixedStep DEF NamedInv
  <2>2. Active(p)
    BY <1>3, <1>6 DEF Active
  <2>3. sessions \in [Peer -> SessionState] /\ link \in [Peer -> LinkState]
    BY DEF NamedInv, TypeOK
  <2>4. \A s \in Peer \ {p} : sessions'[s] = sessions[s] /\ link'[s] = link[s]
    BY <1>4, <1>17, <2>3
  <2>5. \A s \in Peer \ {p} : Active(s)' => Active(s)
    BY <1>5, <2>4 DEF Active, Waiting
  <2>6. \A s \in Peer : Named(s)' = Named(s)
    BY DEF Named
  <2>7. CASE q = r
    <3>1. "meta" \in disk[r].files /\ Len(disk[r].part) = at /\ InOrder(disk[r], r)
      BY <1>2, <1>8, <2>1, <2>2, <2>7 DEF LoneOK
    <3>2. InOrder(d, r) /\ "meta" \in d.files /\ Len(d.part) = offset
      BY <1>8, <1>9, <1>12, <1>14, <1>15, <3>1, AppendInOrder
    <3>3. ASSUME NEW s \in Peer, Named(s) = r, Active(s)' PROVE s = p
      BY <1>2, <2>2, <2>5, <2>7, <3>3, OnlyOne
    <3>4. sessions'[p].offset = offset
      BY <1>11, <1>17, <2>3
    <3> QED
      BY <1>18, <2>6, <2>7, <3>2, <3>3, <3>4 DEF LoneOK
  <2>8. CASE q # r
    <3>1. \A s \in Peer : Named(s) = q => s # p
      BY <1>2, <2>8
    <3> QED
      BY <1>18, <2>1, <2>4, <2>5, <2>6, <2>8, <3>1 DEF LoneOK
  <2> QED
    BY <2>7, <2>8
<1> QED
  BY <1>3, <1>4, <1>5, <1>6, <1>11, <1>17, <1>19, <1>20, <1>21 DEF Serves

\* The archive is unpacked, or cannot be.
LEMMA DoneKind ==
  ASSUME NamedInv, [Next]_vars, NEW p \in Peer, HandleDone(p) \/ HandleDoneUnpackError(p)
  PROVE  \E x, k : Serves(p, x, k)
<1>1. Named(p) \in Resource /\ Size[Named(p)] \in Nat
  BY PeerFacts
<1>2. PICK r \in Resource : r = Named(p)
  BY <1>1
<1>3. PICK type \in {"ack", "error"}, next \in {"result", "error"} :
        /\ type = "ack" => next = "result"
        /\ AtDone(p, "whole") /\ RemoveOwn(p) /\ Respond(p, type, 0)
        /\ sessions' = [sessions EXCEPT ![p].stage = next]
        /\ \/ /\ type = "ack" /\ faults' = faults
              /\ delivered' = [delivered EXCEPT ![p[1]] = delivered[p[1]] + 1]
           \/ /\ type = "error" /\ delivered' = delivered
              /\ faults < MaxFaults /\ faults' = faults + 1
  BY DEF HandleDone, HandleDoneUnpackError, Fault
<1>4. Received(p, "done") /\ sessions[p].stage = "body"
  BY <1>3 DEF AtDone
<1>5. PICK k \in LinkState :
        /\ link' = [link EXCEPT ![p] = k] /\ k.state = "answer" /\ k.type = type
        /\ k.at = 0 /\ k.net = link[p].net
  BY <1>3, ResponseIs
<1>6. owed' \in [Peer -> SUBSET {"last", "old"}] /\ UNCHANGED <<send, task, path, others>>
  BY <1>3, ResponseIs
<1>7. /\ path = "running" /\ link[p].state = "request" /\ link[p].type = "done"
      /\ link[p] \in LinkState /\ sessions[p] \in SessionState
      /\ RequestOK(link[p], sessions[p], Size[Named(p)])
      /\ Asks(task[p]) =>
           /\ task[p].pc = "done" /\ task[p].pos = link[p].at + link[p].len
           /\ task[p].pos <= Size[Named(p)] /\ task[p].pos = Size[Named(p)]
  BY <1>4, ReceivedFacts
<1>8. PICK x : x = [sessions[p] EXCEPT !.stage = next]
  OBVIOUS
<1>9. /\ x \in SessionState /\ x.stage = next /\ x.offset = sessions[p].offset
      /\ sessions' = [sessions EXCEPT ![p] = x]
  BY <1>3, <1>7, <1>8 DEF SessionState
<1>10. Asks(task[p]) => x.offset = task[p].pos
  <2>1. link[p].at \in Nat /\ link[p].len = 0 /\ sessions[p].offset = link[p].at
    BY <1>7 DEF RequestOK, LinkState
  <2> QED
    BY <1>7, <1>9, <2>1
<1>11. PeerOK(task[p], k, x, Size[Named(p)])
  <2>1. Asks(task[p]) => ResponseOK(task[p], k, x, Size[Named(p)])
    BY <1>3, <1>5, <1>7, <1>9, <1>10 DEF ResponseOK, After
  <2> QED
    BY <1>5, <1>7, <2>1, AnswerOK
<1>12. disk \in [Resource -> Dir] /\ \A q \in Resource : DirInv(disk[q])
  BY DEF NamedInv, TypeOK
<1>13. PICK d : d = RemovePartial(disk[r])
  OBVIOUS
<1>14. DirInv(d) /\ InOrder(d, r)
  BY <1>12, <1>13, Removed
<1>15. disk' = [disk EXCEPT ![r] = d]
  BY <1>2, <1>3, <1>12, <1>13 DEF RemoveOwn
<1>16. disk'[r] = d /\ \A q \in Resource \ {r} : disk'[q] = disk[q]
  BY <1>12, <1>15
<1>17. disk' \in [Resource -> Dir] /\ \A q \in Resource : DirInv(disk'[q])
  BY <1>12, <1>14, <1>15, <1>16 DEF DirInv, DirOK
<1>18. \A q \in Resource \ mixed' : LoneOK(q)'
  <2> SUFFICES ASSUME NEW q \in Resource \ mixed'
               PROVE  LoneOK(q)'
    OBVIOUS
  <2>1. LoneOK(q)
    BY MixedStep DEF NamedInv
  <2>2. Active(p)
    BY <1>4, <1>7 DEF Active
  <2>3. sessions \in [Peer -> SessionState] /\ link \in [Peer -> LinkState]
    BY DEF NamedInv, TypeOK
  <2>4. \A s \in Peer \ {p} : sessions'[s] = sessions[s] /\ link'[s] = link[s]
    BY <1>5, <1>9, <2>3
  <2>5. \A s \in Peer \ {p} : Active(s)' => Active(s)
    BY <1>6, <2>4 DEF Active, Waiting
  <2>6. \A s \in Peer : Named(s)' = Named(s)
    BY DEF Named
  <2>7. ~Active(p)'
    <3>1. sessions'[p] = x
      BY <1>9, <2>3
    <3> QED
      BY <1>3, <1>9, <3>1 DEF Active
  <2>8. CASE q = r
    <3>1. ASSUME NEW s \in Peer, Named(s) = r, Active(s)' PROVE FALSE
      <4>1. s # p
        BY <2>7, <3>1
      <4> QED
        BY <1>2, <2>2, <2>5, <2>8, <3>1, <4>1, OnlyOne
    <3> QED
      BY <1>14, <1>16, <2>6, <2>8, <3>1 DEF LoneOK
  <2>9. CASE q # r
    <3>1. \A s \in Peer : Named(s) = q => s # p
      BY <1>2, <2>9
    <3> QED
      BY <1>16, <2>1, <2>4, <2>5, <2>6, <2>9, <3>1 DEF LoneOK
  <2> QED
    BY <2>8, <2>9
<1> QED
  BY <1>3, <1>5, <1>6, <1>7, <1>9, <1>11, <1>17, <1>18 DEF Serves

\* A response goes out, or the connection breaks.
LEMMA MoveKinds ==
  ASSUME NamedInv, NEW p \in Peer, WriteResponse(p) \/ InboundFailure(p) \/ Break(p)
  PROVE  \E k : Moves(p, k)
<1>1. /\ link \in [Peer -> LinkState] /\ owed \in [Peer -> SUBSET {"last", "old"}]
      /\ PeerOK(task[p], link[p], sessions[p], Size[Named(p)])
  BY DEF NamedInv, TypeOK
<1>2. PICK j \in LinkState : j = link[p]
  BY <1>1
<1>3. Waiting(p) <=> Asks(task[p])
  BY DEF Waiting, Asks
<1>4. PICK w : w = [j EXCEPT !.state = "written"]
  OBVIOUS
<1>5. /\ w \in LinkState /\ w.state = "written" /\ w.type = j.type /\ w.at = j.at
      /\ w.net = j.net
  BY <1>4 DEF LinkState
<1>6. PICK d : d = [j EXCEPT !.state = "dead", !.net = "cut"]
  OBVIOUS
<1>7. d \in LinkState /\ d.state = "dead"
  BY <1>6 DEF LinkState
<1>8. PeerOK(task[p], d, sessions[p], Size[Named(p)])
  BY <1>1, <1>7 DEF PeerOK
<1>9. ASSUME ~Waiting(p) PROVE PeerOK(task[p], NoLink, sessions[p], Size[Named(p)])
  BY <1>3, <1>9, Records DEF PeerOK
<1>10. CASE WriteResponse(p)
  <2>1. /\ link[p].state = "answer" /\ owed' = owed /\ faults' = faults
        /\ link' = [link EXCEPT ![p] = IF Waiting(p) THEN w ELSE NoLink]
        /\ UNCHANGED <<disk, send, task, path, sessions, delivered, others>>
    BY <1>1, <1>2, <1>4, <1>10 DEF WriteResponse
  <2>2. CASE Waiting(p)
    <3>1. ResponseOK(task[p], w, sessions[p], Size[Named(p)])
      BY <1>1, <1>2, <1>3, <1>5, <2>1, <2>2 DEF PeerOK, ResponseOK
    <3>2. PeerOK(task[p], w, sessions[p], Size[Named(p)])
      BY <1>1, <1>5, <3>1 DEF PeerOK
    <3> QED
      BY <1>1, <1>2, <1>5, <2>1, <2>2, <3>2 DEF Moves
  <2>3. CASE ~Waiting(p)
    BY <1>1, <1>9, <2>1, <2>3, Records DEF Moves
  <2> QED
    BY <2>2, <2>3
<1>11. CASE InboundFailure(p)
  <2>1. /\ link[p].state = "answer"
        /\ IF Waiting(p) THEN faults < MaxFaults /\ faults' = faults + 1 ELSE faults' = faults
        /\ link' = [link EXCEPT ![p] = IF Waiting(p) THEN d ELSE NoLink]
        /\ UNCHANGED <<disk, send, task, path, sessions, delivered, others>>
    BY <1>1, <1>2, <1>6, <1>11 DEF InboundFailure, Fault
  <2>2. owed' \in [Peer -> SUBSET {"last", "old"}]
    BY <1>1, <1>11 DEF InboundFailure
  <2>3. CASE Waiting(p)
    BY <1>7, <1>8, <2>1, <2>2, <2>3 DEF Moves
  <2>4. CASE ~Waiting(p)
    BY <1>9, <2>1, <2>2, <2>4, Records DEF Moves
  <2> QED
    BY <2>3, <2>4
<1>12. CASE Break(p)
  <2>1. /\ Waiting(p) /\ faults < MaxFaults /\ faults' = faults + 1 /\ owed' = owed
        /\ link' = [link EXCEPT ![p] = d]
        /\ UNCHANGED <<disk, send, task, path, sessions, delivered, others>>
    BY <1>1, <1>2, <1>6, <1>12 DEF Break, Fault
  <2> QED
    BY <1>1, <1>7, <1>8, <2>1 DEF Moves
<1> QED
  BY <1>10, <1>11, <1>12

\* A response is noted as sent.
LEMMA NoteKinds ==
  ASSUME NamedInv, NEW p \in Peer, NEW which \in {"last", "old"}, ResponseSent(p, which)
  PROVE  \E x : Notes(p, x)
<1>1. sessions \in [Peer -> SessionState] /\ owed \in [Peer -> SUBSET {"last", "old"}]
  BY DEF NamedInv, TypeOK
<1>2. owed' \in [Peer -> SUBSET {"last", "old"}]
  BY <1>1 DEF ResponseSent
<1>3. UNCHANGED <<disk, send, task, link, path, delivered, others, faults>>
  BY DEF ResponseSent
<1>4. CASE sessions[p].stage = "error" /\ which = "last"
  <2>1. sessions' = [sessions EXCEPT ![p] = NoSession]
    BY <1>4 DEF ResponseSent
  <2> QED
    BY <1>2, <1>3, <1>4, <2>1 DEF Notes
<1>5. CASE ~(sessions[p].stage = "error" /\ which = "last")
  <2>1. sessions' = sessions
    BY <1>5 DEF ResponseSent
  <2>2. sessions' = [sessions EXCEPT ![p] = sessions[p]]
    BY <1>1, <2>1
  <2> QED
    BY <1>2, <1>3, <2>2 DEF Notes
<1> QED
  BY <1>4, <1>5

\* What is lost with a round.
LEMMA DropFacts ==
  ASSUME DropRound
  PROVE  /\ sessions' = [p \in Peer |-> NoSession] /\ owed' = [p \in Peer |-> {}]
         /\ link' = [p \in Peer |-> IF Waiting(p) THEN Lost(link[p]) ELSE NoLink]
  BY DEF DropRound, Lost

\* While no two sessions share an archive, every partial is in order.
LEMMA StillInOrder ==
  ASSUME NamedInv, [Next]_vars
  PROVE  /\ \A r \in Resource \ mixed' : InOrder(disk[r], r)
         /\ \A r \in Resource : DirInv(disk[r]) /\ DirInv(RemovePartial(disk[r]))
                                /\ InOrder(RemovePartial(disk[r]), r)
         /\ disk \in [Resource -> Dir] /\ others \in [Sender -> Nat]
<1>1. /\ \A r \in Resource \ mixed : LoneOK(r)
      /\ \A r \in Resource : DirInv(disk[r])
      /\ disk \in [Resource -> Dir] /\ others \in [Sender -> Nat]
  BY DEF NamedInv, TypeOK
<1>2. mixed \subseteq mixed'
  BY MixedStep DEF NamedInv
<1> QED
  BY <1>1, <1>2, Removed DEF LoneOK

\* A request finds its partial as long as it expects, or shared.
LEMMA PartialThere ==
  ASSUME NamedInv, NEW p \in Peer, NEW type \in {"chunk", "done"}, Received(p, type),
         Named(p) \notin mixed
  PROVE  /\ InOrder(disk[Named(p)], Named(p)) /\ "meta" \in disk[Named(p)].files
         /\ Len(disk[Named(p)].part) = link[p].at
         /\ type = "done" => link[p].at = Size[Named(p)]
<1>1. /\ link[p].state = "request" /\ link[p].type = type
      /\ RequestOK(link[p], sessions[p], Size[Named(p)])
  BY ReceivedFacts
<1>2. sessions[p].stage = "body" /\ sessions[p].offset = link[p].at
      /\ (type = "done" => link[p].at = Size[Named(p)])
  BY <1>1 DEF RequestOK, Before
<1>3. Active(p)
  BY <1>1, <1>2 DEF Active
<1>4. LoneOK(Named(p))
  BY PeerFacts DEF NamedInv
<1> QED
  BY <1>2, <1>3, <1>4 DEF LoneOK

\* The errors of handle_inbound_request need an archive that two share.
LEMMA FailKinds ==
  ASSUME NamedInv, [Next]_vars, NEW p \in Peer, HandleChunkFails(p) \/ HandleDoneFails(p)
  PROVE  RoundOver
<1>1. Named(p) \in Resource
  BY PeerFacts
<1>2. PathFails /\ UNCHANGED <<delivered, faults>>
  BY DEF HandleChunkFails, HandleDoneFails
<1>3. /\ DropRound /\ path' = "stopped" /\ UNCHANGED <<send, task, others>>
  BY <1>2 DEF PathFails
<1>4. Named(p) \in mixed
  <2> SUFFICES ASSUME Named(p) \notin mixed PROVE FALSE
    OBVIOUS
  <2>1. CASE HandleChunkFails(p)
    <3>1. Received(p, "chunk") /\ disk[Named(p)].files = {}
      BY <2>1 DEF HandleChunkFails, CanAppend
    <3> QED
      BY <3>1, PartialThere
  <2>2. CASE HandleDoneFails(p)
    <3>1. Received(p, "done") /\ CompletePartial(disk[Named(p)], Named(p)) # "whole"
      BY <2>2 DEF HandleDoneFails, AtDone
    <3>2. InOrder(disk[Named(p)], Named(p)) /\ Len(disk[Named(p)].part) = Size[Named(p)]
      BY <3>1, PartialThere
    <3>3. DirInv(disk[Named(p)])
      BY <1>1 DEF NamedInv
    <3> QED
      BY <1>1, <3>1, <3>2, <3>3, FullIsWhole
  <2> QED
    BY <2>1, <2>2
<1>5. /\ \A r \in Resource \ mixed' : InOrder(disk[r], r)
      /\ \A r \in Resource : DirInv(disk[r]) /\ DirInv(RemovePartial(disk[r]))
                             /\ InOrder(RemovePartial(disk[r]), r)
      /\ disk \in [Resource -> Dir] /\ others \in [Sender -> Nat]
  BY StillInOrder
<1>6. /\ disk' \in [Resource -> Dir] /\ \A r \in Resource : DirInv(disk'[r])
      /\ \A r \in Resource \ mixed' : InOrder(disk'[r], r)
  <2>1. disk' = disk \/ RemoveOwn(p)
    BY DEF HandleChunkFails, HandleDoneFails
  <2>2. CASE disk' = disk
    BY <1>5, <2>2
  <2>3. CASE RemoveOwn(p)
    <3>1. PICK d : d = RemovePartial(disk[Named(p)])
      OBVIOUS
    <3>2. disk' = [disk EXCEPT ![Named(p)] = d]
      BY <1>5, <2>3, <3>1 DEF RemoveOwn
    <3>3. DirInv(d) /\ InOrder(d, Named(p))
      BY <1>1, <1>5, <3>1
    <3>4. d \in Dir
      BY <3>3 DEF DirInv, DirOK
    <3> QED
      BY <1>1, <1>5, <3>2, <3>3, <3>4
  <2> QED
    BY <2>1, <2>2, <2>3
<1>7. mixed # {}
  BY <1>4
<1> QED
  BY <1>2, <1>3, <1>5, <1>6, <1>7, DropFacts DEF RoundOver

\* The rounds that end well.
LEMMA ReturnKinds ==
  ASSUME NamedInv, [Next]_vars,
         OtherPathReturns \/ \E p \in Peer, which \in {"last", "old"} : ReturnTransfer(p, which)
  PROVE  RoundOver
<1>1. /\ \A r \in Resource \ mixed' : InOrder(disk[r], r)
      /\ \A r \in Resource : DirInv(disk[r])
      /\ disk \in [Resource -> Dir] /\ others \in [Sender -> Nat]
  BY StillInOrder
<1>2. CASE OtherPathReturns
  BY <1>1, <1>2, DropFacts DEF OtherPathReturns, Fault, RoundOver
<1>3. CASE \E p \in Peer, which \in {"last", "old"} : ReturnTransfer(p, which)
  <2>1. PICK p \in Peer, which \in {"last", "old"} : ReturnTransfer(p, which)
    BY <1>3
  <2>2. /\ Returns(p) /\ DropRound
        /\ UNCHANGED <<disk, send, task, path, delivered, faults>>
    BY <2>1 DEF ReturnTransfer, Matches, Returns
  <2>3. \A s \in Sender : others[s] + 1 \in Nat
    BY <1>1
  <2>4. others' \in [Sender -> Nat]
    BY <1>1, <2>2, <2>3 DEF Returns
  <2> QED
    BY <1>1, <2>2, <2>4, DropFacts DEF RoundOver
<1> QED
  BY <1>2, <1>3

-------------------------------------------------------------------------------
(* The invariant. *)

\* What a step does.
LEMMA StepKinds ==
  ASSUME NamedInv, [Next]_vars
  PROVE  \/ \E p \in Peer : (\E t, k : Proceeds(p, t, k)) \/ GivesUp(p)
         \/ \E s \in Sender : Ends(s) \/ Counts(s) \/ StartAttempt(s)
         \/ \E p \in Peer :
              (\E x, k : Serves(p, x, k)) \/ (\E k : Moves(p, k)) \/ (\E x : Notes(p, x))
         \/ RoundOver
         \/ UNCHANGED <<disk, send, task, link, path, sessions, owed, delivered, others, faults>>
<1>1. ASSUME NEW s \in Sender, SenderStep(s)
      PROVE  \/ \E p \in Peer : (\E t, k : Proceeds(p, t, k)) \/ GivesUp(p)
             \/ \E r \in Sender : Ends(r) \/ Counts(r) \/ StartAttempt(r)
  <2>1. ASSUME NEW p \in Peer, TaskStep(p)
        PROVE  \/ \E q \in Peer : (\E t, k : Proceeds(q, t, k)) \/ GivesUp(q)
               \/ \E r \in Sender : Ends(r) \/ Counts(r) \/ StartAttempt(r)
    <3>1. p[1] \in Sender
      BY PeerFacts
    <3> QED
      BY <2>1, <3>1, ProceedKinds, GiveUpKinds, EndKinds DEF TaskStep
  <2>2. {s} \X (1..MaxAttempts) \X Route \subseteq Peer
    BY DEF Peer
  <2> QED
    BY <1>1, <2>1, <2>2, CountKinds DEF SenderStep
<1>2. ASSUME NEW p \in Peer, SwarmStep(p)
      PROVE  \/ (\E x, k : Serves(p, x, k)) \/ (\E k : Moves(p, k)) \/ (\E x : Notes(p, x))
             \/ RoundOver
  <2>1. CASE HandleIntro(p) \/ HandleFinish(p) \/ HandleHeader(p) \/ HandleChunk(p) \/ HandleDone(p)
    BY <2>1, IntroKind, InOrderKind, ChunkKind, DoneKind
  <2>2. CASE HandleChunkFails(p) \/ HandleDoneFails(p)
    BY <2>2, FailKinds
  <2>3. CASE WriteResponse(p)
    BY <2>3, MoveKinds
  <2>4. CASE \E which \in {"last", "old"} : ReturnTransfer(p, which) \/ ResponseSent(p, which)
    BY <2>4, ReturnKinds, NoteKinds
  <2> QED
    BY <1>2, <2>1, <2>2, <2>3, <2>4 DEF SwarmStep
<1>3. ASSUME NEW s \in Sender, DiscoverNothing(s) \/ Quit(s)
      PROVE  \E r \in Sender : Ends(r) \/ Counts(r)
  <2>1. CASE DiscoverNothing(s)
    BY <2>1, CountKinds
  <2>2. CASE Quit(s)
    <3>1. PICK n \in 1..MaxAttempts, u \in Route : TRUE
      BY NamedAssumption
    <3>2. <<s, n, u>> \in Peer
      BY DEF Peer
    <3> QED
      BY <2>2, <3>2, EndKinds
  <2> QED
    BY <1>3, <2>1, <2>2
<1>4. ASSUME NEW p \in Peer,
             RequestTimeout(p) \/ HandleDoneUnpackError(p) \/ InboundFailure(p) \/ Break(p)
      PROVE  GivesUp(p) \/ (\E x, k : Serves(p, x, k)) \/ (\E k : Moves(p, k))
  BY <1>4, GiveUpKinds, DoneKind, MoveKinds
<1>5. CASE FaultStep
  BY <1>3, <1>4, <1>5, ReturnKinds DEF FaultStep
<1>6. CASE Finished \/ UNCHANGED vars
  BY <1>6 DEF Finished, vars
<1> QED
  BY <1>1, <1>2, <1>5, <1>6 DEF Next

\* Every step keeps the invariant.
LEMMA NamedNext == NamedInv /\ [Next]_vars => NamedInv'
<1> SUFFICES ASSUME NamedInv, [Next]_vars
             PROVE  NamedInv'
  OBVIOUS
<1>1. CASE UNCHANGED <<disk, send, task, link, path, sessions, owed, delivered, others, faults>>
  <2>1. TypeOK
    BY DEF NamedInv
  <2>2. UNCHANGED <<send, task>> /\ Quietly /\ link' = link /\ faults' = faults
    BY <1>1 DEF Quietly
  <2>3. sessions' = sessions
    BY <1>1
  <2>4. \A p \in Peer : Active(p)' => Active(p)
    BY <2>2, <2>3 DEF Active, Waiting
  <2>5. \A p \in Peer : LoopOK(p)'
    BY <2>2, <2>3 DEF NamedInv, LoopOK, Waiting
  <2>6. \A p \in Peer : PeerOK(task'[p], link'[p], sessions'[p], Size[Named(p)])
    BY <2>2, <2>3 DEF NamedInv
  <2>7. /\ send' \in [Sender -> SendState] /\ task' \in [Peer -> TaskState]
        /\ link' \in [Peer -> LinkState] /\ faults' \in 0..MaxFaults
        /\ \A s \in Sender : send'[s].pc = "idle" => send'[s].tries < MaxAttempts
    BY <2>1, <2>2 DEF NamedInv, TypeOK
  <2> QED
    BY <2>2, <2>4, <2>5, <2>6, <2>7, QuietRule
<1> QED
  BY <1>1, StepKinds, ProceedsInv, GivesUpInv, EndsInv, CountsInv, StartInv, ServesInv, MovesInv,
     NotesInv, RoundOverInv

\* It holds at first.
LEMMA NamedInit == Init => NamedInv
<1> SUFFICES ASSUME Init
             PROVE  NamedInv
  OBVIOUS
<1>1. PICK e : e = [pc |-> "idle", tries |-> 0, wording |-> "plain"]
  OBVIOUS
<1>2. MaxAttempts \in Nat \ {0} /\ MaxFaults \in Nat
  BY NamedAssumption
<1>3. e \in SendState /\ e.pc = "idle" /\ e.tries = 0
  BY <1>1, <1>2 DEF SendState
<1>4. /\ disk = [r \in Resource |-> EmptyDir] /\ send = [s \in Sender |-> e]
      /\ task = [p \in Peer |-> Off] /\ link = [p \in Peer |-> NoLink]
      /\ path = "running" /\ sessions = [p \in Peer |-> NoSession]
      /\ owed = [p \in Peer |-> {}] /\ delivered = [s \in Sender |-> 0]
      /\ others = [s \in Sender |-> 0] /\ faults = 0 /\ mixed = {}
  BY <1>1 DEF Init
<1>5. DirInv(EmptyDir) /\ EmptyDir \in Dir
  BY EmptyDirOK DEF DirInv, DirOK, EmptyDir
<1>6. TypeOK
  BY <1>2, <1>3, <1>4, <1>5, Records DEF TypeOK
<1>7. ASSUME NEW p \in Peer
      PROVE  LoopOK(p) /\ PeerOK(task[p], link[p], sessions[p], Size[Named(p)]) /\ ~Active(p)
  <2>1. task[p] = Off /\ link[p] = NoLink /\ sessions[p] = NoSession
    BY <1>4
  <2>2. ~Waiting(p)
    BY <2>1, Records DEF Waiting, Asks
  <2> QED
    BY <2>1, <2>2, Records DEF LoopOK, PeerOK, Active
<1>8. \A r \in Resource : LoneOK(r) /\ DirInv(disk[r])
  <2>1. \A r \in Resource : InOrder(EmptyDir, r)
    BY EmptyDirOK, EmptyIntact DEF InOrder
  <2> QED
    BY <1>4, <1>5, <1>7, <2>1 DEF LoneOK
<1> QED
  BY <1>2, <1>3, <1>4, <1>6, <1>7, <1>8 DEF NamedInv, MixedOK, PathSurvives

\* The invariant of the specification.
THEOREM NamedInvariant == Spec => []NamedInv
BY NamedInit, NamedNext, PTL DEF Spec

\* The errors of handle_inbound_request, which end the path for all peers, stay
\* out of reach for whatever resumes, repetitions, late requests, broken
\* connections and dropped rounds, as long as no two sessions receive the same
\* archive at once.
THEOREM PathKeepsRunning == Spec => []PathSurvives
<1>1. NamedInv => PathSurvives
  BY DEF NamedInv
<1> QED
  BY <1>1, NamedInvariant, PTL

-------------------------------------------------------------------------------
(* The causes of a failure. *)

\* The counts of the history only grow.
LEMMA Grows ==
  ASSUME NamedInv, [Next]_vars
  PROVE  /\ faults' = faults \/ faults' = faults + 1
         /\ others' = others \/ RoundOver
         /\ \A s \in Sender : others'[s] = others[s] \/ others'[s] = others[s] + 1
<1>1. CASE RoundOver
  BY <1>1 DEF RoundOver, Returns
<1>2. CASE \E p \in Peer : (\E t, k : Proceeds(p, t, k)) \/ GivesUp(p)
  BY <1>2 DEF Proceeds, GivesUp, Quietly
<1>3. CASE \E s \in Sender : Ends(s) \/ Counts(s) \/ StartAttempt(s)
  BY <1>3 DEF Ends, Counts, StartAttempt, Quietly
<1>4. CASE \E p \in Peer :
             (\E x, k : Serves(p, x, k)) \/ (\E k : Moves(p, k)) \/ (\E x : Notes(p, x))
  BY <1>4 DEF Serves, Moves, Notes
<1> QED
  BY <1>1, <1>2, <1>3, <1>4, StepKinds

\* A sender that meets no cause has met none before.
LEMMA StillClean ==
  ASSUME NamedInv, [Next]_vars, NEW s \in Sender, Clean(s)'
  PROVE  Clean(s) /\ faults' = faults
<1>1. faults \in Nat /\ others[s] \in Nat
  BY TypeFacts DEF NamedInv
<1>2. mixed \subseteq mixed'
  BY MixedStep DEF NamedInv
<1> QED
  BY <1>1, <1>2, Grows DEF Clean

\* The routes of an attempt of a sender that has met no cause.
LEMMA CleanAttempt ==
  ASSUME NamedInv, NEW s \in Sender, send[s].tries = 1
  PROVE  /\ AttemptOf(s) # {} /\ AttemptOf(s) \subseteq Peer
         /\ \A p \in AttemptOf(s) : p[1] = s /\ p[2] = 1
         /\ \A p \in Peer : p[1] = s /\ Waiting(p) => p \in AttemptOf(s)
<1>1. Route # {} /\ 1 \in 1..MaxAttempts
  BY NamedAssumption
<1>2. AttemptOf(s) = {s} \X {1} \X Route
  BY DEF AttemptOf
<1>3. \A p \in Peer : p[1] = s /\ Waiting(p) => p[2] = 1
  BY DEF NamedInv, LoopOK
<1>4. \A p : p \in AttemptOf(s) => p[1] = s /\ p[2] = 1 /\ p \in Peer
  BY <1>1, <1>2 DEF Peer
<1>5. \A p \in Peer : p[1] = s /\ p[2] = 1 => p \in AttemptOf(s)
  BY <1>2, PeerFacts
<1>6. AttemptOf(s) # {}
  <2>1. PICK u \in Route : TRUE
    BY <1>1
  <2>2. <<s, 1, u>> \in {s} \X {1} \X Route
    OBVIOUS
  <2> QED
    BY <1>2, <2>2
<1> QED
  BY <1>3, <1>4, <1>5, <1>6

\* Where its routes keep what they have.
LEMMA CleanRule ==
  ASSUME NamedInv, NEW s \in Sender, CleanOK(s), Clean(s),
         send'[s].pc = send[s].pc, send'[s].tries = send[s].tries,
         \A p \in Peer : p[1] = s => (Healthy(p) => Healthy(p)') /\ (Acked(p) => Acked(p)')
  PROVE  CleanOK(s)'
<1>1. /\ send[s].pc # "failed"
      /\ send[s].pc = "idle" => send[s].tries = 0
      /\ send[s].pc = "trying" =>
           /\ send[s].tries = 1
           /\ (\A p \in AttemptOf(s) : Healthy(p)) \/ (\E p \in AttemptOf(s) : Acked(p))
  BY DEF CleanOK
<1>2. CASE send[s].pc = "trying"
  <2>1. AttemptOf(s)' = AttemptOf(s)
    BY DEF AttemptOf
  <2>2. \A p \in AttemptOf(s) : p \in Peer /\ p[1] = s
    BY <1>1, <1>2, CleanAttempt
  <2>3. (\A p \in AttemptOf(s) : Healthy(p)') \/ (\E p \in AttemptOf(s) : Acked(p)')
    BY <1>1, <1>2, <2>2
  <2> QED
    BY <1>1, <1>2, <2>1, <2>3 DEF CleanOK
<1>3. CASE send[s].pc # "trying"
  BY <1>1, <1>3 DEF CleanOK
<1> QED
  BY <1>2, <1>3

\* A route that moves without a fault keeps it.
LEMMA CleanSender ==
  ASSUME NamedInv, [Next]_vars, NEW s \in Sender, CleanOK(s), Clean(s), faults' = faults,
         NEW p \in Peer, (\E t, k : Proceeds(p, t, k)) \/ GivesUp(p)
  PROVE  CleanOK(s)'
<1>1. task \in [Peer -> TaskState] /\ link \in [Peer -> LinkState]
      /\ send \in [Sender -> SendState] /\ faults \in Nat
  BY TypeFacts DEF NamedInv, TypeOK
<1>2. ASSUME NEW t, NEW k, Proceeds(p, t, k)
      PROVE  CleanOK(s)'
  <2>1. /\ task[p].pc # "done" /\ link[p].state = "written"
        /\ task'[p] = t /\ link'[p] = k /\ Asks(t) /\ t \in TaskState
        /\ k.net = link[p].net /\ k.type = t.pc
        /\ k.state = IF k.net = "up" THEN "request" ELSE "dead"
        /\ \A q \in Peer \ {p} : task'[q] = task[q] /\ link'[q] = link[q]
        /\ send' = send
    BY <1>1, <1>2 DEF Proceeds
  <2>2. (Healthy(p) => Healthy(p)') /\ ~Acked(p)
    BY <2>1 DEF Healthy, Acked, Waiting, Asks, TaskState
  <2>3. \A q \in Peer \ {p} : (Healthy(q) => Healthy(q)') /\ (Acked(q) => Acked(q)')
    BY <2>1 DEF Healthy, Acked, Waiting
  <2> QED
    BY <2>1, <2>2, <2>3, CleanRule
<1>3. CASE GivesUp(p)
  <2>1. /\ link[p].state = "dead" \/ (link[p].state = "written" /\ link[p].type = "error")
        /\ \A q \in Peer \ {p} : task'[q] = task[q] /\ link'[q] = link[q]
        /\ send'[s].pc = send[s].pc /\ send'[s].tries = send[s].tries
    BY <1>1, <1>3 DEF GivesUp
  <2>2. ~Healthy(p) /\ ~Acked(p)
    BY <2>1 DEF Healthy, Acked
  <2>3. \A q \in Peer \ {p} : (Healthy(q) => Healthy(q)') /\ (Acked(q) => Acked(q)')
    BY <2>1 DEF Healthy, Acked, Waiting
  <2> QED
    BY <2>1, <2>2, <2>3, CleanRule
<1> QED
  BY <1>2, <1>3

\* A send ends well, and an attempt with nothing in its way does not fail.
LEMMA CleanLoop ==
  ASSUME NamedInv, [Next]_vars, NEW s \in Sender, CleanOK(s), Clean(s), faults' = faults,
         NEW r \in Sender, Ends(r) \/ Counts(r)
  PROVE  CleanOK(s)'
<1>1. task \in [Peer -> TaskState] /\ link \in [Peer -> LinkState]
      /\ send \in [Sender -> SendState] /\ faults \in Nat
  BY TypeFacts DEF NamedInv, TypeOK
<1>2. CASE r # s
  <2>1. send'[s] = send[s]
    BY <1>2 DEF Ends, Counts
  <2>2. \A p \in Peer : p[1] = s => task'[p] = task[p] /\ link'[p] = link[p]
    BY <1>2 DEF Ends, Counts
  <2>3. \A p \in Peer : p[1] = s => (Healthy(p) => Healthy(p)') /\ (Acked(p) => Acked(p)')
    BY <2>2 DEF Healthy, Acked, Waiting
  <2> QED
    BY <2>1, <2>3, CleanRule
<1>3. CASE r = s /\ Ends(s)
  <2>1. send'[s].pc = "ok"
    BY <1>1, <1>3 DEF Ends
  <2> QED
    BY <2>1 DEF CleanOK
<1>4. CASE r = s /\ Counts(s)
  <2>1. send[s].pc = "trying" /\ \A p \in AttemptOf(s) : task[p].pc = "failed"
    BY <1>1, <1>4 DEF Counts
  <2>2. AttemptOf(s) # {}
    BY <2>1, CleanAttempt DEF CleanOK
  <2> QED
    BY <2>1, <2>2 DEF CleanOK, Healthy, Acked, Waiting
<1> QED
  BY <1>2, <1>3, <1>4

\* The first attempt finds the path running.
LEMMA CleanStart ==
  ASSUME NamedInv, [Next]_vars, NEW s \in Sender, CleanOK(s), Clean(s),
         NEW r \in Sender, StartAttempt(r)
  PROVE  CleanOK(s)'
<1>1. PICK t \in TaskState, k \in LinkState : Starts(r, t, k)
  BY StartFacts
<1>2. CASE r # s
  <2>1. send'[s] = send[s]
    BY <1>1, <1>2 DEF Starts
  <2>2. \A p \in Peer : p[1] = s => task'[p] = task[p] /\ link'[p] = link[p]
    BY <1>1, <1>2 DEF Starts
  <2>3. \A p \in Peer : p[1] = s => (Healthy(p) => Healthy(p)') /\ (Acked(p) => Acked(p)')
    BY <2>2 DEF Healthy, Acked, Waiting
  <2> QED
    BY <2>1, <2>3, CleanRule
<1>3. CASE r = s
  <2>1. send'[s].pc = "trying" /\ send'[s].tries = 1 /\ send[s].tries = 0
    BY <1>1, <1>3 DEF Starts, CleanOK
  <2>2. path = "running"
    BY DEF NamedInv, PathSurvives, Clean
  <2>3. k.net = "up" /\ k.state = "request"
    BY <1>1, <2>2 DEF Starts
  <2>4. AttemptOf(s)' = {s} \X {1} \X Route
    BY <2>1 DEF AttemptOf
  <2>5. \A p \in AttemptOf(s)' : p \in Peer /\ p[1] = s /\ p[2] = 1
    BY <2>4, NamedAssumption DEF Peer
  <2>6. \A p \in AttemptOf(s)' : task'[p] = t /\ link'[p] = k
    BY <1>1, <1>3, <2>1, <2>5 DEF Starts
  <2>7. \A p \in AttemptOf(s)' : Healthy(p)'
    BY <1>1, <2>3, <2>6 DEF Starts, Healthy, Waiting
  <2> QED
    BY <2>1, <2>7 DEF CleanOK
<1> QED
  BY <1>2, <1>3

\* The receiver serves a request and writes its response.
LEMMA CleanReceiver ==
  ASSUME NamedInv, [Next]_vars, NEW s \in Sender, CleanOK(s), Clean(s), faults' = faults,
         NEW p \in Peer,
         (\E x, k : Serves(p, x, k)) \/ (\E k : Moves(p, k)) \/ (\E x : Notes(p, x))
  PROVE  CleanOK(s)'
<1>1. link \in [Peer -> LinkState] /\ faults \in Nat
  BY TypeFacts DEF NamedInv, TypeOK
<1>2. UNCHANGED <<send, task>>
  BY DEF Serves, Moves, Notes
<1>3. ASSUME NEW k, link' = [link EXCEPT ![p] = k],
             \/ link[p].state = "request" /\ k.state = "answer" /\ k.net = link[p].net
                /\ k.type # "error"
             \/ ~Waiting(p)
             \/ link[p].state = "answer" /\ k.state = "written"
                /\ k.type = link[p].type /\ k.net = link[p].net
      PROVE  CleanOK(s)'
  <2>1. link'[p] = k /\ \A q \in Peer \ {p} : link'[q] = link[q]
    BY <1>1, <1>3
  <2>2. (Healthy(p) => Healthy(p)') /\ ~Acked(p)
    BY <1>2, <1>3, <2>1 DEF Healthy, Acked, Waiting
  <2>3. \A q \in Peer \ {p} : (Healthy(q) => Healthy(q)') /\ (Acked(q) => Acked(q)')
    BY <1>2, <2>1 DEF Healthy, Acked, Waiting
  <2> QED
    BY <1>2, <2>2, <2>3, CleanRule
<1>4. ASSUME NEW x, NEW k, Serves(p, x, k)
      PROVE  CleanOK(s)'
  <2>1. /\ link' = [link EXCEPT ![p] = k] /\ k.state = "answer" /\ k.net = link[p].net
        /\ link[p].state = "request" /\ k.type # "error"
    BY <1>1, <1>4 DEF Serves
  <2> QED
    BY <1>3, <2>1
<1>5. ASSUME NEW k, Moves(p, k)
      PROVE  CleanOK(s)'
  <2>1. /\ link' = [link EXCEPT ![p] = k]
        /\ \/ ~Waiting(p)
           \/ link[p].state = "answer" /\ k.state = "written"
              /\ k.type = link[p].type /\ k.net = link[p].net
    BY <1>1, <1>5 DEF Moves
  <2> QED
    BY <1>3, <2>1
<1>6. ASSUME NEW x, Notes(p, x)
      PROVE  CleanOK(s)'
  <2>1. link' = link
    BY <1>6 DEF Notes
  <2>2. \A q \in Peer : (Healthy(q) => Healthy(q)') /\ (Acked(q) => Acked(q)')
    BY <1>2, <2>1 DEF Healthy, Acked, Waiting
  <2> QED
    BY <1>2, <2>2, CleanRule
<1> QED
  BY <1>4, <1>5, <1>6

\* A round that ends under an attempt ends with its own transfer, whose Ack is
\* on its way.
LEMMA ReturnedAcked ==
  ASSUME NamedInv, NEW p \in Peer, Returns(p), Healthy(p)
  PROVE  Acked(p)
<1>1. /\ PeerOK(task[p], link[p], sessions[p], Size[Named(p)])
      /\ task[p] \in TaskState /\ link[p] \in LinkState
  BY TypeFacts DEF NamedInv
<1>2. sessions[p].stage = "result" /\ link[p].state # "answer"
  BY DEF Returns, SentEvent
<1>3. Asks(task[p]) /\ link[p].net = "up" /\ link[p].state # "dead" /\ link[p].type # "error"
  BY DEF Healthy, Waiting, Asks
<1>4. link[p].state = "written"
  <2>1. link[p].state # "request"
    BY <1>1, <1>2 DEF PeerOK, RequestOK, Before
  <2> QED
    BY <1>1, <1>2, <1>3, <2>1 DEF PeerOK, LinkState
<1>5. ResponseOK(task[p], link[p], sessions[p], Size[Named(p)])
  BY <1>1, <1>3, <1>4 DEF PeerOK
<1>6. task[p].pc # "intro" /\ link[p].type = "ack" /\ After(task[p].pc) = "result"
  BY <1>2, <1>3, <1>5 DEF ResponseOK
<1> QED
  BY <1>1, <1>3, <1>4, <1>6 DEF After, Acked, TaskState, Asks

\* A round ends.
LEMMA CleanRound ==
  ASSUME NamedInv, [Next]_vars, NEW s \in Sender, CleanOK(s), Clean(s), Clean(s)', RoundOver
  PROVE  CleanOK(s)'
<1>1. link \in [Peer -> LinkState] /\ faults \in Nat /\ others[s] \in Nat
  BY TypeFacts DEF NamedInv, TypeOK
<1>2. PICK p \in Peer : Returns(p)
  BY <1>1 DEF RoundOver, Clean
<1>3. /\ link' = [q \in Peer |-> IF Waiting(q) THEN Lost(link[q]) ELSE NoLink]
      /\ UNCHANGED <<send, task>>
  BY DEF RoundOver
<1>4. \A q \in Peer : Acked(q) => Acked(q)'
  <2> SUFFICES ASSUME NEW q \in Peer, Acked(q)
               PROVE  Acked(q)'
    OBVIOUS
  <2>1. Waiting(q)
    BY DEF Acked, Waiting
  <2>2. link'[q] = Lost(link[q])
    BY <1>3, <2>1
  <2>3. Lost(link[q]).state = "written" /\ Lost(link[q]).type = "ack"
    BY <1>1, LostIs DEF Acked
  <2> QED
    BY <1>3, <2>2, <2>3 DEF Acked
<1>5. CASE send[s].pc # "trying"
  BY <1>3, <1>5 DEF CleanOK
<1>6. CASE send[s].pc = "trying"
  <2>1. /\ send[s].tries = 1
        /\ (\A q \in AttemptOf(s) : Healthy(q)) \/ (\E q \in AttemptOf(s) : Acked(q))
    BY <1>6 DEF CleanOK
  <2>2. p \in AttemptOf(s)
    <3>1. others'[s] = IF send[s].pc = "trying" /\ p \notin AttemptOf(s)
                       THEN others[s] + 1 ELSE others[s]
      BY <1>2 DEF Returns
    <3>2. others'[s] = 0 /\ others[s] = 0
      BY DEF Clean
    <3> QED
      BY <1>6, <3>1, <3>2
  <2>3. \E q \in AttemptOf(s) : q \in Peer /\ Acked(q)
    BY <1>2, <2>1, <2>2, CleanAttempt, ReturnedAcked
  <2>4. AttemptOf(s)' = AttemptOf(s)
    BY <1>3 DEF AttemptOf
  <2> QED
    BY <1>3, <1>4, <1>6, <2>1, <2>3, <2>4 DEF CleanOK
<1> QED
  BY <1>5, <1>6

\* Every step keeps it.
LEMMA CleanNext == NamedInv /\ CleanInv /\ [Next]_vars => CleanInv'
<1> SUFFICES ASSUME NamedInv, CleanInv, [Next]_vars, NEW s \in Sender, Clean(s)'
             PROVE  CleanOK(s)'
  BY DEF CleanInv, CleanOK
<1>1. CleanOK(s) /\ Clean(s) /\ faults' = faults
  BY StillClean DEF CleanInv
<1>2. CASE UNCHANGED <<disk, send, task, link, path, sessions, owed, delivered, others, faults>>
  <2>1. \A q \in Peer : (Healthy(q) => Healthy(q)') /\ (Acked(q) => Acked(q)')
    BY <1>2 DEF Healthy, Acked, Waiting
  <2> QED
    BY <1>1, <1>2, <2>1, CleanRule
<1> QED
  BY <1>1, <1>2, StepKinds, CleanSender, CleanLoop, CleanStart, CleanReceiver, CleanRound

\* A send fails only for a fault, a round that ended under one of its attempts
\* and not with it, or two sessions that received one archive at once: racing
\* routes do no other harm to each other.
THEOREM FailuresTakeCauses == Spec => []FailuresHaveCauses
<1>1. Init => CleanInv
  <2> SUFFICES ASSUME Init, NEW s \in Sender
               PROVE  CleanOK(s)
    BY DEF CleanInv
  <2> QED
    BY DEF Init, CleanOK
<1>2. NamedInv /\ CleanInv => FailuresHaveCauses
  <2> SUFFICES ASSUME NamedInv, CleanInv, NEW s \in Sender, send[s].pc = "failed"
               PROVE  faults + others[s] > 0 \/ mixed # {}
    BY DEF FailuresHaveCauses
  <2>1. faults \in Nat /\ others[s] \in Nat
    BY TypeFacts DEF NamedInv
  <2> QED
    BY <2>1 DEF CleanInv, CleanOK, Clean
<1> QED
  BY <1>1, <1>2, NamedInit, NamedNext, CleanNext, PTL DEF Spec

-------------------------------------------------------------------------------
(* The causes of a copy. *)

\* A set of attempts and another after a step.
LEMMA AttemptSets ==
  ASSUME NEW L \in SUBSET (1..MaxAttempts), NEW M \in SUBSET (1..MaxAttempts)
  PROVE  /\ Cardinality(L) \in Nat /\ Cardinality(M) \in Nat
         /\ M \subseteq L => Cardinality(M) <= Cardinality(L)
         /\ \A n : M \subseteq L \cup {n} => Cardinality(M) <= Cardinality(L) + 1
         /\ \A n \in L : M \subseteq L \ {n} => Cardinality(M) + 1 <= Cardinality(L)
<1>1. IsFiniteSet(1..MaxAttempts)
  BY FS_Interval, NamedAssumption
<1>2. IsFiniteSet(L) /\ IsFiniteSet(M)
  BY <1>1, FS_Subset
<1>3. Cardinality(L) \in Nat /\ Cardinality(M) \in Nat
  BY <1>2, FS_CardinalityType
<1>4. ASSUME M \subseteq L PROVE Cardinality(M) <= Cardinality(L)
  BY <1>2, <1>4, FS_Subset
<1>5. ASSUME NEW n, M \subseteq L \cup {n} PROVE Cardinality(M) <= Cardinality(L) + 1
  <2>1. /\ IsFiniteSet(L \cup {n}) /\ M \in SUBSET (L \cup {n})
        /\ Cardinality(L \cup {n}) = IF n \in L THEN Cardinality(L) ELSE Cardinality(L) + 1
    BY <1>2, <1>5, FS_AddElement
  <2>2. Cardinality(M) <= Cardinality(L \cup {n})
    BY <2>1, FS_Subset
  <2>3. Cardinality(L \cup {n}) \in Nat
    BY <2>1, FS_CardinalityType
  <2> QED
    BY <1>3, <2>1, <2>2, <2>3
<1>6. ASSUME NEW n \in L, M \subseteq L \ {n} PROVE Cardinality(M) + 1 <= Cardinality(L)
  <2>1. /\ IsFiniteSet(L \ {n}) /\ M \in SUBSET (L \ {n})
        /\ Cardinality(L \ {n}) = Cardinality(L) - 1
    BY <1>2, <1>6, FS_RemoveElement
  <2>2. Cardinality(M) <= Cardinality(L \ {n})
    BY <2>1, FS_Subset
  <2> QED
    BY <1>3, <2>1, <2>2
<1> QED
  BY <1>3, <1>4, <1>5, <1>6

\* On a single route an attempt is one peer.
LEMMA OnePeer ==
  ASSUME SingleRoute, NEW p \in Peer, NEW q \in Peer, p[1] = q[1], p[2] = q[2]
  PROVE  p = q
  BY PeerFacts DEF SingleRoute

\* Only the current one waits.
LEMMA OneWaits ==
  ASSUME SingleRoute, NamedInv, NEW p \in Peer, NEW q \in Peer, p[1] = q[1], Waiting(p), Waiting(q)
  PROVE  p = q
<1>1. p[2] = q[2]
  BY DEF NamedInv, LoopOK
<1> QED
  BY <1>1, OnePeer

\* The numbers of the invariant, with what is due to the sender as 0 or 1.
LEMMA CopiesNumbers ==
  ASSUME NamedInv, NEW s \in Sender
  PROVE  /\ faults \in Nat /\ others[s] \in Nat /\ delivered[s] \in Nat
         /\ Late(s) \in SUBSET (1..MaxAttempts)
         /\ \E due \in {0, 1} :
              /\ Paid(s) <=> due = 1
              /\ CopiesOK(s) <=>
                   delivered[s] + Cardinality(Late(s)) <= faults + others[s] + due
<1>1. PICK due \in {0, 1} : due = IF Paid(s) THEN 1 ELSE 0
  OBVIOUS
<1>2. Paid(s) <=> due = 1
  BY <1>1
<1>3. CopiesOK(s) <=> delivered[s] + Cardinality(Late(s)) <= faults + others[s] + due
  BY <1>1 DEF CopiesOK
<1> QED
  BY <1>2, <1>3, TypeFacts DEF NamedInv, Late

\* The same after a step.
LEMMA CopiesNumbersNext ==
  ASSUME NamedInv', NEW s \in Sender
  PROVE  /\ faults' \in Nat /\ others'[s] \in Nat
         /\ Late(s)' \in SUBSET (1..MaxAttempts)
         /\ \E due \in {0, 1} :
              /\ Paid(s)' <=> due = 1
              /\ CopiesOK(s)' <=>
                   delivered'[s] + Cardinality(Late(s)') <= faults' + others'[s] + due
<1>1. PICK due \in {0, 1} : due = IF Paid(s)' THEN 1 ELSE 0
  OBVIOUS
<1>2. Paid(s)' <=> due = 1
  BY <1>1
<1>3. CopiesOK(s)' <=> delivered'[s] + Cardinality(Late(s)') <= faults' + others'[s] + due
  BY <1>1 DEF CopiesOK
<1>4. faults' \in Nat /\ others'[s] \in Nat
  BY NamedAssumption DEF NamedInv, TypeOK
<1> QED
  BY <1>2, <1>3, <1>4 DEF Late

\* The three ways a step may count: nothing is spent, ...
LEMMA CopiesKept ==
  ASSUME NamedInv, NamedInv', NEW s \in Sender, CopiesOK(s),
         delivered'[s] = delivered[s], faults' >= faults, others'[s] >= others[s],
         Late(s)' \subseteq Late(s), Paid(s) => Paid(s)'
  PROVE  CopiesOK(s)'
<1>1. PICK L, M : L = Late(s) /\ M = Late(s)'
  OBVIOUS
<1>2. PICK due \in {0, 1} :
        /\ Paid(s) <=> due = 1
        /\ CopiesOK(s) <=> delivered[s] + Cardinality(L) <= faults + others[s] + due
  BY <1>1, CopiesNumbers
<1>3. PICK left \in {0, 1} :
        /\ Paid(s)' <=> left = 1
        /\ CopiesOK(s)' <=> delivered'[s] + Cardinality(M) <= faults' + others'[s] + left
  BY <1>1, CopiesNumbersNext
<1>4. /\ faults \in Nat /\ others[s] \in Nat /\ delivered[s] \in Nat
      /\ faults' \in Nat /\ others'[s] \in Nat
      /\ L \in SUBSET (1..MaxAttempts) /\ M \in SUBSET (1..MaxAttempts)
  BY <1>1, CopiesNumbers, CopiesNumbersNext
<1>5. Cardinality(L) \in Nat /\ Cardinality(M) \in Nat /\ Cardinality(M) <= Cardinality(L)
  BY <1>1, <1>4, AttemptSets
<1>6. due <= left
  BY <1>2, <1>3
<1> QED
  BY <1>2, <1>3, <1>4, <1>5, <1>6

\* ... a cause is spent on a request given up or on an Ack lost, ...
LEMMA CopiesSpent ==
  ASSUME NamedInv, NamedInv', NEW s \in Sender, CopiesOK(s),
         delivered'[s] = delivered[s], faults' + others'[s] >= faults + others[s] + 1,
         \/ Late(s)' \subseteq Late(s)
         \/ (\E n : Late(s)' \subseteq Late(s) \cup {n}) /\ (Paid(s) => Paid(s)')
  PROVE  CopiesOK(s)'
<1>1. PICK L, M : L = Late(s) /\ M = Late(s)'
  OBVIOUS
<1>2. PICK due \in {0, 1} :
        /\ Paid(s) <=> due = 1
        /\ CopiesOK(s) <=> delivered[s] + Cardinality(L) <= faults + others[s] + due
  BY <1>1, CopiesNumbers
<1>3. PICK left \in {0, 1} :
        /\ Paid(s)' <=> left = 1
        /\ CopiesOK(s)' <=> delivered'[s] + Cardinality(M) <= faults' + others'[s] + left
  BY <1>1, CopiesNumbersNext
<1>4. /\ faults \in Nat /\ others[s] \in Nat /\ delivered[s] \in Nat
      /\ faults' \in Nat /\ others'[s] \in Nat
      /\ L \in SUBSET (1..MaxAttempts) /\ M \in SUBSET (1..MaxAttempts)
  BY <1>1, CopiesNumbers, CopiesNumbersNext
<1>5. Cardinality(L) \in Nat /\ Cardinality(M) \in Nat
  BY <1>4, AttemptSets
<1>6. Cardinality(M) + due <= Cardinality(L) + left + 1
  <2>1. CASE M \subseteq L
    BY <1>4, <1>5, <2>1, AttemptSets
  <2>2. CASE (\E n : M \subseteq L \cup {n}) /\ (Paid(s) => Paid(s)')
    <3>1. Cardinality(M) <= Cardinality(L) + 1
      BY <1>4, <2>2, AttemptSets
    <3>2. due <= left
      BY <1>2, <1>3, <2>2
    <3> QED
      BY <1>5, <3>1, <3>2
  <2> QED
    BY <1>1, <2>1, <2>2
<1> QED
  BY <1>2, <1>3, <1>4, <1>5, <1>6

\* ... or a copy is made: the one that is due, or that of a late request.
LEMMA CopiesMade ==
  ASSUME NamedInv, NamedInv', NEW s \in Sender, CopiesOK(s),
         delivered'[s] = delivered[s] + 1, faults' >= faults, others'[s] >= others[s],
         \/ Late(s)' \subseteq Late(s) /\ ~Paid(s) /\ Paid(s)'
         \/ (\E n \in Late(s) : Late(s)' \subseteq Late(s) \ {n}) /\ (Paid(s) => Paid(s)')
  PROVE  CopiesOK(s)'
<1>1. PICK L, M : L = Late(s) /\ M = Late(s)'
  OBVIOUS
<1>2. PICK due \in {0, 1} :
        /\ Paid(s) <=> due = 1
        /\ CopiesOK(s) <=> delivered[s] + Cardinality(L) <= faults + others[s] + due
  BY <1>1, CopiesNumbers
<1>3. PICK left \in {0, 1} :
        /\ Paid(s)' <=> left = 1
        /\ CopiesOK(s)' <=> delivered'[s] + Cardinality(M) <= faults' + others'[s] + left
  BY <1>1, CopiesNumbersNext
<1>4. /\ faults \in Nat /\ others[s] \in Nat /\ delivered[s] \in Nat
      /\ faults' \in Nat /\ others'[s] \in Nat
      /\ L \in SUBSET (1..MaxAttempts) /\ M \in SUBSET (1..MaxAttempts)
  BY <1>1, CopiesNumbers, CopiesNumbersNext
<1>5. Cardinality(L) \in Nat /\ Cardinality(M) \in Nat
  BY <1>4, AttemptSets
<1>6. Cardinality(M) + 1 + due <= Cardinality(L) + left
  <2>1. CASE M \subseteq L /\ ~Paid(s) /\ Paid(s)'
    <3>1. Cardinality(M) <= Cardinality(L)
      BY <1>4, <2>1, AttemptSets
    <3>2. due = 0 /\ left = 1
      BY <1>2, <1>3, <2>1
    <3> QED
      BY <1>5, <3>1, <3>2
  <2>2. CASE (\E n \in L : M \subseteq L \ {n}) /\ (Paid(s) => Paid(s)')
    <3>1. Cardinality(M) + 1 <= Cardinality(L)
      BY <1>4, <2>2, AttemptSets
    <3>2. due <= left
      BY <1>2, <1>3, <2>2
    <3> QED
      BY <1>5, <3>1, <3>2
  <2> QED
    BY <1>1, <2>1, <2>2
<1> QED
  BY <1>2, <1>3, <1>4, <1>5, <1>6

\* What becomes of the late requests and of the Ack, peer by peer.
LEMMA CopiesPeers ==
  ASSUME NEW s \in Sender, NEW n
  PROVE  /\ (\A p \in Peer : p[1] = s => (IsLate(p)' => IsLate(p))) => Late(s)' \subseteq Late(s)
         /\ (\A p \in Peer : p[1] = s /\ p[2] # n => (IsLate(p)' => IsLate(p))) =>
              Late(s)' \subseteq Late(s) \cup {n}
         /\ /\ send[s].pc = "ok" => send'[s].pc = "ok"
            /\ path = "stopped" => path' = "stopped"
            /\ \A p \in Peer : p[1] = s => (Answering(p) => Answering(p)')
            => (Paid(s) => Paid(s)')
<1>1. ASSUME \A p \in Peer : p[1] = s => (IsLate(p)' => IsLate(p))
      PROVE  Late(s)' \subseteq Late(s)
  BY <1>1 DEF Late
<1>2. ASSUME \A p \in Peer : p[1] = s /\ p[2] # n => (IsLate(p)' => IsLate(p))
      PROVE  Late(s)' \subseteq Late(s) \cup {n}
  BY <1>2 DEF Late
<1>3. ASSUME send[s].pc = "ok" => send'[s].pc = "ok",
             path = "stopped" => path' = "stopped",
             \A p \in Peer : p[1] = s => (Answering(p) => Answering(p)'),
             Paid(s)
      PROVE  Paid(s)'
  BY <1>3 DEF Paid
<1> QED
  BY <1>1, <1>2, <1>3

\* Where nothing that counts for the sender moves.
LEMMA CopiesStill ==
  ASSUME NamedInv, NamedInv', NEW s \in Sender, CopiesOK(s), [Next]_vars,
         delivered'[s] = delivered[s], path' = path,
         send[s].pc = "ok" => send'[s].pc = "ok",
         \A p \in Peer : p[1] = s =>
           (IsLate(p)' => IsLate(p)) /\ (Answering(p) => Answering(p)')
  PROVE  CopiesOK(s)'
<1>1. faults \in Nat /\ others[s] \in Nat
  BY CopiesNumbers
<1>2. faults' >= faults /\ others'[s] >= others[s]
  BY <1>1, Grows
<1>3. Late(s)' \subseteq Late(s) /\ (Paid(s) => Paid(s)')
  BY CopiesPeers
<1> QED
  BY <1>2, <1>3, CopiesKept

\* A route goes on.
LEMMA CopiesProceed ==
  ASSUME NamedInv, NamedInv', [Next]_vars, NEW s \in Sender, CopiesOK(s),
         NEW p \in Peer, NEW t, NEW k, Proceeds(p, t, k)
  PROVE  CopiesOK(s)'
<1>1. task \in [Peer -> TaskState] /\ link \in [Peer -> LinkState]
  BY DEF NamedInv, TypeOK
<1>2. /\ Waiting(p) /\ task[p].pc # "done" /\ task'[p] = t /\ Asks(t)
      /\ \A q \in Peer \ {p} : task'[q] = task[q] /\ link'[q] = link[q]
      /\ UNCHANGED <<send, path, delivered>>
  BY <1>1 DEF Proceeds, Quietly
<1>3. ~IsLate(p)' /\ ~Answering(p)
  BY <1>2 DEF IsLate, Answering, Waiting, Asks
<1>4. \A q \in Peer : (IsLate(q)' => IsLate(q)) /\ (Answering(q) => Answering(q)')
  BY <1>2, <1>3 DEF IsLate, Answering, Waiting
<1> QED
  BY <1>2, <1>4, CopiesStill

\* A route gives up: a fault pays for the request or the Ack it leaves.
LEMMA CopiesGiveUp ==
  ASSUME NamedInv, NamedInv', [Next]_vars, NEW s \in Sender, CopiesOK(s),
         NEW p \in Peer, GivesUp(p)
  PROVE  CopiesOK(s)'
<1>1. task \in [Peer -> TaskState] /\ link \in [Peer -> LinkState] /\ faults \in Nat
      /\ others[s] \in Nat
  BY TypeFacts DEF NamedInv, TypeOK
<1>2. /\ Waiting(p) /\ link'[p] = Abandon(link[p])
      /\ \A q \in Peer \ {p} : task'[q] = task[q] /\ link'[q] = link[q]
      /\ send'[s].pc = send[s].pc /\ UNCHANGED <<path, delivered, others>>
  BY <1>1 DEF GivesUp, Quietly
<1>3. \A q \in Peer \ {p} : (IsLate(q)' => IsLate(q)) /\ (Answering(q) => Answering(q)')
  BY <1>2 DEF IsLate, Answering, Waiting
<1>4. link'[p].state = "request" => link[p].state = "request"
  BY <1>1, <1>2, AbandonIs, Records
<1>5. CASE link[p].state \in {"request", "answer"} /\ faults' = faults + 1
  <2>1. faults' + others'[s] >= faults + others[s] + 1
    BY <1>1, <1>2, <1>5
  <2>2. CASE link[p].state = "request"
    <3>1. ~Answering(p)
      BY <2>2 DEF Answering
    <3>2. Paid(s) => Paid(s)'
      BY <1>2, <1>3, <3>1, CopiesPeers
    <3>3. Late(s)' \subseteq Late(s) \cup {p[2]}
      BY <1>3, CopiesPeers
    <3> QED
      BY <1>2, <2>1, <3>2, <3>3, CopiesSpent
  <2>3. CASE link[p].state = "answer"
    <3>1. ~IsLate(p)'
      BY <1>4, <2>3 DEF IsLate
    <3>2. Late(s)' \subseteq Late(s)
      BY <1>3, <3>1, CopiesPeers
    <3> QED
      BY <1>2, <2>1, <3>2, CopiesSpent
  <2> QED
    BY <1>5, <2>2, <2>3
<1>6. CASE link[p].state = "dead" \/ (link[p].state = "written" /\ link[p].type = "error")
  <2>1. ~IsLate(p)' /\ ~Answering(p)
    BY <1>4, <1>6 DEF IsLate, Answering
  <2>2. \A q \in Peer : (IsLate(q)' => IsLate(q)) /\ (Answering(q) => Answering(q)')
    BY <1>3, <2>1
  <2> QED
    BY <1>2, <2>2, CopiesStill
<1> QED
  BY <1>5, <1>6 DEF GivesUp

\* A send ends: well, with the copy that was due, or by a fault.
LEMMA CopiesEnd ==
  ASSUME SingleRoute, NamedInv, NamedInv', [Next]_vars, NEW s \in Sender, CopiesOK(s),
         NEW r \in Sender, Ends(r)
  PROVE  CopiesOK(s)'
<1>1. task \in [Peer -> TaskState] /\ link \in [Peer -> LinkState] /\ faults \in Nat
      /\ others[s] \in Nat
  BY TypeFacts DEF NamedInv, TypeOK
<1>2. /\ \A q \in Peer : IF q[1] = r THEN task'[q] = Off /\ link'[q] = Abandon(link[q])
                                     ELSE task'[q] = task[q] /\ link'[q] = link[q]
      /\ UNCHANGED <<path, delivered, others>> /\ \A u \in Sender \ {r} : send'[u] = send[u]
  BY DEF Ends, Quietly
<1>3. CASE r # s
  <2>1. \A q \in Peer : q[1] = s => (IsLate(q)' => IsLate(q)) /\ (Answering(q) => Answering(q)')
    BY <1>2, <1>3 DEF IsLate, Answering, Waiting
  <2> QED
    BY <1>2, <1>3, <2>1, CopiesStill
<1>4. CASE r = s
  <2>1. \A q \in Peer : q[1] = s => (link'[q].state = "request" => link[q].state = "request")
    BY <1>1, <1>2, <1>4, AbandonIs, Records
  <2>2. CASE send'[s].pc = "ok" /\ faults' = faults
    <3>1. PICK p \in Peer : p[1] = s /\ Acked(p)
      BY <1>1, <1>4, <2>2 DEF Ends
    <3>2. Waiting(p) /\ link[p].state # "request"
      BY <3>1 DEF Acked, Waiting
    <3>3. \A q \in Peer : q[1] = s => (IsLate(q)' => IsLate(q))
      <4> SUFFICES ASSUME NEW q \in Peer, q[1] = s, IsLate(q)'
                   PROVE  IsLate(q)
        OBVIOUS
      <4>1. link[q].state = "request"
        BY <2>1 DEF IsLate
      <4>2. q # p
        BY <3>2, <4>1
      <4>3. ~Waiting(q)
        BY <3>1, <3>2, <4>2, OneWaits
      <4> QED
        BY <4>1, <4>3 DEF IsLate
    <3>4. Late(s)' \subseteq Late(s)
      BY <3>3, CopiesPeers
    <3>5. Paid(s)'
      BY <2>2 DEF Paid
    <3>6. faults' >= faults /\ others'[s] >= others[s]
      BY <1>1, <1>2, <2>2
    <3> QED
      BY <1>2, <3>4, <3>5, <3>6, CopiesKept
  <2>3. CASE faults' = faults + 1
    <3>1. faults' + others'[s] >= faults + others[s] + 1
      BY <1>1, <1>2, <2>3
    <3>2. CASE \E p \in Peer : p[1] = s /\ Waiting(p) /\ link[p].state = "request"
      <4>1. PICK p \in Peer : p[1] = s /\ Waiting(p) /\ link[p].state = "request"
        BY <3>2
      <4>2. \A q \in Peer : q[1] = s /\ q[2] # p[2] => (IsLate(q)' => IsLate(q))
        BY <2>1, <4>1, OneWaits DEF IsLate
      <4>3. Late(s)' \subseteq Late(s) \cup {p[2]}
        BY <4>2, CopiesPeers
      <4>4. \A q \in Peer : q[1] = s => ~Answering(q)
        <5> SUFFICES ASSUME NEW q \in Peer, q[1] = s, Answering(q)
                     PROVE  FALSE
          OBVIOUS
        <5>1. Waiting(q) /\ link[q].state # "request"
          BY DEF Answering, Waiting
        <5>2. q = p
          BY <4>1, <5>1, OneWaits
        <5> QED
          BY <4>1, <5>1, <5>2
      <4>5. send[s].pc # "ok"
        BY <4>1 DEF NamedInv, LoopOK
      <4>6. Paid(s) => Paid(s)'
        BY <1>2, <4>4, <4>5 DEF Paid
      <4> QED
        BY <1>2, <3>1, <4>3, <4>6, CopiesSpent
    <3>3. CASE ~\E p \in Peer : p[1] = s /\ Waiting(p) /\ link[p].state = "request"
      <4>1. \A q \in Peer : q[1] = s => (IsLate(q)' => IsLate(q))
        BY <2>1, <3>3 DEF IsLate
      <4>2. Late(s)' \subseteq Late(s)
        BY <4>1, CopiesPeers
      <4> QED
        BY <1>2, <3>1, <4>2, CopiesSpent
    <3> QED
      BY <3>2, <3>3
  <2> QED
    BY <1>4, <2>2, <2>3 DEF Ends
<1> QED
  BY <1>3, <1>4

\* The loop counts an attempt, or begins one.
LEMMA CopiesLoop ==
  ASSUME NamedInv, NamedInv', [Next]_vars, NEW s \in Sender, CopiesOK(s),
         NEW r \in Sender, Counts(r) \/ StartAttempt(r)
  PROVE  CopiesOK(s)'
<1>1. CASE Counts(r)
  <2>1. /\ UNCHANGED <<task, link, path, delivered>>
        /\ send[s].pc = "ok" => send'[s].pc = "ok"
    BY <1>1 DEF Counts, Quietly
  <2>2. \A q \in Peer : (IsLate(q)' => IsLate(q)) /\ (Answering(q) => Answering(q)')
    BY <2>1 DEF IsLate, Answering, Waiting
  <2> QED
    BY <2>1, <2>2, CopiesStill
<1>2. CASE StartAttempt(r)
  <2>1. PICK t \in TaskState, k \in LinkState : Starts(r, t, k)
    BY <1>2, StartFacts
  <2>2. \A q \in Peer : q[1] = r => ~Waiting(q)
    BY <2>1 DEF Starts, NamedInv, LoopOK
  <2>3. \A q \in Peer : (IsLate(q)' => IsLate(q)) /\ (Answering(q) => Answering(q)')
    <3> SUFFICES ASSUME NEW q \in Peer
                 PROVE  (IsLate(q)' => IsLate(q)) /\ (Answering(q) => Answering(q)')
      OBVIOUS
    <3>1. CASE q[1] = r /\ q[2] = send[r].tries + 1
      <4>1. ~IsLate(q)'
        BY <2>1, <3>1 DEF Starts, IsLate, Waiting
      <4>2. ~Answering(q)
        BY <2>2, <3>1 DEF Answering, Waiting
      <4> QED
        BY <4>1, <4>2
    <3>2. CASE ~(q[1] = r /\ q[2] = send[r].tries + 1)
      <4>1. task'[q] = task[q] /\ link'[q] = link[q]
        BY <2>1, <3>2 DEF Starts
      <4> QED
        BY <4>1 DEF IsLate, Answering, Waiting
    <3> QED
      BY <3>1, <3>2
  <2>4. /\ delivered'[s] = delivered[s] /\ path' = path
        /\ send[s].pc = "ok" => send'[s].pc = "ok"
    BY <2>1 DEF Starts, Quietly
  <2> QED
    BY <2>3, <2>4, CopiesStill
<1> QED
  BY <1>1, <1>2

\* A request is served: a copy is due to its sender, or was paid for as late.
LEMMA CopiesServe ==
  ASSUME SingleRoute, NamedInv, NamedInv', [Next]_vars, NEW s \in Sender, CopiesOK(s),
         NEW p \in Peer, NEW x, NEW k, Serves(p, x, k)
  PROVE  CopiesOK(s)'
<1>1. link \in [Peer -> LinkState] /\ faults \in Nat /\ others[s] \in Nat
      /\ delivered \in [Sender -> Nat] /\ p[1] \in Sender
  BY TypeFacts, PeerFacts DEF NamedInv, TypeOK
<1>2. /\ path = "running" /\ link[p].state = "request" /\ k.state = "answer"
      /\ link'[p] = k /\ \A q \in Peer \ {p} : link'[q] = link[q]
      /\ UNCHANGED <<send, task, path, others>>
  BY <1>1 DEF Serves
<1>3. faults' >= faults /\ others'[s] >= others[s]
  BY <1>1, <1>2 DEF Serves
<1>4. ~Answering(p) /\ ~IsLate(p)'
  BY <1>2 DEF Answering, IsLate
<1>5. \A q \in Peer : (IsLate(q)' => IsLate(q)) /\ (Answering(q) => Answering(q)')
  BY <1>2, <1>4 DEF IsLate, Answering, Waiting
<1>6. Late(s)' \subseteq Late(s) /\ (Paid(s) => Paid(s)')
  BY <1>2, <1>5, CopiesPeers
<1>7. CASE delivered'[s] = delivered[s]
  BY <1>3, <1>6, <1>7, CopiesKept
<1>8. CASE delivered'[s] # delivered[s]
  <2>1. /\ p[1] = s /\ delivered'[s] = delivered[s] + 1
        /\ link[p].type = "done" /\ k.type = "ack"
    BY <1>1, <1>8 DEF Serves
  <2>2. CASE Waiting(p)
    <3>1. task[p].pc = "done"
      <4>1. PeerOK(task[p], link[p], sessions[p], Size[Named(p)]) /\ Asks(task[p])
        BY <2>2 DEF NamedInv, Waiting, Asks
      <4> QED
        BY <1>2, <2>1, <4>1 DEF PeerOK
    <3>2. Answering(p)'
      BY <1>2, <2>1, <3>1 DEF Answering
    <3>3. Paid(s)'
      BY <2>1, <3>2 DEF Paid
    <3>4. ~Paid(s)
      <4>1. send[s].pc = "trying"
        BY <2>1, <2>2 DEF NamedInv, LoopOK
      <4>2. ASSUME NEW q \in Peer, q[1] = s, Answering(q) PROVE FALSE
        <5>1. Waiting(q)
          BY <4>2 DEF Answering, Waiting
        <5>2. q = p
          BY <2>1, <2>2, <4>2, <5>1, OneWaits
        <5> QED
          BY <1>4, <4>2, <5>2
      <4> QED
        BY <1>2, <4>1, <4>2 DEF Paid
    <3> QED
      BY <1>3, <1>6, <2>1, <3>3, <3>4, CopiesMade
  <2>3. CASE ~Waiting(p)
    <3>1. IsLate(p)
      BY <1>2, <2>3 DEF IsLate
    <3>2. p[2] \in Late(s)
      BY <2>1, <3>1, PeerFacts DEF Late
    <3>3. p[2] \notin Late(s)'
      <4> SUFFICES ASSUME NEW q \in Peer, q[1] = s, q[2] = p[2], IsLate(q)'
                   PROVE  FALSE
        BY DEF Late
      <4>1. q = p
        BY <2>1, OnePeer
      <4> QED
        BY <1>4, <4>1
    <3>4. Late(s)' \subseteq Late(s) \ {p[2]}
      BY <1>6, <3>3
    <3> QED
      BY <1>3, <1>6, <2>1, <3>2, <3>4, CopiesMade
  <2> QED
    BY <2>2, <2>3
<1> QED
  BY <1>7, <1>8

\* A response moves, is lost or is noted.
LEMMA CopiesMove ==
  ASSUME NamedInv, NamedInv', [Next]_vars, NEW s \in Sender, CopiesOK(s),
         NEW p \in Peer, (\E k : Moves(p, k)) \/ (\E x : Notes(p, x))
  PROVE  CopiesOK(s)'
<1>1. link \in [Peer -> LinkState] /\ faults \in Nat /\ others[s] \in Nat
  BY TypeFacts DEF NamedInv, TypeOK
<1>2. UNCHANGED <<send, task, path, delivered, others>>
  BY DEF Moves, Notes
<1>3. ASSUME NEW x, Notes(p, x)
      PROVE  CopiesOK(s)'
  <2>1. link' = link
    BY <1>3 DEF Notes
  <2>2. \A q \in Peer : (IsLate(q)' => IsLate(q)) /\ (Answering(q) => Answering(q)')
    BY <1>2, <2>1 DEF IsLate, Answering, Waiting
  <2> QED
    BY <1>2, <2>2, CopiesStill
<1>4. ASSUME NEW k, Moves(p, k)
      PROVE  CopiesOK(s)'
  <2>1. link'[p] = k /\ \A q \in Peer \ {p} : link'[q] = link[q]
    BY <1>1, <1>4 DEF Moves
  <2>2. \A q \in Peer \ {p} : (IsLate(q)' => IsLate(q)) /\ (Answering(q) => Answering(q)')
    BY <1>2, <2>1 DEF IsLate, Answering, Waiting
  <2>3. CASE ~Waiting(p) /\ k = NoLink
    <3>1. ~IsLate(p)' /\ ~Answering(p)
      BY <2>1, <2>3, Records DEF IsLate, Answering, Waiting
    <3>2. \A q \in Peer : (IsLate(q)' => IsLate(q)) /\ (Answering(q) => Answering(q)')
      BY <2>2, <3>1
    <3> QED
      BY <1>2, <3>2, CopiesStill
  <2>4. CASE k.state = "written" /\ k.type = link[p].type
    <3>1. ~IsLate(p)' /\ (Answering(p) => Answering(p)')
      BY <1>2, <2>1, <2>4 DEF IsLate, Answering
    <3>2. \A q \in Peer : (IsLate(q)' => IsLate(q)) /\ (Answering(q) => Answering(q)')
      BY <2>2, <3>1
    <3> QED
      BY <1>2, <3>2, CopiesStill
  <2>5. CASE k.state = "dead" /\ faults' = faults + 1
    <3>1. ~IsLate(p)'
      BY <2>1, <2>5 DEF IsLate
    <3>2. \A q \in Peer : IsLate(q)' => IsLate(q)
      BY <2>2, <3>1
    <3>3. Late(s)' \subseteq Late(s)
      BY <3>2, CopiesPeers
    <3>4. faults' + others'[s] >= faults + others[s] + 1
      BY <1>1, <1>2, <2>5
    <3> QED
      BY <1>2, <3>3, <3>4, CopiesSpent
  <2> QED
    BY <1>4, <2>3, <2>4, <2>5 DEF Moves
<1> QED
  BY <1>3, <1>4

\* A round ends: nothing late is left, and an Ack that is lost is paid for.
LEMMA CopiesRound ==
  ASSUME SingleRoute, NamedInv, NamedInv', [Next]_vars, NEW s \in Sender, CopiesOK(s), RoundOver
  PROVE  CopiesOK(s)'
<1>1. link \in [Peer -> LinkState] /\ faults \in Nat /\ others[s] \in Nat
  BY TypeFacts DEF NamedInv, TypeOK
<1>2. /\ \A q \in Peer : link'[q] = IF Waiting(q) THEN Lost(link[q]) ELSE NoLink
      /\ UNCHANGED <<send, task, delivered>>
  BY DEF RoundOver
<1>3. \A q \in Peer : ~IsLate(q)'
  BY <1>2, Records DEF IsLate, Waiting
<1>4. Late(s)' \subseteq Late(s)
  BY <1>3, CopiesPeers
<1>5. \A q \in Peer : Answering(q) /\ link[q].state # "answer" => Answering(q)'
  <2> SUFFICES ASSUME NEW q \in Peer, Answering(q), link[q].state # "answer"
               PROVE  Answering(q)'
    OBVIOUS
  <2>1. Waiting(q) /\ link[q].state = "written" /\ link[q].type = "ack"
    BY DEF Answering, Waiting
  <2>2. link'[q] = Lost(link[q])
    BY <1>2, <2>1
  <2>3. Lost(link[q]).state = "written" /\ Lost(link[q]).type = "ack"
    BY <1>1, <2>1, LostIs
  <2> QED
    BY <1>2, <2>2, <2>3 DEF Answering
<1>6. CASE faults' = faults + 1 /\ others' = others
  <2>1. faults' + others'[s] >= faults + others[s] + 1
    BY <1>1, <1>6
  <2> QED
    BY <1>2, <1>4, <2>1, CopiesSpent
<1>7. CASE path' = "stopped" /\ UNCHANGED <<others, faults>>
  <2>1. Paid(s)' /\ faults' >= faults /\ others'[s] >= others[s]
    BY <1>1, <1>7 DEF Paid
  <2> QED
    BY <1>2, <1>4, <2>1, CopiesKept
<1>8. CASE (\E p \in Peer : Returns(p)) /\ path' = path /\ faults' = faults
  <2>1. PICK p \in Peer : Returns(p)
    BY <1>8
  <2>2. link[p].state # "answer"
    BY <2>1 DEF Returns, SentEvent
  <2>3. others'[s] = IF send[s].pc = "trying" /\ p \notin AttemptOf(s)
                     THEN others[s] + 1 ELSE others[s]
    BY <2>1 DEF Returns
  <2>4. CASE send[s].pc = "trying" /\ p \notin AttemptOf(s)
    <3>1. faults' + others'[s] >= faults + others[s] + 1
      BY <1>1, <1>8, <2>3, <2>4
    <3> QED
      BY <1>2, <1>4, <3>1, CopiesSpent
  <2>5. CASE ~(send[s].pc = "trying" /\ p \notin AttemptOf(s))
    <3>1. faults' >= faults /\ others'[s] >= others[s]
      BY <1>1, <1>8, <2>3, <2>5
    <3>2. ASSUME NEW q \in Peer, q[1] = s, Answering(q) PROVE Answering(q)'
      <4>1. Waiting(q)
        BY <3>2 DEF Answering, Waiting
      <4>2. send[s].pc = "trying" /\ q[2] = send[s].tries
        BY <3>2, <4>1 DEF NamedInv, LoopOK
      <4>3. p[1] = s /\ p[2] = send[s].tries
        BY <2>5, <4>2 DEF AttemptOf
      <4>4. q = p
        BY <3>2, <4>2, <4>3, OnePeer
      <4> QED
        BY <1>5, <2>2, <3>2, <4>4
    <3>3. Paid(s) => Paid(s)'
      BY <1>2, <1>8, <3>2, CopiesPeers
    <3> QED
      BY <1>2, <1>4, <3>1, <3>3, CopiesKept
  <2> QED
    BY <2>4, <2>5
<1> QED
  BY <1>6, <1>7, <1>8 DEF RoundOver

\* Every step keeps it.
LEMMA CopiesNext ==
  ASSUME SingleRoute
  PROVE  NamedInv /\ CopiesInv /\ [Next]_vars => CopiesInv'
<1> SUFFICES ASSUME NamedInv, CopiesInv, [Next]_vars, NEW s \in Sender
             PROVE  CopiesOK(s)'
  BY DEF CopiesInv
<1>1. CopiesOK(s) /\ NamedInv'
  BY NamedNext DEF CopiesInv
<1>2. CASE UNCHANGED <<disk, send, task, link, path, sessions, owed, delivered, others, faults>>
  <2>1. \A q \in Peer : (IsLate(q)' => IsLate(q)) /\ (Answering(q) => Answering(q)')
    BY <1>2 DEF IsLate, Answering, Waiting
  <2> QED
    BY <1>1, <1>2, <2>1, CopiesStill
<1> QED
  BY <1>1, <1>2, StepKinds, CopiesProceed, CopiesGiveUp, CopiesEnd, CopiesLoop, CopiesServe,
     CopiesMove, CopiesRound

\* Nothing has been unpacked at first.
LEMMA CopiesInit == Init => CopiesInv
<1> SUFFICES ASSUME Init, NEW s \in Sender
             PROVE  CopiesOK(s)
  BY DEF CopiesInv
<1>1. delivered[s] = 0 /\ faults = 0 /\ others[s] = 0 /\ \A p \in Peer : link[p] = NoLink
  BY DEF Init
<1>2. \A p \in Peer : ~IsLate(p)
  BY <1>1, Records DEF IsLate
<1>3. Late(s) = {}
  BY <1>2 DEF Late
<1>4. Cardinality(Late(s)) = 0
  BY <1>3, FS_EmptySet
<1>5. PICK due \in {0, 1} : due = IF Paid(s) THEN 1 ELSE 0
  OBVIOUS
<1>6. delivered[s] + Cardinality(Late(s)) <= faults + others[s] + due
  BY <1>1, <1>4
<1> QED
  BY <1>5, <1>6 DEF CopiesOK

\* On a single route the receiver unpacks an archive once more only for a fault
\* or for a round that ended under the attempt and not with it: the result that
\* waits for its response keeps the Ack from being lost with the round.
THEOREM CopiesTakeCauses ==
  ASSUME SingleRoute
  PROVE  Spec => []CopiesHaveCauses
<1>1. NamedInv /\ CopiesInv => CopiesHaveCauses
  <2> SUFFICES ASSUME NamedInv, CopiesInv, NEW s \in Sender
               PROVE  delivered[s] <= 1 + faults + others[s]
    BY DEF CopiesHaveCauses
  <2>1. PICK due \in {0, 1} :
          CopiesOK(s) <=> delivered[s] + Cardinality(Late(s)) <= faults + others[s] + due
    BY CopiesNumbers
  <2>2. faults \in Nat /\ others[s] \in Nat /\ delivered[s] \in Nat
        /\ Late(s) \in SUBSET (1..MaxAttempts)
    BY CopiesNumbers
  <2>3. Cardinality(Late(s)) \in Nat
    BY <2>2, AttemptSets
  <2> QED
    BY <2>1, <2>2, <2>3 DEF CopiesInv
<1>2. NamedInv /\ CopiesInv /\ [Next]_vars => (NamedInv /\ CopiesInv)'
  BY NamedNext, CopiesNext
<1> QED
  BY <1>1, <1>2, NamedInit, CopiesInit, PTL DEF Spec

-------------------------------------------------------------------------------
(* What is promised to the user. *)

\* Where neither an Ack nor a late request is new.
LEMMA AckStill ==
  ASSUME NamedInv, [Next]_vars, NEW s \in Sender, AckOK(s), delivered'[s] >= delivered[s],
         send'[s].pc = "ok" => Settled(s),
         \A p \in Peer : p[1] = s =>
           (Answering(p)' => Answering(p)) /\ (LateDone(p)' => LateDone(p))
  PROVE  AckOK(s)'
<1>1. delivered[s] \in Nat
  BY TypeFacts DEF NamedInv
<1>2. mixed \subseteq mixed'
  BY MixedStep DEF NamedInv
<1>3. Settled(s)' => Settled(s)
  BY DEF Settled
<1>4. CASE Settled(s)'
  <2>1. delivered[s] > 0 /\ (mixed = {} => \A p \in Peer : p[1] = s => ~LateDone(p))
    BY <1>3, <1>4 DEF AckOK
  <2>2. delivered'[s] > 0
    <3>1. delivered'[s] \in Nat
      BY NamedNext DEF NamedInv, TypeOK
    <3> QED
      BY <1>1, <2>1, <3>1
  <2>3. mixed' = {} => \A p \in Peer : p[1] = s => ~LateDone(p)'
    BY <1>2, <2>1
  <2> QED
    BY <2>2, <2>3 DEF AckOK
<1>5. CASE ~Settled(s)'
  BY <1>5 DEF AckOK
<1> QED
  BY <1>4, <1>5

\* A sender that has no Ack and no success.
LEMMA AckNone ==
  ASSUME NEW s \in Sender, send'[s].pc # "ok", \A p \in Peer : p[1] = s => ~Answering(p)'
  PROVE  AckOK(s)'
  BY DEF AckOK, Settled

\* The sender's steps.
LEMMA AckSender ==
  ASSUME SingleRoute, NamedInv, [Next]_vars, NEW s \in Sender, AckOK(s),
         NEW p \in Peer, (\E t, k : Proceeds(p, t, k)) \/ GivesUp(p)
  PROVE  AckOK(s)'
<1>1. task \in [Peer -> TaskState] /\ link \in [Peer -> LinkState] /\ delivered[s] \in Nat
  BY TypeFacts DEF NamedInv, TypeOK
<1>2. ASSUME NEW t, NEW k, Proceeds(p, t, k)
      PROVE  AckOK(s)'
  <2>1. /\ Asks(t) /\ task'[p] = t /\ link'[p] = k
        /\ k.state = IF k.net = "up" THEN "request" ELSE "dead"
        /\ \A q \in Peer \ {p} : task'[q] = task[q] /\ link'[q] = link[q]
        /\ UNCHANGED <<send, delivered>>
    BY <1>1, <1>2 DEF Proceeds, Quietly
  <2>2. ~Answering(p)' /\ ~LateDone(p)'
    BY <2>1 DEF Answering, LateDone, IsLate, Waiting, Asks
  <2>3. \A q \in Peer : (Answering(q)' => Answering(q)) /\ (LateDone(q)' => LateDone(q))
    BY <2>1, <2>2 DEF Answering, LateDone, IsLate, Waiting
  <2>4. delivered'[s] >= delivered[s] /\ (send'[s].pc = "ok" => Settled(s))
    BY <1>1, <2>1 DEF Settled
  <2> QED
    BY <2>3, <2>4, AckStill
<1>3. CASE GivesUp(p)
  <2>1. /\ Waiting(p) /\ task'[p].pc = "failed"
        /\ \A q \in Peer \ {p} : task'[q] = task[q] /\ link'[q] = link[q]
        /\ send'[s].pc = send[s].pc /\ delivered' = delivered
    BY <1>1, <1>3 DEF GivesUp, Quietly
  <2>2. CASE p[1] # s
    <3>1. \A q \in Peer : q[1] = s =>
            (Answering(q)' => Answering(q)) /\ (LateDone(q)' => LateDone(q))
      BY <2>1, <2>2 DEF Answering, LateDone, IsLate, Waiting
    <3>2. delivered'[s] >= delivered[s] /\ (send'[s].pc = "ok" => Settled(s))
      BY <1>1, <2>1 DEF Settled
    <3> QED
      BY <3>1, <3>2, AckStill
  <2>3. CASE p[1] = s
    <3>1. send'[s].pc # "ok"
      BY <2>1, <2>3 DEF NamedInv, LoopOK
    <3>2. ASSUME NEW q \in Peer, q[1] = s, Answering(q)' PROVE FALSE
      <4>1. q # p
        BY <2>1, <3>2 DEF Answering
      <4>2. Waiting(q)
        BY <2>1, <3>2, <4>1 DEF Answering, Waiting
      <4> QED
        BY <2>1, <2>3, <3>2, <4>1, <4>2, OneWaits
    <3> QED
      BY <3>1, <3>2, AckNone
  <2> QED
    BY <2>2, <2>3
<1> QED
  BY <1>2, <1>3

\* A send ends well only with its Ack.
LEMMA AckEnd ==
  ASSUME SingleRoute, NamedInv, [Next]_vars, NEW s \in Sender, AckOK(s),
         NEW r \in Sender, Ends(r)
  PROVE  AckOK(s)'
<1>1. link \in [Peer -> LinkState] /\ faults \in Nat /\ delivered[s] \in Nat
  BY TypeFacts DEF NamedInv, TypeOK
<1>2. /\ \A q \in Peer : IF q[1] = r THEN task'[q] = Off /\ link'[q] = Abandon(link[q])
                                     ELSE task'[q] = task[q] /\ link'[q] = link[q]
      /\ delivered' = delivered /\ \A u \in Sender \ {r} : send'[u] = send[u]
  BY DEF Ends, Quietly
<1>3. CASE r # s
  <2>1. \A q \in Peer : q[1] = s =>
          (Answering(q)' => Answering(q)) /\ (LateDone(q)' => LateDone(q))
    BY <1>2, <1>3 DEF Answering, LateDone, IsLate, Waiting
  <2>2. delivered'[s] >= delivered[s] /\ (send'[s].pc = "ok" => Settled(s))
    BY <1>1, <1>2, <1>3 DEF Settled
  <2> QED
    BY <2>1, <2>2, AckStill
<1>4. CASE r = s /\ send'[s].pc = "failed"
  <2>1. \A q \in Peer : q[1] = s => ~Answering(q)'
    BY <1>2, <1>4 DEF Answering, Off
  <2> QED
    BY <1>4, <2>1, AckNone
<1>5. CASE r = s /\ send'[s].pc = "ok"
  <2>1. PICK p \in Peer : p[1] = s /\ Acked(p)
    BY <1>1, <1>5 DEF Ends
  <2>2. Answering(p) /\ Waiting(p) /\ link[p].state # "request"
    BY <2>1 DEF Acked, Answering, Waiting
  <2>3. Settled(s)
    BY <2>1, <2>2 DEF Settled
  <2>4. ASSUME NEW q \in Peer, q[1] = s
        PROVE  ~Answering(q)' /\ (LateDone(q)' => LateDone(q))
    <3>1. task'[q] = Off /\ link'[q] = Abandon(link[q])
      BY <1>2, <1>5, <2>4
    <3>2. ~Answering(q)'
      BY <3>1 DEF Answering, Off
    <3>3. ASSUME LateDone(q)' PROVE LateDone(q)
      <4>1. link[q].state = "request" /\ link[q].type = "done"
        BY <1>1, <3>1, <3>3, AbandonIs, Records DEF LateDone, IsLate
      <4>2. ~Waiting(q)
        BY <2>1, <2>2, <2>4, <4>1, OneWaits
      <4> QED
        BY <4>1, <4>2 DEF LateDone, IsLate
    <3> QED
      BY <3>2, <3>3
  <2>5. delivered'[s] >= delivered[s]
    BY <1>1, <1>2
  <2> QED
    BY <2>3, <2>4, <2>5, AckStill
<1> QED
  BY <1>3, <1>4, <1>5 DEF Ends

\* The loop counts an attempt, or begins one.
LEMMA AckLoop ==
  ASSUME NamedInv, [Next]_vars, NEW s \in Sender, AckOK(s),
         NEW r \in Sender, Counts(r) \/ StartAttempt(r)
  PROVE  AckOK(s)'
<1>1. delivered[s] \in Nat
  BY TypeFacts DEF NamedInv
<1>2. CASE Counts(r)
  <2>1. /\ UNCHANGED <<task, link, delivered>> /\ (send'[s].pc = "ok" => send[s].pc = "ok")
    BY <1>2 DEF Counts, Quietly
  <2>2. \A q \in Peer : (Answering(q)' => Answering(q)) /\ (LateDone(q)' => LateDone(q))
    BY <2>1 DEF Answering, LateDone, IsLate, Waiting
  <2>3. delivered'[s] >= delivered[s] /\ (send'[s].pc = "ok" => Settled(s))
    BY <1>1, <2>1 DEF Settled
  <2> QED
    BY <2>2, <2>3, AckStill
<1>3. CASE StartAttempt(r)
  <2>1. PICK t \in TaskState, k \in LinkState : Starts(r, t, k)
    BY <1>3, StartFacts
  <2>2. ASSUME NEW q \in Peer
        PROVE  (Answering(q)' => Answering(q)) /\ (LateDone(q)' => LateDone(q))
    <3>1. CASE q[1] = r /\ q[2] = send[r].tries + 1
      BY <2>1, <3>1 DEF Starts, Answering, LateDone, IsLate, Waiting
    <3>2. CASE ~(q[1] = r /\ q[2] = send[r].tries + 1)
      <4>1. task'[q] = task[q] /\ link'[q] = link[q]
        BY <2>1, <3>2 DEF Starts
      <4> QED
        BY <4>1 DEF Answering, LateDone, IsLate, Waiting
    <3> QED
      BY <3>1, <3>2
  <2>3. delivered'[s] >= delivered[s] /\ (send'[s].pc = "ok" => Settled(s))
    BY <1>1, <2>1 DEF Starts, Quietly, Settled
  <2> QED
    BY <2>2, <2>3, AckStill
<1> QED
  BY <1>2, <1>3

\* The Ack to Done goes with a copy, and two requests that complete one partial
\* share it.
LEMMA AckServe ==
  ASSUME NamedInv, [Next]_vars, NEW s \in Sender, AckOK(s),
         NEW p \in Peer, NEW x, NEW k, Serves(p, x, k)
  PROVE  AckOK(s)'
<1>1. link \in [Peer -> LinkState] /\ delivered \in [Sender -> Nat] /\ p[1] \in Sender
  BY PeerFacts DEF NamedInv, TypeOK
<1>2. /\ link[p].state = "request" /\ k.state = "answer"
      /\ link'[p] = k /\ \A q \in Peer \ {p} : link'[q] = link[q]
      /\ UNCHANGED <<send, task>>
      /\ delivered' = IF link[p].type = "done" /\ k.type = "ack"
                      THEN [delivered EXCEPT ![p[1]] = delivered[p[1]] + 1] ELSE delivered
  BY <1>1 DEF Serves
<1>3. delivered'[s] >= delivered[s]
  BY <1>1, <1>2
<1>4. \A q \in Peer : LateDone(q)' => LateDone(q) /\ q # p
  BY <1>2 DEF LateDone, IsLate, Waiting
<1>5. \A q \in Peer \ {p} : Answering(q)' => Answering(q)
  BY <1>2 DEF Answering
<1>6. send'[s].pc = "ok" => Settled(s)
  BY <1>2 DEF Settled
<1>7. CASE ~(p[1] = s /\ Answering(p)')
  <2>1. \A q \in Peer : q[1] = s => (Answering(q)' => Answering(q))
    BY <1>5, <1>7
  <2> QED
    BY <1>3, <1>4, <1>6, <2>1, AckStill
<1>8. CASE p[1] = s /\ Answering(p)'
  <2>1. task[p].pc = "done" /\ k.type = "ack"
    BY <1>2, <1>8 DEF Answering
  <2>2. link[p].type = "done"
    <3>1. PeerOK(task[p], link[p], sessions[p], Size[Named(p)]) /\ Asks(task[p])
      BY <2>1 DEF NamedInv, Asks
    <3> QED
      BY <1>2, <2>1, <3>1 DEF PeerOK
  <2>3. delivered'[s] > 0
    BY <1>1, <1>2, <1>8, <2>1, <2>2
  <2>4. ASSUME NEW q \in Peer, link[q].state = "request", link[q].type = "done"
        PROVE  Active(q)
    <3>1. RequestOK(link[q], sessions[q], Size[Named(q)])
      BY <2>4 DEF NamedInv, PeerOK
    <3>2. sessions[q].stage = "body"
      BY <2>4, <3>1 DEF RequestOK, Before
    <3> QED
      BY <2>4, <3>2 DEF Active
  <2>5. ASSUME mixed' = {}, NEW q \in Peer, q[1] = s, LateDone(q)'
        PROVE  FALSE
    <3>1. q # p /\ link[q].state = "request" /\ link[q].type = "done"
      BY <1>4, <2>5 DEF LateDone, IsLate
    <3>2. Active(p) /\ Active(q)
      BY <1>2, <2>2, <2>4, <3>1
    <3>3. Named(p) = Named(q)
      BY <1>8, <2>5 DEF Named
    <3>4. q = p
      BY <2>5, <3>2, <3>3, OnlyOne
    <3> QED
      BY <3>1, <3>4
  <2> QED
    BY <2>3, <2>5 DEF AckOK
<1> QED
  BY <1>7, <1>8

\* A response moves, is lost or is noted; a round ends.
LEMMA AckMove ==
  ASSUME NamedInv, [Next]_vars, NEW s \in Sender, AckOK(s),
         \/ \E p \in Peer : (\E k : Moves(p, k)) \/ (\E x : Notes(p, x))
         \/ RoundOver
  PROVE  AckOK(s)'
<1>1. link \in [Peer -> LinkState] /\ delivered[s] \in Nat
  BY TypeFacts DEF NamedInv, TypeOK
<1>2. UNCHANGED <<send, task, delivered>>
  BY DEF Moves, Notes, RoundOver
<1>3. delivered'[s] >= delivered[s] /\ (send'[s].pc = "ok" => Settled(s))
  BY <1>1, <1>2 DEF Settled
<1>4. ASSUME NEW p \in Peer, NEW k, Moves(p, k)
      PROVE  AckOK(s)'
  <2>1. link'[p] = k /\ \A q \in Peer \ {p} : link'[q] = link[q]
    BY <1>1, <1>4 DEF Moves
  <2>2. \/ k = NoLink \/ k.state = "dead"
        \/ link[p].state = "answer" /\ k.state = "written" /\ k.type = link[p].type
    BY <1>4 DEF Moves
  <2>3. (Answering(p)' => Answering(p)) /\ ~LateDone(p)'
    BY <1>2, <2>1, <2>2, Records DEF Answering, LateDone, IsLate
  <2>4. \A q \in Peer : (Answering(q)' => Answering(q)) /\ (LateDone(q)' => LateDone(q))
    BY <1>2, <2>1, <2>3 DEF Answering, LateDone, IsLate, Waiting
  <2> QED
    BY <1>3, <2>4, AckStill
<1>5. ASSUME NEW p \in Peer, NEW x, Notes(p, x)
      PROVE  AckOK(s)'
  <2>1. link' = link
    BY <1>5 DEF Notes
  <2>2. \A q \in Peer : (Answering(q)' => Answering(q)) /\ (LateDone(q)' => LateDone(q))
    BY <1>2, <2>1 DEF Answering, LateDone, IsLate, Waiting
  <2> QED
    BY <1>3, <2>2, AckStill
<1>6. CASE RoundOver
  <2>1. \A q \in Peer : link'[q] = IF Waiting(q) THEN Lost(link[q]) ELSE NoLink
    BY <1>6 DEF RoundOver
  <2>2. ASSUME NEW q \in Peer
        PROVE  (Answering(q)' => Answering(q)) /\ ~LateDone(q)'
    <3>1. CASE Waiting(q)
      <4>1. link'[q] = Lost(link[q]) /\ Waiting(q)'
        BY <1>2, <2>1, <3>1 DEF Waiting
      <4>2. /\ Lost(link[q]).type = link[q].type
            /\ Lost(link[q]).state = IF link[q].state = "written" THEN "written" ELSE "dead"
        BY <1>1, LostIs
      <4>3. link[q].state = "written" \/ Lost(link[q]).state = "dead"
        BY <4>2
      <4> QED
        BY <1>2, <4>1, <4>2, <4>3 DEF Answering, LateDone, IsLate
    <3>2. CASE ~Waiting(q)
      <4>1. link'[q] = NoLink
        BY <2>1, <3>2
      <4> QED
        BY <4>1, Records DEF Answering, LateDone, IsLate
    <3> QED
      BY <3>1, <3>2
  <2> QED
    BY <1>3, <2>2, AckStill
<1> QED
  BY <1>4, <1>5, <1>6

\* Every step keeps it.
LEMMA AckNext ==
  ASSUME SingleRoute
  PROVE  NamedInv /\ AckInv /\ [Next]_vars => AckInv'
<1> SUFFICES ASSUME NamedInv, AckInv, [Next]_vars, NEW s \in Sender
             PROVE  AckOK(s)'
  BY DEF AckInv
<1>1. AckOK(s) /\ delivered[s] \in Nat
  BY TypeFacts DEF AckInv, NamedInv
<1>2. CASE UNCHANGED <<disk, send, task, link, path, sessions, owed, delivered, others, faults>>
  <2>1. \A q \in Peer : (Answering(q)' => Answering(q)) /\ (LateDone(q)' => LateDone(q))
    BY <1>2 DEF Answering, LateDone, IsLate, Waiting
  <2>2. delivered'[s] >= delivered[s] /\ (send'[s].pc = "ok" => Settled(s))
    BY <1>1, <1>2 DEF Settled
  <2> QED
    BY <1>1, <2>1, <2>2, AckStill
<1> QED
  BY <1>1, <1>2, StepKinds, AckSender, AckEnd, AckLoop, AckServe, AckMove

Report(pc) == CASE pc = "ok" -> "ok" [] pc = "failed" -> "failed" [] OTHER -> "sending"

\* A step of one sender that is still sending.
LEMMA SenderDelivers ==
  ASSUME NEW s \in Sender, NEW pc, send[s].pc \in {"idle", "trying"},
         send'[s].pc = pc, \A r \in Sender \ {s} : send'[r] = send[r],
         delivered' = delivered, pc = "ok" => delivered[s] > 0
  PROVE  [Promise!Next]_Promise!vars
<1>1. /\ Reported = [r \in Sender |-> Report(send[r].pc)]
      /\ Reported' = [r \in Sender |-> Report(send'[r].pc)]
  BY DEF Reported, Report
<1>2. Reported' = [Reported EXCEPT ![s] = Report(pc)]
  BY <1>1
<1>3. Reported[s] = "sending"
  BY <1>1 DEF Report
<1>4. CASE pc = "ok"
  <2>1. Promise!Succeed(s)
    BY <1>2, <1>3, <1>4 DEF Promise!Succeed, Report
  <2> QED
    BY <2>1 DEF Promise!Next
<1>5. CASE pc = "failed"
  <2>1. Promise!GiveUp(s)
    BY <1>2, <1>3, <1>5 DEF Promise!GiveUp, Report
  <2> QED
    BY <2>1 DEF Promise!Next
<1>6. CASE pc \notin {"ok", "failed"}
  <2>1. Reported' = Reported
    BY <1>1, <1>2, <1>3, <1>6 DEF Report
  <2> QED
    BY <2>1 DEF Promise!vars
<1> QED
  BY <1>4, <1>5, <1>6

\* A copy is made for a sender that has not reported success.
LEMMA CopyDelivers ==
  ASSUME NamedInv, AckInv, mixed = {}, NEW p \in Peer, NEW x, NEW k, Serves(p, x, k)
  PROVE  [Promise!Next]_Promise!vars
<1>1. UNCHANGED send /\ link[p].state = "request"
  BY DEF Serves
<1>2. Reported' = Reported
  BY <1>1 DEF Reported
<1>3. CASE delivered' = delivered
  BY <1>2, <1>3 DEF Promise!vars
<1>4. CASE delivered' # delivered
  <2>1. /\ delivered' = [delivered EXCEPT ![p[1]] = delivered[p[1]] + 1]
        /\ link[p].type = "done"
    BY <1>4 DEF Serves
  <2>2. PICK s \in Sender : s = p[1]
    BY PeerFacts
  <2>3. send[s].pc # "ok"
    <3>1. CASE Waiting(p)
      BY <2>2, <3>1 DEF NamedInv, LoopOK
    <3>2. CASE ~Waiting(p)
      <4>1. LateDone(p)
        BY <1>1, <2>1, <3>2 DEF LateDone, IsLate
      <4>2. AckOK(s)
        BY DEF AckInv
      <4> QED
        BY <2>2, <4>1, <4>2 DEF AckOK, Settled
    <3> QED
      BY <3>1, <3>2
  <2>4. Reported[s] # "ok"
    BY <2>3 DEF Reported
  <2>5. Promise!Unpack(s)
    BY <1>2, <2>1, <2>2, <2>4 DEF Promise!Unpack
  <2> QED
    BY <2>5 DEF Promise!Next
<1> QED
  BY <1>3, <1>4

\* Each step is one of the promise, or changes no report and no copy.
LEMMA StepDelivers ==
  ASSUME NamedInv, AckInv, mixed = {}, [Next]_vars
  PROVE  [Promise!Next]_Promise!vars
<1>1. ASSUME NEW s \in Sender, Ends(s)
      PROVE  [Promise!Next]_Promise!vars
  <2>1. /\ send[s].pc \in {"idle", "trying"} /\ delivered' = delivered
        /\ \A r \in Sender \ {s} : send'[r] = send[r]
    BY <1>1 DEF Ends, Quietly
  <2>2. ASSUME send'[s].pc = "ok" PROVE delivered[s] > 0
    <3>1. PICK p \in Peer : p[1] = s /\ Acked(p)
      BY <1>1, <2>2 DEF Ends
    <3>2. Settled(s)
      BY <3>1 DEF Settled, Acked, Answering
    <3> QED
      BY <3>2 DEF AckInv, AckOK
  <2> QED
    BY <2>1, <2>2, SenderDelivers
<1>2. ASSUME NEW s \in Sender, Counts(s) \/ StartAttempt(s)
      PROVE  [Promise!Next]_Promise!vars
  <2>1. CASE Counts(s)
    <3>1. /\ send[s].pc \in {"idle", "trying"} /\ send'[s].pc # "ok" /\ delivered' = delivered
          /\ \A r \in Sender \ {s} : send'[r] = send[r]
      BY <2>1 DEF Counts, Quietly
    <3> QED
      BY <3>1, SenderDelivers
  <2>2. CASE StartAttempt(s)
    <3>1. /\ send[s].pc = "idle" /\ send'[s].pc = "trying" /\ Quietly
          /\ \A r \in Sender \ {s} : send'[r] = send[r]
      BY <2>2, StartFacts DEF Starts
    <3>2. delivered' = delivered
      BY <3>1 DEF Quietly
    <3> QED
      BY <3>1, <3>2, SenderDelivers
  <2> QED
    BY <1>2, <2>1, <2>2
<1>3. ASSUME \/ \E p \in Peer : \/ (\E t, k : Proceeds(p, t, k)) \/ GivesUp(p)
                                \/ (\E k : Moves(p, k)) \/ (\E x : Notes(p, x))
             \/ RoundOver
             \/ UNCHANGED <<disk, send, task, link, path, sessions, owed, delivered, others, faults>>
      PROVE  [Promise!Next]_Promise!vars
  <2>1. delivered' = delivered /\ \A s \in Sender : send'[s].pc = send[s].pc
    BY <1>3 DEF Proceeds, GivesUp, Moves, Notes, RoundOver, Quietly
  <2>2. Reported' = Reported
    BY <2>1 DEF Reported
  <2> QED
    BY <2>1, <2>2 DEF Promise!vars
<1> QED
  BY <1>1, <1>2, <1>3, StepKinds, CopyDelivers

\* On a single route, and while no two sessions receive one archive at once, a
\* named send keeps the promise of Delivery: whatever is lost, late or dropped
\* with a round, it reports success only after its archive was unpacked, and no
\* request that an attempt gave up delivers another copy after that.
THEOREM NamedImplementsDelivery ==
  ASSUME SingleRoute
  PROVE  Spec /\ [](mixed = {}) => ImplementsDelivery
<1>1. Init => Promise!Init /\ AckInv
  <2> SUFFICES ASSUME Init
               PROVE  Promise!Init /\ AckInv
    OBVIOUS
  <2>1. \A s \in Sender : send[s].pc = "idle"
    BY DEF Init
  <2>2. Reported = [s \in Sender |-> "sending"]
    BY <2>1 DEF Reported
  <2>3. Promise!Init
    BY <2>2 DEF Init, Promise!Init
  <2>4. \A p \in Peer : task[p] = Off
    BY DEF Init
  <2>5. AckInv
    BY <2>1, <2>4 DEF AckInv, AckOK, Settled, Answering, Off
  <2> QED
    BY <2>3, <2>5
<1>2. NamedInv /\ AckInv /\ [Next]_vars => (NamedInv /\ AckInv)'
  BY NamedNext, AckNext
<1>3. NamedInv /\ AckInv /\ mixed = {} /\ [Next]_vars => [Promise!Next]_Promise!vars
  BY StepDelivers
<1> QED
  BY <1>1, <1>2, <1>3, NamedInit, PTL DEF Spec, ImplementsDelivery, Promise!Spec

===============================================================================
