----------------------------- MODULE TunnelProofs -----------------------------
(***************************************************************************)
(* The invariants of Tunnel and its refinement of Delivery, for any number *)
(* of senders, attempts and faults, archives of any size, and any terms    *)
(* the senders may have.                                                   *)
(*                                                                         *)
(* TunnelInv says what may be in the queues of a bridged connection, after *)
(* everything the bridge may have done to them.  A secure frame was sealed *)
(* by this connection's sender.  If the session began with the offset the  *)
(* receiver offered (Base), its body is fixed by its sequence number; if   *)
(* it began with one the bridge wrote, a chunk may be any, and the partial *)
(* it is appended to counts as spoiled.  Plain frames are trusted with     *)
(* nothing: the two ends believe them, the invariants do not.              *)
(***************************************************************************)
EXTENDS Tunnel, SequenceTheorems, TLAPS

-------------------------------------------------------------------------------

\* The store: what its operators keep, whatever the archive and the chunks.

\* The directories the store's operators produce: an absent part file reads
\* as the empty sequence.
DirOK(d) == d \in Dir /\ ("part" \notin d.files => d.part = << >>)

\* n bytes of an archive form a sequence of length n.
LEMMA BytesType ==
  ASSUME NEW from \in Nat, NEW n \in Nat
  PROVE  /\ Bytes(from, n) \in Seq(Nat)
         /\ Len(Bytes(from, n)) = n
         /\ \A i \in 1..n : Bytes(from, n)[i] = from + i
  BY DEF Bytes

\* The empty directory is well formed.
LEMMA EmptyDirOK == DirOK(EmptyDir) /\ EmptyDir.files = {} /\ EmptyDir.part = << >>
  BY DEF DirOK, EmptyDir, Dir, File

\* The empty part file agrees with every archive.
LEMMA EmptyIntact == \A r \in Resource : IsIntact(<< >>, r)
  BY StoreAssumption DEF IsIntact

\* write_metadata leaves the part file alone and records what it is given.
LEMMA WriteMetadataOK ==
  ASSUME NEW d, NEW n \in Nat, NEW now \in Nat, DirOK(d)
  PROVE  /\ DirOK(WriteMetadata(d, n, now))
         /\ WriteMetadata(d, n, now).part = d.part
         /\ WriteMetadata(d, n, now).updated = now
         /\ "meta" \in WriteMetadata(d, n, now).files
  BY DEF DirOK, Dir, File, WriteMetadata

\* Removing the part file empties it; removing the metadata leaves it alone.
LEMMA RemovePartOK ==
  ASSUME NEW d, DirOK(d)
  PROVE  /\ DirOK(RemovePart(d))
         /\ RemovePart(d).part = << >>
         /\ RemovePart(d).files = d.files \ {"part"}
<1> DEFINE empty == << >>
<1>1. empty \in Seq(Nat)
  OBVIOUS
<1> HIDE DEF empty
<1>2. RemovePart(d) = [d EXCEPT !.files = d.files \ {"part"}, !.part = empty]
  BY DEF RemovePart, empty
<1>3. RemovePart(d) \in Dir /\ RemovePart(d).part = empty
      /\ RemovePart(d).files = d.files \ {"part"}
  BY <1>1, <1>2 DEF DirOK, Dir
<1> QED
  BY <1>3 DEF DirOK, empty

\* Removing the metadata leaves the part file alone.
LEMMA RemoveMetaOK ==
  ASSUME NEW d, DirOK(d)
  PROVE  /\ DirOK(RemoveMeta(d))
         /\ RemoveMeta(d).part = d.part
         /\ RemoveMeta(d).files = d.files \ {"meta"}
  BY DEF DirOK, Dir, File, RemoveMeta

\* remove_partial leaves neither part file nor metadata.
LEMMA RemovePartialOK ==
  ASSUME NEW d, DirOK(d)
  PROVE  /\ DirOK(RemovePartial(d))
         /\ RemovePartial(d).part = << >>
         /\ RemovePartial(d).files = d.files \ {"part", "meta"}
  BY RemovePartOK, RemoveMetaOK DEF RemovePartial

\* An O_APPEND write of any bytes keeps the directory well formed.
LEMMA AppendPartOK ==
  ASSUME NEW d, NEW b \in Seq(Nat), DirOK(d)
  PROVE  /\ DirOK(AppendPart(d, b))
         /\ AppendPart(d, b).part = d.part \o b
         /\ AppendPart(d, b).files = d.files \cup {"part"}
<1> DEFINE content == d.part \o b
<1>1. content \in Seq(Nat)
  BY DEF DirOK, Dir
<1> HIDE DEF content
<1>2. AppendPart(d, b) = [d EXCEPT !.files = d.files \cup {"part"}, !.part = content]
  BY DEF AppendPart, content
<1>3. AppendPart(d, b) \in Dir /\ AppendPart(d, b).part = content
      /\ AppendPart(d, b).files = d.files \cup {"part"}
  BY <1>1, <1>2 DEF DirOK, Dir, File
<1> QED
  BY <1>3 DEF DirOK, content

\* append_chunk: the chunk is appended and its metadata is fresh.
LEMMA AppendChunkOK ==
  ASSUME NEW d, NEW b \in Seq(Nat), NEW offset \in Nat, NEW now \in Nat, DirOK(d)
  PROVE  /\ DirOK(AppendChunk(d, b, offset, now))
         /\ AppendChunk(d, b, offset, now).part = d.part \o b
         /\ AppendChunk(d, b, offset, now).updated = now
         /\ "meta" \in AppendChunk(d, b, offset, now).files
<1>1. /\ DirOK(AppendPart(d, b))
      /\ AppendPart(d, b).part = d.part \o b
  BY AppendPartOK
<1> QED
  BY <1>1, WriteMetadataOK DEF AppendChunk

\* Appending the bytes that follow an intact part file keeps it intact.
LEMMA AppendIntact ==
  ASSUME NEW r \in Resource, NEW c \in Seq(Nat), IsIntact(c, r),
         NEW n \in Nat, Len(c) + n <= Size[r],
         NEW b \in Seq(Nat), Len(b) = n, \A i \in 1..n : b[i] = Len(c) + i
  PROVE  IsIntact(c \o b, r) /\ Len(c \o b) = Len(c) + n
<1>1. Len(c \o b) = Len(c) + n /\ Len(c) \in Nat
  BY SMT
<1>2. ASSUME NEW i \in 1..Len(c \o b)
      PROVE  (c \o b)[i] = i
  <2>1. CASE i <= Len(c)
    BY <2>1 DEF IsIntact
  <2>2. CASE i > Len(c)
    <3>1. (c \o b)[i] = b[i - Len(c)]
      BY <2>2, <1>1
    <3>2. i - Len(c) \in 1..n
      BY <2>2, <1>1
    <3> QED
      BY <3>1, <3>2
  <2> QED
    BY <2>1, <2>2, <1>1
<1> QED
  BY <1>1, <1>2 DEF IsIntact

\* The same for the chunk a session appends, and for any prefix of it.
LEMMA ChunkIntact ==
  ASSUME NEW r \in Resource, NEW c \in Seq(Nat), NEW n \in Nat, NEW k \in 0..n,
         IsIntact(c, r), Len(c) + n <= Size[r]
  PROVE  /\ IsIntact(c \o Bytes(Len(c), n), r)
         /\ Len(c \o Bytes(Len(c), n)) = Len(c) + n
         /\ IsIntact(c \o SubSeq(Bytes(Len(c), n), 1, k), r)
<1>1. Len(c) \in Nat
  OBVIOUS
<1>2. /\ Bytes(Len(c), n) \in Seq(Nat)
      /\ Len(Bytes(Len(c), n)) = n
      /\ \A i \in 1..n : Bytes(Len(c), n)[i] = Len(c) + i
  BY <1>1, BytesType
<1> DEFINE b == Bytes(Len(c), n)
           p == SubSeq(b, 1, k)
<1> HIDE DEF b
<1>3. b \in Seq(Nat) /\ Len(b) = n /\ \A i \in 1..n : b[i] = Len(c) + i
  BY <1>2 DEF b
<1>4. p \in Seq(Nat) /\ Len(p) = k
  BY <1>3
<1>5. \A i \in 1..k : p[i] = b[i]
  BY <1>3
<1> HIDE DEF p
<1>6. k \in Nat /\ Len(c) + k <= Size[r] /\ \A i \in 1..k : p[i] = Len(c) + i
  BY <1>1, <1>3, <1>5, StoreAssumption
<1>7. IsIntact(c \o b, r) /\ Len(c \o b) = Len(c) + n
  BY <1>3, AppendIntact
<1>8. IsIntact(c \o p, r)
  BY <1>4, <1>6, AppendIntact
<1> QED
  BY <1>7, <1>8 DEF b, p

\* cleanup_expired leaves a directory as it is or empties it, and empties no
\* directory whose metadata is within the retention time.
LEMMA CleanupOK ==
  ASSUME NEW ds, NEW now \in Nat, \A r \in Resource : DirOK(ds[r]),
         NEW r \in Resource
  PROVE  /\ DirOK(CleanupExpired(ds, now)[r])
         /\ \/ CleanupExpired(ds, now)[r] = ds[r]
            \/ /\ CleanupExpired(ds, now)[r] = EmptyDir
               /\ "meta" \notin ds[r].files \/ ds[r].updated + Retention < now
<1>1. CleanupExpired(ds, now)[r] = IF Stale(ds[r], now) THEN EmptyDir ELSE ds[r]
  BY DEF CleanupExpired
<1> QED
  BY <1>1, EmptyDirOK DEF Stale

\* resume_state on the directory of its own resource: the part file is kept
\* whole or emptied, its length is the offset offered, and metadata exists.
LEMMA OpenDirOK ==
  ASSUME NEW d, NEW r \in Resource, NEW now \in Nat, DirOK(d)
  PROVE  /\ DirOK(OpenDir(d, r, now))
         /\ OpenDir(d, r, now).part = d.part \/ OpenDir(d, r, now).part = << >>
         /\ Len(OpenDir(d, r, now).part) = ResumeOffset(d, r)
         /\ "meta" \in OpenDir(d, r, now).files
         /\ ResumeOffset(d, r) \in Nat
         /\ ResumeOffset(d, r) <= Size[r]
         /\ KeepOrRemove(d, r) = d \/ KeepOrRemove(d, r) = RemovePartial(d)
<1>1. d.part \in Seq(Nat) /\ Len(d.part) \in Nat /\ Size[r] \in Nat
  BY StoreAssumption DEF DirOK, Dir
<1>2. CASE Resumable(d, r)
  <2>1. KeepOrRemove(d, r) = d /\ ResumeOffset(d, r) = Len(d.part)
        /\ Len(d.part) <= Size[r] /\ "meta" \in d.files
    BY <1>2 DEF KeepOrRemove, ResumeOffset, Resumable
  <2>2. CASE Len(d.part) = 0
    <3>1. OpenDir(d, r, now) = WriteMetadata(d, 0, now)
      BY <2>1, <2>2 DEF OpenDir
    <3>2. /\ DirOK(WriteMetadata(d, 0, now))
          /\ WriteMetadata(d, 0, now).part = d.part
          /\ "meta" \in WriteMetadata(d, 0, now).files
      BY WriteMetadataOK
    <3> QED
      BY <3>1, <3>2, <2>1, <2>2, <1>1
  <2>3. CASE Len(d.part) # 0
    <3>1. OpenDir(d, r, now) = d
      BY <2>1, <2>3 DEF OpenDir
    <3> QED
      BY <3>1, <2>1, <1>1
  <2> QED
    BY <2>2, <2>3
<1>3. CASE ~Resumable(d, r)
  <2> DEFINE k == KeepOrRemove(d, r)
  <2>1. ResumeOffset(d, r) = 0
    BY <1>3 DEF ResumeOffset
  <2>2. /\ k = d \/ k = RemovePartial(d)
        /\ DirOK(k)
        /\ k.part = << >>
    <3>1. CASE d.files \cap {"part", "meta"} = {}
      BY <3>1 DEF KeepOrRemove, DirOK
    <3>2. CASE d.files \cap {"part", "meta"} # {}
      BY <3>2, <1>3, RemovePartialOK DEF KeepOrRemove
    <3> QED
      BY <3>1, <3>2
  <2>3. OpenDir(d, r, now) = WriteMetadata(k, 0, now)
    BY <2>1 DEF OpenDir
  <2> HIDE DEF k
  <2>4. /\ DirOK(WriteMetadata(k, 0, now))
        /\ WriteMetadata(k, 0, now).part = << >>
        /\ "meta" \in WriteMetadata(k, 0, now).files
    BY <2>2, WriteMetadataOK
  <2>5. Len(WriteMetadata(k, 0, now).part) = 0
    BY <2>4
  <2> QED
    BY <2>1, <2>2, <2>3, <2>4, <2>5, <1>1 DEF k
<1> QED
  BY <1>2, <1>3

-------------------------------------------------------------------------------

\* The frames that are not encrypted: the names and versions in a ClientIntro
\* are those somebody has.
Names == {Ours.name, NoName} \cup UNION {{f[s].name : s \in Sender} : f \in TermsChoices}

Versions == {Ours.version} \cup UNION {{f[s].version : s \in Sender} : f \in TermsChoices}

Intros == [name : Names, version : Versions, resource : Resource]

SignalFrame ==
  [type : {"upgrade", "upgraded", "client_finish", "version_error", "unpack_error",
           "ping", "pong", "text"},
   at : Nat]

IntroFrame == [type : {"client_intro"}, intro : Intros]

AnswerFrame == [type : {"server_intro", "ack"}, at : Nat, by : Word]

PlainFrame == SignalFrame \cup IntroFrame \cup AnswerFrame

\* An acknowledgement that is the receiver's word.
IsAck(f) == f.type = "ack" /\ f.by = "receiver"

NoAck == {f \in PlainFrame : ~IsAck(f)}

InSession == {"finish", "header", "body"}

\* The receiver has made its offer on this connection, ...
Serving(c) == rcv.conn = <<c>> /\ rcv.pc \in InSession

\* ... which was this offset.
Base == IF rcv.pc = "body" THEN rcv.offset + 1 - rcv.expected ELSE rcv.offset

Offered(c) == IF Serving(c) THEN {Base} ELSE {}

\* The sender's end of the session key of a connection, and its archive's size.
KeyOf(c) == SessionKey(c, snd[c[1]].terms)

SizeOf(c) == Size[ResourceOf[c[1]]]

\* The bodies that may have the sequence number n.  Only a session that began
\* with the receiver's offset has its chunks in place.
InPlace(n, base, size) ==
  IF base + n <= size THEN {Body("chunk", base + n - 1, "receiver")} ELSE {}

BodiesAt(n, offered, size) ==
  IF n = 0 THEN {Body("header", 0, by) : by \in Word}
  ELSE {Body("done", 0, by) : by \in Word} \cup {Body("chunk", at, "bridge") : at \in Nat}
         \cup UNION {InPlace(n, base, size) : base \in offered}

\* The frames sealed with a key, damaged or not.
SealedFrame(n, key, b, i) ==
  [type |-> "secure", sequence |-> n, key |-> DeriveNext(Ratchet(NewChain(key), n), n),
   body |-> b, tag |-> i]

SealedAt(n, key, offered, size) ==
  {SealedFrame(n, key, b, i) : b \in BodiesAt(n, offered, size), i \in {"good", "bad"}}

Sealed(key, offered, size) == UNION {SealedAt(n, key, offered, size) : n \in Nat}

\* What may be in the queues of a connection.
Requests(c) == PlainFrame \cup Sealed(KeyOf(c), Offered(c), SizeOf(c))

Answers(c, server) ==
  {f \in PlainFrame : f.type = "server_intro" /\ f.by = "receiver" /\ server = "open" =>
                        Serving(c) /\ f.at = Base}

\* A connection's state, given what may be in its queues.
LinkType(requests, answers) ==
  [c2s : Seq(requests), s2c : Seq(answers),
   client : {"open", "closed"}, server : {"open", "closed"}, bridge : {"up", "cut", "stalled"}]

LinkOK(k, c) == k \in LinkType(Requests(c), Answers(c, k.server))

InAttempt == {"dialing", "opening", "sending", "waiting"}

\* A sender's state, given its connection's: if the offset was the receiver's,
\* the next chunk is the one its sequence number stands for.
SenderOK(t, k, c) ==
  /\ t.pc = "idle" => t.tries < MaxAttempts
  /\ t.pc \in InAttempt => t.tries >= 1
  /\ t.pc \in {"idle", "dialing", "opening"} => t.sequence = 0
  /\ t.pc = "sending" => t.sequence >= 1 /\ t.pos <= SizeOf(c)
  /\ t.pc = "sending" /\ t.by = "receiver" /\ k.server = "open" =>
       Serving(c) /\ t.pos = Base + t.sequence - 1

ReceiverOK ==
  /\ rcv.pc = "accept" => rcv.conn = << >>
  /\ rcv.pc # "accept" => \E c \in Conn : rcv.conn = <<c>>
  /\ rcv.pc \in {"upgrade", "intro", "finish", "header"} => rcv.expected = 0
  /\ rcv.pc = "body" => rcv.expected \in 1..rcv.offset + 1 /\ snd[Peer].terms = Ours
  /\ rcv.pc \in InSession =>
       /\ \E intro \in Accepted : rcv.intro = <<intro>>
       /\ Len(disk[Named].part) = rcv.offset

DiskOK == \A r \in Resource : DirOK(disk[r]) /\ (r \notin spoiled => IsIntact(disk[r].part, r))

TunnelInv ==
  /\ TypeOK
  /\ DiskOK
  /\ ReceiverOK
  /\ \A c \in Conn : LinkOK(conn[c], c)
  /\ \A s \in Sender : SenderOK(snd[s], conn[<<s, snd[s].tries>>], <<s, snd[s].tries>>)

-------------------------------------------------------------------------------
(* The symbolic cryptography and the queues. *)

\* A message key names the session key its chain was drawn from.
LEMMA KeyRoot ==
  ASSUME NEW key, NEW n
  PROVE  DeriveNext(Ratchet(NewChain(key), n), n).root = key
  BY DEF DeriveNext, Ratchet, NewChain

\* A sealed frame: the number fixes the body.
LEMMA SealedFacts ==
  ASSUME NEW key, NEW offered, NEW size, NEW f \in Sealed(key, offered, size)
  PROVE  /\ f.type = "secure"
         /\ f.sequence \in Nat
         /\ f.key.root = key
         /\ f.tag \in {"good", "bad"}
         /\ f.body \in BodiesAt(f.sequence, offered, size)
<1>1. PICK n \in Nat : f \in SealedAt(n, key, offered, size)
  BY DEF Sealed
<1>2. PICK b \in BodiesAt(n, offered, size), i \in {"good", "bad"} : f = SealedFrame(n, key, b, i)
  BY <1>1 DEF SealedAt
<1> QED
  BY <1>2, KeyRoot DEF SealedFrame

\* Damage leaves a frame sealed.
LEMMA DamagedSealed ==
  ASSUME NEW key, NEW offered, NEW size, NEW f \in Sealed(key, offered, size)
  PROVE  [f EXCEPT !.tag = "bad"] \in Sealed(key, offered, size)
<1>1. PICK n \in Nat : f \in SealedAt(n, key, offered, size)
  BY DEF Sealed
<1>2. PICK b \in BodiesAt(n, offered, size), i \in {"good", "bad"} : f = SealedFrame(n, key, b, i)
  BY <1>1 DEF SealedAt
<1>3. SealedFrame(n, key, b, "bad") \in SealedAt(n, key, offered, size)
  BY DEF SealedAt
<1>4. [f EXCEPT !.tag = "bad"] = SealedFrame(n, key, b, "bad")
  BY <1>2 DEF SealedFrame
<1> QED
  BY <1>3, <1>4 DEF Sealed

\* What encrypt_secure makes of a body that has the next number.
LEMMA OwnSeal ==
  ASSUME NEW s \in Sender, snd[s].sequence \in Nat, NEW offered, NEW size,
         NEW b \in BodiesAt(snd[s].sequence, offered, size)
  PROVE  Seal(s, b) \in Sealed(KeyOf(Attempt(s)), offered, size)
<1> DEFINE n == snd[s].sequence
           key == KeyOf(Attempt(s))
<1>1. ClientChain(s) = NewChain(key)
  BY DEF ClientChain, KeyOf, Attempt
<1>2. Seal(s, b) = SealedFrame(n, key, b, "good")
  BY <1>1 DEF Seal, EncryptSecure, SealedFrame
<1>3. SealedFrame(n, key, b, "good") \in SealedAt(n, key, offered, size)
  BY DEF SealedAt
<1> QED
  BY <1>2, <1>3 DEF Sealed

\* Queues of fewer or of weaker frames.
LEMMA LinkMonotonic ==
  ASSUME NEW R, NEW A, NEW R2, NEW A2, R \subseteq R2, A \subseteq A2,
         NEW k \in LinkType(R, A)
  PROVE  k \in LinkType(R2, A2)
<1>1. k.c2s \in Seq(R2)
  BY DEF LinkType
<1>2. k.s2c \in Seq(A2)
  BY DEF LinkType
<1> QED
  BY <1>1, <1>2 DEF LinkType

\* A connection that neither end has any more.
LEMMA NoConnOK == \A R, A : NoConn \in LinkType(R, A)
  BY DEF NoConn, LinkType

\* The sender's end is dropped.
LEMMA CloseClientOK ==
  ASSUME NEW R, NEW A, NEW k \in LinkType(R, A)
  PROVE  CloseClient(k) \in LinkType(R, A) /\ CloseClient(k).server = k.server
  BY NoConnOK DEF CloseClient, Settle, LinkType, NoConn

\* The receiver's end is dropped, with what it has not read.
LEMMA CloseServerOK ==
  ASSUME NEW R, NEW A, NEW R2, NEW k \in LinkType(R, A)
  PROVE  CloseServer(k) \in LinkType(R2, A) /\ CloseServer(k).server = "closed"
  BY NoConnOK DEF CloseServer, Settle, LinkType, NoConn

\* Another queue in the place of one.
LEMMA NewRequests ==
  ASSUME NEW R, NEW A, NEW k \in LinkType(R, A), NEW R2, NEW requests \in Seq(R2)
  PROVE  /\ [k EXCEPT !.c2s = requests] \in LinkType(R2, A)
         /\ [k EXCEPT !.c2s = requests].server = k.server
  BY DEF LinkType

\* The same for what the receiver wrote.
LEMMA NewAnswers ==
  ASSUME NEW R, NEW A, NEW k \in LinkType(R, A), NEW A2, NEW answers \in Seq(A2)
  PROVE  /\ [k EXCEPT !.s2c = answers] \in LinkType(R, A2)
         /\ [k EXCEPT !.s2c = answers].server = k.server
  BY DEF LinkType

\* A write of the sender, if it gets through.
LEMMA ToServerOK ==
  ASSUME NEW R, NEW A, NEW k \in LinkType(R, A), NEW frames,
         k.server = "open" => frames \in Seq(R)
  PROVE  ToServer(k, frames) \in LinkType(R, A) /\ ToServer(k, frames).server = k.server
<1>1. CASE k.server = "open" /\ k.bridge = "up"
  <2> DEFINE longer == k.c2s \o frames
  <2>1. longer \in Seq(R)
    BY <1>1 DEF LinkType
  <2>2. ToServer(k, frames) = [k EXCEPT !.c2s = longer]
    BY <1>1 DEF ToServer
  <2> HIDE DEF longer
  <2> QED
    BY <2>1, <2>2, NewRequests
<1>2. CASE ~(k.server = "open" /\ k.bridge = "up")
  BY <1>2 DEF ToServer
<1> QED
  BY <1>1, <1>2

\* A write of the receiver.
LEMMA ToClientOK ==
  ASSUME NEW R, NEW A, NEW k \in LinkType(R, A), NEW frames \in Seq(A)
  PROVE  ToClient(k, frames) \in LinkType(R, A) /\ ToClient(k, frames).server = k.server
<1>1. CASE k.client = "open" /\ k.bridge = "up"
  <2> DEFINE longer == k.s2c \o frames
  <2>1. longer \in Seq(A)
    BY DEF LinkType
  <2>2. ToClient(k, frames) = [k EXCEPT !.s2c = longer]
    BY <1>1 DEF ToClient
  <2> HIDE DEF longer
  <2> QED
    BY <2>1, <2>2, NewAnswers
<1>2. CASE ~(k.client = "open" /\ k.bridge = "up")
  BY <1>2 DEF ToClient
<1> QED
  BY <1>1, <1>2

\* A read of either end.
LEMMA ReadOK ==
  ASSUME NEW R, NEW A, NEW k \in LinkType(R, A)
  PROVE  /\ k.c2s # << >> =>
              /\ Head(k.c2s) \in R
              /\ Consumed(k) \in LinkType(R, A) /\ Consumed(k).server = k.server
         /\ k.s2c # << >> =>
              /\ Head(k.s2c) \in A
              /\ Answered(k) \in LinkType(R, A)
              /\ Answered(k).server = k.server
<1>1. k.c2s \in Seq(R) /\ k.s2c \in Seq(A)
  BY DEF LinkType
<1>2. ASSUME k.c2s # << >>
      PROVE  /\ Head(k.c2s) \in R
             /\ Consumed(k) \in LinkType(R, A) /\ Consumed(k).server = k.server
  <2> DEFINE rest == Tail(k.c2s)
  <2>1. Head(k.c2s) \in R /\ rest \in Seq(R)
    BY <1>1, <1>2
  <2>2. Consumed(k) = [k EXCEPT !.c2s = rest]
    BY DEF Consumed
  <2> HIDE DEF rest
  <2> QED
    BY <2>1, <2>2, NewRequests
<1>3. ASSUME k.s2c # << >>
      PROVE  /\ Head(k.s2c) \in A
             /\ Answered(k) \in LinkType(R, A) /\ Answered(k).server = k.server
  <2> DEFINE rest == Tail(k.s2c)
  <2>1. Head(k.s2c) \in A /\ rest \in Seq(A)
    BY <1>1, <1>3
  <2>2. Answered(k) = [k EXCEPT !.s2c = rest]
    BY DEF Answered
  <2> HIDE DEF rest
  <2> QED
    BY <2>1, <2>2, NewAnswers
<1> QED
  BY <1>2, <1>3

\* The bridge cuts a connection that both ends have.
LEMMA CutOK ==
  ASSUME NEW R, NEW A, NEW k \in LinkType(R, A)
  PROVE  Cut(k) \in LinkType(R, A) /\ Cut(k).server = k.server
<1> DEFINE none == << >>
<1>1. none \in Seq(R) /\ none \in Seq(A)
  OBVIOUS
<1> HIDE DEF none
<1>2. [k EXCEPT !.bridge = "cut", !.c2s = none, !.s2c = none] \in LinkType(R, A)
      /\ [k EXCEPT !.bridge = "cut", !.c2s = none, !.s2c = none].server = k.server
  BY <1>1 DEF LinkType
<1>3. Cut(k) \in {k, [k EXCEPT !.bridge = "cut", !.c2s = none, !.s2c = none]}
  BY DEF Cut, none
<1> QED
  BY <1>2, <1>3

\* Whatever the bridge does to the queue of a receiver, it adds no frame of its
\* own but control and text frames, and changes none but to damage a sealed
\* frame or to write another intro.
LEMMA TamperedOK ==
  ASSUME NEW S, [type |-> "ping", at |-> 0] \in S, [type |-> "text", at |-> 0] \in S,
         \A f \in S : f.type = "secure" => [f EXCEPT !.tag = "bad"] \in S,
         NEW queue \in Seq(S),
         \A f \in S : f.type = "client_intro" =>
           \A intro \in Rewritten(f.intro) : [f EXCEPT !.intro = intro] \in S,
         NEW kind \in TamperKinds, NEW tampered \in Tampered(kind, queue)
  PROVE  tampered \in Seq(S)
<1>1. CASE kind = "lost"
  <2>1. PICK i \in Losable(queue) : tampered = Without(queue, i)
    BY <1>1 DEF Tampered
  <2>2. i \in 1..Len(queue)
    BY DEF Losable
  <2>3. SubSeq(queue, 1, i - 1) \in Seq(S) /\ SubSeq(queue, i + 1, Len(queue)) \in Seq(S)
    BY <2>2
  <2> QED
    BY <2>1, <2>3 DEF Without
<1>2. CASE kind = "copied"
  <2>1. PICK i \in 1..Len(queue) : tampered = Twice(queue, i)
    BY <1>2 DEF Tampered
  <2>2. SubSeq(queue, 1, i) \in Seq(S) /\ SubSeq(queue, i, Len(queue)) \in Seq(S)
    OBVIOUS
  <2> QED
    BY <2>1, <2>2 DEF Twice
<1>3. CASE kind = "swapped"
  <2>1. PICK i \in 1..Len(queue) - 1 : tampered = Swap(queue, i)
    BY <1>3 DEF Tampered
  <2>2. i \in 1..Len(queue) /\ i + 1 \in 1..Len(queue)
    OBVIOUS
  <2> QED
    BY <2>1, <2>2 DEF Swap
<1>4. CASE kind = "damaged"
  <2>1. PICK i \in {j \in 1..Len(queue) : queue[j].type = "secure"} :
          tampered = [queue EXCEPT ![i].tag = "bad"]
    BY <1>4 DEF Tampered
  <2>2. queue[i] \in S
    OBVIOUS
  <2>3. [queue[i] EXCEPT !.tag = "bad"] \in S
    BY <2>2
  <2>4. tampered = [queue EXCEPT ![i] = [queue[i] EXCEPT !.tag = "bad"]]
    BY <2>1
  <2> QED
    BY <2>3, <2>4
<1>5. CASE kind \in {"control", "text"}
  <2>1. PICK f \in S : tampered = queue \o <<f>>
    BY <1>5 DEF Tampered, Signal
  <2> QED
    BY <2>1
<1>6. CASE kind = "altered"
  <2> DEFINE changed(i) == {[queue EXCEPT ![i].intro = intro] : intro \in Rewritten(queue[i].intro)}
  <2>1. tampered \in UNION {changed(i) : i \in {j \in 1..Len(queue) : queue[j].type = "client_intro"}}
    BY <1>6 DEF Tampered
  <2>2. PICK i \in {j \in 1..Len(queue) : queue[j].type = "client_intro"} : tampered \in changed(i)
    BY <2>1
  <2>3. PICK intro \in Rewritten(queue[i].intro) : tampered = [queue EXCEPT ![i].intro = intro]
    BY <2>2
  <2>4. queue[i] \in S
    OBVIOUS
  <2>5. [queue[i] EXCEPT !.intro = intro] \in S
    BY <2>4
  <2>6. tampered = [queue EXCEPT ![i] = [queue[i] EXCEPT !.intro = intro]]
    BY <2>3
  <2> QED
    BY <2>5, <2>6
<1> QED
  BY <1>1, <1>2, <1>3, <1>4, <1>5, <1>6 DEF TamperKinds

-------------------------------------------------------------------------------
(* What the steps of the sender and of the bridge have to establish. *)

\* A step that leaves the receiver and everybody's terms alone changes nothing
\* about what may be in the queues.
LEMMA SameOffer ==
  ASSUME rcv' = rcv, NEW c \in Conn, snd'[c[1]].terms = snd[c[1]].terms
  PROVE  /\ Serving(c)' = Serving(c)
         /\ Base' = Base
         /\ Requests(c)' = Requests(c)
         /\ \A server : Answers(c, server)' = Answers(c, server)
<1>1. Serving(c)' = Serving(c) /\ Base' = Base
  BY DEF Serving, InSession, Base
<1>2. KeyOf(c)' = KeyOf(c) /\ Offered(c)' = Offered(c) /\ SizeOf(c)' = SizeOf(c)
  BY <1>1 DEF KeyOf, Offered, SizeOf
<1> QED
  BY <1>1, <1>2 DEF Requests, Answers

\* The connections are named by a sender and an attempt.
LEMMA ConnFacts ==
  /\ \A c \in Conn : c[1] \in Sender /\ c[2] \in 1..MaxAttempts /\ c = <<c[1], c[2]>>
  /\ \A s \in Sender, n \in 1..MaxAttempts : <<s, n>> \in Conn
  BY DEF Conn

\* A step of sender s, with its connection.
LEMMA SenderRule ==
  ASSUME TunnelInv,
         NEW s \in Sender, NEW next \in SenderState, next.terms = snd[s].terms,
         NEW c \in Conn, c = <<s, next.tries>>, NEW k, LinkOK(k, c), SenderOK(next, k, c),
         snd' = [snd EXCEPT ![s] = next],
         DOMAIN conn' = Conn, \A d \in Conn : conn'[d] = IF d = c THEN k ELSE conn[d],
         helper' = helper, disk' = disk, rcv' = rcv, delivered' = delivered,
         spoiled' = spoiled, backlog' \in Seq(Conn), faults' \in 0..MaxFaults
  PROVE  TunnelInv'
<1>1. /\ snd \in [Sender -> SenderState]
      /\ DOMAIN conn = Conn
      /\ TypeOK /\ DiskOK /\ ReceiverOK
      /\ \A d \in Conn : LinkOK(conn[d], d)
      /\ \A t \in Sender : SenderOK(snd[t], conn[<<t, snd[t].tries>>], <<t, snd[t].tries>>)
  BY DEF TunnelInv, TypeOK
<1>2. /\ snd' \in [Sender -> SenderState]
      /\ \A t \in Sender : snd'[t] = IF t = s THEN next ELSE snd[t]
      /\ DOMAIN conn' = Conn
      /\ \A d \in Conn : conn'[d] = IF d = c THEN k ELSE conn[d]
  BY <1>1
<1>3. \A t \in Sender : snd'[t].terms = snd[t].terms
  BY <1>2
<1>4. TypeOK'
  BY <1>1, <1>2 DEF TypeOK
<1>5. DiskOK'
  BY <1>1 DEF DiskOK
<1>6. ReceiverOK'
  <2>1. rcv.pc = "body" => Peer \in Sender
    BY <1>1, ConnFacts DEF ReceiverOK, InSession, Peer, Served
  <2> QED
    BY <1>1, <1>3, <2>1 DEF ReceiverOK, InSession, Peer, Served, Named
<1>7. ASSUME NEW d \in Conn
      PROVE  LinkOK(conn[d], d)'
  <2>1. d[1] \in Sender
    BY ConnFacts
  <2>2. Requests(d)' = Requests(d) /\ \A server : Answers(d, server)' = Answers(d, server)
    BY <2>1, <1>3, SameOffer
  <2> QED
    BY <1>1, <1>2, <2>2 DEF LinkOK
<1>8. ASSUME NEW t \in Sender
      PROVE  SenderOK(snd[t], conn[<<t, snd[t].tries>>], <<t, snd[t].tries>>)'
  <2>1. PICK d : d = <<t, snd'[t].tries>>
    OBVIOUS
  <2>2. Serving(d)' = Serving(d) /\ Base' = Base
    BY DEF Serving, InSession, Base
  <2>3. SUFFICES SenderOK(snd[t], conn[d], d)'
    BY <2>1
  <2>4. CASE t = s
    <3>1. snd'[t] = next /\ d = c /\ conn'[d] = k
      BY <2>1, <2>4, <1>2
    <3> QED
      BY <3>1, <2>2 DEF SenderOK, SizeOf
  <2>5. CASE t # s
    <3>1. snd'[t] = snd[t] /\ d # c /\ d = <<t, snd[t].tries>>
      BY <2>1, <2>5, <1>2
    <3>2. SenderOK(snd[t], conn[d], d)
      BY <1>1, <3>1
    <3>3. CASE d \in Conn
      <4>1. conn'[d] = conn[d]
        BY <3>1, <3>3, <1>2
      <4> QED
        BY <3>1, <3>2, <4>1, <2>2 DEF SenderOK, SizeOf
    <3>4. CASE d \notin Conn
      <4>1. snd[t].tries \in 0..MaxAttempts /\ snd[t].tries \notin 1..MaxAttempts
        BY <1>1, <3>1, <3>4, ConnFacts DEF SenderState
      <4>2. snd[t].pc \notin InAttempt
        BY <4>1, <3>2, TunnelAssumption DEF SenderOK
      <4> QED
        BY <3>1, <3>2, <4>2 DEF SenderOK, InAttempt, SizeOf
    <3> QED
      BY <3>3, <3>4
  <2> QED
    BY <2>4, <2>5
<1> QED
  BY <1>4, <1>5, <1>6, <1>7, <1>8 DEF TunnelInv

\* A step that changes connections and nothing else the invariant is about:
\* queues stay within what they may hold, and the receiver's ends are kept.
LEMMA BridgeRule ==
  ASSUME TunnelInv,
         DOMAIN conn' = Conn,
         \A c \in Conn : LinkOK(conn'[c], c) /\ conn'[c].server = conn[c].server,
         snd' = snd, disk' = disk, rcv' = rcv, delivered' = delivered, backlog' = backlog,
         spoiled' = spoiled, helper' \in {"starting", "up", "dead", "failed"}, faults' \in 0..MaxFaults
  PROVE  TunnelInv'
<1>1. /\ TypeOK /\ DiskOK /\ ReceiverOK
      /\ snd \in [Sender -> SenderState]
      /\ DOMAIN conn = Conn
      /\ \A t \in Sender : SenderOK(snd[t], conn[<<t, snd[t].tries>>], <<t, snd[t].tries>>)
  BY DEF TunnelInv, TypeOK
<1>2. TypeOK'
  BY <1>1 DEF TypeOK
<1>3. DiskOK' /\ ReceiverOK'
  BY <1>1 DEF DiskOK, ReceiverOK, InSession, Peer, Served, Named
<1>4. ASSUME NEW c \in Conn
      PROVE  LinkOK(conn[c], c)'
  <2>1. c[1] \in Sender
    BY ConnFacts
  <2>2. Requests(c)' = Requests(c) /\ \A server : Answers(c, server)' = Answers(c, server)
    BY <2>1, SameOffer
  <2> QED
    BY <2>2 DEF LinkOK
<1>5. ASSUME NEW s \in Sender
      PROVE  SenderOK(snd[s], conn[<<s, snd[s].tries>>], <<s, snd[s].tries>>)'
  <2> DEFINE c == <<s, snd[s].tries>>
  <2>1. SenderOK(snd[s], conn[c], c)
    BY <1>1
  <2>2. Serving(c)' = Serving(c) /\ Base' = Base
    BY DEF Serving, InSession, Base
  <2>3. CASE c \in Conn
    <3>1. conn'[c].server = conn[c].server
      BY <2>3
    <3> QED
      BY <2>1, <2>2, <3>1 DEF SenderOK, SizeOf
  <2>4. CASE c \notin Conn
    <3>1. snd[s].tries \in 0..MaxAttempts /\ snd[s].tries \notin 1..MaxAttempts
      BY <1>1, <2>4, ConnFacts DEF SenderState
    <3>2. snd[s].pc \notin InAttempt
      BY <3>1, <2>1, TunnelAssumption DEF SenderOK
    <3> QED
      BY <2>1, <3>2 DEF SenderOK, InAttempt, SizeOf
  <2> QED
    BY <2>3, <2>4
<1> QED
  BY <1>2, <1>3, <1>4, <1>5 DEF TunnelInv

-------------------------------------------------------------------------------
(* The steps of the sender. *)

\* The frames either end writes, but for the sealed ones.
LEMMA SignalOK ==
  \A type \in {"upgrade", "upgraded", "client_finish", "version_error",
               "unpack_error", "ping", "pong", "text"} :
    /\ Signal(type) \in PlainFrame
    /\ \A c : Signal(type) \in Requests(c)
    /\ \A c, server : Signal(type) \in Answers(c, server)
<1> SUFFICES ASSUME NEW type \in {"upgrade", "upgraded", "client_finish", "version_error",
                                  "unpack_error", "ping", "pong", "text"}
             PROVE  /\ Signal(type) \in PlainFrame
                    /\ \A c : Signal(type) \in Requests(c)
                    /\ \A c, server : Signal(type) \in Answers(c, server)
  OBVIOUS
<1>1. Signal(type) \in PlainFrame /\ Signal(type).type # "server_intro"
  BY DEF Signal, PlainFrame, SignalFrame
<1>2. \A c : Signal(type) \in Requests(c)
  BY <1>1 DEF Requests
<1>3. \A c, server : Signal(type) \in Answers(c, server)
  BY <1>1 DEF Answers
<1> QED
  BY <1>1, <1>2, <1>3

\* The frames by their type.
LEMMA FrameTypes ==
  /\ \A f \in PlainFrame : f.type # "secure"
  /\ \A f \in PlainFrame : f.type = "client_intro" => f \in IntroFrame
  /\ \A f \in PlainFrame : f.type \in {"server_intro", "ack"} => f \in AnswerFrame
  /\ \A c : \A f \in Requests(c) : f.type = "secure" =>
       f \in Sealed(KeyOf(c), Offered(c), SizeOf(c))
  /\ \A c : \A f \in Requests(c) : f.type = "client_intro" => f \in IntroFrame
<1>1. /\ \A f \in PlainFrame : f.type # "secure"
      /\ \A f \in PlainFrame : f.type = "client_intro" => f \in IntroFrame
      /\ \A f \in PlainFrame : f.type \in {"server_intro", "ack"} => f \in AnswerFrame
  BY DEF PlainFrame, SignalFrame, IntroFrame, AnswerFrame
<1>2. \A c : \A f \in Requests(c) : f.type = "secure" =>
        f \in Sealed(KeyOf(c), Offered(c), SizeOf(c))
  BY <1>1 DEF Requests
<1>3. \A c : \A f \in Requests(c) : f.type = "client_intro" => f \in IntroFrame
  BY <1>1, SealedFacts DEF Requests
<1> QED
  BY <1>1, <1>2, <1>3

\* What anybody has is a name and a version.
LEMMA TermsNamed ==
  ASSUME NEW t \in SenderState
  PROVE  t.terms.name \in Names \ {NoName} /\ t.terms.version \in Versions /\ IsTerms(t.terms)
<1>1. t.terms \in UNION {{f[s] : s \in Sender} : f \in TermsChoices}
  BY DEF SenderState
<1>2. PICK f \in TermsChoices, s \in Sender : t.terms = f[s]
  BY <1>1
<1> QED
  BY <1>2, TunnelAssumption DEF Names, Versions

\* A sender's state after a step that changes no more than its pc.
LEMMA SenderMoves ==
  ASSUME NEW t \in SenderState,
         NEW pc \in {"idle", "dialing", "opening", "sending", "waiting", "ok", "fooled",
                    "refused", "exhausted"}
  PROVE  /\ [t EXCEPT !.pc = pc] \in SenderState
         /\ [t EXCEPT !.pc = pc].pc = pc
         /\ [t EXCEPT !.pc = pc].terms = t.terms
         /\ [t EXCEPT !.pc = pc].tries = t.tries
         /\ [t EXCEPT !.pc = pc].sequence = t.sequence
  BY DEF SenderState

\* What is known of a sender that makes a step.
LEMMA SenderFacts ==
  ASSUME TunnelInv, NEW s \in Sender
  PROVE  /\ snd[s] \in SenderState
         /\ backlog \in Seq(Conn)
         /\ faults \in 0..MaxFaults
         /\ snd[s].pc = "idle" => snd[s].tries \in 0..MaxAttempts - 1 /\ snd[s].sequence = 0
         /\ snd[s].pc \in InAttempt =>
              /\ snd[s].tries \in 1..MaxAttempts
              /\ Attempt(s) \in Conn
              /\ Link(s) \in LinkType(Requests(Attempt(s)), Answers(Attempt(s), Link(s).server))
              /\ SenderOK(snd[s], Link(s), Attempt(s))
<1>1. snd[s] \in SenderState /\ backlog \in Seq(Conn) /\ faults \in 0..MaxFaults
  BY DEF TunnelInv, TypeOK
<1>2. SenderOK(snd[s], Link(s), Attempt(s))
  BY DEF TunnelInv, Link, Attempt
<1>3. snd[s].tries \in 0..MaxAttempts
  BY <1>1 DEF SenderState
<1>4. snd[s].pc = "idle" => snd[s].tries \in 0..MaxAttempts - 1 /\ snd[s].sequence = 0
  BY <1>2, <1>3, TunnelAssumption DEF SenderOK
<1>5. ASSUME snd[s].pc \in InAttempt
      PROVE  /\ snd[s].tries \in 1..MaxAttempts
             /\ Attempt(s) \in Conn
             /\ Link(s) \in LinkType(Requests(Attempt(s)), Answers(Attempt(s), Link(s).server))
  <2>1. snd[s].tries \in 1..MaxAttempts
    BY <1>2, <1>3, <1>5, TunnelAssumption DEF SenderOK
  <2>2. Attempt(s) \in Conn
    BY <2>1, ConnFacts DEF Attempt
  <2>3. LinkOK(conn[Attempt(s)], Attempt(s))
    BY <2>2 DEF TunnelInv
  <2> QED
    BY <2>1, <2>2, <2>3 DEF LinkOK, Link
<1> QED
  BY <1>1, <1>2, <1>4, <1>5

\* A sender within an attempt, with a new state of its connection.
LEMMA AttemptRule ==
  ASSUME TunnelInv, NEW s \in Sender, snd[s].pc \in InAttempt,
         NEW next \in SenderState, next.terms = snd[s].terms, next.tries = snd[s].tries,
         NEW k \in LinkType(Requests(Attempt(s)), Answers(Attempt(s), Link(s).server)),
         k.server = Link(s).server,
         SenderOK(next, k, Attempt(s)),
         snd' = [snd EXCEPT ![s] = next],
         conn' = [conn EXCEPT ![Attempt(s)] = k],
         SenderLeavesRest, faults' \in 0..MaxFaults
  PROVE  TunnelInv'
<1>1. Attempt(s) \in Conn /\ Attempt(s) = <<s, next.tries>>
  BY SenderFacts DEF Attempt
<1>2. LinkOK(k, Attempt(s))
  BY DEF LinkOK
<1>3. backlog' \in Seq(Conn)
  BY SenderFacts DEF SenderLeavesRest
<1>4. /\ DOMAIN conn' = Conn
      /\ \A d \in Conn : conn'[d] = IF d = Attempt(s) THEN k ELSE conn[d]
  BY <1>1 DEF TunnelInv, TypeOK
<1> QED
  BY <1>1, <1>2, <1>3, <1>4, SenderRule DEF SenderLeavesRest

\* The end of an attempt.
LEMMA EndAttemptOK ==
  ASSUME TunnelInv, NEW s \in Sender, snd[s].pc \in InAttempt,
         NEW next \in SenderState, next.terms = snd[s].terms, next.tries = snd[s].tries,
         next.pc \notin InAttempt,
         next.pc = "idle" => next.tries < MaxAttempts /\ next.sequence = 0,
         EndAttempt(s, next), SenderLeavesRest, faults' \in 0..MaxFaults
  PROVE  TunnelInv'
<1>1. Link(s) \in LinkType(Requests(Attempt(s)), Answers(Attempt(s), Link(s).server))
  BY SenderFacts
<1> DEFINE k == CloseClient(Link(s))
<1>2. /\ k \in LinkType(Requests(Attempt(s)), Answers(Attempt(s), Link(s).server))
      /\ k.server = Link(s).server
  BY <1>1, CloseClientOK
<1>3. SenderOK(next, k, Attempt(s))
  BY DEF SenderOK, InAttempt, SizeOf
<1>4. conn' = [conn EXCEPT ![Attempt(s)] = k] /\ snd' = [snd EXCEPT ![s] = next]
  BY DEF EndAttempt, Link
<1> HIDE DEF k
<1> QED
  BY <1>2, <1>3, <1>4, AttemptRule

\* A sender's state after an attempt.
LEMMA RestOK ==
  ASSUME NEW t \in SenderState, NEW pc \in {"idle", "ok", "fooled", "refused", "exhausted"}
  PROVE  /\ Rest(t, pc) \in SenderState
         /\ Rest(t, pc).pc = pc /\ Rest(t, pc).terms = t.terms /\ Rest(t, pc).tries = t.tries
         /\ Rest(t, pc).sequence = 0
<1>1. Rest(t, pc) = [t EXCEPT !.pc = pc, !.pos = 0, !.sequence = 0, !.by = "receiver"]
  BY DEF Rest
<1> DEFINE next == [t EXCEPT !.pc = pc, !.pos = 0, !.sequence = 0, !.by = "receiver"]
<1>2. next \in SenderState
  BY DEF SenderState, Word
<1>3. next.pc = pc /\ next.terms = t.terms /\ next.tries = t.tries /\ next.sequence = 0
  BY DEF SenderState
<1> HIDE DEF next
<1> QED
  BY <1>1, <1>2, <1>3 DEF next

\* An attempt that failed: the next one, or the end.
LEMMA AfterOK ==
  ASSUME TunnelInv, NEW s \in Sender, snd[s].pc \in InAttempt, NEW fatal \in BOOLEAN
  PROVE  /\ After(s, fatal) \in SenderState
         /\ After(s, fatal).terms = snd[s].terms
         /\ After(s, fatal).tries = snd[s].tries
         /\ After(s, fatal).pc \notin InAttempt \cup {"ok", "fooled"}
         /\ After(s, fatal).pc = "idle" =>
              After(s, fatal).tries < MaxAttempts /\ After(s, fatal).sequence = 0
<1>1. snd[s] \in SenderState /\ snd[s].tries \in 1..MaxAttempts
  BY SenderFacts
<1> DEFINE pc == IF fatal THEN "refused"
                 ELSE IF snd[s].tries = MaxAttempts THEN "exhausted" ELSE "idle"
<1>2. pc \in {"refused", "exhausted", "idle"}
      /\ (pc = "idle" => snd[s].tries < MaxAttempts)
  BY <1>1, TunnelAssumption
<1>3. After(s, fatal) = Rest(snd[s], pc)
  BY DEF After
<1> HIDE DEF pc
<1>4. /\ Rest(snd[s], pc) \in SenderState
      /\ Rest(snd[s], pc).terms = snd[s].terms /\ Rest(snd[s], pc).tries = snd[s].tries
      /\ Rest(snd[s], pc).pc = pc /\ Rest(snd[s], pc).sequence = 0
  BY <1>1, <1>2, RestOK
<1> QED
  BY <1>2, <1>3, <1>4 DEF InAttempt

\* An attempt that fails.
LEMMA FailedAttemptOK ==
  ASSUME TunnelInv, NEW s \in Sender, snd[s].pc \in InAttempt,
         \E fatal \in BOOLEAN : EndAttempt(s, After(s, fatal)),
         SenderLeavesRest, faults' \in 0..MaxFaults
  PROVE  TunnelInv'
<1>1. PICK fatal \in BOOLEAN : EndAttempt(s, After(s, fatal))
  OBVIOUS
<1> QED
  BY <1>1, AfterOK, EndAttemptOK

\* A dial adds a connection that the listener has not accepted yet.
LEMMA DialOK ==
  ASSUME TunnelInv, NEW s \in Sender, Dial(s)
  PROVE  TunnelInv'
<1> DEFINE c == <<s, snd[s].tries + 1>>
           next == [snd[s] EXCEPT !.pc = "dialing", !.tries = snd[s].tries + 1]
           k == [c2s |-> <<Signal("upgrade")>>, s2c |-> << >>,
                 client |-> "open", server |-> "open", bridge |-> "up"]
<1>1. /\ snd[s] \in SenderState /\ snd[s].tries + 1 \in 1..MaxAttempts
      /\ snd[s].sequence = 0 /\ backlog \in Seq(Conn) /\ faults \in 0..MaxFaults
  BY SenderFacts, TunnelAssumption DEF Dial
<1>2. /\ next \in SenderState /\ next.terms = snd[s].terms
      /\ next.tries = snd[s].tries + 1 /\ next.pc = "dialing" /\ next.sequence = 0
  <2> DEFINE n == snd[s].tries + 1
  <2>1. n \in 0..MaxAttempts
    BY <1>1, TunnelAssumption
  <2> HIDE DEF n
  <2>2. [snd[s] EXCEPT !.pc = "dialing", !.tries = n] \in SenderState
    BY <1>1, <2>1 DEF SenderState
  <2>3. next = [snd[s] EXCEPT !.pc = "dialing", !.tries = n]
    BY DEF n
  <2>4. next.tries = n /\ next.pc = "dialing" /\ next.terms = snd[s].terms
        /\ next.sequence = snd[s].sequence
    BY <1>1, <2>3 DEF SenderState
  <2> QED
    BY <1>1, <2>2, <2>3, <2>4 DEF n
<1>3. c \in Conn /\ c = <<s, next.tries>>
  BY <1>1, <1>2, ConnFacts
<1>4. LinkOK(k, c)
  BY SignalOK DEF LinkOK, LinkType
<1>5. SenderOK(next, k, c)
  BY <1>1, <1>2 DEF SenderOK
<1>6. /\ snd' = [snd EXCEPT ![s] = next]
      /\ DOMAIN conn' = Conn
      /\ \A d \in Conn : conn'[d] = IF d = c THEN k ELSE conn[d]
  BY DEF Dial, TunnelInv, TypeOK
<1>7. backlog' \in Seq(Conn) /\ faults' \in 0..MaxFaults
  BY <1>1, <1>3 DEF Dial
<1>8. helper' = helper /\ disk' = disk /\ rcv' = rcv /\ delivered' = delivered
      /\ spoiled' = spoiled
  BY DEF Dial
<1> HIDE DEF next, k, c
<1> QED
  BY <1>2, <1>3, <1>4, <1>5, <1>6, <1>7, <1>8, SenderRule

\* A dial that nothing answers.
LEMMA DialFailsOK ==
  ASSUME TunnelInv, NEW s \in Sender, DialFails(s)
  PROVE  TunnelInv'
<1> DEFINE c == <<s, snd[s].tries + 1>>
           pc == IF snd[s].tries + 1 = MaxAttempts THEN "exhausted" ELSE "idle"
           next == [snd[s] EXCEPT !.pc = pc, !.tries = snd[s].tries + 1]
<1>1. /\ snd[s] \in SenderState /\ snd[s].tries + 1 \in 1..MaxAttempts
      /\ snd[s].sequence = 0 /\ backlog \in Seq(Conn) /\ faults \in 0..MaxFaults
      /\ DOMAIN conn = Conn
  BY SenderFacts, TunnelAssumption DEF DialFails, TunnelInv, TypeOK
<1>2. pc \in {"exhausted", "idle"} /\ (pc = "idle" => snd[s].tries + 1 < MaxAttempts)
  BY <1>1, TunnelAssumption
<1>3. /\ next \in SenderState /\ next.terms = snd[s].terms
      /\ next.tries = snd[s].tries + 1 /\ next.pc = pc /\ next.sequence = 0
  <2> DEFINE n == snd[s].tries + 1
  <2>1. n \in 0..MaxAttempts
    BY <1>1, TunnelAssumption
  <2> HIDE DEF n, pc
  <2>2. [snd[s] EXCEPT !.pc = pc, !.tries = n] \in SenderState
    BY <1>1, <1>2, <2>1 DEF SenderState
  <2>3. next = [snd[s] EXCEPT !.pc = pc, !.tries = n]
    BY DEF n
  <2>4. next.tries = n /\ next.pc = pc /\ next.terms = snd[s].terms
        /\ next.sequence = snd[s].sequence
    BY <1>1, <2>3 DEF SenderState
  <2> QED
    BY <1>1, <2>2, <2>3, <2>4 DEF n
<1>4. c \in Conn /\ c = <<s, next.tries>>
  BY <1>1, <1>3, ConnFacts
<1>5. LinkOK(conn[c], c)
  BY <1>4 DEF TunnelInv
<1>6. SenderOK(next, conn[c], c)
  BY <1>2, <1>3 DEF SenderOK, InAttempt, SizeOf
<1>7. snd' = [snd EXCEPT ![s] = next]
  BY DEF DialFails
<1>8. /\ DOMAIN conn' = Conn
      /\ \A d \in Conn : conn'[d] = IF d = c THEN conn[c] ELSE conn[d]
  BY <1>1 DEF DialFails
<1>9. backlog' \in Seq(Conn) /\ faults' \in 0..MaxFaults
      /\ helper' = helper /\ disk' = disk /\ rcv' = rcv /\ delivered' = delivered
      /\ spoiled' = spoiled
  BY <1>1 DEF DialFails, SenderLeavesRest
<1> HIDE DEF next, c
<1> QED
  BY <1>3, <1>4, <1>5, <1>6, <1>7, <1>8, <1>9, SenderRule

\* A read of the sender and a write in reply, within an attempt.
LEMMA AnswerOK ==
  ASSUME TunnelInv, NEW s \in Sender, snd[s].pc \in InAttempt, Link(s).s2c # << >>,
         NEW frames, Link(s).server = "open" => frames \in Seq(Requests(Attempt(s))),
         NEW k, k = ToServer(Answered(Link(s)), frames)
  PROVE  /\ k \in LinkType(Requests(Attempt(s)), Answers(Attempt(s), Link(s).server))
         /\ k.server = Link(s).server
<1> DEFINE R == Requests(Attempt(s))
           A == Answers(Attempt(s), Link(s).server)
           read == Answered(Link(s))
<1>1. Link(s) \in LinkType(R, A)
  BY SenderFacts
<1>2. read \in LinkType(R, A) /\ read.server = Link(s).server
  BY <1>1, ReadOK
<1> HIDE DEF R, A, read
<1>3. ToServer(read, frames) \in LinkType(R, A) /\ ToServer(read, frames).server = read.server
  BY <1>2, ToServerOK DEF R
<1> QED
  BY <1>2, <1>3 DEF R, A, read

\* The upgrade is answered.
LEMMA UpgradedOK ==
  ASSUME TunnelInv, NEW s \in Sender, Upgraded(s)
  PROVE  TunnelInv'
<1> DEFINE next == [snd[s] EXCEPT !.pc = "opening"]
           intro == Intro(snd[s].terms.name, snd[s].terms.version, ResourceOf[s])
           frames == <<ClientIntro(intro)>>
           k == ToServer(Answered(Link(s)), frames)
<1>1. /\ snd[s] \in SenderState /\ snd[s].tries \in 1..MaxAttempts
      /\ SenderOK(snd[s], Link(s), Attempt(s)) /\ faults \in 0..MaxFaults
      /\ snd[s].pc \in InAttempt
  BY SenderFacts DEF Upgraded, InAttempt
<1>2. /\ next \in SenderState /\ next.terms = snd[s].terms /\ next.tries = snd[s].tries
      /\ next.pc = "opening" /\ next.sequence = 0
  <2>1. snd[s].sequence = 0
    BY <1>1 DEF SenderOK, Upgraded
  <2> QED
    BY <1>1, <2>1, SenderMoves
<1>3. frames \in Seq(Requests(Attempt(s)))
  <2>1. intro \in Intros
    BY <1>1, TermsNamed, TunnelAssumption DEF Intro, Intros
  <2> HIDE DEF intro
  <2>2. ClientIntro(intro) \in Requests(Attempt(s))
    BY <2>1 DEF ClientIntro, IntroFrame, PlainFrame, Requests
  <2> QED
    BY <2>2
<1>4. /\ k \in LinkType(Requests(Attempt(s)), Answers(Attempt(s), Link(s).server))
      /\ k.server = Link(s).server
  BY <1>1, <1>3, AnswerOK DEF Upgraded, Arrived
<1>5. SenderOK(next, k, Attempt(s))
  BY <1>1, <1>2 DEF SenderOK
<1>6. snd' = [snd EXCEPT ![s] = next]
  BY DEF Upgraded
<1>7. conn' = [conn EXCEPT ![Attempt(s)] = k]
  BY DEF Upgraded, Link
<1>8. SenderLeavesRest /\ faults' \in 0..MaxFaults
  BY <1>1 DEF Upgraded
<1> HIDE DEF next, k
<1> QED
  BY <1>1, <1>2, <1>4, <1>5, <1>6, <1>7, <1>8, AttemptRule

\* The offset the session starts from is the receiver's, or the bridge's.
LEMMA RecvServerIntroOK ==
  ASSUME TunnelInv, NEW s \in Sender, RecvServerIntro(s)
  PROVE  TunnelInv'
<1>a. PICK at, by : at = Head(Link(s).s2c).at /\ by = Head(Link(s).s2c).by
  OBVIOUS
<1> DEFINE next == [snd[s] EXCEPT !.pc = "sending", !.pos = at, !.sequence = 1, !.by = by]
           frames == <<Signal("client_finish"), Seal(s, Body("header", 0, by))>>
           k == ToServer(Answered(Link(s)), frames)
<1>1. /\ snd[s] \in SenderState /\ faults \in 0..MaxFaults
      /\ Link(s) \in LinkType(Requests(Attempt(s)), Answers(Attempt(s), Link(s).server))
      /\ SenderOK(snd[s], Link(s), Attempt(s))
      /\ snd[s].pc \in InAttempt /\ Link(s).s2c # << >>
  BY SenderFacts DEF RecvServerIntro, InAttempt, Arrived
<1>2. snd[s].sequence = 0
  BY <1>1 DEF SenderOK, RecvServerIntro
<1>3. /\ at \in Nat /\ at <= SizeOf(Attempt(s)) /\ by \in Word
      /\ Link(s).server = "open" /\ by = "receiver" => Serving(Attempt(s)) /\ at = Base
  <2>1. Head(Link(s).s2c) \in Answers(Attempt(s), Link(s).server)
    BY <1>1, ReadOK
  <2>2. Head(Link(s).s2c).type = "server_intro"
    BY DEF RecvServerIntro, Arrived
  <2>3. Head(Link(s).s2c) \in AnswerFrame
    BY <2>1, <2>2, FrameTypes DEF Answers
  <2>4. at \in Nat /\ by \in Word
    BY <1>a, <2>3 DEF AnswerFrame
  <2>5. at <= SizeOf(Attempt(s))
    BY <1>a DEF RecvServerIntro, SizeOf, Attempt
  <2> QED
    BY <1>a, <2>1, <2>2, <2>4, <2>5 DEF Answers
<1>4. next \in SenderState /\ next.terms = snd[s].terms /\ next.tries = snd[s].tries
      /\ next.pc = "sending" /\ next.pos = at /\ next.sequence = 1 /\ next.by = by
  <2>1. next \in SenderState
    BY <1>1, <1>3 DEF SenderState
  <2> QED
    BY <1>1, <2>1 DEF SenderState
<1>5. frames \in Seq(Requests(Attempt(s)))
  <2>1. \A offered, size : Body("header", 0, by) \in BodiesAt(snd[s].sequence, offered, size)
    BY <1>2, <1>3 DEF BodiesAt
  <2> DEFINE c == Attempt(s)
  <2>2. Seal(s, Body("header", 0, by)) \in Sealed(KeyOf(c), Offered(c), SizeOf(c))
    BY <1>2, <2>1, OwnSeal
  <2>3. Seal(s, Body("header", 0, by)) \in Requests(c)
    BY <2>2 DEF Requests
  <2>4. Signal("client_finish") \in Requests(c)
    BY SignalOK
  <2> QED
    BY <2>3, <2>4
<1>6. /\ k \in LinkType(Requests(Attempt(s)), Answers(Attempt(s), Link(s).server))
      /\ k.server = Link(s).server
  <2> HIDE DEF frames
  <2> QED
    BY <1>1, <1>5, AnswerOK
<1>7. SenderOK(next, k, Attempt(s))
  <2> HIDE DEF k, next
  <2>1. at = Base => next.pos = Base + next.sequence - 1
    BY <1>3, <1>4
  <2>2. next.tries >= 1
    BY <1>1, <1>4 DEF SenderOK
  <2> QED
    BY <1>3, <1>4, <1>6, <2>1, <2>2 DEF SenderOK
<1>8. snd' = [snd EXCEPT ![s] = next] /\ conn' = [conn EXCEPT ![Attempt(s)] = k]
  BY <1>a DEF RecvServerIntro, Link
<1>9. SenderLeavesRest /\ faults' \in 0..MaxFaults
  BY <1>1 DEF RecvServerIntro
<1> HIDE DEF next, k
<1> QED
  BY <1>1, <1>4, <1>6, <1>7, <1>8, <1>9, AttemptRule

\* A chunk is the byte its number stands for.
LEMMA SendSecureOK ==
  ASSUME TunnelInv, NEW s \in Sender, SendSecure(s)
  PROVE  TunnelInv'
<1> DEFINE n == snd[s].sequence
           size == Size[ResourceOf[s]]
           whole == snd[s].pos = size
           body == IF whole THEN Body("done", 0, snd[s].by) ELSE Body("chunk", snd[s].pos, snd[s].by)
           pc == IF whole THEN "waiting" ELSE "sending"
           pos == IF whole THEN snd[s].pos ELSE snd[s].pos + 1
           next == [snd[s] EXCEPT !.pc = pc, !.pos = pos, !.sequence = n + 1]
           frames == <<Seal(s, body)>>
           k == ToServer(Link(s), frames)
<1>1. /\ snd[s] \in SenderState /\ faults \in 0..MaxFaults
      /\ Link(s) \in LinkType(Requests(Attempt(s)), Answers(Attempt(s), Link(s).server))
      /\ SenderOK(snd[s], Link(s), Attempt(s))
      /\ snd[s].pc = "sending" /\ snd[s].pc \in InAttempt
  BY SenderFacts DEF SendSecure, InAttempt
<1>2. n \in Nat /\ snd[s].pos \in Nat /\ n + 1 \in Nat /\ pos \in Nat /\ size \in Nat
      /\ snd[s].by \in Word /\ SizeOf(Attempt(s)) = size
  BY <1>1, StoreAssumption, TunnelAssumption DEF SenderState, SizeOf, Attempt
<1>3. /\ n >= 1 /\ snd[s].pos <= size
      /\ Link(s).server = "open" /\ snd[s].by = "receiver" =>
           Serving(Attempt(s)) /\ snd[s].pos = Base + n - 1
  BY <1>1, <1>2 DEF SenderOK
<1>b. Base \in Nat
  BY DEF Base, TunnelInv, TypeOK, ReceiverState, ReceiverOK, InSession
<1>4. next \in SenderState /\ next.terms = snd[s].terms /\ next.tries = snd[s].tries
      /\ next.pc = pc /\ next.pos = pos /\ next.sequence = n + 1 /\ next.by = snd[s].by
  <2>1. pc \in {"waiting", "sending"}
    OBVIOUS
  <2> DEFINE m == n + 1
  <2>2. m \in Nat
    BY <1>2
  <2> HIDE DEF pc, pos, m
  <2>3. [snd[s] EXCEPT !.pc = pc, !.pos = pos, !.sequence = m] \in SenderState
    BY <1>1, <1>2, <2>1, <2>2 DEF SenderState
  <2>4. next = [snd[s] EXCEPT !.pc = pc, !.pos = pos, !.sequence = m]
    BY DEF m
  <2> HIDE DEF next
  <2>5. next.terms = snd[s].terms /\ next.tries = snd[s].tries /\ next.by = snd[s].by
        /\ next.pc = pc /\ next.pos = pos /\ next.sequence = m
    BY <1>1, <2>4 DEF SenderState
  <2> QED
    BY <2>3, <2>4, <2>5 DEF m
<1>5. ASSUME Link(s).server = "open"
      PROVE  frames \in Seq(Requests(Attempt(s)))
  <2> DEFINE c == Attempt(s)
  <2>1. body \in BodiesAt(n, Offered(c), SizeOf(c))
    <3>1. CASE whole
      BY <3>1, <1>2, <1>3 DEF BodiesAt
    <3>2. CASE ~whole /\ snd[s].by = "bridge"
      BY <3>2, <1>2, <1>3 DEF BodiesAt
    <3>3. CASE ~whole /\ snd[s].by = "receiver"
      <4>1. Offered(c) = {Base} /\ snd[s].pos = Base + n - 1
        BY <3>3, <1>3, <1>5 DEF Offered
      <4>2. Base + n <= size
        <5>1. PICK x \in Nat, z \in Nat, m \in Nat, b \in Nat :
                x = snd[s].pos /\ z = size /\ m = n /\ b = Base
          BY <1>2, <1>b
        <5>2. x # z /\ x <= z /\ x = b + m - 1
          BY <3>3, <4>1, <1>3, <5>1
        <5>3. b + m <= z
          BY <5>2
        <5> QED
          BY <5>1, <5>3
      <4>3. body = Body("chunk", Base + n - 1, "receiver")
        BY <3>3, <4>1
      <4>4. InPlace(n, Base, SizeOf(c)) = {Body("chunk", Base + n - 1, "receiver")}
        BY <4>2, <1>2 DEF InPlace
      <4> HIDE DEF body
      <4> QED
        BY <4>1, <4>3, <4>4, <1>2, <1>3 DEF BodiesAt
    <3> QED
      BY <1>2, <3>1, <3>2, <3>3 DEF Word
  <2> HIDE DEF body
  <2>2. Seal(s, body) \in Sealed(KeyOf(c), Offered(c), SizeOf(c))
    BY <1>2, <2>1, OwnSeal
  <2>3. Seal(s, body) \in Requests(c)
    BY <2>2 DEF Requests
  <2> QED
    BY <2>3
<1>6. /\ k \in LinkType(Requests(Attempt(s)), Answers(Attempt(s), Link(s).server))
      /\ k.server = Link(s).server
  <2> HIDE DEF frames
  <2> QED
    BY <1>1, <1>5, ToServerOK
<1>7. SenderOK(next, k, Attempt(s))
  <2>0. pos <= size
    BY <1>2, <1>3
  <2> HIDE DEF k, next, size
  <2>1. ASSUME next.pc = "sending", Link(s).server = "open", next.by = "receiver"
        PROVE  next.pos = Base + next.sequence - 1
    BY <1>b, <2>1, <1>2, <1>3, <1>4
  <2>2. next.tries >= 1
    BY <1>1, <1>4 DEF SenderOK
  <2>3. next.sequence >= 1 /\ next.pc \in {"waiting", "sending"} /\ next.pos <= SizeOf(Attempt(s))
    BY <1>2, <1>4, <2>0
  <2> QED
    BY <1>3, <1>4, <1>6, <2>1, <2>2, <2>3 DEF SenderOK
<1>8. conn' = [conn EXCEPT ![Attempt(s)] = k]
  BY DEF SendSecure, Link
<1>9. snd' = [snd EXCEPT ![s] = next]
  BY DEF SendSecure
<1>10. SenderLeavesRest /\ faults' \in 0..MaxFaults
  BY <1>1 DEF SendSecure
<1> HIDE DEF next, k
<1> QED
  BY <1>1, <1>4, <1>6, <1>7, <1>8, <1>9, <1>10, AttemptRule

\* The acknowledgement ends the loop.
LEMMA RecvAckOK ==
  ASSUME TunnelInv, NEW s \in Sender, RecvAck(s)
  PROVE  TunnelInv'
<1>1. snd[s] \in SenderState /\ faults \in 0..MaxFaults /\ snd[s].pc \in InAttempt
  BY SenderFacts DEF RecvAck, InAttempt
<1>2. PICK pc \in {"ok", "fooled"} : EndAttempt(s, Rest(snd[s], pc))
  BY DEF RecvAck
<1>3. /\ Rest(snd[s], pc) \in SenderState
      /\ Rest(snd[s], pc).terms = snd[s].terms /\ Rest(snd[s], pc).tries = snd[s].tries
      /\ Rest(snd[s], pc).pc = pc
  BY <1>1, RestOK
<1>4. SenderLeavesRest /\ faults' \in 0..MaxFaults
  BY <1>1 DEF RecvAck
<1>5. pc \notin InAttempt /\ pc # "idle"
  BY DEF InAttempt
<1> QED
  BY <1>1, <1>2, <1>3, <1>4, <1>5, EndAttemptOK

\* A control frame, read while waiting for an answer.
LEMMA ClientControlOK ==
  ASSUME TunnelInv, NEW s \in Sender, ClientControl(s)
  PROVE  TunnelInv'
<1> DEFINE R == Requests(Attempt(s))
           A == Answers(Attempt(s), Link(s).server)
           frames == <<Signal("pong")>>
<1>1. /\ snd[s] \in SenderState /\ faults \in 0..MaxFaults
      /\ SenderOK(snd[s], Link(s), Attempt(s))
      /\ Link(s) \in LinkType(R, A)
      /\ snd[s].pc \in InAttempt
      /\ Link(s).s2c # << >>
  BY SenderFacts DEF ClientControl, InAttempt, Arrived
<1>2. PICK k \in {ToServer(Answered(Link(s)), frames), Answered(Link(s))} :
        conn' = [conn EXCEPT ![Attempt(s)] = k]
  BY DEF ClientControl, Link
<1>3. k \in LinkType(R, A) /\ k.server = Link(s).server
  <2>1. frames \in Seq(R)
    BY SignalOK
  <2>2. Answered(Link(s)) \in LinkType(R, A) /\ Answered(Link(s)).server = Link(s).server
    BY <1>1, ReadOK
  <2>3. ToServer(Answered(Link(s)), frames) \in LinkType(R, A)
        /\ ToServer(Answered(Link(s)), frames).server = Link(s).server
    <3> HIDE DEF R, A, frames
    <3> QED
      BY <2>1, <2>2, ToServerOK
  <2> QED
    BY <1>2, <2>2, <2>3
<1>4. SenderOK(snd[s], k, Attempt(s))
  BY <1>1, <1>3 DEF SenderOK
<1>5. snd' = [snd EXCEPT ![s] = snd[s]] /\ SenderLeavesRest /\ faults' \in 0..MaxFaults
  BY <1>1 DEF ClientControl, TunnelInv, TypeOK
<1> QED
  BY <1>1, <1>2, <1>3, <1>4, <1>5, AttemptRule

\* Every step of a sender.
LEMMA SenderStepOK ==
  ASSUME TunnelInv, NEW s \in Sender, SenderStep(s) \/ LateAnswer(s)
  PROVE  TunnelInv'
<1>1. faults \in 0..MaxFaults
  BY SenderFacts
<1>2. CASE LoginFails(s)
  BY <1>1, <1>2, FailedAttemptOK DEF LoginFails, InAttempt
<1>3. CASE RecvVersionError(s)
  BY <1>1, <1>3, FailedAttemptOK DEF RecvVersionError, InAttempt
<1>4. CASE RecvUnpackError(s)
  BY <1>1, <1>4, FailedAttemptOK DEF RecvUnpackError, InAttempt
<1>4a. CASE RefuseOffset(s)
  BY <1>1, <1>4a, FailedAttemptOK DEF RefuseOffset, InAttempt
<1>4b. CASE UnexpectedFrame(s)
  BY <1>1, <1>4b, FailedAttemptOK DEF UnexpectedFrame, InAttempt
<1>5. CASE SenderError(s)
  BY <1>1, <1>5, FailedAttemptOK DEF SenderError, InAttempt
<1>6. CASE OpenTimeout(s)
  BY <1>1, <1>6, FailedAttemptOK DEF OpenTimeout, InAttempt
<1>7. CASE LateAnswer(s)
  <2>1. faults' \in 0..MaxFaults
    BY <1>1, <1>7, TunnelAssumption DEF LateAnswer, Fault
  <2> QED
    BY <1>7, <2>1, FailedAttemptOK DEF LateAnswer, InAttempt
<1> QED
  BY <1>2, <1>3, <1>4, <1>5, <1>6, <1>7, <1>4a, <1>4b, DialOK, DialFailsOK, UpgradedOK, RecvServerIntroOK,
     SendSecureOK, RecvAckOK, ClientControlOK
  DEF SenderStep

-------------------------------------------------------------------------------
(* The steps of the receiver. *)

\* What is known of the connection that is served.
LEMMA ServedFacts ==
  ASSUME TunnelInv, rcv.conn # << >> \/ rcv.pc # "accept"
  PROVE  /\ Served \in Conn /\ rcv.conn = <<Served>> /\ rcv.pc # "accept"
         /\ Peer \in Sender
         /\ conn[Served] \in LinkType(Requests(Served), Answers(Served, conn[Served].server))
<1>1. rcv.pc # "accept"
  BY DEF TunnelInv, ReceiverOK, InSession
<1>2. PICK c \in Conn : rcv.conn = <<c>>
  BY <1>1 DEF TunnelInv, ReceiverOK, InSession
<1>3. Served = c
  BY <1>2 DEF Served
<1>4. Peer \in Sender
  BY <1>3, ConnFacts DEF Peer
<1>5. LinkOK(conn[c], c)
  BY DEF TunnelInv
<1> QED
  BY <1>1, <1>2, <1>3, <1>4, <1>5 DEF LinkOK

\* What is known of a session that has begun.
LEMMA SessionFacts ==
  ASSUME TunnelInv, rcv.pc \in InSession
  PROVE  /\ Named \in Resource /\ rcv.intro[1].name \in {Ours.name, NoName}
         /\ \E intro \in Accepted : rcv.intro = <<intro>>
         /\ rcv.offset \in Nat /\ Len(disk[Named].part) = rcv.offset
         /\ Serving(Served)
<1>1. PICK intro \in Accepted : rcv.intro = <<intro>>
  BY DEF TunnelInv, ReceiverOK, InSession
<1>2. rcv.intro[1] = intro
  BY <1>1
<1>3. Len(disk[Named].part) = rcv.offset /\ rcv.offset \in Nat
  BY DEF TunnelInv, ReceiverOK, InSession, TypeOK, ReceiverState
<1>4. Serving(Served)
  BY ServedFacts DEF Serving, InSession
<1> QED
  BY <1>1, <1>2, <1>3, <1>4 DEF Named, Accepted

\* What a step of the receiver has to establish: a connection on which a
\* sender may still be sending keeps the offer it was made.
LEMMA ReceiverRule ==
  ASSUME TunnelInv, ReceiverLeavesRest, backlog' \in Seq(Conn), delivered' \in [Sender -> Nat],
         spoiled' \subseteq Resource,
         disk' \in [Resource -> Dir], DiskOK', rcv' \in ReceiverState, ReceiverOK',
         DOMAIN conn' = Conn, \A c \in Conn : LinkOK(conn[c], c)',
         \A c \in Conn : conn'[c].server = "open" =>
           /\ conn[c].server = "open"
           /\ Serving(c) => Serving(c)' /\ Base' = Base
  PROVE  TunnelInv'
<1>1. /\ TypeOK
      /\ snd \in [Sender -> SenderState]
      /\ \A t \in Sender : SenderOK(snd[t], conn[<<t, snd[t].tries>>], <<t, snd[t].tries>>)
  BY DEF TunnelInv, TypeOK
<1>2. snd' = snd /\ helper' = helper /\ faults' = faults
  BY DEF ReceiverLeavesRest
<1>3. TypeOK'
  BY <1>1, <1>2 DEF TypeOK
<1>4. ASSUME NEW s \in Sender
      PROVE  SenderOK(snd[s], conn[<<s, snd[s].tries>>], <<s, snd[s].tries>>)'
  <2> PICK c : c = <<s, snd[s].tries>>
    OBVIOUS
  <2>1. SenderOK(snd[s], conn[c], c)
    BY <1>1
  <2>2. SUFFICES SenderOK(snd[s], conn[c], c)'
    BY <1>2
  <2>3. CASE c \in Conn
    <3>1. conn'[c].server = "open" => conn[c].server = "open"
                                      /\ (Serving(c) => Serving(c)' /\ Base' = Base)
      BY <2>3
    <3> QED
      BY <1>2, <2>1, <3>1 DEF SenderOK, SizeOf
  <2>4. CASE c \notin Conn
    <3>1. snd[s].tries \in 0..MaxAttempts /\ snd[s].tries \notin 1..MaxAttempts
      BY <1>1, <2>4, ConnFacts DEF SenderState
    <3>2. snd[s].pc \notin InAttempt
      BY <3>1, <2>1, TunnelAssumption DEF SenderOK
    <3> QED
      BY <1>2, <2>1, <3>2 DEF SenderOK, InAttempt, SizeOf
  <2> QED
    BY <2>3, <2>4
<1> QED
  BY <1>3, <1>4 DEF TunnelInv

\* A step within a session that changes nothing about the offer.
LEMMA ServeRule ==
  ASSUME TunnelInv, ReceiverLeavesRest, backlog' = backlog, delivered' = delivered,
         spoiled' \subseteq Resource,
         disk' \in [Resource -> Dir], DiskOK', rcv' \in ReceiverState, ReceiverOK',
         NEW c \in Conn, rcv.conn = <<c>>, rcv'.conn = <<c>>,
         Serving(c)' = Serving(c), Serving(c) => Base' = Base,
         NEW k \in LinkType(Requests(c), Answers(c, conn[c].server)),
         k.server = conn[c].server,
         conn' = [conn EXCEPT ![c] = k]
  PROVE  TunnelInv'
<1>1. DOMAIN conn = Conn /\ (\A d \in Conn : LinkOK(conn[d], d))
      /\ backlog \in Seq(Conn) /\ delivered \in [Sender -> Nat]
  BY DEF TunnelInv, TypeOK
<1>2. /\ DOMAIN conn' = Conn
      /\ \A d \in Conn : conn'[d] = IF d = c THEN k ELSE conn[d]
  BY <1>1
<1>3. ASSUME NEW d \in Conn
      PROVE  /\ Serving(d)' = Serving(d)
             /\ Requests(d)' = Requests(d)
             /\ \A server : Answers(d, server)' = Answers(d, server)
  <2>1. d # c => ~Serving(d) /\ ~Serving(d)'
    BY DEF Serving, InSession
  <2>2. Serving(d)' = Serving(d) /\ (Serving(d) => Base' = Base)
    BY <2>1 DEF Serving, InSession
  <2>3. KeyOf(d)' = KeyOf(d) /\ Offered(d)' = Offered(d) /\ SizeOf(d)' = SizeOf(d)
    BY <2>2 DEF KeyOf, Offered, SizeOf, ReceiverLeavesRest
  <2> QED
    BY <2>2, <2>3 DEF Requests, Answers
<1>4. \A d \in Conn : LinkOK(conn[d], d)'
  <2> SUFFICES ASSUME NEW d \in Conn PROVE LinkOK(conn[d], d)'
    OBVIOUS
  <2>1. conn'[d] \in LinkType(Requests(d), Answers(d, conn'[d].server))
    BY <1>1, <1>2 DEF LinkOK
  <2> QED
    BY <1>3, <2>1 DEF LinkOK
<1>5. \A d \in Conn : conn'[d].server = "open" =>
        conn[d].server = "open" /\ (Serving(d) => Serving(d)' /\ Base' = Base)
  <2> SUFFICES ASSUME NEW d \in Conn
               PROVE  conn'[d].server = conn[d].server /\ (Serving(d) => d = c)
    BY <1>3
  <2> QED
    BY <1>2 DEF Serving, InSession
<1> QED
  BY <1>1, <1>2, <1>4, <1>5, ReceiverRule

\* Where nothing is or was on offer, the sealed frames stay what they were.
LEMMA NoOffer ==
  ASSUME ReceiverLeavesRest, NEW c \in Conn, ~Serving(c), ~Serving(c)'
  PROVE  Requests(c)' = Requests(c)
<1>1. KeyOf(c)' = KeyOf(c) /\ Offered(c)' = Offered(c) /\ SizeOf(c)' = SizeOf(c)
  BY DEF KeyOf, Offered, SizeOf, ReceiverLeavesRest
<1> QED
  BY <1>1 DEF Requests

\* The end of a session, with a last answer or none.
LEMMA HangupRule ==
  ASSUME TunnelInv, ReceiverLeavesRest, backlog' = backlog, delivered' \in [Sender -> Nat],
         spoiled' \subseteq Resource, disk' \in [Resource -> Dir], DiskOK', rcv.conn # << >>,
         NEW replies \in Seq({f \in PlainFrame : f.type # "server_intro"}), Hangup(replies)
  PROVE  TunnelInv'
<1> DEFINE c == Served
           k == CloseServer(ToClient(conn[c], replies))
<1>1. /\ DOMAIN conn = Conn /\ (\A d \in Conn : LinkOK(conn[d], d)) /\ backlog \in Seq(Conn)
      /\ c \in Conn /\ rcv.conn = <<c>>
      /\ conn[c] \in LinkType(Requests(c), Answers(c, conn[c].server))
  BY ServedFacts DEF TunnelInv, TypeOK
<1>2. /\ DOMAIN conn' = Conn
      /\ \A d \in Conn : conn'[d] = IF d = c THEN k ELSE conn[d]
  BY <1>1 DEF Hangup
<1>3. rcv' = AtListener
  BY DEF Hangup
<1>4. rcv' \in ReceiverState /\ ReceiverOK'
  BY <1>3 DEF AtListener, ReceiverState, ReceiverOK, InSession
<1>5. \A d : ~Serving(d)'
  BY <1>3 DEF Serving, InSession, AtListener
<1>6. k \in LinkType(PlainFrame, PlainFrame) /\ k.server = "closed"
  <2> DEFINE A == Answers(c, conn[c].server)
             R == Requests(c)
  <2>1. replies \in Seq(A)
    BY DEF Answers
  <2> HIDE DEF A, R
  <2>2. ToClient(conn[c], replies) \in LinkType(R, A)
    BY <1>1, <2>1, ToClientOK DEF A, R
  <2>3. CloseServer(ToClient(conn[c], replies)) \in LinkType(PlainFrame, A)
        /\ CloseServer(ToClient(conn[c], replies)).server = "closed"
    BY <2>2, CloseServerOK
  <2>4. A \subseteq PlainFrame
    BY DEF A, Answers
  <2> QED
    BY <2>3, <2>4, LinkMonotonic
<1>7. \A d \in Conn : LinkOK(conn[d], d)'
  <2> SUFFICES ASSUME NEW d \in Conn PROVE LinkOK(conn[d], d)'
    OBVIOUS
  <2>1. PlainFrame \subseteq Requests(d)'
    BY DEF Requests
  <2>2. CASE d = c
    <3>1. conn'[d] = k
      BY <1>2, <2>2
    <3>2. Answers(d, "closed")' = PlainFrame
      BY DEF Answers
    <3> HIDE DEF k
    <3>3. k \in LinkType(Requests(d)', PlainFrame)
      BY <1>6, <2>1, LinkMonotonic
    <3> QED
      BY <1>6, <3>1, <3>2, <3>3 DEF LinkOK
  <2>3. CASE d # c
    <3>1. conn'[d] = conn[d] /\ ~Serving(d)
      BY <1>1, <1>2, <2>3 DEF Serving, InSession
    <3>2. Requests(d)' = Requests(d)
      BY <1>5, <3>1, NoOffer
    <3>3. \A server : Answers(d, server)' = Answers(d, server)
      BY <1>5, <3>1 DEF Answers
    <3> QED
      BY <1>1, <3>1, <3>2, <3>3 DEF LinkOK
  <2> QED
    BY <2>2, <2>3
<1>8. \A d \in Conn : conn'[d].server = "open" =>
        conn[d].server = "open" /\ (Serving(d) => Serving(d)' /\ Base' = Base)
  <2> SUFFICES ASSUME NEW d \in Conn, conn'[d].server = "open"
               PROVE  conn[d].server = "open" /\ ~Serving(d)
    OBVIOUS
  <2>1. d # c
    BY <1>2, <1>6
  <2> QED
    BY <1>1, <1>2, <2>1 DEF Serving, InSession
<1> QED
  BY <1>1, <1>2, <1>4, <1>7, <1>8, ReceiverRule

\* The next connection from the listener: nothing is offered yet.
LEMMA AcceptOK ==
  ASSUME TunnelInv, Accept
  PROVE  TunnelInv'
<1>1. /\ backlog \in Seq(Conn) /\ Head(backlog) \in Conn /\ backlog' \in Seq(Conn)
      /\ DOMAIN conn = Conn /\ \A d \in Conn : LinkOK(conn[d], d)
  BY DEF TunnelInv, TypeOK, Accept
<1>2. rcv.pc = "accept" /\ conn' = conn /\ disk' = disk /\ delivered' = delivered
      /\ rcv' = [AtListener EXCEPT !.pc = "upgrade", !.conn = <<Head(backlog)>>]
  BY DEF Accept
<1>3. rcv' \in ReceiverState /\ rcv'.pc = "upgrade" /\ rcv'.conn = <<Head(backlog)>>
      /\ rcv'.expected = 0
  <2> DEFINE here == <<Head(backlog)>>
  <2>1. here \in Seq(Conn)
    BY <1>1
  <2>2. rcv' = [AtListener EXCEPT !.pc = "upgrade", !.conn = here]
    BY <1>2
  <2> HIDE DEF here
  <2>a. << >> \in Seq(Accepted)
    OBVIOUS
  <2>3. rcv' \in ReceiverState /\ rcv'.pc = "upgrade" /\ rcv'.conn = here /\ rcv'.expected = 0
    BY <2>1, <2>2, <2>a DEF AtListener, ReceiverState
  <2> QED
    BY <2>3 DEF here
<1>4. ReceiverOK'
  BY <1>1, <1>3 DEF ReceiverOK, InSession
<1>5. \A d : ~Serving(d) /\ ~Serving(d)'
  BY <1>2, <1>3 DEF Serving, InSession
<1>8. ReceiverLeavesRest
  BY DEF Accept
<1>6. \A d \in Conn : LinkOK(conn[d], d)'
  <2> SUFFICES ASSUME NEW d \in Conn PROVE LinkOK(conn[d], d)'
    OBVIOUS
  <2>1. Requests(d)' = Requests(d)
    BY <1>5, <1>8, NoOffer
  <2>2. \A server : Answers(d, server)' = Answers(d, server)
    BY <1>5 DEF Answers
  <2> QED
    BY <1>1, <1>2, <2>1, <2>2 DEF LinkOK
<1>7. disk' \in [Resource -> Dir] /\ DiskOK' /\ delivered' \in [Sender -> Nat]
      /\ spoiled' \subseteq Resource
  BY <1>2 DEF Accept, TunnelInv, TypeOK, DiskOK
<1> QED
  BY <1>1, <1>2, <1>3, <1>4, <1>5, <1>6, <1>7, <1>8, ReceiverRule

\* The answers of a step within a session.
LEMMA ReplyOK ==
  ASSUME NEW R, NEW A, NEW k \in LinkType(R, A), k.c2s # << >>, NEW f \in A
  PROVE  /\ Consumed(k) \in LinkType(R, A) /\ Consumed(k).server = k.server
         /\ ToClient(Consumed(k), <<f>>) \in LinkType(R, A)
         /\ ToClient(Consumed(k), <<f>>).server = k.server
<1>1. Consumed(k) \in LinkType(R, A) /\ Consumed(k).server = k.server
  BY ReadOK
<1> DEFINE frames == <<f>>
<1>2. frames \in Seq(A)
  OBVIOUS
<1> HIDE DEF frames
<1>3. ToClient(Consumed(k), frames) \in LinkType(R, A)
      /\ ToClient(Consumed(k), frames).server = k.server
  BY <1>1, <1>2, ToClientOK
<1> QED
  BY <1>1, <1>3 DEF frames

\* The upgrade is answered.
LEMMA UpgradeOK ==
  ASSUME TunnelInv, Upgrade
  PROVE  TunnelInv'
<1>1. PICK c \in Conn :
        /\ c = Served /\ rcv.conn = <<c>>
        /\ conn[c] \in LinkType(Requests(c), Answers(c, conn[c].server))
        /\ rcv.pc = "upgrade" /\ conn[c].c2s # << >>
        /\ rcv \in ReceiverState /\ ReceiverOK
  BY ServedFacts DEF Upgrade, Reading, Arrived, TunnelInv, TypeOK
<1> DEFINE k == ToClient(Consumed(conn[c]), <<Signal("upgraded")>>)
<1>2. k \in LinkType(Requests(c), Answers(c, conn[c].server)) /\ k.server = conn[c].server
  <2> DEFINE R == Requests(c)
             A == Answers(c, conn[c].server)
  <2>1. conn[c] \in LinkType(R, A) /\ Signal("upgraded") \in A
    BY <1>1, SignalOK
  <2> HIDE DEF R, A
  <2>2. k \in LinkType(R, A) /\ k.server = conn[c].server
    BY <1>1, <2>1, ReplyOK
  <2> QED
    BY <2>2 DEF R, A
<1>3. rcv' = [rcv EXCEPT !.pc = "intro"]
  BY DEF Upgrade
<1>4. rcv' \in ReceiverState /\ rcv'.pc = "intro" /\ rcv'.conn = rcv.conn
      /\ rcv'.expected = rcv.expected
  BY <1>1, <1>3 DEF ReceiverState
<1>5. ReceiverOK'
  BY <1>1, <1>4 DEF ReceiverOK, InSession
<1>6. Serving(c)' = Serving(c) /\ (Serving(c) => Base' = Base)
  BY <1>1, <1>4 DEF Serving, InSession
<1>7. conn' = [conn EXCEPT ![c] = k] /\ ReceiverLeavesRest
      /\ backlog' = backlog /\ delivered' = delivered /\ disk' = disk
      /\ spoiled' = spoiled
  BY <1>1 DEF Upgrade
<1>8. disk' \in [Resource -> Dir] /\ DiskOK' /\ spoiled' \subseteq Resource
  BY <1>7 DEF TunnelInv, TypeOK, DiskOK
<1> HIDE DEF k
<1> QED
  BY <1>1, <1>2, <1>4, <1>5, <1>6, <1>7, <1>8, ServeRule

\* A control frame, in the read loop of the receiver.
LEMMA ServerControlOK ==
  ASSUME TunnelInv, ServerControl
  PROVE  TunnelInv'
<1>1. PICK c \in Conn :
        /\ c = Served /\ rcv.conn = <<c>>
        /\ conn[c] \in LinkType(Requests(c), Answers(c, conn[c].server))
        /\ conn[c].c2s # << >>
        /\ rcv \in ReceiverState /\ ReceiverOK
  BY ServedFacts DEF ServerControl, Arrived, TunnelInv, TypeOK
<1>2. PICK k \in {ToClient(Consumed(conn[c]), <<Signal("pong")>>), Consumed(conn[c])} :
        conn' = [conn EXCEPT ![c] = k]
  BY <1>1 DEF ServerControl
<1>3. k \in LinkType(Requests(c), Answers(c, conn[c].server)) /\ k.server = conn[c].server
  <2> DEFINE R == Requests(c)
             A == Answers(c, conn[c].server)
  <2>1. conn[c] \in LinkType(R, A) /\ Signal("pong") \in A
    BY <1>1, SignalOK
  <2> HIDE DEF R, A
  <2>2. k \in LinkType(R, A) /\ k.server = conn[c].server
    BY <1>1, <1>2, <2>1, ReplyOK
  <2> QED
    BY <2>2 DEF R, A
<1>4. ReceiverLeavesRest /\ rcv' = rcv
      /\ backlog' = backlog /\ delivered' = delivered /\ disk' = disk
      /\ spoiled' = spoiled
  BY DEF ServerControl
<1>5. disk' \in [Resource -> Dir] /\ DiskOK' /\ spoiled' \subseteq Resource
  BY <1>4 DEF TunnelInv, TypeOK, DiskOK
<1>6. ReceiverOK'
  BY <1>1, <1>4 DEF ReceiverOK, InSession, Peer, Served, Named, ReceiverLeavesRest
<1>7. Serving(c)' = Serving(c) /\ Base' = Base
  BY <1>4 DEF Serving, InSession, Base
<1> QED
  BY <1>1, <1>2, <1>3, <1>4, <1>5, <1>6, <1>7, ServeRule

\* The login ends; the offer stands.
LEMMA RecvClientFinishOK ==
  ASSUME TunnelInv, RecvClientFinish
  PROVE  TunnelInv'
<1>1. PICK c \in Conn :
        /\ c = Served /\ rcv.conn = <<c>>
        /\ conn[c] \in LinkType(Requests(c), Answers(c, conn[c].server))
        /\ rcv.pc = "finish" /\ conn[c].c2s # << >>
        /\ rcv \in ReceiverState /\ ReceiverOK
  BY ServedFacts DEF RecvClientFinish, Reading, Arrived, TunnelInv, TypeOK
<1> DEFINE k == Consumed(conn[c])
<1>2. k \in LinkType(Requests(c), Answers(c, conn[c].server)) /\ k.server = conn[c].server
  BY <1>1, ReadOK
<1>3. rcv' = [rcv EXCEPT !.pc = "header"]
  BY DEF RecvClientFinish
<1>4. rcv' \in ReceiverState /\ rcv'.pc = "header" /\ rcv'.conn = rcv.conn
      /\ rcv'.expected = rcv.expected /\ rcv'.offset = rcv.offset
      /\ rcv'.intro = rcv.intro
  BY <1>1, <1>3 DEF ReceiverState
<1>5. conn' = [conn EXCEPT ![c] = k] /\ ReceiverLeavesRest
      /\ backlog' = backlog /\ delivered' = delivered /\ disk' = disk
      /\ spoiled' = spoiled
  BY <1>1 DEF RecvClientFinish
<1>6. disk' \in [Resource -> Dir] /\ DiskOK' /\ spoiled' \subseteq Resource
  BY <1>5 DEF TunnelInv, TypeOK, DiskOK
<1>7. ReceiverOK'
  <2>1. Named' = Named
    BY <1>4 DEF Named
  <2>2. Len(disk[Named].part) = rcv.offset /\ rcv.expected = 0
    BY <1>1 DEF ReceiverOK, InSession
  <2> QED
    BY <1>1, <1>4, <1>5, <2>1, <2>2 DEF ReceiverOK, InSession
<1>8. Serving(c) /\ Serving(c)' /\ Base' = Base
  BY <1>1, <1>4 DEF Serving, InSession, Base
<1> HIDE DEF k
<1> QED
  BY <1>1, <1>2, <1>4, <1>5, <1>6, <1>7, <1>8, ServeRule

\* An end without a word, or with one signal.
LEMMA HangupOK ==
  ASSUME TunnelInv, ReceiverLeavesRest, backlog' = backlog, delivered' \in [Sender -> Nat],
         spoiled' \subseteq Resource, disk' \in [Resource -> Dir], DiskOK', rcv.conn # << >>,
         NEW replies, Hangup(replies),
         \/ replies = << >>
         \/ \E type \in {"version_error", "unpack_error"} : replies = <<Signal(type)>>
         \/ \E by \in Word : replies = <<Answer("ack", 0, by)>>
  PROVE  TunnelInv'
<1> DEFINE F == {f \in PlainFrame : f.type # "server_intro"}
<1>1. /\ \A type \in {"version_error", "unpack_error"} : Signal(type) \in F
      /\ \A by \in Word : Answer("ack", 0, by) \in F
  <2>1. \A type \in {"version_error", "unpack_error"} : Signal(type) \in F
    BY SignalOK DEF Signal
  <2>2. \A by \in Word : Answer("ack", 0, by) \in F
    BY DEF Answer, PlainFrame, AnswerFrame
  <2> QED
    BY <2>1, <2>2
<1> HIDE DEF F
<1>2. CASE replies = << >>
  <2>1. replies \in Seq(F)
    BY <1>2
  <2> QED
    BY <2>1, HangupRule DEF F
<1>3. CASE \/ \E type \in {"version_error", "unpack_error"} : replies = <<Signal(type)>>
           \/ \E by \in Word : replies = <<Answer("ack", 0, by)>>
  <2>1. PICK f \in F : replies = <<f>>
    BY <1>1, <1>3
  <2>2. replies \in Seq(F)
    BY <2>1
  <2> QED
    BY <2>2, HangupRule DEF F
<1> QED
  BY <1>2, <1>3

\* A peer with another version or another name is turned away.
LEMMA RejectIntroOK ==
  ASSUME TunnelInv, RejectIntro
  PROVE  TunnelInv'
<1>1. PICK replies : Hangup(replies)
                     /\ (replies = << >> \/ replies = <<Signal("version_error")>>)
  BY DEF RejectIntro
<1>2. rcv.conn # << >>
  <2>1. rcv.pc = "intro"
    BY DEF RejectIntro, Reading
  <2>2. PICK c : rcv.conn = <<c>>
    BY <2>1, ServedFacts
  <2> QED
    BY <2>2
<1>3. ReceiverLeavesRest /\ backlog' = backlog /\ delivered' = delivered /\ disk' = disk
      /\ spoiled' = spoiled
  BY DEF RejectIntro
<1>4. delivered' \in [Sender -> Nat] /\ disk' \in [Resource -> Dir] /\ DiskOK' /\ spoiled' \subseteq Resource
  BY <1>3 DEF TunnelInv, TypeOK, DiskOK
<1> QED
  BY <1>1, <1>2, <1>3, <1>4, HangupOK

\* So does a session that fails.
LEMMA ReceiverErrorOK ==
  ASSUME TunnelInv, ReceiverError
  PROVE  TunnelInv'
<1>1. ReceiverLeavesRest /\ backlog' = backlog /\ delivered' = delivered /\ disk' = disk
      /\ spoiled' = spoiled
      /\ Hangup(<< >>) /\ rcv.conn # << >>
  BY DEF ReceiverError
<1>2. delivered' \in [Sender -> Nat] /\ disk' \in [Resource -> Dir] /\ DiskOK' /\ spoiled' \subseteq Resource
  BY <1>1 DEF TunnelInv, TypeOK, DiskOK
<1> QED
  BY <1>1, <1>2, HangupOK

\* resume_state on the whole store: what it offers is what it keeps.
LEMMA ResumeStateOK ==
  ASSUME NEW ds \in [Resource -> Dir], NEW r \in Resource, NEW bad,
         \A q \in Resource : DirOK(ds[q]) /\ (q \notin bad => IsIntact(ds[q].part, q))
  PROVE  /\ ResumeState(ds, r, 0) \in [Resource -> Dir]
         /\ \A q \in Resource :
              /\ DirOK(ResumeState(ds, r, 0)[q])
              /\ q \notin bad \/ ResumeState(ds, r, 0)[q].part = << >> =>
                   IsIntact(ResumeState(ds, r, 0)[q].part, q)
         /\ ResumeOffset(CleanupExpired(ds, 0)[r], r) \in Nat
         /\ Len(ResumeState(ds, r, 0)[r].part) = ResumeOffset(CleanupExpired(ds, 0)[r], r)
<1> DEFINE cleaned == CleanupExpired(ds, 0)
           opened == OpenDir(cleaned[r], r, 0)
<1>1. cleaned = [q \in Resource |-> cleaned[q]]
  BY DEF CleanupExpired
<1>2. \A q \in Resource : DirOK(cleaned[q]) /\ (q \notin bad => IsIntact(cleaned[q].part, q))
  <2> SUFFICES ASSUME NEW q \in Resource
               PROVE  DirOK(cleaned[q]) /\ (q \notin bad => IsIntact(cleaned[q].part, q))
    OBVIOUS
  <2>1. DirOK(cleaned[q]) /\ (cleaned[q] = ds[q] \/ cleaned[q] = EmptyDir)
    BY CleanupOK
  <2> QED
    BY <2>1, EmptyDirOK, EmptyIntact
<1>3. ResumeState(ds, r, 0) = [cleaned EXCEPT ![r] = opened]
  BY DEF ResumeState
<1> HIDE DEF cleaned
<1>4. /\ DirOK(opened)
      /\ opened.part = cleaned[r].part \/ opened.part = << >>
      /\ Len(opened.part) = ResumeOffset(cleaned[r], r)
      /\ ResumeOffset(cleaned[r], r) \in Nat
  BY <1>2, OpenDirOK
<1> HIDE DEF opened
<1>5. \A q \in Resource :
        ResumeState(ds, r, 0)[q] = IF q = r THEN opened ELSE cleaned[q]
  BY <1>1, <1>3
<1>6. r \notin bad => IsIntact(opened.part, r)
  BY <1>2, <1>4, EmptyIntact
<1>7. \A q \in Resource :
        /\ DirOK(ResumeState(ds, r, 0)[q])
        /\ q \notin bad => IsIntact(ResumeState(ds, r, 0)[q].part, q)
  BY <1>2, <1>4, <1>5, <1>6
<1>8. ResumeState(ds, r, 0) = [q \in Resource |-> ResumeState(ds, r, 0)[q]]
  BY <1>1, <1>3
<1>9. ResumeState(ds, r, 0) \in [Resource -> Dir]
  BY <1>7, <1>8 DEF DirOK
<1>10. \A q \in Resource : ResumeState(ds, r, 0)[q].part = << >> =>
         IsIntact(ResumeState(ds, r, 0)[q].part, q)
  BY EmptyIntact
<1> QED
  BY <1>4, <1>5, <1>7, <1>9, <1>10 DEF cleaned

\* More on offer, more that may be sealed.
LEMMA SealedMonotonic ==
  ASSUME NEW key, NEW offered, NEW more, NEW size, offered \subseteq more
  PROVE  Sealed(key, offered, size) \subseteq Sealed(key, more, size)
<1>1. \A n : BodiesAt(n, offered, size) \subseteq BodiesAt(n, more, size)
  BY DEF BodiesAt
<1>2. \A n : SealedAt(n, key, offered, size) \subseteq SealedAt(n, key, more, size)
  BY <1>1 DEF SealedAt
<1> QED
  BY <1>2 DEF Sealed

\* The receiver offers what the part file holds.
LEMMA RecvClientIntroOK ==
  ASSUME TunnelInv, RecvClientIntro
  PROVE  TunnelInv'
<1>1. PICK c \in Conn :
        /\ c = Served /\ rcv.conn = <<c>>
        /\ conn[c] \in LinkType(Requests(c), Answers(c, conn[c].server))
        /\ rcv.pc = "intro" /\ conn[c].c2s # << >>
        /\ rcv \in ReceiverState /\ ReceiverOK
  BY ServedFacts DEF RecvClientIntro, Reading, Arrived, TunnelInv, TypeOK
<1>i. PICK intro : intro = Head(conn[c].c2s).intro
  OBVIOUS
<1>r. PICK resource \in Resource : resource = intro.resource /\ intro \in Accepted
  <2>1. Head(conn[c].c2s) \in Requests(c) /\ Head(conn[c].c2s).type = "client_intro"
    BY <1>1, ReadOK DEF RecvClientIntro, Reading, Arrived
  <2>2. Head(conn[c].c2s) \in IntroFrame
    BY <2>1, FrameTypes
  <2>3. intro \in Intros
    BY <1>i, <2>2 DEF IntroFrame
  <2>4. intro.name \in {Ours.name, NoName} /\ intro.version = Ours.version
    BY <1>1, <1>i DEF RecvClientIntro
  <2> QED
    BY <2>3, <2>4 DEF Intros, Accepted
<1>o. PICK offset : offset = ResumeOffset(CleanupExpired(disk, 0)[resource], resource)
  OBVIOUS
<1> DEFINE offer == Answer("server_intro", offset, "receiver")
<1>k. PICK k : k = ToClient(Consumed(conn[c]), <<offer>>)
  OBVIOUS
<1>2. /\ disk' \in [Resource -> Dir] /\ DiskOK' /\ spoiled' \subseteq Resource
      /\ offset \in Nat /\ Len(disk'[resource].part) = offset
  <2>1. disk \in [Resource -> Dir] /\ DiskOK /\ spoiled \subseteq Resource
        /\ disk' = ResumeState(disk, resource, 0)
        /\ spoiled' = {r \in spoiled : disk'[r].part # << >>}
    BY <1>1, <1>i, <1>r DEF RecvClientIntro, TunnelInv, TypeOK
  <2>2. /\ disk' \in [Resource -> Dir]
        /\ \A q \in Resource :
             /\ DirOK(disk'[q])
             /\ q \notin spoiled \/ disk'[q].part = << >> => IsIntact(disk'[q].part, q)
        /\ offset \in Nat /\ Len(disk'[resource].part) = offset
    BY <1>o, <2>1, ResumeStateOK DEF DiskOK
  <2>3. DiskOK'
    BY <2>1, <2>2 DEF DiskOK
  <2> QED
    BY <2>1, <2>2, <2>3
<1>3. rcv' = [rcv EXCEPT !.pc = "finish", !.intro = <<intro>>, !.offset = offset]
      /\ conn' = [conn EXCEPT ![c] = k]
      /\ ReceiverLeavesRest /\ backlog' = backlog /\ delivered' = delivered
  BY <1>1, <1>i, <1>r, <1>o, <1>k DEF RecvClientIntro
<1>4. rcv' \in ReceiverState /\ rcv'.pc = "finish" /\ rcv'.conn = rcv.conn
      /\ rcv'.expected = rcv.expected /\ rcv'.offset = offset /\ rcv'.intro = <<intro>>
  <2>1. PICK intros : intros = <<intro>>
    OBVIOUS
  <2>2. intros \in Seq(Accepted)
    BY <1>r, <2>1
  <2>3. rcv' = [rcv EXCEPT !.pc = "finish", !.intro = intros, !.offset = offset]
    BY <1>3, <2>1
  <2>4. rcv' \in ReceiverState
    BY <1>1, <1>2, <2>2, <2>3 DEF ReceiverState
  <2>5. rcv'.pc = "finish" /\ rcv'.conn = rcv.conn
        /\ rcv'.expected = rcv.expected /\ rcv'.offset = offset /\ rcv'.intro = intros
    BY <1>1, <2>3 DEF ReceiverState
  <2> QED
    BY <2>1, <2>4, <2>5
<1>5. ReceiverOK'
  <2>1. Named' = resource
    BY <1>4, <1>r DEF Named
  <2>2. rcv.expected = 0
    BY <1>1 DEF ReceiverOK
  <2>3. \E i \in Accepted : rcv'.intro = <<i>>
    BY <1>4, <1>r
  <2>4. \E d \in Conn : rcv'.conn = <<d>>
    BY <1>1, <1>4
  <2> QED
    BY <1>1, <1>2, <1>4, <2>1, <2>2, <2>3, <2>4 DEF ReceiverOK, InSession
<1>6. /\ \A d : ~Serving(d)
      /\ Serving(c)' /\ Base' = offset
      /\ \A d : d # c => ~Serving(d)'
  BY <1>1, <1>4 DEF Serving, InSession, Base
<1>7. DOMAIN conn = Conn /\ (\A d \in Conn : LinkOK(conn[d], d))
      /\ backlog \in Seq(Conn) /\ delivered \in [Sender -> Nat]
  BY DEF TunnelInv, TypeOK
<1>8. /\ DOMAIN conn' = Conn
      /\ \A d \in Conn : conn'[d] = IF d = c THEN k ELSE conn[d]
  BY <1>3, <1>7
<1> DEFINE B == {f \in PlainFrame :
                   f.type = "server_intro" /\ f.by = "receiver" /\ conn[c].server = "open" =>
                     f.at = offset}
<1>9. k \in LinkType(Requests(c), B) /\ k.server = conn[c].server
  <2> DEFINE A == Answers(c, conn[c].server)
             R == Requests(c)
  <2>1. offer \in B
    BY <1>2 DEF PlainFrame, AnswerFrame, Answer, Word
  <2>2. A \subseteq B
    BY <1>6 DEF Answers
  <2>3. conn[c] \in LinkType(R, A)
    BY <1>1
  <2> HIDE DEF A, B, R, offer
  <2>4. conn[c] \in LinkType(R, B)
    BY <2>2, <2>3, LinkMonotonic
  <2>5. k \in LinkType(R, B) /\ k.server = conn[c].server
    BY <1>1, <1>k, <2>1, <2>4, ReplyOK
  <2> QED
    BY <2>5 DEF R
<1>10. ASSUME NEW d \in Conn
       PROVE  LinkOK(conn[d], d)'
  <2>1. CASE d = c
    <3>1. Requests(c) \subseteq Requests(c)'
      <4>1. KeyOf(c)' = KeyOf(c) /\ SizeOf(c)' = SizeOf(c) /\ Offered(c) = {}
        BY <1>3, <1>6 DEF KeyOf, SizeOf, Offered, ReceiverLeavesRest
      <4>2. PICK key, size, offered : key = KeyOf(c) /\ size = SizeOf(c) /\ offered = Offered(c)'
        OBVIOUS
      <4>3. Sealed(key, {}, size) \subseteq Sealed(key, offered, size)
        BY SealedMonotonic
      <4>4. Requests(c) = PlainFrame \cup Sealed(key, {}, size)
        BY <4>1, <4>2 DEF Requests
      <4>5. Requests(c)' = PlainFrame \cup Sealed(key, offered, size)
        BY <4>1, <4>2 DEF Requests
      <4> QED
        BY <4>3, <4>4, <4>5
    <3>2. B \subseteq Answers(c, k.server)'
      BY <1>3, <1>6, <1>9 DEF Answers
    <3> QED
      BY <2>1, <3>1, <3>2, <1>8, <1>9, LinkMonotonic DEF LinkOK
  <2>2. CASE d # c
    <3>1. Requests(d)' = Requests(d)
      BY <1>3, <1>6, <2>2, NoOffer
    <3>2. \A server : Answers(d, server)' = Answers(d, server)
      BY <1>6, <2>2 DEF Answers
    <3> QED
      BY <2>2, <3>1, <3>2, <1>7, <1>8 DEF LinkOK
  <2> QED
    BY <2>1, <2>2
<1>11. \A d \in Conn : conn'[d].server = "open" =>
         conn[d].server = "open" /\ (Serving(d) => Serving(d)' /\ Base' = Base)
  <2> SUFFICES ASSUME NEW d \in Conn
               PROVE  conn'[d].server = conn[d].server /\ ~Serving(d)
    OBVIOUS
  <2> QED
    BY <1>6, <1>8, <1>9
<1>12. backlog' \in Seq(Conn) /\ delivered' \in [Sender -> Nat]
  BY <1>3, <1>7
<1> QED
  BY <1>2, <1>3, <1>4, <1>5, <1>8, <1>10, <1>11, <1>12, ReceiverRule

\* A frame that opens was sealed by a sender that agrees on everything, and
\* its number fixes its body.
LEMMA OpensFacts ==
  ASSUME TunnelInv, NEW pc \in {"header", "body"}, NEW type, Opens(pc, type)
  PROVE  /\ rcv.pc = pc /\ conn[Served].c2s # << >>
         /\ Serving(Served) /\ Named \in Resource
         /\ snd[Peer].terms = Ours
         /\ Head(conn[Served].c2s).body \in BodiesAt(rcv.expected, {Base}, SizeOf(Served))
         /\ Head(conn[Served].c2s).body.type = type
         /\ Head(conn[Served].c2s).tag = "good"
<1> DEFINE frame == Head(conn[Served].c2s)
           key == KeyOf(Served)
<1>1. rcv.pc = pc /\ conn[Served].c2s # << >> /\ frame.type = "secure" /\ frame.body.type = type
      /\ Decrypts(ServerChain, rcv.expected, frame)
  BY DEF Opens, Reading, Arrived
<1>2. rcv.conn = <<Served>> /\ Peer \in Sender
      /\ conn[Served] \in LinkType(Requests(Served), Answers(Served, conn[Served].server))
  BY <1>1, ServedFacts
<1>3. Serving(Served) /\ Named \in Resource /\ rcv.intro[1].name \in {Ours.name, NoName}
  BY <1>1, SessionFacts DEF InSession
<1>4. frame \in Sealed(key, {Base}, SizeOf(Served))
  <2>1. frame \in Requests(Served)
    BY <1>1, <1>2, ReadOK
  <2>2. Offered(Served) = {Base}
    BY <1>3 DEF Offered
  <2> QED
    BY <1>1, <2>1, <2>2, FrameTypes
<1>5. frame.sequence = rcv.expected /\ frame.tag = "good"
      /\ frame.key = DeriveNext(ServerChain, rcv.expected)
  BY <1>1 DEF Decrypts
<1>6. frame.key.root = key /\ frame.body \in BodiesAt(rcv.expected, {Base}, SizeOf(Served))
  <2>1. PICK f, k, offered, size :
          f = frame /\ k = key /\ offered = {Base} /\ size = SizeOf(Served)
    OBVIOUS
  <2>2. f \in Sealed(k, offered, size)
    BY <1>4, <2>1
  <2>3. f.key.root = k /\ f.body \in BodiesAt(f.sequence, offered, size)
    BY <2>2, SealedFacts
  <2> QED
    BY <1>5, <2>1, <2>3
<1>7. key = SessionKey(Served, ServerTerms)
  BY <1>5, <1>6, KeyRoot DEF ServerChain
<1>8. snd[Peer].terms = Ours
  <2>1. PICK t, n : t = snd[Peer].terms /\ n = rcv.intro[1].name
    OBVIOUS
  <2>2. IsTerms(t) /\ IsTerms(Ours) /\ t.name # NoName
    <3>1. snd[Peer] \in SenderState
      BY <1>2 DEF TunnelInv, TypeOK
    <3> QED
      BY <2>1, <3>1, TermsNamed, TunnelAssumption
  <2>3. ServerTerms.code = Ours.code /\ ServerTerms.name = n /\ ServerTerms.route = Ours.route
        /\ ServerTerms.version = Ours.version
    <3>1. Ours = [code |-> Ours.code, name |-> Ours.name, route |-> Ours.route,
                  version |-> Ours.version]
      BY <2>2 DEF IsTerms
    <3>2. ServerTerms = [Ours EXCEPT !.name = n]
      BY <2>1 DEF ServerTerms
    <3> QED
      BY <3>1, <3>2
  <2>4. SessionKey(Served, t) = SessionKey(Served, ServerTerms)
    BY <1>7, <2>1 DEF KeyOf, Peer
  <2>5. t.code = Ours.code /\ Transcript(t) = Transcript(ServerTerms)
    BY <2>3, <2>4 DEF SessionKey
  <2>6. t.name = n /\ t.route = Ours.route /\ t.version = Ours.version
    BY <2>3, <2>5 DEF Transcript
  <2>7. t.name = Ours.name
    BY <1>3, <2>1, <2>2, <2>6
  <2>8. t = [code |-> t.code, name |-> t.name, route |-> t.route, version |-> t.version]
        /\ Ours = [code |-> Ours.code, name |-> Ours.name, route |-> Ours.route,
                   version |-> Ours.version]
    BY <2>2 DEF IsTerms
  <2> QED
    BY <2>1, <2>5, <2>6, <2>7, <2>8
<1> QED
  BY <1>1, <1>3, <1>5, <1>6, <1>8

\* The header: the receiver knows whom it serves.
LEMMA RecvHeaderOK ==
  ASSUME TunnelInv, RecvHeader
  PROVE  TunnelInv'
<1>1. /\ rcv.pc = "header" /\ conn[Served].c2s # << >> /\ Serving(Served)
      /\ snd[Peer].terms = Ours
  BY OpensFacts DEF RecvHeader
<1>2. PICK c \in Conn :
        /\ c = Served /\ rcv.conn = <<c>>
        /\ conn[c] \in LinkType(Requests(c), Answers(c, conn[c].server))
        /\ rcv \in ReceiverState /\ ReceiverOK
  BY <1>1, ServedFacts DEF TunnelInv, TypeOK
<1> DEFINE k == Consumed(conn[c])
<1>3. k \in LinkType(Requests(c), Answers(c, conn[c].server)) /\ k.server = conn[c].server
  BY <1>1, <1>2, ReadOK
<1>4. rcv' = [rcv EXCEPT !.pc = "body", !.expected = rcv.expected + 1]
      /\ conn' = [conn EXCEPT ![c] = k] /\ ReceiverLeavesRest
      /\ backlog' = backlog /\ delivered' = delivered /\ disk' = disk
      /\ spoiled' = spoiled
  BY <1>2 DEF RecvHeader
<1>5. rcv.expected = 0 /\ rcv.offset \in Nat /\ Len(disk[Named].part) = rcv.offset
      /\ \E intro \in Accepted : rcv.intro = <<intro>>
  <2>1. rcv.expected = 0
    BY <1>1, <1>2 DEF ReceiverOK
  <2> QED
    BY <1>1, <2>1, SessionFacts DEF InSession
<1>6. rcv' \in ReceiverState /\ rcv'.pc = "body" /\ rcv'.conn = rcv.conn
      /\ rcv'.expected = 1 /\ rcv'.offset = rcv.offset /\ rcv'.intro = rcv.intro
  <2>1. rcv' = [rcv EXCEPT !.pc = "body", !.expected = 1]
    BY <1>4, <1>5
  <2>2. rcv' \in ReceiverState
    BY <1>2, <2>1 DEF ReceiverState
  <2> QED
    BY <1>2, <2>1, <2>2 DEF ReceiverState
<1>7. disk' \in [Resource -> Dir] /\ DiskOK' /\ spoiled' \subseteq Resource
  BY <1>4 DEF TunnelInv, TypeOK, DiskOK
<1>8. ReceiverOK'
  <2>1. Named' = Named /\ Peer' = Peer /\ snd' = snd
    BY <1>4, <1>6 DEF Peer, Served, Named, ReceiverLeavesRest
  <2>2. rcv'.expected \in 1..rcv'.offset + 1
    BY <1>5, <1>6
  <2> QED
    BY <1>1, <1>2, <1>4, <1>5, <1>6, <2>1, <2>2 DEF ReceiverOK, InSession
<1>9. Serving(c)' = Serving(c) /\ Base' = Base
  <2>1. Base' = rcv.offset + 1 - 1 /\ Base = rcv.offset
    BY <1>1, <1>6 DEF Base
  <2>2. Serving(c)' /\ Serving(c)
    BY <1>1, <1>2, <1>6 DEF Serving, InSession
  <2> QED
    BY <1>5, <2>1, <2>2
<1> HIDE DEF k
<1> QED
  BY <1>2, <1>3, <1>4, <1>6, <1>7, <1>8, <1>9, ServeRule

\* A chunk and its number: in a session about its sender's archive that began
\* with the receiver's offset, it is the byte that follows the part file.
LEMMA ChunkFacts ==
  ASSUME TunnelInv, RecvChunk
  PROVE  /\ rcv.pc = "body" /\ conn[Served].c2s # << >> /\ Serving(Served) /\ Named \in Resource
         /\ snd[Peer].terms = Ours
         /\ rcv.expected \in 1..rcv.offset + 1 /\ rcv.offset \in Nat
         /\ Len(disk[Named].part) = rcv.offset
         /\ Payload(Head(conn[Served].c2s)) \in Seq(Nat) /\ Len(Payload(Head(conn[Served].c2s))) = 1
         /\ ~Spoils(Head(conn[Served].c2s)) =>
              /\ Payload(Head(conn[Served].c2s)) = Bytes(rcv.offset, 1)
              /\ rcv.offset + 1 <= Size[Named]
<1>1. PICK frame : frame = Head(conn[Served].c2s)
  OBVIOUS
<1>2. /\ rcv.pc = "body" /\ conn[Served].c2s # << >> /\ Serving(Served) /\ Named \in Resource
      /\ snd[Peer].terms = Ours /\ frame.tag = "good"
      /\ frame.body \in BodiesAt(rcv.expected, {Base}, SizeOf(Served))
      /\ frame.body.type = "chunk"
  BY <1>1, OpensFacts DEF RecvChunk
<1>3. rcv.expected \in 1..rcv.offset + 1 /\ rcv.offset \in Nat /\ Len(disk[Named].part) = rcv.offset
  BY <1>2, SessionFacts DEF TunnelInv, ReceiverOK, InSession
<1>4. Base = rcv.offset + 1 - rcv.expected /\ Base \in Nat
  BY <1>2, <1>3 DEF Base
<1>5. \/ frame.body \in {Body("chunk", at, "bridge") : at \in Nat}
      \/ frame.body \in InPlace(rcv.expected, Base, SizeOf(Served))
  <2>1. frame.body \notin {Body("done", 0, by) : by \in Word}
    BY <1>2 DEF Body
  <2>2. rcv.expected # 0
    BY <1>3
  <2>3. UNION {InPlace(rcv.expected, base, SizeOf(Served)) : base \in {Base}}
          = InPlace(rcv.expected, Base, SizeOf(Served))
    OBVIOUS
  <2> QED
    BY <1>2, <2>1, <2>2, <2>3 DEF BodiesAt
<1>6. frame.body.at \in Nat
  <2>1. CASE frame.body \in {Body("chunk", at, "bridge") : at \in Nat}
    BY <2>1 DEF Body
  <2>2. CASE frame.body \in InPlace(rcv.expected, Base, SizeOf(Served))
    <3>1. frame.body.at = Base + rcv.expected - 1
      BY <2>2 DEF InPlace, Body
    <3> QED
      BY <1>3, <1>4, <3>1
  <2> QED
    BY <1>5, <2>1, <2>2
<1>7. Payload(frame) \in Seq(Nat) /\ Len(Payload(frame)) = 1
  <2>1. Bytes(frame.body.at, 1) \in Seq(Nat) /\ Len(Bytes(frame.body.at, 1)) = 1
    BY <1>6, BytesType
  <2>2. <<0>> \in Seq(Nat) /\ Len(<<0>>) = 1
    OBVIOUS
  <2> QED
    BY <2>1, <2>2 DEF Payload
<1>8. ASSUME ~Spoils(frame)
      PROVE  Payload(frame) = Bytes(rcv.offset, 1) /\ rcv.offset + 1 <= Size[Named]
  <2>1. frame.body.by # "bridge" /\ Straight
    BY <1>8 DEF Spoils
  <2>2. frame.body \in InPlace(rcv.expected, Base, SizeOf(Served))
    BY <1>5, <2>1 DEF Body
  <2>3. frame.body.at = Base + rcv.expected - 1 /\ Base + rcv.expected <= SizeOf(Served)
    BY <2>2 DEF InPlace, Body
  <2>4. SizeOf(Served) = Size[Named] /\ Size[Named] \in Nat
    BY <1>2, <2>1, StoreAssumption DEF SizeOf, Straight, Peer
  <2>5. frame.body.at = rcv.offset /\ rcv.offset + 1 <= Size[Named]
    BY <1>3, <1>4, <2>3, <2>4
  <2> QED
    BY <1>2, <2>1, <2>5 DEF Payload
<1> QED
  BY <1>1, <1>2, <1>3, <1>7, <1>8

\* What an append does to the store, in its directory and in all of them.
LEMMA AppendDiskOK ==
  ASSUME NEW ds \in [Resource -> Dir], NEW r \in Resource, NEW bad, NEW worse, NEW d,
         \A q \in Resource : DirOK(ds[q]) /\ (q \notin bad => IsIntact(ds[q].part, q)),
         bad \subseteq worse, DirOK(d), r \notin worse => IsIntact(d.part, r)
  PROVE  /\ [ds EXCEPT ![r] = d] \in [Resource -> Dir]
         /\ [ds EXCEPT ![r] = d][r] = d
         /\ \A q \in Resource :
              /\ DirOK([ds EXCEPT ![r] = d][q])
              /\ q \notin worse => IsIntact([ds EXCEPT ![r] = d][q].part, q)
<1>1. PICK after : after = [ds EXCEPT ![r] = d]
  OBVIOUS
<1>2. d \in Dir
  BY DEF DirOK
<1>3. after \in [Resource -> Dir] /\ \A q \in Resource : after[q] = IF q = r THEN d ELSE ds[q]
  BY <1>1, <1>2
<1>4. \A q \in Resource : DirOK(after[q]) /\ (q \notin worse => IsIntact(after[q].part, q))
  BY <1>3
<1> QED
  BY <1>1, <1>3, <1>4

\* A chunk is appended: the byte that follows, or the partial is spoiled.
LEMMA RecvChunkOK ==
  ASSUME TunnelInv, RecvChunk
  PROVE  TunnelInv'
<1>1. PICK c \in Conn :
        /\ c = Served /\ rcv.conn = <<c>> /\ conn[c].c2s # << >> /\ rcv.pc = "body"
        /\ conn[c] \in LinkType(Requests(c), Answers(c, conn[c].server))
        /\ rcv \in ReceiverState /\ ReceiverOK
        /\ disk \in [Resource -> Dir] /\ DiskOK /\ spoiled \subseteq Resource
  BY ChunkFacts, ServedFacts DEF TunnelInv, TypeOK
<1>11. PICK r \in Resource : r = Named
  BY ChunkFacts
<1>12. PICK b \in Seq(Nat) : b = Payload(Head(conn[Served].c2s)) /\ Len(b) = 1
  BY ChunkFacts
<1>2. PICK frame :
        /\ frame = Head(conn[c].c2s) /\ b = Payload(frame) /\ r = Named
        /\ Len(disk[r].part) = rcv.offset
        /\ ~Spoils(frame) => b = Bytes(rcv.offset, 1) /\ rcv.offset + 1 <= Size[r]
  BY <1>1, <1>11, <1>12, ChunkFacts
<1>3. PICK o \in Nat, e \in Nat : o = rcv.offset + 1 /\ e = rcv.expected + 1
  BY ChunkFacts
<1>4. PICK worse : /\ spoiled' = worse /\ spoiled \subseteq worse /\ worse \subseteq Resource
                   /\ r \notin worse => r \notin spoiled /\ ~Spoils(frame)
  <2>1. spoiled' = IF Spoils(Head(conn[Served].c2s)) THEN spoiled \cup {Named} ELSE spoiled
    BY DEF RecvChunk
  <2>2. spoiled' = IF Spoils(frame) THEN spoiled \cup {r} ELSE spoiled
    BY <1>1, <1>2, <2>1
  <2>3. PICK worse : worse = spoiled'
    OBVIOUS
  <2>4. spoiled \subseteq worse /\ worse \subseteq Resource
        /\ (r \notin worse => r \notin spoiled /\ ~Spoils(frame))
    BY <1>1, <2>2, <2>3
  <2> QED
    BY <2>3, <2>4
<1>5. DirOK(disk[r]) /\ disk[r].part \in Seq(Nat)
  BY <1>1, <1>2 DEF DiskOK, DirOK, Dir
<1>6. /\ Len(disk[r].part \o b) = o
      /\ r \notin worse => IsIntact(disk[r].part \o b, r)
  <2>1. PICK part \in Seq(Nat) : part = disk[r].part /\ Len(part) = rcv.offset
    BY <1>2, <1>5
  <2>2. Len(part \o b) = o
    <3>1. Len(part \o b) = Len(part) + 1
      <4>1. Len(part \o b) = Len(part) + Len(b)
        OBVIOUS
      <4> QED
        BY <1>12, <4>1
    <3> QED
      BY <1>3, <2>1, <3>1
  <2>3. ASSUME r \notin worse
        PROVE  IsIntact(part \o b, r)
    <3>1. IsIntact(part, r) /\ b = Bytes(Len(part), 1) /\ Len(part) + 1 <= Size[r]
      BY <1>1, <1>2, <1>4, <2>1, <2>3 DEF DiskOK
    <3>2. PICK n \in Nat : n = 1
      OBVIOUS
    <3>3. PICK k \in 0..n : k = 0
      BY <3>2
    <3>4. Len(part) + n <= Size[r]
      BY <3>1, <3>2
    <3>5. IsIntact(part \o Bytes(Len(part), n), r)
      BY <3>1, <3>4, ChunkIntact, Zenon
    <3> QED
      BY <3>1, <3>2, <3>5
  <2> QED
    BY <2>1, <2>2, <2>3
<1>7. /\ ReceiverLeavesRest /\ backlog' = backlog /\ delivered' = delivered
      /\ \/ /\ o <= Size[r]
            /\ disk' = [disk EXCEPT ![r] = AppendChunk(disk[r], b, o, 0)]
            /\ rcv' = [rcv EXCEPT !.offset = o, !.expected = e]
            /\ conn' = [conn EXCEPT ![c] = Consumed(conn[c])]
         \/ /\ o > Size[r]
            /\ disk' = [disk EXCEPT ![r] = AppendPart(disk[r], b)]
            /\ Hangup(<< >>)
  <2>1. /\ ReceiverLeavesRest /\ backlog' = backlog /\ delivered' = delivered
        /\ \/ /\ rcv.offset + 1 <= Size[Named]
              /\ disk' = [disk EXCEPT ![Named] =
                   AppendChunk(disk[Named], Payload(Head(conn[Served].c2s)), rcv.offset + 1, 0)]
              /\ rcv' = [rcv EXCEPT !.offset = rcv.offset + 1, !.expected = rcv.expected + 1]
              /\ conn' = [conn EXCEPT ![Served] = Consumed(conn[Served])]
           \/ /\ rcv.offset + 1 > Size[Named]
              /\ disk' = [disk EXCEPT ![Named] =
                   AppendPart(disk[Named], Payload(Head(conn[Served].c2s)))]
              /\ Hangup(<< >>)
    BY Zenon DEF RecvChunk
  <2>2. c = Served /\ r = Named /\ b = Payload(Head(conn[Served].c2s))
        /\ o = rcv.offset + 1 /\ e = rcv.expected + 1
    BY <1>1, <1>2, <1>3
  <2> QED
    BY <2>1, <2>2
<1>8. o \in Nat /\ Size[r] \in Nat
  BY <1>2, StoreAssumption
<1>9. CASE o <= Size[r]
  <2>1. PICK d : d = AppendChunk(disk[r], b, o, 0)
    OBVIOUS
  <2> DEFINE k == Consumed(conn[c])
  <2>2. rcv' = [rcv EXCEPT !.offset = o, !.expected = e]
        /\ conn' = [conn EXCEPT ![c] = k] /\ ReceiverLeavesRest
        /\ backlog' = backlog /\ delivered' = delivered
        /\ disk' = [disk EXCEPT ![r] = d]
    BY <1>7, <1>8, <1>9, <2>1
  <2>3. DirOK(d) /\ d.part = disk[r].part \o b
    <3>1. PICK dir : dir = disk[r] /\ DirOK(dir)
      BY <1>5
    <3>2. PICK now \in Nat : now = 0
      OBVIOUS
    <3>3. DirOK(AppendChunk(dir, b, o, now)) /\ AppendChunk(dir, b, o, now).part = dir.part \o b
      BY <3>1, AppendChunkOK, Zenon
    <3> QED
      BY <2>1, <3>1, <3>2, <3>3
  <2>4. disk' \in [Resource -> Dir] /\ DiskOK' /\ disk'[r] = d
    <3>1. r \notin worse => IsIntact(d.part, r)
      BY <1>6, <2>3
    <3>2. \A q \in Resource : DirOK(disk[q]) /\ (q \notin spoiled => IsIntact(disk[q].part, q))
      BY <1>1 DEF DiskOK
    <3>3. /\ disk' \in [Resource -> Dir] /\ disk'[r] = d
          /\ \A q \in Resource : DirOK(disk'[q]) /\ (q \notin worse => IsIntact(disk'[q].part, q))
      <4>d. PICK ds \in [Resource -> Dir] : ds = disk
        BY <1>1
      <4>1. PICK bad : ds = disk /\ bad = spoiled
        BY <4>d
      <4>2. /\ bad \subseteq worse
            /\ \A q \in Resource : DirOK(ds[q]) /\ (q \notin bad => IsIntact(ds[q].part, q))
        BY <1>1, <1>4, <3>2, <4>1
      <4>3. /\ [ds EXCEPT ![r] = d] \in [Resource -> Dir] /\ [ds EXCEPT ![r] = d][r] = d
            /\ \A q \in Resource : /\ DirOK([ds EXCEPT ![r] = d][q])
                                   /\ q \notin worse => IsIntact([ds EXCEPT ![r] = d][q].part, q)
        BY <2>3, <3>1, <4>2, AppendDiskOK
      <4>4. disk' = [ds EXCEPT ![r] = d]
        BY <2>2, <4>1
      <4> QED
        BY <4>3, <4>4
    <3> QED
      BY <1>4, <3>3 DEF DiskOK
  <2>5. k \in LinkType(Requests(c), Answers(c, conn[c].server)) /\ k.server = conn[c].server
    BY <1>1, ReadOK
  <2>6. rcv' \in ReceiverState /\ rcv'.pc = "body" /\ rcv'.conn = rcv.conn
        /\ rcv'.expected = e /\ rcv'.offset = o /\ rcv'.intro = rcv.intro
    <3>1. rcv' \in ReceiverState
      BY <1>1, <2>2 DEF ReceiverState
    <3> QED
      BY <1>1, <2>2 DEF ReceiverState
  <2>7. ReceiverOK'
    <3>1. Named' = r /\ Peer' = Peer /\ snd' = snd
      BY <1>2, <2>2, <2>6 DEF Peer, Served, Named, ReceiverLeavesRest
    <3>2. e \in 1..o + 1
      BY <1>3, ChunkFacts
    <3>3. Len(disk'[r].part) = o
      BY <1>6, <2>3, <2>4
    <3>4. snd[Peer].terms = Ours
      BY ChunkFacts
    <3>5. \E intro \in Accepted : rcv'.intro = <<intro>>
      BY <1>1, <2>6, SessionFacts DEF InSession
    <3>6. \E d2 \in Conn : rcv'.conn = <<d2>>
      BY <1>1, <2>6
    <3> QED
      BY <2>6, <3>1, <3>2, <3>3, <3>4, <3>5, <3>6 DEF ReceiverOK, InSession
  <2>8. Serving(c)' = Serving(c) /\ Base' = Base
    <3>1. Base' = rcv.offset + 1 + 1 - (rcv.expected + 1) /\ Base = rcv.offset + 1 - rcv.expected
      BY <1>1, <1>3, <2>6 DEF Base
    <3>2. Serving(c)' /\ Serving(c)
      BY <1>1, <2>6 DEF Serving, InSession
    <3>3. rcv.offset \in Nat /\ rcv.expected \in Nat
      BY <1>1 DEF ReceiverState
    <3> QED
      BY <3>1, <3>2, <3>3
  <2> HIDE DEF k
  <2> QED
    BY <1>1, <1>4, <2>2, <2>4, <2>5, <2>6, <2>7, <2>8, ServeRule
<1>10. CASE ~(o <= Size[r])
  <2>1. PICK d : d = AppendPart(disk[r], b)
    OBVIOUS
  <2>2. Hangup(<< >>) /\ ReceiverLeavesRest /\ backlog' = backlog /\ delivered' = delivered
        /\ disk' = [disk EXCEPT ![r] = d]
    BY <1>7, <1>8, <1>10, <2>1
  <2>3. DirOK(d) /\ d.part = disk[r].part \o b
    BY <1>2, <1>5, <2>1, AppendPartOK
  <2>4. disk' \in [Resource -> Dir] /\ DiskOK'
    <3>1. r \notin worse => IsIntact(d.part, r)
      BY <1>6, <2>3
    <3>2. \A q \in Resource : DirOK(disk[q]) /\ (q \notin spoiled => IsIntact(disk[q].part, q))
      BY <1>1 DEF DiskOK
    <3>3. /\ disk' \in [Resource -> Dir]
          /\ \A q \in Resource : DirOK(disk'[q]) /\ (q \notin worse => IsIntact(disk'[q].part, q))
      <4>d. PICK ds \in [Resource -> Dir] : ds = disk
        BY <1>1
      <4>1. PICK bad : ds = disk /\ bad = spoiled
        BY <4>d
      <4>2. /\ bad \subseteq worse
            /\ \A q \in Resource : DirOK(ds[q]) /\ (q \notin bad => IsIntact(ds[q].part, q))
        BY <1>1, <1>4, <3>2, <4>1
      <4>3. /\ [ds EXCEPT ![r] = d] \in [Resource -> Dir] /\ [ds EXCEPT ![r] = d][r] = d
            /\ \A q \in Resource : /\ DirOK([ds EXCEPT ![r] = d][q])
                                   /\ q \notin worse => IsIntact([ds EXCEPT ![r] = d][q].part, q)
        BY <2>3, <3>1, <4>2, AppendDiskOK
      <4>4. disk' = [ds EXCEPT ![r] = d]
        BY <2>2, <4>1
      <4> QED
        BY <4>3, <4>4
    <3> QED
      BY <1>4, <3>3 DEF DiskOK
  <2>5. delivered' \in [Sender -> Nat] /\ rcv.conn # << >>
    BY <1>1, <2>2 DEF TunnelInv, TypeOK
  <2> QED
    BY <1>4, <2>2, <2>4, <2>5, HangupOK
<1> QED
  BY <1>9, <1>10

\* What RecvDone answers and counts: only a session about its sender's archive
\* has the receiver's own Ack.
LEMMA RecvDoneCounts ==
  ASSUME TunnelInv, RecvDone
  PROVE  /\ Peer \in Sender /\ rcv.conn = <<Served>> /\ Named \in Resource
         /\ \/ delivered' = delivered
            \/ delivered' = [delivered EXCEPT ![Peer] = delivered[Peer] + 1]
         /\ \E replies :
              /\ Hangup(replies)
              /\ \/ replies = << >>
                 \/ replies = <<Signal("unpack_error")>>
                 \/ replies = <<Answer("ack", 0, "bridge")>>
                 \/ /\ replies = <<Answer("ack", 0, "receiver")>>
                    /\ delivered' = [delivered EXCEPT ![Peer] = delivered[Peer] + 1]
<1>1. rcv.conn = <<Served>> /\ Peer \in Sender /\ Named \in Resource
  <2>1. rcv.pc = "body" /\ Named \in Resource
    BY OpensFacts DEF RecvDone
  <2> QED
    BY <2>1, ServedFacts
<1>2. delivered \in [Sender -> Nat]
  BY DEF TunnelInv, TypeOK
<1> DEFINE verdict == CompletePartial(disk[Named], Named)
           ack == Answer("ack", 0, IF Straight THEN "receiver" ELSE "bridge")
<1>3. PICK unpacked \in BOOLEAN :
        /\ delivered' = [delivered EXCEPT ![Peer] =
             @ + IF unpacked /\ verdict = "whole" /\ Straight THEN 1 ELSE 0]
        /\ Hangup(IF verdict # "whole" THEN << >>
                  ELSE IF unpacked THEN <<ack>> ELSE <<Signal("unpack_error")>>)
  BY DEF RecvDone
<1> HIDE DEF verdict
<1>4. CASE unpacked /\ verdict = "whole" /\ Straight
  <2>1. delivered' = [delivered EXCEPT ![Peer] = delivered[Peer] + 1]
    BY <1>3, <1>4
  <2>2. Hangup(<<Answer("ack", 0, "receiver")>>)
    BY <1>3, <1>4
  <2> QED
    BY <1>1, <2>1, <2>2
<1>5. CASE ~(unpacked /\ verdict = "whole" /\ Straight)
  <2>1. delivered' = [delivered EXCEPT ![Peer] = delivered[Peer] + 0]
    BY <1>3, <1>5
  <2>2. delivered' = delivered
    BY <1>1, <1>2, <2>1
  <2>3. \/ Hangup(<< >>) \/ Hangup(<<Signal("unpack_error")>>)
        \/ Hangup(<<Answer("ack", 0, "bridge")>>)
    BY <1>3, <1>5
  <2> QED
    BY <1>1, <2>2, <2>3
<1> QED
  BY <1>4, <1>5

\* Done: the part file goes, whether it was the archive or not.
LEMMA RecvDoneOK ==
  ASSUME TunnelInv, RecvDone
  PROVE  TunnelInv'
<1>1. Peer \in Sender /\ Named \in Resource /\ rcv.conn # << >>
  BY RecvDoneCounts
<1>2. ReceiverLeavesRest /\ backlog' = backlog
      /\ (disk' = disk \/ disk' = [disk EXCEPT ![Named] = RemovePartial(@)])
      /\ spoiled' = {r \in spoiled : disk'[r].part # << >>}
  BY DEF RecvDone
<1>3. disk \in [Resource -> Dir] /\ DiskOK /\ delivered \in [Sender -> Nat] /\ spoiled \subseteq Resource
  BY DEF TunnelInv, TypeOK
<1>4. delivered' \in [Sender -> Nat]
  <2>1. PICK more \in Nat : more = delivered[Peer] + 1
    BY <1>1, <1>3
  <2>2. delivered' = delivered \/ delivered' = [delivered EXCEPT ![Peer] = more]
    BY <2>1, RecvDoneCounts
  <2> QED
    BY <1>3, <2>2
<1>5. /\ disk' \in [Resource -> Dir]
      /\ \A q \in Resource : DirOK(disk'[q]) /\ (q \notin spoiled => IsIntact(disk'[q].part, q))
  <2>1. \A q \in Resource : DirOK(disk[q]) /\ (q \notin spoiled => IsIntact(disk[q].part, q))
    BY <1>3 DEF DiskOK
  <2>2. CASE disk' = disk
    BY <1>3, <2>1, <2>2
  <2>3. CASE disk' = [disk EXCEPT ![Named] = RemovePartial(@)]
    <3>1. PICK d : d = RemovePartial(disk[Named])
      OBVIOUS
    <3>2. DirOK(d) /\ d.part = << >>
      BY <1>1, <2>1, <3>1, RemovePartialOK
    <3>3. IsIntact(d.part, Named)
      BY <1>1, <3>2, EmptyIntact
    <3>4. disk' = [disk EXCEPT ![Named] = d]
      BY <2>3, <3>1
    <3>5. PICK r, bad : r = Named /\ bad = spoiled
      OBVIOUS
    <3>6. r \notin bad => IsIntact(d.part, r)
      BY <3>3, <3>5
    <3>7. \A q \in Resource : DirOK(disk[q]) /\ (q \notin bad => IsIntact(disk[q].part, q))
      BY <2>1, <3>5
    <3>8. PICK ds : ds = disk
      OBVIOUS
    <3>9. ds \in [Resource -> Dir] /\ r \in Resource /\ DirOK(d) /\ bad \subseteq bad
          /\ \A q \in Resource : DirOK(ds[q]) /\ (q \notin bad => IsIntact(ds[q].part, q))
      BY <1>1, <1>3, <3>2, <3>5, <3>7, <3>8
    <3>10. /\ [ds EXCEPT ![r] = d] \in [Resource -> Dir]
           /\ \A q \in Resource : /\ DirOK([ds EXCEPT ![r] = d][q])
                                  /\ q \notin bad => IsIntact([ds EXCEPT ![r] = d][q].part, q)
      BY <3>6, <3>9, AppendDiskOK
    <3>11. disk' = [ds EXCEPT ![r] = d]
      BY <3>4, <3>5, <3>8
    <3> QED
      BY <3>5, <3>10, <3>11
  <2> QED
    BY <1>2, <2>2, <2>3
<1>6. DiskOK' /\ spoiled' \subseteq Resource
  <2>1. \A q \in Resource : q \notin spoiled' => q \notin spoiled \/ disk'[q].part = << >>
    BY <1>2
  <2>2. \A q \in Resource : disk'[q].part = << >> => IsIntact(disk'[q].part, q)
    BY EmptyIntact
  <2> QED
    BY <1>2, <1>3, <1>5, <2>1, <2>2 DEF DiskOK
<1>7. PICK replies :
        /\ Hangup(replies)
        /\ \/ replies = << >>
           \/ \E type \in {"version_error", "unpack_error"} : replies = <<Signal(type)>>
           \/ \E by \in Word : replies = <<Answer("ack", 0, by)>>
  BY RecvDoneCounts DEF Word
<1> QED
  BY <1>1, <1>2, <1>4, <1>5, <1>6, <1>7, HangupOK

\* Every step of the receiver.
LEMMA ReceiverStepOK ==
  ASSUME TunnelInv, ReceiverStep
  PROVE  TunnelInv'
  BY AcceptOK, UpgradeOK, RejectIntroOK, RecvClientIntroOK, RecvClientFinishOK, RecvHeaderOK,
     RecvChunkOK, RecvDoneOK, ReceiverErrorOK, ServerControlOK
  DEF ReceiverStep

-------------------------------------------------------------------------------
(* The steps of the helper and of the bridge. *)

\* What the bridge makes of the frames for the receiver is what may be there.
LEMMA TamperedLink ==
  ASSUME TunnelInv, NEW c \in Conn, NEW kind \in TamperKinds,
         NEW q \in Tampered(kind, conn[c].c2s)
  PROVE  q \in Seq(Requests(c))
<1>1. PICK R : R = Requests(c)
  OBVIOUS
<1>2. PICK queue : queue = conn[c].c2s
  OBVIOUS
<1>3. queue \in Seq(R)
  BY <1>1, <1>2 DEF TunnelInv, LinkOK, LinkType
<1>4. [type |-> "ping", at |-> 0] \in R /\ [type |-> "text", at |-> 0] \in R
  BY <1>1, SignalOK DEF Signal
<1>5. \A f \in R : f.type = "secure" => [f EXCEPT !.tag = "bad"] \in R
  <2> SUFFICES ASSUME NEW f \in R, f.type = "secure"
               PROVE  [f EXCEPT !.tag = "bad"] \in R
    OBVIOUS
  <2>1. f \in Sealed(KeyOf(c), Offered(c), SizeOf(c))
    BY <1>1, FrameTypes
  <2>2. [f EXCEPT !.tag = "bad"] \in Sealed(KeyOf(c), Offered(c), SizeOf(c))
    BY <2>1, DamagedSealed
  <2> QED
    BY <1>1, <2>2 DEF Requests
<1>6. \A f \in R : f.type = "client_intro" =>
        \A intro \in Rewritten(f.intro) : [f EXCEPT !.intro = intro] \in R
  <2> SUFFICES ASSUME NEW f \in R, f.type = "client_intro", NEW intro \in Rewritten(f.intro)
               PROVE  [f EXCEPT !.intro = intro] \in R
    OBVIOUS
  <2>1. f \in IntroFrame
    BY <1>1, FrameTypes
  <2>2. f.intro \in Intros
    BY <2>1 DEF IntroFrame
  <2>3. intro \in Intros
    <3>1. PICK name \in {f.intro.name, Ours.name, NoName}, version \in {f.intro.version, Ours.version},
               resource \in Resource : intro = Intro(name, version, resource)
      BY DEF Rewritten
    <3>2. name \in Names /\ version \in Versions
      BY <2>2, <3>1 DEF Intros, Names, Versions
    <3> QED
      BY <3>1, <3>2 DEF Intro, Intros
  <2>4. [f EXCEPT !.intro = intro] \in IntroFrame
    BY <2>1, <2>3 DEF IntroFrame
  <2> QED
    BY <1>1, <2>4 DEF Requests, PlainFrame
<1>7. q \in Tampered(kind, queue)
  BY <1>2
<1> QED
  BY <1>1, <1>3, <1>4, <1>5, <1>6, <1>7, TamperedOK

\* The answers the bridge makes up are its word: they may hold anything, and
\* none is an acknowledgement of the receiver's.
LEMMA MadeUpOK ==
  ASSUME NEW c \in Conn, NEW server, NEW f \in MadeUp(c[1])
  PROVE  f \in Answers(c, server) /\ f \in NoAck
<1>1. SizeOf(c) \in Nat /\ SizeOf(c) = Size[ResourceOf[c[1]]]
  BY StoreAssumption, TunnelAssumption DEF Conn, SizeOf
<1>2. CASE \E at \in 0..SizeOf(c) + 1 : f = Answer("server_intro", at, "bridge")
  <2>1. PICK at \in 0..SizeOf(c) + 1 : f = Answer("server_intro", at, "bridge")
    BY <1>2
  <2>2. at \in Nat
    BY <1>1
  <2>3. f \in AnswerFrame /\ f.by = "bridge"
    BY <2>1, <2>2 DEF Answer, AnswerFrame, Word
  <2> QED
    BY <2>3 DEF Answers, PlainFrame, NoAck, IsAck
<1>3. CASE f = Answer("ack", 0, "bridge")
  <2>1. f \in AnswerFrame /\ f.by = "bridge"
    BY <1>3 DEF Answer, AnswerFrame, Word
  <2> QED
    BY <2>1 DEF Answers, PlainFrame, NoAck, IsAck
<1>4. CASE f = Signal("unpack_error")
  <2>1. f \in SignalFrame /\ f.type = "unpack_error"
    BY <1>4 DEF Signal, SignalFrame
  <2> QED
    BY <2>1 DEF Answers, PlainFrame, NoAck, IsAck
<1> QED
  BY <1>1, <1>2, <1>3, <1>4 DEF MadeUp

\* What the bridge puts into a queue of frames towards a sender.
LEMMA InterjectedOK ==
  ASSUME NEW S, NEW s, Signal("ping") \in S, Signal("text") \in S, MadeUp(s) \subseteq S,
         NEW queue \in Seq(S), NEW kind \in {"control", "text", "altered"},
         NEW q \in Interjected(s, kind, queue)
  PROVE  q \in Seq(S)
<1>1. CASE kind = "control"
  BY <1>1 DEF Interjected
<1>2. CASE kind = "text"
  BY <1>2 DEF Interjected
<1>3. CASE kind = "altered"
  <2> DEFINE put(frame) == {queue \o <<frame>>}
                            \cup {[queue EXCEPT ![i] = frame] : i \in 1..Len(queue)}
  <2>1. q \in UNION {put(frame) : frame \in MadeUp(s)}
    BY <1>3 DEF Interjected
  <2>2. PICK frame \in MadeUp(s) : q \in put(frame)
    BY <2>1
  <2>3. frame \in S
    OBVIOUS
  <2>4. CASE q = queue \o <<frame>>
    BY <2>3, <2>4
  <2>5. ASSUME NEW i \in 1..Len(queue), q = [queue EXCEPT ![i] = frame]
        PROVE  q \in Seq(S)
    BY <2>3, <2>5
  <2> QED
    BY <2>2, <2>4, <2>5
<1> QED
  BY <1>1, <1>2, <1>3

\* What the bridge makes of the frames for a sender is what may be there.
LEMMA InterjectedLink ==
  ASSUME TunnelInv, NEW c \in Conn, NEW kind \in {"control", "text", "altered"},
         NEW q \in Interjected(c[1], kind, conn[c].s2c)
  PROVE  q \in Seq(Answers(c, conn[c].server))
<1>1. PICK A, queue, s : A = Answers(c, conn[c].server) /\ queue = conn[c].s2c /\ s = c[1]
  OBVIOUS
<1>2. queue \in Seq(A)
  BY <1>1 DEF TunnelInv, LinkOK, LinkType
<1>3. Signal("ping") \in A /\ Signal("text") \in A
  BY <1>1, SignalOK
<1>4. MadeUp(s) \subseteq A
  BY <1>1, MadeUpOK
<1>5. q \in Interjected(s, kind, queue)
  BY <1>1
<1> QED
  BY <1>1, <1>2, <1>3, <1>4, <1>5, InterjectedOK

\* The bridge's steps, and those of the helper behind it.
LEMMA BridgeStepOK ==
  ASSUME TunnelInv, BridgeStep \/ HelperStarts
  PROVE  TunnelInv'
<1>1. /\ DOMAIN conn = Conn /\ (\A c \in Conn : LinkOK(conn[c], c))
      /\ helper \in {"starting", "up", "dead", "failed"} /\ faults \in 0..MaxFaults
  BY DEF TunnelInv, TypeOK
<1>2. ASSUME NEW kind, Fault(kind)
      PROVE  faults' \in 0..MaxFaults
  BY <1>1, <1>2, TunnelAssumption DEF Fault
<1>3. CASE HelperStarts
  <2>1. faults' \in 0..MaxFaults
    BY <1>1, <1>2, <1>3 DEF HelperStarts
  <2>2. /\ helper' \in {"starting", "up", "dead", "failed"}
        /\ snd' = snd /\ disk' = disk /\ rcv' = rcv /\ delivered' = delivered
        /\ backlog' = backlog /\ spoiled' = spoiled /\ conn' = conn
    BY <1>3 DEF HelperStarts
  <2> QED
    BY <1>1, <2>1, <2>2, BridgeRule
<1>4. CASE HelperDies
  <2>1. faults' \in 0..MaxFaults
    BY <1>2, <1>4 DEF HelperDies
  <2>2. /\ helper' \in {"starting", "up", "dead", "failed"}
        /\ snd' = snd /\ disk' = disk /\ rcv' = rcv /\ delivered' = delivered
        /\ backlog' = backlog /\ spoiled' = spoiled /\ DOMAIN conn' = Conn /\ \A c \in Conn : conn'[c] = Cut(conn[c])
    BY <1>4 DEF HelperDies
  <2>3. \A c \in Conn : LinkOK(conn'[c], c) /\ conn'[c].server = conn[c].server
    BY <1>1, <2>2, CutOK DEF LinkOK
  <2> QED
    BY <2>1, <2>2, <2>3, BridgeRule
<1>5. ASSUME NEW c \in Conn, NEW k, LinkOK(k, c), k.server = conn[c].server,
             conn' = [conn EXCEPT ![c] = k], NEW kind, Fault(kind),
             UNCHANGED <<helper, disk, snd, backlog, rcv, delivered, spoiled>>
      PROVE  TunnelInv'
  <2>1. faults' \in 0..MaxFaults
    BY <1>2, <1>5
  <2>2. DOMAIN conn' = Conn
        /\ \A d \in Conn : LinkOK(conn'[d], d) /\ conn'[d].server = conn[d].server
    BY <1>1, <1>5
  <2> QED
    BY <1>1, <1>5, <2>1, <2>2, BridgeRule
<1>6. ASSUME NEW c \in Conn, Break(c)
      PROVE  TunnelInv'
  <2> DEFINE none == << >>
             stalled == [conn[c] EXCEPT !.bridge = "stalled", !.c2s = none, !.s2c = none]
  <2>1. conn[c] \in LinkType(Requests(c), Answers(c, conn[c].server))
    BY <1>1 DEF LinkOK
  <2>2. LinkOK(Cut(conn[c]), c) /\ Cut(conn[c]).server = conn[c].server
    BY <2>1, CutOK DEF LinkOK
  <2>3. LinkOK(stalled, c) /\ stalled.server = conn[c].server
    <3>1. \A S : none \in Seq(S)
      OBVIOUS
    <3> HIDE DEF none
    <3> QED
      BY <2>1, <3>1 DEF LinkOK, LinkType
  <2>4. PICK k \in {Cut(conn[c]), stalled}, kind \in {"cut", "stall"} :
          Fault(kind) /\ conn' = [conn EXCEPT ![c] = k]
    BY <1>6 DEF Break
  <2>5. UNCHANGED <<helper, disk, snd, backlog, rcv, delivered, spoiled>>
    BY <1>6 DEF Break
  <2> HIDE DEF stalled
  <2>6. LinkOK(k, c) /\ k.server = conn[c].server
    BY <2>2, <2>3, <2>4
  <2> QED
    BY <2>4, <2>5, <2>6, <1>5
<1>7. ASSUME NEW c \in Conn, NEW kind \in TamperKinds, Tamper(c, kind)
      PROVE  TunnelInv'
  <2>1. PICK queue \in Tampered(kind, conn[c].c2s) : conn' = [conn EXCEPT ![c].c2s = queue]
    BY <1>7 DEF Tamper
  <2>2. conn[c] \in LinkType(Requests(c), Answers(c, conn[c].server)) /\ queue \in Seq(Requests(c))
    BY <1>1, <2>1, TamperedLink DEF LinkOK
  <2> DEFINE k == [conn[c] EXCEPT !.c2s = queue]
  <2>3. k \in LinkType(Requests(c), Answers(c, conn[c].server)) /\ k.server = conn[c].server
    BY <2>2, NewRequests
  <2>4. conn' = [conn EXCEPT ![c] = k]
    BY <2>1
  <2>5. Fault(kind) /\ UNCHANGED <<helper, disk, snd, backlog, rcv, delivered, spoiled>>
    BY <1>7 DEF Tamper
  <2> HIDE DEF k
  <2>6. LinkOK(k, c)
    BY <2>3 DEF LinkOK
  <2> QED
    BY <2>3, <2>4, <2>5, <2>6, <1>5
<1>8. ASSUME NEW c \in Conn, NEW kind \in {"control", "text", "altered"}, Interject(c, kind)
      PROVE  TunnelInv'
  <2>1. PICK queue \in Interjected(c[1], kind, conn[c].s2c) : conn' = [conn EXCEPT ![c].s2c = queue]
    BY <1>8 DEF Interject
  <2>2. conn[c] \in LinkType(Requests(c), Answers(c, conn[c].server))
        /\ queue \in Seq(Answers(c, conn[c].server))
    BY <1>1, <2>1, InterjectedLink DEF LinkOK
  <2> DEFINE k == [conn[c] EXCEPT !.s2c = queue]
  <2>3. k \in LinkType(Requests(c), Answers(c, conn[c].server)) /\ k.server = conn[c].server
    BY <2>2, NewAnswers
  <2>4. conn' = [conn EXCEPT ![c] = k]
    BY <2>1
  <2>5. Fault(kind) /\ UNCHANGED <<helper, disk, snd, backlog, rcv, delivered, spoiled>>
    BY <1>8 DEF Interject
  <2> HIDE DEF k
  <2>6. LinkOK(k, c)
    BY <2>3 DEF LinkOK
  <2> QED
    BY <2>3, <2>4, <2>5, <2>6, <1>5
<1> QED
  BY <1>3, <1>4, <1>6, <1>7, <1>8 DEF BridgeStep

-------------------------------------------------------------------------------
(* The invariant and what follows from it. *)

\* Nothing is sent yet.
LEMMA InitInv == Init => TunnelInv
<1> SUFFICES ASSUME Init PROVE TunnelInv
  OBVIOUS
<1>1. PICK terms \in TermsChoices :
        snd = [s \in Sender |-> [terms |-> terms[s], pc |-> "idle", tries |-> 0,
                                 pos |-> 0, sequence |-> 0, by |-> "receiver"]]
  BY DEF Init
<1>2. \A s \in Sender : snd[s] \in SenderState /\ snd[s].pc = "idle"
                        /\ snd[s].tries = 0 /\ snd[s].sequence = 0
  <2> SUFFICES ASSUME NEW s \in Sender
               PROVE  snd[s] \in SenderState /\ snd[s].pc = "idle"
                      /\ snd[s].tries = 0 /\ snd[s].sequence = 0
    OBVIOUS
  <2> DEFINE T == UNION {{f[t] : t \in Sender} : f \in TermsChoices}
  <2>1. terms[s] \in T
    OBVIOUS
  <2>2. SenderState = [terms : T,
                       pc : {"idle", "dialing", "opening", "sending", "waiting",
                             "ok", "fooled", "refused", "exhausted"},
                       tries : 0..MaxAttempts, pos : Nat, sequence : Nat,
                       by : {"receiver", "bridge"}]
    BY DEF SenderState, Word
  <2>3. 0 \in 0..MaxAttempts
    BY TunnelAssumption
  <2> HIDE DEF T
  <2> QED
    BY <1>1, <2>1, <2>2, <2>3
<1>3. snd \in [Sender -> SenderState]
  BY <1>1, <1>2
<1>4. disk \in [Resource -> Dir] /\ DiskOK
  BY EmptyDirOK, EmptyIntact DEF Init, DiskOK, DirOK
<1>5. DOMAIN conn = Conn /\ \A c \in Conn : LinkOK(conn[c], c)
  BY NoConnOK DEF Init, LinkOK
<1>6. rcv \in ReceiverState /\ ReceiverOK
  <2>1. << >> \in Seq(Conn) /\ << >> \in Seq(Accepted)
    OBVIOUS
  <2> QED
    BY <2>1 DEF Init, AtListener, ReceiverState, ReceiverOK, InSession
<1>7. TypeOK
  BY <1>3, <1>4, <1>5, <1>6, TunnelAssumption DEF Init, TypeOK
<1>8. \A s \in Sender : SenderOK(snd[s], conn[<<s, snd[s].tries>>], <<s, snd[s].tries>>)
  BY <1>2, TunnelAssumption DEF SenderOK, InAttempt, SizeOf
<1> QED
  BY <1>4, <1>5, <1>6, <1>7, <1>8 DEF TunnelInv

\* Every step keeps the invariant.
LEMMA NextInv == TunnelInv /\ [Next]_vars => TunnelInv'
<1> SUFFICES ASSUME TunnelInv, [Next]_vars PROVE TunnelInv'
  OBVIOUS
<1>1. CASE UNCHANGED vars
  <2>1. /\ helper' = helper /\ disk' = disk /\ snd' = snd /\ conn' = conn /\ backlog' = backlog
        /\ rcv' = rcv /\ delivered' = delivered /\ spoiled' = spoiled /\ faults' = faults
    BY <1>1 DEF vars
  <2>2. TypeOK' /\ DiskOK'
    BY <2>1 DEF TunnelInv, TypeOK, DiskOK
  <2>3. ReceiverOK'
    BY <2>1 DEF TunnelInv, ReceiverOK, Peer, Served, Named
  <2>4. Base' = Base /\ \A c : Serving(c)' = Serving(c) /\ Offered(c)' = Offered(c) /\ KeyOf(c)' = KeyOf(c)
    BY <2>1 DEF Base, Serving, Offered, KeyOf
  <2>5. \A c \in Conn : LinkOK(conn[c], c)'
    BY <2>1, <2>4 DEF TunnelInv, LinkOK, Requests, Answers, SizeOf
  <2>6. \A s \in Sender : SenderOK(snd[s], conn[<<s, snd[s].tries>>], <<s, snd[s].tries>>)'
    BY <2>1, <2>4 DEF TunnelInv, SenderOK, SizeOf
  <2> QED
    BY <2>2, <2>3, <2>5, <2>6 DEF TunnelInv
<1> QED
  BY <1>1, SenderStepOK, ReceiverStepOK, BridgeStepOK DEF Next, Finished

\* TunnelInv holds in every state, whatever the bridge does to the sealed
\* frames and whichever intros, offsets, acknowledgements and errors it writes:
\* the queues and both ends of a session agree, and the part files with them
\* where the bridge wrote neither the offset nor the descriptor.
THEOREM Invariant == Spec => []TunnelInv
<1> QED
  BY InitInv, NextInv, PTL DEF Spec

\* Whatever the bridge loses, repeats, swaps or damages, and whatever it writes
\* into intros, acknowledgements and errors: the bytes in a part file are the
\* archive's, in place, over all the sessions that resumed it, unless the
\* bridge wrote the offset or the descriptor of one of them (a spoiled partial).
THEOREM PartFilesAreArchives == Spec => []PartIsArchive
<1>1. TunnelInv => PartIsArchive
  BY DEF TunnelInv, DiskOK, PartIsArchive
<1> QED
  BY <1>1, Invariant, PTL

\* The receiver takes archive bytes only from a sender that has its code and
\* meant its name, its route and its version, whatever intro the bridge made of
\* the sender's.
THEOREM OnlyAgreedPeersSend == Spec => []OnlyAgreedPeers
<1>1. TunnelInv => OnlyAgreedPeers
  BY DEF TunnelInv, ReceiverOK, InSession, OnlyAgreedPeers
<1> QED
  BY <1>1, Invariant, PTL

-------------------------------------------------------------------------------
(* The refinement of Delivery. *)

\* The connections the receiver serves or will serve, in order.
Queue == rcv.conn \o backlog

\* An acknowledgement for a connection: its archive was unpacked, and what is
\* still in line is a later attempt.
AckedOK(c) ==
  /\ c[2] <= snd[c[1]].tries
  /\ delivered[c[1]] > 0
  /\ \A i \in 1..Len(Queue) : Queue[i][1] = c[1] => c[2] < Queue[i][2]

\* The attempts of a sender are served in order, so that an acknowledgement
\* for its last one leaves none that could be unpacked again.
OrderInv ==
  /\ \A i, j \in 1..Len(Queue) :
       i < j /\ Queue[i][1] = Queue[j][1] => Queue[i][2] < Queue[j][2]
  /\ \A i \in 1..Len(Queue) : Queue[i][2] <= snd[Queue[i][1]].tries
  /\ \A c \in Conn : conn[c].s2c \in Seq(NoAck) \/ AckedOK(c)
  /\ \A s \in Sender : snd[s].pc = "ok" =>
       delivered[s] > 0 /\ \A i \in 1..Len(Queue) : Queue[i][1] # s

\* The line of connections.
LEMMA QueueType ==
  ASSUME TunnelInv
  PROVE  Queue \in Seq(Conn) /\ \A i \in 1..Len(Queue) : Queue[i] \in Conn /\ Queue[i][1] \in Sender
<1>1. rcv.conn \in Seq(Conn) /\ backlog \in Seq(Conn)
  BY DEF TunnelInv, TypeOK, ReceiverState
<1>2. Queue \in Seq(Conn)
  BY <1>1 DEF Queue
<1>3. \A i \in 1..Len(Queue) : Queue[i] \in Conn
  BY <1>2
<1> QED
  BY <1>2, <1>3, ConnFacts

\* What a step has to establish that adds nobody to the line.
LEMMA OrderRule ==
  ASSUME TunnelInv, OrderInv,
         Queue' = Queue \/ (Queue # << >> /\ Queue' = Tail(Queue)),
         \A s \in Sender : snd'[s].tries \in Nat /\ snd'[s].tries >= snd[s].tries,
         \A s \in Sender : delivered'[s] \in Nat /\ delivered'[s] >= delivered[s],
         \A c \in Conn : conn[c].s2c \in Seq(NoAck) =>
           \/ conn'[c].s2c \in Seq(NoAck)
           \/ /\ c[2] <= snd[c[1]].tries
              /\ delivered'[c[1]] > 0
              /\ \A i \in 1..Len(Queue') : Queue'[i][1] = c[1] => c[2] < Queue'[i][2],
         \A s \in Sender : snd'[s].pc = "ok" =>
           \/ snd[s].pc = "ok"
           \/ delivered[s] > 0 /\ \A i \in 1..Len(Queue) : Queue[i][1] # s
  PROVE  OrderInv'
<1>1. PICK q, r : q = Queue /\ r = Queue'
  OBVIOUS
<1>2. q \in Seq(Conn) /\ \A i \in 1..Len(q) : q[i][1] \in Sender /\ q[i][2] \in Nat
  BY <1>1, QueueType, ConnFacts
<1>3. PICK k \in {0, 1} : /\ Len(q) \in Nat /\ Len(r) = Len(q) - k
                          /\ \A i \in 1..Len(r) : i + k \in 1..Len(q) /\ r[i] = q[i + k]
  <2>1. CASE r = q
    <3> WITNESS 0 \in {0, 1}
    <3> QED
      BY <1>2, <2>1
  <2>2. CASE q # << >> /\ r = Tail(q)
    <3> WITNESS 1 \in {0, 1}
    <3> QED
      BY <1>2, <2>2
  <2> QED
    BY <1>1, <2>1, <2>2
<1>4. \A s \in Sender : /\ delivered[s] \in Nat /\ snd[s].tries \in Nat
                        /\ snd'[s].tries \in Nat /\ snd'[s].tries >= snd[s].tries
  BY DEF TunnelInv, TypeOK, SenderState
<1>5. \A i, j \in 1..Len(r) : i < j /\ r[i][1] = r[j][1] => r[i][2] < r[j][2]
  <2> SUFFICES ASSUME NEW i \in 1..Len(r), NEW j \in 1..Len(r), i < j, r[i][1] = r[j][1]
               PROVE  r[i][2] < r[j][2]
    OBVIOUS
  <2>1. i + k \in 1..Len(q) /\ j + k \in 1..Len(q) /\ i + k < j + k
        /\ r[i] = q[i + k] /\ r[j] = q[j + k]
    <3>1. i \in Nat /\ j \in Nat /\ k \in Nat
      BY <1>3
    <3>2. i + k < j + k
      BY <3>1
    <3> QED
      BY <1>3, <3>2
  <2> QED
    BY <2>1, <1>1 DEF OrderInv
<1>6. \A i \in 1..Len(r) : r[i][2] <= snd'[r[i][1]].tries
  <2> SUFFICES ASSUME NEW i \in 1..Len(r) PROVE r[i][2] <= snd'[r[i][1]].tries
    OBVIOUS
  <2>1. i + k \in 1..Len(q) /\ r[i] = q[i + k]
    BY <1>3
  <2>2. r[i][2] <= snd[r[i][1]].tries /\ r[i][1] \in Sender /\ r[i][2] \in Nat
    BY <2>1, <1>1, <1>2 DEF OrderInv
  <2> QED
    BY <2>2, <1>4
<1>7. ASSUME NEW c \in Conn, conn'[c].s2c \notin Seq(NoAck)
      PROVE  AckedOK(c)'
  <2>1. c[1] \in Sender /\ c[2] \in Nat
    BY ConnFacts
  <2>2. CASE conn[c].s2c \in Seq(NoAck)
    <3>1. /\ c[2] <= snd[c[1]].tries
          /\ delivered'[c[1]] > 0
          /\ \A i \in 1..Len(r) : r[i][1] = c[1] => c[2] < r[i][2]
      BY <1>1, <1>7, <2>2
    <3>2. c[2] <= snd'[c[1]].tries
      BY <1>4, <2>1, <3>1
    <3> QED
      BY <1>1, <3>1, <3>2 DEF AckedOK
  <2>3. CASE AckedOK(c)
    <3>1. c[2] <= snd'[c[1]].tries /\ delivered'[c[1]] > 0
      BY <1>4, <2>1, <2>3 DEF AckedOK
    <3>2. \A i \in 1..Len(r) : r[i][1] = c[1] => c[2] < r[i][2]
      BY <1>1, <1>3, <2>3 DEF AckedOK
    <3> QED
      BY <1>1, <3>1, <3>2 DEF AckedOK
  <2> QED
    BY <2>2, <2>3 DEF OrderInv
<1>8. ASSUME NEW s \in Sender, snd'[s].pc = "ok"
      PROVE  delivered'[s] > 0 /\ \A i \in 1..Len(r) : r[i][1] # s
  <2>1. delivered[s] > 0 /\ \A i \in 1..Len(q) : q[i][1] # s
    BY <1>1, <1>8 DEF OrderInv
  <2> QED
    BY <1>3, <1>4, <2>1
<1> QED
  BY <1>1, <1>5, <1>6, <1>7, <1>8 DEF OrderInv

\* A connection without an acknowledgement.
LEMMA Quiet ==
  ASSUME TunnelInv, NEW c \in Conn, conn[c].s2c \in Seq(NoAck)
  PROVE  conn[c] \in LinkType(Requests(c), NoAck)
<1>1. conn[c] \in LinkType(Requests(c), Answers(c, conn[c].server))
  BY DEF TunnelInv, LinkOK
<1> QED
  BY <1>1 DEF LinkType

\* Reads and writes that keep it so.
LEMMA QuietSteps ==
  ASSUME NEW R, NEW k \in LinkType(R, NoAck)
  PROVE  /\ CloseClient(k).s2c \in Seq(NoAck)
         /\ CloseServer(k).s2c \in Seq(NoAck)
         /\ Cut(k).s2c \in Seq(NoAck)
         /\ \A frames : ToServer(k, frames).s2c \in Seq(NoAck)
         /\ Consumed(k).s2c \in Seq(NoAck)
         /\ k.s2c # << >> => Answered(k).s2c \in Seq(NoAck)
<1>1. k.s2c \in Seq(NoAck)
  BY DEF LinkType
<1>2. CloseClient(k) \in LinkType(R, NoAck)
  BY CloseClientOK
<1>3. CloseServer(k) \in LinkType(R, NoAck)
  BY CloseServerOK
<1>4. Cut(k) \in LinkType(R, NoAck)
  BY CutOK
<1>5. \A frames : ToServer(k, frames).s2c = k.s2c
  BY DEF ToServer, LinkType
<1>6. Consumed(k).s2c = k.s2c
  BY DEF Consumed, LinkType
<1>7. k.s2c # << >> => Answered(k) \in LinkType(R, NoAck)
  BY ReadOK
<1> QED
  BY <1>1, <1>2, <1>3, <1>4, <1>5, <1>6, <1>7 DEF LinkType

\* The receiver's acknowledgement is there to be read.
AckArrived(s) == Arrived(Link(s).s2c, "ack") /\ Head(Link(s).s2c).by = "receiver"

\* A step of a sender within an attempt, or at its end.
LEMMA SenderOrder ==
  ASSUME TunnelInv, TunnelInv', OrderInv, NEW s \in Sender, snd[s].pc \in InAttempt,
         NEW next, next.tries = snd[s].tries, snd' = [snd EXCEPT ![s] = next],
         next.pc = "ok" => AckArrived(s),
         NEW k, conn' = [conn EXCEPT ![Attempt(s)] = k],
         Link(s) \in LinkType(Requests(Attempt(s)), NoAck) => k.s2c \in Seq(NoAck),
         SenderLeavesRest
  PROVE  OrderInv'
<1>1. PICK c \in Conn : c = Attempt(s) /\ Link(s) = conn[c] /\ c = <<s, snd[s].tries>>
  BY SenderFacts DEF Attempt, Link
<1>2. Queue' = Queue /\ delivered' = delivered
  BY DEF Queue, SenderLeavesRest
<1>3. /\ DOMAIN conn = Conn /\ snd \in [Sender -> SenderState] /\ delivered \in [Sender -> Nat]
      /\ \A t \in Sender : snd[t].tries \in Nat
  <2>1. snd \in [Sender -> SenderState]
    BY DEF TunnelInv, TypeOK
  <2>2. \A t \in Sender : snd[t].tries \in Nat
    BY <2>1, TunnelAssumption DEF SenderState
  <2> QED
    BY <2>1, <2>2 DEF TunnelInv, TypeOK
<1>4. \A t \in Sender : snd'[t] = IF t = s THEN next ELSE snd[t]
  BY <1>3
<1>5. \A d \in Conn : conn'[d] = IF d = c THEN k ELSE conn[d]
  BY <1>1, <1>3
<1>6. \A t \in Sender : snd'[t].tries \in Nat /\ snd'[t].tries >= snd[t].tries
  BY <1>3, <1>4
<1>7. \A d \in Conn : conn[d].s2c \in Seq(NoAck) => conn'[d].s2c \in Seq(NoAck)
  BY <1>1, <1>5, Quiet
<1>8. ASSUME next.pc = "ok"
      PROVE  delivered[s] > 0 /\ \A i \in 1..Len(Queue) : Queue[i][1] # s
  <2>1. conn[c].s2c # << >> /\ IsAck(Head(conn[c].s2c))
    BY <1>1, <1>8 DEF AckArrived, Arrived, IsAck
  <2>2. conn[c].s2c \notin Seq(NoAck)
    BY <2>1 DEF NoAck
  <2>3. AckedOK(c)
    BY <2>2 DEF OrderInv
  <2>4. ASSUME NEW i \in 1..Len(Queue), Queue[i][1] = s
        PROVE  FALSE
    <3>1. snd[s].tries < Queue[i][2]
      BY <1>1, <2>3, <2>4 DEF AckedOK
    <3>2. Queue[i][2] <= snd[s].tries
      BY <2>4 DEF OrderInv
    <3>3. Queue[i][2] \in Nat
      BY QueueType, ConnFacts
    <3> QED
      BY <1>3, <3>1, <3>2, <3>3
  <2> QED
    BY <1>1, <2>3, <2>4 DEF AckedOK
<1>9. \A t \in Sender : snd'[t].pc = "ok" =>
        snd[t].pc = "ok" \/ (delivered[t] > 0 /\ \A i \in 1..Len(Queue) : Queue[i][1] # t)
  BY <1>4, <1>8
<1>10. \A t \in Sender : delivered'[t] \in Nat /\ delivered'[t] >= delivered[t]
  BY <1>2, <1>3
<1> QED
  BY <1>2, <1>6, <1>7, <1>9, <1>10, OrderRule

\* The end of an attempt: only an acknowledgement ends it well.
LEMMA EndAttemptOrder ==
  ASSUME TunnelInv, TunnelInv', OrderInv, NEW s \in Sender, snd[s].pc \in InAttempt,
         NEW next, next.tries = snd[s].tries, EndAttempt(s, next),
         next.pc = "ok" => AckArrived(s),
         SenderLeavesRest
  PROVE  OrderInv'
<1>1. PICK k : k = CloseClient(Link(s))
  OBVIOUS
<1>2. snd' = [snd EXCEPT ![s] = next] /\ conn' = [conn EXCEPT ![Attempt(s)] = k]
  BY <1>1 DEF EndAttempt, Link
<1>3. Link(s) \in LinkType(Requests(Attempt(s)), NoAck) => k.s2c \in Seq(NoAck)
  BY <1>1, QuietSteps
<1> QED
  BY <1>2, <1>3, SenderOrder

\* ... and a failure is not one.
LEMMA FailedAttemptOrder ==
  ASSUME TunnelInv, TunnelInv', OrderInv, NEW s \in Sender, snd[s].pc \in InAttempt,
         \E fatal \in BOOLEAN : EndAttempt(s, After(s, fatal)), SenderLeavesRest
  PROVE  OrderInv'
<1>1. PICK fatal \in BOOLEAN : EndAttempt(s, After(s, fatal))
  OBVIOUS
<1>2. After(s, fatal).tries = snd[s].tries
  BY AfterOK
<1>3. After(s, fatal).pc # "ok"
  BY AfterOK
<1> QED
  BY <1>1, <1>2, <1>3, EndAttemptOrder

\* A dial joins the end of the line, later than anything of its sender.
LEMMA DialOrder ==
  ASSUME TunnelInv, OrderInv, NEW s \in Sender, Dial(s)
  PROVE  OrderInv'
<1> DEFINE n == snd[s].tries + 1
<1>1. PICK c : c = <<s, n>>
  OBVIOUS
<1>2. /\ DOMAIN conn = Conn /\ snd \in [Sender -> SenderState]
      /\ rcv.conn \in Seq(Conn) /\ backlog \in Seq(Conn) /\ snd[s].tries \in Nat
      /\ c \in Conn
  <2>1. snd[s].tries \in 0..MaxAttempts - 1
    BY SenderFacts DEF Dial
  <2>2. /\ DOMAIN conn = Conn /\ snd \in [Sender -> SenderState]
        /\ rcv.conn \in Seq(Conn) /\ backlog \in Seq(Conn)
    BY DEF TunnelInv, TypeOK, ReceiverState
  <2>3. c \in Sender \X (1..MaxAttempts)
    BY <1>1, <2>1, TunnelAssumption
  <2>4. snd[s].tries \in Nat
    BY <2>1, TunnelAssumption
  <2> QED
    BY <2>2, <2>3, <2>4 DEF Conn
<1>3. PICK q, r : q = Queue /\ r = Queue'
  OBVIOUS
<1>4. q \in Seq(Conn) /\ r = Append(q, c)
  <2>1. rcv' = rcv /\ backlog' = Append(backlog, c)
    BY <1>1 DEF Dial
  <2>2. PICK a, b : a = rcv.conn /\ b = backlog
    OBVIOUS
  <2>3. a \in Seq(Conn) /\ b \in Seq(Conn) /\ <<c>> \in Seq(Conn) /\ a \o b \in Seq(Conn)
    BY <1>2, <2>2
  <2>4. Append(b, c) = b \o <<c>> /\ Append(a \o b, c) = (a \o b) \o <<c>>
    BY <1>2, <2>3, AppendIsConcat
  <2>5. a \o Append(b, c) = Append(a \o b, c)
    BY <2>3, <2>4, ConcatAssociative
  <2> QED
    BY <1>3, <2>1, <2>2, <2>3, <2>5 DEF Queue
<1>5. /\ Len(q) \in Nat /\ Len(r) = Len(q) + 1
      /\ \A i \in 1..Len(q) : r[i] = q[i] /\ q[i][1] \in Sender /\ q[i][2] \in Nat
      /\ r[Len(q) + 1] = c
  BY <1>3, <1>4, QueueType, ConnFacts
<1>6. /\ \A t \in Sender : /\ snd'[t].tries = IF t = s THEN n ELSE snd[t].tries
                           /\ snd'[t].pc = IF t = s THEN "dialing" ELSE snd[t].pc
      /\ \A t \in Sender : snd[t].tries \in Nat
      /\ delivered' = delivered
  <2>1. \A t \in Sender : snd[t].tries \in Nat
    BY <1>2, TunnelAssumption DEF SenderState
  <2>2. PICK next : next = [snd[s] EXCEPT !.pc = "dialing", !.tries = n]
    OBVIOUS
  <2>3. next.tries = n /\ next.pc = "dialing"
    <3> HIDE DEF n
    <3> QED
      BY <1>2, <2>2 DEF SenderState
  <2>4. snd' = [snd EXCEPT ![s] = next] /\ delivered' = delivered
    BY <2>2 DEF Dial
  <2>5. \A t \in Sender : snd'[t] = IF t = s THEN next ELSE snd[t]
    BY <1>2, <2>4
  <2> QED
    BY <2>1, <2>3, <2>4, <2>5
<1>7. \A d \in Conn : d # c => conn'[d] = conn[d]
  BY <1>1, <1>2 DEF Dial
<1>8. conn'[c].s2c \in Seq(NoAck)
  BY <1>1, <1>2 DEF Dial
<1>9. \A i \in 1..Len(q) : q[i][1] = s => q[i][2] < n
  <2> SUFFICES ASSUME NEW i \in 1..Len(q), q[i][1] = s
               PROVE  q[i][2] < n
    OBVIOUS
  <2>1. q[i][2] <= snd[s].tries
    BY <1>3 DEF OrderInv
  <2> QED
    BY <1>2, <1>5, <2>1
<1>10. \A i \in 1..Len(r) : r[i] = c \/ (i \in 1..Len(q) /\ r[i] = q[i])
  <2> SUFFICES ASSUME NEW i \in 1..Len(r) PROVE r[i] = c \/ (i \in 1..Len(q) /\ r[i] = q[i])
    OBVIOUS
  <2>1. i = Len(q) + 1 \/ i \in 1..Len(q)
    BY <1>5
  <2> QED
    BY <1>5, <2>1
<1> HIDE DEF n
<1>11. \A i, j \in 1..Len(r) : i < j /\ r[i][1] = r[j][1] => r[i][2] < r[j][2]
  <2>1. \A i \in 1..Len(q) : /\ r[i][1] = s => r[i][2] < n
                             /\ r[i] = q[i]
    BY <1>5, <1>9
  <2>2. r[Len(q) + 1][1] = s /\ r[Len(q) + 1][2] = n
    BY <1>1, <1>5
  <2>3. \A i, j \in 1..Len(q) : i < j /\ r[i][1] = r[j][1] => r[i][2] < r[j][2]
    BY <1>3, <2>1 DEF OrderInv
  <2>4. \A i \in 1..Len(q) : r[i][1] = r[Len(q) + 1][1] => r[i][2] < r[Len(q) + 1][2]
    BY <2>1, <2>2
  <2>5. \A i, j \in 1..Len(r) : i < j => i \in 1..Len(q) /\ (j \in 1..Len(q) \/ j = Len(q) + 1)
    BY <1>5
  <2> QED
    BY <2>3, <2>4, <2>5
<1>12. \A i \in 1..Len(r) : r[i][2] <= snd'[r[i][1]].tries
  <2> SUFFICES ASSUME NEW i \in 1..Len(r) PROVE r[i][2] <= snd'[r[i][1]].tries
    OBVIOUS
  <2>1. CASE r[i] = c
    <3>1. n \in Nat
      BY <1>2 DEF n
    <3> QED
      BY <1>1, <1>6, <2>1, <3>1
  <2>2. CASE i \in 1..Len(q) /\ r[i] = q[i]
    <3>1. q[i][2] <= snd[q[i][1]].tries
      BY <1>3, <2>2 DEF OrderInv
    <3>2. q[i][1] = s => q[i][2] < n
      BY <1>9, <2>2
    <3>3. n \in Nat /\ q[i][2] \in Nat
      BY <1>2, <1>5, <2>2 DEF n
    <3> QED
      BY <1>5, <1>6, <2>2, <3>1, <3>2, <3>3
  <2> QED
    BY <1>10, <2>1, <2>2
<1>13. ASSUME NEW d \in Conn, conn'[d].s2c \notin Seq(NoAck)
       PROVE  AckedOK(d)'
  <2>1. AckedOK(d) /\ d # c
    BY <1>7, <1>8, <1>13 DEF OrderInv
  <2>2. d[1] \in Sender /\ d[2] \in Nat
    BY ConnFacts
  <2>3. d[1] = s => d[2] < n
    BY <1>2, <2>1, <2>2 DEF AckedOK, n
  <2>4. d[2] <= snd'[d[1]].tries
    <3>1. n \in Nat
      BY <1>2 DEF n
    <3> QED
      BY <1>6, <2>1, <2>2, <2>3, <3>1 DEF AckedOK
  <2>5. \A i \in 1..Len(r) : r[i][1] = d[1] => d[2] < r[i][2]
    <3> SUFFICES ASSUME NEW i \in 1..Len(r), r[i][1] = d[1] PROVE d[2] < r[i][2]
      OBVIOUS
    <3>1. CASE r[i] = c
      BY <1>1, <2>3, <3>1
    <3>2. CASE i \in 1..Len(q) /\ r[i] = q[i]
      BY <1>3, <2>1, <3>2 DEF AckedOK
    <3> QED
      BY <1>10, <3>1, <3>2
  <2> QED
    BY <1>3, <1>6, <2>1, <2>4, <2>5 DEF AckedOK
<1>14. ASSUME NEW t \in Sender, snd'[t].pc = "ok"
       PROVE  delivered'[t] > 0 /\ \A i \in 1..Len(r) : r[i][1] # t
  <2>1. t # s /\ snd[t].pc = "ok"
    BY <1>6, <1>14
  <2>2. delivered[t] > 0 /\ \A i \in 1..Len(q) : q[i][1] # t
    BY <1>3, <2>1 DEF OrderInv
  <2> QED
    BY <1>1, <1>6, <1>10, <2>1, <2>2
<1> QED
  BY <1>3, <1>11, <1>12, <1>13, <1>14 DEF OrderInv

\* Every step of a sender keeps the order.
LEMMA SenderStepOrder ==
  ASSUME TunnelInv, TunnelInv', OrderInv, NEW s \in Sender, SenderStep(s) \/ LateAnswer(s)
  PROVE  OrderInv'
<1>1. /\ DOMAIN conn = Conn /\ snd \in [Sender -> SenderState] /\ delivered \in [Sender -> Nat]
      /\ snd[s] \in SenderState
  BY DEF TunnelInv, TypeOK
<1>2. CASE LoginFails(s)
  BY <1>2, FailedAttemptOrder DEF LoginFails, InAttempt
<1>3. CASE RecvVersionError(s)
  BY <1>3, FailedAttemptOrder DEF RecvVersionError, InAttempt
<1>4. CASE RecvUnpackError(s)
  BY <1>4, FailedAttemptOrder DEF RecvUnpackError, InAttempt
<1>5. CASE SenderError(s)
  BY <1>5, FailedAttemptOrder DEF SenderError, InAttempt
<1>6. CASE OpenTimeout(s)
  BY <1>6, FailedAttemptOrder DEF OpenTimeout, InAttempt
<1>7. CASE LateAnswer(s)
  BY <1>7, FailedAttemptOrder DEF LateAnswer, InAttempt
<1>14. CASE RefuseOffset(s)
  BY <1>14, FailedAttemptOrder DEF RefuseOffset, InAttempt
<1>15. CASE UnexpectedFrame(s)
  BY <1>15, FailedAttemptOrder DEF UnexpectedFrame, InAttempt
<1>8. CASE RecvAck(s)
  <2>1. PICK pc \in {"ok", "fooled"} :
          pc = IF Head(Link(s).s2c).by = "receiver" THEN "ok" ELSE "fooled"
    OBVIOUS
  <2>2. PICK next : next = Rest(snd[s], pc)
    OBVIOUS
  <2>3. next.tries = snd[s].tries /\ next.pc = pc
    BY <1>1, <2>2, RestOK
  <2>4. EndAttempt(s, next) /\ SenderLeavesRest /\ snd[s].pc \in InAttempt
        /\ Arrived(Link(s).s2c, "ack")
    BY <1>8, <2>1, <2>2 DEF RecvAck, InAttempt
  <2>5. next.pc = "ok" => AckArrived(s)
    BY <2>1, <2>3, <2>4 DEF AckArrived
  <2> QED
    BY <2>3, <2>4, <2>5, EndAttemptOrder
<1>9. CASE DialFails(s)
  <2>1. Queue' = Queue /\ delivered' = delivered /\ conn' = conn
    BY <1>9 DEF DialFails, SenderLeavesRest, Queue
  <2> DEFINE pc == IF snd[s].tries + 1 = MaxAttempts THEN "exhausted" ELSE "idle"
             n == snd[s].tries + 1
  <2>2. PICK next : next = [snd[s] EXCEPT !.pc = pc, !.tries = n]
    OBVIOUS
  <2>3. next.tries = n /\ next.pc = pc
    <3> HIDE DEF n, pc
    <3> QED
      BY <1>1, <2>2 DEF SenderState
  <2>4. snd' = [snd EXCEPT ![s] = next]
    BY <1>9, <2>2 DEF DialFails
  <2>5. \A t \in Sender : snd'[t] = IF t = s THEN next ELSE snd[t]
    BY <1>1, <2>4
  <2>6. \A t \in Sender : snd[t].tries \in Nat
    BY <1>1, TunnelAssumption DEF SenderState
  <2>7. next.pc # "ok" /\ next.tries \in Nat /\ next.tries >= snd[s].tries
    BY <2>3, <2>6
  <2>8. \A t \in Sender : /\ snd'[t].tries \in Nat /\ snd'[t].tries >= snd[t].tries
                          /\ snd'[t].pc = "ok" => snd[t].pc = "ok"
    BY <2>5, <2>6, <2>7
  <2>9. \A t \in Sender : delivered'[t] \in Nat /\ delivered'[t] >= delivered[t]
    BY <1>1, <2>1
  <2> QED
    BY <2>1, <2>8, <2>9, OrderRule
<1>10. CASE Upgraded(s)
  <2>1. PICK next, k :
          /\ next = [snd[s] EXCEPT !.pc = "opening"]
          /\ k = ToServer(Answered(Link(s)), <<ClientIntro(Intro(snd[s].terms.name,
                    snd[s].terms.version, ResourceOf[s]))>>)
    OBVIOUS
  <2>2. snd' = [snd EXCEPT ![s] = next] /\ conn' = [conn EXCEPT ![Attempt(s)] = k]
        /\ SenderLeavesRest /\ snd[s].pc \in InAttempt /\ Link(s).s2c # << >>
    BY <1>10, <2>1 DEF Upgraded, InAttempt, Link, Arrived
  <2>3. next.tries = snd[s].tries /\ next.pc # "ok"
    BY <1>1, <2>1 DEF SenderState
  <2>4. Link(s) \in LinkType(Requests(Attempt(s)), NoAck) => k.s2c \in Seq(NoAck)
    BY <2>1, <2>2, ReadOK, QuietSteps
  <2> QED
    BY <2>2, <2>3, <2>4, SenderOrder
<1>11. CASE RecvServerIntro(s)
  <2>0. PICK at, by : at = Head(Link(s).s2c).at /\ by = Head(Link(s).s2c).by
    OBVIOUS
  <2>1. PICK next, k :
          /\ next = [snd[s] EXCEPT !.pc = "sending", !.pos = at, !.sequence = 1, !.by = by]
          /\ k = ToServer(Answered(Link(s)),
                          <<Signal("client_finish"), Seal(s, Body("header", 0, by))>>)
    OBVIOUS
  <2>2. snd' = [snd EXCEPT ![s] = next] /\ conn' = [conn EXCEPT ![Attempt(s)] = k]
        /\ SenderLeavesRest /\ snd[s].pc \in InAttempt /\ Link(s).s2c # << >>
    BY <1>11, <2>0, <2>1 DEF RecvServerIntro, InAttempt, Link, Arrived
  <2>3. next.tries = snd[s].tries /\ next.pc # "ok"
    BY <1>1, <2>1 DEF SenderState
  <2>4. Link(s) \in LinkType(Requests(Attempt(s)), NoAck) => k.s2c \in Seq(NoAck)
    BY <2>1, <2>2, ReadOK, QuietSteps
  <2> QED
    BY <2>2, <2>3, <2>4, SenderOrder
<1>12. CASE SendSecure(s)
  <2> DEFINE whole == snd[s].pos = Size[ResourceOf[s]]
  <2>a. PICK pc \in {"waiting", "sending"} : pc = IF whole THEN "waiting" ELSE "sending"
    OBVIOUS
  <2>b. PICK pos, n : pos = (IF whole THEN snd[s].pos ELSE snd[s].pos + 1) /\ n = snd[s].sequence + 1
    OBVIOUS
  <2>c. PICK next, k :
          /\ next = [snd[s] EXCEPT !.pc = pc, !.pos = pos, !.sequence = n]
          /\ k = ToServer(Link(s), <<Seal(s, IF whole THEN Body("done", 0, snd[s].by)
                                             ELSE Body("chunk", snd[s].pos, snd[s].by))>>)
    OBVIOUS
  <2>1. snd' = [snd EXCEPT ![s] = next] /\ conn' = [conn EXCEPT ![Attempt(s)] = k]
    BY <1>12, <2>a, <2>b, <2>c DEF SendSecure, Link
  <2>2. SenderLeavesRest /\ snd[s].pc \in InAttempt
    BY <1>12 DEF SendSecure, InAttempt
  <2>3. next.tries = snd[s].tries /\ next.pc # "ok"
    BY <1>1, <2>a, <2>c DEF SenderState
  <2>4. Link(s) \in LinkType(Requests(Attempt(s)), NoAck) => k.s2c \in Seq(NoAck)
    BY <2>c, QuietSteps
  <2> QED
    BY <2>1, <2>2, <2>3, <2>4, SenderOrder
<1>13. CASE ClientControl(s)
  <2>1. PICK k \in {ToServer(Answered(Link(s)), <<Signal("pong")>>), Answered(Link(s))} :
          conn' = [conn EXCEPT ![Attempt(s)] = k]
    BY <1>13 DEF ClientControl, Link
  <2>2. snd' = [snd EXCEPT ![s] = snd[s]] /\ SenderLeavesRest /\ snd[s].pc \in InAttempt
        /\ Link(s).s2c # << >> /\ snd[s].pc # "ok"
    BY <1>1, <1>13 DEF ClientControl, InAttempt, Arrived
  <2>3. Link(s) \in LinkType(Requests(Attempt(s)), NoAck) => k.s2c \in Seq(NoAck)
    BY <2>1, <2>2, ReadOK, QuietSteps
  <2> QED
    BY <2>1, <2>2, <2>3, SenderOrder
<1> QED
  BY <1>2, <1>3, <1>4, <1>5, <1>6, <1>7, <1>8, <1>9, <1>10, <1>11, <1>12, <1>13, <1>14, <1>15,
     DialOrder
  DEF SenderStep

\* A step of the receiver within a session, or the next session.
LEMMA ServeOrder ==
  ASSUME TunnelInv, TunnelInv', OrderInv, ReceiverLeavesRest, delivered' = delivered,
         Queue' = Queue,
         \A c \in Conn : conn[c].s2c \in Seq(NoAck) => conn'[c].s2c \in Seq(NoAck)
  PROVE  OrderInv'
<1>1. snd' = snd
  BY DEF ReceiverLeavesRest
<1>2. snd \in [Sender -> SenderState] /\ delivered \in [Sender -> Nat]
  BY DEF TunnelInv, TypeOK
<1>3. \A t \in Sender : snd[t].tries \in Nat
  BY <1>2, TunnelAssumption DEF SenderState
<1>4. \A t \in Sender : snd'[t].tries \in Nat /\ snd'[t].tries >= snd[t].tries
  BY <1>1, <1>3
<1>5. \A t \in Sender : delivered'[t] \in Nat /\ delivered'[t] >= delivered[t]
  BY <1>2
<1>6. \A t \in Sender : snd'[t].pc = "ok" => snd[t].pc = "ok"
  BY <1>1
<1> QED
  BY <1>4, <1>5, <1>6, OrderRule

\* The answers that are not acknowledgements.
LEMMA SignalQuiet ==
  \A type \in {"upgraded", "version_error", "unpack_error", "pong", "ping", "text"} :
    Signal(type) \in NoAck
<1> SUFFICES ASSUME NEW type \in {"upgraded", "version_error", "unpack_error", "pong", "ping", "text"}
             PROVE  Signal(type) \in NoAck
  OBVIOUS
<1>1. Signal(type) \in SignalFrame /\ Signal(type).type # "ack"
  BY DEF Signal, SignalFrame
<1> QED
  BY <1>1 DEF NoAck, PlainFrame, IsAck

\* What the receiver answers a client's intro with, and what the bridge wrote.
LEMMA AnswerQuiet ==
  /\ \A at \in Nat : Answer("server_intro", at, "receiver") \in NoAck
  /\ Answer("ack", 0, "bridge") \in NoAck
<1>1. ASSUME NEW at \in Nat
      PROVE  Answer("server_intro", at, "receiver") \in NoAck
  <2>1. PICK f : f = Answer("server_intro", at, "receiver")
    OBVIOUS
  <2>2. f \in AnswerFrame /\ f.type = "server_intro"
    BY <2>1 DEF Answer, AnswerFrame, Word
  <2> QED
    BY <2>1, <2>2 DEF NoAck, PlainFrame, IsAck
<1>2. Answer("ack", 0, "bridge") \in NoAck
  <2>1. PICK f : f = Answer("ack", 0, "bridge")
    OBVIOUS
  <2>2. f \in AnswerFrame /\ f.by = "bridge"
    BY <2>1 DEF Answer, AnswerFrame, Word
  <2> QED
    BY <2>1, <2>2 DEF NoAck, PlainFrame, IsAck
<1> QED
  BY <1>1, <1>2

\* The end of a session: the line moves up, and an acknowledgement stands for
\* an archive that was unpacked.
LEMMA HangupOrder ==
  ASSUME TunnelInv, TunnelInv', OrderInv, ReceiverLeavesRest, backlog' = backlog,
         rcv.conn # << >>, NEW replies, Hangup(replies),
         \A s \in Sender : delivered'[s] >= delivered[s],
         \/ replies = << >>
         \/ replies = <<Signal("version_error")>>
         \/ replies = <<Signal("unpack_error")>>
         \/ replies = <<Answer("ack", 0, "bridge")>>
         \/ replies = <<Answer("ack", 0, "receiver")>> /\ delivered'[Peer] > 0
  PROVE  OrderInv'
<1>1. PICK c \in Conn : c = Served /\ rcv.conn = <<c>> /\ c[1] = Peer
  BY ServedFacts DEF Peer
<1>2. /\ DOMAIN conn = Conn /\ snd \in [Sender -> SenderState]
      /\ delivered \in [Sender -> Nat] /\ delivered' \in [Sender -> Nat]
      /\ backlog \in Seq(Conn)
  BY DEF TunnelInv, TypeOK
<1>3. PICK q, r : q = Queue /\ r = Queue'
  OBVIOUS
<1>4. r = backlog /\ q = <<c>> \o backlog
  <2>1. rcv'.conn = << >>
    BY DEF Hangup, AtListener
  <2> QED
    BY <1>1, <1>2, <1>3, <2>1 DEF Queue
<1>5. q # << >> /\ r = Tail(q) /\ q[1] = c /\ 1 \in 1..Len(q)
      /\ Len(r) \in Nat
      /\ \A i \in 1..Len(r) : i + 1 \in 1..Len(q) /\ 1 < i + 1 /\ q[i + 1] = r[i]
  BY <1>2, <1>4
<1>6. c[2] <= snd[c[1]].tries
  BY <1>3, <1>5 DEF OrderInv
<1>7. \A i \in 1..Len(r) : r[i][1] = c[1] => c[2] < r[i][2]
  <2> SUFFICES ASSUME NEW i \in 1..Len(r), r[i][1] = c[1] PROVE c[2] < r[i][2]
    OBVIOUS
  <2>1. i + 1 \in 1..Len(q) /\ 1 < i + 1 /\ q[i + 1] = r[i] /\ q[1] = c /\ 1 \in 1..Len(q)
    BY <1>5
  <2> QED
    BY <1>3, <2>1 DEF OrderInv
<1>8. PICK k : k = CloseServer(ToClient(conn[c], replies)) /\ conn' = [conn EXCEPT ![c] = k]
  BY <1>1 DEF Hangup
<1>9. ASSUME conn[c].s2c \in Seq(NoAck), ~(delivered'[Peer] > 0)
      PROVE  k.s2c \in Seq(NoAck)
  <2>1. conn[c] \in LinkType(Requests(c), NoAck)
    BY <1>9, Quiet
  <2>2. replies \in Seq(NoAck)
    <3>1. CASE replies = << >>
      BY <3>1
    <3>2. CASE replies = <<Signal("version_error")>>
      BY <3>2, SignalQuiet
    <3>3. CASE replies = <<Signal("unpack_error")>>
      BY <3>3, SignalQuiet
    <3>4. CASE replies = <<Answer("ack", 0, "bridge")>>
      BY <3>4, AnswerQuiet
    <3> QED
      BY <1>9, <3>1, <3>2, <3>3, <3>4
  <2>3. ToClient(conn[c], replies) \in LinkType(Requests(c), NoAck)
    BY <2>1, <2>2, ToClientOK
  <2> QED
    BY <1>8, <2>3, QuietSteps
<1>10. \A d \in Conn : conn[d].s2c \in Seq(NoAck) =>
         \/ conn'[d].s2c \in Seq(NoAck)
         \/ /\ d[2] <= snd[d[1]].tries
            /\ delivered'[d[1]] > 0
            /\ \A i \in 1..Len(r) : r[i][1] = d[1] => d[2] < r[i][2]
  <2> SUFFICES ASSUME NEW d \in Conn, conn[d].s2c \in Seq(NoAck), conn'[d].s2c \notin Seq(NoAck)
               PROVE  /\ d[2] <= snd[d[1]].tries
                      /\ delivered'[d[1]] > 0
                      /\ \A i \in 1..Len(r) : r[i][1] = d[1] => d[2] < r[i][2]
    OBVIOUS
  <2>1. d = c /\ k.s2c \notin Seq(NoAck)
    BY <1>2, <1>8
  <2>2. delivered'[Peer] > 0
    BY <1>9, <2>1
  <2> QED
    BY <1>1, <1>6, <1>7, <2>1, <2>2
<1>11. \A t \in Sender : snd[t].tries \in Nat
  BY <1>2, TunnelAssumption DEF SenderState
<1>12. \A t \in Sender : /\ snd'[t].tries \in Nat /\ snd'[t].tries >= snd[t].tries
                         /\ snd'[t].pc = "ok" => snd[t].pc = "ok"
  BY <1>11 DEF ReceiverLeavesRest
<1>13. \A t \in Sender : delivered'[t] \in Nat /\ delivered'[t] >= delivered[t]
  BY <1>2
<1> QED
  BY <1>3, <1>5, <1>10, <1>12, <1>13, OrderRule

\* Every step of the receiver keeps the order.
LEMMA ReceiverStepOrder ==
  ASSUME TunnelInv, TunnelInv', OrderInv, ReceiverStep
  PROVE  OrderInv'
<1>1. DOMAIN conn = Conn /\ rcv.conn \in Seq(Conn) /\ backlog \in Seq(Conn) /\ rcv \in ReceiverState
      /\ delivered \in [Sender -> Nat]
  BY DEF TunnelInv, TypeOK, ReceiverState
<1>2. ASSUME NEW c \in Conn, rcv.conn = <<c>>, NEW k, conn' = [conn EXCEPT ![c] = k],
             rcv'.conn = rcv.conn, backlog' = backlog, delivered' = delivered,
             ReceiverLeavesRest,
             conn[c] \in LinkType(Requests(c), NoAck) => k.s2c \in Seq(NoAck)
      PROVE  OrderInv'
  <2>1. \A d \in Conn : conn[d].s2c \in Seq(NoAck) => conn'[d].s2c \in Seq(NoAck)
    BY <1>1, <1>2, Quiet
  <2>2. Queue' = Queue
    BY <1>2 DEF Queue
  <2> QED
    BY <1>2, <2>1, <2>2, ServeOrder
<1>3. CASE Accept
  <2>1. rcv.conn = << >> /\ rcv'.conn = <<Head(backlog)>> /\ backlog' = Tail(backlog)
        /\ backlog # << >>
    BY <1>3 DEF Accept, AtListener, TunnelInv, ReceiverOK, InSession
  <2>2. Queue' = Queue
    <3>1. PICK b : b = backlog
      OBVIOUS
    <3>2. << >> \o b = b /\ b = <<Head(b)>> \o Tail(b)
      BY <1>1, <2>1, <3>1
    <3> QED
      BY <2>1, <3>1, <3>2 DEF Queue
  <2>3. ReceiverLeavesRest /\ delivered' = delivered /\ conn' = conn
    BY <1>3 DEF Accept
  <2> QED
    BY <2>2, <2>3, ServeOrder
<1>4. CASE Upgrade
  <2>1. PICK c \in Conn : c = Served /\ rcv.conn = <<c>> /\ conn[c].c2s # << >>
    BY <1>4, ServedFacts DEF Upgrade, Reading, Arrived
  <2>2. PICK k : k = ToClient(Consumed(conn[c]), <<Signal("upgraded")>>)
    OBVIOUS
  <2>3. rcv'.conn = rcv.conn /\ conn' = [conn EXCEPT ![c] = k] /\ ReceiverLeavesRest
        /\ backlog' = backlog /\ delivered' = delivered
    BY <1>1, <1>4, <2>1, <2>2 DEF Upgrade, ReceiverState
  <2>4. conn[c] \in LinkType(Requests(c), NoAck) => k.s2c \in Seq(NoAck)
    <3>1. Signal("upgraded") \in NoAck
      BY SignalQuiet
    <3>2. conn[c] \in LinkType(Requests(c), NoAck) => k \in LinkType(Requests(c), NoAck)
      BY <2>1, <2>2, <3>1, ReplyOK
    <3> QED
      BY <3>2 DEF LinkType
  <2> QED
    BY <1>2, <2>1, <2>3, <2>4
<1>5. CASE RecvClientIntro
  <2>1. PICK c \in Conn : c = Served /\ rcv.conn = <<c>> /\ conn[c].c2s # << >>
    BY <1>5, ServedFacts DEF RecvClientIntro, Reading, Arrived
  <2>2. PICK offset, k, intro :
          /\ offset = rcv'.offset /\ offset \in Nat
          /\ k = ToClient(Consumed(conn[c]), <<Answer("server_intro", offset, "receiver")>>)
          /\ intro = Head(conn[c].c2s).intro
    <3>1. rcv' \in ReceiverState
      BY DEF TunnelInv, TypeOK
    <3> QED
      BY <3>1 DEF ReceiverState
  <2>3. PICK o : /\ rcv' = [rcv EXCEPT !.pc = "finish", !.intro = <<intro>>, !.offset = o]
                 /\ conn' = [conn EXCEPT ![c] =
                      ToClient(Consumed(conn[c]), <<Answer("server_intro", o, "receiver")>>)]
                 /\ ReceiverLeavesRest /\ backlog' = backlog /\ delivered' = delivered
    BY <1>5, <2>1, <2>2 DEF RecvClientIntro
  <2>4. rcv'.conn = rcv.conn /\ o = offset
    BY <1>1, <2>2, <2>3 DEF ReceiverState
  <2>5. conn[c] \in LinkType(Requests(c), NoAck) => k.s2c \in Seq(NoAck)
    <3>1. PICK offer : offer = Answer("server_intro", offset, "receiver")
      OBVIOUS
    <3>2. offer \in NoAck
      BY <2>2, <3>1, AnswerQuiet
    <3>3. conn[c] \in LinkType(Requests(c), NoAck) => k \in LinkType(Requests(c), NoAck)
      BY <2>1, <2>2, <3>1, <3>2, ReplyOK
    <3> QED
      BY <3>3 DEF LinkType
  <2>6. conn' = [conn EXCEPT ![c] = k]
    BY <2>2, <2>3, <2>4
  <2> QED
    BY <1>2, <2>1, <2>3, <2>4, <2>5, <2>6
<1>6. ASSUME rcv.pc \in {"finish", "header", "body"}, conn' = [conn EXCEPT ![Served] = Consumed(conn[Served])],
             rcv'.conn = rcv.conn, ReceiverLeavesRest, backlog' = backlog, delivered' = delivered
      PROVE  OrderInv'
  <2>1. PICK c \in Conn : c = Served /\ rcv.conn = <<c>>
    BY <1>6, ServedFacts
  <2>2. PICK k : k = Consumed(conn[c])
    OBVIOUS
  <2>3. conn' = [conn EXCEPT ![c] = k]
    BY <1>6, <2>1, <2>2
  <2>4. conn[c] \in LinkType(Requests(c), NoAck) => k.s2c \in Seq(NoAck)
    BY <2>2, QuietSteps
  <2> QED
    BY <1>2, <1>6, <2>1, <2>3, <2>4
<1>11. CASE RecvClientFinish \/ RecvHeader
  <2>1. rcv.pc \in {"finish", "header"}
    BY <1>11 DEF RecvClientFinish, RecvHeader, Opens, Reading
  <2>2. conn' = [conn EXCEPT ![Served] = Consumed(conn[Served])] /\ ReceiverLeavesRest
        /\ backlog' = backlog /\ delivered' = delivered
    BY <1>11 DEF RecvClientFinish, RecvHeader
  <2>3. rcv'.conn = rcv.conn
    BY <1>1, <1>11 DEF RecvClientFinish, RecvHeader, ReceiverState
  <2> QED
    BY <1>6, <2>1, <2>2, <2>3
<1>12. CASE RecvChunk
  <2>1. rcv.pc = "body" /\ rcv.conn # << >>
    <3>1. rcv.pc = "body"
      BY <1>12, ChunkFacts
    <3>2. rcv.pc # "accept"
      BY <3>1
    <3>3. rcv.conn = <<Served>>
      BY <3>2, ServedFacts, Zenon
    <3>4. rcv.conn # << >>
      BY <3>3
    <3> QED
      BY <3>1, <3>4
  <2>2. /\ ReceiverLeavesRest /\ backlog' = backlog /\ delivered' = delivered
        /\ \/ /\ rcv' = [rcv EXCEPT !.offset = rcv.offset + 1, !.expected = rcv.expected + 1]
              /\ conn' = [conn EXCEPT ![Served] = Consumed(conn[Served])]
           \/ Hangup(<< >>)
    BY <1>12, Zenon DEF RecvChunk
  <2>3. CASE Hangup(<< >>)
    <3>1. \A s \in Sender : delivered'[s] >= delivered[s]
      BY <1>1, <2>2
    <3> QED
      BY <2>1, <2>2, <2>3, <3>1, HangupOrder
  <2>4. CASE ~Hangup(<< >>)
    <3>1. PICK o, e : rcv' = [rcv EXCEPT !.offset = o, !.expected = e]
      BY <2>2, <2>4
    <3>2. rcv'.conn = rcv.conn
      BY <1>1, <3>1 DEF ReceiverState
    <3> QED
      BY <1>6, <2>1, <2>2, <2>4, <3>2
  <2> QED
    BY <2>3, <2>4
<1>7. CASE ServerControl
  <2>1. PICK c \in Conn : c = Served /\ rcv.conn = <<c>> /\ conn[c].c2s # << >>
    BY <1>7, ServedFacts DEF ServerControl, Arrived
  <2>2. PICK k : /\ conn' = [conn EXCEPT ![c] = k]
                 /\ \/ k = ToClient(Consumed(conn[c]), <<Signal("pong")>>)
                    \/ k = Consumed(conn[c])
    BY <1>7, <2>1 DEF ServerControl
  <2>3. rcv'.conn = rcv.conn /\ ReceiverLeavesRest /\ backlog' = backlog /\ delivered' = delivered
    BY <1>7 DEF ServerControl
  <2>4. conn[c] \in LinkType(Requests(c), NoAck) => k.s2c \in Seq(NoAck)
    <3>1. Signal("pong") \in NoAck
      BY SignalQuiet
    <3>2. conn[c] \in LinkType(Requests(c), NoAck) => k \in LinkType(Requests(c), NoAck)
      BY <2>1, <2>2, <3>1, ReplyOK
    <3> QED
      BY <3>2 DEF LinkType
  <2>5. rcv.conn = <<c>> /\ conn' = [conn EXCEPT ![c] = k]
    BY <2>1, <2>2
  <2>6. rcv'.conn = rcv.conn /\ backlog' = backlog /\ delivered' = delivered /\ ReceiverLeavesRest
    BY <2>3
  <2> QED
    BY <1>2, <2>4, <2>5, <2>6
<1>8. CASE RejectIntro
  <2>1. rcv.conn # << >>
    <3>1. rcv.pc = "intro"
      BY <1>8 DEF RejectIntro, Reading
    <3>2. PICK c : rcv.conn = <<c>>
      BY <3>1, ServedFacts
    <3> QED
      BY <3>2
  <2>2. ReceiverLeavesRest /\ backlog' = backlog /\ delivered' = delivered
    BY <1>8 DEF RejectIntro
  <2>3. PICK replies : Hangup(replies) /\ (replies = << >> \/ replies = <<Signal("version_error")>>)
    BY <1>8 DEF RejectIntro
  <2>4. \A s \in Sender : delivered'[s] >= delivered[s]
    BY <1>1, <2>2
  <2> QED
    BY <2>1, <2>2, <2>3, <2>4, HangupOrder
<1>9. CASE ReceiverError
  <2>1. rcv.conn # << >> /\ ReceiverLeavesRest /\ backlog' = backlog /\ delivered' = delivered
        /\ Hangup(<< >>)
    BY <1>9 DEF ReceiverError
  <2>2. \A s \in Sender : delivered'[s] >= delivered[s]
    BY <1>1, <2>1
  <2> QED
    BY <2>1, <2>2, HangupOrder
<1>10. CASE RecvDone
  <2>1. Peer \in Sender /\ rcv.conn # << >>
        /\ (delivered' = delivered \/ delivered' = [delivered EXCEPT ![Peer] = delivered[Peer] + 1])
    BY <1>10, RecvDoneCounts
  <2>2. PICK replies :
          /\ Hangup(replies)
          /\ \/ replies = << >>
             \/ replies = <<Signal("unpack_error")>>
             \/ replies = <<Answer("ack", 0, "bridge")>>
             \/ /\ replies = <<Answer("ack", 0, "receiver")>>
                /\ delivered' = [delivered EXCEPT ![Peer] = delivered[Peer] + 1]
    BY <1>10, RecvDoneCounts
  <2>3. \A s \in Sender : delivered'[s] >= delivered[s]
    BY <1>1, <2>1
  <2>4. delivered' = [delivered EXCEPT ![Peer] = delivered[Peer] + 1] => delivered'[Peer] > 0
    BY <1>1, <2>1
  <2>5. ReceiverLeavesRest /\ backlog' = backlog
    BY <1>10 DEF RecvDone
  <2> QED
    BY <2>1, <2>2, <2>3, <2>4, <2>5, HangupOrder
<1> QED
  BY <1>3, <1>4, <1>5, <1>7, <1>8, <1>9, <1>10, <1>11, <1>12 DEF ReceiverStep

\* What the bridge puts between the frames is no acknowledgement of the
\* receiver's.
LEMMA BridgeStepOrder ==
  ASSUME TunnelInv, TunnelInv', OrderInv, BridgeStep \/ HelperStarts
  PROVE  OrderInv'
<1>1. DOMAIN conn = Conn /\ delivered \in [Sender -> Nat] /\ snd \in [Sender -> SenderState]
  BY DEF TunnelInv, TypeOK
<1>2. snd' = snd /\ delivered' = delivered /\ rcv' = rcv /\ backlog' = backlog
  BY DEF BridgeStep, HelperStarts, HelperDies, Break, Tamper, Interject
<1>3. \A c \in Conn : conn[c].s2c \in Seq(NoAck) => conn'[c].s2c \in Seq(NoAck)
  <2> SUFFICES ASSUME NEW c \in Conn, conn[c].s2c \in Seq(NoAck)
               PROVE  conn'[c].s2c \in Seq(NoAck)
    OBVIOUS
  <2>1. conn[c] \in LinkType(Requests(c), NoAck)
    BY Quiet
  <2>2. CASE HelperStarts
    BY <2>2 DEF HelperStarts
  <2>3. CASE HelperDies
    <3>1. conn'[c] = Cut(conn[c])
      BY <2>3 DEF HelperDies
    <3> QED
      BY <2>1, <3>1, QuietSteps
  <2>4. ASSUME NEW d \in Conn, Break(d)
        PROVE  conn'[c].s2c \in Seq(NoAck)
    <3>1. conn'[c] = conn[c] \/ conn'[c] = Cut(conn[c])
          \/ conn'[c] = [conn[c] EXCEPT !.bridge = "stalled", !.c2s = << >>, !.s2c = << >>]
      BY <1>1, <2>4 DEF Break
    <3>2. << >> \in Seq(NoAck)
      OBVIOUS
    <3>3. [conn[c] EXCEPT !.bridge = "stalled", !.c2s = << >>, !.s2c = << >>].s2c = << >>
      BY <2>1 DEF LinkType
    <3> QED
      BY <2>1, <3>1, <3>2, <3>3, QuietSteps
  <2>5. ASSUME NEW d \in Conn, NEW kind \in TamperKinds, Tamper(d, kind)
        PROVE  conn'[c].s2c \in Seq(NoAck)
    <3>1. PICK queue : conn' = [conn EXCEPT ![d].c2s = queue]
      BY <2>5 DEF Tamper
    <3>2. conn'[c] = conn[c] \/ conn'[c] = [conn[c] EXCEPT !.c2s = queue]
      BY <1>1, <3>1
    <3>3. [conn[c] EXCEPT !.c2s = queue].s2c = conn[c].s2c
      BY <2>1 DEF LinkType
    <3> QED
      BY <3>2, <3>3
  <2>6. ASSUME NEW d \in Conn, NEW kind \in {"control", "text", "altered"}, Interject(d, kind)
        PROVE  conn'[c].s2c \in Seq(NoAck)
    <3>1. PICK queue \in Interjected(d[1], kind, conn[d].s2c) :
            conn' = [conn EXCEPT ![d].s2c = queue]
      BY <2>6 DEF Interject
    <3>2. CASE c = d
      <4>1. PICK s, held : s = c[1] /\ held = conn[c].s2c
        OBVIOUS
      <4>2. Signal("ping") \in NoAck /\ Signal("text") \in NoAck /\ MadeUp(s) \subseteq NoAck
        BY <4>1, SignalQuiet, MadeUpOK
      <4>3. held \in Seq(NoAck) /\ queue \in Interjected(s, kind, held)
        BY <3>1, <3>2, <4>1
      <4>4. queue \in Seq(NoAck)
        BY <4>2, <4>3, InterjectedOK
      <4>5. conn'[c].s2c = queue
        BY <1>1, <2>1, <3>1, <3>2 DEF LinkType
      <4> QED
        BY <4>4, <4>5
    <3>3. CASE c # d
      BY <1>1, <3>1, <3>3
    <3> QED
      BY <3>2, <3>3
  <2> QED
    BY <2>2, <2>3, <2>4, <2>5, <2>6 DEF BridgeStep
<1>4. Queue' = Queue
  BY <1>2 DEF Queue
<1>5. \A t \in Sender : snd[t].tries \in Nat
  BY <1>1, TunnelAssumption DEF SenderState
<1>6. \A t \in Sender : /\ snd'[t].tries \in Nat /\ snd'[t].tries >= snd[t].tries
                        /\ delivered'[t] \in Nat /\ delivered'[t] >= delivered[t]
                        /\ snd'[t].pc = "ok" => snd[t].pc = "ok"
  BY <1>1, <1>2, <1>5
<1> QED
  BY <1>3, <1>4, <1>6, OrderRule

\* Nobody is in line yet.
LEMMA InitOrder == Init => OrderInv
<1> SUFFICES ASSUME Init PROVE OrderInv
  OBVIOUS
<1>1. Queue = << >> /\ Len(Queue) = 0
  <2>1. rcv.conn = << >> /\ backlog = << >>
    BY DEF Init, AtListener
  <2> QED
    BY <2>1, ConcatEmptySeq DEF Queue
<1>2. \A c \in Conn : conn[c].s2c \in Seq(NoAck)
  <2>1. \A c \in Conn : conn[c].s2c = << >>
    BY DEF Init, NoConn
  <2>2. << >> \in Seq(NoAck)
    OBVIOUS
  <2> QED
    BY <2>1, <2>2
<1>3. \A s \in Sender : snd[s].pc = "idle"
  BY DEF Init
<1> QED
  BY <1>1, <1>2, <1>3 DEF OrderInv

\* Every step keeps both invariants.
LEMMA NextOrder == TunnelInv /\ OrderInv /\ [Next]_vars => OrderInv'
<1> SUFFICES ASSUME TunnelInv, OrderInv, [Next]_vars PROVE OrderInv'
  OBVIOUS
<1>1. TunnelInv'
  BY NextInv
<1>2. CASE UNCHANGED vars
  BY <1>2 DEF vars, OrderInv, AckedOK, Queue
<1> QED
  BY <1>1, <1>2, SenderStepOrder, ReceiverStepOrder, BridgeStepOrder DEF Next, Finished

\* The order of the attempts is kept always: an Ack that is the receiver's
\* answer to its sender's intro is on its way only after the archive was
\* unpacked, and what is still in line for that sender is a later attempt.
THEOREM OrderInvariant == Spec => [](TunnelInv /\ OrderInv)
<1>1. Init => TunnelInv /\ OrderInv
  BY InitInv, InitOrder
<1>2. TunnelInv /\ OrderInv /\ [Next]_vars => (TunnelInv /\ OrderInv)'
  BY NextInv, NextOrder
<1> QED
  BY <1>1, <1>2, PTL DEF Spec

\* What a sender reports of its state.
Report(pc) ==
  CASE pc = "ok" -> "ok"
    [] pc \in {"fooled", "refused", "exhausted"} -> "failed"
    [] OTHER -> "sending"

\* A step of one sender changes its report and no other.
LEMMA ReportedStep ==
  ASSUME snd \in [Sender -> SenderState], NEW s \in Sender, NEW next,
         snd' = [snd EXCEPT ![s] = next]
  PROVE  Reported' = [Reported EXCEPT ![s] = Report(next.pc)]
<1>1. \A t \in Sender : snd'[t] = IF t = s THEN next ELSE snd[t]
  OBVIOUS
<1>2. Reported = [t \in Sender |-> Report(snd[t].pc)]
  BY DEF Reported, Report
<1>3. Reported' = [t \in Sender |-> Report(snd'[t].pc)]
  BY DEF Reported, Report
<1> QED
  BY <1>1, <1>2, <1>3

\* A sender's step within its retry loop, its attempt's end, and the loop's.
LEMMA SenderDelivers ==
  ASSUME TunnelInv, OrderInv, NEW s \in Sender, ~Over(s), NEW next,
         snd' = [snd EXCEPT ![s] = next], delivered' = delivered,
         next.pc = "ok" => delivered[s] > 0
  PROVE  [Promise!Next]_Promise!vars
<1>1. snd \in [Sender -> SenderState]
  BY DEF TunnelInv, TypeOK
<1>2. Reported' = [Reported EXCEPT ![s] = Report(next.pc)]
  BY <1>1, ReportedStep
<1>3. Reported = [t \in Sender |-> Report(snd[t].pc)]
  BY DEF Reported, Report
<1>4. Reported[s] = "sending"
  BY <1>3 DEF Report, Over
<1>5. CASE next.pc = "ok"
  <2>1. Promise!Succeed(s)
    BY <1>2, <1>4, <1>5 DEF Promise!Succeed, Report
  <2> QED
    BY <2>1 DEF Promise!Next
<1>6. CASE next.pc \in {"fooled", "refused", "exhausted"}
  <2>1. Promise!GiveUp(s)
    BY <1>2, <1>4, <1>6 DEF Promise!GiveUp, Report
  <2> QED
    BY <2>1 DEF Promise!Next
<1>7. CASE next.pc \notin {"ok", "fooled", "refused", "exhausted"}
  <2>1. Reported' = Reported
    BY <1>2, <1>3, <1>4, <1>7 DEF Report
  <2> QED
    BY <2>1 DEF Promise!vars
<1> QED
  BY <1>5, <1>6, <1>7

\* What an acknowledgement of the receiver's that has arrived tells.
LEMMA AckMeansDelivered ==
  ASSUME TunnelInv, OrderInv, NEW s \in Sender, snd[s].pc \in InAttempt,
         AckArrived(s)
  PROVE  delivered[s] > 0
<1>1. PICK c \in Conn : c = Attempt(s) /\ Link(s) = conn[c] /\ c = <<s, snd[s].tries>>
  BY SenderFacts DEF Attempt, Link
<1>2. conn[c].s2c \notin Seq(NoAck)
  <2>1. conn[c].s2c # << >> /\ IsAck(Head(conn[c].s2c))
    BY <1>1 DEF AckArrived, Arrived, IsAck
  <2> QED
    BY <2>1 DEF NoAck
<1> QED
  BY <1>1, <1>2 DEF OrderInv, AckedOK

\* The end of an attempt without an acknowledgement.
LEMMA FailureDelivers ==
  ASSUME TunnelInv, OrderInv, NEW s \in Sender, snd[s].pc \in InAttempt,
         \E fatal \in BOOLEAN : EndAttempt(s, After(s, fatal)), SenderLeavesRest
  PROVE  [Promise!Next]_Promise!vars
<1>1. PICK fatal \in BOOLEAN : EndAttempt(s, After(s, fatal))
  OBVIOUS
<1>2. PICK next : next = After(s, fatal)
  OBVIOUS
<1>3. next.pc # "ok"
  BY <1>2, AfterOK
<1>4. snd' = [snd EXCEPT ![s] = next] /\ delivered' = delivered /\ ~Over(s)
  BY <1>1, <1>2 DEF EndAttempt, SenderLeavesRest, Over, InAttempt
<1> QED
  BY <1>3, <1>4, SenderDelivers

\* Each step of a sender is one of the promise, or changes no report.
LEMMA SenderStepDelivers ==
  ASSUME TunnelInv, OrderInv, NEW s \in Sender, SenderStep(s) \/ LateAnswer(s)
  PROVE  [Promise!Next]_Promise!vars
<1>1. snd \in [Sender -> SenderState] /\ snd[s] \in SenderState
  BY DEF TunnelInv, TypeOK
<1>2. CASE LoginFails(s)
  BY <1>2, FailureDelivers DEF LoginFails, InAttempt
<1>3. CASE RecvVersionError(s)
  BY <1>3, FailureDelivers DEF RecvVersionError, InAttempt
<1>4. CASE RecvUnpackError(s)
  BY <1>4, FailureDelivers DEF RecvUnpackError, InAttempt
<1>5. CASE SenderError(s)
  BY <1>5, FailureDelivers DEF SenderError, InAttempt
<1>6. CASE OpenTimeout(s)
  BY <1>6, FailureDelivers DEF OpenTimeout, InAttempt
<1>7. CASE LateAnswer(s)
  BY <1>7, FailureDelivers DEF LateAnswer, InAttempt
<1>15. CASE RefuseOffset(s)
  BY <1>15, FailureDelivers DEF RefuseOffset, InAttempt
<1>16. CASE UnexpectedFrame(s)
  BY <1>16, FailureDelivers DEF UnexpectedFrame, InAttempt
<1>8. CASE RecvAck(s)
  <2>1. PICK pc \in {"ok", "fooled"} :
          pc = IF Head(Link(s).s2c).by = "receiver" THEN "ok" ELSE "fooled"
    OBVIOUS
  <2>2. PICK next : next = Rest(snd[s], pc)
    OBVIOUS
  <2>3. next.pc = pc
    BY <1>1, <2>2, RestOK
  <2>4. snd' = [snd EXCEPT ![s] = next] /\ delivered' = delivered /\ ~Over(s)
        /\ snd[s].pc \in InAttempt /\ Arrived(Link(s).s2c, "ack")
    BY <1>8, <2>1, <2>2 DEF RecvAck, EndAttempt, SenderLeavesRest, Over, InAttempt
  <2>5. next.pc = "ok" => delivered[s] > 0
    BY <2>1, <2>3, <2>4, AckMeansDelivered DEF AckArrived
  <2> QED
    BY <2>4, <2>5, SenderDelivers
<1>9. CASE Dial(s)
  <2>1. PICK n : n = snd[s].tries + 1
    OBVIOUS
  <2>2. PICK next : next = [snd[s] EXCEPT !.pc = "dialing", !.tries = n]
    OBVIOUS
  <2>3. snd' = [snd EXCEPT ![s] = next] /\ delivered' = delivered /\ ~Over(s)
    BY <1>9, <2>1, <2>2 DEF Dial, Over
  <2>4. next.pc = "dialing"
    BY <1>1, <2>2 DEF SenderState
  <2> QED
    BY <2>3, <2>4, SenderDelivers
<1>10. CASE DialFails(s)
  <2>1. PICK n : n = snd[s].tries + 1
    OBVIOUS
  <2>2. PICK pc \in {"exhausted", "idle"} : pc = IF n = MaxAttempts THEN "exhausted" ELSE "idle"
    OBVIOUS
  <2>3. PICK next : next = [snd[s] EXCEPT !.pc = pc, !.tries = n]
    OBVIOUS
  <2>4. snd' = [snd EXCEPT ![s] = next] /\ delivered' = delivered /\ ~Over(s)
    BY <1>10, <2>1, <2>2, <2>3 DEF DialFails, SenderLeavesRest, Over
  <2>5. next.pc = pc
    BY <1>1, <2>3 DEF SenderState
  <2> QED
    BY <2>2, <2>4, <2>5, SenderDelivers
<1>11. CASE Upgraded(s)
  <2>1. PICK next : next = [snd[s] EXCEPT !.pc = "opening"]
    OBVIOUS
  <2>2. snd' = [snd EXCEPT ![s] = next] /\ delivered' = delivered /\ ~Over(s)
    BY <1>11, <2>1 DEF Upgraded, SenderLeavesRest, Over
  <2>3. next.pc = "opening"
    BY <1>1, <2>1 DEF SenderState
  <2> QED
    BY <2>2, <2>3, SenderDelivers
<1>12. CASE RecvServerIntro(s)
  <2>0. PICK at, by : at = Head(Link(s).s2c).at /\ by = Head(Link(s).s2c).by
    OBVIOUS
  <2>1. PICK next : next = [snd[s] EXCEPT !.pc = "sending", !.pos = at, !.sequence = 1, !.by = by]
    OBVIOUS
  <2>2. snd' = [snd EXCEPT ![s] = next] /\ delivered' = delivered /\ ~Over(s)
    BY <1>12, <2>0, <2>1 DEF RecvServerIntro, SenderLeavesRest, Over
  <2>3. next.pc = "sending"
    BY <1>1, <2>1 DEF SenderState
  <2> QED
    BY <2>2, <2>3, SenderDelivers
<1>13. CASE SendSecure(s)
  <2> DEFINE whole == snd[s].pos = Size[ResourceOf[s]]
  <2>1. PICK pc \in {"waiting", "sending"} : pc = IF whole THEN "waiting" ELSE "sending"
    OBVIOUS
  <2>2. PICK pos, n : pos = (IF whole THEN snd[s].pos ELSE snd[s].pos + 1) /\ n = snd[s].sequence + 1
    OBVIOUS
  <2>3. PICK next : next = [snd[s] EXCEPT !.pc = pc, !.pos = pos, !.sequence = n]
    OBVIOUS
  <2>4. snd' = [snd EXCEPT ![s] = next] /\ delivered' = delivered /\ ~Over(s)
    BY <1>13, <2>1, <2>2, <2>3 DEF SendSecure, SenderLeavesRest, Over
  <2>5. next.pc = pc
    BY <1>1, <2>3 DEF SenderState
  <2> QED
    BY <2>1, <2>4, <2>5, SenderDelivers
<1>14. CASE ClientControl(s)
  <2>1. Reported' = Reported /\ delivered' = delivered
    BY <1>14 DEF ClientControl, SenderLeavesRest, Reported
  <2> QED
    BY <2>1 DEF Promise!vars
<1> QED
  BY <1>2, <1>3, <1>4, <1>5, <1>6, <1>7, <1>8, <1>9, <1>10, <1>11, <1>12, <1>13, <1>14, <1>15,
     <1>16
  DEF SenderStep

\* The receiver unpacks only for a sender that has not reported success: one
\* that has is not in line.
LEMMA ReceiverStepDelivers ==
  ASSUME TunnelInv, OrderInv, ReceiverStep
  PROVE  [Promise!Next]_Promise!vars
<1>1. snd' = snd
  BY DEF ReceiverStep, Accept, Upgrade, RejectIntro, RecvClientIntro, RecvClientFinish,
     RecvHeader, RecvChunk, RecvDone, ReceiverError, ServerControl, ReceiverLeavesRest
<1>2. Reported' = Reported
  BY <1>1 DEF Reported
<1>3. CASE RecvDone
  <2>1. /\ Peer \in Sender /\ rcv.conn = <<Served>>
        /\ delivered' = delivered \/ delivered' = [delivered EXCEPT ![Peer] = delivered[Peer] + 1]
    BY <1>3, RecvDoneCounts
  <2>2. CASE delivered' = delivered
    BY <1>2, <2>2 DEF Promise!vars
  <2>3. CASE delivered' = [delivered EXCEPT ![Peer] = delivered[Peer] + 1]
    <3>1. PICK s \in Sender : s = Peer
      BY <2>1
    <3>2. PICK c : rcv.conn = <<c>> /\ c = Served /\ c[1] = s
      BY <2>1, <3>1 DEF Peer
    <3>3. backlog \in Seq(Conn) /\ rcv.conn \in Seq(Conn)
      BY DEF TunnelInv, TypeOK, ReceiverState
    <3>4. 1 \in 1..Len(Queue) /\ Queue[1] = c
      <4>1. PICK a, b : a = rcv.conn /\ b = backlog
        OBVIOUS
      <4>2. a = <<c>> /\ b \in Seq(Conn) /\ c \in Conn
        BY <2>1, <3>2, <3>3, <4>1, ServedFacts
      <4>3. 1 \in 1..Len(<<c>> \o b) /\ (<<c>> \o b)[1] = c
        BY <4>2
      <4> QED
        BY <4>1, <4>2, <4>3 DEF Queue
    <3>5. snd[s].pc # "ok"
      BY <3>2, <3>4 DEF OrderInv
    <3>6. Reported[s] # "ok"
      BY <3>5 DEF Reported
    <3>7. Promise!Unpack(s)
      BY <1>2, <2>3, <3>1, <3>6 DEF Promise!Unpack
    <3> QED
      BY <3>7 DEF Promise!Next
  <2> QED
    BY <2>1, <2>2, <2>3
<1>4. CASE ~RecvDone
  <2>1. delivered' = delivered
    BY <1>4 DEF ReceiverStep, Accept, Upgrade, RejectIntro, RecvClientIntro, RecvClientFinish,
       RecvHeader, RecvChunk, ReceiverError, ServerControl
  <2> QED
    BY <1>2, <2>1 DEF Promise!vars
<1> QED
  BY <1>3, <1>4

\* Through a bridge that may do anything to the sealed frames and write any
\* intro or answer of its own, a send that the receiver's own Ack ended reports
\* success only after its archive was unpacked, and nothing more is unpacked
\* for it afterwards.  An Ack the bridge wrote, or brought about with another
\* descriptor, ends a send that is promised no more than a failed one.
THEOREM TunnelImplementsDelivery == Spec => ImplementsDelivery
<1>1. Init => Promise!Init
  <2> SUFFICES ASSUME Init PROVE Promise!Init
    OBVIOUS
  <2>1. \A s \in Sender : snd[s].pc = "idle"
    BY DEF Init
  <2>2. Reported = [s \in Sender |-> "sending"]
    BY <2>1 DEF Reported
  <2> QED
    BY <2>2 DEF Init, Promise!Init
<1>2. TunnelInv /\ OrderInv /\ [Next]_vars => [Promise!Next]_Promise!vars
  <2> SUFFICES ASSUME TunnelInv, OrderInv, [Next]_vars
               PROVE  [Promise!Next]_Promise!vars
    OBVIOUS
  <2>1. CASE UNCHANGED vars \/ HelperStarts \/ BridgeStep
    <3>1. snd' = snd /\ delivered' = delivered
      BY <2>1 DEF vars, HelperStarts, BridgeStep, HelperDies, Break, Tamper, Interject
    <3> QED
      BY <3>1 DEF Reported, Promise!vars
  <2> QED
    BY <2>1, SenderStepDelivers, ReceiverStepDelivers DEF Next, Finished
<1> QED
  BY <1>1, <1>2, OrderInvariant, PTL DEF Spec, ImplementsDelivery, Promise!Spec

===============================================================================
