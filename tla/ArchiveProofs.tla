---------------------------- MODULE ArchiveProofs ----------------------------
(***************************************************************************)
(* Proofs about Archive, for every set of paths, contents and inputs: what *)
(* unpacking puts into the receiver's directory was announced, nothing     *)
(* that is there is touched without --overwrite, and success means that    *)
(* every entry is in its place.                                            *)
(*                                                                         *)
(* The invariant ties the frames to the manifest: the entries that are     *)
(* expected are those of the archive, no two of them share a path, an open *)
(* file belongs to one, and each that is no longer remaining is in its     *)
(* place.                                                                  *)
(*                                                                         *)
(* Why unpacking fails, and why the same files make the same archive,      *)
(* takes the order of the frames: an archive whose sources nobody touched  *)
(* is a walk through its entries (Walk), from before the first to behind   *)
(* the last, which the sender extends frame by frame and the receiver      *)
(* follows.  From a position of it there is one way on, and a list of      *)
(* entries that is sorted without duplicates is the only one of them.      *)
(***************************************************************************)
EXTENDS Archive, FiniteSetTheorems, SequenceTheorems, TLAPS

\* What is no content of a sent file is none, and each is something else.
LEMMA Distinct ==
  /\ {Gone, Users, Absent, Directory} \cap Content = {}
  /\ Absent # Directory /\ Absent # Users /\ Directory # Users
<1>1. Content \subseteq Seq(Nat)
  BY ArchiveAssumption
<1>2. \A n \in {-1, -2, -3, -4} : <<n>> \notin Seq(Nat)
  OBVIOUS
<1>3. <<-3>> # <<-4>> /\ <<-3>> # <<-2>> /\ <<-4>> # <<-2>>
  OBVIOUS
<1> QED
  BY <1>1, <1>2, <1>3 DEF Gone, Users, Absent, Directory

-------------------------------------------------------------------------------
(* The invariant. *)

\* Entries of files have a hash.
Hashed(e) == e.kind = "file" => e.hash \in Content

Announced ==
  {e \in [path : Path, kind : {"file", "dir"}, size : Int, hash : Content \cup {<< >>}] :
     Hashed(e)}

Scannable ==
  {e \in [path : Path, kind : {"file", "dir"}, size : Int, hash : Content \cup {<< >>},
          src : DOMAIN inputs] : Hashed(e)}

FrameType == [type : {"dir", "start", "chunk", "end"}, path : Path, data : Seq(Nat)]

SenderType ==
  [pc : {"idle", "scan", "build", "sent", "failed"}, order : Seq(DOMAIN inputs),
   at : Nat \ {0}, size : Int, entries : Seq(Scannable), body : Seq(FrameType),
   file : Seq(Nat), read : Int]

OpenFile == [path : Path, data : Seq(Nat)]

ReceiverType ==
  [pc : {"idle", "unpack", "done", "failed"}, next : Nat,
   open : {<< >>} \cup {<<a>> : a \in OpenFile},
   remaining : SUBSET Announced, expected : SUBSET Announced]

TypeInv ==
  /\ inputs \in Seq(Input)
  /\ source \in [DOMAIN inputs -> Content \cup {Gone}]
  /\ snd \in SenderType
  /\ archive.entries \in Seq(Announced) /\ archive.body \in Seq(FrameType)
  /\ dest \in [Place -> Node]
  /\ rcv \in ReceiverType

\* What the receiver unpacks is the archive that was sent.
UnpackInv ==
  rcv.pc = "unpack" =>
    /\ snd.pc = "sent"
    /\ rcv.remaining \subseteq rcv.expected
    /\ IF rcv.next = 0 THEN rcv.open = << >>
       ELSE rcv.expected = Range(archive.entries)
    /\ \A e, f \in rcv.expected : e.path = f.path => e = f
    /\ rcv.open # << >> =>
         \E e \in rcv.expected : e.path = Active.path /\ e.kind = "file"

Placed(e) ==
  IF e.kind = "dir" THEN dest[<<e.path, 0>>] = Directory
  ELSE \E n \in 0..MaxCopy : dest[<<e.path, n>>] = e.hash

PlacedInv ==
  rcv.pc \in {"unpack", "done"} => \A e \in rcv.expected \ rcv.remaining : Placed(e)

ArchiveInv ==
  /\ TypeInv
  /\ UnpackInv
  /\ PlacedInv
  /\ rcv.pc = "done" => rcv.remaining = {}

-------------------------------------------------------------------------------
(* The directory. *)

\* A path and what leads to it are paths.
LEMMA Paths ==
  ASSUME NEW p \in Path
  PROVE  /\ p \in Seq(Nat) /\ p # << >> /\ Len(p) \in Nat \ {0}
         /\ \A n \in 1..Len(p) : SubSeq(p, 1, n) \in Path
         /\ SubSeq(p, 1, Len(p)) = p
BY ArchiveAssumption

\* create_dir_all makes directories of names that were free, if it succeeds.
LEMMA MakeDirIs ==
  ASSUME TypeInv, NEW p \in Seq(Nat), CanMakeDir(p)
  PROVE  /\ MakeDir(dest, p) \in [Place -> Node]
         /\ \A l \in Place :
              \/ MakeDir(dest, p)[l] = dest[l]
              \/ dest[l] = Absent /\ MakeDir(dest, p)[l] = Directory
<1>1. dest \in [Place -> Node]
  BY DEF TypeInv
<1>2. ASSUME NEW l \in Place, l[2] = 0, l[1] # << >>, IsPrefix(l[1], p)
      PROVE  dest[l] \in {Absent, Directory}
  <2>1. l[1] \in Path /\ l = <<l[1], 0>>
    BY <1>2 DEF Place
  <2>2. Len(l[1]) \in 1..Len(p) /\ SubSeq(p, 1, Len(l[1])) = l[1]
    BY <1>2, <2>1, Paths DEF IsPrefix
  <2> QED
    BY <2>1, <2>2 DEF CanMakeDir
<1>3. \A l \in Place : MakeDir(dest, p)[l] =
        IF l[2] = 0 /\ l[1] # << >> /\ IsPrefix(l[1], p) THEN Directory ELSE dest[l]
  BY DEF MakeDir
<1>4. MakeDir(dest, p) \in [Place -> Node]
  BY <1>1 DEF MakeDir, Node
<1> QED
  BY <1>2, <1>3, <1>4

\* The path itself is a directory then.
LEMMA MakeDirMakes ==
  ASSUME TypeInv, NEW p \in Path
  PROVE  MakeDir(dest, p)[<<p, 0>>] = Directory
<1>1. <<p, 0>> \in Place
  BY ArchiveAssumption DEF Place
<1>2. IsPrefix(p, p) /\ p # << >>
  BY Paths DEF IsPrefix
<1> QED
  BY <1>1, <1>2 DEF MakeDir
\* What is placed stays, where only free names are taken.
LEMMA PlacedKept ==
  ASSUME NEW e \in Announced, Placed(e), MaxCopy \in Nat,
         \A n \in 0..MaxCopy :
           dest'[<<e.path, n>>] = dest[<<e.path, n>>] \/ dest[<<e.path, n>>] = Absent
  PROVE  Placed(e)'
<1>1. CASE e.kind = "dir"
  BY <1>1, Distinct DEF Placed
<1>2. CASE e.kind # "dir"
  <2>1. PICK n \in 0..MaxCopy : dest[<<e.path, n>>] = e.hash
    BY <1>2 DEF Placed
  <2>2. e.hash # Absent
    BY <1>2, Distinct DEF Announced, Hashed
  <2>3. dest'[<<e.path, n>>] = e.hash
    BY <2>1, <2>2
  <2> QED
    BY <1>2, <2>1, <2>3 DEF Placed
<1> QED
  BY <1>1, <1>2

-------------------------------------------------------------------------------
(* The sender. *)

\* A step of the sender concerns no receiver that unpacks.
LEMMA SenderStep ==
  ASSUME ArchiveInv, UNCHANGED <<inputs, archive, dest, rcv>>,
         source' \in [DOMAIN inputs -> Content \cup {Gone}],
         snd' \in SenderType, rcv.pc = "unpack" => snd'.pc = "sent"
  PROVE  ArchiveInv'
<1>1. TypeInv'
  BY DEF ArchiveInv, TypeInv, SenderType, Scannable, ReceiverType
<1>2. UnpackInv'
  BY DEF ArchiveInv, UnpackInv, Active
<1>3. PlacedInv'
  BY DEF ArchiveInv, PlacedInv, Placed
<1> QED
  BY <1>1, <1>2, <1>3 DEF ArchiveInv

\* A sender that starts anew.
LEMMA SenderAtType ==
  ASSUME NEW pc \in {"idle", "scan", "build", "sent", "failed"}
  PROVE  SenderAt(pc) \in SenderType /\ SenderAt(pc).pc = pc
<1>1. << >> \in Seq(DOMAIN inputs) /\ << >> \in Seq(Scannable) /\ << >> \in Seq(FrameType)
      /\ << >> \in Seq(Nat)
  OBVIOUS
<1> QED
  BY <1>1 DEF SenderAt, SenderType

\* The entries are sorted, none is added.
LEMMA SortKeepsType ==
  ASSUME NEW entries \in Seq(Scannable), NEW sorted \in SortEntries(entries)
  PROVE  sorted \in Seq(Scannable)
<1>1. PICK o \in [DOMAIN entries -> DOMAIN entries] :
        sorted = [n \in 1..Len(entries) |-> entries[o[n]]]
  BY DEF SortEntries
<1>2. \A n \in 1..Len(entries) : entries[o[n]] \in Scannable
  OBVIOUS
<1> QED
  BY <1>1, <1>2

\* One more entry.
LEMMA ScanType ==
  ASSUME snd \in SenderType, NEW e \in Scannable, Scan(<<e>>)
  PROVE  snd' \in SenderType /\ snd'.pc = snd.pc
<1>1. PICK entries : entries = snd.entries \o <<e>>
  OBVIOUS
<1>2. entries \in Seq(Scannable)
  BY <1>1 DEF SenderType
<1>3. PICK at : at = snd.at + 1
  OBVIOUS
<1>4. at \in Nat \ {0}
  BY <1>3 DEF SenderType
<1>5. PICK size \in Int : size = -1
  OBVIOUS
<1>6. snd' = [snd EXCEPT !.at = at, !.size = size, !.entries = entries]
  BY <1>1, <1>3, <1>5 DEF Scan
<1> QED
  BY <1>2, <1>4, <1>6 DEF SenderType

\* One more frame.
LEMMA WriteFrameType ==
  ASSUME snd \in SenderType, NEW frame \in FrameType, NEW at \in Nat \ {0},
         NEW file \in Seq(Nat), NEW read \in Int, WriteFrame(frame, at, file, read)
  PROVE  snd' \in SenderType /\ snd'.pc = snd.pc
<1>1. PICK body : body = Append(snd.body, frame)
  OBVIOUS
<1>2. body \in Seq(FrameType)
  BY <1>1 DEF SenderType
<1>3. snd' = [snd EXCEPT !.body = body, !.at = at, !.file = file, !.read = read]
  BY <1>1 DEF WriteFrame
<1> QED
  BY <1>2, <1>3 DEF SenderType

\* A receiver without an archive.
LEMMA ReceiverResets ==
  ASSUME TypeInv, UNCHANGED <<inputs, source, archive, dest>>, snd' \in SenderType,
         NEW pc \in {"idle", "failed"}, rcv' = ReceiverAt(pc)
  PROVE  ArchiveInv'
<1>1. rcv' \in ReceiverType /\ rcv'.pc = pc
  BY DEF ReceiverAt, ReceiverType
<1>2. TypeInv'
  BY <1>1 DEF TypeInv, SenderType, Scannable, ReceiverType
<1> QED
  BY <1>1, <1>2 DEF ArchiveInv, UnpackInv, PlacedInv

\* The steps of create_archive keep the invariant.
LEMMA CreateStepKeeps ==
  ASSUME ArchiveInv, CreateStep
  PROVE  ArchiveInv'
<1>1. /\ inputs \in Seq(Input) /\ snd \in SenderType
      /\ source \in [DOMAIN inputs -> Content \cup {Gone}]
      /\ rcv.pc = "unpack" => snd.pc = "sent"
  BY DEF ArchiveInv, TypeInv, UnpackInv
<1>2. ASSUME ReceiverRests, UNCHANGED archive, snd' \in SenderType,
             rcv.pc = "unpack" => snd'.pc = "sent"
      PROVE  ArchiveInv'
  BY <1>1, <1>2, SenderStep DEF ReceiverRests
<1>3. ASSUME SendFails, snd.pc # "sent" PROVE ArchiveInv'
  BY <1>1, <1>2, <1>3, SenderAtType DEF SendFails
<1>4. ASSUME NEW order \in Orders, StartSend(order)
      PROVE  ArchiveInv'
  <2>1. order \in Seq(DOMAIN inputs)
    <3>1. order \in [1..Len(inputs) -> DOMAIN inputs]
      BY <1>1 DEF Orders
    <3> QED
      BY <1>1, <3>1
  <2>2. snd' = [SenderAt("scan") EXCEPT !.order = order]
    BY <1>4 DEF StartSend
  <2>3. snd' \in SenderType
    BY <2>1, <2>2, SenderAtType DEF SenderType
  <2>4. rcv' = ReceiverAt("idle") /\ UNCHANGED <<inputs, source, archive, dest>>
    BY <1>4 DEF StartSend
  <2> QED
    BY <2>3, <2>4, ReceiverResets DEF ArchiveInv
<1>5. ASSUME Scanning
      PROVE  /\ Scanned \in DOMAIN inputs /\ inputs[Scanned].path \in Path
             /\ snd.pc = "scan"
  <2>1. snd.order \in Seq(DOMAIN inputs) /\ snd.at \in 1..Len(snd.order)
    BY <1>1, <1>5 DEF Scanning, SenderType
  <2>2. Scanned \in DOMAIN inputs
    BY <2>1 DEF Scanned
  <2> QED
    <3>1. inputs[Scanned] \in Input
      BY <1>1, <2>2
    <3> QED
      BY <1>5, <2>2, <3>1 DEF Input, Scanning
<1>6. CASE ScanRejects
  BY <1>3, <1>5, <1>6 DEF ScanRejects
<1>7. CASE ScanSkips
  <2>1. PICK entries : entries = snd.entries \o << >>
    OBVIOUS
  <2>2. entries = snd.entries
    BY <1>1, <2>1 DEF SenderType
  <2>3. PICK at : at = snd.at + 1
    OBVIOUS
  <2>4. at \in Nat \ {0}
    BY <1>1, <2>3 DEF SenderType
  <2>5. PICK size \in Int : size = -1
    OBVIOUS
  <2>6. snd' = [snd EXCEPT !.at = at, !.size = size, !.entries = entries]
    BY <1>7, <2>1, <2>3, <2>5 DEF ScanSkips, Scan
  <2>7. snd' \in SenderType /\ snd'.pc = snd.pc
    BY <1>1, <2>2, <2>4, <2>6 DEF SenderType
  <2> QED
    BY <1>1, <1>2, <1>7, <2>7 DEF ScanSkips, Scan
<1>8. CASE ScanDirectory
  <2>1. PICK e : e = [path |-> inputs[Scanned].path, kind |-> "dir", size |-> 0, hash |-> << >>,
                      src |-> Scanned]
    OBVIOUS
  <2>2. e \in Scannable
    BY <1>5, <1>8, <2>1 DEF ScanDirectory, Scannable, Hashed
  <2>3. Scan(<<e>>)
    BY <1>8, <2>1 DEF ScanDirectory
  <2>4. snd' \in SenderType /\ snd'.pc = snd.pc
    BY <1>1, <2>2, <2>3, ScanType
  <2> QED
    BY <1>1, <1>2, <2>3, <2>4 DEF Scan
<1>9. CASE ScanFileSize
  <2>1. PICK size : size = Len(source[Scanned])
    OBVIOUS
  <2>2. size \in Int
    <3>1. source[Scanned] \in Content
      BY <1>1, <1>5, <1>9 DEF ScanFileSize
    <3>2. source[Scanned] \in Seq(Nat)
      BY <3>1, ArchiveAssumption
    <3> QED
      BY <2>1, <3>2
  <2>3. snd' = [snd EXCEPT !.size = size]
    BY <1>9, <2>1 DEF ScanFileSize
  <2>4. snd' \in SenderType /\ snd'.pc = snd.pc
    BY <1>1, <2>2, <2>3 DEF SenderType
  <2> QED
    BY <1>1, <1>2, <1>9, <2>4 DEF ScanFileSize
<1>10. CASE ScanFileHash
  <2>1. PICK e : e = [path |-> inputs[Scanned].path, kind |-> "file", size |-> snd.size,
                      hash |-> source[Scanned], src |-> Scanned]
    OBVIOUS
  <2>2. source[Scanned] \in Content /\ snd.size \in Int
    BY <1>1, <1>5, <1>10 DEF ScanFileHash, SenderType
  <2>3. e \in Scannable
    BY <1>5, <1>10, <2>1, <2>2 DEF ScanFileHash, Scannable, Hashed
  <2>4. Scan(<<e>>)
    BY <1>10, <2>1 DEF ScanFileHash
  <2>5. snd' \in SenderType /\ snd'.pc = snd.pc
    BY <1>1, <2>3, <2>4, ScanType
  <2> QED
    BY <1>1, <1>2, <2>4, <2>5 DEF Scan
<1>11. CASE ScanEnds
  <2>1. PICK sorted \in SortEntries(snd.entries) :
          snd' = [snd EXCEPT !.pc = "build", !.at = 1, !.entries = sorted]
    BY <1>11 DEF ScanEnds
  <2>2. sorted \in Seq(Scannable)
    BY <1>1, SortKeepsType DEF SenderType
  <2>3. PICK at \in Nat \ {0} : at = 1
    OBVIOUS
  <2>4. snd' = [snd EXCEPT !.pc = "build", !.at = at, !.entries = sorted]
    BY <2>1, <2>3
  <2>5. snd' \in SenderType
    BY <1>1, <2>2, <2>4 DEF SenderType
  <2> QED
    BY <1>1, <1>2, <1>11, <2>5 DEF ScanEnds
<1>12. ASSUME InBody
       PROVE  /\ Building \in Scannable /\ Building.path \in Path
              /\ Building.src \in DOMAIN inputs /\ snd.pc = "build"
  <2>1. snd.entries \in Seq(Scannable) /\ snd.at \in 1..Len(snd.entries)
    BY <1>1, <1>12 DEF InBody, SenderType
  <2> QED
    BY <1>12, <2>1 DEF Building, Scannable, InBody
<1>13. ASSUME NEW type \in {"dir", "start", "chunk", "end"}, InBody, NEW data \in Seq(Nat),
              NEW at \in Nat \ {0}, NEW file \in Seq(Nat), NEW read \in Int,
              WriteFrame(Frame(type, Building.path, data), at, file, read)
       PROVE  ArchiveInv'
  <2>1. PICK f : f = Frame(type, Building.path, data)
    OBVIOUS
  <2>2. f \in FrameType
    BY <1>12, <1>13, <2>1 DEF Frame, FrameType
  <2>3. snd' \in SenderType /\ snd'.pc = snd.pc
    BY <1>1, <1>13, <2>1, <2>2, WriteFrameType
  <2> QED
    BY <1>1, <1>2, <1>13, <2>3 DEF WriteFrame
<1>14. << >> \in Seq(Nat) /\ -1 \in Int /\ 0 \in Int /\ snd.at \in Nat \ {0}
       /\ snd.at + 1 \in Nat \ {0} /\ snd.file \in Seq(Nat) /\ snd.read \in Int
  BY <1>1 DEF SenderType
<1>15. CASE BuildDirectory
  BY <1>13, <1>14, <1>15 DEF BuildDirectory
<1>16. CASE BuildFileStart
  <2>1. source[Building.src] \in Seq(Nat)
    <3>1. source[Building.src] \in Content
      BY <1>1, <1>12, <1>16 DEF BuildFileStart
    <3> QED
      BY <3>1, ArchiveAssumption
  <2> QED
    BY <1>13, <1>14, <1>16, <2>1 DEF BuildFileStart
<1>17. CASE BuildChunk
  <2>1. snd.file[snd.read + 1] \in Nat /\ snd.read + 1 \in Int
    BY <1>14, <1>17 DEF BuildChunk
  <2>2. <<snd.file[snd.read + 1]>> \in Seq(Nat)
    BY <2>1
  <2> QED
    BY <1>13, <1>14, <1>17, <2>1, <2>2 DEF BuildChunk
<1>18. CASE BuildFileEnd
  BY <1>13, <1>14, <1>18 DEF BuildFileEnd
<1>19. CASE BuildFails
  BY <1>3, <1>12, <1>19 DEF BuildFails
<1>20. CASE FinishArchive
  <2>1. snd.pc = "build" /\ snd' = SenderAt("sent") /\ UNCHANGED <<inputs, source, dest, rcv>>
    BY <1>20 DEF FinishArchive, ReceiverRests
  <2>2. archive'.entries = Public(snd.entries) /\ archive'.body = snd.body
    BY <1>20 DEF FinishArchive
  <2>3. snd.entries \in Seq(Scannable) /\ snd.body \in Seq(FrameType)
    BY <1>1 DEF SenderType
  <2>4. Public(snd.entries) \in Seq(Announced)
    <3>1. \A e \in Scannable :
            [path |-> e.path, kind |-> e.kind, size |-> e.size, hash |-> e.hash] \in Announced
      BY DEF Scannable, Announced, Hashed
    <3>2. DOMAIN snd.entries = 1..Len(snd.entries)
          /\ \A i \in DOMAIN snd.entries : snd.entries[i] \in Scannable
      BY <2>3
    <3>3. Public(snd.entries) \in [1..Len(snd.entries) -> Announced]
      BY <3>1, <3>2 DEF Public
    <3> QED
      BY <2>3, <3>3
  <2>5. snd' \in SenderType
    BY <2>1, SenderAtType
  <2>6. TypeInv'
    BY <2>1, <2>2, <2>3, <2>4, <2>5
       DEF ArchiveInv, TypeInv, SenderType, Scannable, ReceiverType
  <2>7. rcv'.pc # "unpack"
    BY <1>1, <2>1
  <2>8. PlacedInv'
    BY <2>1 DEF ArchiveInv, PlacedInv, Placed
  <2> QED
    BY <2>1, <2>6, <2>7, <2>8 DEF ArchiveInv, UnpackInv
<1>21. CASE NextSend
  BY <1>1, <1>2, <1>21, SenderAtType DEF NextSend
<1> QED
  BY <1>4, <1>6, <1>7, <1>8, <1>9, <1>10, <1>11, <1>15, <1>16, <1>17, <1>18, <1>19, <1>20, <1>21
     DEF CreateStep

-------------------------------------------------------------------------------
(* The receiver. *)

\* An unpacking that fails is over.
LEMMA FailKeeps ==
  ASSUME ArchiveInv, UnpackFails
  PROVE  ArchiveInv'
<1>1. snd' \in SenderType /\ rcv' = ReceiverAt("failed") /\ UNCHANGED <<inputs, source, archive, dest>>
  BY SenderAtType DEF UnpackFails, SenderRests
<1> QED
  BY <1>1, ReceiverResets DEF ArchiveInv

\* What unpacking knows of the entries.
LEMMA Unpacking ==
  ASSUME ArchiveInv, rcv.pc = "unpack"
  PROVE  /\ rcv \in ReceiverType /\ rcv.expected \subseteq Announced
         /\ rcv.remaining \subseteq Announced
         /\ dest \in [Place -> Node] /\ MaxCopy \in Nat /\ rcv.remaining \subseteq rcv.expected
         /\ \A e, f \in rcv.expected : e.path = f.path => e = f
         /\ \A e \in rcv.expected \ rcv.remaining : Placed(e)
BY ArchiveAssumption DEF ArchiveInv, TypeInv, ReceiverType, UnpackInv, PlacedInv

\* A frame is done: what it takes off the list has to be in its place.
LEMMA ProceedKeeps ==
  ASSUME ArchiveInv, rcv.pc = "unpack", rcv.next > 0,
         NEW open \in {<< >>} \cup {<<a>> : a \in OpenFile},
         NEW remaining \in SUBSET rcv.remaining, Proceed(open, remaining),
         dest' \in [Place -> Node],
         open # << >> => \E e \in rcv.expected : e.path = open[1].path /\ e.kind = "file",
         \A e \in rcv.expected \ remaining : Placed(e)'
  PROVE  ArchiveInv'
<1>1. PICK next : next = rcv.next + 1
  OBVIOUS
<1>2. rcv \in ReceiverType /\ next \in Nat /\ next > 0
  BY <1>1 DEF ArchiveInv, TypeInv, ReceiverType
<1>3. remaining \in SUBSET Announced /\ remaining \subseteq rcv.expected
  BY Unpacking
<1>4. rcv' = [rcv EXCEPT !.next = next, !.open = open, !.remaining = remaining]
      /\ UNCHANGED <<inputs, source, snd, archive>>
  BY <1>1 DEF Proceed, SenderRests
<1>5. rcv' \in ReceiverType /\ rcv'.pc = "unpack" /\ rcv'.next = next
      /\ rcv'.open = open /\ rcv'.remaining = remaining /\ rcv'.expected = rcv.expected
  BY <1>2, <1>3, <1>4 DEF ReceiverType
<1>6. TypeInv'
  BY <1>3, <1>4, <1>5 DEF ArchiveInv, TypeInv, SenderType, Scannable, ReceiverType
<1>7. UnpackInv'
  <2>1. /\ snd.pc = "sent" /\ rcv.expected = Range(archive.entries)
        /\ \A e, f \in rcv.expected : e.path = f.path => e = f
    BY DEF ArchiveInv, UnpackInv
  <2> QED
    BY <1>2, <1>3, <1>4, <1>5, <2>1 DEF UnpackInv, Active
<1>8. PlacedInv'
  BY <1>5 DEF PlacedInv
<1> QED
  BY <1>5, <1>6, <1>7, <1>8 DEF ArchiveInv

\* The steps of unpack_raw_archive keep the invariant.
LEMMA ManifestKeeps ==
  ASSUME ArchiveInv, ReadManifest
  PROVE  ArchiveInv'
<1>1. CASE UnpackFails
  BY <1>1, FailKeeps
<1>2. CASE /\ Acceptable(archive.entries)
           /\ rcv' = [rcv EXCEPT !.next = 1,
                                 !.expected = Range(archive.entries),
                                 !.remaining = Range(archive.entries)]
           /\ UNCHANGED <<snd, dest, faults, litter>>
           /\ SenderRests
  <2>1. PICK all : all = Range(archive.entries)
    OBVIOUS
  <2>2. all \in SUBSET Announced
    BY <2>1 DEF Range, ArchiveInv, TypeInv
  <2>3. \A e, f \in all : e.path = f.path => e = f
    BY <1>2, <2>1 DEF Range, Acceptable, Duplicates
  <2>4. rcv.pc = "unpack" /\ rcv.next = 0 /\ rcv.open = << >> /\ snd.pc = "sent"
    BY DEF ReadManifest, ArchiveInv, UnpackInv
  <2>5. rcv' = [rcv EXCEPT !.next = 1, !.expected = all, !.remaining = all]
        /\ UNCHANGED <<snd, dest, inputs, source, archive>>
    BY <1>2, <2>1 DEF SenderRests
  <2>6. rcv' \in ReceiverType /\ rcv'.pc = "unpack" /\ rcv'.next = 1 /\ rcv'.open = << >>
        /\ rcv'.remaining = all /\ rcv'.expected = all
    BY <2>2, <2>4, <2>5, Unpacking DEF ReceiverType
  <2>7. TypeInv'
    BY <2>5, <2>6 DEF ArchiveInv, TypeInv, SenderType, Scannable, ReceiverType
  <2>8. UnpackInv'
    BY <2>1, <2>3, <2>4, <2>5, <2>6 DEF UnpackInv
  <2>9. PlacedInv'
    BY <2>6 DEF PlacedInv
  <2> QED
    BY <2>6, <2>7, <2>8, <2>9 DEF ArchiveInv
<1> QED
  BY <1>1, <1>2 DEF ReadManifest

\* A directory entry is unpacked: create_dir_all, which overwrites nothing, and
\* the entry is no longer expected.
LEMMA DirectoryKeeps ==
  ASSUME ArchiveInv, UnpackDirectory
  PROVE  ArchiveInv'
<1>1. CASE UnpackFails
  BY <1>1, FailKeeps
<1>2. CASE /\ EntryOf(Current, "dir") # {} /\ CanMakeDir(Current.path)
           /\ dest' = MakeDir(dest, Current.path)
           /\ Proceed(rcv.open, rcv.remaining \ EntryOf(Current, "dir"))
  <2>1. rcv.pc = "unpack" /\ rcv.next > 0
    BY DEF UnpackDirectory, AtFrame
  <2>2. PICK d \in rcv.remaining : d.path = Current.path /\ d.kind = "dir"
    BY <1>2 DEF EntryOf
  <2>3. PICK p : p = Current.path
    OBVIOUS
  <2>4. p \in Path /\ p \in Seq(Nat)
    BY <2>1, <2>2, <2>3, Unpacking, Paths DEF Announced
  <2>5. /\ MakeDir(dest, p) \in [Place -> Node]
        /\ \A l \in Place :
             \/ MakeDir(dest, p)[l] = dest[l]
             \/ dest[l] = Absent /\ MakeDir(dest, p)[l] = Directory
    BY <1>2, <2>3, <2>4, MakeDirIs DEF ArchiveInv
  <2>6. ASSUME NEW e \in rcv.expected \ (rcv.remaining \ EntryOf(Current, "dir"))
        PROVE  Placed(e)'
    <3>1. e \in Announced /\ MaxCopy \in Nat
      BY <2>1, Unpacking
    <3>2. CASE e \in EntryOf(Current, "dir")
      <4>1. e.path = p /\ e.kind = "dir"
        BY <2>3, <3>2 DEF EntryOf
      <4>2. dest'[<<p, 0>>] = Directory
        BY <1>2, <2>3, <2>4, MakeDirMakes DEF ArchiveInv
      <4> QED
        BY <4>1, <4>2 DEF Placed
    <3>3. CASE e \notin rcv.remaining
      <4>1. Placed(e)
        BY <2>1, <3>3, Unpacking
      <4>2. \A n \in 0..MaxCopy :
              dest'[<<e.path, n>>] = dest[<<e.path, n>>] \/ dest[<<e.path, n>>] = Absent
        BY <1>2, <2>3, <2>5, <3>1 DEF Place, Announced
      <4> QED
        BY <3>1, <4>1, <4>2, PlacedKept
    <3> QED
      BY <3>2, <3>3
  <2>7. PICK remaining : remaining = rcv.remaining \ EntryOf(Current, "dir")
    OBVIOUS
  <2>8. remaining \in SUBSET rcv.remaining
    BY <2>7
  <2>9. PICK open : open = rcv.open
    OBVIOUS
  <2>10. open \in {<< >>} \cup {<<a>> : a \in OpenFile}
         /\ (open # << >> => \E e \in rcv.expected : e.path = open[1].path /\ e.kind = "file")
    BY <2>1, <2>9, Unpacking DEF ReceiverType, ArchiveInv, UnpackInv, Active
  <2> QED
    BY <1>2, <2>1, <2>3, <2>5, <2>6, <2>7, <2>8, <2>9, <2>10, ProceedKeeps
<1> QED
  BY <1>1, <1>2 DEF UnpackDirectory

\* A file entry begins: it belongs to an entry that is still expected.
LEMMA FileStartKeeps ==
  ASSUME ArchiveInv, UnpackFileStart
  PROVE  ArchiveInv'
<1>1. CASE UnpackFails
  BY <1>1, FailKeeps
<1>2. CASE /\ EntryOf(Current, "file") # {}
           /\ Proceed(<<[path |-> Current.path, data |-> << >>]>>, rcv.remaining)
           /\ UNCHANGED dest
  <2>1. rcv.pc = "unpack" /\ rcv.next > 0
    BY DEF UnpackFileStart, AtFrame
  <2>2. PICK d \in rcv.remaining : d.path = Current.path /\ d.kind = "file"
    BY <1>2 DEF EntryOf
  <2>3. d \in rcv.expected
    BY <2>1, <2>2, Unpacking
  <2>4. PICK a : a = [path |-> Current.path, data |-> << >>]
    OBVIOUS
  <2>5. a \in OpenFile /\ a.path = d.path
    BY <2>1, <2>2, <2>4, Unpacking DEF Announced, OpenFile
  <2>6. \A e \in rcv.expected \ rcv.remaining : Placed(e)'
    BY <1>2, <2>1, Unpacking DEF Placed
  <2>7. PICK open : open = <<a>>
    OBVIOUS
  <2>8. open \in {<< >>} \cup {<<b>> : b \in OpenFile}
        /\ \E e \in rcv.expected : e.path = open[1].path /\ e.kind = "file"
    BY <2>2, <2>3, <2>5, <2>7
  <2> QED
    BY <1>2, <2>1, <2>4, <2>6, <2>7, <2>8, Unpacking, ProceedKeeps
<1> QED
  BY <1>1, <1>2 DEF UnpackFileStart

\* A chunk goes to the open file.
LEMMA ChunkKeeps ==
  ASSUME ArchiveInv, UnpackChunk
  PROVE  ArchiveInv'
<1>1. CASE UnpackFails
  BY <1>1, FailKeeps
<1>2. CASE /\ rcv.open # << >>
           /\ Proceed(<<[Active EXCEPT !.data = Active.data \o Current.data]>>, rcv.remaining)
           /\ UNCHANGED dest
  <2>1. rcv.pc = "unpack" /\ rcv.next \in 1..Len(archive.body)
    BY DEF UnpackChunk, AtFrame
  <2>2. Active \in OpenFile
    BY <1>2, <2>1, Unpacking DEF ReceiverType, Active
  <2>3. Current \in FrameType
    BY <2>1 DEF ArchiveInv, TypeInv, Current
  <2>4. PICK data : data = Active.data \o Current.data
    OBVIOUS
  <2>5. data \in Seq(Nat)
    BY <2>2, <2>3, <2>4 DEF OpenFile, FrameType
  <2>6. PICK a : a = [Active EXCEPT !.data = data]
    OBVIOUS
  <2>7. a \in OpenFile /\ a.path = Active.path
    BY <2>2, <2>5, <2>6 DEF OpenFile
  <2>8. \A e \in rcv.expected \ rcv.remaining : Placed(e)'
    BY <1>2, <2>1, Unpacking DEF Placed
  <2>9. PICK open : open = <<a>>
    OBVIOUS
  <2>10. open \in {<< >>} \cup {<<b>> : b \in OpenFile}
         /\ \E e \in rcv.expected : e.path = open[1].path /\ e.kind = "file"
    BY <1>2, <2>1, <2>7, <2>9 DEF ArchiveInv, UnpackInv
  <2>11. Proceed(open, rcv.remaining)
    BY <1>2, <2>4, <2>6, <2>9
  <2> QED
    BY <1>2, <2>1, <2>8, <2>10, <2>11, Unpacking, ProceedKeeps
<1> QED
  BY <1>1, <1>2 DEF UnpackChunk

\* A file that is moved into place is the one its entry announces.
LEMMA FileIs ==
  ASSUME ArchiveInv, rcv.pc = "unpack", rcv.next > 0, rcv.open # << >>, Verified
  PROVE  /\ Active.path \in Path /\ Active.data \in Content
         /\ \A e \in rcv.expected :
              e.path = Active.path => e = ActiveEntry
         /\ ActiveEntry \in rcv.expected /\ ActiveEntry.path = Active.path
         /\ ActiveEntry.kind = "file" /\ ActiveEntry.hash = Active.data
         /\ rcv.expected = Range(archive.entries)
<1>1. Active \in OpenFile
  BY Unpacking DEF ReceiverType, Active
<1>2. PICK e \in rcv.expected : e.path = Active.path /\ e.kind = "file"
  BY DEF ArchiveInv, UnpackInv
<1>3. \A f \in rcv.expected : f.path = Active.path => f = e
  BY <1>2, Unpacking
<1>4. ActiveEntry \in rcv.expected /\ ActiveEntry.path = Active.path
  BY <1>2 DEF ActiveEntry
<1>5. ActiveEntry = e
  BY <1>3, <1>4
<1>6. e.hash \in Content
  BY <1>2, Unpacking DEF Announced, Hashed
<1>7. rcv.expected = Range(archive.entries)
  BY DEF ArchiveInv, UnpackInv
<1> QED
  BY <1>1, <1>2, <1>3, <1>5, <1>6, <1>7 DEF OpenFile, Verified

\* The parent of a path.
LEMMA Parent ==
  ASSUME NEW p \in Path
  PROVE  SubSeq(p, 1, Len(p) - 1) \in Seq(Nat)
BY Paths

\* A file ends, is verified and moved to a free name (or over what is there,
\* with --overwrite), and its entry is in its place from now on.
LEMMA FileEndKeeps ==
  ASSUME ArchiveInv, UnpackFileEnd
  PROVE  ArchiveInv'
<1>1. CASE UnpackFails
  BY <1>1, FailKeeps
<1>2. ASSUME NEW n \in Targets(Active.path), rcv.open # << >>, Verified,
             CanPlace(Active.path, n),
             dest' = [MakeDir(dest, SubSeq(Active.path, 1, Len(Active.path) - 1))
                        EXCEPT ![<<Active.path, n>>] = Active.data],
             Proceed(<< >>, {e \in rcv.remaining : e.path # Active.path})
      PROVE  ArchiveInv'
  <2>1. rcv.pc = "unpack" /\ rcv.next > 0
    BY DEF UnpackFileEnd, AtFrame
  <2>2. PICK p : p = Active.path
    OBVIOUS
  <2>3. /\ p \in Path /\ Active.data \in Content
        /\ \A e \in rcv.expected : e.path = p => e = ActiveEntry
        /\ ActiveEntry.kind = "file" /\ ActiveEntry.hash = Active.data
        /\ ActiveEntry.path = p
    BY <1>2, <2>1, <2>2, FileIs
  <2>4. PICK d : d = MakeDir(dest, SubSeq(p, 1, Len(p) - 1))
    OBVIOUS
  <2>5. /\ d \in [Place -> Node]
        /\ \A l \in Place : d[l] = dest[l] \/ dest[l] = Absent
    BY <1>2, <2>2, <2>3, <2>4, Parent, MakeDirIs DEF CanPlace, ArchiveInv
  <2>6. n \in 0..MaxCopy /\ <<p, n>> \in Place
    BY <1>2, <2>2, <2>3, ArchiveAssumption DEF Targets, FirstFree, Place
  <2>7. dest' = [d EXCEPT ![<<p, n>>] = Active.data]
    BY <1>2, <2>2, <2>4
  <2>8. dest' \in [Place -> Node]
    BY <2>3, <2>5, <2>7 DEF Node
  <2>9. ASSUME NEW e \in rcv.expected \ {f \in rcv.remaining : f.path # p}
        PROVE  Placed(e)'
    <3>1. e \in Announced /\ MaxCopy \in Nat
      BY <2>1, Unpacking
    <3>2. CASE e.path = p
      <4>1. e.kind = "file" /\ e.hash = Active.data
        BY <2>3, <3>2
      <4>2. dest'[<<p, n>>] = Active.data
        BY <2>5, <2>6, <2>7
      <4> QED
        BY <2>6, <3>2, <4>1, <4>2 DEF Placed
    <3>3. CASE e.path # p
      <4>1. Placed(e)
        BY <2>1, <3>3, Unpacking
      <4>2. \A k \in 0..MaxCopy :
              dest'[<<e.path, k>>] = dest[<<e.path, k>>] \/ dest[<<e.path, k>>] = Absent
        <5> SUFFICES ASSUME NEW k \in 0..MaxCopy
                     PROVE  dest'[<<e.path, k>>] = dest[<<e.path, k>>]
                            \/ dest[<<e.path, k>>] = Absent
          OBVIOUS
        <5>1. <<e.path, k>> \in Place /\ <<e.path, k>> # <<p, n>>
          BY <3>1, <3>3 DEF Place, Announced
        <5> QED
          BY <2>5, <2>7, <5>1
      <4> QED
        BY <3>1, <4>1, <4>2, PlacedKept
    <3> QED
      BY <3>2, <3>3
  <2>10. PICK remaining : remaining = {f \in rcv.remaining : f.path # p}
    OBVIOUS
  <2>11. remaining \in SUBSET rcv.remaining /\ Proceed(<< >>, remaining)
    BY <1>2, <2>2, <2>10
  <2>12. PICK open : open = << >>
    OBVIOUS
  <2> QED
    BY <2>1, <2>8, <2>9, <2>10, <2>11, <2>12, ProceedKeeps
<1> QED
  BY <1>1, <1>2 DEF UnpackFileEnd

\* The end of the stream.
LEMMA EndKeeps ==
  ASSUME ArchiveInv, UnpackEnd
  PROVE  ArchiveInv'
<1>1. CASE UnpackFails
  BY <1>1, FailKeeps
<1>2. CASE /\ rcv.remaining = {}
           /\ rcv' = [ReceiverAt("done") EXCEPT !.expected = rcv.expected]
           /\ snd' = SenderAt("idle")
           /\ UNCHANGED <<dest, faults, litter>>
           /\ SenderRests
  <2>1. rcv.pc = "unpack"
    BY DEF UnpackEnd
  <2>2. rcv' \in ReceiverType /\ rcv'.pc = "done" /\ rcv'.remaining = {}
        /\ rcv'.expected = rcv.expected
    BY <1>2, <2>1, Unpacking DEF ReceiverAt, ReceiverType
  <2>3. snd' \in SenderType /\ UNCHANGED <<inputs, source, archive, dest>>
    BY <1>2, SenderAtType DEF SenderRests
  <2>4. TypeInv'
    BY <2>2, <2>3 DEF ArchiveInv, TypeInv, SenderType, Scannable, ReceiverType
  <2>5. PlacedInv'
    BY <1>2, <2>1, <2>2, <2>3, Unpacking DEF PlacedInv, Placed
  <2> QED
    BY <2>2, <2>4, <2>5 DEF ArchiveInv, UnpackInv
<1> QED
  BY <1>1, <1>2 DEF UnpackEnd

\* The process dies.
LEMMA CrashKeeps ==
  ASSUME ArchiveInv, Crash
  PROVE  ArchiveInv'
<1>1. rcv' = ReceiverAt("idle") /\ UNCHANGED <<inputs, source, archive, dest, snd>>
  BY DEF Crash, SenderRests
<1>2. snd' \in SenderType
  BY <1>1 DEF ArchiveInv, TypeInv, SenderType, Scannable
<1> QED
  BY <1>1, <1>2, ReceiverResets DEF ArchiveInv

-------------------------------------------------------------------------------
(* The users. *)

\* A user changes a file of the sender.
LEMMA EditKeeps ==
  ASSUME ArchiveInv, NEW i \in DOMAIN inputs, NEW c \in Content \cup {Gone},
         NEW b \in BOOLEAN, Edit(i, c, b)
  PROVE  ArchiveInv'
<1>1. snd \in SenderType /\ source \in [DOMAIN inputs -> Content \cup {Gone}]
  BY DEF ArchiveInv, TypeInv
<1>2. source' \in [DOMAIN inputs -> Content \cup {Gone}]
      /\ UNCHANGED <<inputs, archive, dest, rcv>>
  BY <1>1 DEF Edit
<1>3. snd' \in SenderType /\ snd'.pc = snd.pc
  <2>1. CASE UNCHANGED snd
    BY <1>1, <2>1
  <2>2. CASE b /\ snd' = [snd EXCEPT !.file = c]
    <3>1. c \in Seq(Nat)
      BY <2>2, ArchiveAssumption DEF Edit
    <3> QED
      BY <1>1, <2>2, <3>1 DEF SenderType
  <2> QED
    BY <2>1, <2>2 DEF Edit
<1> QED
  BY <1>2, <1>3, SenderStep DEF ArchiveInv, UnpackInv

\* A user of the receiver takes a name that was free.
LEMMA OccupyIs ==
  ASSUME ArchiveInv, NEW p \in Path, NEW node \in {Directory, Users}, Occupy(p, node)
  PROVE  /\ dest' \in [Place -> Node]
         /\ \A l \in Place :
              \/ dest'[l] = dest[l]
              \/ dest[l] = Absent /\ dest'[l] \in {Directory, Users}
<1>1. PICK d : d = MakeDir(dest, SubSeq(p, 1, Len(p) - 1))
  OBVIOUS
<1>2. /\ d \in [Place -> Node]
      /\ \A l \in Place : d[l] = dest[l] \/ (dest[l] = Absent /\ d[l] = Directory)
  BY <1>1, Parent, MakeDirIs DEF Occupy, ArchiveInv
<1>3. dest' = [d EXCEPT ![<<p, 0>>] = node] /\ dest[<<p, 0>>] = Absent
  BY <1>1 DEF Occupy
<1> QED
  BY <1>2, <1>3 DEF Node

\* The receiving user puts something where there was nothing; entries that
\* are in their place stay there.
LEMMA OccupyKeeps ==
  ASSUME ArchiveInv, NEW p \in Path, NEW node \in {Directory, Users}, Occupy(p, node)
  PROVE  ArchiveInv'
<1>1. /\ dest' \in [Place -> Node]
      /\ \A l \in Place : dest'[l] = dest[l] \/ dest[l] = Absent
  BY OccupyIs
<1>2. UNCHANGED <<inputs, source, snd, archive, rcv>>
  BY DEF Occupy
<1>3. TypeInv'
  BY <1>1, <1>2 DEF ArchiveInv, TypeInv, SenderType, Scannable, ReceiverType
<1>4. ASSUME rcv.pc \in {"unpack", "done"}, NEW e \in rcv.expected \ rcv.remaining
      PROVE  Placed(e)'
  <2>1. Placed(e) /\ e \in Announced /\ MaxCopy \in Nat
    BY <1>4, ArchiveAssumption DEF ArchiveInv, PlacedInv, TypeInv, ReceiverType
  <2>2. \A n \in 0..MaxCopy : <<e.path, n>> \in Place
    BY <2>1 DEF Place, Announced
  <2> QED
    BY <1>1, <2>1, <2>2, PlacedKept
<1>5. PlacedInv'
  BY <1>2, <1>4 DEF PlacedInv
<1>6. UnpackInv'
  BY <1>2 DEF ArchiveInv, UnpackInv, Active
<1> QED
  BY <1>2, <1>3, <1>5, <1>6 DEF ArchiveInv

-------------------------------------------------------------------------------
(* What is unpacked. *)

\* Nothing is unpacked and nothing is promised at the start.
LEMMA Initially ==
  ASSUME Init
  PROVE  ArchiveInv
<1>1. snd \in SenderType
  BY SenderAtType DEF Init
<1>2. rcv = ReceiverAt("idle") /\ rcv \in ReceiverType /\ rcv.pc = "idle"
  BY DEF Init, ReceiverAt, ReceiverType
<1>3. archive.entries = << >> /\ archive.body = << >>
  BY DEF Init, NoArchive
<1>4. inputs \in Seq(Input) /\ source \in [DOMAIN inputs -> Content \cup {Gone}]
  BY ArchiveAssumption DEF Init
<1>5. dest \in [Place -> Node]
  BY DEF Init, Node
<1>6. TypeInv
  BY <1>1, <1>2, <1>3, <1>4, <1>5 DEF TypeInv
<1> QED
  BY <1>2, <1>6 DEF ArchiveInv, UnpackInv, PlacedInv

\* Every step keeps the invariant.
LEMMA Stays ==
  ASSUME ArchiveInv, [Next]_vars
  PROVE  ArchiveInv'
<1>1. CASE UNCHANGED vars
  <2>1. UNCHANGED <<inputs, source, snd, archive, dest, rcv>>
    BY <1>1 DEF vars
  <2>2. TypeInv'
    BY <2>1 DEF ArchiveInv, TypeInv, SenderType, Scannable, ReceiverType
  <2>3. UnpackInv' /\ PlacedInv'
    BY <2>1 DEF ArchiveInv, UnpackInv, PlacedInv, Placed, Active
  <2> QED
    BY <2>1, <2>2, <2>3 DEF ArchiveInv
<1>2. CASE StartUnpack
  <2>1. rcv' = ReceiverAt("unpack") /\ UNCHANGED <<inputs, source, snd, archive, dest>>
        /\ snd.pc = "sent"
    BY <1>2 DEF StartUnpack, SenderRests
  <2>2. rcv' \in ReceiverType /\ rcv'.pc = "unpack" /\ rcv'.next = 0 /\ rcv'.open = << >>
        /\ rcv'.remaining = {} /\ rcv'.expected = {}
    BY <2>1 DEF ReceiverAt, ReceiverType
  <2>3. TypeInv'
    BY <2>1, <2>2 DEF ArchiveInv, TypeInv, SenderType, Scannable, ReceiverType
  <2> QED
    BY <2>1, <2>2, <2>3 DEF ArchiveInv, UnpackInv, PlacedInv
<1>3. CASE UnpackStep
  BY <1>2, <1>3, ManifestKeeps, DirectoryKeeps, FileStartKeeps, ChunkKeeps, FileEndKeeps, EndKeeps
     DEF UnpackStep
<1>4. CASE IoError
  BY <1>4, FailKeeps DEF IoError
<1>5. CASE UserStep
  BY <1>5, EditKeeps, OccupyKeeps DEF UserStep
<1> QED
  BY <1>1, <1>3, <1>4, <1>5, CreateStepKeeps, CrashKeeps DEF Next, Finished

\* The inductive invariant behind the three theorems.
LEMMA Invariant == Spec => []ArchiveInv
BY Initially, Stays, PTL DEF Spec

\* When unpacking reports success, every directory and every file of the
\* manifest is in its place, whatever users did to either side meanwhile.
THEOREM SuccessMeansAll == Spec => []DoneMeansAll
<1>1. ArchiveInv => DoneMeansAll
  BY DEF ArchiveInv, PlacedInv, Placed, DoneMeansAll
<1> QED
  BY <1>1, Invariant, PTL

\* A file with the content that its entry announces is put into place.
FilePlaced ==
  \E p \in Path, n \in 0..MaxCopy :
    /\ \E e \in Range(archive.entries) :
         e.kind = "file" /\ e.path = p /\ e.hash = dest'[<<p, n>>]
    /\ ~overwrite => dest[<<p, n>>] = Absent
    /\ \A l \in Place : l # <<p, n>> =>
         dest'[l] = dest[l] \/ (dest[l] = Absent /\ dest'[l] = Directory)

\* Directories, or something of a user's, appear where nothing was.
OnlyFreeTaken ==
  \A l \in Place :
    dest'[l] = dest[l] \/ (dest[l] = Absent /\ dest'[l] \in {Directory, Users})

\* What a step does to the receiver's directory.
LEMMA DirectoryStep ==
  ASSUME ArchiveInv, [Next]_vars
  PROVE  OnlyFreeTaken \/ FilePlaced
<1>1. CASE UNCHANGED dest
  BY <1>1 DEF OnlyFreeTaken
<1>2. CASE UnpackFails
  BY <1>1, <1>2 DEF UnpackFails
<1>3. CASE UnpackDirectory
  <2>1. CASE /\ EntryOf(Current, "dir") # {} /\ CanMakeDir(Current.path)
             /\ dest' = MakeDir(dest, Current.path)
    <3>1. rcv.pc = "unpack"
      BY <1>3 DEF UnpackDirectory, AtFrame
    <3>2. PICK d \in rcv.remaining : d.path = Current.path
      BY <2>1 DEF EntryOf
    <3>3. Current.path \in Seq(Nat)
      BY <3>1, <3>2, Unpacking, Paths DEF Announced
    <3> QED
      BY <2>1, <3>3, MakeDirIs DEF OnlyFreeTaken, ArchiveInv
  <2> QED
    BY <1>2, <1>3, <2>1 DEF UnpackDirectory
<1>4. CASE UnpackFileEnd
  <2>1. ASSUME NEW n \in Targets(Active.path), rcv.open # << >>, Verified,
               CanPlace(Active.path, n),
               dest' = [MakeDir(dest, SubSeq(Active.path, 1, Len(Active.path) - 1))
                          EXCEPT ![<<Active.path, n>>] = Active.data]
        PROVE  FilePlaced
    <3>1. PICK p : p = Active.path
      OBVIOUS
    <3>2. rcv.pc = "unpack" /\ rcv.next > 0
      BY <1>4 DEF UnpackFileEnd, AtFrame
    <3>3. p \in Path
          /\ \E e \in Range(archive.entries) :
               e.kind = "file" /\ e.path = p /\ e.hash = Active.data
      BY <2>1, <3>1, <3>2, FileIs
    <3>4. PICK d : d = MakeDir(dest, SubSeq(p, 1, Len(p) - 1))
      OBVIOUS
    <3>5. /\ d \in [Place -> Node]
          /\ \A l \in Place : d[l] = dest[l] \/ (dest[l] = Absent /\ d[l] = Directory)
      BY <2>1, <3>1, <3>3, <3>4, Parent, MakeDirIs DEF CanPlace, ArchiveInv
    <3>6. dest' = [d EXCEPT ![<<p, n>>] = Active.data]
      BY <2>1, <3>1, <3>4
    <3>7. n \in 0..MaxCopy /\ <<p, n>> \in Place /\ (~overwrite => dest[<<p, n>>] = Absent)
      BY <2>1, <3>1, <3>3, ArchiveAssumption DEF Targets, FirstFree, Place
    <3> QED
      BY <3>3, <3>5, <3>6, <3>7 DEF FilePlaced
  <2> QED
    BY <1>2, <1>4, <2>1 DEF UnpackFileEnd
<1>5. CASE UserStep
  BY <1>1, <1>5, OccupyIs DEF UserStep, Edit, OnlyFreeTaken
<1>6. CASE CreateStep
  <2>1. CASE ReceiverRests \/ \E order \in Orders : StartSend(order)
    BY <1>1, <2>1 DEF ReceiverRests, StartSend
  <2> QED
    BY <1>6, <2>1
       DEF CreateStep, ScanRejects, ScanSkips, ScanDirectory, ScanFileSize, ScanFileHash,
           ScanEnds, Scan, SendFails, BuildDirectory, BuildFileStart, BuildChunk,
           BuildFileEnd, BuildFails, WriteFrame, FinishArchive, NextSend
<1>7. CASE StartUnpack \/ ReadManifest \/ UnpackFileStart \/ UnpackChunk \/ UnpackEnd
  BY <1>1, <1>2, <1>7
     DEF StartUnpack, ReadManifest, UnpackFileStart, UnpackChunk, UnpackEnd
<1>8. CASE IoError \/ Crash \/ Finished \/ UNCHANGED vars
  BY <1>1, <1>2, <1>8 DEF IoError, Crash, Finished, vars
<1> QED
  BY <1>3, <1>4, <1>5, <1>6, <1>7, <1>8 DEF Next, UnpackStep

\* What unpacking puts in place is announced by the manifest, byte for byte.
THEOREM OnlyAnnouncedFiles == Spec => OnlyVerifiedFiles
<1>1. ASSUME ArchiveInv, [Next]_vars, rcv.pc = "unpack", NEW l \in Place,
             dest'[l] # dest[l], dest'[l] \notin {Directory, Users}
      PROVE  \E e \in Range(archive.entries) :
               e.kind = "file" /\ e.path = l[1] /\ e.hash = dest'[l]
  <2>1. FilePlaced
    BY <1>1, DirectoryStep DEF OnlyFreeTaken
  <2>2. PICK p \in Path, n \in 0..MaxCopy :
          /\ \E e \in Range(archive.entries) :
               e.kind = "file" /\ e.path = p /\ e.hash = dest'[<<p, n>>]
          /\ l # <<p, n>> => dest'[l] = dest[l] \/ dest'[l] = Directory
    BY <2>1 DEF FilePlaced
  <2>3. l = <<p, n>>
    BY <1>1, <2>2
  <2>4. l[1] = p
    BY <2>3
  <2> QED
    BY <2>2, <2>3, <2>4
<1>2. ArchiveInv /\ [Next]_vars =>
        [rcv.pc = "unpack" =>
           \A l \in Place : dest'[l] # dest[l] /\ dest'[l] \notin {Directory, Users} =>
             \E e \in Range(archive.entries) :
               e.kind = "file" /\ e.path = l[1] /\ e.hash = dest'[l]]_vars
  BY <1>1
<1> QED
  BY <1>2, Invariant, PTL DEF Spec, OnlyVerifiedFiles

\* Without --overwrite nothing that is there is changed.
THEOREM NothingOverwritten == Spec => ExistingKept
<1>1. ASSUME ArchiveInv, [Next]_vars, ~overwrite, NEW l \in Place, dest[l] # Absent
      PROVE  dest'[l] = dest[l]
  BY <1>1, DirectoryStep DEF OnlyFreeTaken, FilePlaced
<1>2. ArchiveInv /\ [Next]_vars =>
        [~overwrite => \A l \in Place : dest[l] # Absent => dest'[l] = dest[l]]_vars
  BY <1>1
<1> QED
  BY <1>2, Invariant, PTL DEF Spec, ExistingKept

-------------------------------------------------------------------------------
(* An archive of sources that nobody touched. *)

\* Where create_archive_body or unpack_raw_archive is: at an entry, and how much
\* of its file has passed, or -1 between two entries.
Position == Nat \X Int

\* This frame leads from the position p to q.
Follows(entries, p, frame, q) ==
  LET e == entries[p[1]] IN
  /\ p[1] \in DOMAIN entries /\ frame.path = e.path
  /\ \/ /\ e.kind = "dir" /\ p[2] = -1
        /\ frame.type = "dir" /\ frame.data = << >> /\ q = <<p[1] + 1, -1>>
     \/ /\ e.kind = "file" /\ p[2] = -1
        /\ frame.type = "start" /\ frame.data = << >> /\ q = <<p[1], 0>>
     \/ /\ e.kind = "file" /\ p[2] \in 0..(Len(e.hash) - 1)
        /\ frame.type = "chunk" /\ frame.data = <<e.hash[p[2] + 1]>> /\ q = <<p[1], p[2] + 1>>
     \/ /\ e.kind = "file" /\ p[2] = Len(e.hash)
        /\ frame.type = "end" /\ frame.data = << >> /\ q = <<p[1] + 1, -1>>

\* The frames lead from the first entry through these positions, ...
Walk(entries, body, w) ==
  /\ w \in [1..(Len(body) + 1) -> Position]
  /\ w[1] = <<1, -1>>
  /\ \A i \in 1..Len(body) : Follows(entries, w[i], body[i], w[i + 1])

\* ... to this one.
Carries(entries, body, at, read) ==
  \E w : Walk(entries, body, w) /\ w[Len(body) + 1] = <<at, read>>

\* The inputs that become an entry, and the entry each becomes.
Kept == {i \in DOMAIN inputs : inputs[i].type \in {"file", "dir"}}

Shown(i, content) ==
  IF inputs[i].type = "dir"
  THEN [path |-> inputs[i].path, kind |-> "dir", size |-> 0, hash |-> << >>]
  ELSE [path |-> inputs[i].path, kind |-> "file", size |-> Len(content[i]), hash |-> content[i]]

Faithful(e) ==
  /\ e.src \in Kept
  /\ [path |-> e.path, kind |-> e.kind, size |-> e.size, hash |-> e.hash] = Shown(e.src, source)

Sorted(entries) ==
  \A i, j \in DOMAIN entries :
    i < j => Before(entries[i].path, entries[j].path) \/ entries[i].path = entries[j].path

\* No input makes two entries.
OncePerInput(entries) ==
  \A k, l \in DOMAIN entries : entries[k].src = entries[l].src => k = l

\* create_archive at work on sources that nobody touched meanwhile.
ScanOK(s) ==
  /\ s.order \in Orders /\ s.at <= Len(s.order) + 1
  /\ s.size # -1 =>
       /\ s.at <= Len(s.order) /\ inputs[s.order[s.at]].type = "file"
       /\ s.size = Len(source[s.order[s.at]])
  /\ \A k \in DOMAIN s.entries :
       /\ Faithful(s.entries[k])
       /\ \E j \in 1..(s.at - 1) : s.order[j] = s.entries[k].src
  /\ \A j \in 1..(s.at - 1) : s.order[j] \in Kept =>
       \E k \in DOMAIN s.entries : s.entries[k].src = s.order[j]
  /\ OncePerInput(s.entries)
  /\ s.body = << >> /\ s.read = -1

\* The entries are those of the inputs, in the order of their paths.
EntriesOK(entries) ==
  /\ \A k \in DOMAIN entries : Faithful(entries[k])
  /\ \A i \in Kept : \E k \in DOMAIN entries : entries[k].src = i
  /\ OncePerInput(entries)
  /\ Sorted(entries)

BuildOK(s) ==
  /\ EntriesOK(s.entries)
  /\ Carries(s.entries, s.body, s.at, s.read)
  /\ s.at <= Len(s.entries) + 1
  /\ s.read # -1 =>
       /\ s.at <= Len(s.entries) /\ s.entries[s.at].kind = "file"
       /\ s.file = s.entries[s.at].hash /\ s.read \in 0..Len(s.file)

SendInv ==
  /\ ~disturbed /\ snd.pc = "scan" => ScanOK(snd)
  /\ ~disturbed /\ snd.pc = "build" => BuildOK(snd)

\* The entries from the i-th on.
From(entries, i) == {entries[j] : j \in i..Len(entries)}

\* What the receiver has when it is at p.
Reached(p) ==
  /\ rcv.remaining = From(archive.entries, p[1])
  /\ rcv.open = IF p[2] = -1 THEN << >>
                ELSE <<[path |-> archive.entries[p[1]].path,
                        data |-> SubSeq(archive.entries[p[1]].hash, 1, p[2])]>>

WholeInv ==
  ~disturbed /\ snd.pc = "sent" =>
    /\ \A i \in DOMAIN archive.entries :
         archive.entries[i].kind = "file" =>
           archive.entries[i].size = Len(archive.entries[i].hash)
    /\ \E w : /\ Walk(archive.entries, archive.body, w)
              /\ w[Len(archive.body) + 1] = <<Len(archive.entries) + 1, -1>>
              /\ rcv.pc = "unpack" /\ rcv.next > 0 =>
                   /\ rcv.next <= Len(archive.body) + 1
                   /\ ~Duplicates(archive.entries)
                   /\ Reached(w[rcv.next])

\* One side is at work at a time.
TurnInv ==
  /\ rcv.pc \in {"done", "failed"} => snd.pc = "idle"
  /\ snd.pc \in {"scan", "build", "failed"} => rcv.pc = "idle"

CauseInv ==
  /\ ArchiveInv /\ TurnInv /\ SendInv /\ WholeInv
  /\ faults \in Nat /\ FailureHasCause

\* An archive made of these contents, and of nothing else.
MadeOf(content, a) ==
  /\ a = [id |-> a.id, compression |-> a.compression, entries |-> a.entries, body |-> a.body]
  /\ a.entries \in Seq(Announced) /\ a.body \in Seq(FrameType)
  /\ a.compression = Resolved(requested, Len(a.body) + 1)
  /\ a.id = ManifestId(a.compression, a.entries)
  /\ \E f \in [DOMAIN a.entries -> Kept] :
       /\ \A k, l \in DOMAIN a.entries : f[k] = f[l] => k = l
       /\ \A i \in Kept : \E k \in DOMAIN a.entries : f[k] = i
       /\ \A k \in DOMAIN a.entries : a.entries[k] = Shown(f[k], content)
  /\ Sorted(a.entries)
  /\ Carries(a.entries, a.body, Len(a.entries) + 1, -1)

MadeInv == \A m \in made : MadeOf(m[1], m[2])

-------------------------------------------------------------------------------
(* Frames. *)

\* One more frame leads one position further.
LEMMA WalkOn ==
  ASSUME NEW entries, NEW body \in Seq(FrameType), NEW frame \in FrameType,
         NEW p \in Position, NEW q \in Position,
         Carries(entries, body, p[1], p[2]), Follows(entries, p, frame, q)
  PROVE  Carries(entries, Append(body, frame), q[1], q[2])
<1>1. PICK w : Walk(entries, body, w) /\ w[Len(body) + 1] = <<p[1], p[2]>>
  BY DEF Carries
<1>2. p = <<p[1], p[2]>> /\ q = <<q[1], q[2]>>
  BY DEF Position
<1>3. PICK n \in Nat : n = Len(body)
  OBVIOUS
<1>4. PICK longer : longer = Append(body, frame)
  OBVIOUS
<1>5. longer \in Seq(FrameType) /\ Len(longer) = n + 1 /\ longer[n + 1] = frame
      /\ \A i \in 1..n : longer[i] = body[i]
  BY <1>3, <1>4
<1>6. w \in [1..(n + 1) -> Position] /\ w[1] = <<1, -1>> /\ w[n + 1] = p
      /\ \A i \in 1..n : Follows(entries, w[i], body[i], w[i + 1])
  BY <1>1, <1>2, <1>3 DEF Walk
<1>7. PICK v : v = [i \in 1..(n + 2) |-> IF i = n + 2 THEN q ELSE w[i]]
  OBVIOUS
<1>8. v \in [1..(n + 2) -> Position] /\ v[n + 2] = q /\ \A i \in 1..(n + 1) : v[i] = w[i]
  BY <1>6, <1>7
<1>9. \A i \in 1..(n + 1) : Follows(entries, v[i], longer[i], v[i + 1])
  <2> SUFFICES ASSUME NEW i \in 1..(n + 1)
               PROVE  Follows(entries, v[i], longer[i], v[i + 1])
    OBVIOUS
  <2>1. CASE i = n + 1
    <3>1. v[i] = p /\ longer[i] = frame /\ v[i + 1] = q
      BY <1>5, <1>6, <1>8, <2>1
    <3> QED
      BY <3>1
  <2>2. CASE i # n + 1
    <3>1. i \in 1..n /\ i + 1 \in 1..(n + 1)
      BY <1>3, <2>2
    <3>2. v[i] = w[i] /\ longer[i] = body[i] /\ v[i + 1] = w[i + 1]
      BY <1>5, <1>8, <3>1
    <3> QED
      BY <1>6, <3>1, <3>2
  <2> QED
    BY <2>1, <2>2
<1>10. Walk(entries, longer, v)
  BY <1>5, <1>6, <1>8, <1>9 DEF Walk
<1> QED
  BY <1>2, <1>4, <1>5, <1>8, <1>10 DEF Carries

\* Before the first frame.
LEMMA WalkStarts ==
  ASSUME NEW entries, NEW body, body = << >>
  PROVE  Carries(entries, body, 1, -1)
<1>1. PICK w : w = [i \in 1..1 |-> <<1, -1>>]
  OBVIOUS
<1>2. w \in [1..1 -> Position] /\ w[1] = <<1, -1>> /\ Len(body) = 0
  BY <1>1 DEF Position
<1>3. Walk(entries, body, w)
  BY <1>2 DEF Walk
<1> QED
  BY <1>2, <1>3 DEF Carries

\* What the entries say of their sources does not matter.
LEMMA WalkIsPublic ==
  ASSUME NEW entries \in Seq(Scannable), NEW body, NEW w
  PROVE  Walk(entries, body, w) <=> Walk(Public(entries), body, w)
<1>1. PICK open : open = Public(entries)
  OBVIOUS
<1>2. DOMAIN open = DOMAIN entries
      /\ \A i \in DOMAIN entries : /\ open[i].path = entries[i].path
                                   /\ open[i].kind = entries[i].kind
                                   /\ open[i].hash = entries[i].hash
  BY <1>1 DEF Public
<1>3. ASSUME NEW p, NEW f, NEW q
      PROVE  Follows(entries, p, f, q) <=> Follows(open, p, f, q)
  <2>1. CASE p[1] \in DOMAIN entries
    <3>1. PICK e, x : e = entries[p[1]] /\ x = open[p[1]]
      OBVIOUS
    <3>2. x.path = e.path /\ x.kind = e.kind /\ x.hash = e.hash
      BY <1>2, <2>1, <3>1
    <3> QED
      BY <1>2, <3>1, <3>2 DEF Follows
  <2>2. CASE p[1] \notin DOMAIN entries
    BY <1>2, <2>2 DEF Follows
  <2> QED
    BY <2>1, <2>2
<1> QED
  BY <1>1, <1>3 DEF Walk

-------------------------------------------------------------------------------
(* The sender. *)

\* Nothing in these is about another state than the sources.
LEMMA SameSources ==
  ASSUME UNCHANGED <<inputs, source>>, NEW s, snd' = s
  PROVE  /\ ScanOK(s) => ScanOK(snd)'
         /\ BuildOK(s) => BuildOK(snd)'
<1>1. inputs' = inputs /\ source' = source /\ snd' = s
  OBVIOUS
<1>2. Orders' = Orders /\ Kept' = Kept
  BY <1>1 DEF Orders, Kept
<1>3. \A e : Faithful(e)' <=> Faithful(e)
  BY <1>1, <1>2 DEF Faithful, Shown
<1>4. ScanOK(s) => ScanOK(snd)'
  BY <1>1, <1>2, <1>3 DEF ScanOK, OncePerInput
<1>5. BuildOK(s) => BuildOK(snd)'
  BY <1>1, <1>2, <1>3
     DEF BuildOK, EntriesOK
<1> QED
  BY <1>4, <1>5

\* The orders are permutations of the inputs.
LEMMA OrderIs ==
  ASSUME inputs \in Seq(Input), NEW order \in Orders
  PROVE  /\ order \in Seq(DOMAIN inputs) /\ Len(order) = Len(inputs)
         /\ \A i, j \in 1..Len(order) : order[i] = order[j] => i = j
         /\ \A k \in DOMAIN inputs : \E j \in 1..Len(order) : order[j] = k
<1>1. PICK n \in Nat : n = Len(inputs)
  OBVIOUS
<1>2. DOMAIN inputs = 1..n
  BY <1>1
<1>3. order \in [1..n -> 1..n] /\ \A i, j \in 1..n : order[i] = order[j] => i = j
  BY <1>2 DEF Orders
<1>4. order \in Seq(DOMAIN inputs) /\ Len(order) = n
  BY <1>2, <1>3
<1>5. order \in Injection(1..n, 1..n)
  BY <1>3 DEF Injection, IsInjective
<1>6. IsFiniteSet(1..n)
  BY <1>1, FS_Interval
<1>7. order \in Surjection(1..n, 1..n)
  BY <1>5, <1>6, FS_Injection
<1>8. \A k \in 1..n : \E j \in 1..n : order[j] = k
  BY <1>7 DEF Surjection
<1> QED
  BY <1>1, <1>2, <1>3, <1>4, <1>8

\* An input is scanned: it adds its entry, or none.
LEMMA ScanStep ==
  ASSUME inputs \in Seq(Input), snd \in SenderType, ScanOK(snd), snd.at <= Len(snd.order),
         NEW s \in SenderType, s.order = snd.order, s.at = snd.at + 1, s.size = -1,
         s.body = snd.body, s.read = snd.read,
         \/ Scanned \notin Kept /\ s.entries = snd.entries
         \/ \E e \in Scannable :
              s.entries = Append(snd.entries, e) /\ e.src = Scanned /\ Faithful(e)
  PROVE  ScanOK(s)
<1>1. PICK order, at, new, old : order = snd.order /\ at = snd.at
        /\ old = snd.entries /\ new = s.entries
  OBVIOUS
<1>2. /\ order \in Orders /\ at \in 1..Len(order) /\ old \in Seq(Scannable)
      /\ new \in Seq(Scannable) /\ s.order = order /\ s.at = at + 1 /\ Scanned = order[at]
  BY <1>1 DEF SenderType, ScanOK, Scanned
<1>3. /\ order \in Seq(DOMAIN inputs) /\ Len(order) \in Nat
      /\ \A i, j \in 1..Len(order) : order[i] = order[j] => i = j
  BY <1>2, OrderIs
<1>4. /\ \A k \in DOMAIN old : Faithful(old[k]) /\ \E j \in 1..(at - 1) : order[j] = old[k].src
      /\ \A j \in 1..(at - 1) : order[j] \in Kept => \E k \in DOMAIN old : old[k].src = order[j]
      /\ OncePerInput(old)
  BY <1>1 DEF ScanOK
<1>5. s.body = << >> /\ s.read = -1 /\ s.size = -1
  BY DEF ScanOK
<1>6. CASE Scanned \notin Kept /\ new = old
  <2>1. \A k \in DOMAIN new : Faithful(new[k]) /\ \E j \in 1..((at + 1) - 1) : order[j] = new[k].src
    BY <1>2, <1>4, <1>6
  <2>2. \A j \in 1..((at + 1) - 1) : order[j] \in Kept => \E k \in DOMAIN new : new[k].src = order[j]
    BY <1>2, <1>4, <1>6
  <2> QED
    BY <1>1, <1>2, <1>3, <1>4, <1>5, <1>6, <2>1, <2>2 DEF ScanOK
<1>7. CASE \E e \in Scannable : new = Append(old, e) /\ e.src = Scanned /\ Faithful(e)
  <2>1. PICK e \in Scannable : new = Append(old, e) /\ e.src = order[at] /\ Faithful(e)
    BY <1>2, <1>7
  <2>2. PICK n \in Nat : n = Len(old)
    BY <1>2
  <2>3. /\ DOMAIN old = 1..n /\ DOMAIN new = 1..(n + 1)
        /\ new[n + 1] = e /\ \A k \in 1..n : new[k] = old[k]
    BY <1>2, <2>1, <2>2
  <2>4. \A k \in DOMAIN new : Faithful(new[k]) /\ \E j \in 1..((at + 1) - 1) : order[j] = new[k].src
    <3> SUFFICES ASSUME NEW k \in 1..(n + 1)
                 PROVE  Faithful(new[k]) /\ \E j \in 1..((at + 1) - 1) : order[j] = new[k].src
      BY <2>3
    <3>1. CASE k = n + 1
      <4>1. new[k] = e /\ at \in 1..((at + 1) - 1)
        BY <1>2, <2>3, <3>1
      <4> QED
        BY <2>1, <4>1
    <3>2. CASE k # n + 1
      <4>1. k \in 1..n /\ new[k] = old[k]
        BY <2>2, <2>3, <3>2
      <4>2. Faithful(old[k]) /\ \E j \in 1..(at - 1) : order[j] = old[k].src
        BY <1>4, <2>3, <4>1
      <4> QED
        BY <1>2, <4>1, <4>2
    <3> QED
      BY <3>1, <3>2
  <2>5. \A j \in 1..((at + 1) - 1) : order[j] \in Kept => \E k \in DOMAIN new : new[k].src = order[j]
    <3> SUFFICES ASSUME NEW j \in 1..((at + 1) - 1), order[j] \in Kept
                 PROVE  \E k \in 1..(n + 1) : new[k].src = order[j]
      BY <2>3
    <3>1. CASE j = at
      BY <2>1, <2>2, <2>3, <3>1
    <3>2. CASE j # at
      <4>1. j \in 1..(at - 1)
        BY <1>2, <3>2
      <4>2. PICK k \in 1..n : old[k].src = order[j]
        BY <1>4, <2>3, <4>1
      <4> QED
        BY <2>2, <2>3, <4>2
    <3> QED
      BY <3>1, <3>2
  <2>6. OncePerInput(new)
    <3> SUFFICES ASSUME NEW k \in 1..(n + 1), NEW l \in 1..(n + 1), new[k].src = new[l].src
                 PROVE  k = l
      BY <2>3 DEF OncePerInput
    <3>1. ASSUME NEW m \in 1..n
          PROVE  new[m].src # order[at]
      <4>1. PICK j \in 1..(at - 1) : order[j] = new[m].src
        BY <1>4, <2>3, <3>1
      <4>2. j \in 1..Len(order) /\ j # at
        BY <1>2, <1>3, <4>1
      <4> QED
        BY <1>2, <1>3, <4>1, <4>2
    <3>2. CASE k \in 1..n /\ l \in 1..n
      <4>1. old[k].src = old[l].src
        BY <2>3, <3>2
      <4> QED
        BY <1>4, <2>3, <3>2, <4>1 DEF OncePerInput
    <3>3. CASE k = n + 1 /\ l # n + 1
      BY <2>1, <2>2, <2>3, <3>1, <3>3
    <3>4. CASE k # n + 1 /\ l = n + 1
      BY <2>1, <2>2, <2>3, <3>1, <3>4
    <3> QED
      BY <2>2, <3>2, <3>3, <3>4
  <2> QED
    BY <1>1, <1>2, <1>3, <1>5, <2>4, <2>5, <2>6 DEF ScanOK
<1> QED
  BY <1>1, <1>6, <1>7

\* The order of paths is strict.
LEMMA BeforeIsStrict ==
  ASSUME NEW p \in Seq(Nat), NEW q \in Seq(Nat), Before(p, q)
  PROVE  ~Before(q, p) /\ p # q
<1>1. PICK n \in 0..Len(p) :
        /\ n <= Len(q) /\ SubSeq(p, 1, n) = SubSeq(q, 1, n)
        /\ \/ n = Len(p) /\ n < Len(q)
           \/ n < Len(p) /\ n < Len(q) /\ p[n + 1] < q[n + 1]
  BY DEF Before
<1>2. \A i \in 1..n : p[i] = q[i]
  <2> SUFFICES ASSUME NEW i \in 1..n
               PROVE  p[i] = q[i]
    OBVIOUS
  <2>1. SubSeq(p, 1, n)[i] = p[i] /\ SubSeq(q, 1, n)[i] = q[i]
    BY <1>1
  <2> QED
    BY <1>1, <2>1
<1>3. p # q
  BY <1>1, <1>2
<1>4. ASSUME Before(q, p)
      PROVE  FALSE
  <2>1. PICK m \in 0..Len(q) :
          /\ m <= Len(p) /\ SubSeq(q, 1, m) = SubSeq(p, 1, m)
          /\ \/ m = Len(q) /\ m < Len(p)
             \/ m < Len(q) /\ m < Len(p) /\ q[m + 1] < p[m + 1]
    BY <1>4 DEF Before
  <2>2. \A i \in 1..m : p[i] = q[i]
    <3> SUFFICES ASSUME NEW i \in 1..m
                 PROVE  p[i] = q[i]
      OBVIOUS
    <3>1. SubSeq(p, 1, m)[i] = p[i] /\ SubSeq(q, 1, m)[i] = q[i]
      BY <2>1
    <3> QED
      BY <2>1, <3>1
  <2>3. CASE m < n
    <3>1. m + 1 \in 1..n /\ p[m + 1] = q[m + 1] /\ p[m + 1] \in Nat
      BY <1>1, <1>2, <2>1, <2>3
    <3> QED
      BY <1>1, <2>1, <2>3, <3>1
  <2>4. CASE n < m
    <3>1. n + 1 \in 1..m /\ p[n + 1] = q[n + 1] /\ p[n + 1] \in Nat
      BY <1>1, <2>1, <2>2, <2>4
    <3> QED
      BY <1>1, <2>1, <2>4, <3>1
  <2>5. CASE m = n
    <3>1. n < Len(p) /\ n < Len(q) => p[n + 1] \in Nat /\ q[n + 1] \in Nat
      BY <1>1
    <3> QED
      BY <1>1, <2>1, <2>5, <3>1
  <2> QED
    BY <1>1, <2>1, <2>3, <2>4, <2>5
<1> QED
  BY <1>3, <1>4

\* Sorting neither loses nor repeats an entry.
LEMMA SortIs ==
  ASSUME NEW entries \in Seq(Scannable), NEW sorted \in SortEntries(entries),
         \A k \in DOMAIN entries : Faithful(entries[k]),
         \A i \in Kept : \E k \in DOMAIN entries : entries[k].src = i,
         OncePerInput(entries)
  PROVE  EntriesOK(sorted)
<1>1. PICK n \in Nat : n = Len(entries)
  OBVIOUS
<1>2. DOMAIN entries = 1..n /\ \A i \in 1..n : entries[i].path \in Seq(Nat)
  <2>1. \A e \in Scannable : e.path \in Path
    BY DEF Scannable
  <2> QED
    BY <1>1, <2>1, Paths
<1>3. PICK o \in [1..n -> 1..n] :
        /\ sorted = [i \in 1..n |-> entries[o[i]]]
        /\ \A i, j \in 1..n : i < j =>
             \/ Before(entries[o[i]].path, entries[o[j]].path)
             \/ entries[o[i]].path = entries[o[j]].path /\ o[i] < o[j]
  BY <1>1, <1>2 DEF SortEntries
<1>4. \A i, j \in 1..n : o[i] = o[j] => i = j
  <2> SUFFICES ASSUME NEW i \in 1..n, NEW j \in 1..n, i < j, o[i] = o[j]
               PROVE  FALSE
    BY <1>1
  <2>1. PICK k \in 1..n : k = o[i]
    BY <1>3
  <2>2. \/ Before(entries[o[i]].path, entries[o[j]].path)
        \/ o[i] < o[j]
    BY <1>3
  <2>3. k = o[j] /\ ~(k < k)
    BY <2>1
  <2>4. Before(entries[k].path, entries[k].path)
    BY <2>1, <2>2, <2>3
  <2> QED
    BY <1>2, <2>4, BeforeIsStrict
<1>5. \A k \in 1..n : \E i \in 1..n : o[i] = k
  <2>1. o \in Injection(1..n, 1..n)
    BY <1>3, <1>4 DEF Injection, IsInjective
  <2>2. IsFiniteSet(1..n)
    BY <1>1, FS_Interval
  <2>3. o \in Surjection(1..n, 1..n)
    BY <2>1, <2>2, FS_Injection
  <2> QED
    BY <2>3 DEF Surjection
<1>6. DOMAIN sorted = 1..n /\ \A i \in 1..n : sorted[i] = entries[o[i]] /\ o[i] \in 1..n
  BY <1>3
<1>7. \A k \in DOMAIN sorted : Faithful(sorted[k])
  <2> SUFFICES ASSUME NEW k \in 1..n
               PROVE  Faithful(sorted[k])
    BY <1>6
  <2>1. PICK j \in 1..n : j = o[k] /\ sorted[k] = entries[j]
    BY <1>6
  <2>2. j \in DOMAIN entries
    BY <1>2, <2>1
  <2>3. Faithful(entries[j])
    BY <2>2
  <2> QED
    BY <2>1, <2>3
<1>8. \A i \in Kept : \E k \in DOMAIN sorted : sorted[k].src = i
  <2> SUFFICES ASSUME NEW i \in Kept
               PROVE  \E k \in 1..n : sorted[k].src = i
    BY <1>6
  <2>1. PICK j \in 1..n : entries[j].src = i
    BY <1>2
  <2>2. PICK k \in 1..n : o[k] = j
    BY <1>5
  <2>3. sorted[k] = entries[j]
    BY <1>6, <2>2
  <2> QED
    BY <2>1, <2>3
<1>9. OncePerInput(sorted)
  BY <1>2, <1>4, <1>6 DEF OncePerInput
<1>10. Sorted(sorted)
  BY <1>3, <1>6 DEF Sorted
<1> QED
  BY <1>7, <1>8, <1>9, <1>10 DEF EntriesOK


\* A frame is written: it leads on from where create_archive_body is.
LEMMA BuildStep ==
  ASSUME snd \in SenderType, BuildOK(snd), snd.at <= Len(snd.entries),
         NEW frame \in FrameType, NEW at \in Nat \ {0}, NEW file \in Seq(Nat), NEW read \in Int,
         Follows(snd.entries, <<snd.at, snd.read>>, frame, <<at, read>>),
         at <= Len(snd.entries) + 1,
         read # -1 => /\ at <= Len(snd.entries) /\ snd.entries[at].kind = "file"
                      /\ file = snd.entries[at].hash /\ read \in 0..Len(file),
         WriteFrame(frame, at, file, read)
  PROVE  BuildOK(snd)'
<1>1. PICK body, entries : body = snd.body /\ entries = snd.entries
  OBVIOUS
<1>2. /\ body \in Seq(FrameType) /\ entries \in Seq(Scannable)
      /\ <<snd.at, snd.read>> \in Position /\ <<at, read>> \in Position
  BY <1>1 DEF SenderType, Position
<1>3. EntriesOK(entries) /\ Carries(entries, body, snd.at, snd.read)
  BY <1>1 DEF BuildOK
<1>4. PICK p, q : p = <<snd.at, snd.read>> /\ q = <<at, read>>
  OBVIOUS
<1>5. Carries(entries, body, p[1], p[2]) /\ Follows(entries, p, frame, q)
  BY <1>1, <1>3, <1>4
<1>6. Carries(entries, Append(body, frame), q[1], q[2])
  BY <1>2, <1>4, <1>5, WalkOn
<1>7. PICK longer : longer = Append(body, frame)
  OBVIOUS
<1>8. PICK s : s = [snd EXCEPT !.body = longer, !.at = at, !.file = file, !.read = read]
  OBVIOUS
<1>9. s.body = longer /\ s.at = at /\ s.file = file /\ s.read = read /\ s.entries = entries
  BY <1>1, <1>8 DEF SenderType
<1>10. Carries(s.entries, s.body, s.at, s.read)
  BY <1>4, <1>6, <1>7, <1>9
<1>11. BuildOK(s)
  BY <1>1, <1>3, <1>9, <1>10 DEF BuildOK
<1>12. snd' = s /\ UNCHANGED <<inputs, source>>
  BY <1>1, <1>7, <1>8 DEF WriteFrame, ReceiverRests
<1> QED
  BY <1>11, <1>12, SameSources

\* create_archive_body writes the frames of its entries, one after the other.
LEMMA BodyKeeps ==
  ASSUME ArchiveInv, BuildOK(snd), BuildDirectory \/ BuildFileStart \/ BuildChunk \/ BuildFileEnd
  PROVE  BuildOK(snd)'
<1>1. snd \in SenderType /\ InBody
  BY DEF ArchiveInv, TypeInv, BuildDirectory, BuildFileStart, BuildChunk, BuildFileEnd
<1>2. PICK at, read, e, hash :
        at = snd.at /\ read = snd.read /\ e = snd.entries[at] /\ hash = e.hash
  OBVIOUS
<1>3. /\ snd.entries \in Seq(Scannable) /\ at \in Nat \ {0} /\ at <= Len(snd.entries)
      /\ at \in DOMAIN snd.entries /\ read \in Int /\ Building = e
  BY <1>1, <1>2 DEF SenderType, InBody, Building
<1>4. e \in Scannable /\ e.path \in Path /\ hash \in Seq(Nat) /\ Len(hash) \in Nat
  <2>1. e \in Scannable
    BY <1>2, <1>3
  <2>2. e.path \in Path /\ e.hash \in Content \cup {<< >>}
    BY <2>1 DEF Scannable
  <2>3. Content \subseteq Seq(Nat) /\ << >> \in Seq(Nat)
    BY ArchiveAssumption
  <2>4. hash \in Seq(Nat)
    BY <1>2, <2>2, <2>3
  <2> QED
    BY <2>1, <2>2, <2>4
<1>5. read # -1 => e.kind = "file" /\ snd.file = hash /\ read \in 0..Len(hash)
  BY <1>2 DEF BuildOK
<1>6. ASSUME NEW type \in {"dir", "start", "chunk", "end"}, NEW data \in Seq(Nat),
             NEW next \in Nat \ {0}, NEW file \in Seq(Nat), NEW now \in Int,
             WriteFrame(Frame(type, Building.path, data), next, file, now),
             \/ /\ e.kind = "dir" /\ read = -1
                /\ type = "dir" /\ data = << >> /\ next = at + 1 /\ now = -1
             \/ /\ e.kind = "file" /\ read = -1
                /\ type = "start" /\ data = << >> /\ next = at /\ now = 0 /\ file = hash
             \/ /\ e.kind = "file" /\ read \in 0..(Len(hash) - 1)
                /\ type = "chunk" /\ data = <<hash[read + 1]>> /\ next = at /\ now = read + 1
                /\ file = hash
             \/ /\ e.kind = "file" /\ read = Len(hash)
                /\ type = "end" /\ data = << >> /\ next = at + 1 /\ now = -1
      PROVE  BuildOK(snd)'
  <2>1. PICK frame : frame = Frame(type, Building.path, data)
    OBVIOUS
  <2>2. frame \in FrameType /\ frame.type = type /\ frame.path = e.path /\ frame.data = data
    BY <1>3, <1>4, <2>1 DEF Frame, FrameType
  <2>3. PICK p, q : p = <<at, read>> /\ q = <<next, now>>
    OBVIOUS
  <2>4. p[1] = at /\ p[2] = read /\ <<p[1] + 1, -1>> = <<at + 1, -1>>
        /\ <<p[1], 0>> = <<at, 0>> /\ <<p[1], p[2] + 1>> = <<at, read + 1>>
    BY <2>3
  <2>5. Follows(snd.entries, p, frame, q)
    BY <1>2, <1>3, <1>6, <2>2, <2>3, <2>4 DEF Follows
  <2>6. next <= Len(snd.entries) + 1
    BY <1>3, <1>6
  <2>7. now # -1 => /\ next <= Len(snd.entries) /\ snd.entries[next].kind = "file"
                    /\ file = snd.entries[next].hash /\ now \in 0..Len(file)
    BY <1>2, <1>3, <1>4, <1>6
  <2> QED
    BY <1>1, <1>2, <1>3, <1>6, <2>1, <2>2, <2>3, <2>5, <2>6, <2>7, BuildStep
<1>7. << >> \in Seq(Nat) /\ -1 \in Int /\ 0 \in Int /\ at + 1 \in Nat \ {0} /\ read + 1 \in Int
  BY <1>3
<1>8. CASE BuildDirectory
  <2>1. e.kind = "dir" /\ read = -1
    BY <1>3, <1>5, <1>8 DEF BuildDirectory
  <2> QED
    BY <1>2, <1>6, <1>7, <1>8, <2>1 DEF BuildDirectory
<1>9. CASE BuildFileStart
  <2>1. e.kind = "file" /\ read = -1
    BY <1>2, <1>3, <1>9 DEF BuildFileStart
  <2>2. Faithful(e)
    BY <1>2, <1>3 DEF BuildOK, EntriesOK
  <2>3. source[e.src] = hash
    BY <1>2, <2>1, <2>2 DEF Faithful, Shown
  <2>4. WriteFrame(Frame("start", Building.path, << >>), at, hash, 0)
    BY <1>2, <1>3, <1>9, <2>3 DEF BuildFileStart
  <2> QED
    BY <1>3, <1>4, <1>6, <1>7, <2>1, <2>4
<1>10. CASE BuildChunk
  <2>1. /\ read \in 0..(Len(snd.file) - 1)
        /\ WriteFrame(Frame("chunk", Building.path, <<snd.file[read + 1]>>), at, snd.file, read + 1)
    BY <1>2, <1>10 DEF BuildChunk
  <2>2. snd.file = hash /\ e.kind = "file"
    BY <1>5, <2>1
  <2>3. hash[read + 1] \in Nat /\ <<hash[read + 1]>> \in Seq(Nat)
    BY <1>4, <2>1, <2>2
  <2> QED
    BY <1>3, <1>4, <1>6, <1>7, <2>1, <2>2, <2>3
<1>11. CASE BuildFileEnd
  <2>1. read >= Len(snd.file) /\ snd.file \in Seq(Nat)
    BY <1>1, <1>2, <1>11 DEF BuildFileEnd, SenderType
  <2>2. read # -1
    BY <2>1
  <2>3. e.kind = "file" /\ read = Len(hash)
    BY <1>4, <1>5, <2>1, <2>2
  <2> QED
    BY <1>2, <1>6, <1>7, <1>11, <2>3 DEF BuildFileEnd
<1> QED
  BY <1>8, <1>9, <1>10, <1>11

\* scan_sources and create_archive_body, on sources that nobody touches.
LEMMA SendKeeps ==
  ASSUME ArchiveInv, SendInv, CreateStep
  PROVE  SendInv'
<1>1. /\ inputs \in Seq(Input) /\ snd \in SenderType
      /\ source \in [DOMAIN inputs -> Content \cup {Gone}]
  BY DEF ArchiveInv, TypeInv
<1>2. ASSUME NEW order \in Orders, StartSend(order)
      PROVE  SendInv'
  <2>1. PICK s : s = [SenderAt("scan") EXCEPT !.order = order]
    OBVIOUS
  <2>2. s = [pc |-> "scan", order |-> order, at |-> 1, size |-> -1,
             entries |-> << >>, body |-> << >>, file |-> << >>, read |-> -1]
    BY <2>1 DEF SenderAt
  <2>3. PICK n \in Nat : n = Len(s.order)
    BY <1>1, <1>2, <2>2, OrderIs
  <2>4. /\ s.order = order /\ s.at = 1 /\ s.size = -1 /\ s.entries = << >> /\ s.body = << >>
        /\ s.read = -1 /\ 1 <= n + 1 /\ DOMAIN s.entries = {} /\ 1..(s.at - 1) = {}
    BY <2>2, <2>3
  <2>5. ScanOK(s)
    BY <2>3, <2>4 DEF ScanOK, OncePerInput
  <2>6. snd' = s /\ UNCHANGED <<inputs, source>> /\ s.pc = "scan"
    BY <1>2, <2>1, <2>2 DEF StartSend
  <2>7. ScanOK(snd)'
    BY <2>5, <2>6, SameSources
  <2> QED
    BY <2>6, <2>7 DEF SendInv
<1>3. CASE ScanRejects \/ BuildFails \/ NextSend \/ FinishArchive
  <2>1. snd' \in {SenderAt("failed"), SenderAt("idle"), SenderAt("sent")}
    BY <1>3 DEF ScanRejects, BuildFails, NextSend, FinishArchive, SendFails
  <2>2. snd'.pc \notin {"scan", "build"}
    BY <2>1 DEF SenderAt
  <2> QED
    BY <2>2 DEF SendInv
<1>4. ASSUME UNCHANGED disturbed, disturbed
      PROVE  SendInv'
  BY <1>4 DEF SendInv
<1>5. ASSUME ~disturbed, Scanning
      PROVE  /\ ScanOK(snd) /\ snd.at \in 1..Len(snd.order) /\ Scanned = snd.order[snd.at]
             /\ Scanned \in DOMAIN inputs /\ inputs[Scanned] \in Input
  <2>1. ScanOK(snd) /\ snd.order \in Seq(DOMAIN inputs) /\ snd.at \in 1..Len(snd.order)
    BY <1>1, <1>5 DEF SendInv, Scanning, SenderType
  <2> QED
    BY <1>1, <2>1 DEF Scanned
<1>6. ASSUME ~disturbed, Scanning, NEW e \in Scannable, Scan(<<e>>), e.src = Scanned, Faithful(e)
      PROVE  SendInv'
  <2>1. snd' \in SenderType /\ snd'.pc = "scan"
    BY <1>1, <1>6, ScanType DEF Scanning
  <2>2. PICK s : s = snd'
    OBVIOUS
  <2>3. PICK old, at : old = snd.entries /\ at = snd.at
    OBVIOUS
  <2>4. old \in Seq(Scannable) /\ old \o <<e>> = Append(old, e)
    BY <1>1, <2>3 DEF SenderType
  <2>5. PICK new, next, none : new = Append(old, e) /\ next = at + 1 /\ none = -1
    OBVIOUS
  <2>6. s = [snd EXCEPT !.at = next, !.size = none, !.entries = new]
    BY <1>6, <2>2, <2>3, <2>4, <2>5 DEF Scan
  <2>7. s.at = snd.at + 1 /\ s.size = -1 /\ s.entries = Append(snd.entries, e)
        /\ s.order = snd.order /\ s.body = snd.body /\ s.read = snd.read
    BY <1>1, <2>3, <2>5, <2>6 DEF SenderType
  <2>8. ScanOK(s)
    BY <1>1, <1>5, <1>6, <2>1, <2>2, <2>7, ScanStep
  <2>9. ScanOK(snd)'
    BY <1>6, <2>2, <2>8, SameSources DEF Scan, ReceiverRests
  <2> QED
    BY <2>1, <2>9 DEF SendInv
<1>7. CASE ScanSkips
  <2>1. CASE disturbed
    BY <1>4, <1>7, <2>1 DEF ScanSkips, Scan
  <2>2. CASE ~disturbed
    <3>1. Scanning /\ Scan(<< >>)
      BY <1>7 DEF ScanSkips
    <3>2. PICK old, at : old = snd.entries /\ at = snd.at
      OBVIOUS
    <3>3. old \in Seq(Scannable) /\ old \o << >> = old /\ at + 1 \in Nat \ {0}
      BY <1>1, <3>2 DEF SenderType
    <3>4. PICK next \in Nat \ {0}, none \in Int : next = at + 1 /\ none = -1
      BY <3>3
    <3>5. PICK s : s = [snd EXCEPT !.at = next, !.size = none, !.entries = old]
      OBVIOUS
    <3>6. snd' = s
      BY <3>1, <3>2, <3>3, <3>4, <3>5 DEF Scan
    <3>7. s \in SenderType /\ s.pc = "scan"
      BY <1>1, <3>1, <3>3, <3>5 DEF SenderType, Scanning
    <3>8. s.at = snd.at + 1 /\ s.size = -1 /\ s.entries = snd.entries
          /\ s.order = snd.order /\ s.body = snd.body /\ s.read = snd.read
      BY <1>1, <3>2, <3>4, <3>5 DEF SenderType
    <3>9. Scanned \notin Kept
      BY <1>7 DEF ScanSkips, Kept
    <3>10. ScanOK(s)
      BY <1>1, <1>5, <2>2, <3>1, <3>7, <3>8, <3>9, ScanStep
    <3>11. ScanOK(snd)'
      BY <3>1, <3>6, <3>10, SameSources DEF Scan, ReceiverRests
    <3> QED
      BY <3>6, <3>7, <3>11 DEF SendInv
  <2> QED
    BY <2>1, <2>2
<1>8. CASE ScanDirectory
  <2>1. CASE disturbed
    BY <1>4, <1>8, <2>1 DEF ScanDirectory, Scan
  <2>2. CASE ~disturbed
    <3>1. PICK e : e = [path |-> inputs[Scanned].path, kind |-> "dir", size |-> 0,
                        hash |-> << >>, src |-> Scanned]
      OBVIOUS
    <3>2. Scanning /\ inputs[Scanned].type = "dir" /\ Scan(<<e>>)
      BY <1>8, <3>1 DEF ScanDirectory
    <3>3. e \in Scannable
      BY <1>5, <2>2, <3>1, <3>2 DEF Scannable, Hashed, Input
    <3>4. Scanned \in Kept
      BY <1>5, <2>2, <3>2 DEF Kept
    <3>5. Faithful(e) /\ e.src = Scanned
      BY <3>1, <3>2, <3>4 DEF Faithful, Shown
    <3> QED
      BY <1>6, <2>2, <3>2, <3>3, <3>5
  <2> QED
    BY <2>1, <2>2
<1>9. CASE ScanFileHash
  <2>1. CASE disturbed
    BY <1>4, <1>9, <2>1 DEF ScanFileHash, Scan
  <2>2. CASE ~disturbed
    <3>1. PICK e : e = [path |-> inputs[Scanned].path, kind |-> "file", size |-> snd.size,
                        hash |-> source[Scanned], src |-> Scanned]
      OBVIOUS
    <3>2. Scanning /\ snd.size # -1 /\ source[Scanned] # Gone /\ Scan(<<e>>)
      BY <1>9, <3>1 DEF ScanFileHash
    <3>3. inputs[Scanned].type = "file" /\ snd.size = Len(source[Scanned])
      BY <1>5, <2>2, <3>2 DEF ScanOK
    <3>4. source[Scanned] \in Content /\ snd.size \in Int
      BY <1>1, <1>5, <2>2, <3>2 DEF SenderType
    <3>5. e \in Scannable
      BY <1>5, <2>2, <3>1, <3>2, <3>4 DEF Scannable, Hashed, Input
    <3>6. Scanned \in Kept
      BY <1>5, <2>2, <3>2, <3>3 DEF Kept
    <3>7. Faithful(e) /\ e.src = Scanned
      BY <3>1, <3>3, <3>6 DEF Faithful, Shown
    <3> QED
      BY <1>6, <2>2, <3>2, <3>5, <3>7
  <2> QED
    BY <2>1, <2>2
<1>10. CASE ScanFileSize
  <2>1. CASE disturbed
    BY <1>4, <1>10, <2>1 DEF ScanFileSize
  <2>2. CASE ~disturbed
    <3>1. PICK size : size = Len(source[Scanned])
      OBVIOUS
    <3>2. PICK s : s = [snd EXCEPT !.size = size]
      OBVIOUS
    <3>3. Scanning /\ inputs[Scanned].type = "file" /\ snd' = s /\ UNCHANGED <<inputs, source>>
      BY <1>10, <3>1, <3>2 DEF ScanFileSize, ReceiverRests
    <3>4. /\ s.size = size /\ s.order = snd.order /\ s.at = snd.at /\ s.entries = snd.entries
          /\ s.body = snd.body /\ s.read = snd.read /\ s.pc = "scan"
      BY <1>1, <3>2, <3>3 DEF SenderType, Scanning
    <3>5. ScanOK(snd) /\ snd.at <= Len(snd.order) /\ Scanned = snd.order[snd.at]
      BY <1>5, <2>2, <3>3
    <3>6. ScanOK(s)
      BY <3>1, <3>3, <3>4, <3>5 DEF ScanOK
    <3>7. ScanOK(snd)'
      BY <3>3, <3>6, SameSources
    <3> QED
      BY <3>3, <3>4, <3>7 DEF SendInv
  <2> QED
    BY <2>1, <2>2
<1>11. CASE ScanEnds
  <2>1. CASE disturbed
    BY <1>4, <1>11, <2>1 DEF ScanEnds
  <2>2. CASE ~disturbed
    <3>1. ScanOK(snd) /\ snd.at > Len(snd.order) /\ UNCHANGED <<inputs, source>>
      BY <1>11, <2>2 DEF ScanEnds, SendInv, ReceiverRests
    <3>2. PICK order, entries : order = snd.order /\ entries = snd.entries
      OBVIOUS
    <3>3. order \in Orders /\ entries \in Seq(Scannable)
      BY <1>1, <3>1, <3>2 DEF ScanOK, SenderType
    <3>4. Len(order) \in Nat /\ \A k \in DOMAIN inputs : \E j \in 1..Len(order) : order[j] = k
      BY <1>1, <3>3, OrderIs
    <3>5. snd.at - 1 = Len(order)
      BY <1>1, <3>1, <3>2, <3>4 DEF ScanOK, SenderType
    <3>6. PICK sorted \in SortEntries(entries) :
            snd' = [snd EXCEPT !.pc = "build", !.at = 1, !.entries = sorted]
      BY <1>11, <3>2 DEF ScanEnds
    <3>7. \A k \in DOMAIN entries : Faithful(entries[k])
      BY <3>1, <3>2 DEF ScanOK
    <3>8. \A i \in Kept : \E k \in DOMAIN entries : entries[k].src = i
      <4> SUFFICES ASSUME NEW i \in Kept
                   PROVE  \E k \in DOMAIN entries : entries[k].src = i
        OBVIOUS
      <4>1. PICK j \in 1..Len(order) : order[j] = i
        BY <3>4 DEF Kept
      <4> QED
        BY <3>1, <3>2, <3>5, <4>1 DEF ScanOK
    <3>9. OncePerInput(entries) /\ snd.body = << >> /\ snd.read = -1
      BY <3>1, <3>2 DEF ScanOK
    <3>10. EntriesOK(sorted)
      BY <3>3, <3>6, <3>7, <3>8, <3>9, SortIs
    <3>11. sorted \in Seq(Scannable)
      BY <3>3, <3>6, SortKeepsType
    <3>12. PICK s : s = [snd EXCEPT !.pc = "build", !.at = 1, !.entries = sorted]
      OBVIOUS
    <3>13. /\ s.pc = "build" /\ s.at = 1 /\ s.entries = sorted /\ s.body = << >> /\ s.read = -1
           /\ 1 <= Len(sorted) + 1
      BY <1>1, <3>9, <3>11, <3>12 DEF SenderType
    <3>14. Carries(sorted, s.body, 1, -1)
      BY <3>13, WalkStarts
    <3>15. BuildOK(s)
      BY <3>10, <3>13, <3>14 DEF BuildOK
    <3>16. snd' = s
      BY <3>6, <3>12
    <3>17. BuildOK(snd)'
      BY <3>1, <3>15, <3>16, SameSources
    <3> QED
      BY <3>13, <3>16, <3>17 DEF SendInv
  <2> QED
    BY <2>1, <2>2
<1>12. CASE BuildDirectory \/ BuildFileStart \/ BuildChunk \/ BuildFileEnd
  <2>1. snd.pc = "build" /\ UNCHANGED disturbed
    BY <1>12
       DEF BuildDirectory, BuildFileStart, BuildChunk, BuildFileEnd, InBody, WriteFrame
  <2>2. snd'.pc = "build"
    BY <1>1, <1>12, <2>1
       DEF BuildDirectory, BuildFileStart, BuildChunk, BuildFileEnd, WriteFrame, SenderType
  <2> QED
    BY <1>4, <1>12, <2>1, <2>2, BodyKeeps DEF SendInv
<1> QED
  BY <1>2, <1>3, <1>7, <1>8, <1>9, <1>10, <1>11, <1>12 DEF CreateStep

-------------------------------------------------------------------------------
(* The receiver, on an archive that is as its manifest says. *)

\* What is left of a manifest without duplicates when the next entry is done.
LEMMA RestIs ==
  ASSUME NEW entries \in Seq(Announced), ~Duplicates(entries), NEW i \in DOMAIN entries,
         NEW rest, rest = From(entries, i)
  PROVE  /\ entries[i] \in rest
         /\ \A e \in Range(entries) : e.path = entries[i].path => e = entries[i]
         /\ \A e \in rest : e.path = entries[i].path => e = entries[i]
         /\ {e \in rest : e.path # entries[i].path} = From(entries, i + 1)
<1>1. PICK n \in Nat : n = Len(entries) /\ DOMAIN entries = 1..n
  OBVIOUS
<1>2. i \in 1..n /\ i \in i..n
  BY <1>1
<1>3. \A j \in 1..n : entries[j].path = entries[i].path => j = i
  BY <1>1 DEF Duplicates
<1>4. \A e \in Range(entries) : e.path = entries[i].path => e = entries[i]
  BY <1>1, <1>3 DEF Range
<1>5. \A e \in rest : e.path = entries[i].path => e = entries[i]
  <2> SUFFICES ASSUME NEW j \in i..n, entries[j].path = entries[i].path
               PROVE  entries[j] = entries[i]
    BY <1>1 DEF From
  <2>1. j \in 1..n
    BY <1>1, <1>2
  <2> QED
    BY <1>3, <2>1
<1>6. ASSUME NEW e \in rest, e.path # entries[i].path
      PROVE  e \in {entries[j] : j \in (i + 1)..n}
  <2>1. PICK j \in i..n : e = entries[j]
    BY <1>1 DEF From
  <2>2. j # i
    BY <1>6, <2>1
  <2>3. j \in (i + 1)..n
    BY <1>1, <1>2, <2>2
  <2> QED
    BY <2>1, <2>3
<1>7. ASSUME NEW j \in (i + 1)..n
      PROVE  entries[j] \in rest /\ entries[j].path # entries[i].path
  <2>1. j \in i..n /\ j \in 1..n /\ j # i
    BY <1>1, <1>2
  <2> QED
    BY <1>1, <1>3, <2>1 DEF From
<1> QED
  BY <1>1, <1>2, <1>4, <1>5, <1>6, <1>7 DEF From

\* The frame that comes next leads on from where the receiver is.
LEMMA FrameStep ==
  ASSUME ArchiveInv, WholeInv, ~disturbed, NEW type, AtFrame(type)
  PROVE  \E p, q \in Position :
           /\ Follows(archive.entries, p, Current, q) /\ Reached(p)
           /\ ~Duplicates(archive.entries)
           /\ (/\ rcv'.pc = "unpack" /\ rcv'.next = rcv.next + 1
               /\ UNCHANGED <<snd, archive, disturbed>> /\ Reached(q)') => WholeInv'
<1>1. PICK next : next = rcv.next
  OBVIOUS
<1>2. /\ rcv.pc = "unpack" /\ snd.pc = "sent" /\ next \in 1..Len(archive.body)
      /\ Len(archive.body) \in Nat
  BY <1>1 DEF AtFrame, ArchiveInv, TypeInv, UnpackInv
<1>3. PICK w : /\ Walk(archive.entries, archive.body, w)
               /\ w[Len(archive.body) + 1] = <<Len(archive.entries) + 1, -1>>
               /\ ~Duplicates(archive.entries)
               /\ Reached(w[next])
  BY <1>1, <1>2 DEF WholeInv
<1>4. PICK p, q : p = w[next] /\ q = w[next + 1]
  OBVIOUS
<1>5. p \in Position /\ q \in Position
  <2>1. next \in 1..(Len(archive.body) + 1) /\ next + 1 \in 1..(Len(archive.body) + 1)
    BY <1>2
  <2> QED
    BY <1>3, <1>4, <2>1 DEF Walk
<1>6. Follows(archive.entries, p, Current, q)
  BY <1>1, <1>2, <1>3, <1>4 DEF Walk, Current
<1>7. ASSUME rcv'.pc = "unpack", rcv'.next = rcv.next + 1,
             UNCHANGED <<snd, archive, disturbed>>, Reached(q)'
      PROVE  WholeInv'
  <2>1. rcv'.next = next + 1 /\ next + 1 <= Len(archive.body) + 1
    BY <1>1, <1>2, <1>7
  <2>2. \A i \in DOMAIN archive.entries : archive.entries[i].kind = "file" =>
          archive.entries[i].size = Len(archive.entries[i].hash)
    BY <1>2 DEF WholeInv
  <2>3. PICK m : m = next + 1
    OBVIOUS
  <2>4. PICK v : v = w[m]
    OBVIOUS
  <2>5. v = q /\ Reached(v)'
    BY <1>4, <1>7, <2>3, <2>4
  <2>6. /\ Walk(archive.entries, archive.body, w)'
        /\ w[Len(archive'.body) + 1] = <<Len(archive'.entries) + 1, -1>>
        /\ rcv'.next <= Len(archive'.body) + 1
        /\ ~Duplicates(archive.entries)'
    BY <1>3, <1>7, <2>1
  <2>7. /\ rcv'.remaining = From(archive'.entries, v[1])
        /\ rcv'.open = IF v[2] = -1 THEN << >>
                       ELSE <<[path |-> archive'.entries[v[1]].path,
                               data |-> SubSeq(archive'.entries[v[1]].hash, 1, v[2])]>>
    BY <2>5 DEF Reached
  <2>8. w[rcv'.next] = v
    BY <2>1, <2>3, <2>4
  <2>9. /\ rcv'.remaining = From(archive'.entries, w[rcv'.next][1])
        /\ rcv'.open = IF w[rcv'.next][2] = -1 THEN << >>
                       ELSE <<[path |-> archive'.entries[w[rcv'.next][1]].path,
                               data |-> SubSeq(archive'.entries[w[rcv'.next][1]].hash, 1,
                                               w[rcv'.next][2])]>>
    BY <2>7, <2>8
  <2> QED
    BY <1>7, <2>2, <2>6, <2>9 DEF WholeInv, Reached
<1> QED
  BY <1>3, <1>4, <1>5, <1>6, <1>7


\* The receiver is at the next position then.
LEMMA Onward ==
  ASSUME ArchiveInv, rcv.pc = "unpack", NEW open, NEW remaining, Proceed(open, remaining),
         NEW q, remaining = From(archive.entries, q[1]),
         open = IF q[2] = -1 THEN << >>
                ELSE <<[path |-> archive.entries[q[1]].path,
                        data |-> SubSeq(archive.entries[q[1]].hash, 1, q[2])]>>
  PROVE  /\ rcv'.pc = "unpack" /\ rcv'.next = rcv.next + 1
         /\ UNCHANGED <<snd, archive, disturbed>> /\ Reached(q)'
<1>1. PICK next : next = rcv.next + 1
  OBVIOUS
<1>2. rcv' = [rcv EXCEPT !.next = next, !.open = open, !.remaining = remaining]
      /\ UNCHANGED <<snd, archive, disturbed>>
  BY <1>1 DEF Proceed, SenderRests
<1>3. rcv'.pc = "unpack" /\ rcv'.next = next /\ rcv'.open = open /\ rcv'.remaining = remaining
  BY <1>2 DEF ArchiveInv, TypeInv, ReceiverType
<1>4. Reached(q)'
  BY <1>2, <1>3 DEF Reached
<1> QED
  BY <1>1, <1>2, <1>3, <1>4

\* The manifest is read: the receiver is before the first frame.
LEMMA ManifestWhole ==
  ASSUME ArchiveInv, WholeInv, ~disturbed, ReadManifest
  PROVE  (WholeInv' /\ rcv'.pc = "unpack") \/ (UnpackFails /\ ~Acceptable(archive.entries))
<1>1. CASE ~Acceptable(archive.entries)
  BY <1>1 DEF ReadManifest
<1>2. CASE Acceptable(archive.entries)
  <2>1. /\ rcv.pc = "unpack" /\ rcv.open = << >> /\ rcv \in ReceiverType /\ snd.pc = "sent"
        /\ archive.entries \in Seq(Announced)
    BY DEF ReadManifest, ArchiveInv, TypeInv, UnpackInv
  <2>2. PICK all, next : all = Range(archive.entries) /\ next = 1
    OBVIOUS
  <2>3. rcv' = [rcv EXCEPT !.next = next, !.expected = all, !.remaining = all]
        /\ UNCHANGED <<snd, archive, disturbed>>
    BY <1>2, <2>2 DEF ReadManifest, SenderRests
  <2>4. rcv'.pc = "unpack" /\ rcv'.next = 1 /\ rcv'.open = << >> /\ rcv'.remaining = all
    BY <2>1, <2>2, <2>3 DEF ReceiverType
  <2>5. all = From(archive.entries, 1)
    BY <2>1, <2>2 DEF Range, From
  <2>6. PICK w : /\ Walk(archive.entries, archive.body, w)
                 /\ w[Len(archive.body) + 1] = <<Len(archive.entries) + 1, -1>>
    BY <2>1 DEF WholeInv
  <2>7. w[1][1] = 1 /\ w[1][2] = -1
    BY <2>6 DEF Walk
  <2>8. ~Duplicates(archive.entries) /\ 1 <= Len(archive.body) + 1
    BY <1>2 DEF Acceptable, ArchiveInv, TypeInv
  <2>9. \A i \in DOMAIN archive.entries : archive.entries[i].kind = "file" =>
          archive.entries[i].size = Len(archive.entries[i].hash)
    BY <2>1 DEF WholeInv
  <2>10. /\ rcv'.remaining = From(archive'.entries, w[rcv'.next][1])
         /\ w[rcv'.next][2] = -1 /\ rcv'.open = << >>
    BY <2>3, <2>4, <2>5, <2>7
  <2> QED
    BY <2>3, <2>4, <2>6, <2>8, <2>9, <2>10 DEF WholeInv, Reached
<1> QED
  BY <1>1, <1>2

\* What is next on the receiver's list.
LEMMA FrameIs ==
  ASSUME ArchiveInv, rcv.pc = "unpack", NEW p \in Position, NEW q,
         NEW frame, Follows(archive.entries, p, frame, q), Reached(p),
         ~Duplicates(archive.entries)
  PROVE  /\ p[1] \in DOMAIN archive.entries /\ frame.path = archive.entries[p[1]].path
         /\ archive.entries[p[1]] \in Announced
         /\ archive.entries[p[1]] \in Range(archive.entries)
         /\ archive.entries[p[1]] \in rcv.remaining
         /\ \A e \in rcv.remaining : e.path = frame.path => e = archive.entries[p[1]]
         /\ \A e \in Range(archive.entries) :
              e.path = frame.path => e = archive.entries[p[1]]
         /\ {e \in rcv.remaining : e.path # frame.path}
              = From(archive.entries, p[1] + 1)
<1>1. archive.entries \in Seq(Announced)
  BY DEF ArchiveInv, TypeInv
<1>2. PICK i : i = p[1]
  OBVIOUS
<1>3. i \in DOMAIN archive.entries /\ frame.path = archive.entries[i].path
  BY <1>2 DEF Follows
<1>4. PICK rest, entries : rest = rcv.remaining /\ entries = archive.entries
  OBVIOUS
<1>5. rest = From(entries, i)
  BY <1>2, <1>4 DEF Reached
<1>6. archive.entries[i] \in Announced /\ archive.entries[i] \in Range(archive.entries)
  BY <1>1, <1>3 DEF Range
<1>7. /\ entries[i] \in rest
      /\ \A e \in Range(entries) : e.path = entries[i].path => e = entries[i]
      /\ \A e \in rest : e.path = entries[i].path => e = entries[i]
      /\ {e \in rest : e.path # entries[i].path}
           = From(entries, i + 1)
  <2>1. entries \in Seq(Announced) /\ ~Duplicates(entries) /\ i \in DOMAIN entries
    BY <1>1, <1>3, <1>4
  <2> QED
    BY <1>5, <2>1, RestIs
<1> QED
  BY <1>2, <1>3, <1>4, <1>6, <1>7

\* Only something in the way keeps a directory from being made.
LEMMA DirectoryWhole ==
  ASSUME ArchiveInv, WholeInv, ~disturbed, UnpackDirectory
  PROVE  (WholeInv' /\ rcv'.pc = "unpack") \/ (UnpackFails /\ InTheWay)
<1>1. AtFrame("dir") /\ rcv.pc = "unpack" /\ Current.type = "dir"
  BY DEF UnpackDirectory, AtFrame, Current
<1>2. PICK p \in Position, q \in Position :
        /\ Follows(archive.entries, p, Current, q) /\ Reached(p) /\ ~Duplicates(archive.entries)
        /\ (/\ rcv'.pc = "unpack" /\ rcv'.next = rcv.next + 1
            /\ UNCHANGED <<snd, archive, disturbed>> /\ Reached(q)') => WholeInv'
  BY <1>1, FrameStep
<1>3. PICK e, f : e = archive.entries[p[1]] /\ f = Current
  OBVIOUS
<1>4. /\ f.path = e.path /\ e \in Range(archive.entries) /\ e \in rcv.remaining
      /\ \A x \in rcv.remaining : x.path = f.path => x = e
      /\ {x \in rcv.remaining : x.path # f.path}
           = From(archive.entries, p[1] + 1)
  BY <1>1, <1>2, <1>3, FrameIs
<1>5. e.kind = "dir" /\ p[2] = -1 /\ q = <<p[1] + 1, -1>>
  BY <1>1, <1>2, <1>3 DEF Follows
<1>6. EntryOf(f, "dir") = {e}
  BY <1>4, <1>5 DEF EntryOf
<1>7. CASE ~CanMakeDir(Current.path)
  <2>1. InTheWay
    BY <1>3, <1>4, <1>5, <1>7 DEF InTheWay
  <2> QED
    BY <1>7, <2>1 DEF UnpackDirectory
<1>8. CASE CanMakeDir(Current.path)
  <2>1. PICK open, remaining : open = rcv.open /\ remaining = rcv.remaining \ {e}
    OBVIOUS
  <2>2. Proceed(open, remaining)
    BY <1>3, <1>6, <1>8, <2>1 DEF UnpackDirectory
  <2>3. remaining = {x \in rcv.remaining : x.path # f.path}
    BY <1>4, <2>1
  <2>4. q[1] = p[1] + 1 /\ q[2] = -1
    BY <1>5
  <2>5. remaining = From(archive.entries, q[1])
    BY <1>4, <2>3, <2>4
  <2>6. open = << >>
    BY <1>2, <1>5, <2>1 DEF Reached
  <2> QED
    BY <1>1, <1>2, <2>2, <2>4, <2>5, <2>6, Onward
<1> QED
  BY <1>7, <1>8

\* A file that begins is next on the list, and no other is open.
LEMMA FileStartWhole ==
  ASSUME ArchiveInv, WholeInv, ~disturbed, UnpackFileStart
  PROVE  WholeInv' /\ rcv'.pc = "unpack"
<1>1. AtFrame("start") /\ rcv.pc = "unpack" /\ Current.type = "start"
  BY DEF UnpackFileStart, AtFrame, Current
<1>2. PICK p \in Position, q \in Position :
        /\ Follows(archive.entries, p, Current, q) /\ Reached(p) /\ ~Duplicates(archive.entries)
        /\ (/\ rcv'.pc = "unpack" /\ rcv'.next = rcv.next + 1
            /\ UNCHANGED <<snd, archive, disturbed>> /\ Reached(q)') => WholeInv'
  BY <1>1, FrameStep
<1>3. PICK e, f : e = archive.entries[p[1]] /\ f = Current
  OBVIOUS
<1>4. f.path = e.path /\ e \in rcv.remaining /\ e \in Announced
  BY <1>1, <1>2, <1>3, FrameIs
<1>5. e.kind = "file" /\ p[2] = -1 /\ q = <<p[1], 0>>
  BY <1>1, <1>2, <1>3 DEF Follows
<1>6. e \in EntryOf(f, "file") /\ rcv.open = << >>
  BY <1>2, <1>4, <1>5 DEF EntryOf, Reached
<1>7. PICK open, remaining :
        open = <<[path |-> f.path, data |-> << >>]>> /\ remaining = rcv.remaining
  OBVIOUS
<1>8. Proceed(open, remaining)
  BY <1>3, <1>6, <1>7 DEF UnpackFileStart
<1>9. q[1] = p[1] /\ q[2] = 0
  BY <1>5
<1>10. remaining = From(archive.entries, q[1])
  BY <1>2, <1>7, <1>9 DEF Reached
<1>11. SubSeq(e.hash, 1, 0) = << >>
  <2>1. e.hash \in Seq(Nat)
    <3>1. Content \subseteq Seq(Nat) /\ << >> \in Seq(Nat)
      BY ArchiveAssumption
    <3> QED
      BY <1>4, <3>1 DEF Announced
  <2> QED
    BY <2>1
<1>12. open = <<[path |-> archive.entries[q[1]].path,
                 data |-> SubSeq(archive.entries[q[1]].hash, 1, q[2])]>>
  BY <1>3, <1>4, <1>7, <1>9, <1>11
<1> QED
  BY <1>1, <1>2, <1>8, <1>9, <1>10, <1>12, Onward

\* What the open file belongs to.
LEMMA OpenIs ==
  ASSUME ArchiveInv, WholeInv, ~disturbed, rcv.pc = "unpack", rcv.next > 0,
         NEW p \in Position, NEW q, Follows(archive.entries, p, Current, q), Reached(p),
         ~Duplicates(archive.entries), p[2] # -1
  PROVE  /\ rcv.open # << >> /\ Active.path = archive.entries[p[1]].path
         /\ Active.data = SubSeq(archive.entries[p[1]].hash, 1, p[2])
         /\ Active = [path |-> archive.entries[p[1]].path,
                      data |-> SubSeq(archive.entries[p[1]].hash, 1, p[2])]
         /\ ActiveEntry = archive.entries[p[1]]
         /\ archive.entries[p[1]].hash \in Seq(Nat)
         /\ archive.entries[p[1]].kind = "file" =>
              archive.entries[p[1]].size = Len(archive.entries[p[1]].hash)
<1>1. PICK e, f : e = archive.entries[p[1]] /\ f = Current
  OBVIOUS
<1>2. /\ f.path = e.path /\ e \in Range(archive.entries) /\ e \in Announced
      /\ \A x \in Range(archive.entries) : x.path = f.path => x = e
      /\ p[1] \in DOMAIN archive.entries
  BY <1>1, FrameIs
<1>3. rcv.open = <<[path |-> e.path, data |-> SubSeq(e.hash, 1, p[2])]>>
  BY <1>1 DEF Reached
<1>4. Active = [path |-> e.path, data |-> SubSeq(e.hash, 1, p[2])] /\ rcv.open # << >>
  BY <1>3 DEF Active
<1>5. rcv.expected = Range(archive.entries)
  BY DEF ArchiveInv, UnpackInv
<1>6. ActiveEntry \in rcv.expected /\ ActiveEntry.path = e.path
  BY <1>2, <1>4, <1>5 DEF ActiveEntry
<1>7. ActiveEntry = e
  BY <1>2, <1>5, <1>6
<1>8. e.hash \in Seq(Nat)
  <2>1. Content \subseteq Seq(Nat) /\ << >> \in Seq(Nat)
    BY ArchiveAssumption
  <2> QED
    BY <1>2, <2>1 DEF Announced
<1>9. e.kind = "file" => e.size = Len(e.hash)
  BY <1>1, <1>2 DEF WholeInv, ArchiveInv, UnpackInv
<1> QED
  BY <1>1, <1>4, <1>7, <1>8, <1>9

\* One element more of a sequence.
LEMMA OneMore ==
  ASSUME NEW s \in Seq(Nat), NEW k \in 0..(Len(s) - 1)
  PROVE  SubSeq(s, 1, k) \o <<s[k + 1]>> = SubSeq(s, 1, k + 1)
         /\ Len(SubSeq(s, 1, k + 1)) = k + 1
<1>1. PICK a, b : a = SubSeq(s, 1, k) /\ b = SubSeq(s, 1, k + 1)
  OBVIOUS
<1>2. /\ a \in Seq(Nat) /\ b \in Seq(Nat) /\ Len(a) = k /\ Len(b) = k + 1
      /\ \A i \in 1..k : a[i] = s[i]
      /\ \A i \in 1..(k + 1) : b[i] = s[i]
  BY <1>1
<1>3. PICK c : c = a \o <<s[k + 1]>>
  OBVIOUS
<1>4. PICK x, t : x = s[k + 1] /\ t = <<x>>
  OBVIOUS
<1>5. c \in Seq(Nat) /\ Len(c) = k + 1 /\ c[k + 1] = s[k + 1] /\ \A i \in 1..k : c[i] = a[i]
  <2>1. x \in Nat
    BY <1>4
  <2>2. t \in Seq(Nat) /\ Len(t) = 1 /\ t[1] = x
    BY <1>4, <2>1
  <2>3. c = a \o t
    BY <1>3, <1>4
  <2>4. /\ c \in Seq(Nat) /\ Len(c) = Len(a) + Len(t)
        /\ \A i \in 1..(Len(a) + Len(t)) : c[i] = IF i <= Len(a) THEN a[i] ELSE t[i - Len(a)]
    BY <1>2, <2>2, <2>3, ConcatProperties
  <2>5. k \in Nat /\ Len(a) + Len(t) = k + 1
    BY <1>2, <2>2
  <2>6. c[k + 1] = t[1]
    BY <1>2, <2>4, <2>5
  <2>7. \A i \in 1..k : c[i] = a[i]
    BY <1>2, <2>4, <2>5
  <2> QED
    BY <1>4, <2>2, <2>4, <2>5, <2>6, <2>7
<1>6. \A i \in 1..(k + 1) : c[i] = b[i]
  <2> SUFFICES ASSUME NEW i \in 1..(k + 1)
               PROVE  c[i] = b[i]
    OBVIOUS
  <2>1. CASE i = k + 1
    BY <1>2, <1>5, <2>1
  <2>2. CASE i # k + 1
    <3>1. i \in 1..k
      BY <2>2
    <3> QED
      BY <1>2, <1>5, <3>1
  <2> QED
    BY <2>1, <2>2
<1>7. c = b
  BY <1>2, <1>5, <1>6, SeqEqual
<1> QED
  BY <1>1, <1>2, <1>3, <1>7

\* A chunk is the next one of the file that its entry announces.
LEMMA ChunkWhole ==
  ASSUME ArchiveInv, WholeInv, ~disturbed, UnpackChunk
  PROVE  WholeInv' /\ rcv'.pc = "unpack"
<1>1. AtFrame("chunk") /\ rcv.pc = "unpack" /\ Current.type = "chunk" /\ rcv.next > 0
  BY DEF UnpackChunk, AtFrame, Current
<1>2. PICK p \in Position, q \in Position :
        /\ Follows(archive.entries, p, Current, q) /\ Reached(p) /\ ~Duplicates(archive.entries)
        /\ (/\ rcv'.pc = "unpack" /\ rcv'.next = rcv.next + 1
            /\ UNCHANGED <<snd, archive, disturbed>> /\ Reached(q)') => WholeInv'
  BY <1>1, FrameStep
<1>3. PICK e, k : e = archive.entries[p[1]] /\ k = p[2]
  OBVIOUS
<1>4. /\ e.kind = "file" /\ k \in 0..(Len(e.hash) - 1)
      /\ Current.data = <<e.hash[k + 1]>> /\ q = <<p[1], k + 1>>
  BY <1>1, <1>2, <1>3 DEF Follows
<1>5. k # -1
  BY <1>4
<1>6. /\ rcv.open # << >> /\ Active = [path |-> e.path, data |-> SubSeq(e.hash, 1, k)]
      /\ ActiveEntry = e /\ e.hash \in Seq(Nat) /\ e.size = Len(e.hash)
  BY <1>1, <1>2, <1>3, <1>4, <1>5, OpenIs
<1>7. PICK data : data = SubSeq(e.hash, 1, k + 1)
  OBVIOUS
<1>8. Active.data \o Current.data = data /\ Len(data) = k + 1
  BY <1>4, <1>6, <1>7, OneMore
<1>9. Len(data) <= ActiveEntry.size
  BY <1>4, <1>6, <1>8
<1>10. [Active EXCEPT !.data = data] = [path |-> e.path, data |-> data]
  BY <1>6
<1>11. PICK open, remaining :
         open = <<[path |-> e.path, data |-> data]>> /\ remaining = rcv.remaining
  OBVIOUS
<1>12. Proceed(open, remaining)
  BY <1>6, <1>8, <1>9, <1>10, <1>11 DEF UnpackChunk
<1>13. q[1] = p[1] /\ q[2] = k + 1 /\ q[2] # -1
  BY <1>4
<1>14. remaining = From(archive.entries, q[1])
  BY <1>2, <1>11, <1>13 DEF Reached
<1>15. open = <<[path |-> archive.entries[q[1]].path,
                 data |-> SubSeq(archive.entries[q[1]].hash, 1, q[2])]>>
  BY <1>3, <1>7, <1>11, <1>13
<1> QED
  BY <1>1, <1>2, <1>12, <1>13, <1>14, <1>15, Onward

\* A file that ends is verified, and only something in the way keeps it from
\* its place.
LEMMA FileEndWhole ==
  ASSUME ArchiveInv, WholeInv, ~disturbed, UnpackFileEnd
  PROVE  (WholeInv' /\ rcv'.pc = "unpack") \/ (UnpackFails /\ InTheWay)
<1>1. AtFrame("end") /\ rcv.pc = "unpack" /\ Current.type = "end" /\ rcv.next > 0
  BY DEF UnpackFileEnd, AtFrame, Current
<1>2. PICK p \in Position, q \in Position :
        /\ Follows(archive.entries, p, Current, q) /\ Reached(p) /\ ~Duplicates(archive.entries)
        /\ (/\ rcv'.pc = "unpack" /\ rcv'.next = rcv.next + 1
            /\ UNCHANGED <<snd, archive, disturbed>> /\ Reached(q)') => WholeInv'
  BY <1>1, FrameStep
<1>3. PICK e, f : e = archive.entries[p[1]] /\ f = Current
  OBVIOUS
<1>4. e.kind = "file" /\ p[2] = Len(e.hash) /\ q = <<p[1] + 1, -1>>
  BY <1>1, <1>2, <1>3 DEF Follows
<1>5. /\ f.path = e.path /\ e \in Range(archive.entries) /\ e \in Announced
      /\ {x \in rcv.remaining : x.path # f.path}
           = From(archive.entries, p[1] + 1)
  BY <1>1, <1>2, <1>3, FrameIs
<1>6. p[2] # -1
  <2>1. Content \subseteq Seq(Nat) /\ << >> \in Seq(Nat)
    BY ArchiveAssumption
  <2>2. e.hash \in Seq(Nat)
    BY <1>5, <2>1 DEF Announced
  <2> QED
    BY <1>4, <2>2
<1>7. /\ rcv.open # << >> /\ Active.path = e.path
      /\ Active.data = SubSeq(e.hash, 1, Len(e.hash))
      /\ ActiveEntry = e /\ e.hash \in Seq(Nat) /\ e.size = Len(e.hash)
  BY <1>1, <1>2, <1>3, <1>4, <1>6, OpenIs
<1>8. SubSeq(e.hash, 1, Len(e.hash)) = e.hash
  BY <1>7
<1>9. Verified
  BY <1>7, <1>8 DEF Verified
<1>10. PICK n \in Targets(e.path) :
         IF CanPlace(e.path, n)
         THEN Proceed(<< >>, {x \in rcv.remaining : x.path # e.path})
         ELSE UnpackFails
  BY <1>7, <1>9 DEF UnpackFileEnd
<1>11. CASE ~CanPlace(e.path, n)
  <2>1. overwrite => n = 0
    BY <1>10 DEF Targets
  <2>2. ~overwrite => dest[<<e.path, n>>] = Absent
    BY <1>10 DEF Targets, FirstFree
  <2>3. InTheWay
    BY <1>4, <1>5, <1>11, <2>1, <2>2, Distinct DEF CanPlace, InTheWay
  <2> QED
    BY <1>10, <1>11, <2>3
<1>12. CASE CanPlace(e.path, n)
  <2>1. PICK open, remaining :
          open = << >> /\ remaining = {x \in rcv.remaining : x.path # e.path}
    OBVIOUS
  <2>2. Proceed(open, remaining)
    BY <1>10, <1>12, <2>1
  <2>3. q[1] = p[1] + 1 /\ q[2] = -1
    BY <1>4
  <2>4. remaining = From(archive.entries, q[1])
    BY <1>5, <2>1, <2>3
  <2> QED
    BY <1>1, <1>2, <2>1, <2>2, <2>3, <2>4, Onward
<1> QED
  BY <1>11, <1>12

\* The stream ends where the last entry does.
LEMMA EndWhole ==
  ASSUME ArchiveInv, WholeInv, ~disturbed, UnpackEnd
  PROVE  rcv'.pc = "done" /\ snd'.pc = "idle"
<1>1. rcv.pc = "unpack" /\ rcv.next = Len(archive.body) + 1 /\ snd.pc = "sent"
      /\ Len(archive.body) \in Nat /\ Len(archive.entries) \in Nat
  BY DEF UnpackEnd, ArchiveInv, TypeInv, UnpackInv
<1>2. PICK p : p = <<Len(archive.entries) + 1, -1>> /\ Reached(p)
  <2>1. PICK w : /\ w[Len(archive.body) + 1] = <<Len(archive.entries) + 1, -1>>
                 /\ Reached(w[rcv.next])
    BY <1>1 DEF WholeInv
  <2>2. PICK p : p = w[rcv.next]
    OBVIOUS
  <2> QED
    BY <1>1, <2>1, <2>2
<1>3. p[1]..Len(archive.entries) = {} /\ p[2] = -1
  BY <1>1, <1>2
<1>4. rcv.open = << >> /\ rcv.remaining = {}
  BY <1>2, <1>3 DEF Reached, From
<1>5. rcv' = [ReceiverAt("done") EXCEPT !.expected = rcv.expected] /\ snd' = SenderAt("idle")
  BY <1>4 DEF UnpackEnd
<1> QED
  BY <1>5 DEF ReceiverAt, SenderAt

-------------------------------------------------------------------------------
(* Why unpacking fails. *)

\* One side at a time is at work, whatever happens.
LEMMA TurnKeeps ==
  ASSUME ArchiveInv, TurnInv, [Next]_vars
  PROVE  TurnInv'
<1>1. snd \in SenderType /\ rcv \in ReceiverType
      /\ (rcv.pc = "unpack" => snd.pc = "sent")
  BY DEF ArchiveInv, TypeInv, UnpackInv
<1>2. ASSUME UNCHANGED rcv, rcv.pc = "idle"
      PROVE  TurnInv'
  BY <1>2 DEF TurnInv
<1>3. CASE CreateStep
  <2>1. CASE \E order \in Orders : StartSend(order)
    BY <2>1 DEF StartSend, ReceiverAt, TurnInv
  <2>2. CASE UNCHANGED rcv /\ snd.pc \in {"scan", "build", "failed"}
    BY <1>2, <2>2 DEF TurnInv
  <2> QED
    BY <1>3, <2>1, <2>2
       DEF CreateStep, ScanRejects, ScanSkips, ScanDirectory, ScanFileSize, ScanFileHash,
           ScanEnds, Scan, SendFails, BuildDirectory, BuildFileStart, BuildChunk,
           BuildFileEnd, BuildFails, WriteFrame, FinishArchive, NextSend, Scanning, InBody,
           ReceiverRests
<1>4. CASE StartUnpack
  BY <1>4 DEF StartUnpack, ReceiverAt, TurnInv
<1>5. CASE UnpackFails
  BY <1>5 DEF UnpackFails, ReceiverAt, SenderAt, TurnInv
<1>6. ASSUME NEW open, NEW remaining, Proceed(open, remaining), rcv.pc = "unpack"
      PROVE  TurnInv'
  <2>1. rcv'.pc = "unpack" /\ UNCHANGED snd
    BY <1>1, <1>6 DEF Proceed, ReceiverType
  <2> QED
    BY <1>1, <1>6, <2>1 DEF TurnInv
<1>7. CASE ReadManifest
  <2>1. rcv.pc = "unpack"
        /\ (UnpackFails \/ (rcv'.pc = "unpack" /\ UNCHANGED snd))
    BY <1>1, <1>7 DEF ReadManifest, ReceiverType
  <2> QED
    BY <1>1, <1>5, <2>1 DEF TurnInv
<1>8. CASE UnpackDirectory \/ UnpackFileStart \/ UnpackChunk \/ UnpackFileEnd
  BY <1>5, <1>6, <1>8
     DEF UnpackDirectory, UnpackFileStart, UnpackChunk, UnpackFileEnd, AtFrame
<1>9. CASE UnpackEnd
  BY <1>5, <1>9 DEF UnpackEnd, ReceiverAt, SenderAt, TurnInv
<1>10. CASE Crash
  BY <1>1, <1>10 DEF Crash, ReceiverAt, TurnInv
<1>11. CASE UserStep
  <2>1. UNCHANGED rcv /\ snd'.pc = snd.pc
    <3>1. \A i, c, b : Edit(i, c, b) => UNCHANGED rcv /\ snd'.pc = snd.pc
      BY <1>1 DEF Edit, SenderType
    <3> QED
      BY <1>11, <3>1 DEF UserStep, Occupy
  <2> QED
    BY <2>1 DEF TurnInv
<1>12. CASE Finished \/ UNCHANGED vars
  BY <1>12 DEF Finished, vars, TurnInv
<1> QED
  BY <1>3, <1>4, <1>5, <1>7, <1>8, <1>9, <1>10, <1>11, <1>12 DEF Next, UnpackStep, IoError

\* The archive that is finished is as its manifest says, and made of the files.
LEMMA FinishIs ==
  ASSUME ArchiveInv, SendInv, ~disturbed, FinishArchive
  PROVE  /\ MadeOf(source, archive')
         /\ \A i \in DOMAIN archive'.entries : archive'.entries[i].kind = "file" =>
              archive'.entries[i].size = Len(archive'.entries[i].hash)
<1>1. /\ inputs \in Seq(Input) /\ snd.entries \in Seq(Scannable) /\ snd.body \in Seq(FrameType)
  BY DEF ArchiveInv, TypeInv, SenderType
<1>2. PICK old, body : old = snd.entries /\ body = snd.body
  OBVIOUS
<1>3. /\ EntriesOK(old) /\ Carries(old, body, snd.at, snd.read)
      /\ snd.at = Len(old) + 1 /\ snd.read = -1
  <2>1. BuildOK(snd) /\ snd.at > Len(old) /\ snd.at \in Nat /\ Len(old) \in Nat
    BY <1>1, <1>2 DEF FinishArchive, SendInv, ArchiveInv, TypeInv, SenderType
  <2> QED
    BY <1>2, <2>1 DEF BuildOK
<1>4. PICK entries, a : entries = Public(old) /\ a = archive'
  OBVIOUS
<1>5. /\ a = [id |-> ManifestId(Resolved(requested, Len(body) + 1), entries),
              compression |-> Resolved(requested, Len(body) + 1),
              entries |-> entries, body |-> body]
  BY <1>2, <1>4 DEF FinishArchive
<1>6. a.entries = entries /\ a.body = body /\ a.compression = Resolved(requested, Len(body) + 1)
      /\ a.id = ManifestId(a.compression, entries)
      /\ a = [id |-> a.id, compression |-> a.compression, entries |-> a.entries, body |-> a.body]
  BY <1>5
<1>7. /\ entries \in Seq(Announced) /\ DOMAIN entries = DOMAIN old /\ Len(entries) = Len(old)
      /\ \A i \in DOMAIN old :
           entries[i] = [path |-> old[i].path, kind |-> old[i].kind,
                         size |-> old[i].size, hash |-> old[i].hash]
  <2>1. \A e \in Scannable :
          [path |-> e.path, kind |-> e.kind, size |-> e.size, hash |-> e.hash] \in Announced
    BY DEF Scannable, Announced, Hashed
  <2>2. DOMAIN old = 1..Len(old) /\ \A i \in DOMAIN old : old[i] \in Scannable
    BY <1>1, <1>2
  <2>3. entries \in [1..Len(old) -> Announced]
    BY <1>4, <2>1, <2>2 DEF Public
  <2>4. entries \in Seq(Announced) /\ DOMAIN entries = 1..Len(old) /\ Len(entries) = Len(old)
    BY <1>1, <1>2, <2>3
  <2> QED
    BY <1>4, <2>2, <2>4 DEF Public
<1>8. Carries(entries, body, Len(entries) + 1, -1)
  <2>1. PICK w : Walk(old, body, w) /\ w[Len(body) + 1] = <<Len(old) + 1, -1>>
    BY <1>3 DEF Carries
  <2>2. Walk(entries, body, w)
    BY <1>1, <1>2, <1>4, <2>1, WalkIsPublic
  <2> QED
    BY <1>7, <2>1, <2>2 DEF Carries
<1>9. Sorted(entries)
  <2>1. \A i \in DOMAIN old : entries[i].path = old[i].path
    BY <1>7
  <2> QED
    BY <1>3, <1>7, <2>1 DEF EntriesOK, Sorted
<1>10. \A k \in DOMAIN old : old[k].src \in Kept /\ entries[k] = Shown(old[k].src, source)
  BY <1>3, <1>7 DEF EntriesOK, Faithful
<1>11. PICK f : f = [k \in DOMAIN entries |-> old[k].src]
  OBVIOUS
<1>12. /\ f \in [DOMAIN entries -> Kept]
       /\ \A k, l \in DOMAIN entries : f[k] = f[l] => k = l
       /\ \A i \in Kept : \E k \in DOMAIN entries : f[k] = i
       /\ \A k \in DOMAIN entries : entries[k] = Shown(f[k], source)
  <2>1. f \in [DOMAIN entries -> Kept] /\ \A k \in DOMAIN entries : f[k] = old[k].src
    BY <1>7, <1>10, <1>11
  <2>2. \A k, l \in DOMAIN entries : f[k] = f[l] => k = l
    BY <1>3, <1>7, <2>1 DEF EntriesOK, OncePerInput
  <2>3. \A i \in Kept : \E k \in DOMAIN entries : f[k] = i
    BY <1>3, <1>7, <2>1 DEF EntriesOK
  <2> QED
    BY <1>7, <1>10, <2>1, <2>2, <2>3
<1>13. MadeOf(source, a)
  BY <1>1, <1>2, <1>6, <1>7, <1>8, <1>9, <1>12 DEF MadeOf
<1>14. \A k \in DOMAIN entries : entries[k].kind = "file" => entries[k].size = Len(entries[k].hash)
  BY <1>7, <1>10 DEF Shown
<1> QED
  BY <1>4, <1>6, <1>13, <1>14

\* Editing leaves create_archive where it is.
LEMMA EditIs ==
  ASSUME ArchiveInv, NEW i, NEW c, NEW b, Edit(i, c, b)
  PROVE  snd'.pc = snd.pc
<1>1. snd \in SenderType
  BY DEF ArchiveInv, TypeInv
<1>2. snd' = snd \/ snd' = [snd EXCEPT !.file = c]
  BY DEF Edit
<1> QED
  BY <1>1, <1>2 DEF SenderType

\* What happens to the sources, to an archive and to the state of this history
\* in a step that is none of create_archive.
LEMMA OtherSteps ==
  ASSUME ArchiveInv, [Next]_vars, ~CreateStep
  PROVE  /\ UNCHANGED <<inputs, requested, overwrite, archive, made>>
         /\ \/ UNCHANGED <<source, disturbed>> /\ snd' \in {snd, SenderAt("idle")}
            \/ disturbed'
            \/ /\ UNCHANGED <<rcv, dest, faults>> /\ (disturbed' <=> disturbed)
               /\ snd'.pc = snd.pc /\ snd.pc \notin {"scan", "build"}
<1>1. CASE \E i \in DOMAIN inputs, c \in Content \cup {Gone}, b \in BOOLEAN : Edit(i, c, b)
  <2>1. snd'.pc = snd.pc
    BY <1>1, EditIs
  <2>2. UNCHANGED <<inputs, requested, overwrite, archive, made, rcv, dest, faults>>
        /\ (disturbed' <=> disturbed \/ snd.pc \in {"scan", "build"})
    BY <1>1 DEF Edit
  <2> QED
    BY <2>1, <2>2
<1>2. CASE \E p \in Path, node \in {Directory, Users} : Occupy(p, node)
  BY <1>2 DEF Occupy
<1>3. CASE UnpackStep \/ IoError \/ Crash
  BY <1>3
     DEF UnpackStep, StartUnpack, ReadManifest, UnpackDirectory, UnpackFileStart, UnpackChunk,
         UnpackFileEnd, UnpackEnd, IoError, Crash, UnpackFails, Proceed, SenderRests
<1>4. CASE Finished \/ UNCHANGED vars
  BY <1>4 DEF Finished, vars
<1> QED
  BY <1>1, <1>2, <1>3, <1>4 DEF Next, UserStep

\* The sender's part of the invariant.
LEMMA SendStays ==
  ASSUME ArchiveInv, SendInv, [Next]_vars
  PROVE  SendInv'
<1>1. CASE CreateStep
  BY <1>1, SendKeeps
<1>2. CASE ~CreateStep
  <2>1. CASE disturbed'
    BY <2>1 DEF SendInv
  <2>2. CASE UNCHANGED <<inputs, source, disturbed, snd>>
    <3>1. PICK s : s = snd
      OBVIOUS
    <3>2. ScanOK(s) => ScanOK(snd)'
      BY <2>2, <3>1, SameSources
    <3>3. BuildOK(s) => BuildOK(snd)'
      BY <2>2, <3>1, SameSources
    <3> QED
      BY <2>2, <3>1, <3>2, <3>3 DEF SendInv
  <2>3. CASE snd'.pc \notin {"scan", "build"}
    BY <2>3 DEF SendInv
  <2>4. SenderAt("idle").pc = "idle"
    BY DEF SenderAt
  <2> QED
    BY <1>2, <2>1, <2>2, <2>3, <2>4, OtherSteps
<1> QED
  BY <1>1, <1>2

\* The receiver's part of the invariant.
LEMMA WholeStays ==
  ASSUME ArchiveInv, TurnInv, SendInv, WholeInv, [Next]_vars
  PROVE  WholeInv'
<1>1. CASE disturbed' \/ snd'.pc # "sent"
  BY <1>1 DEF WholeInv
<1>2. ASSUME UNCHANGED archive, disturbed' <=> disturbed, snd'.pc = snd.pc,
             UNCHANGED rcv \/ rcv'.pc # "unpack" \/ rcv'.next = 0
      PROVE  WholeInv'
  <2> SUFFICES ASSUME ~disturbed, snd.pc = "sent"
               PROVE  WholeInv'
    BY <1>2 DEF WholeInv
  <2>1. PICK w : /\ Walk(archive.entries, archive.body, w)
                 /\ w[Len(archive.body) + 1] = <<Len(archive.entries) + 1, -1>>
                 /\ rcv.pc = "unpack" /\ rcv.next > 0 =>
                      /\ rcv.next <= Len(archive.body) + 1
                      /\ ~Duplicates(archive.entries)
                      /\ Reached(w[rcv.next])
    BY DEF WholeInv
  <2>2. /\ Walk(archive.entries, archive.body, w)'
        /\ w[Len(archive'.body) + 1] = <<Len(archive'.entries) + 1, -1>>
    BY <1>2, <2>1
  <2>3. \A i \in DOMAIN archive'.entries :
          archive'.entries[i].kind = "file" =>
            archive'.entries[i].size = Len(archive'.entries[i].hash)
    BY <1>2 DEF WholeInv
  <2>4. CASE UNCHANGED rcv
    BY <1>2, <2>1, <2>2, <2>3, <2>4 DEF WholeInv, Reached
  <2>5. CASE rcv'.pc # "unpack" \/ rcv'.next = 0
    BY <2>2, <2>3, <2>5 DEF WholeInv
  <2> QED
    BY <1>2, <2>4, <2>5
<1>3. CASE FinishArchive
  <2>1. CASE disturbed
    BY <1>1, <1>3, <2>1 DEF FinishArchive
  <2>2. CASE ~disturbed
    <3>1. /\ MadeOf(source, archive')
          /\ \A i \in DOMAIN archive'.entries : archive'.entries[i].kind = "file" =>
               archive'.entries[i].size = Len(archive'.entries[i].hash)
      BY <1>3, <2>2, FinishIs
    <3>2. PICK w : /\ Walk(archive'.entries, archive'.body, w)
                   /\ w[Len(archive'.body) + 1] = <<Len(archive'.entries) + 1, -1>>
      BY <3>1 DEF MadeOf, Carries
    <3>3. rcv'.pc # "unpack"
      BY <1>3 DEF FinishArchive, ReceiverRests, TurnInv
    <3> QED
      BY <3>1, <3>2, <3>3 DEF WholeInv
  <2> QED
    BY <2>1, <2>2
<1>4. CASE CreateStep
  <2>1. FinishArchive \/ snd'.pc # "sent"
    <3>1. snd \in SenderType
      BY DEF ArchiveInv, TypeInv
    <3>2. ASSUME NEW order, StartSend(order)
          PROVE  snd'.pc = "scan"
      BY <3>2 DEF StartSend, SenderAt
    <3>3. CASE ScanRejects \/ BuildFails \/ NextSend
      BY <3>3 DEF ScanRejects, BuildFails, NextSend, SendFails, SenderAt
    <3>4. CASE ScanSkips \/ ScanDirectory \/ ScanFileHash
      <4>1. snd.pc = "scan" /\ \E entry : Scan(entry)
        BY <3>4 DEF ScanSkips, ScanDirectory, ScanFileHash, Scanning
      <4> QED
        BY <3>1, <4>1 DEF Scan, SenderType
    <3>5. CASE ScanFileSize
      BY <3>1, <3>5 DEF ScanFileSize, Scanning, SenderType
    <3>6. CASE ScanEnds
      BY <3>1, <3>6 DEF ScanEnds, SenderType
    <3>7. CASE BuildDirectory \/ BuildFileStart \/ BuildChunk \/ BuildFileEnd
      <4>1. snd.pc = "build" /\ \E frame, at, file, read : WriteFrame(frame, at, file, read)
        BY <3>7 DEF BuildDirectory, BuildFileStart, BuildChunk, BuildFileEnd, InBody
      <4> QED
        BY <3>1, <4>1 DEF WriteFrame, SenderType
    <3> QED
      BY <1>4, <3>2, <3>3, <3>4, <3>5, <3>6, <3>7 DEF CreateStep
  <2> QED
    BY <1>1, <1>3, <2>1
<1>5. CASE UnpackFails
  BY <1>1, <1>5 DEF UnpackFails, SenderAt
<1>6. CASE StartUnpack
  BY <1>2, <1>6 DEF StartUnpack, SenderRests, ReceiverAt
<1>7. CASE /\ ReadManifest \/ UnpackDirectory \/ UnpackFileStart \/ UnpackChunk \/ UnpackFileEnd
              \/ UnpackEnd
  <2>1. UNCHANGED disturbed
    BY <1>7
       DEF ReadManifest, UnpackDirectory, UnpackFileStart, UnpackChunk, UnpackFileEnd, UnpackEnd,
           UnpackFails, Proceed, SenderRests
  <2> QED
    BY <1>1, <1>5, <1>7, <2>1, ManifestWhole, DirectoryWhole, FileStartWhole, ChunkWhole,
       FileEndWhole, EndWhole
<1>8. CASE Crash
  BY <1>2, <1>8 DEF Crash, SenderRests, ReceiverAt
<1>9. CASE \E i \in DOMAIN inputs, c \in Content \cup {Gone}, b \in BOOLEAN : Edit(i, c, b)
  <2>1. snd'.pc = snd.pc
    BY <1>9, EditIs
  <2>2. UNCHANGED <<archive, rcv>> /\ (disturbed' \/ (disturbed' <=> disturbed))
    BY <1>9 DEF Edit
  <2> QED
    BY <1>1, <1>2, <2>1, <2>2
<1>10. CASE \E p \in Path, node \in {Directory, Users} : Occupy(p, node)
  BY <1>2, <1>10 DEF Occupy
<1>11. CASE Finished \/ UNCHANGED vars
  BY <1>2, <1>11 DEF Finished, vars
<1> QED
  BY <1>4, <1>5, <1>6, <1>7, <1>8, <1>9, <1>10, <1>11 DEF Next, UnpackStep, UserStep, IoError

\* What is in the way stays there.
LEMMA InTheWayStays ==
  ASSUME ArchiveInv, InTheWay, UNCHANGED <<archive, overwrite>>,
         \A l \in Place : dest'[l] = dest[l] \/ dest[l] = Absent
  PROVE  InTheWay'
<1>1. PICK e \in Range(archive.entries) :
        \/ e.kind = "dir" /\ ~CanMakeDir(e.path)
        \/ e.kind = "file" /\ ~CanMakeDir(SubSeq(e.path, 1, Len(e.path) - 1))
        \/ e.kind = "file" /\ overwrite /\ dest[<<e.path, 0>>] = Directory
  BY DEF InTheWay
<1>2. PICK p \in Path : p = e.path
  BY DEF ArchiveInv, TypeInv, Range, Announced
<1>3. /\ p \in Seq(Nat) /\ Len(p) \in Nat \ {0} /\ 0 \in 0..MaxCopy
      /\ \A n \in 1..Len(p) : SubSeq(p, 1, n) \in Path
  BY Paths, ArchiveAssumption
<1>4. ASSUME NEW s, \A n \in 1..Len(s) : SubSeq(s, 1, n) \in Path, ~CanMakeDir(s)
      PROVE  ~CanMakeDir(s)'
  <2>1. PICK n \in 1..Len(s) : dest[<<SubSeq(s, 1, n), 0>>] \notin {Absent, Directory}
    BY <1>4 DEF CanMakeDir
  <2>2. <<SubSeq(s, 1, n), 0>> \in Place
    BY <1>3, <1>4 DEF Place
  <2>3. dest'[<<SubSeq(s, 1, n), 0>>] \notin {Absent, Directory}
    BY <2>1, <2>2
  <2> QED
    BY <2>3 DEF CanMakeDir
<1>5. PICK parent : parent = SubSeq(p, 1, Len(p) - 1)
  OBVIOUS
<1>6. \A n \in 1..Len(parent) : SubSeq(parent, 1, n) \in Path
  <2> SUFFICES ASSUME NEW n \in 1..Len(parent)
               PROVE  SubSeq(parent, 1, n) \in Path
    OBVIOUS
  <2>1. PICK m \in Nat : m = Len(p) /\ m > 0
    BY <1>3
  <2>2. parent \in Seq(Nat) /\ Len(parent) = m - 1 /\ \A i \in 1..(m - 1) : parent[i] = p[i]
    BY <1>3, <1>5, <2>1
  <2>3. n \in 1..m /\ n \in 1..(m - 1)
    BY <2>1, <2>2
  <2>4. PICK a, b : a = SubSeq(parent, 1, n) /\ b = SubSeq(p, 1, n)
    OBVIOUS
  <2>5. a \in Seq(Nat) /\ Len(a) = n /\ \A i \in 1..n : a[i] = parent[i]
    BY <2>1, <2>2, <2>3, <2>4
  <2>6. b \in Seq(Nat) /\ Len(b) = n /\ \A i \in 1..n : b[i] = p[i]
    BY <1>3, <2>1, <2>3, <2>4
  <2>7. ASSUME NEW i \in 1..n
        PROVE  a[i] = b[i]
    <3>1. i \in 1..(m - 1)
      BY <2>1, <2>3
    <3> QED
      BY <2>2, <2>5, <2>6, <3>1
  <2>8. a = b
    BY <2>5, <2>6, <2>7
  <2> QED
    BY <1>3, <2>1, <2>3, <2>4, <2>8
<1>7. CASE e.kind = "dir" /\ ~CanMakeDir(e.path)
  BY <1>2, <1>3, <1>4, <1>7 DEF InTheWay
<1>8. CASE e.kind = "file" /\ ~CanMakeDir(SubSeq(e.path, 1, Len(e.path) - 1))
  <2>1. ~CanMakeDir(parent)'
    BY <1>2, <1>4, <1>5, <1>6, <1>8
  <2> QED
    BY <1>2, <1>5, <1>8, <2>1 DEF InTheWay
<1>9. CASE e.kind = "file" /\ overwrite /\ dest[<<e.path, 0>>] = Directory
  <2>1. <<p, 0>> \in Place
    BY <1>3 DEF Place
  <2>2. dest'[<<e.path, 0>>] = Directory
    BY <1>2, <1>9, <2>1, Distinct
  <2> QED
    BY <1>9, <2>2 DEF InTheWay
<1> QED
  BY <1>1, <1>7, <1>8, <1>9

\* Unpacking fails because of what the property names.
LEMMA FailsOnly ==
  ASSUME ArchiveInv, WholeInv, faults \in Nat, [Next]_vars, rcv'.pc = "failed", ~UNCHANGED rcv
  PROVE  /\ UNCHANGED <<archive, overwrite, dest>>
         /\ disturbed' \/ faults' > 0 \/ InTheWay \/ ~Acceptable(archive.entries)
<1>1. rcv \in ReceiverType
  BY DEF ArchiveInv, TypeInv
<1>2. CASE CreateStep
  <2>1. UNCHANGED rcv \/ \E order : StartSend(order)
    BY <1>2
       DEF CreateStep, ScanRejects, ScanSkips, ScanDirectory, ScanFileSize, ScanFileHash,
           ScanEnds, Scan, SendFails, BuildDirectory, BuildFileStart, BuildChunk, BuildFileEnd,
           BuildFails, WriteFrame, FinishArchive, NextSend, ReceiverRests
  <2>2. \A order : StartSend(order) => rcv'.pc = "idle"
    BY DEF StartSend, ReceiverAt
  <2> QED
    BY <2>1, <2>2
<1>3. CASE StartUnpack \/ Crash \/ UserStep \/ Finished \/ UNCHANGED vars
  <2>1. CASE StartUnpack \/ Crash
    BY <2>1 DEF StartUnpack, Crash, ReceiverAt
  <2>2. UserStep => UNCHANGED rcv
    BY DEF UserStep, Edit, Occupy
  <2> QED
    BY <1>3, <2>1, <2>2 DEF Finished, vars
<1>4. CASE IoError
  <2>1. faults' > 0
    BY <1>4 DEF IoError, Fault
  <2> QED
    BY <1>4, <2>1 DEF IoError, UnpackFails, SenderRests
<1>5. CASE /\ ReadManifest \/ UnpackDirectory \/ UnpackFileStart \/ UnpackChunk \/ UnpackFileEnd
              \/ UnpackEnd
  <2>1. rcv.pc = "unpack"
    BY <1>5
       DEF ReadManifest, UnpackDirectory, UnpackFileStart, UnpackChunk, UnpackFileEnd, UnpackEnd,
           AtFrame
  <2>2. \A open, remaining : Proceed(open, remaining) => rcv'.pc = "unpack"
    BY <1>1, <2>1 DEF Proceed, ReceiverType
  <2>3. UnpackFails /\ UNCHANGED disturbed
    <3>1. CASE ReadManifest
      BY <1>1, <2>1, <3>1 DEF ReadManifest, UnpackFails, SenderRests, ReceiverType
    <3>2. CASE UnpackDirectory \/ UnpackFileStart \/ UnpackChunk \/ UnpackFileEnd
      BY <2>2, <3>2
         DEF UnpackDirectory, UnpackFileStart, UnpackChunk, UnpackFileEnd, UnpackFails,
             SenderRests
    <3>3. CASE UnpackEnd
      BY <3>3 DEF UnpackEnd, UnpackFails, SenderRests, ReceiverAt
    <3> QED
      BY <1>5, <3>1, <3>2, <3>3
  <2>4. disturbed \/ InTheWay \/ ~Acceptable(archive.entries)
    BY <1>5, ManifestWhole, DirectoryWhole, FileStartWhole, ChunkWhole, FileEndWhole, EndWhole
  <2> QED
    BY <2>3, <2>4 DEF UnpackFails, SenderRests
<1> QED
  BY <1>2, <1>3, <1>4, <1>5 DEF Next, UnpackStep

\* The cause stays while unpacking has failed.
LEMMA CauseStays ==
  ASSUME ArchiveInv, TurnInv, faults \in Nat, FailureHasCause, [Next]_vars,
         rcv.pc = "failed", UNCHANGED rcv
  PROVE  FailureHasCause'
<1>1. snd.pc = "idle"
  BY DEF TurnInv
<1>2. CASE UNCHANGED <<archive, overwrite, dest, faults>> /\ (disturbed => disturbed')
  BY <1>2 DEF FailureHasCause, InTheWay, CanMakeDir, Acceptable
<1>3. CASE CreateStep
  <2>1. ASSUME NEW order, StartSend(order)
        PROVE  FailureHasCause'
    BY <2>1 DEF StartSend, ReceiverAt, FailureHasCause
  <2> QED
    BY <1>1, <1>3, <2>1
       DEF CreateStep, ScanRejects, ScanSkips, ScanDirectory, ScanFileSize, ScanFileHash,
           ScanEnds, BuildDirectory, BuildFileStart, BuildChunk, BuildFileEnd,
           BuildFails, FinishArchive, NextSend, Scanning, InBody
<1>4. CASE \E p \in Path, node \in {Directory, Users} : Occupy(p, node)
  <2>1. UNCHANGED <<archive, overwrite, faults, disturbed>>
    BY <1>4 DEF Occupy
  <2>2. \A l \in Place : dest'[l] = dest[l] \/ dest[l] = Absent
    BY <1>4, OccupyIs
  <2>3. InTheWay => InTheWay'
    BY <2>1, <2>2, InTheWayStays
  <2> QED
    BY <2>1, <2>3 DEF FailureHasCause, Acceptable
<1>5. CASE \E i \in DOMAIN inputs, c \in Content \cup {Gone}, b \in BOOLEAN : Edit(i, c, b)
  <2>1. UNCHANGED <<archive, overwrite, dest, faults>> /\ (disturbed => disturbed')
    BY <1>5 DEF Edit
  <2> QED
    BY <1>2, <2>1
<1>6. CASE UnpackStep \/ IoError \/ Crash
  BY <1>1, <1>6
     DEF UnpackStep, StartUnpack, ReadManifest, UnpackDirectory, UnpackFileStart, UnpackChunk,
         UnpackFileEnd, UnpackEnd, IoError, Crash, AtFrame
<1>7. CASE Finished \/ UNCHANGED vars
  BY <1>2, <1>7 DEF Finished, vars
<1> QED
  BY <1>3, <1>4, <1>5, <1>6, <1>7 DEF Next, UserStep

\* Every step keeps the invariant.
LEMMA CauseKeeps ==
  ASSUME CauseInv, [Next]_vars
  PROVE  CauseInv'
<1>1. ArchiveInv /\ TurnInv /\ SendInv /\ WholeInv /\ faults \in Nat /\ FailureHasCause
  BY DEF CauseInv
<1>2. ArchiveInv' /\ TurnInv' /\ SendInv' /\ WholeInv'
  BY <1>1, Stays, TurnKeeps, SendStays, WholeStays
<1>3. faults' \in Nat
  <2>1. UNCHANGED faults \/ faults' = faults + 1
    <3>1. CASE CreateStep
      BY <3>1
         DEF CreateStep, StartSend, ScanRejects, ScanSkips, ScanDirectory, ScanFileSize,
             ScanFileHash, ScanEnds, Scan, SendFails, BuildDirectory, BuildFileStart, BuildChunk,
             BuildFileEnd, BuildFails, WriteFrame, FinishArchive, NextSend, ReceiverRests
    <3>2. CASE UnpackStep \/ IoError \/ Crash
      BY <3>2
         DEF UnpackStep, StartUnpack, ReadManifest, UnpackDirectory, UnpackFileStart, UnpackChunk,
             UnpackFileEnd, UnpackEnd, Proceed, IoError, Crash, Fault
    <3>3. CASE UserStep \/ Finished \/ UNCHANGED vars
      BY <3>3 DEF UserStep, Edit, Occupy, Finished, vars
    <3> QED
      BY <3>1, <3>2, <3>3 DEF Next
  <2> QED
    BY <1>1, <2>1
<1>4. FailureHasCause'
  <2>1. CASE rcv'.pc # "failed"
    BY <2>1 DEF FailureHasCause
  <2>2. CASE rcv'.pc = "failed" /\ UNCHANGED rcv
    BY <1>1, <2>2, CauseStays
  <2>3. CASE rcv'.pc = "failed" /\ ~UNCHANGED rcv
    <3>1. /\ UNCHANGED <<archive, overwrite, dest>>
          /\ disturbed' \/ faults' > 0 \/ InTheWay \/ ~Acceptable(archive.entries)
      BY <1>1, <2>3, FailsOnly
    <3>2. InTheWay => InTheWay'
      BY <3>1 DEF InTheWay, CanMakeDir
    <3> QED
      BY <3>1, <3>2 DEF FailureHasCause, Acceptable
  <2> QED
    BY <2>1, <2>2, <2>3
<1> QED
  BY <1>2, <1>3, <1>4 DEF CauseInv

\* Nobody is at work at the start.
LEMMA CauseInitially ==
  ASSUME Init
  PROVE  CauseInv
<1>1. ArchiveInv
  BY Initially
<1>2. snd.pc = "idle" /\ rcv.pc = "idle" /\ faults = 0
  BY DEF Init, SenderAt, ReceiverAt
<1> QED
  BY <1>1, <1>2 DEF CauseInv, TurnInv, SendInv, WholeInv, FailureHasCause

\* Unpacking fails only because a source changed while it was sent, something
\* is in the way, a path is refused, two inputs share one, or of an I/O error.
THEOREM FailuresTakeACause == Spec => []FailureHasCause
<1>1. Spec => []CauseInv
  BY CauseInitially, CauseKeeps, PTL DEF Spec
<1>2. CauseInv => FailureHasCause
  BY DEF CauseInv
<1> QED
  BY <1>1, <1>2, PTL

-------------------------------------------------------------------------------
(* Why the same files make the same archive. *)

\* A set of natural numbers has a least element.  The theorem of the library
\* for induction takes an operator; that finite sets are well-founded under
\* inclusion does not.
LEMMA Least ==
  ASSUME NEW T \in SUBSET Nat, T # {}
  PROVE  \E x \in T : \A y \in T : x <= y
<1> DEFINE U == {0..n : n \in T}
           R == StrictSubsetOrdering(Nat)
<1>1. U \subseteq FiniteSubsetsOf(Nat) /\ U # {}
  <2>1. \A n \in T : IsFiniteSet(0..n) /\ 0..n \in SUBSET Nat
    BY FS_Interval
  <2> QED
    BY <2>1 DEF FiniteSubsetsOf
<1>2. IsWellFoundedOn(R, FiniteSubsetsOf(Nat))
  BY FS_StrictSubsetOrderingWellFounded
<1> HIDE DEF U, R
<1>3. PICK a \in U : \A b \in U : <<b, a>> \notin R
  BY <1>1, <1>2, WFMin
<1> USE DEF U, R
<1>4. PICK x \in T : a = 0..x
  BY <1>3
<1>5. ASSUME NEW y \in T, y < x
      PROVE  FALSE
  <2>1. 0..y \subseteq 0..x /\ x \in 0..x /\ x \notin 0..y /\ 0..y \in U
    BY <1>5
  <2>2. <<0..y, a>> \in R
    BY <2>1, <1>4, <1>3 DEF StrictSubsetOrdering
  <2> QED
    BY <1>3, <2>1, <2>2
<1> QED
  BY <1>5

\* From a position there is one way on.
LEMMA OneWay ==
  ASSUME NEW entries \in Seq(Announced), NEW p, NEW f \in FrameType, NEW g \in FrameType,
         NEW q, NEW r, Follows(entries, p, f, q), Follows(entries, p, g, r)
  PROVE  f = g /\ q = r
<1>1. PICK e, i, k : e = entries[p[1]] /\ i = p[1] /\ k = p[2]
  OBVIOUS
<1>2. e \in Announced
  BY <1>1 DEF Follows
<1>3. Len(e.hash) \in Nat
  <2>1. Content \subseteq Seq(Nat) /\ << >> \in Seq(Nat)
    BY ArchiveAssumption
  <2> QED
    BY <1>2, <2>1 DEF Announced
<1>4. /\ f.path = e.path
      /\ \/ e.kind = "dir" /\ k = -1 /\ f.type = "dir" /\ f.data = << >> /\ q = <<i + 1, -1>>
         \/ e.kind = "file" /\ k = -1 /\ f.type = "start" /\ f.data = << >> /\ q = <<i, 0>>
         \/ /\ e.kind = "file" /\ k \in 0..(Len(e.hash) - 1)
            /\ f.type = "chunk" /\ f.data = <<e.hash[k + 1]>> /\ q = <<i, k + 1>>
         \/ /\ e.kind = "file" /\ k = Len(e.hash)
            /\ f.type = "end" /\ f.data = << >> /\ q = <<i + 1, -1>>
  BY <1>1 DEF Follows
<1>5. /\ g.path = e.path
      /\ \/ e.kind = "dir" /\ k = -1 /\ g.type = "dir" /\ g.data = << >> /\ r = <<i + 1, -1>>
         \/ e.kind = "file" /\ k = -1 /\ g.type = "start" /\ g.data = << >> /\ r = <<i, 0>>
         \/ /\ e.kind = "file" /\ k \in 0..(Len(e.hash) - 1)
            /\ g.type = "chunk" /\ g.data = <<e.hash[k + 1]>> /\ r = <<i, k + 1>>
         \/ /\ e.kind = "file" /\ k = Len(e.hash)
            /\ g.type = "end" /\ g.data = << >> /\ r = <<i + 1, -1>>
  BY <1>1 DEF Follows
<1>6. f.type = g.type /\ f.path = g.path /\ f.data = g.data /\ q = r
  BY <1>3, <1>4, <1>5
<1>7. f = [type |-> f.type, path |-> f.path, data |-> f.data]
      /\ g = [type |-> g.type, path |-> g.path, data |-> g.data]
  BY DEF FrameType
<1> QED
  BY <1>6, <1>7

\* Of two ways through the same entries, the one that ends first is the other.
LEMMA OneBody ==
  ASSUME NEW entries \in Seq(Announced), NEW a \in Seq(FrameType), NEW b \in Seq(FrameType),
         Carries(entries, a, Len(entries) + 1, -1), Carries(entries, b, Len(entries) + 1, -1),
         Len(a) <= Len(b)
  PROVE  a = b
<1>1. PICK v : Walk(entries, a, v) /\ v[Len(a) + 1] = <<Len(entries) + 1, -1>>
  BY DEF Carries
<1>2. PICK w : Walk(entries, b, w) /\ w[Len(b) + 1] = <<Len(entries) + 1, -1>>
  BY DEF Carries
<1>3. PICK n \in Nat, m \in Nat : n = Len(a) /\ m = Len(b) /\ n <= m
  OBVIOUS
<1>4. /\ v[1] = <<1, -1>> /\ w[1] = <<1, -1>>
      /\ \A i \in 1..n : a[i] \in FrameType /\ Follows(entries, v[i], a[i], v[i + 1])
      /\ \A i \in 1..m : b[i] \in FrameType /\ Follows(entries, w[i], b[i], w[i + 1])
  BY <1>1, <1>2, <1>3 DEF Walk
<1>5. ASSUME NEW i \in 1..n, v[i] = w[i]
      PROVE  a[i] = b[i] /\ v[i + 1] = w[i + 1]
  <2>1. i \in 1..m
    BY <1>3
  <2>2. Follows(entries, v[i], a[i], v[i + 1]) /\ Follows(entries, v[i], b[i], w[i + 1])
    BY <1>4, <1>5, <2>1
  <2>3. a[i] \in FrameType /\ b[i] \in FrameType
    BY <1>4, <2>1
  <2> QED
    BY <2>2, <2>3, OneWay
<1>6. \A i \in 1..(n + 1) : v[i] = w[i]
  <2>1. PICK apart : apart = {i \in 1..(n + 1) : v[i] # w[i]}
    OBVIOUS
  <2>2. ASSUME apart # {}
        PROVE  FALSE
    <3>1. apart \in SUBSET Nat
      BY <1>3, <2>1
    <3>2. PICK x \in apart : \A y \in apart : x <= y
      BY <2>2, <3>1, Least
    <3>3. x \in 1..(n + 1) /\ v[x] # w[x] /\ x # 1
      BY <1>4, <2>1, <3>2
    <3>4. PICK y \in 1..n : x = y + 1
      BY <1>3, <3>3
    <3>5. y \in 1..(n + 1) /\ y \notin apart
      BY <1>3, <3>2, <3>4
    <3>6. v[y] = w[y]
      BY <2>1, <3>5
    <3> QED
      BY <1>5, <3>3, <3>4, <3>6
  <2> QED
    BY <2>1, <2>2
<1>7. n = m
  <2> SUFFICES ASSUME n < m
               PROVE  FALSE
    BY <1>3
  <2>1. n + 1 \in 1..m /\ n + 1 \in 1..(n + 1)
    BY <1>3
  <2>2. PICK p : p = w[n + 1]
    OBVIOUS
  <2>3. p = <<Len(entries) + 1, -1>>
    BY <1>1, <1>3, <1>6, <2>1, <2>2
  <2>4. p[1] = Len(entries) + 1
    BY <2>3
  <2>5. Follows(entries, p, b[n + 1], w[(n + 1) + 1])
    BY <1>4, <2>1, <2>2
  <2> QED
    BY <2>4, <2>5 DEF Follows
<1>8. \A i \in 1..n : a[i] = b[i]
  <2> SUFFICES ASSUME NEW i \in 1..n
               PROVE  a[i] = b[i]
    OBVIOUS
  <2>1. i \in 1..(n + 1)
    BY <1>3
  <2> QED
    BY <1>5, <1>6, <2>1
<1>9. Len(a) = Len(b)
  BY <1>3, <1>7
<1>10. \A i \in 1..Len(a) : a[i] = b[i]
  BY <1>3, <1>8
<1> QED
  BY <1>9, <1>10, SeqEqual

\* No two entries share a path: their order is strict.
Ordered(entries) ==
  \A k, l \in DOMAIN entries :
    k < l => Before(entries[k].path, entries[l].path)
             /\ ~Before(entries[l].path, entries[k].path)

\* A list in strict order is the only one of its elements.
LEMMA OneOrder ==
  ASSUME NEW a \in Seq(Announced), NEW b \in Seq(Announced), Ordered(a), Ordered(b),
         NEW h \in [DOMAIN a -> DOMAIN b], \A k \in DOMAIN a : b[h[k]] = a[k],
         \A l \in DOMAIN b : \E k \in DOMAIN a : h[k] = l
  PROVE  a = b
<1>1. PICK n \in Nat, m \in Nat :
        n = Len(a) /\ m = Len(b) /\ DOMAIN a = 1..n /\ DOMAIN b = 1..m
  OBVIOUS
<1>2. h \in [1..n -> 1..m] /\ \A l \in 1..m : \E k \in 1..n : h[k] = l
  BY <1>1
<1>3. ASSUME NEW k \in 1..n, NEW l \in 1..n, k < l
      PROVE  h[k] < h[l]
  <2>1. PICK x \in 1..m, y \in 1..m : x = h[k] /\ y = h[l]
    BY <1>2
  <2>2. b[x] = a[k] /\ b[y] = a[l]
    BY <1>1, <2>1
  <2>3. Before(a[k].path, a[l].path) /\ ~Before(a[l].path, a[k].path)
    BY <1>1, <1>3 DEF Ordered
  <2>4. x # y
    BY <2>2, <2>3
  <2>5. ~(y < x)
    BY <1>1, <2>2, <2>3 DEF Ordered
  <2> QED
    BY <2>1, <2>4, <2>5
<1>4. \A k \in 1..n : h[k] = k
  <2>1. PICK moved : moved = {k \in 1..n : h[k] # k}
    OBVIOUS
  <2>2. ASSUME moved # {}
        PROVE  FALSE
    <3>1. moved \in SUBSET Nat
      BY <1>1, <2>1
    <3>2. PICK x \in moved : \A y \in moved : x <= y
      BY <2>2, <3>1, Least
    <3>3. x \in 1..n /\ h[x] # x /\ h[x] \in 1..m
      BY <1>2, <2>1, <3>2
    <3>4. \A y \in 1..n : y < x => h[y] = y
      <4> SUFFICES ASSUME NEW y \in 1..n, y < x
                   PROVE  h[y] = y
        OBVIOUS
      <4>1. y \notin moved
        BY <3>2, <3>3
      <4> QED
        BY <2>1, <4>1
    <3>5. PICK z \in 1..m : z = h[x]
      BY <3>3
    <3>6. CASE z < x
      <4>1. z \in 1..n /\ h[z] = z
        BY <3>3, <3>4, <3>6
      <4>2. h[z] < h[x]
        BY <1>3, <3>3, <3>6, <4>1
      <4> QED
        BY <3>5, <4>1, <4>2
    <3>7. CASE x < z
      <4>1. x \in 1..m
        BY <3>3, <3>7
      <4>2. PICK y \in 1..n : h[y] = x
        BY <1>2, <4>1
      <4>3. x < y
        BY <3>3, <3>4, <4>2
      <4>4. h[x] < h[y]
        BY <1>3, <3>3, <4>3
      <4> QED
        BY <3>3, <3>5, <3>7, <4>2, <4>4
    <3> QED
      BY <3>3, <3>5, <3>6, <3>7
  <2> QED
    BY <2>1, <2>2
<1>5. n = m
  <2>1. CASE n < m
    <3>1. PICK k \in 1..n : h[k] = m
      BY <1>1, <1>2, <2>1
    <3> QED
      BY <1>4, <2>1, <3>1
  <2>2. CASE m < n
    <3>1. n \in 1..n /\ h[n] \in 1..m
      BY <1>1, <1>2, <2>2
    <3> QED
      BY <1>4, <2>2, <3>1
  <2> QED
    BY <2>1, <2>2
<1>6. \A k \in 1..n : a[k] = b[k]
  BY <1>1, <1>4
<1> QED
  BY <1>1, <1>5, <1>6

\* Neighbours in the order of paths that share none.
LEMMA OrderedIs ==
  ASSUME NEW entries \in Seq(Announced), Sorted(entries),
         \A k, l \in DOMAIN entries : entries[k].path = entries[l].path => k = l
  PROVE  Ordered(entries)
<1> SUFFICES ASSUME NEW k \in DOMAIN entries, NEW l \in DOMAIN entries, k < l
             PROVE  Before(entries[k].path, entries[l].path)
                    /\ ~Before(entries[l].path, entries[k].path)
  BY DEF Ordered
<1>1. PICK p, q : p = entries[k].path /\ q = entries[l].path
  OBVIOUS
<1>2. p \in Seq(Nat) /\ q \in Seq(Nat)
  <2>1. p \in Path /\ q \in Path
    BY <1>1 DEF Announced
  <2> QED
    BY <2>1, Paths
<1>3. Before(p, q)
  BY <1>1 DEF Sorted
<1>4. ~Before(q, p)
  BY <1>2, <1>3, BeforeIsStrict
<1> QED
  BY <1>1, <1>3, <1>4

\* Two archives of the same contents.
LEMMA OneArchive ==
  ASSUME NEW content, NEW a, NEW b, MadeOf(content, a), MadeOf(content, b),
         ~Duplicates(a.entries)
  PROVE  a = b
<1>1. PICK x, y : x = a.entries /\ y = b.entries
  OBVIOUS
<1>2. /\ x \in Seq(Announced) /\ y \in Seq(Announced) /\ Sorted(x) /\ Sorted(y)
      /\ a.body \in Seq(FrameType) /\ b.body \in Seq(FrameType)
      /\ Carries(x, a.body, Len(x) + 1, -1) /\ Carries(y, b.body, Len(y) + 1, -1)
  BY <1>1 DEF MadeOf
<1>3. PICK f \in [DOMAIN x -> Kept] :
        /\ \A k, l \in DOMAIN x : f[k] = f[l] => k = l
        /\ \A i \in Kept : \E k \in DOMAIN x : f[k] = i
        /\ \A k \in DOMAIN x : x[k] = Shown(f[k], content)
  <2>1. \E f \in [DOMAIN a.entries -> Kept] :
          /\ \A k, l \in DOMAIN a.entries : f[k] = f[l] => k = l
          /\ \A i \in Kept : \E k \in DOMAIN a.entries : f[k] = i
          /\ \A k \in DOMAIN a.entries : a.entries[k] = Shown(f[k], content)
    BY DEF MadeOf
  <2> QED
    BY <1>1, <2>1
<1>4. PICK g \in [DOMAIN y -> Kept] :
        /\ \A k, l \in DOMAIN y : g[k] = g[l] => k = l
        /\ \A i \in Kept : \E k \in DOMAIN y : g[k] = i
        /\ \A k \in DOMAIN y : y[k] = Shown(g[k], content)
  <2>1. \E g \in [DOMAIN b.entries -> Kept] :
          /\ \A k, l \in DOMAIN b.entries : g[k] = g[l] => k = l
          /\ \A i \in Kept : \E k \in DOMAIN b.entries : g[k] = i
          /\ \A k \in DOMAIN b.entries : b.entries[k] = Shown(g[k], content)
    BY DEF MadeOf
  <2> QED
    BY <1>1, <2>1
<1>5. \A k, l \in DOMAIN x : x[k].path = x[l].path => k = l
  BY <1>1 DEF Duplicates
<1>6. \A k, l \in DOMAIN y : y[k].path = y[l].path => k = l
  <2> SUFFICES ASSUME NEW k \in DOMAIN y, NEW l \in DOMAIN y, y[k].path = y[l].path
               PROVE  k = l
    OBVIOUS
  <2>1. PICK i \in Kept, j \in Kept : i = g[k] /\ j = g[l]
    BY <1>4
  <2>2. PICK u \in DOMAIN x, v \in DOMAIN x : f[u] = i /\ f[v] = j
    BY <1>3
  <2>3. y[k] = Shown(i, content) /\ y[l] = Shown(j, content)
    BY <1>4, <2>1
  <2>4. x[u] = Shown(i, content) /\ x[v] = Shown(j, content)
    BY <1>3, <2>2
  <2>5. u = v
    BY <1>5, <2>3, <2>4
  <2> QED
    BY <1>4, <2>1, <2>2, <2>5
<1>7. Ordered(x) /\ Ordered(y)
  BY <1>2, <1>5, <1>6, OrderedIs
<1>8. PICK h : h = [k \in DOMAIN x |-> CHOOSE l \in DOMAIN y : g[l] = f[k]]
  OBVIOUS
<1>9. ASSUME NEW k \in DOMAIN x
      PROVE  h[k] \in DOMAIN y /\ g[h[k]] = f[k]
  <2>1. f[k] \in Kept
    BY <1>3
  <2>2. \E l \in DOMAIN y : g[l] = f[k]
    BY <1>4, <2>1
  <2>3. h[k] = CHOOSE l \in DOMAIN y : g[l] = f[k]
    BY <1>8
  <2> QED
    BY <2>2, <2>3
<1>10. h \in [DOMAIN x -> DOMAIN y]
  BY <1>8, <1>9
<1>11. ASSUME NEW k \in DOMAIN x
       PROVE  y[h[k]] = x[k]
  <2>1. PICK l \in DOMAIN y : l = h[k] /\ g[l] = f[k]
    BY <1>9
  <2>2. y[l] = Shown(g[l], content) /\ x[k] = Shown(f[k], content)
    BY <1>3, <1>4
  <2> QED
    BY <2>1, <2>2
<1>12. ASSUME NEW l \in DOMAIN y
       PROVE  \E k \in DOMAIN x : h[k] = l
  <2>1. g[l] \in Kept
    BY <1>4
  <2>2. PICK k \in DOMAIN x : f[k] = g[l]
    BY <1>3, <2>1
  <2>3. h[k] \in DOMAIN y /\ g[h[k]] = g[l]
    BY <1>9, <2>2
  <2> QED
    BY <1>4, <2>3
<1>13. x = y
  BY <1>2, <1>7, <1>10, <1>11, <1>12, OneOrder
<1>14. a.body = b.body
  <2>1. Carries(x, a.body, Len(x) + 1, -1) /\ Carries(x, b.body, Len(x) + 1, -1)
    BY <1>2, <1>13
  <2>2. Len(a.body) <= Len(b.body) \/ Len(b.body) <= Len(a.body)
    BY <1>2
  <2> QED
    BY <1>2, <2>1, <2>2, OneBody
<1>15. a.compression = b.compression
  BY <1>14 DEF MadeOf
<1>16. a.id = b.id
  BY <1>1, <1>13, <1>15 DEF MadeOf
<1>17. /\ a = [id |-> a.id, compression |-> a.compression, entries |-> a.entries, body |-> a.body]
       /\ b = [id |-> b.id, compression |-> b.compression, entries |-> b.entries, body |-> b.body]
  BY DEF MadeOf
<1> QED
  BY <1>1, <1>13, <1>14, <1>15, <1>16, <1>17

\* Only finished archives are added to the history.
LEMMA MadeKeeps ==
  ASSUME ArchiveInv, SendInv, MadeInv, [Next]_vars
  PROVE  MadeInv'
<1>1. UNCHANGED <<inputs, requested>>
  <2>1. CASE CreateStep
    BY <2>1
       DEF CreateStep, StartSend, ScanRejects, ScanSkips, ScanDirectory, ScanFileSize,
           ScanFileHash, ScanEnds, Scan, SendFails, BuildDirectory, BuildFileStart, BuildChunk,
           BuildFileEnd, BuildFails, WriteFrame, FinishArchive, NextSend, ReceiverRests
  <2> QED
    BY <2>1, OtherSteps
<1>2. \A content, a : MadeOf(content, a) => MadeOf(content, a)'
  <2>1. Kept' = Kept /\ Announced' = Announced /\ FrameType' = FrameType
    BY <1>1 DEF Kept, Announced, FrameType, Hashed
  <2>2. \A i, content : Shown(i, content)' = Shown(i, content)
    BY <1>1 DEF Shown
  <2> QED
    BY <1>1, <2>1, <2>2 DEF MadeOf
<1>3. made' = made \/ (made' = made \cup {<<source, archive'>>} /\ FinishArchive /\ ~disturbed)
  <2>1. CASE FinishArchive
    <3>1. made' = IF disturbed THEN made ELSE made \cup {<<source, archive'>>}
      BY <2>1 DEF FinishArchive
    <3> QED
      BY <2>1, <3>1
  <2>2. CASE CreateStep
    BY <2>1, <2>2
       DEF CreateStep, StartSend, ScanRejects, ScanSkips, ScanDirectory, ScanFileSize,
           ScanFileHash, ScanEnds, Scan, SendFails, BuildDirectory, BuildFileStart, BuildChunk,
           BuildFileEnd, BuildFails, WriteFrame, NextSend
  <2> QED
    BY <2>2, OtherSteps
<1>4. ASSUME NEW m \in made'
      PROVE  MadeOf(m[1], m[2])'
  <2>1. CASE m \in made
    BY <1>2, <2>1 DEF MadeInv
  <2>2. CASE m \notin made
    <3>1. m = <<source, archive'>> /\ FinishArchive /\ ~disturbed
      BY <1>3, <2>2
    <3>2. PICK a : a = archive'
      OBVIOUS
    <3>3. MadeOf(source, a)
      BY <3>1, <3>2, FinishIs
    <3>4. m[1] = source /\ m[2] = a
      BY <3>1, <3>2
    <3>5. MadeOf(m[1], m[2])
      BY <3>3, <3>4
    <3> QED
      BY <1>2, <3>5
  <2> QED
    BY <2>1, <2>2
<1> QED
  BY <1>4 DEF MadeInv

\* The same files make the same archive, whatever order they are named in and
\* whatever happened in between.
THEOREM SameFilesMakeOneArchive == Spec => []SameFilesSameArchive
<1>1. Init => MadeInv
  BY DEF Init, MadeInv
<1>2. CauseInv /\ MadeInv /\ [Next]_vars => MadeInv'
  BY MadeKeeps DEF CauseInv
<1>3. MadeInv => SameFilesSameArchive
  <2> SUFFICES ASSUME MadeInv, NEW m \in made, NEW n \in made, m[1] = n[1],
                      ~Duplicates(m[2].entries)
               PROVE  m[2] = n[2]
    BY DEF SameFilesSameArchive
  <2>1. PICK content, a, b : content = m[1] /\ a = m[2] /\ b = n[2]
    OBVIOUS
  <2>2. MadeOf(content, a) /\ MadeOf(content, b)
    BY <2>1 DEF MadeInv
  <2> QED
    BY <2>1, <2>2, OneArchive
<1> QED
  BY <1>1, <1>2, <1>3, CauseInitially, CauseKeeps, PTL DEF Spec
===============================================================================
