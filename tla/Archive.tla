-------------------------------- MODULE Archive --------------------------------
(***************************************************************************)
(* An archive from the sender's files to the receiver's directory:         *)
(*                                                                         *)
(*   sender    create_archive: scan_sources hashes every input into a      *)
(*             manifest entry, create_archive_body reads the files again   *)
(*   receiver  unpack_archive_from_reader: frame by frame, every file      *)
(*             into a temporary file that is moved into place on its own   *)
(*                                                                         *)
(* Users edit their files on both sides meanwhile, the process that        *)
(* unpacks may fail or die between two frames, and a send is repeated.     *)
(* The transfer is left out: it hands over the archive whole or not at     *)
(* all (ResumeStore!DeliveredIntact).  Contents are sequences of chunks,   *)
(* and equality of contents stands for equality of BLAKE3 hashes.          *)
(***************************************************************************)
EXTENDS Integers, Sequences, SequencesExt

CONSTANTS
  Path,         \* relative paths: sequences of names, names numbered in order
  Refused,      \* those validate_relative_path refuses on the receiver's system
  InputChoices, \* what may be on the command line: sequences of inputs
  Content,      \* what files may hold
  Requested,    \* the --compression settings
  AutoLimit,    \* frames from which on "auto" compresses
  MaxCopy,      \* bound on the suffix "(n)" of a file name
  MaxSends,     \* bound on the sends
  MaxEdits,     \* bound on what users do meanwhile
  MaxFaults     \* bound on I/O errors and crashes

\* An input: where it ends up and what it is.  A directory's contents are
\* inputs of their own, which WalkDir finds: they are nested.
Input == [path : Path, type : {"file", "dir", "symlink", "special"}, nested : BOOLEAN]

ASSUME ArchiveAssumption ==
  /\ Path \subseteq Seq(Nat) /\ Content \subseteq Seq(Nat)
  /\ \A p \in Path : p # << >> /\ \A n \in 1..Len(p) : SubSeq(p, 1, n) \in Path
  /\ Refused \subseteq Path
  /\ InputChoices \subseteq Seq(Input)
  /\ Requested \subseteq {"auto", "none", "zstd", "lzma"}
  /\ {AutoLimit, MaxCopy, MaxSends, MaxEdits, MaxFaults} \subseteq Nat

VARIABLES
  inputs,     \* the command line
  requested,  \* its --compression
  overwrite,  \* the receiver's --overwrite
  source,     \* the content of each input's file, or Gone
  snd,        \* state of create_archive
  archive,    \* what it returned last
  dest,       \* the receiver's directory: <<path, n>> -> node
  rcv,        \* state of unpack_raw_archive
  sends,      \* sends so far
  edits,      \* what users did so far
  faults,     \* I/O errors and crashes so far
  disturbed,  \* history: a source changed while this archive was made
  made,       \* history: <<sources, archive>> of undisturbed sends
  litter      \* temporary files left in the directory

vars == <<inputs, requested, overwrite, source, snd, archive, dest, rcv,
          sends, edits, faults, disturbed, made, litter>>

\* What is no content of a sent file: a missing file, a file of the receiving
\* user, and the nodes of the destination that are no files.
Gone == <<-1>>
Users == <<-2>>
Absent == <<-3>>
Directory == <<-4>>

\* A manifest entry, and the source it was made from.
Entry == [path : Path, kind : {"file", "dir"}, size : Nat, hash : Content \cup {<< >>}, src : Nat]

\* Nodes of the destination.
Node == {Absent, Directory, Users} \cup Content
Place == Path \X (0..MaxCopy)

NoArchive == [id |-> << >>, compression |-> "none", entries |-> << >>, body |-> << >>]

SenderAt(pc) == [pc |-> pc, order |-> << >>, at |-> 1, size |-> -1,
                 entries |-> << >>, body |-> << >>, file |-> << >>, read |-> -1]

\* `open` is the file between FileStart and FileEnd: its path and what was
\* written so far; `remaining` the entries not seen yet.
ReceiverAt(pc) == [pc |-> pc, next |-> 0, open |-> << >>, remaining |-> {}, expected |-> {}]

TypeOK ==
  /\ inputs \in InputChoices
  /\ requested \in Requested
  /\ overwrite \in BOOLEAN
  /\ source \in [DOMAIN inputs -> Content \cup {Gone}]
  /\ snd.pc \in {"idle", "scan", "build", "sent", "failed"}
  /\ \A i \in DOMAIN snd.entries : snd.entries[i] \in Entry
  /\ archive.compression \in {"none", "zstd", "lzma"}
  /\ dest \in [Place -> Node]
  /\ rcv.pc \in {"idle", "unpack", "done", "failed"}
  /\ Len(rcv.open) <= 1
  /\ rcv.remaining \subseteq rcv.expected
  /\ sends \in 0..MaxSends /\ edits \in 0..MaxEdits /\ faults \in 0..MaxFaults
  /\ litter \in 0..MaxFaults

Init ==
  /\ inputs \in InputChoices
  /\ requested \in Requested
  /\ overwrite \in BOOLEAN
  /\ \E c \in Content : source = [i \in DOMAIN inputs |-> c]
  /\ snd = SenderAt("idle")
  /\ archive = NoArchive
  /\ dest = [l \in Place |-> Absent]
  /\ rcv = ReceiverAt("idle")
  /\ sends = 0 /\ edits = 0 /\ faults = 0
  /\ disturbed = FALSE
  /\ made = {}
  /\ litter = 0

-------------------------------------------------------------------------------
(* The sender: scan_sources. *)

ReceiverRests == UNCHANGED <<inputs, requested, overwrite, source, dest, rcv, edits, faults, litter>>

\* Paths in the order of PathBuf, component by component.
Before(p, q) ==
  \E n \in 0..Len(p) :
    /\ n <= Len(q) /\ SubSeq(p, 1, n) = SubSeq(q, 1, n)
    /\ \/ n = Len(p) /\ n < Len(q)
       \/ n < Len(p) /\ n < Len(q) /\ p[n + 1] < q[n + 1]

\* Mutant of SortEntries: the order of the command line.
KeepOrder(entries) == {entries}

\* sort_by is stable: exactly one order is right, and the set holds that one.
SortEntries(entries) ==
  LET First(i, j) == \/ Before(entries[i].path, entries[j].path)
                     \/ entries[i].path = entries[j].path /\ i < j
      orders == {o \in [DOMAIN entries -> DOMAIN entries] :
                   \A i, j \in DOMAIN entries : i < j => First(o[i], o[j])}
  IN  {[n \in 1..Len(entries) |-> entries[o[n]]] : o \in orders}

\* The inputs are walked in the order the user gave them in.
StartSend(order) ==
  /\ snd.pc = "idle"
  /\ rcv.pc \in {"idle", "done", "failed"}
  /\ sends < MaxSends
  /\ sends' = sends + 1
  /\ snd' = [SenderAt("scan") EXCEPT !.order = order]
  /\ rcv' = ReceiverAt("idle")
  /\ disturbed' = FALSE
  /\ UNCHANGED <<inputs, requested, overwrite, source, dest, edits, faults, litter, archive, made>>

\* The input scan_sources is at.
Scanned == snd.order[snd.at]

Scanning == snd.pc = "scan" /\ snd.at <= Len(snd.order)

Scan(entry) ==
  /\ snd' = [snd EXCEPT !.at = @ + 1, !.size = -1, !.entries = @ \o entry]
  /\ UNCHANGED <<archive, sends, disturbed, made>>
  /\ ReceiverRests

SendFails ==
  /\ snd' = SenderAt("failed")
  /\ UNCHANGED <<archive, sends, disturbed, made>>
  /\ ReceiverRests

\* symlink_metadata fails, a symbolic link, or something WalkDir finds that is
\* neither file nor directory.
ScanRejects ==
  /\ Scanning
  /\ \/ inputs[Scanned].type = "symlink"
     \/ inputs[Scanned].type = "special" /\ inputs[Scanned].nested
     \/ inputs[Scanned].type = "file" /\ source[Scanned] = Gone
  /\ SendFails

\* Neither file nor directory on the command line itself: passed over.
ScanSkips ==
  /\ Scanning
  /\ inputs[Scanned].type = "special" /\ ~inputs[Scanned].nested
  /\ Scan(<< >>)

ScanDirectory ==
  /\ Scanning
  /\ inputs[Scanned].type = "dir"
  /\ Scan(<<[path |-> inputs[Scanned].path, kind |-> "dir", size |-> 0, hash |-> << >>,
             src |-> Scanned]>>)

\* scan_file asks for the size first ...
ScanFileSize ==
  /\ Scanning
  /\ inputs[Scanned].type = "file"
  /\ source[Scanned] # Gone
  /\ snd.size = -1
  /\ snd' = [snd EXCEPT !.size = Len(source[Scanned])]
  /\ UNCHANGED <<archive, sends, disturbed, made>>
  /\ ReceiverRests

\* ... and then reads the file for its hash.
ScanFileHash ==
  /\ Scanning
  /\ snd.size # -1
  /\ source[Scanned] # Gone
  /\ Scan(<<[path |-> inputs[Scanned].path, kind |-> "file", size |-> snd.size,
             hash |-> source[Scanned], src |-> Scanned]>>)

ScanEnds ==
  /\ snd.pc = "scan"
  /\ snd.at > Len(snd.order)
  /\ \E sorted \in SortEntries(snd.entries) :
       snd' = [snd EXCEPT !.pc = "build", !.at = 1, !.entries = sorted]
  /\ UNCHANGED <<archive, sends, disturbed, made>>
  /\ ReceiverRests

-------------------------------------------------------------------------------
(* The sender: create_archive_body and what create_archive adds to it. *)

\* The entry create_archive_body is at.
Building == snd.entries[snd.at]

InBody == snd.pc = "build" /\ snd.at <= Len(snd.entries)

Frame(type, path, data) == [type |-> type, path |-> path, data |-> data]

WriteFrame(frame, at, file, read) ==
  /\ snd' = [snd EXCEPT !.body = Append(@, frame), !.at = at, !.file = file, !.read = read]
  /\ UNCHANGED <<archive, sends, disturbed, made>>
  /\ ReceiverRests

BuildDirectory ==
  /\ InBody
  /\ Building.kind = "dir"
  /\ WriteFrame(Frame("dir", Building.path, << >>), snd.at + 1, << >>, -1)

\* The file is opened a second time; FileStart carries the entry's values.
BuildFileStart ==
  /\ InBody
  /\ Building.kind = "file"
  /\ snd.read = -1
  /\ source[Building.src] # Gone
  /\ WriteFrame(Frame("start", Building.path, << >>), snd.at, source[Building.src], 0)

\* `file` is what the open file holds: a user may write into it, or delete or
\* replace it, which leaves the open one as it was.
BuildChunk ==
  /\ InBody
  /\ snd.read \in 0..(Len(snd.file) - 1)
  /\ WriteFrame(Frame("chunk", Building.path, <<snd.file[snd.read + 1]>>),
                snd.at, snd.file, snd.read + 1)

BuildFileEnd ==
  /\ InBody
  /\ snd.read >= Len(snd.file)
  /\ WriteFrame(Frame("end", Building.path, << >>), snd.at + 1, << >>, -1)

\* The file cannot be opened any more.
BuildFails ==
  /\ InBody
  /\ Building.kind = "file"
  /\ snd.read = -1
  /\ source[Building.src] = Gone
  /\ SendFails

\* resolved_compression_for_size.
Resolved(setting, size) ==
  IF setting = "auto" THEN (IF size < AutoLimit THEN "none" ELSE "zstd") ELSE setting

\* What an entry says, without where it was read from.
Public(entries) ==
  [i \in DOMAIN entries |-> [path |-> entries[i].path, kind |-> entries[i].kind,
                             size |-> entries[i].size, hash |-> entries[i].hash]]

\* deterministic_manifest_id.
ManifestId(compression, entries) == <<0, compression, entries>>

\* The size decides on the compression, and that on the manifest's
\* identifier.  resource_id is the hash of the file that results.
FinishArchive ==
  LET entries == Public(snd.entries)
      compression == Resolved(requested, Len(snd.body) + 1)
      result == [id |-> ManifestId(compression, entries), compression |-> compression,
                 entries |-> entries, body |-> snd.body]
  IN
  /\ snd.pc = "build"
  /\ snd.at > Len(snd.entries)
  /\ archive' = result
  /\ snd' = SenderAt("sent")
  /\ made' = IF disturbed THEN made ELSE made \cup {<<source, result>>}
  /\ UNCHANGED <<sends, disturbed>>
  /\ ReceiverRests

-------------------------------------------------------------------------------
(* The receiver: unpack_raw_archive. *)

SenderRests == UNCHANGED <<inputs, requested, overwrite, source, archive, sends, edits, disturbed, made>>

\* The archive has arrived.
StartUnpack ==
  /\ snd.pc = "sent"
  /\ rcv.pc = "idle"
  /\ rcv' = ReceiverAt("unpack")
  /\ UNCHANGED <<snd, dest, faults, litter>>
  /\ SenderRests

\* An error of unpack_raw_archive: the temporary file goes, what was moved
\* into place stays, and the sender is told.
UnpackFails ==
  /\ rcv' = ReceiverAt("failed")
  /\ snd' = SenderAt("idle")
  /\ UNCHANGED <<dest, litter>>
  /\ SenderRests

Duplicates(entries) ==
  \E i, j \in DOMAIN entries : i # j /\ entries[i].path = entries[j].path

\* validate_manifest_entries and expected_manifest_entries.
Acceptable(entries) ==
  /\ \A i \in DOMAIN entries : entries[i].path \notin Refused
  /\ ~Duplicates(entries)

\* The frame that is read next; 0 stands for the manifest.
AtFrame(type) ==
  /\ rcv.pc = "unpack"
  /\ rcv.next \in 1..Len(archive.body)
  /\ archive.body[rcv.next].type = type

Current == archive.body[rcv.next]

Proceed(open, remaining) ==
  /\ rcv' = [rcv EXCEPT !.next = @ + 1, !.open = open, !.remaining = remaining]
  /\ UNCHANGED <<snd, faults, litter>>
  /\ SenderRests

ReadManifest ==
  /\ rcv.pc = "unpack" /\ rcv.next = 0
  /\ IF Acceptable(archive.entries)
     THEN /\ rcv' = [rcv EXCEPT !.next = 1,
                                !.expected = Range(archive.entries),
                                !.remaining = Range(archive.entries)]
          /\ UNCHANGED <<snd, dest, faults, litter>>
          /\ SenderRests
     ELSE UnpackFails /\ UNCHANGED faults

\* The expected entry of a frame, as a set of at most one.
EntryOf(frame, kind) ==
  {e \in rcv.remaining : e.path = frame.path /\ e.kind = kind}

\* create_dir_all: a file in the way of a directory is an error.
CanMakeDir(p) ==
  \A n \in 1..Len(p) : dest[<<SubSeq(p, 1, n), 0>>] \in {Absent, Directory}

MakeDir(d, p) ==
  [l \in Place |-> IF l[2] = 0 /\ l[1] # << >> /\ IsPrefix(l[1], p) THEN Directory ELSE d[l]]

UnpackDirectory ==
  /\ AtFrame("dir")
  /\ IF EntryOf(Current, "dir") # {} /\ CanMakeDir(Current.path)
     THEN /\ dest' = MakeDir(dest, Current.path)
          /\ Proceed(rcv.open, rcv.remaining \ EntryOf(Current, "dir"))
     ELSE UnpackFails /\ UNCHANGED faults

\* FileStart carries the entry's size and hash, so they match it.
UnpackFileStart ==
  /\ AtFrame("start")
  /\ IF EntryOf(Current, "file") # {} /\ rcv.open = << >>
     THEN /\ Proceed(<<[path |-> Current.path, data |-> << >>]>>, rcv.remaining)
          /\ UNCHANGED dest
     ELSE UnpackFails /\ UNCHANGED faults

\* The open file, and the entry it belongs to.
Active == rcv.open[1]

ActiveEntry == CHOOSE e \in rcv.expected : e.path = Active.path

\* Mutant of UnpackChunk: a file may not reach its size.
UnpackChunkShort ==
  LET data == Active.data \o Current.data IN
  /\ AtFrame("chunk")
  /\ IF rcv.open # << >> /\ Len(data) < ActiveEntry.size
     THEN Proceed(<<[Active EXCEPT !.data = data]>>, rcv.remaining) /\ UNCHANGED dest
     ELSE UnpackFails /\ UNCHANGED faults

UnpackChunk ==
  LET data == Active.data \o Current.data IN
  /\ AtFrame("chunk")
  /\ IF rcv.open # << >> /\ Len(data) <= ActiveEntry.size
     THEN Proceed(<<[Active EXCEPT !.data = data]>>, rcv.remaining) /\ UNCHANGED dest
     ELSE UnpackFails /\ UNCHANGED faults

\* Mutant of Verified: the size is enough.
SizeVerified == Len(Active.data) = ActiveEntry.size

\* FileEnd's checks of size and hash.
Verified ==
  /\ Len(Active.data) = ActiveEntry.size
  /\ Active.data = ActiveEntry.hash

\* The suffixes whose names are not taken, by whatever, and no smaller one's is.
FirstFree(p) ==
  {n \in 0..MaxCopy :
     /\ dest[<<p, n>>] = Absent
     /\ \A k \in 0..(n - 1) : dest[<<p, k>>] # Absent}

\* Mutant of Targets: only a directory keeps its name.
PlainTargets(p) == IF dest[<<p, 0>>] = Directory /\ ~overwrite THEN FirstFree(p) ELSE {0}

\* non_overwriting_path, or the name itself.
Targets(p) == IF overwrite THEN {0} ELSE FirstFree(p)

\* The file is moved into place; a directory of that name is in the way.
CanPlace(p, n) ==
  /\ CanMakeDir(SubSeq(p, 1, Len(p) - 1))
  /\ dest[<<p, n>>] # Directory

\* Mutant of UnpackFileEnd: a file that is there already is passed over.
UnpackUnlessThere ==
  LET p == Active.path IN
  /\ AtFrame("end")
  /\ IF Verified
     THEN /\ dest' = IF dest[<<p, 0>>] = Absent
                     THEN [MakeDir(dest, SubSeq(p, 1, Len(p) - 1)) EXCEPT ![<<p, 0>>] = Active.data]
                     ELSE dest
          /\ Proceed(<< >>, {e \in rcv.remaining : e.path # p})
     ELSE UnpackFails /\ UNCHANGED faults

\* Bound: a name up to MaxCopy is free.
UnpackFileEnd ==
  LET p == Active.path IN
  /\ AtFrame("end")
  /\ IF rcv.open # << >>
     THEN \E n \in Targets(p) :
            IF Verified /\ CanPlace(p, n)
            THEN /\ dest' = [MakeDir(dest, SubSeq(p, 1, Len(p) - 1))
                                EXCEPT ![<<p, n>>] = Active.data]
                 /\ Proceed(<< >>, {e \in rcv.remaining : e.path # p})
            ELSE UnpackFails /\ UNCHANGED faults
     ELSE UnpackFails /\ UNCHANGED faults

\* The end of the stream, between two frames.
UnpackEnd ==
  /\ rcv.pc = "unpack" /\ rcv.next = Len(archive.body) + 1
  /\ IF rcv.open = << >> /\ rcv.remaining = {}
     THEN /\ rcv' = [ReceiverAt("done") EXCEPT !.expected = rcv.expected]
          /\ snd' = SenderAt("idle")
          /\ UNCHANGED <<dest, faults, litter>>
          /\ SenderRests
     ELSE UnpackFails /\ UNCHANGED faults

Fault == faults < MaxFaults /\ faults' = faults + 1

\* A full disk, a missing permission: any step may fail.
IoError ==
  /\ rcv.pc = "unpack"
  /\ Fault
  /\ UnpackFails

\* The process dies; the sender sends the same archive to the next one.
Crash ==
  /\ rcv.pc = "unpack"
  /\ Fault
  /\ rcv' = ReceiverAt("idle")
  /\ litter' = litter + Len(rcv.open)
  /\ UNCHANGED <<snd, dest>>
  /\ SenderRests

-------------------------------------------------------------------------------
(* The users. *)

\* A source file is written to or replaced, is deleted or comes back.
Edit(i, content, inPlace) ==
  /\ edits < MaxEdits
  /\ inputs[i].type = "file"
  /\ source[i] # content
  /\ inPlace => Gone \notin {content, source[i]}
  /\ source' = [source EXCEPT ![i] = content]
  /\ snd' = IF inPlace /\ snd.read >= 0 /\ Building.src = i
            THEN [snd EXCEPT !.file = content] ELSE snd
  /\ edits' = edits + 1
  /\ disturbed' = (disturbed \/ snd.pc \in {"scan", "build"})
  /\ UNCHANGED <<inputs, requested, overwrite, archive, dest, rcv, sends, faults, made, litter>>

\* A file or a directory appears at the destination.
Occupy(p, node) ==
  /\ edits < MaxEdits
  /\ dest[<<p, 0>>] = Absent
  /\ CanMakeDir(SubSeq(p, 1, Len(p) - 1))
  /\ dest' = [MakeDir(dest, SubSeq(p, 1, Len(p) - 1)) EXCEPT ![<<p, 0>>] = node]
  /\ edits' = edits + 1
  /\ UNCHANGED <<inputs, requested, overwrite, source, snd, archive, rcv, sends, faults, disturbed,
                 made, litter>>

\* The send is over, well or not.
NextSend ==
  /\ snd.pc = "failed"
  /\ snd' = SenderAt("idle")
  /\ UNCHANGED <<archive, sends, disturbed, made>>
  /\ ReceiverRests

Finished == snd.pc = "idle" /\ sends = MaxSends /\ UNCHANGED vars

\* The orders in which the inputs may be walked: what is in a directory comes
\* right after it.
Orders ==
  {o \in [DOMAIN inputs -> DOMAIN inputs] :
     /\ \A i, j \in DOMAIN o : o[i] = o[j] => i = j
     /\ \A i \in DOMAIN o : inputs[o[i]].nested => i > 1 /\ o[i - 1] = o[i] - 1}

CreateStep ==
  \/ \E order \in Orders : StartSend(order)
  \/ ScanRejects \/ ScanSkips \/ ScanDirectory \/ ScanFileSize \/ ScanFileHash \/ ScanEnds
  \/ BuildDirectory \/ BuildFileStart \/ BuildChunk \/ BuildFileEnd \/ BuildFails
  \/ FinishArchive
  \/ NextSend

UnpackStep ==
  \/ StartUnpack
  \/ ReadManifest
  \/ UnpackDirectory
  \/ UnpackFileStart
  \/ UnpackChunk
  \/ UnpackFileEnd
  \/ UnpackEnd

UserStep ==
  \/ \E i \in DOMAIN inputs, c \in Content \cup {Gone}, b \in BOOLEAN : Edit(i, c, b)
  \/ \E p \in Path, node \in {Directory, Users} : Occupy(p, node)

Next == CreateStep \/ UnpackStep \/ IoError \/ Crash \/ UserStep \/ Finished

Spec == Init /\ [][Next]_vars

-------------------------------------------------------------------------------
(* Properties. *)

\* Every file unpack_raw_archive has put in place is one its manifest
\* announced, byte for byte, however the source changed between the scan and
\* the second reading: a torn file is refused and never appears.
OnlyVerifiedFiles ==
  [][rcv.pc = "unpack" =>
       \A l \in Place : dest'[l] # dest[l] /\ dest'[l] \notin {Directory, Users} =>
         \E e \in Range(archive.entries) :
           e.kind = "file" /\ e.path = l[1] /\ e.hash = dest'[l]]_vars

\* Without --overwrite nothing that is in the directory changes, across failed,
\* interrupted and repeated transfers: neither the user's files nor those of
\* an earlier transfer.
ExistingKept ==
  [][~overwrite => \A l \in Place : dest[l] # Absent => dest'[l] = dest[l]]_vars

\* When unpacking reports success, every entry of the manifest is there: the
\* directories, and each file under its name or a numbered one.
DoneMeansAll ==
  rcv.pc = "done" =>
    \A e \in rcv.expected :
      IF e.kind = "dir" THEN dest[<<e.path, 0>>] = Directory
      ELSE \E n \in 0..MaxCopy : dest[<<e.path, n>>] = e.hash

\* Something that is no directory is where the archive needs one, or the
\* reverse.
InTheWay ==
  \E e \in Range(archive.entries) :
    \/ e.kind = "dir" /\ ~CanMakeDir(e.path)
    \/ e.kind = "file" /\ ~CanMakeDir(SubSeq(e.path, 1, Len(e.path) - 1))
    \/ e.kind = "file" /\ overwrite /\ dest[<<e.path, 0>>] = Directory

\* Unpacking fails only for a reason outside the archive's format: a source
\* that changed while it was read, an I/O error, a path the receiver's system
\* refuses, something in the way, or two inputs with the same relative path,
\* which create_archive lets pass and only the receiver rejects.
FailureHasCause ==
  rcv.pc = "failed" =>
    \/ disturbed
    \/ faults > 0
    \/ InTheWay
    \/ ~Acceptable(archive.entries)

\* The same files make the same archive, hence the same resource_id, in
\* whatever order they are named: an interrupted send can be resumed by a
\* second one.  (Inputs that share a relative path stay in the order of the
\* command line; their archive is one the receiver rejects.)
SameFilesSameArchive ==
  \A m, n \in made : m[1] = n[1] /\ ~Duplicates(m[2].entries) => m[2] = n[2]

===============================================================================
