------------------------------ MODULE ResumeStore ------------------------------
(***************************************************************************)
(* The receive sessions of one `peerline recv` and the partial store they  *)
(* share.  Every receiving path (direct TCP, libp2p, public tunnel, I2P,   *)
(* Tor) runs resume_state, append_chunk and complete_partial on the same   *)
(* destination.  The paths are futures of one task, so each call is atomic *)
(* to the others; between two calls of a session any other session may     *)
(* run, also one for the same resource: a named send tries all its routes  *)
(* at once, and a retry may overtake the connection it replaces.           *)
(*                                                                         *)
(* A session models what receive_stream and handle_inbound_request do to   *)
(* the store.  Its sender is honest: after offset k is offered it sends    *)
(* the archive from byte k + 1 on, in order, then Done.                    *)
(***************************************************************************)
EXTENDS PartialStore, FiniteSets

CONSTANTS
  Session,    \* receive sessions that can be open at once
  MaxChunk,   \* largest chunk, in bytes
  MaxClock    \* bound on the clock

ASSUME SessionAssumption ==
  /\ Resource # {}
  /\ MaxChunk \in Nat \ {0}
  /\ MaxClock \in Nat

VARIABLES
  disk,       \* Resource -> Dir
  sess,       \* Session -> state of the session
  clock,      \* now_unix()
  delivered,  \* history: <<resource, content>> of every unpacked archive
  overlap     \* history: resources whose part file two sessions may have mixed

vars == <<disk, sess, clock, delivered, overlap>>

\* ResumeState.offset, and the time this session's metadata was last written.
SessionState ==
  [pc : {"idle", "recv", "done"}, res : Resource, offset : Nat, touched : Nat]

Idle == [pc |-> "idle", res |-> CHOOSE r \in Resource : TRUE, offset |-> 0, touched |-> 0]

Receiving(s, r) == sess[s].pc = "recv" /\ sess[s].res = r

TypeOK ==
  /\ disk \in [Resource -> Dir]
  /\ sess \in [Session -> SessionState]
  /\ clock \in Nat
  /\ delivered \subseteq (Resource \X Seq(Nat))
  /\ overlap \subseteq Resource

Init ==
  /\ disk = [r \in Resource |-> EmptyDir]
  /\ sess = [s \in Session |-> Idle]
  /\ clock = 0
  /\ delivered = {}
  /\ overlap = {}

-------------------------------------------------------------------------------
(* Steps of a session. *)

\* Mutant of Close: the session is marked and not dropped.
CloseByMark(s) == sess' = [sess EXCEPT ![s].pc = "closed"]

Close(s) == sess' = [sess EXCEPT ![s] = Idle]

\* Every session of the process is gone.
CloseAll == sess' = [s \in Session |-> Idle]

\* A ClientIntro arrives: resume_state picks the offset offered in ServerIntro.
OpenSession(s, r) ==
  /\ sess[s].pc = "idle"
  /\ disk' = ResumeState(disk, r, clock)
  /\ sess' = [sess EXCEPT ![s] =
       [pc |-> "recv",
        res |-> r,
        offset |-> ResumeOffset(CleanupExpired(disk, clock)[r], r),
        touched |-> disk'[r].updated]]
  /\ UNCHANGED <<clock, delivered>>

\* An ArchiveChunk of n bytes arrives.
ReceiveChunk(s, n) ==
  LET r == sess[s].res
      offset == sess[s].offset + n
  IN
  /\ sess[s].pc = "recv"
  /\ offset <= Size[r]
  /\ CanAppend(disk[r])
  /\ disk' = [disk EXCEPT ![r] = AppendChunk(@, Bytes(sess[s].offset, n), offset, clock)]
  /\ sess' = [sess EXCEPT ![s].offset = offset, ![s].touched = clock]
  /\ UNCHANGED <<clock, delivered>>

\* The sender has sent everything, and Done arrives.
AtDone(s, verdict) ==
  /\ sess[s].pc = "recv"
  /\ sess[s].offset = Size[sess[s].res]
  /\ CompletePartial(disk[sess[s].res], sess[s].res) = verdict

RemoveOwn(s) == disk' = [disk EXCEPT ![sess[s].res] = RemovePartial(@)]

\* The archive is verified, unpacked and its partial removed; what is left is
\* to acknowledge it.
Deliver(s) ==
  /\ AtDone(s, "whole")
  /\ delivered' = delivered \cup {<<sess[s].res, disk[sess[s].res].part>>}
  /\ RemoveOwn(s)
  /\ sess' = [sess EXCEPT ![s] = [Idle EXCEPT !.pc = "done"]]
  /\ UNCHANGED clock

\* Size or hash are wrong, or the archive does not unpack: the partial goes.
RejectArchive(s) ==
  /\ AtDone(s, "mismatch") \/ AtDone(s, "whole")
  /\ RemoveOwn(s)
  /\ Close(s)
  /\ UNCHANGED <<clock, delivered>>

\* An I/O error: the connection is lost at any point, the directory a chunk
\* belongs to is gone, or complete_partial cannot open the part file.
FailSession(s) ==
  /\ sess[s].pc = "recv"
  /\ Close(s)
  /\ UNCHANGED <<disk, clock, delivered>>

\* The path returns its transfer: wait_for_receiver drops every other path
\* and the recv loop starts a new round without any session.
ReturnTransfer(s) ==
  /\ sess[s].pc = "done"
  /\ CloseAll
  /\ UNCHANGED <<disk, clock, delivered>>

-------------------------------------------------------------------------------
(* The process dies, possibly inside one of the calls above, and is        *)
(* restarted on the same destination.                                      *)

Crash ==
  /\ \E s \in Session : sess[s].pc # "idle"
  /\ CloseAll
  /\ UNCHANGED <<disk, clock, delivered>>

CrashInResumeState(s, r) ==
  /\ sess[s].pc = "idle"
  /\ disk' \in TornResumeState(disk, r, clock)
  /\ CloseAll
  /\ UNCHANGED <<clock, delivered>>

CrashInAppend(s, n) ==
  LET r == sess[s].res IN
  /\ sess[s].pc = "recv"
  /\ sess[s].offset + n <= Size[r]
  /\ CanAppend(disk[r])
  /\ \E d \in TornAppend(disk[r], Bytes(sess[s].offset, n)) : disk' = [disk EXCEPT ![r] = d]
  /\ CloseAll
  /\ UNCHANGED <<clock, delivered>>

\* The archive may already be unpacked when the process dies.
CrashInComplete(s) ==
  LET r == sess[s].res IN
  /\ AtDone(s, "mismatch") \/ AtDone(s, "whole")
  /\ \E d \in TornRemove(disk[r]) : disk' = [disk EXCEPT ![r] = d]
  /\ delivered' \in IF AtDone(s, "whole")
                    THEN {delivered, delivered \cup {<<r, disk[r].part>>}}
                    ELSE {delivered}
  /\ CloseAll
  /\ UNCHANGED clock

Tick ==
  /\ clock < MaxClock
  /\ clock' = clock + 1
  /\ UNCHANGED <<disk, sess, delivered>>

-------------------------------------------------------------------------------

\* The history of overlap: a resource is in it from the moment two sessions
\* receive it at once until its part file and its last session are gone.
Shared(r) == \E s, t \in Session : s # t /\ Receiving(s, r) /\ Receiving(t, r)

Cleared(r) ==
  /\ "part" \notin disk[r].files
  /\ \A s \in Session : ~Receiving(s, r)

WatchOverlap ==
  overlap' = {r \in Resource : Shared(r)' \/ (r \in overlap /\ ~Cleared(r)')}

SessionStep(s) ==
  \/ \E r \in Resource : OpenSession(s, r)
  \/ \E n \in 1..MaxChunk : ReceiveChunk(s, n)
  \/ Deliver(s)
  \/ RejectArchive(s)
  \/ FailSession(s)
  \/ ReturnTransfer(s)

CrashStep ==
  \/ Crash
  \/ \E s \in Session, r \in Resource : CrashInResumeState(s, r)
  \/ \E s \in Session, n \in 1..MaxChunk : CrashInAppend(s, n)
  \/ \E s \in Session : CrashInComplete(s)

Next ==
  /\ \/ \E s \in Session : SessionStep(s)
     \/ CrashStep
     \/ Tick
  /\ WatchOverlap

Spec == Init /\ [][Next]_vars

-------------------------------------------------------------------------------
(* Properties. *)

\* Whatever sessions, crashes and expiry do to a shared part file, an archive
\* that unpack_archive_from_reader was given is the sender's, whole: the size
\* and hash checks of complete_partial stand between append_chunk, which does
\* not look at the file it appends to, and the destination.
DeliveredIntact ==
  \A d \in delivered : d[2] = Archive(d[1])

\* A part file that no two sessions received into at once never holds a byte
\* out of place, whenever the process dies: the offset resume_state offers is
\* always a position up to which the file agrees with the sender's archive.
LoneSessionKeepsPrefix ==
  \A r \in Resource \ overlap : IsIntact(disk[r].part, r)

\* A lone session whose metadata is not older than the retention time finds
\* its file where it left it: cleanup_expired, run for whatever sender
\* connects meanwhile, does not take it away.
FreshSessionKeepsPartial ==
  \A s \in Session, r \in Resource \ overlap :
    Receiving(s, r) /\ clock <= sess[s].touched + Retention
      => CanAppend(disk[r]) /\ Len(disk[r].part) = sess[s].offset

===============================================================================
