---------------------------- MODULE DirectTransfer ----------------------------
(***************************************************************************)
(* A transfer over the direct TCP route: senders that dial, are cut off or *)
(* time out and retry, and one receiver whose listener serves its          *)
(* connections one after the other, in the order of the kernel's queue.    *)
(*                                                                         *)
(*   sender    direct_send_with_retries or named_send_with_retries, around *)
(*             send_prebuilt_direct                                        *)
(*   receiver  recv_once_bound around receive_stream, restarted by the     *)
(*             loop of `peerline recv`                                     *)
(*                                                                         *)
(* Every attempt of a sender is a connection of its own, and the receiver  *)
(* may still be reading one the sender has long given up.  Cryptography is *)
(* reduced to its verdicts: a sender with the wrong code fails at the      *)
(* OPAQUE finish, and frames of one connection arrive in order.            *)
(***************************************************************************)
EXTENDS PartialStore, FiniteSets

CONSTANTS
  Sender,
  KindChoices,  \* how the senders may have been started: functions to Kinds
  ResourceOf,   \* the archive it sends
  MaxAttempts,  \* --retry-attempts
  MaxChunk,     \* bytes per ArchiveChunk
  Faults,       \* the kinds of fault that may happen
  MaxFaults,    \* bound on their number
  MaxClock      \* bound on the clock

\* "direct" dials an address, "named" a discovered candidate.  The others are
\* rejected: "misnamed" dials a candidate where another receiver listens now,
\* "oldversion" speaks another protocol version, "wrongcode" has another code.
Kinds == {"direct", "named", "misnamed", "oldversion", "wrongcode"}

FaultKinds == {"break", "crash", "late", "refused", "quit", "vanish"}

ASSUME DirectAssumption ==
  /\ KindChoices \subseteq [Sender -> Kinds]
  /\ ResourceOf \in [Sender -> Resource]
  /\ MaxAttempts \in Nat \ {0}
  /\ MaxChunk \in Nat \ {0}
  /\ Faults \subseteq FaultKinds
  /\ MaxFaults \in Nat
  /\ MaxClock \in Nat

VARIABLES
  disk,       \* the receiver's partial store
  clock,      \* now_unix()
  snd,        \* Sender -> state of its retry loop and current attempt
  conn,       \* <<sender, attempt>> -> state of the connection
  backlog,    \* connections the listener has not accepted yet
  rcv,        \* state of receive_stream
  delivered,  \* history: archives unpacked, per sender
  faults,     \* history: faults so far
  torn,       \* history: partials a crash interrupted an operation on
  unwelcome   \* history: senders turned away for the name they asked for

vars == <<disk, clock, snd, conn, backlog, rcv, delivered, faults, torn, unwelcome>>

Conn == Sender \X (1..MaxAttempts)

\* WireFrame and SecureFrame; `at` is an offset, `len` a number of bytes.
Frame ==
  [type : {"client_intro", "server_intro", "client_finish", "header", "chunk", "done",
           "ack", "version_error", "unpack_error"},
   at : Nat, len : Nat]

Signal(type) == [type |-> type, at |-> 0, len |-> 0]

SenderState ==
  [kind : Kinds,
   pc : {"idle", "opening", "sending", "waiting",   \* within the retry loop
         "ok", "refused", "exhausted", "gone"},     \* after it
   tries : 0..MaxAttempts,
   pos : Nat]

\* Each side has the connection open, has closed it, or is gone without the
\* other side's hearing of it; a cut connection returns errors to both.
Connection ==
  [c2s : Seq(Frame), s2c : Seq(Frame),
   client : {"open", "closed", "gone"}, server : {"open", "closed"}, net : {"up", "cut"}]

NoConn == [c2s |-> << >>, s2c |-> << >>, client |-> "closed", server |-> "closed", net |-> "up"]

ReceiverState ==
  [pc : {"accept", "intro", "finish", "header", "body", "down"},
   conn : Seq(Conn),     \* the connection being served, if any
   offset : Nat]         \* ResumeState.offset

TypeOK ==
  /\ disk \in [Resource -> Dir]
  /\ clock \in Nat
  /\ snd \in [Sender -> SenderState]
  /\ conn \in [Conn -> Connection]
  /\ backlog \in Seq(Conn)
  /\ rcv \in ReceiverState
  /\ delivered \in [Sender -> Nat]
  /\ faults \in 0..MaxFaults
  /\ torn \subseteq Resource
  /\ unwelcome \subseteq Sender

AtListener(pc) == [pc |-> pc, conn |-> << >>, offset |-> 0]

Init ==
  /\ disk = [r \in Resource |-> EmptyDir]
  /\ clock = 0
  /\ \E kind \in KindChoices :
       snd = [s \in Sender |-> [kind |-> kind[s], pc |-> "idle", tries |-> 0, pos |-> 0]]
  /\ conn = [c \in Conn |-> NoConn]
  /\ backlog = << >>
  /\ rcv = AtListener("accept")
  /\ delivered = [s \in Sender |-> 0]
  /\ faults = 0
  /\ torn = {}
  /\ unwelcome = {}

-------------------------------------------------------------------------------
(* Connections. *)

\* A connection both sides have left needs no state.
Settle(k) == IF k.client # "open" /\ k.server = "closed" THEN NoConn ELSE k

CloseClient(k) == Settle([k EXCEPT !.client = "closed", !.s2c = << >>])

CloseServer(k) == Settle([k EXCEPT !.server = "closed", !.c2s = << >>])

\* A write that nobody will read is lost; that the connection is gone shows
\* at the next read.
ToServer(k, frames) ==
  IF k.server = "closed" \/ k.net = "cut" THEN k ELSE [k EXCEPT !.c2s = @ \o frames]

ToClient(k, frames) ==
  IF k.client # "open" \/ k.net = "cut" THEN k ELSE [k EXCEPT !.s2c = @ \o frames]

\* The host of the sender is gone.
Vanished(k) == Settle([k EXCEPT !.client = "gone", !.s2c = << >>])

\* The process that had the server's end is gone.
Reset(k) == CloseServer(IF k.server = "open" THEN [k EXCEPT !.net = "cut"] ELSE k)

\* A frame is taken off the stream, by the receiver or by the sender.
Consumed(k) == [k EXCEPT !.c2s = Tail(@)]

Answered(k) == [k EXCEPT !.s2c = Tail(@)]

Arrived(queue, type) == queue # << >> /\ Head(queue).type = type

Fault(kind) ==
  /\ kind \in Faults
  /\ faults < MaxFaults
  /\ faults' = faults + 1

-------------------------------------------------------------------------------
(* The sender. *)

Attempt(s) == <<s, snd[s].tries>>

Link(s) == conn[Attempt(s)]

\* Mutant of Transient: the retry loop does not count.
RetryForever(s) == [snd[s] EXCEPT !.pc = "idle", !.pos = 0]

\* The retry loop around an attempt that failed: try again while attempts are
\* left, or give up at once on an error is_fatal_error recognises.
Transient(s) ==
  [snd[s] EXCEPT !.pc = IF snd[s].tries = MaxAttempts THEN "exhausted" ELSE "idle", !.pos = 0]

Fatal(s) == [snd[s] EXCEPT !.pc = "refused", !.pos = 0]

\* Mutant of OnUnpackError: any answer to Done ends the send well.
AnyAnswerIsAck(s) == {[snd[s] EXCEPT !.pc = "ok", !.pos = 0]}

\* TransferError::Fatal survives in direct_send_with_retries.  A named send
\* flattens its routes' errors to one string first, so whether this one is
\* recognised depends on its wording; so does an OPAQUE failure for anybody.
OnUnpackError(s) == IF snd[s].kind = "direct" THEN {Fatal(s)} ELSE {Fatal(s), Transient(s)}

OnWrongCode(s) == {Fatal(s), Transient(s)}

\* The attempt ends: the stream is dropped.
EndAttempt(s, next) ==
  /\ snd' = [snd EXCEPT ![s] = next]
  /\ conn' = [conn EXCEPT ![Attempt(s)] = CloseClient(@)]

SenderLeavesRest == UNCHANGED <<disk, clock, backlog, rcv, delivered, torn, unwelcome>>

\* TcpStream::connect and the ClientIntro frame.
Connect(s) ==
  LET c == <<s, snd[s].tries + 1>> IN
  /\ snd[s].pc = "idle"
  /\ rcv.pc # "down"
  /\ snd' = [snd EXCEPT ![s].pc = "opening", ![s].tries = c[2]]
  /\ conn' = [conn EXCEPT ![c] = [c2s |-> <<Signal("client_intro")>>, s2c |-> << >>,
                                  client |-> "open", server |-> "open", net |-> "up"]]
  /\ backlog' = Append(backlog, c)
  /\ UNCHANGED <<disk, clock, rcv, delivered, faults, torn, unwelcome>>

\* Nobody listens.
ConnectRefused(s) ==
  /\ snd[s].pc = "idle"
  /\ rcv.pc = "down"
  /\ Fault("refused")
  /\ snd' = [snd EXCEPT
       ![s].pc = IF snd[s].tries + 1 = MaxAttempts THEN "exhausted" ELSE "idle",
       ![s].tries = @ + 1]
  /\ UNCHANGED conn
  /\ SenderLeavesRest

\* ServerIntro arrives: log in, then ClientFinish and Header.
RecvServerIntro(s) ==
  /\ snd[s].pc = "opening"
  /\ Arrived(Link(s).s2c, "server_intro")
  /\ snd[s].kind # "wrongcode"
  /\ snd' = [snd EXCEPT ![s].pc = "sending", ![s].pos = Head(Link(s).s2c).at]
  /\ conn' = [conn EXCEPT ![Attempt(s)] =
       ToServer(Answered(@), <<Signal("client_finish"), Signal("header")>>)]
  /\ UNCHANGED faults
  /\ SenderLeavesRest

\* The login does not finish.
RejectServerIntro(s) ==
  /\ snd[s].pc = "opening"
  /\ Arrived(Link(s).s2c, "server_intro")
  /\ snd[s].kind = "wrongcode"
  /\ \E next \in OnWrongCode(s) : EndAttempt(s, next)
  /\ UNCHANGED faults
  /\ SenderLeavesRest

RecvVersionError(s) ==
  /\ snd[s].pc = "opening"
  /\ Arrived(Link(s).s2c, "version_error")
  /\ EndAttempt(s, Fatal(s))
  /\ UNCHANGED faults
  /\ SenderLeavesRest

SendChunk(s, n) ==
  /\ snd[s].pc = "sending"
  /\ snd[s].pos + n <= Size[ResourceOf[s]]
  /\ snd' = [snd EXCEPT ![s].pos = @ + n]
  /\ conn' = [conn EXCEPT ![Attempt(s)] =
       ToServer(@, <<[type |-> "chunk", at |-> snd[s].pos, len |-> n]>>)]
  /\ UNCHANGED faults
  /\ SenderLeavesRest

SendDone(s) ==
  /\ snd[s].pc = "sending"
  /\ snd[s].pos = Size[ResourceOf[s]]
  /\ snd' = [snd EXCEPT ![s].pc = "waiting"]
  /\ conn' = [conn EXCEPT ![Attempt(s)] = ToServer(@, <<Signal("done")>>)]
  /\ UNCHANGED faults
  /\ SenderLeavesRest

\* After the Ack the stream is shut down, and an error of that is an error of
\* the attempt.
RecvAck(s) ==
  /\ snd[s].pc = "waiting"
  /\ Arrived(Link(s).s2c, "ack")
  /\ \E next \in {[snd[s] EXCEPT !.pc = "ok", !.pos = 0]}
                   \cup (IF Link(s).net = "cut" THEN {Transient(s)} ELSE {}) :
       EndAttempt(s, next)
  /\ UNCHANGED faults
  /\ SenderLeavesRest

RecvUnpackError(s) ==
  /\ snd[s].pc = "waiting"
  /\ Arrived(Link(s).s2c, "unpack_error")
  /\ \E next \in OnUnpackError(s) : EndAttempt(s, next)
  /\ UNCHANGED faults
  /\ SenderLeavesRest

\* A read meets the end of the stream, or a read or write an error.
SenderError(s) ==
  /\ snd[s].pc \in {"opening", "sending", "waiting"}
  /\ Link(s).net = "cut" \/ (Link(s).server = "closed" /\ Link(s).s2c = << >>)
  /\ EndAttempt(s, Transient(s))
  /\ UNCHANGED faults
  /\ SenderLeavesRest

\* A connection waits for the listener while it serves another peer that has
\* not hung up.
Blocked(c) ==
  /\ \E i \in 1..Len(backlog) : backlog[i] = c
  /\ rcv.conn # << >>
  /\ conn[rcv.conn[1]].client # "closed"

\* Mutant of OpenTimeout: when it fires, the wait starts again.
OpenTimeoutRearmed(s) ==
  /\ snd[s].pc = "opening"
  /\ Blocked(Attempt(s))
  /\ UNCHANGED vars

\* DIRECT_SESSION_OPEN_TIMEOUT: the listener is busy, ...
OpenTimeout(s) ==
  /\ snd[s].pc = "opening"
  /\ Blocked(Attempt(s))
  /\ EndAttempt(s, Transient(s))
  /\ UNCHANGED faults
  /\ SenderLeavesRest

\* ... or the answer is late.
LateAnswer(s) ==
  /\ snd[s].pc = "opening"
  /\ ~Blocked(Attempt(s))
  /\ Fault("late")
  /\ EndAttempt(s, Transient(s))
  /\ SenderLeavesRest

\* The sender's process ends.
Quit(s) ==
  /\ snd[s].pc \in {"opening", "sending", "waiting"}
  /\ Fault("quit")
  /\ EndAttempt(s, [snd[s] EXCEPT !.pc = "gone", !.pos = 0])
  /\ SenderLeavesRest

\* The sender's host disappears without a trace: the receiver reads what has
\* arrived and then waits.
Vanish(s) ==
  /\ snd[s].pc \in {"opening", "sending", "waiting"}
  /\ Link(s).net = "up"
  /\ Fault("vanish")
  /\ snd' = [snd EXCEPT ![s].pc = "gone", ![s].pos = 0]
  /\ conn' = [conn EXCEPT ![Attempt(s)] = Vanished(@)]
  /\ SenderLeavesRest

-------------------------------------------------------------------------------
(* The receiver. *)

\* The connection being served, its sender and the directory it names.
Served == rcv.conn[1]

Peer == Served[1]

Named == ResourceOf[Peer]

Reading(pc, type) == rcv.pc = pc /\ Arrived(conn[Served].c2s, type)

\* Mutant of Hangup: the stream is dropped without an answer.
HangupUnanswered(replies) ==
  /\ rcv' = AtListener("accept")
  /\ conn' = [conn EXCEPT ![Served] = CloseServer(@)]

\* receive_stream returns; the stream is dropped and the loop accepts again.
Hangup(replies) ==
  /\ rcv' = AtListener("accept")
  /\ conn' = [conn EXCEPT ![Served] = CloseServer(ToClient(@, replies))]

ReceiverLeavesRest == UNCHANGED <<clock, snd, faults>>

Accept ==
  /\ rcv.pc = "accept"
  /\ backlog # << >>
  /\ rcv' = [pc |-> "intro", conn |-> <<Head(backlog)>>, offset |-> 0]
  /\ backlog' = Tail(backlog)
  /\ UNCHANGED <<disk, conn, delivered, torn, unwelcome>>
  /\ ReceiverLeavesRest

\* Another version is told so.
RejectVersion ==
  /\ Reading("intro", "client_intro")
  /\ snd[Peer].kind = "oldversion"
  /\ Hangup(<<Signal("version_error")>>)
  /\ UNCHANGED <<disk, backlog, delivered, torn, unwelcome>>
  /\ ReceiverLeavesRest

\* A sender that asks for another name is told nothing.
RejectName ==
  /\ Reading("intro", "client_intro")
  /\ snd[Peer].kind = "misnamed"
  /\ Hangup(<< >>)
  /\ unwelcome' = unwelcome \cup {Peer}
  /\ UNCHANGED <<disk, backlog, delivered, torn>>
  /\ ReceiverLeavesRest

\* Whoever else it is, resume_state runs before the sender has proved to know
\* the code.
RecvClientIntro ==
  LET offset == ResumeOffset(CleanupExpired(disk, clock)[Named], Named) IN
  /\ Reading("intro", "client_intro")
  /\ snd[Peer].kind \notin {"oldversion", "misnamed"}
  /\ disk' = ResumeState(disk, Named, clock)
  /\ rcv' = [rcv EXCEPT !.pc = "finish", !.offset = offset]
  /\ conn' = [conn EXCEPT ![Served] =
       ToClient(Consumed(@), <<[type |-> "server_intro", at |-> offset, len |-> 0]>>)]
  /\ torn' = {r \in torn : disk'[r].part # << >>}
  /\ UNCHANGED <<backlog, delivered, unwelcome>>
  /\ ReceiverLeavesRest

Advance(pc) ==
  /\ rcv' = [rcv EXCEPT !.pc = pc]
  /\ conn' = [conn EXCEPT ![Served] = Consumed(@)]
  /\ UNCHANGED <<disk, backlog, delivered, torn, unwelcome>>
  /\ ReceiverLeavesRest

RecvClientFinish == Reading("finish", "client_finish") /\ Advance("header")

RecvHeader == Reading("header", "header") /\ Advance("body")

RecvChunk ==
  LET frame == Head(conn[Served].c2s)
      offset == rcv.offset + frame.len
  IN
  /\ Reading("body", "chunk")
  /\ CanAppend(disk[Named])
  /\ offset <= Size[Named]
  /\ disk' = [disk EXCEPT ![Named] = AppendChunk(@, Bytes(frame.at, frame.len), offset, clock)]
  /\ rcv' = [rcv EXCEPT !.offset = offset]
  /\ conn' = [conn EXCEPT ![Served] = Consumed(@)]
  /\ UNCHANGED <<backlog, delivered, torn, unwelcome>>
  /\ ReceiverLeavesRest

\* Verify, unpack, remove the partial, answer.  An archive that fails its
\* verification is not answered.
RecvDone ==
  LET verdict == CompletePartial(disk[Named], Named) IN
  /\ Reading("body", "done")
  /\ \E unpacked \in BOOLEAN :
       /\ delivered' = [delivered EXCEPT ![Peer] = @ + IF unpacked /\ verdict = "whole" THEN 1 ELSE 0]
       /\ Hangup(IF verdict # "whole" THEN << >>
                 ELSE IF unpacked THEN <<Signal("ack")>> ELSE <<Signal("unpack_error")>>)
  /\ disk' = IF verdict = "missing" THEN disk ELSE [disk EXCEPT ![Named] = RemovePartial(@)]
  /\ torn' = torn \ {Named}
  /\ UNCHANGED <<backlog, unwelcome>>
  /\ ReceiverLeavesRest

\* Mutant of ReceiverError: at the end of the stream the read is repeated.
ReceiverErrorOnlyWhenCut ==
  /\ rcv.conn # << >>
  /\ \/ conn[Served].net = "cut" /\ Hangup(<< >>)
     \/ /\ conn[Served].client = "closed" /\ conn[Served].c2s = << >>
        /\ UNCHANGED <<rcv, conn>>
  /\ UNCHANGED <<disk, backlog, delivered, torn, unwelcome>>
  /\ ReceiverLeavesRest

\* append_chunk cannot open the part file: its directory is gone.  (It also
\* refuses a chunk beyond the end, which no sender here sends.)
Unwritable == Reading("body", "chunk") /\ ~CanAppend(disk[Named])

\* The connection is cut, is at its end before a Done, or brings a chunk that
\* cannot be stored.
ReceiverError ==
  /\ rcv.conn # << >>
  /\ \/ conn[Served].net = "cut"
     \/ conn[Served].client = "closed" /\ conn[Served].c2s = << >>
     \/ Unwritable
  /\ Hangup(<< >>)
  /\ UNCHANGED <<disk, backlog, delivered, torn, unwelcome>>
  /\ ReceiverLeavesRest

-------------------------------------------------------------------------------
(* The receiver's process dies, possibly inside a call into the store, and *)
(* is started again.                                                       *)

\* Partials the dying process changed without finishing.
WatchTorn ==
  torn' = torn \cup {r \in Resource : \/ disk'[r].part # disk[r].part
                                     \/ "meta" \in disk[r].files \ disk'[r].files}

Die ==
  /\ Fault("crash")
  /\ rcv' = AtListener("down")
  /\ backlog' = << >>
  /\ conn' = [c \in Conn |-> Reset(conn[c])]
  /\ UNCHANGED <<clock, snd, unwelcome>>

Crash ==
  /\ rcv.pc # "down"
  /\ Die
  /\ UNCHANGED <<disk, delivered, torn>>

CrashInIntro ==
  /\ Reading("intro", "client_intro")
  /\ snd[Peer].kind \notin {"oldversion", "misnamed"}
  /\ Die
  /\ disk' \in TornResumeState(disk, Named, clock)
  /\ WatchTorn
  /\ UNCHANGED delivered

CrashInChunk ==
  LET frame == Head(conn[Served].c2s) IN
  /\ Reading("body", "chunk")
  /\ Die
  /\ \E d \in TornAppend(disk[Named], Bytes(frame.at, frame.len)) :
       disk' = [disk EXCEPT ![Named] = d]
  /\ WatchTorn
  /\ UNCHANGED delivered

CrashInDone ==
  /\ Reading("body", "done")
  /\ CompletePartial(disk[Named], Named) = "whole"
  /\ Die
  /\ \E d \in TornRemove(disk[Named]) : disk' = [disk EXCEPT ![Named] = d]
  /\ \E n \in {0, 1} : delivered' = [delivered EXCEPT ![Peer] = @ + n]
  /\ WatchTorn

Restart ==
  /\ rcv.pc = "down"
  /\ rcv' = AtListener("accept")
  /\ UNCHANGED <<disk, clock, snd, conn, backlog, delivered, faults, torn, unwelcome>>

-------------------------------------------------------------------------------
(* The network and time. *)

Break(c) ==
  /\ conn[c].client = "open" /\ conn[c].server = "open"
  /\ conn[c].net = "up"
  /\ Fault("break")
  /\ conn' = [conn EXCEPT ![c].net = "cut"]
  /\ UNCHANGED <<disk, clock, snd, backlog, rcv, delivered, torn, unwelcome>>

Tick ==
  /\ clock < MaxClock
  /\ clock' = clock + 1
  /\ UNCHANGED <<disk, snd, conn, backlog, rcv, delivered, faults, torn, unwelcome>>

-------------------------------------------------------------------------------

SenderStep(s) ==
  \/ Connect(s)
  \/ RecvServerIntro(s)
  \/ RejectServerIntro(s)
  \/ RecvVersionError(s)
  \/ \E n \in 1..MaxChunk : SendChunk(s, n)
  \/ SendDone(s)
  \/ RecvAck(s)
  \/ RecvUnpackError(s)
  \/ SenderError(s)
  \/ OpenTimeout(s)

ReceiverStep ==
  \/ Accept
  \/ RejectVersion
  \/ RejectName
  \/ RecvClientIntro
  \/ RecvClientFinish
  \/ RecvHeader
  \/ RecvChunk
  \/ RecvDone
  \/ ReceiverError
  \/ Restart

FaultStep ==
  \/ \E s \in Sender : ConnectRefused(s) \/ LateAnswer(s) \/ Quit(s) \/ Vanish(s)
  \/ \E c \in Conn : Break(c)
  \/ Crash \/ CrashInIntro \/ CrashInChunk \/ CrashInDone

\* Every send has ended and the receiver waits for the next: nothing to do.
Finished ==
  /\ \A s \in Sender : snd[s].pc \in {"ok", "refused", "exhausted", "gone"}
  /\ UNCHANGED vars

Next ==
  \/ \E s \in Sender : SenderStep(s)
  \/ ReceiverStep
  \/ FaultStep
  \/ Tick
  \/ Finished

\* The tasks of both processes are scheduled and their timers fire; a
\* receiver that died is started again.  No fault has to happen.
Fairness == WF_vars(ReceiverStep) /\ \A s \in Sender : WF_vars(SenderStep(s))

Spec == Init /\ [][Next]_vars /\ Fairness

-------------------------------------------------------------------------------
(* Properties. *)

\* What each sender has reported.
Reported ==
  [s \in Sender |->
     CASE snd[s].pc = "ok" -> "ok"
       [] snd[s].pc \in {"refused", "exhausted", "gone"} -> "failed"
       [] OTHER -> "sending"]

Promise == INSTANCE Delivery WITH status <- Reported, copies <- delivered

\* Whatever is lost, late or repeated, a send reports success only after the
\* receiver unpacked its archive, and no connection it had given up delivers
\* another copy after that: the Ack comes last in receive_stream and the
\* listener does not turn to a retry before the attempt it replaces is over.
ImplementsDelivery == Promise!Spec

\* With the direct route alone, the partial is the whole archive whenever Done
\* is read: the offset offered, the chunks sent from it and the file on disk
\* agree across retries, crashes inside the store's calls and expiry, so the
\* size and hash checks of complete_partial never discard a transfer.
DoneMeansWhole ==
  Reading("body", "done") => CompletePartial(disk[Named], Named) = "whole"

\* Bytes the receiver has written are not lost to the sender: a part file
\* shrinks only when its transfer is completed, when it is older than the
\* retention time, or after a crash that interrupted a write to it.  No
\* rejected sender, timeout or retry throws it away.
ProgressKept ==
  [][\A r \in Resource : Len(disk'[r].part) < Len(disk[r].part) =>
       \/ Reading("body", "done") /\ Named = r
       \/ disk[r].updated + Retention < clock
       \/ r \in torn]_vars

\* An archive is unpacked again only because something went wrong: every copy
\* beyond the first takes a fault (a lost Ack, a crash after unpacking).
CopiesNeedFaults ==
  \A s \in Sender : delivered[s] <= 1 + faults

\* A sender nobody else came between runs out of attempts only if each of
\* them met a fault of its own: no failure repeats itself through what it left
\* on the receiver.  (Stated for a sender that dials an address: for it an
\* unpack error is final, while a named send may retry it.)
AttemptsNeedFaults ==
  \A s \in Sender :
    /\ snd[s].kind = "direct"
    /\ snd[s].pc = "exhausted"
    /\ \A t \in Sender \ {s} : snd[t].tries = 0
    => faults >= MaxAttempts

\* Every send comes to an end, also behind a peer that disappeared and left
\* the listener waiting: the timeout of open_direct_session_with_timeout
\* bounds the only wait that depends on other senders.
SendersFinish ==
  \A s \in Sender : <>(snd[s].pc \in {"ok", "refused", "exhausted", "gone"})

\* The listener comes back to accept after every connection whose peer has
\* not disappeared silently: receive_stream has no wait that only another
\* connection could end.
ListenerReturns ==
  rcv.conn # << >> ~> (rcv.conn = << >> \/ conn[Served].client = "gone")

\* What is_fatal_error recognises by its text: a sender the receiver turns
\* away for its name does not try again.
NameMismatchIsFatal ==
  \A s \in unwelcome : snd[s].tries = 1

===============================================================================
