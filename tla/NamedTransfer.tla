---------------------------- MODULE NamedTransfer ----------------------------
(***************************************************************************)
(* A send by name over libp2p: named_send_with_retries, whose attempts try *)
(* every discovered route at once, send_prebuilt_libp2p on each route, and *)
(* recv_libp2p with its map of sessions, in the receive loop of `peerline  *)
(* recv` that starts a new round after every transfer.                     *)
(*                                                                         *)
(* A route of an attempt builds a swarm of its own and so is a libp2p peer *)
(* of its own.  It has one request outstanding at a time; a request whose  *)
(* sender has given up may still reach the receiver.  Time stands still    *)
(* for the store (its expiry is the subject of ResumeStore) and the        *)
(* receiver's process does not die.                                        *)
(***************************************************************************)
EXTENDS PartialStore

CONSTANTS
  Sender,
  Route,        \* the candidates an attempt discovers, all allowed
  Relay,        \* those of them that are relay fallback
  ResourceOf,   \* the archive a sender sends
  MaxAttempts,  \* --retry-attempts
  MaxChunk,     \* bytes per ArchiveChunk
  Faults,       \* the kinds of fault that may happen
  MaxFaults     \* bound on their number

FaultKinds == {"break", "late", "unpack", "nothing", "other", "quit"}

ASSUME NamedAssumption ==
  /\ Route # {} /\ Relay \subseteq Route
  /\ ResourceOf \in [Sender -> Resource]
  /\ MaxAttempts \in Nat \ {0}
  /\ MaxChunk \in Nat \ {0}
  /\ Faults \subseteq FaultKinds
  /\ MaxFaults \in Nat

VARIABLES
  disk,       \* the receiver's partial store
  send,       \* Sender -> state of its retry loop
  task,       \* Peer -> state of send_prebuilt_libp2p on one route
  link,       \* Peer -> its connection and the request or response on it
  path,       \* "running" while recv_libp2p runs, else "stopped"
  sessions,   \* Peer -> ReceiverSession, or NoSession
  owed,       \* Peer -> responses whose ResponseSent event is still to come
  delivered,  \* history: archives unpacked, per sender
  others,     \* history: rounds that ended under an attempt of a sender, and not with it
  faults,     \* history: faults so far
  mixed       \* history: resources two sessions were receiving at once

vars == <<disk, send, task, link, path, sessions, owed, delivered, others, faults, mixed>>

Peer == Sender \X (1..MaxAttempts) \X Route

SendState ==
  [pc : {"idle", "trying", "ok", "failed"},
   tries : 0..MaxAttempts,
   wording : {"plain", "unpack"}]    \* what last_error is about

\* The request a route waits for the response to, and bytes_sent.
TaskState ==
  [pc : {"off", "intro", "finish", "header", "chunk", "done", "failed"}, pos : Nat]

Off == [pc |-> "off", pos |-> 0]

\* "answer": the response is handed to the swarm; "written": it is on the wire;
\* "dead": the request has failed.
LinkState ==
  [state : {"none", "request", "answer", "written", "dead"},
   net : {"up", "cut"},
   type : {"none", "intro", "finish", "header", "chunk", "done", "server_intro", "ack", "error"},
   at : Nat, len : Nat]

NoLink == [state |-> "none", net |-> "cut", type |-> "none", at |-> 0, len |-> 0]

\* opaque_server is there; aead is there; compression is there; pending_result
\* or pending_error is there.
SessionState ==
  [stage : {"none", "intro", "ready", "body", "result", "error"}, offset : Nat]

NoSession == [stage |-> "none", offset |-> 0]

TypeOK ==
  /\ disk \in [Resource -> Dir]
  /\ send \in [Sender -> SendState]
  /\ task \in [Peer -> TaskState]
  /\ link \in [Peer -> LinkState]
  /\ path \in {"running", "stopped"}
  /\ sessions \in [Peer -> SessionState]
  /\ owed \in [Peer -> SUBSET {"last", "old"}]
  /\ delivered \in [Sender -> Nat]
  /\ others \in [Sender -> Nat]
  /\ faults \in 0..MaxFaults
  /\ mixed \subseteq Resource

Init ==
  /\ disk = [r \in Resource |-> EmptyDir]
  /\ send = [s \in Sender |-> [pc |-> "idle", tries |-> 0, wording |-> "plain"]]
  /\ task = [p \in Peer |-> Off]
  /\ link = [p \in Peer |-> NoLink]
  /\ path = "running"
  /\ sessions = [p \in Peer |-> NoSession]
  /\ owed = [p \in Peer |-> {}]
  /\ delivered = [s \in Sender |-> 0]
  /\ others = [s \in Sender |-> 0]
  /\ faults = 0
  /\ mixed = {}

Fault(kind) ==
  /\ kind \in Faults
  /\ faults < MaxFaults
  /\ faults' = faults + 1

Named(p) == ResourceOf[p[1]]

-------------------------------------------------------------------------------
(* The sender. *)

Waiting(p) == task[p].pc \notin {"off", "failed"}

\* request_round_trip puts a request on a connection that may be gone.
Request(k, type, at, len) ==
  [state |-> IF k.net = "up" THEN "request" ELSE "dead", net |-> k.net,
   type |-> type, at |-> at, len |-> len]

\* The swarm is dropped: nobody waits for a response any more, but a request
\* may be on its way.
Abandon(k) == IF k.state = "request" THEN [k EXCEPT !.net = "cut"] ELSE NoLink

AttemptOf(s) == {s} \X {send[s].tries} \X Route

\* named_send_attempt: discover, then start every route.
StartAttempt(s) ==
  LET peers == {s} \X {send[s].tries + 1} \X Route IN
  /\ send[s].pc = "idle"
  /\ send' = [send EXCEPT ![s].pc = "trying", ![s].tries = @ + 1]
  /\ task' = [p \in Peer |-> IF p \in peers THEN [pc |-> "intro", pos |-> 0] ELSE task[p]]
  /\ link' = [p \in Peer |->
       IF p \in peers
       THEN Request([NoLink EXCEPT !.net = IF path = "running" THEN "up" ELSE "cut"], "intro", 0, 0)
       ELSE link[p]]
  /\ UNCHANGED <<disk, path, sessions, owed, delivered, others, faults>>

\* The attempt has failed: is_fatal_error sees only the last route's message,
\* and that of an archive the receiver cannot unpack may have a fatal wording.
NextAttempt(s) ==
  (IF send[s].tries = MaxAttempts THEN {"failed"} ELSE {"idle"})
    \cup (IF send[s].wording = "unpack" THEN {"failed"} ELSE {})

\* Nothing is discovered.
DiscoverNothing(s) ==
  /\ send[s].pc = "idle"
  /\ Fault("nothing")
  /\ send' = [send EXCEPT ![s] =
       [pc |-> IF @.tries + 1 = MaxAttempts THEN "failed" ELSE "idle",
        tries |-> @.tries + 1, wording |-> "plain"]]
  /\ UNCHANGED <<disk, task, link, path, sessions, owed, delivered, others>>

\* "all routes failed".
AttemptFails(s) ==
  /\ send[s].pc = "trying"
  /\ \A p \in AttemptOf(s) : task[p].pc = "failed"
  /\ \E pc \in NextAttempt(s) : send' = [send EXCEPT ![s].pc = pc, ![s].wording = "plain"]
  /\ UNCHANGED <<disk, task, link, path, sessions, owed, delivered, others, faults>>

\* TaskOutcome::Quit: the user ends the send, and every route is dropped.
Quit(s) ==
  /\ send[s].pc = "trying"
  /\ Fault("quit")
  /\ send' = [send EXCEPT ![s].pc = "failed", ![s].wording = "plain"]
  /\ task' = [p \in Peer |-> IF p[1] = s THEN Off ELSE task[p]]
  /\ link' = [p \in Peer |-> IF p[1] = s THEN Abandon(link[p]) ELSE link[p]]
  /\ UNCHANGED <<disk, path, sessions, owed, delivered, others>>

\* One route ends with an error, whose text becomes last_error.
FailTask(p, wording) ==
  /\ task' = [task EXCEPT ![p] = [Off EXCEPT !.pc = "failed"]]
  /\ send' = [send EXCEPT ![p[1]].wording = wording]
  /\ link' = [link EXCEPT ![p] = Abandon(@)]
  /\ UNCHANGED <<disk, path, sessions, owed, delivered, others>>

\* The response is here, and it is not an error.
Answered(p, type) == Waiting(p) /\ link[p].state = "written" /\ link[p].type = type

NextRequest(p, type, pos, len) ==
  /\ task' = [task EXCEPT ![p] = [pc |-> type, pos |-> pos]]
  /\ link' = [link EXCEPT ![p] = Request(@, type, pos - len, len)]
  /\ UNCHANGED <<disk, send, path, sessions, owed, delivered, others, faults>>

RecvServerIntro(p) ==
  /\ Answered(p, "server_intro")
  /\ NextRequest(p, "finish", link[p].at, 0)

RecvFinishAck(p) ==
  /\ Answered(p, "ack") /\ task[p].pc = "finish"
  /\ NextRequest(p, "header", task[p].pos, 0)

\* The next chunk, or Done when the archive is read to its end.
RecvStreamAck(p) ==
  /\ Answered(p, "ack") /\ task[p].pc \in {"header", "chunk"}
  /\ IF task[p].pos = Size[Named(p)]
     THEN NextRequest(p, "done", task[p].pos, 0)
     ELSE \E n \in 1..MaxChunk :
            /\ task[p].pos + n <= Size[Named(p)]
            /\ NextRequest(p, "chunk", task[p].pos + n, n)

\* The first route to finish ends the send and drops the others.
RecvDoneAck(p) ==
  LET s == p[1] IN
  /\ Answered(p, "ack") /\ task[p].pc = "done"
  /\ send' = [send EXCEPT ![s].pc = "ok", ![s].wording = "plain"]
  /\ task' = [q \in Peer |-> IF q[1] = s THEN Off ELSE task[q]]
  /\ link' = [q \in Peer |-> IF q[1] = s THEN Abandon(link[q]) ELSE link[q]]
  /\ UNCHANGED <<disk, path, sessions, owed, delivered, others, faults>>

\* Mutant of RecvError: any answer to Done ends the send well.
ErrorIsAck(p) ==
  /\ Answered(p, "error")
  /\ send' = [send EXCEPT ![p[1]].pc = "ok"]
  /\ task' = [task EXCEPT ![p] = Off]
  /\ link' = [link EXCEPT ![p] = Abandon(@)]
  /\ UNCHANGED <<disk, path, sessions, owed, delivered, others, faults>>

\* WireFrame::Error; the only one in reach answers Done.
RecvError(p) ==
  /\ Answered(p, "error")
  /\ FailTask(p, "unpack")
  /\ UNCHANGED faults

\* Mutant of RequestFailed: the request is repeated on the same connection.
RequestRepeated(p) ==
  /\ Waiting(p)
  /\ link[p].state = "dead"
  /\ link' = [link EXCEPT ![p] = Request(@, @.type, @.at, @.len)]
  /\ UNCHANGED <<disk, send, task, path, sessions, owed, delivered, others, faults>>

\* OutboundFailure: the connection is gone, or could not be made.
RequestFailed(p) ==
  /\ Waiting(p)
  /\ link[p].state = "dead"
  /\ FailTask(p, "plain")
  /\ UNCHANGED faults

\* LIBP2P_REQUEST_ROUND_TRIP_TIMEOUT, or the swarm's own.
RequestTimeout(p) ==
  /\ Waiting(p)
  /\ link[p].state \in {"request", "answer"}
  /\ Fault("late")
  /\ FailTask(p, "plain")

-------------------------------------------------------------------------------
(* The receiver. *)

\* The futures of a round are dropped: swarm, connections and sessions go; a
\* response on the wire can still be read.
DropRound ==
  /\ sessions' = [p \in Peer |-> NoSession]
  /\ owed' = [p \in Peer |-> {}]
  /\ link' = [p \in Peer |->
       IF ~Waiting(p) THEN NoLink
       ELSE [link[p] EXCEPT !.net = "cut", !.state = IF @ = "written" THEN @ ELSE "dead"]]

\* An error leaves handle_inbound_request, handle_transfer_event and
\* recv_libp2p: the path has stopped, and wait_for_receiver waits for others.
PathFails ==
  /\ DropRound
  /\ path' = "stopped"
  /\ UNCHANGED <<send, task, others>>

Received(p, type) == path = "running" /\ link[p].state = "request" /\ link[p].type = type

\* send_response.
Respond(p, type, at) ==
  /\ link' = [link EXCEPT ![p] = [@ EXCEPT !.state = "answer", !.type = type, !.at = at, !.len = 0]]
  /\ owed' = [owed EXCEPT ![p] = {"last"} \cup (IF @ = {} THEN {} ELSE {"old"})]
  /\ UNCHANGED <<send, task, path, others>>

\* Mutant of OfferedOffset: a transfer always starts from the beginning.
OfferZero(r) == 0

OfferedOffset(r) == ResumeOffset(CleanupExpired(disk, 0)[r], r)

HandleIntro(p) ==
  LET offset == OfferedOffset(Named(p)) IN
  /\ Received(p, "intro")
  /\ disk' = ResumeState(disk, Named(p), 0)
  /\ sessions' = [sessions EXCEPT ![p] = [stage |-> "intro", offset |-> offset]]
  /\ Respond(p, "server_intro", offset)
  /\ UNCHANGED <<delivered, faults>>

\* A request for which the session has come far enough.  (One that is out of
\* order is an error of the path; no sender here sends one.)
HandleInOrder(p, type, stage, next) ==
  /\ Received(p, type)
  /\ sessions[p].stage = stage
  /\ sessions' = [sessions EXCEPT ![p].stage = next]
  /\ Respond(p, "ack", 0)
  /\ UNCHANGED <<disk, delivered, faults>>

HandleFinish(p) == HandleInOrder(p, "finish", "intro", "ready")

HandleHeader(p) == HandleInOrder(p, "header", "ready", "body")

HandleChunk(p) ==
  LET offset == sessions[p].offset + link[p].len IN
  /\ Received(p, "chunk")
  /\ sessions[p].stage = "body"
  /\ CanAppend(disk[Named(p)])
  /\ disk' = [disk EXCEPT ![Named(p)] =
       AppendChunk(@, Bytes(link[p].at, link[p].len), offset, 0)]
  /\ sessions' = [sessions EXCEPT ![p].offset = offset]
  /\ Respond(p, "ack", 0)
  /\ UNCHANGED <<delivered, faults>>

\* The directory is gone.
HandleChunkFails(p) ==
  /\ Received(p, "chunk")
  /\ ~CanAppend(disk[Named(p)])
  /\ PathFails
  /\ UNCHANGED <<disk, delivered, faults>>

AtDone(p, verdict) ==
  /\ Received(p, "done")
  /\ sessions[p].stage = "body"
  /\ CompletePartial(disk[Named(p)], Named(p)) = verdict

RemoveOwn(p) == disk' = [disk EXCEPT ![Named(p)] = RemovePartial(@)]

\* Unpacked: the result waits for the response to be sent.
HandleDone(p) ==
  /\ AtDone(p, "whole")
  /\ RemoveOwn(p)
  /\ delivered' = [delivered EXCEPT ![p[1]] = @ + 1]
  /\ sessions' = [sessions EXCEPT ![p].stage = "result"]
  /\ Respond(p, "ack", 0)
  /\ UNCHANGED faults

HandleDoneUnpackError(p) ==
  /\ AtDone(p, "whole")
  /\ Fault("unpack")
  /\ RemoveOwn(p)
  /\ sessions' = [sessions EXCEPT ![p].stage = "error"]
  /\ Respond(p, "error", 0)
  /\ UNCHANGED delivered

\* complete_partial fails.
HandleDoneFails(p) ==
  /\ \/ AtDone(p, "missing") /\ UNCHANGED disk
     \/ AtDone(p, "mismatch") /\ RemoveOwn(p)
  /\ PathFails
  /\ UNCHANGED <<delivered, faults>>

\* The response goes out on the wire.
WriteResponse(p) ==
  /\ link[p].state = "answer"
  /\ link' = [link EXCEPT ![p] = IF Waiting(p) THEN [@ EXCEPT !.state = "written"] ELSE NoLink]
  /\ UNCHANGED <<disk, send, task, path, sessions, owed, delivered, others, faults>>

\* It does not, and the connection goes with it.
InboundFailure(p) ==
  /\ link[p].state = "answer"
  /\ IF Waiting(p) THEN Fault("break") ELSE UNCHANGED faults
  /\ link' = [link EXCEPT ![p] =
       IF Waiting(p) THEN [@ EXCEPT !.state = "dead", !.net = "cut"] ELSE NoLink]
  /\ owed' = [owed EXCEPT ![p] = @ \ {"last"}]
  /\ UNCHANGED <<disk, send, task, path, sessions, delivered, others>>

\* Mutant of Matches: any ResponseSent of the peer releases the result.
MatchesAny(p, which) == TRUE

\* pending_request_id == request_id: Done is the last request of a session.
Matches(p, which) == which = "last"

SentEvent(p, which) == which \in owed[p] /\ (which = "last" => link[p].state # "answer")

\* ResponseSent for the response to Done: the round ends with this transfer,
\* and the next one starts with a new swarm.
ReturnTransfer(p, which) ==
  /\ SentEvent(p, which)
  /\ sessions[p].stage = "result" /\ Matches(p, which)
  /\ others' = [s \in Sender |->
       IF send[s].pc = "trying" /\ p \notin AttemptOf(s) THEN others[s] + 1 ELSE others[s]]
  /\ DropRound
  /\ UNCHANGED <<disk, send, task, path, delivered, faults>>

\* Any other ResponseSent; the one for a pending error removes the session.
ResponseSent(p, which) ==
  /\ SentEvent(p, which)
  /\ ~(sessions[p].stage = "result" /\ Matches(p, which))
  /\ owed' = [owed EXCEPT ![p] = @ \ {which}]
  /\ sessions' = IF sessions[p].stage = "error" /\ which = "last"
                 THEN [sessions EXCEPT ![p] = NoSession] ELSE sessions
  /\ UNCHANGED <<disk, send, task, link, path, delivered, others, faults>>

\* Another path completes a transfer: this one is dropped and started anew.
OtherPathReturns ==
  /\ Fault("other")
  /\ DropRound
  /\ path' = "running"
  /\ UNCHANGED <<disk, send, task, delivered, others>>

\* The network drops a connection.
Break(p) ==
  /\ Waiting(p)
  /\ link[p].state \in {"request", "written"}
  /\ Fault("break")
  /\ link' = [link EXCEPT ![p].state = "dead", ![p].net = "cut"]
  /\ UNCHANGED <<disk, send, task, path, sessions, owed, delivered, others>>

-------------------------------------------------------------------------------

\* A session that can still append: it has not come to its end, and its sender
\* is there or a request of his is on its way.
Active(p) ==
  /\ sessions[p].stage \in {"intro", "ready", "body"}
  /\ Waiting(p) \/ link[p].state = "request"

WatchMixed ==
  LET active == {p \in Peer : Active(p)'} IN
  mixed' = mixed \cup
    {Named(p) : p \in {p \in active : \E q \in active \ {p} : Named(q) = Named(p)}}

TaskStep(p) ==
  \/ RecvServerIntro(p)
  \/ RecvFinishAck(p)
  \/ RecvStreamAck(p)
  \/ RecvDoneAck(p)
  \/ RecvError(p)
  \/ RequestFailed(p)

SenderStep(s) ==
  \/ StartAttempt(s)
  \/ AttemptFails(s)
  \/ \E p \in {s} \X (1..MaxAttempts) \X Route : TaskStep(p)

SwarmStep(p) ==
  \/ HandleIntro(p)
  \/ HandleFinish(p)
  \/ HandleHeader(p)
  \/ HandleChunk(p)
  \/ HandleChunkFails(p)
  \/ HandleDone(p)
  \/ HandleDoneFails(p)
  \/ WriteResponse(p)
  \/ \E which \in {"last", "old"} : ReturnTransfer(p, which) \/ ResponseSent(p, which)

FaultStep ==
  \/ \E s \in Sender : DiscoverNothing(s) \/ Quit(s)
  \/ \E p \in Peer : RequestTimeout(p) \/ HandleDoneUnpackError(p) \/ InboundFailure(p) \/ Break(p)
  \/ OtherPathReturns

Finished ==
  /\ \A s \in Sender : send[s].pc \in {"ok", "failed"}
  /\ UNCHANGED <<disk, send, task, link, path, sessions, owed, delivered, others, faults>>

Next ==
  /\ \/ \E s \in Sender : SenderStep(s)
     \/ \E p \in Peer : SwarmStep(p)
     \/ FaultStep
     \/ Finished
  /\ WatchMixed

\* The tasks of both processes are scheduled, and the swarm serves each of its
\* connections.
Fairness ==
  /\ \A s \in Sender : WF_vars(SenderStep(s) /\ WatchMixed)
  /\ \A p \in Peer : WF_vars(SwarmStep(p) /\ WatchMixed)

Spec == Init /\ [][Next]_vars /\ Fairness

-------------------------------------------------------------------------------
(* Properties. *)

Reported ==
  [s \in Sender |->
     CASE send[s].pc = "ok" -> "ok"
       [] send[s].pc = "failed" -> "failed"
       [] OTHER -> "sending"]

Promise == INSTANCE Delivery WITH status <- Reported, copies <- delivered

\* On a single route, whatever is lost, a named send reports success only after
\* its archive was unpacked and nothing is unpacked for it after that:
\* handle_inbound_request answers Done last.  (Two routes of one attempt can
\* break this: the slower one may open its session after the partial of the
\* faster is gone and before recv_libp2p returns.  So can an intro, a chunk and
\* a Done of three abandoned attempts, if all of them arrive in that order
\* between the Ack and the end of the round.)
ImplementsDelivery == Promise!Spec

\* On a single route an archive is unpacked again only for a reason: a fault,
\* or a round that ended with another transfer, of another sender or of an
\* attempt given up, before the Ack was out.  The pending result is what keeps
\* recv_libp2p from returning, and dropping its connections, before the
\* response to Done is sent.
CopiesHaveCauses ==
  \A s \in Sender : delivered[s] <= 1 + faults + others[s]

\* A send fails only for such a reason, or because two sessions wrote the same
\* part file: racing routes do no other harm to each other.
FailuresHaveCauses ==
  \A s \in Sender : send[s].pc = "failed" => faults + others[s] > 0 \/ mixed # {}

\* The errors of handle_inbound_request end the path for all peers.  They stay
\* out of reach unless two sessions receive the same archive at once: resumed,
\* repeated and dropped sessions alone never stop recv_libp2p.
PathSurvives == path = "running" \/ mixed # {}

\* Every named send comes to an end, also when the receiver's path has stopped.
SendersFinish == \A s \in Sender : <>(send[s].pc \in {"ok", "failed"})

\* What the documentation says of relay routes: they are a fallback, so that
\* one carries an archive only after the other routes of its attempt failed.
RelayIsFallback ==
  \A p, q \in Peer :
    /\ p[3] \in Relay /\ q[3] \notin Relay /\ p[1] = q[1] /\ p[2] = q[2]
    /\ sessions[p].stage = "body"
    => task[q].pc \in {"failed", "off"}

===============================================================================
