-------------------------------- MODULE Tunnel --------------------------------
(***************************************************************************)
(* A transfer over a public tunnel, a Tor onion service or I2P: a          *)
(* WebSocket that a helper process bridges to a listener on loopback       *)
(* (recv_ws_bound), and senders that are given its announced URL.          *)
(*                                                                         *)
(* The three routes share open_websocket_session, receive_ws_stream and    *)
(* complete_public_tunnel_transfer; they differ in the label that enters   *)
(* the transcript.  The bridge belongs to a third party: it may stall, cut *)
(* the connection, lose, repeat, swap or damage the frames it forwards,    *)
(* and put frames of its own between them.  OPAQUE, the key agreement, the *)
(* ratchet of ChunkAead and the sequence numbers, modelled symbolically,   *)
(* protect what is sealed.  Nothing protects the frames before the login   *)
(* and the receiver's answers: ClientIntro, ServerIntro, Ack and Error.    *)
(* The bridge may write those, and what the two ends do on its word is     *)
(* marked in the histories, so that each property says what it leaves.     *)
(***************************************************************************)
EXTENDS PartialStore, FiniteSets

CONSTANTS
  Sender,
  Ours,           \* the receiver's code, name, route label and version
  TermsChoices,   \* what the senders may have instead: functions to Terms
  ResourceOf,     \* the archive each sends
  MaxAttempts,    \* --retry-attempts
  Faults,         \* the kinds of fault that may happen
  MaxFaults       \* bound on their number

FaultKinds ==
  {"late", "cut", "stall", "lost", "copied", "swapped", "damaged", "control", "text",
   "altered", "exit"}

\* What both ends have to agree on.  Each is drawn from the code, the name the
\* sender was given, the label of the route it dialled and PROTOCOL_VERSION.
\* A route can differ: a helper left over from an earlier run still forwards
\* to its port, which another listener has now.
IsTerms(t) ==
  t = [code |-> t.code, name |-> t.name, route |-> t.route, version |-> t.version]

\* What the transcript says where a ClientIntro gives no name.
NoName == "direct-ip"

\* Somebody of that name would be taken for nobody.
ASSUME TunnelAssumption ==
  /\ IsTerms(Ours)
  /\ \A f \in TermsChoices, s \in Sender : f[s].name # NoName
  /\ \A f \in TermsChoices : DOMAIN f = Sender /\ \A s \in Sender : IsTerms(f[s])
  /\ ResourceOf \in [Sender -> Resource]
  /\ MaxAttempts \in Nat \ {0}
  /\ Faults \subseteq FaultKinds
  /\ MaxFaults \in Nat

VARIABLES
  helper,     \* the bridge's process, and whether its URL is announced
  disk,       \* the receiver's partial store
  snd,        \* Sender -> its retry loop and current attempt
  conn,       \* <<sender, attempt>> -> the bridged connection
  backlog,    \* connections the listener has not accepted yet
  rcv,        \* recv_ws_bound and receive_ws_stream
  delivered,  \* history: archives unpacked, per sender
  spoiled,    \* history: the partials with bytes of a misled session
  faults      \* history: faults so far

vars == <<helper, disk, snd, conn, backlog, rcv, delivered, spoiled, faults>>

Conn == Sender \X (1..MaxAttempts)

-------------------------------------------------------------------------------
(* Cryptography, symbolically. *)

\* Mutant of Transcript: the route label is left out.
TranscriptWithoutRoute(t) == [name |-> t.name, version |-> t.version]

\* direct_transcript_for_route.
Transcript(t) == [name |-> t.name, version |-> t.version, route |-> t.route]

\* OPAQUE's session key is common to both ends of one login and only if they
\* have the same code; the ephemeral keys are fresh in every connection.
SessionKey(c, t) == [session |-> c, code |-> t.code, transcript |-> Transcript(t)]

\* ChunkAead: the chain key after the sequence numbers in `steps`.  Each step
\* derives a message key and the next chain key from the number.
NewChain(key) == [root |-> key, steps |-> << >>]

DeriveNext(chain, sequence) == [chain EXCEPT !.steps = Append(@, sequence)]

\* encrypt_secure: the message key stands for the ciphertext it locks.
EncryptSecure(chain, sequence, body) ==
  [type |-> "secure", sequence |-> sequence, key |-> DeriveNext(chain, sequence),
   body |-> body, tag |-> "good"]

\* Mutant of Decrypts: any frame of this session opens.
DecryptsAnything(chain, expected, frame) == frame.key.root = chain.root

\* decrypt_secure: the number is the expected one and the tag verifies.  The
\* number is counted before the tag is checked, which nobody can see: after
\* an error the session is over.
Decrypts(chain, expected, frame) ==
  /\ frame.sequence = expected
  /\ frame.key = DeriveNext(chain, frame.sequence)
  /\ frame.tag = "good"

-------------------------------------------------------------------------------
(* State. *)

ControlFrame == {"ping", "pong"}

Signal(type) == [type |-> type, at |-> 0]

\* Whose word it is, which nobody can see.
Word == {"receiver", "bridge"}

\* A ServerIntro or an Ack.
Answer(type, at, by) == [type |-> type, at |-> at, by |-> by]

\* What a ClientIntro has to say, the archive for its descriptor.
Intro(name, version, resource) == [name |-> name, version |-> version, resource |-> resource]

ClientIntro(intro) == [type |-> "client_intro", intro |-> intro]

\* A secure frame before it is sealed, and on whose word its sender began.
Body(type, at, by) == [type |-> type, at |-> at, by |-> by]

\* "fooled" is what the code cannot tell from "ok": the Ack was the bridge's.
SenderState ==
  [terms : UNION {{f[s] : s \in Sender} : f \in TermsChoices},
   pc : {"idle", "dialing", "opening", "sending", "waiting",   \* in an attempt
         "ok", "fooled", "refused", "exhausted"},              \* after the loop
   tries : 0..MaxAttempts,
   pos : Nat,        \* bytes of the archive sent
   sequence : Nat,   \* secure frames sent
   by : Word]        \* whose offset the attempt began with

NoConn == [c2s |-> << >>, s2c |-> << >>, client |-> "closed", server |-> "closed",
           bridge |-> "up"]

\* The intros the receiver goes on with.
Accepted == [name : {Ours.name, NoName}, version : {Ours.version}, resource : Resource]

ReceiverState ==
  [pc : {"accept", "upgrade", "intro", "finish", "header", "body"},
   conn : Seq(Conn),
   intro : Seq(Accepted),
   offset : Nat,       \* ResumeState.offset
   expected : Nat]     \* expected_sequence

AtListener ==
  [pc |-> "accept", conn |-> << >>, intro |-> << >>, offset |-> 0, expected |-> 0]

TypeOK ==
  /\ helper \in {"starting", "up", "dead", "failed"}
  /\ disk \in [Resource -> Dir]
  /\ snd \in [Sender -> SenderState]
  /\ DOMAIN conn = Conn
  /\ backlog \in Seq(Conn)
  /\ rcv \in ReceiverState
  /\ delivered \in [Sender -> Nat]
  /\ spoiled \subseteq Resource
  /\ faults \in 0..MaxFaults

Init ==
  /\ helper = "starting"
  /\ disk = [r \in Resource |-> EmptyDir]
  /\ \E terms \in TermsChoices :
       snd = [s \in Sender |-> [terms |-> terms[s], pc |-> "idle", tries |-> 0,
                                pos |-> 0, sequence |-> 0, by |-> "receiver"]]
  /\ conn = [c \in Conn |-> NoConn]
  /\ backlog = << >>
  /\ rcv = AtListener
  /\ delivered = [s \in Sender |-> 0]
  /\ spoiled = {}
  /\ faults = 0

-------------------------------------------------------------------------------
(* The bridged connection. *)

Settle(k) == IF k.client = "closed" /\ k.server = "closed" THEN NoConn ELSE k

\* An end that drops its stream leaves what it wrote; through a stalled bridge
\* the other end does not hear of it.
CloseClient(k) == Settle([k EXCEPT !.client = "closed", !.s2c = << >>])

CloseServer(k) == Settle([k EXCEPT !.server = "closed", !.c2s = << >>])

ToServer(k, frames) ==
  IF k.server = "open" /\ k.bridge = "up" THEN [k EXCEPT !.c2s = @ \o frames] ELSE k

ToClient(k, frames) ==
  IF k.client = "open" /\ k.bridge = "up" THEN [k EXCEPT !.s2c = @ \o frames] ELSE k

\* What a read leaves: of the sender's frames, and of the receiver's.
Consumed(k) == [k EXCEPT !.c2s = Tail(@)]

Answered(k) == [k EXCEPT !.s2c = Tail(@)]

Arrived(queue, type) == queue # << >> /\ Head(queue).type = type

\* What ends ws_read_wire with an error: the connection is cut, the stream is
\* at its end, or a text frame arrives.
Failed(k, queue, other) ==
  \/ k.bridge = "cut"
  \/ k.bridge = "up" /\ ~other /\ queue = << >>
  \/ Arrived(queue, "text")

Fault(kind) ==
  /\ kind \in Faults
  /\ faults < MaxFaults
  /\ faults' = faults + 1

-------------------------------------------------------------------------------
(* The sender. *)

Attempt(s) == <<s, snd[s].tries>>

Link(s) == conn[Attempt(s)]

\* The sender's end of the session key.
ClientChain(s) == NewChain(SessionKey(Attempt(s), snd[s].terms))

\* The chain after the frames sent so far, numbered from 0.
Ratchet(chain, n) == [chain EXCEPT !.steps = [i \in 1..n |-> i - 1]]

Seal(s, body) == EncryptSecure(Ratchet(ClientChain(s), snd[s].sequence), snd[s].sequence, body)

Rest(state, pc) == [state EXCEPT !.pc = pc, !.pos = 0, !.sequence = 0, !.by = "receiver"]

\* named_send_with_retries around an attempt that failed.
After(s, fatal) ==
  Rest(snd[s], IF fatal THEN "refused"
               ELSE IF snd[s].tries = MaxAttempts THEN "exhausted" ELSE "idle")

EndAttempt(s, next) ==
  /\ snd' = [snd EXCEPT ![s] = next]
  /\ conn' = [conn EXCEPT ![Attempt(s)] = CloseClient(@)]

SenderLeavesRest == UNCHANGED <<helper, disk, backlog, rcv, delivered, spoiled>>

\* connect_async, client_async over SOCKS5 or a SAM stream: the WebSocket
\* upgrade is answered by the listener, through the bridge.
Dial(s) ==
  LET c == <<s, snd[s].tries + 1>> IN
  /\ snd[s].pc = "idle"
  /\ helper = "up"
  /\ snd' = [snd EXCEPT ![s].pc = "dialing", ![s].tries = @ + 1]
  /\ conn' = [conn EXCEPT ![c] = [c2s |-> <<Signal("upgrade")>>, s2c |-> << >>,
                                  client |-> "open", server |-> "open", bridge |-> "up"]]
  /\ backlog' = Append(backlog, c)
  /\ UNCHANGED <<helper, disk, rcv, delivered, spoiled, faults>>

\* No URL is known, or nothing answers at it.
DialFails(s) ==
  /\ snd[s].pc = "idle"
  /\ helper \in {"dead", "failed"}
  /\ snd' = [snd EXCEPT ![s].pc = IF snd[s].tries + 1 = MaxAttempts THEN "exhausted" ELSE "idle",
                        ![s].tries = @ + 1]
  /\ UNCHANGED <<conn, faults>>
  /\ SenderLeavesRest

\* The socket is open: ClientIntro.
Upgraded(s) ==
  /\ snd[s].pc = "dialing"
  /\ Arrived(Link(s).s2c, "upgraded")
  /\ snd' = [snd EXCEPT ![s].pc = "opening"]
  /\ conn' = [conn EXCEPT ![Attempt(s)] =
       ToServer(Answered(@),
                <<ClientIntro(Intro(snd[s].terms.name, snd[s].terms.version, ResourceOf[s]))>>)]
  /\ UNCHANGED faults
  /\ SenderLeavesRest

\* The offset is taken as it comes; the login finishes: ClientFinish and the
\* secure Header.
RecvServerIntro(s) ==
  LET intro == Head(Link(s).s2c) IN
  /\ snd[s].pc = "opening"
  /\ Arrived(Link(s).s2c, "server_intro")
  /\ snd[s].terms.code = Ours.code
  /\ intro.at <= Size[ResourceOf[s]]
  /\ snd' = [snd EXCEPT ![s].pc = "sending", ![s].pos = intro.at, ![s].sequence = 1,
                        ![s].by = intro.by]
  /\ conn' = [conn EXCEPT ![Attempt(s)] =
       ToServer(Answered(@),
                <<Signal("client_finish"), Seal(s, Body("header", 0, intro.by))>>)]
  /\ UNCHANGED faults
  /\ SenderLeavesRest

\* OpaqueClientStart::finish fails; whether is_fatal_error recognises it
\* depends on its wording.
LoginFails(s) ==
  /\ snd[s].pc = "opening"
  /\ Arrived(Link(s).s2c, "server_intro")
  /\ Head(Link(s).s2c).at <= Size[ResourceOf[s]]
  /\ snd[s].terms.code # Ours.code
  /\ \E fatal \in BOOLEAN : EndAttempt(s, After(s, fatal))
  /\ UNCHANGED faults
  /\ SenderLeavesRest

\* An offset beyond the archive.  The fatal kind of the error is lost on the
\* way up, and its text means nothing to is_fatal_error.
RefuseOffset(s) ==
  /\ snd[s].pc = "opening"
  /\ Arrived(Link(s).s2c, "server_intro")
  /\ Head(Link(s).s2c).at > Size[ResourceOf[s]]
  /\ EndAttempt(s, After(s, FALSE))
  /\ UNCHANGED faults
  /\ SenderLeavesRest

\* The Error frame for another version keeps its text on the way up.
RecvVersionError(s) ==
  /\ snd[s].pc \in {"opening", "waiting"}
  /\ Arrived(Link(s).s2c, "version_error")
  /\ EndAttempt(s, After(s, TRUE))
  /\ UNCHANGED faults
  /\ SenderLeavesRest

\* One read of the archive, one byte here; at its end Done.
SendSecure(s) ==
  LET whole == snd[s].pos = Size[ResourceOf[s]] IN
  /\ snd[s].pc = "sending"
  /\ snd' = [snd EXCEPT ![s].pc = IF whole THEN "waiting" ELSE "sending",
                        ![s].pos = IF whole THEN @ ELSE @ + 1,
                        ![s].sequence = @ + 1]
  /\ conn' = [conn EXCEPT ![Attempt(s)] =
       ToServer(@, <<Seal(s, IF whole THEN Body("done", 0, snd[s].by)
                             ELSE Body("chunk", snd[s].pos, snd[s].by))>>)]
  /\ UNCHANGED faults
  /\ SenderLeavesRest

\* Mutant of RecvAck: the sender is done once Done is written.
SucceedUnanswered(s) ==
  /\ snd[s].pc = "waiting"
  /\ EndAttempt(s, Rest(snd[s], "ok"))
  /\ UNCHANGED faults
  /\ SenderLeavesRest

\* Closing the socket afterwards may fail; that is ignored.
RecvAck(s) ==
  /\ snd[s].pc = "waiting"
  /\ Arrived(Link(s).s2c, "ack")
  /\ EndAttempt(s, Rest(snd[s], IF Head(Link(s).s2c).by = "receiver" THEN "ok" ELSE "fooled"))
  /\ UNCHANGED faults
  /\ SenderLeavesRest

\* TransferError::Fatal, flattened to text by named_send_attempt: that of the
\* receiver's error, or of an Error the bridge made.
RecvUnpackError(s) ==
  /\ snd[s].pc \in {"opening", "waiting"}
  /\ Arrived(Link(s).s2c, "unpack_error")
  /\ \E fatal \in BOOLEAN : EndAttempt(s, After(s, fatal))
  /\ UNCHANGED faults
  /\ SenderLeavesRest

\* An Ack for the intro, an intro for the archive.
UnexpectedFrame(s) ==
  /\ \/ snd[s].pc = "opening" /\ Arrived(Link(s).s2c, "ack")
     \/ snd[s].pc = "waiting" /\ Arrived(Link(s).s2c, "server_intro")
  /\ EndAttempt(s, After(s, FALSE))
  /\ UNCHANGED faults
  /\ SenderLeavesRest

SenderError(s) ==
  /\ snd[s].pc \in {"dialing", "opening", "sending", "waiting"}
  /\ Failed(Link(s), Link(s).s2c, Link(s).server = "open")
  /\ EndAttempt(s, After(s, FALSE))
  /\ UNCHANGED faults
  /\ SenderLeavesRest

\* The session cannot open: its bridge is stalled, or the listener serves a
\* peer that, as far as it can tell, has not hung up.
Blocked(c) ==
  \/ conn[c].bridge = "stalled"
  \/ /\ \E i \in 1..Len(backlog) : backlog[i] = c
     /\ rcv.conn # << >>
     /\ conn[rcv.conn[1]].client = "open" \/ conn[rcv.conn[1]].bridge = "stalled"

\* Mutant of OpenTimeout: when it fires during the handshake, the wait starts
\* again.
DialTimeout(s) ==
  /\ snd[s].pc \in {"dialing", "opening"}
  /\ Blocked(Attempt(s))
  /\ IF snd[s].pc = "dialing" THEN EndAttempt(s, After(s, FALSE)) ELSE UNCHANGED <<snd, conn>>
  /\ UNCHANGED faults
  /\ SenderLeavesRest

\* PUBLIC_TUNNEL_SESSION_OPEN_TIMEOUT and I2P_SESSION_OPEN_TIMEOUT, over the
\* dial and the two intro frames.
OpenTimeout(s) ==
  /\ snd[s].pc \in {"dialing", "opening"}
  /\ Blocked(Attempt(s))
  /\ EndAttempt(s, After(s, FALSE))
  /\ UNCHANGED faults
  /\ SenderLeavesRest

LateAnswer(s) ==
  /\ snd[s].pc \in {"dialing", "opening"}
  /\ ~Blocked(Attempt(s))
  /\ Fault("late")
  /\ EndAttempt(s, After(s, FALSE))
  /\ SenderLeavesRest

-------------------------------------------------------------------------------
(* The receiver. *)

Served == rcv.conn[1]

Peer == Served[1]

\* The partial the intro named.
Named == rcv.intro[1].resource

Reading(pc, type) == rcv.pc = pc /\ Arrived(conn[Served].c2s, type)

\* receive_ws_stream returns, well or not: the next connection, please.
Hangup(replies) ==
  /\ rcv' = AtListener
  /\ conn' = [conn EXCEPT ![Served] = CloseServer(ToClient(@, replies))]

ReceiverLeavesRest == UNCHANGED <<helper, snd, faults>>

Accept ==
  /\ rcv.pc = "accept"
  /\ backlog # << >>
  /\ rcv' = [AtListener EXCEPT !.pc = "upgrade", !.conn = <<Head(backlog)>>]
  /\ backlog' = Tail(backlog)
  /\ UNCHANGED <<disk, conn, delivered, spoiled>>
  /\ ReceiverLeavesRest

\* accept_hdr_async.
Upgrade ==
  /\ Reading("upgrade", "upgrade")
  /\ rcv' = [rcv EXCEPT !.pc = "intro"]
  /\ conn' = [conn EXCEPT ![Served] = ToClient(Consumed(@), <<Signal("upgraded")>>)]
  /\ UNCHANGED <<disk, backlog, delivered, spoiled>>
  /\ ReceiverLeavesRest

\* Another version is told so, another name is not.
RejectIntro ==
  LET intro == Head(conn[Served].c2s).intro IN
  /\ Reading("intro", "client_intro")
  /\ \/ intro.version # Ours.version /\ Hangup(<<Signal("version_error")>>)
     \/ /\ intro.version = Ours.version
        /\ intro.name \notin {Ours.name, NoName}
        /\ Hangup(<< >>)
  /\ UNCHANGED <<disk, backlog, delivered, spoiled>>
  /\ ReceiverLeavesRest

RecvClientIntro ==
  LET intro == Head(conn[Served].c2s).intro
      resource == intro.resource
      offset == ResumeOffset(CleanupExpired(disk, 0)[resource], resource)
  IN  /\ Reading("intro", "client_intro")
      /\ intro.version = Ours.version
      /\ intro.name \in {Ours.name, NoName}
      /\ disk' = ResumeState(disk, resource, 0)
      /\ spoiled' = {r \in spoiled : disk'[r].part # << >>}
      /\ rcv' = [rcv EXCEPT !.pc = "finish", !.intro = <<intro>>, !.offset = offset]
      /\ conn' = [conn EXCEPT ![Served] =
           ToClient(Consumed(@), <<Answer("server_intro", offset, "receiver")>>)]
      /\ UNCHANGED <<backlog, delivered>>
      /\ ReceiverLeavesRest

RecvClientFinish ==
  /\ Reading("finish", "client_finish")
  /\ rcv' = [rcv EXCEPT !.pc = "header"]
  /\ conn' = [conn EXCEPT ![Served] = Consumed(@)]
  /\ UNCHANGED <<disk, backlog, delivered, spoiled>>
  /\ ReceiverLeavesRest

\* The receiver's end of the session key, ratcheted past what was accepted.
\* The name is the intro's.
ServerTerms == [Ours EXCEPT !.name = rcv.intro[1].name]

ServerChain == Ratchet(NewChain(SessionKey(Served, ServerTerms)), rcv.expected)

\* ws_read_secure returns this frame's body.
Opens(pc, type) ==
  LET frame == Head(conn[Served].c2s) IN
  /\ Reading(pc, "secure")
  /\ Decrypts(ServerChain, rcv.expected, frame)
  /\ frame.body.type = type

RecvHeader ==
  /\ Opens("header", "header")
  /\ rcv' = [rcv EXCEPT !.pc = "body", !.expected = @ + 1]
  /\ conn' = [conn EXCEPT ![Served] = Consumed(@)]
  /\ UNCHANGED <<disk, backlog, delivered, spoiled>>
  /\ ReceiverLeavesRest

\* The session is about the archive its sender has.
Straight == Named = ResourceOf[Peer]

\* A damaged chunk that were accepted would not hold the archive's byte, and
\* no byte of one archive is one of another.
Payload(frame) ==
  IF frame.tag = "good" /\ Straight THEN Bytes(frame.body.at, 1) ELSE <<0>>

\* A chunk that was sent, or is appended, on the bridge's word.
Spoils(frame) == frame.body.by = "bridge" \/ ~Straight

\* append_chunk writes first and then compares the size: a chunk too many is in
\* the file and not in its metadata.
RecvChunk ==
  LET frame == Head(conn[Served].c2s)
      offset == rcv.offset + 1
  IN  /\ Opens("body", "chunk")
      /\ CanAppend(disk[Named])
      /\ spoiled' = IF Spoils(frame) THEN spoiled \cup {Named} ELSE spoiled
      /\ \/ /\ offset <= Size[Named]
            /\ disk' = [disk EXCEPT ![Named] = AppendChunk(@, Payload(frame), offset, 0)]
            /\ rcv' = [rcv EXCEPT !.offset = offset, !.expected = @ + 1]
            /\ conn' = [conn EXCEPT ![Served] = Consumed(@)]
         \/ /\ offset > Size[Named]
            /\ disk' = [disk EXCEPT ![Named] = AppendPart(@, Payload(frame))]
            /\ Hangup(<< >>)
      /\ UNCHANGED <<backlog, delivered>>
      /\ ReceiverLeavesRest

\* Verify, unpack, remove the partial, answer.  If the bridge had put another
\* descriptor into the intro, it is another archive that was unpacked.
RecvDone ==
  LET verdict == CompletePartial(disk[Named], Named)
      ack == Answer("ack", 0, IF Straight THEN "receiver" ELSE "bridge")
  IN  /\ Opens("body", "done")
      /\ \E unpacked \in BOOLEAN :
           /\ delivered' = [delivered EXCEPT ![Peer] =
                @ + IF unpacked /\ verdict = "whole" /\ Straight THEN 1 ELSE 0]
           /\ Hangup(IF verdict # "whole" THEN << >>
                     ELSE IF unpacked THEN <<ack>> ELSE <<Signal("unpack_error")>>)
      /\ disk' = IF verdict = "missing" THEN disk ELSE [disk EXCEPT ![Named] = RemovePartial(@)]
      /\ spoiled' = {r \in spoiled : disk'[r].part # << >>}
      /\ UNCHANGED backlog
      /\ ReceiverLeavesRest

\* The frames each state of receive_ws_stream does not turn away.  After the
\* header a frame that opens is one of three, of which a second header is not
\* welcome.
Welcome ==
  \/ Reading("upgrade", "upgrade")
  \/ Reading("intro", "client_intro")
  \/ Reading("finish", "client_finish")
  \/ Opens("header", "header")
  \/ Opens("body", "chunk")
  \/ Opens("body", "done")

\* An error of the stream, a frame out of turn, or one that does not open.
ReceiverError ==
  /\ rcv.conn # << >>
  /\ \/ Failed(conn[Served], conn[Served].c2s, conn[Served].client = "open")
     \/ /\ conn[Served].c2s # << >>
        /\ Head(conn[Served].c2s).type \notin ControlFrame
        /\ ~Welcome
  /\ Hangup(<< >>)
  /\ UNCHANGED <<disk, backlog, delivered, spoiled>>
  /\ ReceiverLeavesRest

-------------------------------------------------------------------------------
(* WebSocket control frames, in the read loop of either end. *)

ServerControl ==
  /\ rcv.conn # << >>
  /\ rcv.pc # "upgrade"
  /\ \/ /\ Arrived(conn[Served].c2s, "ping")
        /\ conn' = [conn EXCEPT ![Served] = ToClient(Consumed(@), <<Signal("pong")>>)]
     \/ /\ Arrived(conn[Served].c2s, "pong")
        /\ conn' = [conn EXCEPT ![Served] = Consumed(@)]
  /\ UNCHANGED <<disk, backlog, delivered, spoiled, rcv>>
  /\ ReceiverLeavesRest

\* The sender reads only while it waits for an answer.
ClientControl(s) ==
  /\ snd[s].pc \in {"opening", "waiting"}
  /\ \/ /\ Arrived(Link(s).s2c, "ping")
        /\ conn' = [conn EXCEPT ![Attempt(s)] =
             ToServer(Answered(@), <<Signal("pong")>>)]
     \/ /\ Arrived(Link(s).s2c, "pong")
        /\ conn' = [conn EXCEPT ![Attempt(s)] = Answered(@)]
  /\ UNCHANGED <<snd, faults>>
  /\ SenderLeavesRest

-------------------------------------------------------------------------------
(* The helper process: start_public_tunnel, start_tor_onion, start_i2p. *)

Cut(k) ==
  IF k.client = "open" /\ k.server = "open"
  THEN [k EXCEPT !.bridge = "cut", !.c2s = << >>, !.s2c = << >>] ELSE k

\* It reports its URL, or ends or takes too long.  A URL reported before the
\* process ended is announced all the same.
HelperStarts ==
  /\ helper = "starting"
  /\ \/ helper' = "up" /\ UNCHANGED faults
     \/ helper' \in {"dead", "failed"} /\ Fault("exit")
  /\ UNCHANGED <<disk, snd, conn, backlog, rcv, delivered, spoiled>>

\* Nobody watches it afterwards: the URL stays announced.
HelperDies ==
  /\ helper = "up"
  /\ Fault("exit")
  /\ helper' = "dead"
  /\ conn' = [c \in Conn |-> Cut(conn[c])]
  /\ UNCHANGED <<disk, snd, backlog, rcv, delivered, spoiled>>

-------------------------------------------------------------------------------
(* The bridge. *)

Swap(queue, i) == [queue EXCEPT ![i] = queue[i + 1], ![i + 1] = queue[i]]

Without(queue, i) == SubSeq(queue, 1, i - 1) \o SubSeq(queue, i + 1, Len(queue))

Twice(queue, i) == SubSeq(queue, 1, i) \o SubSeq(queue, i, Len(queue))

\* Frames that a frame of the sender follows: to lose the last is to stall.
Losable(queue) ==
  {i \in 1..Len(queue) : \E j \in i + 1..Len(queue) : queue[j].type \notin ControlFrame}

\* The intros the bridge may make of one.  With another version or name it
\* only brings about what an Error or a text frame does.  Other numbers in the
\* descriptor of the same archive are left out: they make the receiver remove
\* the partial or turn chunks away, as those of any peer may.
Rewritten(intro) ==
  {Intro(name, version, resource) : name \in {intro.name, Ours.name, NoName},
                                    version \in {intro.version, Ours.version},
                                    resource \in Resource}

\* What the bridge may do to the frames it holds for the receiver.  Material of
\* the login that it changes makes the login fail, as a text frame does, or the
\* keys differ, as if the header were damaged.
Tampered(kind, queue) ==
  CASE kind = "lost"    -> {Without(queue, i) : i \in Losable(queue)}
    [] kind = "copied"  -> {Twice(queue, i) : i \in 1..Len(queue)}
    [] kind = "swapped" -> {Swap(queue, i) : i \in 1..Len(queue) - 1}
    [] kind = "damaged" -> {[queue EXCEPT ![i].tag = "bad"] :
                              i \in {j \in 1..Len(queue) : queue[j].type = "secure"}}
    [] kind = "control" -> {queue \o <<Signal("ping")>>}
    [] kind = "text"    -> {queue \o <<Signal("text")>>}
    [] kind = "altered" -> UNION {{[queue EXCEPT ![i].intro = intro] :
                                     intro \in Rewritten(queue[i].intro)} :
                                    i \in {j \in 1..Len(queue) : queue[j].type = "client_intro"}}

Tamper(c, kind) ==
  /\ rcv.conn = <<c>> /\ rcv.pc # "upgrade" /\ conn[c].bridge = "up"
  /\ Fault(kind)
  /\ \E queue \in Tampered(kind, conn[c].c2s) : conn' = [conn EXCEPT ![c].c2s = queue]
  /\ UNCHANGED <<helper, disk, snd, backlog, rcv, delivered, spoiled>>

\* Answers the bridge makes up for a sender: an intro with any offset, an Ack,
\* an Error with any text.  (An intro with another version or with changed
\* material of the login ends the attempt as an Error does.)
MadeUp(s) ==
  {Answer("server_intro", at, "bridge") : at \in 0..Size[ResourceOf[s]] + 1}
    \cup {Answer("ack", 0, "bridge"), Signal("unpack_error")}

\* It puts a ping, a text frame or such an answer behind the frames it holds
\* for the sender, or an answer in the place of one.
Interjected(s, kind, queue) ==
  CASE kind = "control" -> {queue \o <<Signal("ping")>>}
    [] kind = "text"    -> {queue \o <<Signal("text")>>}
    [] kind = "altered" -> UNION {{queue \o <<frame>>}
                                    \cup {[queue EXCEPT ![i] = frame] : i \in 1..Len(queue)} :
                                  frame \in MadeUp(s)}

Interject(c, kind) ==
  /\ conn[c].client = "open" /\ conn[c].bridge = "up"
  /\ snd[c[1]].pc \in {"opening", "sending", "waiting"}
  /\ Fault(kind)
  /\ \E queue \in Interjected(c[1], kind, conn[c].s2c) : conn' = [conn EXCEPT ![c].s2c = queue]
  /\ UNCHANGED <<helper, disk, snd, backlog, rcv, delivered, spoiled>>

\* The bridge drops the connection, or keeps both ends and forwards nothing.
Break(c) ==
  /\ conn[c].client = "open" /\ conn[c].server = "open" /\ conn[c].bridge = "up"
  /\ \/ Fault("cut") /\ conn' = [conn EXCEPT ![c] = Cut(@)]
     \/ /\ Fault("stall")
        /\ conn' = [conn EXCEPT ![c].bridge = "stalled", ![c].c2s = << >>, ![c].s2c = << >>]
  /\ UNCHANGED <<helper, disk, snd, backlog, rcv, delivered, spoiled>>

-------------------------------------------------------------------------------

SenderStep(s) ==
  \/ Dial(s)
  \/ DialFails(s)
  \/ Upgraded(s)
  \/ RecvServerIntro(s)
  \/ LoginFails(s)
  \/ RefuseOffset(s)
  \/ RecvVersionError(s)
  \/ SendSecure(s)
  \/ RecvAck(s)
  \/ RecvUnpackError(s)
  \/ UnexpectedFrame(s)
  \/ SenderError(s)
  \/ OpenTimeout(s)
  \/ ClientControl(s)

ReceiverStep ==
  \/ Accept
  \/ Upgrade
  \/ RejectIntro
  \/ RecvClientIntro
  \/ RecvClientFinish
  \/ RecvHeader
  \/ RecvChunk
  \/ RecvDone
  \/ ReceiverError
  \/ ServerControl

TamperKinds == {"lost", "copied", "swapped", "damaged", "control", "text", "altered"}

BridgeStep ==
  \/ HelperDies
  \/ \E c \in Conn :
       \/ Break(c)
       \/ \E kind \in TamperKinds : Tamper(c, kind)
       \/ \E kind \in {"control", "text", "altered"} : Interject(c, kind)

Over(s) == snd[s].pc \in {"ok", "fooled", "refused", "exhausted"}

\* No timeout runs once the session is open: through a stalled bridge both
\* ends wait.
Hangs(s) == snd[s].pc \in {"sending", "waiting"} /\ Link(s).bridge = "stalled"

Finished ==
  /\ \A s \in Sender : Over(s) \/ Hangs(s)
  /\ UNCHANGED vars

Next ==
  \/ \E s \in Sender : SenderStep(s) \/ LateAnswer(s)
  \/ ReceiverStep
  \/ HelperStarts
  \/ BridgeStep
  \/ Finished

\* Both processes are scheduled, their timers fire, and the helper's start is
\* bounded by a deadline.  No fault has to happen.
Fairness ==
  /\ WF_vars(ReceiverStep)
  /\ WF_vars(HelperStarts)
  /\ \A s \in Sender : WF_vars(SenderStep(s))

Spec == Init /\ [][Next]_vars /\ Fairness

-------------------------------------------------------------------------------
(* Properties. *)

\* Success on the bridge's word promises as little as a failure.
Reported ==
  [s \in Sender |->
     CASE snd[s].pc = "ok" -> "ok"
       [] snd[s].pc \in {"fooled", "refused", "exhausted"} -> "failed"
       [] OTHER -> "sending"]

Promise == INSTANCE Delivery WITH status <- Reported, copies <- delivered

\* Whatever the bridge does to the sealed frames, a send whose Ack is the
\* receiver's answer to its intro reports success only after the receiver
\* unpacked its archive, and nothing more is unpacked for it afterwards.  An
\* Ack is not protected: one the bridge makes, or brings about with another
\* intro, is believed too (complete_public_tunnel_transfer).
ImplementsDelivery == Promise!Spec

\* Whatever the bridge loses, repeats, swaps or damages, the bytes that reach
\* the part file are the archive's, in place, over all the sessions that
\* resumed it: sequence numbers, ratchet and tag let nothing else through, so
\* that no retry ever resumes after a wrong byte.  A partial is spoiled only by
\* a session in which the bridge wrote the offset or the descriptor, until it
\* is removed (ServerIntro.resume_offset is not part of the transcript).
PartIsArchive == \A r \in Resource \ spoiled : IsIntact(disk[r].part, r)

\* The receiver takes archive bytes only from a sender that has its code and
\* meant its name, its route and its version, whatever intro the bridge made of
\* the sender's: the intro's checks, OPAQUE and the transcript in the session
\* key together leave no other.
OnlyAgreedPeers == rcv.pc = "body" => snd[Peer].terms = Ours

\* A send comes to its end, whatever the bridge does short of keeping an open
\* session and forwarding nothing; a bridge that stalls earlier, or for
\* another sender, is bounded by the timeout of the open.
SendEndsUnlessStalled == \A s \in Sender : <>(Over(s) \/ Hangs(s))

===============================================================================
