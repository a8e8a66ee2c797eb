------------------------------- MODULE Presence -------------------------------
(***************************************************************************)
(* How a receiver makes itself known and a sender finds it: the rounds of  *)
(* recv_libp2p, each with its port mapping (PortMapping) and its pkarr     *)
(* publisher, and one discover_peer_descriptors (Discovery).               *)
(*                                                                         *)
(* The receiver hands every descriptor to three places: to pkarr, which    *)
(* keeps one packet per name and code, the one signed last; to Kademlia,   *)
(* whose nodes may still have older records; and to the HTTP service       *)
(* (Rendezvous), whose answers may lag.  Its libp2p addresses also go to a *)
(* libp2p rendezvous point, if there is one.                               *)
(***************************************************************************)
EXTENDS PortMapping, Discovery

CONSTANT Scenes   \* settings to look at, see IsScene

AreRoutes(endpoints) == IsFiniteSet(endpoints) /\ \A e \in endpoints : e.kind \in Kind

\* mapping: port_mapping_enabled; rounds: bound on the rounds; addresses: the
\* libp2p endpoints a swarm may have, in turn; other: tunnel, Tor and I2P
\* endpoints; looks: does a sender look; near: is it in the receiver's network;
\* behind: by how much its clock is behind; enabled: the routes it allows;
\* points: libp2p rendezvous peers are configured; maxTime, maxTroubles,
\* maxQueue: bounds on the clock, on what goes wrong with router and publisher,
\* and on the publisher's queue (which is unbounded).
IsScene(s) ==
  /\ {s.mapping, s.looks, s.near, s.points} \subseteq BOOLEAN
  /\ s.rounds \in Round
  /\ 1 \in DOMAIN s.addresses /\ DOMAIN s.addresses \subseteq Nat
  /\ AreRoutes(s.other) /\ \A i \in DOMAIN s.addresses : AreRoutes(s.addresses[i])
  /\ s.enabled \subseteq Kind
  /\ {s.behind, s.maxTime, s.maxTroubles} \subseteq Nat /\ s.maxQueue \in Nat \ {0}

ASSUME PresenceAssumption == \A s \in Scenes : IsScene(s)

VARIABLES
  scene,
  now,       \* now_unix_ms at the receiver
  recv,      \* recv_libp2p of the round
  worker,    \* its PublishWorker
  pkarr,     \* the packet the mainline DHT has
  records,   \* descriptors Kademlia and the HTTP service may return
  point,     \* the registration at the libp2p rendezvous point
  look,      \* discover_peer_descriptors
  settled,   \* history: the receiver has not changed since the look began,
             \* when all of it was announced
  troubles   \* history: troubles so far

vars == <<mappingVars, scene, now, recv, worker, pkarr, records, point, look, settled, troubles>>

receiver == <<mappingVars, recv, worker, pkarr, records, point, troubles>>

-------------------------------------------------------------------------------
(* State. *)

Lan == [kind |-> "lan", at |-> 0]

PublicDirect(endpoints) == {[kind |-> "public", at |-> e] : e \in endpoints}

\* publish_receiver_descriptor: the endpoints of the round.
RoutesOf(rcv) ==
  {Lan} \cup PublicDirect(rcv.mapped) \cup scene.addresses[rcv.addrs] \cup scene.other

Routes == RoutesOf(recv)

\* make_peer_descriptor, with the version of its content and who dated it: the
\* receiver, pkarr, or the sender for a rendezvous point.
Descriptor(src, rcv, routes, version) ==
  [peer |-> rcv.round, routes |-> routes, stamp |-> now, version |-> version, src |-> src]

\* last: last_payload, {} for none; flight: the packet being published.
NewWorker == [queue |-> << >>, last |-> {}, flight |-> {}]

\* pkarr, http: pkarr_done and rendezvous_done; grace: fallback_grace_elapsed.
\* History: the receiver's own descriptors it got, whether it got the packet and
\* whether it got a registration of a rendezvous point.
NoLook ==
  [pc |-> "off", snap |-> EmptySnapshot, pkarr |-> FALSE, http |-> FALSE, grace |-> FALSE,
   got |-> {}, found |-> FALSE, registered |-> FALSE]

TypeOK ==
  /\ MappingTypeOK
  /\ scene \in Scenes
  /\ now \in 0..scene.maxTime
  /\ recv.up \in BOOLEAN /\ recv.round \in 0..MaxRounds /\ recv.mapped \subseteq Endpoint
  /\ recv.addrs \in DOMAIN scene.addresses /\ recv.version \in Nat
  /\ Len(worker.queue) <= scene.maxQueue /\ Cardinality(worker.flight) <= 1
  /\ Cardinality(pkarr) <= 1 /\ Cardinality(point) <= 1
  /\ look.pc \in {"off", "gathering", "done"}
  /\ {look.pkarr, look.http, look.grace, look.found, look.registered} \subseteq BOOLEAN
  /\ settled \in BOOLEAN
  /\ troubles \in 0..scene.maxTroubles

Init ==
  /\ MappingInit
  /\ scene \in Scenes
  /\ now = 0
  /\ recv = [up |-> FALSE, round |-> 0, mapped |-> {}, addrs |-> 1, version |-> 0]
  /\ worker = NewWorker
  /\ pkarr = {} /\ records = {} /\ point = {}
  /\ look = NoLook
  /\ settled = FALSE
  /\ troubles = 0

Misfortune ==
  /\ troubles < scene.maxTroubles
  /\ troubles' = troubles + 1

-------------------------------------------------------------------------------
(* The receiver. *)

\* republish_receiver_descriptor: put_record and update_descriptor, which are
\* left out when nobody looks, and a request to the publisher w.
Announce(w, next, force) ==
  LET routes == RoutesOf(next) IN
  /\ Len(w.queue) < scene.maxQueue
  /\ recv' = next
  /\ worker' = [w EXCEPT !.queue =
       Append(@, [routes |-> routes, version |-> next.version, force |-> force])]
  /\ records' = records \cup
       {d \in {Descriptor("receiver", next, routes, next.version)} : scene.looks}

\* The version counts the changes, when somebody looks.
Versioned(next) ==
  [next EXCEPT !.version = IF RoutesOf(next) = Routes \/ ~scene.looks THEN @ ELSE @ + 1]

\* Mutant of RoundState: the endpoints of the last round are kept.
RoundStateKept ==
  [recv EXCEPT !.up = TRUE, !.round = @ + 1, !.addrs = 1]

\* A round starts without a mapped endpoint and with a new identity.
RoundState ==
  [recv EXCEPT !.up = TRUE, !.round = @ + 1, !.mapped = {}, !.addrs = 1]

StartRound ==
  /\ ~recv.up
  /\ Announce(NewWorker, RoundState, TRUE)
  /\ open' = {RoundState.round}
  /\ task' = IF scene.mapping THEN Spawned(RoundState.round) ELSE task
  /\ UNCHANGED <<router, hurt, taken, now, pkarr, point, look, troubles>>

\* The DHT keeps what was signed last.
Store(packet) ==
  IF \E p \in pkarr : p.stamp > packet.stamp THEN pkarr ELSE {packet}

\* The round ends with a transfer, here or on another path: the publisher is
\* aborted in whatever it does, and the libp2p registration is taken back only
\* by recv_libp2p itself.
EndRound ==
  /\ recv.up /\ recv.round < scene.rounds
  /\ recv' = [recv EXCEPT !.up = FALSE]
  /\ open' = {}
  /\ pkarr' \in {pkarr} \cup {Store(p) : p \in worker.flight}
  /\ worker' = NewWorker
  /\ point' \in {{}, point}
  /\ UNCHANGED <<router, task, hurt, taken, now, records, look, troubles>>

\* Mutant of IntervalForce: the interval only publishes what has changed.
NoForce == FALSE

IntervalForce == TRUE

\* descriptor_interval.
Interval ==
  /\ recv.up
  /\ Announce(worker, recv, IntervalForce)
  /\ UNCHANGED <<mappingVars, now, pkarr, point, look, troubles>>

\* wait_for_direct_mapping_change.
MappingChange ==
  LET r == recv.round IN
  /\ recv.up /\ task[r].unseen
  /\ Announce(worker, Versioned([recv EXCEPT !.mapped = task[r].value]), FALSE)
  /\ task' = [task EXCEPT ![r].unseen = FALSE]
  /\ UNCHANGED <<open, router, hurt, taken, now, pkarr, point, look, troubles>>

\* register_receiver_libp2p_rendezvous.
Registered(next) ==
  IF scene.points /\ scene.addresses[next.addrs] # {}
  THEN {Descriptor("point", next, scene.addresses[next.addrs], next.version)} ELSE point

\* An event of the swarm, with or without another address.  Those about
\* addresses and connections also renew the registration.
SwarmEvent ==
  /\ recv.up
  /\ \E a \in {recv.addrs, recv.addrs + 1} \cap DOMAIN scene.addresses :
       LET next == Versioned([recv EXCEPT !.addrs = a]) IN
       /\ Announce(worker, next, FALSE)
       /\ point' \in {point, Registered(next)}
  /\ UNCHANGED <<mappingVars, now, pkarr, look, troubles>>

\* The connection to the rendezvous point is there.
PointConnected ==
  /\ recv.up
  /\ point' = Registered(recv)
  /\ UNCHANGED <<mappingVars, recv, worker, now, pkarr, records, look, troubles>>

-------------------------------------------------------------------------------
(* PublishWorker. *)

Request == Head(worker.queue)

Ready == worker.queue # << >> /\ worker.flight = {}

\* The payload is the one published last.
Unchanged == ~Request.force /\ Packed(Request.routes) = worker.last

PublishSkip ==
  /\ Ready /\ Unchanged
  /\ worker' = [worker EXCEPT !.queue = Tail(@)]
  /\ UNCHANGED <<mappingVars, recv, now, pkarr, records, point, look, troubles>>

\* publish_descriptor: the packet is dated when it is signed.
PublishStart ==
  /\ Ready /\ ~Unchanged
  /\ worker' = [worker EXCEPT
       !.queue = Tail(@),
       !.flight = {Descriptor("pkarr", recv, Packed(Request.routes), Request.version)}]
  /\ UNCHANGED <<mappingVars, recv, now, pkarr, records, point, look, troubles>>

PublishOk ==
  /\ \E p \in worker.flight :
       /\ pkarr' = Store(p)
       /\ worker' = [worker EXCEPT !.last = p.routes, !.flight = {}]
  /\ UNCHANGED <<mappingVars, recv, now, records, point, look, troubles>>

\* It fails, whether or not the packet has reached the DHT.
PublishFails ==
  /\ Misfortune
  /\ \E p \in worker.flight : pkarr' \in {pkarr, Store(p)}
  /\ worker' = [worker EXCEPT !.flight = {}]
  /\ UNCHANGED <<mappingVars, recv, now, records, point, look>>

-------------------------------------------------------------------------------
(* The sender. *)

\* The sender's clock.
Clock == IF now > scene.behind THEN now - scene.behind ELSE 0

Gathering == look.pc = "gathering"

Usable(snap) == Candidates(snap, scene.enabled, scene.near)

\* The branches of the select loop that look whether to stop.
StopOrGoOn(l) ==
  [l EXCEPT !.pc =
     IF /\ ~KeepDiscovering(Usable(l.snap), l.grace)
        /\ GoodEnough(l.snap, scene.enabled, scene.near)
     THEN "done" ELSE @]

\* The latest that the receiver dated, of each peer.
Latest(descriptors) ==
  LET own == {d \in descriptors : d.src = "receiver"}
      Later(a, b) == a.version > b.version \/ (a.version = b.version /\ a.stamp > b.stamp)
  IN {d \in own : \A e \in own : e.peer = d.peer => ~Later(e, d)}

Inserted(l, descriptors) ==
  [l EXCEPT
     !.snap = InsertDescriptors(@, descriptors, Clock),
     !.got = Latest(@ \cup descriptors)]

Look(l) ==
  /\ look' = l
  /\ UNCHANGED <<receiver, now>>

\* The initial probe finds the packet, or is too slow; the lookup is spawned.
StartLook ==
  /\ scene.looks /\ look.pc = "off"
  /\ \E found \in {{}, pkarr} :
       Look([Inserted(NoLook, found) EXCEPT !.pc = "gathering", !.found = found # {}])

\* The second lookup ends, with the packet or without.
PkarrAnswer ==
  /\ Gathering /\ ~look.pkarr
  /\ \/ pkarr # {} /\ Look(StopOrGoOn([Inserted(look, pkarr) EXCEPT !.pkarr = TRUE, !.found = TRUE]))
     \/ Look([look EXCEPT !.pkarr = TRUE])

\* One descriptor of each peer that the service knows.
HttpAnswer ==
  /\ Gathering /\ ~look.http
  /\ \E ds \in SUBSET records :
       /\ \A d, e \in ds : d.peer = e.peer => d = e
       /\ Look(StopOrGoOn([Inserted(look, ds) EXCEPT !.http = TRUE]))

HttpFails ==
  /\ Gathering /\ ~look.http
  /\ Look([look EXCEPT !.http = TRUE])

\* GetRecordOk::FoundRecord, of any node.
KadRecord ==
  /\ Gathering
  /\ \E d \in records : Look(StopOrGoOn(Inserted(look, {d})))

\* Discovered: the registration, dated now by the sender.
PointAnswer ==
  /\ Gathering
  /\ \E d \in point :
       Look(StopOrGoOn([Inserted(look, {[d EXCEPT !.stamp = Clock]}) EXCEPT !.registered = TRUE]))

\* mDNS shows the receiver.
Mdns ==
  /\ Gathering /\ recv.up /\ scene.near
  /\ Look(StopOrGoOn([look EXCEPT !.snap = ObserveLocal(@, recv.round)]))

\* Any other event of the swarm.
OtherEvent ==
  /\ Gathering
  /\ Look(StopOrGoOn(look))

\* FALLBACK_ROUTE_DISCOVERY_GRACE.
Grace ==
  /\ Gathering /\ ~look.grace
  /\ Look(StopOrGoOn([look EXCEPT !.grace = TRUE]))

\* lookup_timeout.
Deadline ==
  /\ Gathering
  /\ Look([look EXCEPT !.pc = "done"])

Result ==
  IF GoodEnough(look.snap, scene.enabled, scene.near) THEN Usable(look.snap) ELSE {}

-------------------------------------------------------------------------------

TimePasses ==
  /\ now < scene.maxTime
  /\ now' = now + 1
  /\ UNCHANGED <<receiver, look>>

\* Everything the receiver has to say is out, and what it said before was dated
\* earlier.
AllAnnounced ==
  /\ recv.up
  /\ ~task[recv.round].unseen
  /\ \A i \in DOMAIN worker.queue : worker.queue[i].routes = Routes
  /\ \A p \in worker.flight : p.routes = Packed(Routes)
  /\ \E p \in pkarr :
       /\ p.peer = recv.round /\ p.routes = Packed(Routes)
       /\ \A d \in records : d.peer = p.peer /\ d.routes # Routes => d.stamp < p.stamp

WatchSettled ==
  settled' =
    IF look.pc = "off" THEN look'.pc # "off" /\ AllAnnounced
    ELSE settled /\ recv'.up /\ recv'.mapped = recv.mapped /\ recv'.addrs = recv.addrs

MappingStep ==
  /\ \E r \in Round : TaskStep(r)
  /\ UNCHANGED <<now, recv, worker, pkarr, records, point, look, troubles>>

MappingTrouble ==
  /\ \E kind \in Troubles : Trouble(kind)
  /\ Misfortune
  /\ UNCHANGED <<now, recv, worker, pkarr, records, point, look>>

ReceiverStep == StartRound \/ Interval \/ MappingChange

WorkerStep == PublishSkip \/ PublishStart \/ PublishOk

LookStep ==
  \/ StartLook
  \/ PkarrAnswer
  \/ HttpAnswer
  \/ HttpFails
  \/ KadRecord
  \/ PointAnswer
  \/ Mdns
  \/ OtherEvent
  \/ Grace
  \/ Deadline

Watch == WatchSettled /\ UNCHANGED scene

Next ==
  /\ \/ ReceiverStep
     \/ EndRound
     \/ SwarmEvent
     \/ PointConnected
     \/ WorkerStep
     \/ PublishFails
     \/ MappingStep
     \/ MappingTrouble
     \/ LookStep
     \/ TimePasses
  /\ Watch

\* The tasks of the receiver are scheduled and its timers fire.  The code's queue
\* is never full and its select! picks a ready branch at random: an event that
\* finds the queue full here, again and again, still gets its turn.
Fairness ==
  /\ WF_vars(StartRound /\ Watch)
  /\ SF_vars(MappingChange /\ Watch)
  /\ SF_vars(Interval /\ Watch)
  /\ WF_vars(WorkerStep /\ Watch)
  /\ \A r \in Round :
       WF_vars(/\ TaskStep(r)
               /\ UNCHANGED <<now, recv, worker, pkarr, records, point, look, troubles>>
               /\ Watch)

Spec == Init /\ [][Next]_vars /\ Fairness

-------------------------------------------------------------------------------
(* Properties. *)

\* A mapped endpoint the receiver announces leads to it, unless the router
\* itself has made it useless or the task of an earlier round has unmapped a
\* port that this round had mapped again: maintain_direct_port_mapping never
\* removes a mapping that its own round still announces.
DeadEndpointsHaveCauses ==
  recv.up /\ ~task[recv.round].unseen => recv.mapped \subseteq Live \cup hurt \cup taken

\* What was lost heals: if the router's address stays and its renewals keep the
\* port, the receiver comes to announce only endpoints that lead to it, or none.
EndpointsHeal ==
  <>[](\/ recv.mapped \subseteq Live
       \/ router.ip # 1
       \/ \E r \in open : task[r].lease # task[r].value)

\* The publications come to an end with the truth: when the receiver changes no
\* more, the packet in the DHT is the one of its last descriptor, whichever
\* publications failed and whatever was still in the queue or on its way.
AnnouncementsSettle ==
  <>[](recv.up /\ \E p \in pkarr : p.peer = recv.round /\ p.routes = Packed(Routes))

\* Who is announced is found.  A sender that gets the packet of a receiver that
\* has been settled since before the lookup began ends up with every route of
\* the packet that it can use, whatever stale records Kademlia and the service
\* give it and in whatever order.  Two things undo this: a registration at a
\* libp2p rendezvous point replaces the descriptor by one with libp2p routes
\* only, and a clock behind the receiver's makes old records look new.  (One peer
\* is diversity enough: that is the default, which nothing changes.)
SettledReceiverFound ==
  /\ look.pc = "done" /\ settled /\ look.found
  /\ ~look.registered /\ scene.behind = 0 /\ MinDiversity <= 1
  => {e \in Packed(Routes) : e.kind \in scene.enabled /\ (e.kind = "lan" => scene.near)}
       \subseteq Result

\* The snapshot keeps an older descriptor of a peer although it was given a newer
\* one only if somebody else than the receiver dated it (pkarr when it signed
\* the packet, the sender for a rendezvous point), if both were made in the
\* same millisecond, or if the sender's clock is behind.
StaleOnlyIfRedated ==
  \A d \in look.snap.known, g \in look.got :
    d.peer = g.peer /\ d.version < g.version =>
      d.src # "receiver" \/ d.stamp = g.stamp \/ scene.behind > 0

===============================================================================
