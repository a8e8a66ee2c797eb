----------------------------- MODULE PortMapping -----------------------------
(***************************************************************************)
(* The port mapping of a receiver: one task per round of `peerline recv`   *)
(* (run_direct_port_mapping), and the router it asks over UPnP or          *)
(* NAT-PMP/PCP.  A round holds the receivers of its task's watch channel;  *)
(* when it ends they are dropped, but nobody aborts the task, which        *)
(* notices by itself: tasks of several rounds overlap, and all of them map *)
(* the same port.                                                          *)
(*                                                                         *)
(* A request to the router and its answer are one step.  The half hour     *)
(* until a renewal and the minute until a retry may pass at any time.      *)
(***************************************************************************)
EXTENDS Naturals, FiniteSets

CONSTANTS
  MaxRounds,   \* bound on the rounds
  Protocols,   \* those that are enabled, of "upnp" and "natpmp"
  Troubles     \* what may go wrong with the router

\* forget: it loses its table; address: it gets another external address;
\* conflict: the port is somebody else's; moved: a renewal gives another port;
\* refused: a request fails.
TroubleKinds == {"forget", "address", "conflict", "moved", "refused"}

ASSUME MappingAssumption ==
  /\ MaxRounds \in Nat
  /\ Protocols \subseteq {"upnp", "natpmp"}
  /\ Troubles \subseteq TroubleKinds

VARIABLES
  open,    \* rounds whose watch receivers exist
  router,  \* its external address, and the ports it forwards to the receiver
  task,    \* Round -> run_direct_port_mapping
  hurt,    \* history: endpoints the router itself made useless
  taken    \* history: endpoints removed by the task of an earlier round

mappingVars == <<open, router, task, hurt, taken>>

Round == 1..MaxRounds

\* The external port is the bound one, or one the router chose.
Port == {"own", "any"}

Endpoint == [ip : {1, 2}, port : Port]

\* lease: external_endpoint of the mapping; value: what was sent to the watch
\* channel; unseen: the round has not seen it.
TaskState ==
  [pc : {"off", "trying", "leased", "loop", "ended"},
   protocol : {"none"} \cup Protocols,
   lease : SUBSET Endpoint, value : SUBSET Endpoint, unseen : BOOLEAN]

NoTask == [pc |-> "off", protocol |-> "none", lease |-> {}, value |-> {}, unseen |-> FALSE]

MappingTypeOK ==
  /\ open \subseteq Round
  /\ router \in [ip : {1, 2}, fwd : SUBSET Port]
  /\ task \in [Round -> TaskState]
  /\ hurt \subseteq Endpoint
  /\ taken \subseteq Endpoint

MappingInit ==
  /\ open = {}
  /\ router = [ip |-> 1, fwd |-> {}]
  /\ task = [r \in Round |-> NoTask]
  /\ hurt = {}
  /\ taken = {}

\* Endpoints that lead to the receiver.
Live == {[ip |-> router.ip, port |-> p] : p \in router.fwd}

Closed(r) == r \notin open

\* spawn_direct_port_mapping.
Spawned(r) == [task EXCEPT ![r].pc = "loop"]

\* watch::Sender::send does nothing when nobody listens.
Send(t, r, endpoints) ==
  IF Closed(r) THEN t ELSE [t EXCEPT !.value = endpoints, !.unseen = TRUE]

\* try_direct_port_mapping gets a mapping: of the bound port, or of another.
\* UPnP is asked first, NAT-PMP and PCP when it does not answer.
MapPort(r, protocol, port) ==
  LET e == [ip |-> router.ip, port |-> port] IN
  /\ task[r].pc = "trying"
  /\ router' = [router EXCEPT !.fwd = @ \cup {port}]
  /\ task' = [task EXCEPT ![r] =
       Send([@ EXCEPT !.pc = "leased", !.protocol = protocol, !.lease = {e}], r, {e})]
  /\ hurt' = IF Closed(r) THEN hurt ELSE hurt \ {e}
  /\ taken' = IF Closed(r) THEN taken ELSE taken \ {e}
  /\ UNCHANGED open

\* It gets none.  A NAT-PMP mapping whose address cannot be asked for stays.
MapFails(r) ==
  /\ task[r].pc = "trying"
  /\ \E left \in {{}} \cup {{"own"} : p \in Protocols \cap {"natpmp"}} :
       router' = [router EXCEPT !.fwd = @ \cup left]
  /\ task' = [task EXCEPT ![r] = Send([@ EXCEPT !.pc = "loop"], r, {})]
  /\ UNCHANGED <<open, hurt, taken>>

\* The head of the loop, at the start or when DIRECT_PORT_MAPPING_RETRY_AFTER
\* is over: the task ends when the channel is closed.
Retry(r) ==
  /\ task[r].pc = "loop"
  /\ task' = [task EXCEPT ![r] =
       IF Closed(r) THEN [NoTask EXCEPT !.pc = "ended"] ELSE [@ EXCEPT !.pc = "trying"]]
  /\ UNCHANGED <<open, router, hurt, taken>>

\* maintain_direct_port_mapping: a renewal.  UPnP adds the same port again and
\* keeps the address it knows; NAT-PMP and PCP note what they get.  Neither
\* tells the channel.
Renew(r, port) ==
  LET old == task[r].lease
      new == IF task[r].protocol = "upnp" THEN old ELSE {[ip |-> router.ip, port |-> port]}
  IN
  /\ task[r].pc = "leased" /\ ~Closed(r)
  /\ router' = [router EXCEPT !.fwd = (@ \ {e.port : e \in old \ new}) \cup {port}]
  /\ task' = [task EXCEPT ![r].lease = new]
  /\ hurt' = hurt \cup (old \ new)
  /\ UNCHANGED <<open, taken>>

SamePort(r) == \E e \in task[r].lease : Renew(r, e.port)

OtherPort(r) ==
  /\ task[r].protocol = "natpmp"
  /\ \E e \in task[r].lease : \E p \in Port \ {e.port} : Renew(r, p)

\* Mutant of RenewFails: the channel is not told.
RenewFailsSilently(r) ==
  /\ task[r].pc = "leased" /\ ~Closed(r)
  /\ task' = [task EXCEPT ![r].pc = "ended"]
  /\ UNCHANGED <<open, router, hurt, taken>>

\* A renewal fails: the mapping is withdrawn and tried anew.
RenewFails(r) ==
  /\ task[r].pc = "leased" /\ ~Closed(r)
  /\ task' = [task EXCEPT ![r] = Send([@ EXCEPT !.pc = "loop", !.lease = {}], r, {})]
  /\ UNCHANGED <<open, router, hurt, taken>>

\* The channel is closed: the port is unmapped, for whichever round it is.
Unmap(r) ==
  LET ports == {e.port : e \in task[r].lease} IN
  /\ task[r].pc = "leased" /\ Closed(r)
  /\ router' = [router EXCEPT !.fwd = @ \ ports]
  /\ task' = [task EXCEPT ![r] = [NoTask EXCEPT !.pc = "ended"]]
  /\ taken' = taken \cup
       UNION {{e \in task[q].lease : e.port \in ports} : q \in Round \ {r}}
  /\ UNCHANGED <<open, hurt>>

\* It is not.
UnmapFails(r) ==
  /\ task[r].pc = "leased" /\ Closed(r)
  /\ task' = [task EXCEPT ![r] = [NoTask EXCEPT !.pc = "ended"]]
  /\ UNCHANGED <<open, router, hurt, taken>>

Forget ==
  /\ router.fwd # {}
  /\ router' = [router EXCEPT !.fwd = {}]
  /\ hurt' = hurt \cup Live
  /\ UNCHANGED <<open, task, taken>>

NewAddress ==
  /\ router.ip = 1
  /\ router' = [router EXCEPT !.ip = 2]
  /\ hurt' = hurt \cup Live
  /\ UNCHANGED <<open, task, taken>>

TaskStep(r) ==
  \/ \E p \in Protocols : MapPort(r, p, "own")
  \/ Retry(r)
  \/ SamePort(r)
  \/ Unmap(r)

Trouble(kind) ==
  \/ kind = "forget" /\ Forget
  \/ kind = "address" /\ NewAddress
  \/ \E r \in Round :
       \/ kind = "conflict" /\ \E p \in Protocols : MapPort(r, p, "any")
       \/ kind = "moved" /\ OtherPort(r)
       \/ kind = "refused" /\ (MapFails(r) \/ RenewFails(r) \/ UnmapFails(r))

===============================================================================
