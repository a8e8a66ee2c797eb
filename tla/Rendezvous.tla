----------------------------- MODULE Rendezvous -----------------------------
(***************************************************************************)
(* The rendezvous service, one shard (Durable Object) for the namespace of *)
(* one name and code, and the receivers that register in it: the guard of  *)
(* every round of `peerline recv` with its keepalive task.  A client that  *)
(* polls the shard with after_cookie stands for the users of the service's *)
(* interface; the senders of this repository always ask from the start.    *)
(*                                                                         *)
(* The clocks of service and receivers agree.  A unit of time is longer    *)
(* than request_timeout: no client waits for an answer while time passes.  *)
(* What a request does at the service and what its client does with the    *)
(* answer are one step; a client that does not get the answer has given up *)
(* before the request is served.  There is one endpoint.                   *)
(***************************************************************************)
EXTENDS Integers, FiniteSets, FiniteSetsExt

CONSTANTS
  Receiver,      \* `peerline recv` processes, each with an address of its own
  MaxRounds,     \* bound on the rounds of each
  Acceptable,    \* the descriptors that validate_descriptor lets pass
  Requested,     \* registration_keepalive as configured
  Tolerance,     \* RENDEZVOUS_REGISTRATION_TOLERANCE_SECS
  ClientMaxTtl,  \* RENDEZVOUS_DEFAULT_MAX_TTL_SECS
  MaxTtl,        \* PEERLINE_RENDEZVOUS_MAX_TTL_SECS of the service
  Skew,          \* SIGNATURE_SKEW_MS
  Faults,        \* the kinds of fault that may happen
  Deployments    \* settings to look at, see IsDeployment

Method == {"POST", "DELETE", "GET"}

\* ttl: registration_ttl; window: RATE_WINDOW_MS; limit: requests per window
\* and address; descriptors: what a receiver may announce; poller: {} or
\* {"poller"}, does anybody poll; discover: limit of a discover request;
\* maxTime, maxFaults: bounds on the clock and the faults.
IsDeployment(d) ==
  /\ {d.ttl, d.window, d.discover} \subseteq Nat \ {0}
  /\ d.limit \in [Method -> Nat \ {0}]
  /\ d.descriptors # {}
  /\ d.poller \subseteq {"poller"}
  /\ {d.maxTime, d.maxFaults} \subseteq Nat

ASSUME RendezvousAssumption ==
  /\ MaxRounds \in Nat /\ Skew \in Nat
  /\ MaxTtl \in Nat \ {0} /\ ClientMaxTtl \in Nat \ {0}
  /\ Requested \in Nat /\ Tolerance \in Nat
  /\ Faults \subseteq {"lost", "late", "kill"}
  /\ \A d \in Deployments : IsDeployment(d)

VARIABLES
  site,    \* the deployment
  now,     \* now_unix_ms
  rows,    \* table registrations
  seq,     \* its AUTOINCREMENT sequence
  rate,    \* table rate_limits
  guard,   \* Peer -> RendezvousRegistrationGuard and its keepalive task
  wire,    \* requests on their way
  cursor,  \* the poller's after_cookie
  seen,    \* history: peers the poller was told of
  cut,     \* history: an answer to the poller was cut at its limit
  since,   \* history: when the guard's descriptor was last changed
  closed,  \* history: when the guard was given up
  faults   \* history: faults so far

vars == <<site, now, rows, seq, rate, guard, wire, cursor, seen, cut, since, closed, faults>>

service == <<rows, seq, rate>>
poller == <<cursor, seen, cut>>

Ttl == site.ttl
Window == site.window
Limit == site.limit
Descriptor == site.descriptors
Poller == site.poller
DiscoverLimit == site.discover
MaxTime == site.maxTime
MaxFaults == site.maxFaults

\* Every round builds a swarm with a new identity.
Peer == Receiver \X (1..MaxRounds)

\* rate_limits.key: method and address.
RateKey == Method \X (Receiver \cup Poller)

Row == [peer : Peer, cookie : Nat \ {0}, expires : Nat, desc : Descriptor]

\* changed: the watch channel holds an update; due: the next tick of the
\* interval (0: the first publish is not over); waits: a publish is under way.
GuardState ==
  [pc : {"none", "live", "leaving", "ended"},
   desc : Descriptor, changed : BOOLEAN, due : Nat, waits : BOOLEAN]

\* A client waits for the answer to an "awaited" request, and for no other: it
\* ran into the timeout of a "late" one, aborted the task of a "cut" one, and
\* left a "spawned" one to a task of its own.
RequestOnWire ==
  [method : {"POST", "DELETE"}, peer : Peer, desc : Descriptor, sent : Nat,
   held : {"awaited", "late", "cut", "spawned"}]

AnyDescriptor == CHOOSE d \in Descriptor : TRUE

Blank(pc) ==
  [pc |-> pc, desc |-> AnyDescriptor, changed |-> FALSE, due |-> 0, waits |-> FALSE]

TypeOK ==
  /\ site \in Deployments
  /\ now \in 0..MaxTime
  /\ rows \subseteq Row
  /\ seq \in Nat
  /\ rate \in [RateKey -> [start : Nat, count : Nat]]
  /\ guard \in [Peer -> GuardState]
  /\ wire \subseteq RequestOnWire
  /\ cursor \in Nat
  /\ seen \subseteq Peer
  /\ cut \in BOOLEAN
  /\ since \in [Peer -> 0..MaxTime]
  /\ closed \in [Peer -> 0..MaxTime]
  /\ faults \in 0..MaxFaults

Init ==
  /\ site \in Deployments
  /\ now = 0
  /\ rows = {}
  /\ seq = 0
  /\ rate = [k \in RateKey |-> [start |-> 0, count |-> 0]]
  /\ guard = [p \in Peer |-> Blank("none")]
  /\ wire = {}
  /\ cursor = 0
  /\ seen = {}
  /\ cut = FALSE
  /\ since = [p \in Peer |-> 0]
  /\ closed = [p \in Peer |-> 0]
  /\ faults = 0

Fault(kind) ==
  /\ kind \in Faults
  /\ faults < MaxFaults
  /\ faults' = faults + 1

-------------------------------------------------------------------------------
(* The service. *)

Visible == {r \in rows : r.expires > now}

\* enforce_rate_limit: a fixed window, the count stops just above the limit.
CountRequest(k) ==
  LET start == now - (now % Window) IN
  [rate EXCEPT ![k] =
     [start |-> start,
      count |-> IF @.start # start THEN 1 ELSE Min({@.count + 1, Limit[k[1]] + 1})]]

WithinLimit(k) == CountRequest(k)[k].count <= Limit[k[1]]

\* cleanup_expired forgets the windows before the last two.
CleanRates(rates) ==
  [k \in RateKey |->
     IF rates[k].start < now - 2 * Window THEN [start |-> 0, count |-> 0] ELSE rates[k]]

\* Mutant of Authentic: a signature is good for ever.
AlwaysAuthentic(m) == TRUE

\* verify_hmac_request: the timestamp is not too old.
Authentic(m) == now - m.sent <= Skew

\* Mutant of NewCookie: the key without AUTOINCREMENT.
ReusedCookie == Max({0} \cup {r.cookie : r \in Visible}) + 1

NewCookie == seq + 1

\* A row for the peer is refreshed under its cookie, or one is inserted.
Upsert(m) ==
  LET own == {r \in Visible : r.peer = m.peer}
      cookie == IF own = {} THEN NewCookie ELSE Min({r.cookie : r \in own})
  IN /\ rows' = (Visible \ own) \cup
          {[peer |-> m.peer, cookie |-> cookie, desc |-> m.desc,
            expires |-> now + Min({Ttl, MaxTtl})]}
     /\ seq' = Max({seq, cookie})

\* POST, in the order of the code: signature, rate, descriptor, expiry.
Register(m) ==
  LET k == <<"POST", m.peer[1]>> IN
  IF ~Authentic(m) THEN UNCHANGED service
  ELSE IF WithinLimit(k) /\ m.desc \in Acceptable
  THEN rate' = CleanRates(CountRequest(k)) /\ Upsert(m)
  ELSE rate' = CountRequest(k) /\ UNCHANGED <<rows, seq>>

\* DELETE.
Unregister(m) ==
  LET k == <<"DELETE", m.peer[1]>> IN
  IF ~Authentic(m) THEN UNCHANGED service
  ELSE IF WithinLimit(k)
  THEN /\ rate' = CleanRates(CountRequest(k))
       /\ rows' = {r \in Visible : r.peer # m.peer}
       /\ UNCHANGED seq
  ELSE rate' = CountRequest(k) /\ UNCHANGED <<rows, seq>>

\* The rows a discover request returns: by cookie, at most the limit.
After(after) == {r \in Visible : r.cookie > after}

Answer(after) ==
  {r \in After(after) :
     Cardinality({q \in After(after) : q.cookie < r.cookie}) < DiscoverLimit}

\* The cookie returned with them is that of all rows.
Latest == Max({0} \cup {r.cookie : r \in Visible})

-------------------------------------------------------------------------------
(* The receivers. *)

\* Mutant of Interval: the keepalive as configured.
AsRequested == Max({Requested, 1})

\* normalize_registration_keepalive.
Interval ==
  LET ttl == Max({Min({Ttl, ClientMaxTtl}), 1})
      tolerance == IF ttl <= 1 THEN 0 ELSE Min({Max({ttl \div 2, 1}), Tolerance})
  IN Min({Max({Requested, 1}), Max({ttl - tolerance, 1})})

Post(p, desc) ==
  [method |-> "POST", peer |-> p, desc |-> desc, sent |-> now, held |-> "awaited"]

Delete(p, held) ==
  [method |-> "DELETE", peer |-> p, desc |-> AnyDescriptor, sent |-> now, held |-> held]

\* recv_libp2p creates the guard, whose keepalive task publishes at once.
StartRound(p) ==
  /\ guard[p].pc = "none"
  /\ p[2] > 1 => guard[<<p[1], p[2] - 1>>].pc = "ended"
  /\ \E desc \in Descriptor :
       /\ guard' = [guard EXCEPT ![p] = [Blank("live") EXCEPT !.desc = desc, !.waits = TRUE]]
       /\ wire' = wire \cup {Post(p, desc)}
  /\ since' = [since EXCEPT ![p] = now]
  /\ UNCHANGED <<now, service, poller, closed, faults>>

\* update_descriptor: an event of the swarm, or its ten-second interval, which
\* sends the same descriptor again.
UpdateDescriptor(p) ==
  /\ guard[p].pc = "live"
  /\ \E desc \in Descriptor :
       /\ guard' = [guard EXCEPT ![p].desc = desc, ![p].changed = TRUE]
       /\ since' = [since EXCEPT ![p] = IF desc = guard[p].desc THEN @ ELSE now]
  /\ UNCHANGED <<now, service, poller, wire, closed, faults>>

\* The select loop of the task is waiting.
Idle(p) == guard[p].pc = "live" /\ ~guard[p].waits /\ guard[p].due > 0

Publish(p, g) ==
  /\ guard' = [guard EXCEPT ![p] = [g EXCEPT !.waits = TRUE]]
  /\ wire' = wire \cup {Post(p, g.desc)}
  /\ UNCHANGED <<now, service, poller, since, closed, faults>>

PublishTick(p) ==
  /\ Idle(p)
  /\ guard[p].due <= now
  /\ Publish(p, [guard[p] EXCEPT !.due = now + Interval])

PublishChange(p) ==
  /\ Idle(p)
  /\ guard[p].changed
  /\ Publish(p, [guard[p] EXCEPT !.changed = FALSE])

\* A publish is over, however it went.
Published(g) == [g EXCEPT !.waits = FALSE, !.due = IF @ = 0 THEN now + Interval ELSE @]

\* The client goes on after the request it was waiting for.
GoOn(m) ==
  IF m.held = "awaited"
  THEN guard' = [guard EXCEPT ![m.peer] =
         IF m.method = "POST" THEN Published(@) ELSE Blank("ended")]
  ELSE UNCHANGED guard

\* Aborting the task leaves its request where it is.
Aborted(p) ==
  {IF m.peer = p /\ m.held = "awaited" THEN [m EXCEPT !.held = "cut"] ELSE m : m \in wire}

Leave(p, pc) ==
  /\ guard[p].pc = "live"
  /\ guard' = [guard EXCEPT ![p] = Blank(pc)]
  /\ closed' = [closed EXCEPT ![p] = now]
  /\ since' = [since EXCEPT ![p] = 0]
  /\ UNCHANGED <<now, service, poller>>

\* A transfer is complete: unregister aborts the task and waits for its DELETE.
LeaveByUnregister(p) ==
  /\ Leave(p, "leaving")
  /\ wire' = Aborted(p) \cup {Delete(p, "awaited")}
  /\ UNCHANGED faults

\* The path is dropped: Drop leaves the DELETE to a task of its own.
LeaveByDrop(p) ==
  /\ Leave(p, "ended")
  /\ wire' = Aborted(p) \cup {Delete(p, "spawned")}
  /\ UNCHANGED faults

\* Another path completes a transfer while unregister is waiting.
DropWhileLeaving(p) ==
  /\ guard[p].pc = "leaving"
  /\ guard' = [guard EXCEPT ![p] = Blank("ended")]
  /\ wire' = Aborted(p)
  /\ UNCHANGED <<now, service, poller, since, closed, faults>>

\* The process ends before that task runs.
LeaveByExit(p) ==
  /\ Leave(p, "ended")
  /\ Fault("kill")
  /\ wire' = Aborted(p)

-------------------------------------------------------------------------------

\* A request reaches the shard.
Serve(m) ==
  /\ IF m.method = "POST" THEN Register(m) ELSE Unregister(m)
  /\ wire' = wire \ {m}
  /\ GoOn(m)
  /\ UNCHANGED <<now, poller, since, closed, faults>>

\* It is lost, and the client notices.  (A lost one that nobody waits for is one
\* that is never served.)
Lose(m) ==
  /\ m.held = "awaited"
  /\ Fault("lost")
  /\ wire' = wire \ {m}
  /\ GoOn(m)
  /\ UNCHANGED <<now, service, poller, since, closed>>

\* request_timeout: the client gives up, the request is still on its way.
GiveUp(m) ==
  /\ m.held = "awaited"
  /\ Fault("late")
  /\ wire' = (wire \ {m}) \cup {[m EXCEPT !.held = "late"]}
  /\ GoOn(m)
  /\ UNCHANGED <<now, service, poller, since, closed>>

\* GET with the cookie of the last answer.
Poll(q) ==
  LET k == <<"GET", q>> IN
  /\ IF WithinLimit(k)
     THEN /\ rate' = CleanRates(CountRequest(k))
          /\ rows' = Visible
          /\ seen' = seen \cup {r.peer : r \in Answer(cursor)}
          /\ cut' = (cut \/ Answer(cursor) # After(cursor))
          /\ cursor' = Latest
     ELSE rate' = CountRequest(k) /\ UNCHANGED <<rows, poller>>
  /\ UNCHANGED <<now, seq, guard, wire, since, closed, faults>>

\* Time passes when nobody is waiting and no timer is due.
Tick ==
  /\ now < MaxTime
  /\ \A m \in wire : m.held # "awaited"
  /\ \A p \in Peer : Idle(p) => guard[p].due > now /\ ~guard[p].changed
  /\ now' = now + 1
  /\ UNCHANGED <<service, poller, guard, wire, since, closed, faults>>

\* The bounds are reached.
Over ==
  /\ now = MaxTime
  /\ \A p \in Peer : guard[p].pc = "ended"
  /\ UNCHANGED vars

ReceiverStep(p) ==
  \/ StartRound(p)
  \/ UpdateDescriptor(p)
  \/ PublishTick(p)
  \/ PublishChange(p)
  \/ LeaveByUnregister(p)
  \/ LeaveByDrop(p)
  \/ DropWhileLeaving(p)
  \/ LeaveByExit(p)

RequestStep(m) == Serve(m) \/ Lose(m) \/ GiveUp(m)

Next ==
  /\ \/ \E p \in Peer : ReceiverStep(p)
     \/ \E m \in wire : RequestStep(m)
     \/ \E q \in Poller : Poll(q)
     \/ Tick
     \/ Over
  /\ UNCHANGED site

Spec == Init /\ [][Next]_vars

-------------------------------------------------------------------------------
(* Properties. *)

\* The tolerance leaves room for a rate window before the lease is over, and the
\* service grants the lease that the client counts on.
RoomToRenew ==
  /\ Window <= Tolerance /\ 2 * Window <= Min({Ttl, ClientMaxTtl})
  /\ Min({Ttl, ClientMaxTtl}) <= MaxTtl

\* A receiver is found.  As long as requests are not lost and an answer has room
\* for all registrations, every live receiver whose descriptor has not changed
\* for a lease, and the age a signature may have, is in the answer to a sender's
\* discover request, with that descriptor: the keepalive renews each
\* registration before it expires, also when the updates of this and earlier
\* rounds have used up the quota of their address.
LiveDescriptorFound ==
  faults = 0 /\ RoomToRenew /\ Cardinality(Visible) <= DiscoverLimit =>
    \A p \in Peer :
      /\ guard[p].pc = "live"
      /\ guard[p].desc \in Acceptable
      /\ now - since[p] >= Skew + Ttl
      => \E r \in Answer(0) : r.peer = p /\ r.desc = guard[p].desc

\* A receiver that is gone is forgotten.  Whatever is lost, late or overtaken
\* (a POST of an aborted keepalive task may be served after the DELETE), its
\* registration is out of every answer when the longest delay of a signed
\* request and the longest lease are over.
GoneReceiverForgotten ==
  \A r \in Visible :
    guard[r.peer].pc \in {"leaving", "ended"} =>
      now < closed[r.peer] + Skew + Min({Ttl, MaxTtl})

\* Polling with the cookie of the last answer misses nobody: unless an answer
\* was cut at its limit, a registered receiver at or below the cursor has been
\* reported.  Refreshed, expired and deleted rows never make a cookie return.
CursorSkipsNobody ==
  cut \/ \A r \in rows : r.cookie <= cursor => r.peer \in seen

===============================================================================
