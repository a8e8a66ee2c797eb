------------------------------ MODULE Discovery ------------------------------
(***************************************************************************)
(* What a sender does with the descriptors it gathers: DiscoverySnapshot,  *)
(* the candidates that can be drawn from it and the rule by which          *)
(* discover_peer_descriptors stops; and what pkarr makes of a descriptor.  *)
(*                                                                         *)
(* An endpoint is its kind of route and something that tells it from       *)
(* others.  A descriptor is [peer, routes, stamp], stamp being             *)
(* published_unix_ms.  A snapshot is [known, observed, local]: descriptors *)
(* by peer, observed_peers and local_peer_ids.                             *)
(***************************************************************************)
EXTENDS Naturals, Sequences, FiniteSets, FiniteSetsExt, SequencesExt

CONSTANTS
  Weight,       \* bytes of a record of a kind in a pkarr announcement
  MaxRecord,    \* the longest record there is a length byte for
  Budget,       \* MAX_RAW_PAYLOAD_BYTES less the header
  MinDiversity  \* min_candidate_diversity

\* RouteKind, in the order of rank_candidates.
Kind ==
  {"lan", "public", "tunnel", "quic", "dcutr", "webrtc", "turn", "i2p", "tor", "relay"}

\* An address in the local network, which is always announced, has room.
ASSUME DiscoveryAssumption ==
  /\ Weight \in [Kind -> Nat \ {0}]
  /\ MaxRecord \in Nat /\ Weight["lan"] <= MaxRecord
  /\ Budget \in Nat /\ Weight["lan"] <= Budget
  /\ MinDiversity \in Nat

-------------------------------------------------------------------------------
(* PkarrAnnouncementV1. *)

\* The priority of PackedRecord, lower first.
Priority(kind) ==
  CASE kind = "lan" -> 0
    [] kind = "public" -> 1
    [] kind = "i2p" -> 2
    [] kind \in {"tor", "dcutr"} -> 3
    [] kind = "quic" -> 4
    [] kind \in {"webrtc", "turn"} -> 5
    [] kind = "tunnel" -> 6
    [] kind = "relay" -> 7

\* The order of the records: by priority, shorter ones first.
Before(a, b) ==
  \/ Priority(a.kind) < Priority(b.kind)
  \/ Priority(a.kind) = Priority(b.kind) /\ Weight[a.kind] < Weight[b.kind]

\* The records that are not too long.
Writable(routes) == {e \in routes : Weight[e.kind] <= MaxRecord}

\* encode_with_budget: record by record in that order; one that does not fit with
\* those taken before it is left out, and a later one may still fit.
Packed(routes) ==
  LET Size(some) == Cardinality(UNION {{e} \X (1..Weight[e.kind]) : e \in some})
      UpTo(some, e) == {f \in some : ~Before(e, f)}
      written == Writable(routes)
  IN CHOOSE packed \in SUBSET written : \A e \in written :
       e \in packed <=> Size(UpTo(packed, e) \cup {e}) <= Budget

-------------------------------------------------------------------------------
(* DiscoverySnapshot. *)

EmptySnapshot == [known |-> {}, observed |-> {}, local |-> {}]

\* Mutant of Outdated: what comes last wins.
NeverOutdated(current, d) == FALSE

\* The snapshot has a later one.
Outdated(current, d) == current.stamp > d.stamp

\* insert_descriptor, for descriptors of different peers: a date in the future
\* becomes now, and one that is outdated is left out.
InsertDescriptors(snap, descriptors, now) ==
  LET dated == {[d EXCEPT !.stamp = Min({@, now})] : d \in descriptors}
      fresh == {d \in dated : \A k \in snap.known : k.peer = d.peer => ~Outdated(k, d)}
      kept == {k \in snap.known : \A d \in fresh : d.peer # k.peer}
  IN [snap EXCEPT !.known = kept \cup fresh, !.observed = @ \cup {d.peer : d \in fresh}]

\* observe_local_peer.
ObserveLocal(snap, peer) ==
  [snap EXCEPT !.local = @ \cup {peer}, !.observed = @ \cup {peer}]

IsDiverseEnough(snap) ==
  /\ snap.known # {}
  /\ \/ \E d \in snap.known : d.peer \in snap.local
     \/ Cardinality(snap.observed) >= MinDiversity

\* descriptor_candidates_for_discovery: routes that are enabled, LAN endpoints
\* only of a network the sender is in, or of a peer that mDNS has shown.
DescriptorCandidates(snap, d, enabled, near) ==
  {e \in d.routes :
     /\ e.kind \in enabled
     /\ e.kind = "lan" => near \/ d.peer \in snap.local}

Candidates(snap, enabled, near) ==
  UNION {DescriptorCandidates(snap, d, enabled, near) : d \in snap.known}

RouteFamily(kind) ==
  CASE kind \in {"lan", "public"} -> 0
    [] kind \in {"quic", "dcutr"} -> 1
    [] kind \in {"webrtc", "turn"} -> 2
    [] kind = "tunnel" -> 3
    [] kind = "i2p" -> 4
    [] kind = "tor" -> 5
    [] kind = "relay" -> 6

\* should_keep_discovering_for_route_diversity: something is there, but of one
\* family only, and the grace window is still open.
KeepDiscovering(candidates, graceElapsed) ==
  /\ ~graceElapsed
  /\ Cardinality({RouteFamily(e.kind) : e \in candidates}) = 1

\* The result is worth returning.
GoodEnough(snap, enabled, near) ==
  IsDiverseEnough(snap) /\ Candidates(snap, enabled, near) # {}

===============================================================================
