------------------------------ MODULE MCPresence ------------------------------
(* Values for the constants of Presence.                                      *)
EXTENDS Presence

Weights == [k \in Kind |-> CASE k = "tunnel" -> 3
                             [] k \in {"tor", "i2p"} -> 2
                             [] OTHER -> 1]

Quic(n) == [kind |-> "quic", at |-> n]
Relay(n) == [kind |-> "relay", at |-> n]
Tor == [kind |-> "tor", at |-> 0]
Tunnel == [kind |-> "tunnel", at |-> 0]

\* Two rounds behind a router; nobody looks.
Router ==
  [mapping |-> TRUE, rounds |-> 2, addresses |-> <<{}>>, other |-> {},
   looks |-> FALSE, near |-> FALSE, behind |-> 0, enabled |-> Kind, points |-> FALSE,
   maxTime |-> 0, maxTroubles |-> 2, maxQueue |-> 1]

\* A receiver without a router whose addresses change, and a sender that can use
\* one family of its routes and so goes on gathering.  The packet has no room for
\* the relay, and the tunnel's URL is too long for it.
Lookup ==
  [mapping |-> FALSE, rounds |-> 1, addresses |-> <<{}, {Quic(1), Relay(1)}>>,
   other |-> {Tor, Tunnel}, looks |-> TRUE, near |-> FALSE, behind |-> 0,
   enabled |-> Kind \ {"tor", "tunnel", "relay"},
   points |-> FALSE, maxTime |-> 1, maxTroubles |-> 1, maxQueue |-> 1]

\* In the same network, over two rounds.
Restart == [Lookup EXCEPT !.rounds = 2, !.addresses = <<{}>>, !.near = TRUE, !.maxTroubles = 0]

\* Its clock is behind, and there is a libp2p rendezvous point.
Behind == [Lookup EXCEPT !.behind = 1, !.points = TRUE, !.enabled = Kind, !.maxTroubles = 0]

AllScenes == {Router, Lookup, Restart, Behind}
===============================================================================
