----------------------------- MODULE MCRendezvous -----------------------------
(* Values for the constants of Rendezvous.                                    *)
EXTENDS Rendezvous, TLC

CONSTANTS ann, none, home

OneReceiver == {ann}
Accepted == {home}

\* Descriptors change and quotas run out, but nothing is lost.
Busy ==
  [ttl |-> 4, window |-> 2, limit |-> "POST" :> 2 @@ "DELETE" :> 1 @@ "GET" :> 1,
   descriptors |-> {none, home}, poller |-> {}, discover |-> 2,
   maxTime |-> 6, maxFaults |-> 0]

\* Short leases, a poller, and a fault.
Faulty ==
  [ttl |-> 1, window |-> 1, limit |-> [m \in Method |-> 1],
   descriptors |-> {home}, poller |-> {"poller"}, discover |-> 1,
   maxTime |-> 2, maxFaults |-> 1]

BusyOrFaulty == {Busy, Faulty}
===============================================================================
