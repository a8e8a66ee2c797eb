------------------------------- MODULE MCTunnel -------------------------------
(* Values for the constants of Tunnel.                                       *)
EXTENDS Tunnel, TLC

CONSTANTS alice, bob, file, other

\* Nobody sends the other archive; an intro the bridge wrote may name it.
TwoFiles == {file, other}
Sizes == file :> 2 @@ other :> 1
TwoSenders == {alice, bob}
SameFile == [s \in Sender |-> file]

OurTerms == [code |-> "code", name |-> "name", route |-> "tor-onion", version |-> 3]

\* Bob has what Alice has, or one thing else.
Differing ==
  {OurTerms} \cup {[OurTerms EXCEPT !.code = "another"], [OurTerms EXCEPT !.name = "another"],
                   [OurTerms EXCEPT !.route = "i2p"], [OurTerms EXCEPT !.version = 2]}

AliceAndAnother == {alice :> OurTerms @@ bob :> t : t \in Differing}
===============================================================================
