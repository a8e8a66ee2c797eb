--------------------------- MODULE MCDirectTransfer ---------------------------
(* Values for the constants of DirectTransfer.                               *)
EXTENDS DirectTransfer, TLC

CONSTANTS alice, bob, file

\* One archive, which all senders of a model send: a restarted `peerline send`
\* of the same files has the same source and resource identifiers.
OneFile == {file}
TwoBytes == file :> 2
SameFile == [s \in Sender |-> file]

OnlyAlice == {alice}
TwoSenders == {alice, bob}

Misnamed == {alice :> "misnamed"}

\* A sender that dials an address beside one that is welcome or turned away.
DirectAndAnother ==
  {alice :> "direct" @@ bob :> k : k \in {"named", "oldversion", "misnamed", "wrongcode"}}
===============================================================================
