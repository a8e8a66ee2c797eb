---------------------------- MODULE MCNamedTransfer ----------------------------
(* Values for the constants of NamedTransfer.                                 *)
EXTENDS NamedTransfer, TLC

CONSTANTS alice, bob, photo, movie, quic, relay

OnePhoto == {photo}
PhotoAndMovie == {photo, movie}
TwoBytes == photo :> 2
TwoAndOneByte == photo :> 2 @@ movie :> 1

OnlyAlice == {alice}
TwoSenders == {alice, bob}
AlicesPhoto == alice :> photo
AlicesPhotoBobsMovie == alice :> photo @@ bob :> movie

OneRoute == {quic}
TwoRoutes == {quic, relay}
OnlyRelay == {relay}
NoRelay == {}
===============================================================================
