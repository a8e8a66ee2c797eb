------------------------------- MODULE Delivery -------------------------------
(***************************************************************************)
(* What `peerline send` promises its user, without routes, connections or  *)
(* resumption: a send ends in success only after the receiver has unpacked *)
(* the archive, and once it has ended so nothing more is unpacked for it.  *)
(* A send that gives up promises nothing: its archive may have been        *)
(* unpacked already (the acknowledgement was lost) or may still be.        *)
(***************************************************************************)
EXTENDS Naturals

CONSTANT Sender

VARIABLES
  status,   \* what each sender has reported: "sending", "ok" or "failed"
  copies    \* how often the receiver has unpacked each sender's archive

vars == <<status, copies>>

Init ==
  /\ status = [s \in Sender |-> "sending"]
  /\ copies = [s \in Sender |-> 0]

Unpack(s) ==
  /\ status[s] # "ok"
  /\ copies' = [copies EXCEPT ![s] = @ + 1]
  /\ UNCHANGED status

Succeed(s) ==
  /\ status[s] = "sending"
  /\ copies[s] > 0
  /\ status' = [status EXCEPT ![s] = "ok"]
  /\ UNCHANGED copies

GiveUp(s) ==
  /\ status[s] = "sending"
  /\ status' = [status EXCEPT ![s] = "failed"]
  /\ UNCHANGED copies

Next == \E s \in Sender : Unpack(s) \/ Succeed(s) \/ GiveUp(s)

Spec == Init /\ [][Next]_vars

===============================================================================
