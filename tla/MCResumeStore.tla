---------------------------- MODULE MCResumeStore ----------------------------
(* ResumeStore on two sessions, a three-byte and a one-byte archive. *)
EXTENDS ResumeStore, TLC

CONSTANTS s1, s2, big, small

MCSession == {s1, s2}
MCResource == {big, small}
MCSize == big :> 3 @@ small :> 1
Symmetry == Permutations(MCSession)
===============================================================================
