----------------------------- MODULE MC_Netconfd -----------------------------
(* Small instances of Netconfd for TLC. *)
EXTENDS Netconfd, TLC

CONSTANTS s1, s2, a, token
=============================================================================
