---------------------------- MODULE MC_Symphony -----------------------------
(* Small instances of Symphony for TLC. *)
EXTENDS Symphony, TLC

CONSTANTS s1, s2

\* The services are interchangeable.
Alike == Permutations(Service)
=============================================================================
