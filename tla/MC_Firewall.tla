------------------------------ MODULE MC_Firewall ------------------------------
(* Small instances of Firewall for TLC. *)
EXTENDS Firewall, TLC

CONSTANTS f1, f2, p1, p2, c1, c2, c3, x1, v1, v2

\* The firewalls, the calls and the policies are interchangeable.
Symmetry == Permutations(Fw) \cup Permutations(Call) \cup Permutations(Policy)
=================================================================================
