---------------------------- MODULE MC_VnfDelete ----------------------------
(* A small instance of VnfDelete: two services of different sizes. *)
EXTENDS VnfDelete, TLC

CONSTANTS a, b, c1, c2

Sizes == a :> 2 @@ b :> 1

\* The two deletions are alike: no definition tells them apart.
Calls == Permutations({c1, c2})
=============================================================================
