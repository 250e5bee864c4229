--------------------------- MODULE MC_SilTransaction ---------------------------
(* Small instances of SilTransaction for TLC. *)
EXTENDS SilTransaction, TLC

CONSTANTS n1, n2, n3, a, b

\* A leaf has one value or the other; another node is there or not, what is
\* in it is a matter of its own nodes.
TwoForLeafs == [n \in Node |-> IF n \in Leaf THEN {a, b} ELSE {a}]
===============================================================================
