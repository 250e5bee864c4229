---------------------------- MODULE MC_VnfDeploy ----------------------------
(***************************************************************************)
(* Instances of VnfDeploy for TLC: three VDUs, and the templates they may  *)
(* come from.                                                              *)
(***************************************************************************)
EXTENDS VnfDeploy, TLC

CONSTANTS a, b, c

Three == {a, b, c}

\* Drivers that all load, and none for b.
Driver == a :> "ok" @@ b :> "none" @@ c :> "ok"

\* Every dependency graph, cyclic ones included, with the drivers that load.
Graphs == [from : [Three -> SUBSET Three], multi : {{}}, driver : {Driver}]

\* A chain, a fork, a join, a lone VDU beside a pair, a cycle beside a VDU.
Shapes ==
  { a :> {} @@ b :> {a} @@ c :> {b},
    a :> {} @@ b :> {a} @@ c :> {a},
    a :> {} @@ b :> {} @@ c :> {a, b},
    a :> {} @@ b :> {a} @@ c :> {},
    a :> {} @@ b :> {c} @@ c :> {b} }

\* These shapes with drivers that all load, with one VDU of several instances,
\* with one driver that cannot be imported.
Sound  == [from : Shapes, multi : {{}}, driver : {[Driver EXCEPT ![b] = "ok"]}]
Faulty == [from : Shapes, multi : {{}, {b}, {c}},
           driver : {Driver, [Driver EXCEPT ![a] = "broken"], [Driver EXCEPT ![c] = "broken"]}]

GraphTemplates == Graphs \cup Sound \cup Faulty
=============================================================================
