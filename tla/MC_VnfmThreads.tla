--------------------------- MODULE MC_VnfmThreads ---------------------------
(***************************************************************************)
(* Instances of VnfmThreads for TLC: the configuration file has one        *)
(* instance with a driver, another comes in a configure_vdus cast, the     *)
(* first is updated; d has no driver and e no address.                     *)
(***************************************************************************)
EXTENDS VnfmThreads, TLC

CONSTANTS init, later, update, d, e

\* update configures again the instance of later.
Jobs == {init, later, update, d, e}
Threads == {init, later, update}
Where == init :> "i" @@ later :> "l" @@ update :> "l" @@ d :> "d" @@ e :> "e"
WhereThreads == init :> "i" @@ later :> "l" @@ update :> "l"
=============================================================================
