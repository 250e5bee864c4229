----------------------------- MODULE AtomicCommit -----------------------------
(***************************************************************************)
(* What a client of the netconf server sees of a commit: running takes the *)
(* whole candidate, or nothing happens.  The one exception is a failure    *)
(* after the edits are final: then the client is told of an error, running *)
(* is as before unless its backup cannot be loaded, and of what was to be  *)
(* committed the candidate has lost all but the leafs running had before.  *)
(* These stay, but forgotten: the next commit does not see that they       *)
(* differ, reports success without them, and the candidate is as running.  *)
(***************************************************************************)

CONSTANTS Node,         \* the nodes edits are made of
          Leaf,         \* those whose edit changes the node in place
          Value,        \* what a node may hold
          None          \* the value of a node that is not there

VARIABLES
    running, candidate, answer,
    forgotten           \* nodes of the candidate that a commit passes over

vars == <<running, candidate, answer, forgotten>>

Config == [Node -> Value]

Init ==
    /\ running \in Config
    /\ candidate = running
    /\ answer = "none"
    /\ forgotten = {}

\* A node that is edited again is no longer forgotten.
Edit ==
    /\ candidate' \in Config
    /\ forgotten' = {n \in forgotten : candidate'[n] = candidate[n]}
    /\ UNCHANGED <<running, answer>>

\* What a commit makes of running.
Committed == [n \in Node |-> IF n \in forgotten THEN running[n] ELSE candidate[n]]

Taken ==
    /\ running' = Committed
    /\ candidate' = Committed
    /\ forgotten' = {}
    /\ answer' = "ok"

Kept ==
    /\ UNCHANGED <<running, candidate, forgotten>>
    /\ answer' = "error"

\* The nodes the commit has changed are lost, and perhaps others it touched,
\* except for leafs that were there before: they are forgotten, if anything.
Late ==
    /\ running' \in {running, Committed}
    /\ \E lost \in SUBSET {n \in Node : n \notin Leaf \/ running[n] = None} :
         /\ \A n \in Node \ lost :
              Committed[n] = running[n] \/ (n \in Leaf /\ running[n] # None)
         /\ candidate' = [n \in Node |-> IF n \in lost THEN None ELSE candidate[n]]
    /\ forgotten' = {n \in Node : candidate'[n] \notin {None, running'[n]}}
    /\ answer' = "error"

Next == Edit \/ Taken \/ Kept \/ Late

Spec == Init /\ [][Next]_vars
===============================================================================
