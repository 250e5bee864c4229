--------------------------- MODULE ConfirmedCommit ---------------------------
(***************************************************************************)
(* What the netconf server promises about its running configuration: a     *)
(* confirmed commit is a trial, and running lives in the non-volatile      *)
(* startup once no trial is pending.  A trial ends in two ways: it is kept *)
(* and saved, or running is what it was before the trial began.            *)
(*                                                                         *)
(* The promise stands while it is sound; a backup that could not be        *)
(* written or loaded breaks it until the server is started again.          *)
(***************************************************************************)

CONSTANTS Content

VARIABLES running,      \* the configuration in force
          startup,      \* the configuration the server starts from
          trial,        \* a confirmed commit is pending
          sound         \* no backup has failed since the server started

vars == <<running, startup, trial, sound>>

Init ==
    /\ running \in Content
    /\ startup = running
    /\ trial = FALSE
    /\ sound = TRUE

\* A trial begins, or a pending one changes what it tries.
Try ==
    /\ running' \in Content
    /\ trial' = TRUE
    /\ UNCHANGED <<startup, sound>>

\* The content is in force for good, and saved.
Keep ==
    /\ running' \in Content
    /\ startup' = running'
    /\ trial' = FALSE
    /\ UNCHANGED sound

\* The trial ends, or the server starts again: the saved content is back.
Revert ==
    /\ running' = startup
    /\ trial' = FALSE
    /\ sound' = TRUE
    /\ UNCHANGED startup

\* A backup fails: nothing more is promised.
Break ==
    /\ sound' = FALSE
    /\ running' \in Content
    /\ startup' \in Content
    /\ trial' \in BOOLEAN

Next == (sound /\ (Try \/ Keep)) \/ Revert \/ Break

Spec == Init /\ [][Next]_vars
=============================================================================
