--------------------------- MODULE MC_Notifications ---------------------------
(* Small instances of Notifications for TLC. *)
EXTENDS Notifications, TLC

CONSTANTS replayer, viewer

\* One session asks for replays, with a stop time or not, the other for what
\* happens from now on.
Requests == (replayer :> {1, 2} \X {NoTime, 2}) @@ (viewer :> {})
===============================================================================
