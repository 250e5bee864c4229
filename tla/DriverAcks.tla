----------------------------- MODULE DriverAcks ------------------------------
(***************************************************************************)
(* What a VNF manager promises the plugin about the instances it is asked  *)
(* to configure: an instance is answered at most once per request, never   *)
(* before its own driver has returned, and with what that driver returned. *)
(* There are no threads, no ids and no lock here; VnfmThreads implements   *)
(* this specification with all of them.                                    *)
(***************************************************************************)
EXTENDS Naturals

CONSTANT Job      \* the requests to configure one instance

VARIABLES
  phase,      \* of every job: "asked", "direct", "running", "returned"
  result,     \* what its driver has returned
  acks        \* for every job and status, the acks sent

vars == <<phase, result, acks>>

Result == {"COMPLETE", "ERROR", "None"}
Status == {"COMPLETE", "ERROR"}

\* The answer that a result deserves.
Answer(r) == IF r = "ERROR" THEN "ERROR" ELSE "COMPLETE"

Unanswered(j) == \A s \in Status : acks[j][s] = 0

Init ==
  /\ phase = [j \in Job |-> "asked"]
  /\ result = [j \in Job |-> "no"]
  /\ acks = [j \in Job |-> [s \in Status |-> 0]]

\* There is no driver to run: the job is answered on the spot.
Direct(j, s) ==
  /\ phase[j] = "asked"
  /\ phase' = [phase EXCEPT ![j] = "direct"]
  /\ acks' = [acks EXCEPT ![j][s] = 1]
  /\ UNCHANGED result

Launch(j) ==
  /\ phase[j] = "asked"
  /\ phase' = [phase EXCEPT ![j] = "running"]
  /\ UNCHANGED <<result, acks>>

Return(j, r) ==
  /\ phase[j] = "running"
  /\ phase' = [phase EXCEPT ![j] = "returned"]
  /\ result' = [result EXCEPT ![j] = r]
  /\ UNCHANGED acks

Tell(j) ==
  /\ phase[j] = "returned"
  /\ Unanswered(j)
  /\ acks' = [acks EXCEPT ![j][Answer(result[j])] = 1]
  /\ UNCHANGED <<phase, result>>

Next ==
  \E j \in Job :
    \/ \E s \in Status : Direct(j, s)
    \/ Launch(j)
    \/ \E r \in Result : Return(j, r)
    \/ Tell(j)

Spec == Init /\ [][Next]_vars
=============================================================================
