-------------------------- MODULE NotificationStream --------------------------
(***************************************************************************)
(* What a NETCONF session may see of its subscription to notifications     *)
(* (RFC 5277): events in the order in which they happened, none twice; the *)
(* mark <replayComplete> once, between what is replayed and what is live;  *)
(* with a stop time <notificationComplete>, once, and nothing after it.    *)
(***************************************************************************)
EXTENDS Naturals, Sequences

CONSTANTS Session,
          Event,                \* the sequence ids of events
          ReplayComplete,
          NotificationComplete

VARIABLES phase,        \* closed, replay, live, timed (will stop) or over
          inbox         \* what each session has read of its subscription so far

vars == <<phase, inbox>>

Init ==
    /\ phase = [s \in Session |-> "closed"]
    /\ inbox = [s \in Session |-> <<>>]

Receive(s, x) == inbox' = [inbox EXCEPT ![s] = Append(@, x)]

Enter(s, p) == phase' = [phase EXCEPT ![s] = p]

Open(s) ==
    /\ phase[s] = "closed"
    /\ Enter(s, "replay") \/ Enter(s, "live")
    /\ UNCHANGED inbox

Later(s, m) == \A i \in 1..Len(inbox[s]) : inbox[s][i] \in Event => inbox[s][i] < m

Happen(s) ==
    /\ phase[s] \in {"replay", "live", "timed"}
    /\ \E m \in Event : Later(s, m) /\ Receive(s, m)
    /\ UNCHANGED phase

Replayed(s) ==
    /\ phase[s] = "replay"
    /\ Enter(s, "live") \/ Enter(s, "timed")
    /\ Receive(s, ReplayComplete)

Stop(s) ==
    /\ phase[s] = "timed"
    /\ Enter(s, "over")
    /\ Receive(s, NotificationComplete)

Close(s) ==
    /\ Enter(s, "closed")
    /\ inbox' = [inbox EXCEPT ![s] = <<>>]

Next == \E s \in Session : Open(s) \/ Happen(s) \/ Replayed(s) \/ Stop(s) \/ Close(s)

Spec == Init /\ [][Next]_vars
===============================================================================
