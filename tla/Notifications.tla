----------------------------- MODULE Notifications -----------------------------
(***************************************************************************)
(* The notifications of the netconf server: the event log that is also the *)
(* replay buffer, the subscriptions, and the bursts in which the server    *)
(* loop sends events to the subscribed sessions.                           *)
(*                                                                         *)
(* A message is its sequence id.  Messages enter the log at its end and    *)
(* leave it at its front only, so the log is oldest..msgid.  The pointers  *)
(* lastmsg and firstreplaymsg have ids beside them, used when the message  *)
(* was deleted: both ways lead to the same next entry while no pointer     *)
(* dangles (PointersLive).  Time is the clock of tstamp_datetime, which    *)
(* counts seconds: many events have the same time.  Filters, the access    *)
(* control of events and lack of memory are left out.                      *)
(***************************************************************************)
EXTENDS Integers, Sequences, FiniteSets

CONSTANTS Session,
          MaxTime,              \* bound: when the clock stops
          MaxEvents,            \* bound: how many events there are
          Windows,              \* the start and stop times a session may give
          Sizes,                \* the values of --eventlog-size
          Bursts,               \* the values of --maxburst, 0 for no limit
          NoSub,                \* the session has no subscription
          ReplayComplete,
          NotificationComplete

ASSUME BoundsAreNumbers ==
    /\ MaxTime \in Nat /\ MaxEvents \in Nat
    /\ Sizes \subseteq Nat /\ Bursts \subseteq Nat

ASSUME MarksAreNoEvents ==
    /\ ReplayComplete \notin Int /\ NotificationComplete \notin Int
    /\ ReplayComplete # NotificationComplete

NoTime == 0     \* the parameter is not given

ASSUME WindowsAreTimes == Windows \in [Session -> SUBSET ((Nat \ {NoTime}) \X Nat)]

VARIABLES
    eventlog_size,      \* of the profile, read when the server starts
    maxburst,           \* of the profile
    now,                \* the clock
    eventTime,          \* when each event so far happened
    oldest,             \* the first message in the log
    notification_count, \* what the server takes for the length of the log
    sub,                \* the subscription of each session
    serving,            \* send_some_notifications runs
    todo,               \* the subscriptions this round has not come to
    sendcount,          \* messages sent in this round
    sendtotal,          \* messages sent in this burst, up to maxburst
    inbox,              \* history: what a session has been sent
    owed                \* history: the first event a session is to get

profile == <<eventlog_size, maxburst>>
log == <<eventTime, oldest, notification_count>>
round == <<serving, todo, sendcount, sendtotal>>
vars == <<eventlog_size, maxburst, now, eventTime, oldest, notification_count,
          sub, serving, todo, sendcount, sendtotal, inbox, owed>>

msgid == Len(eventTime)

\* agt_not_subscription_t; the flags are booleans of their own.
Record ==
    [state : {"replay", "timed", "live", "shutdown"},
     startTime : Nat, stopTime : Nat, futurestop : BOOLEAN,
     rcReady : BOOLEAN, rcDone : BOOLEAN, ncDone : BOOLEAN,
     firstreplaymsgid : Nat, lastreplaymsgid : Nat, lastmsgid : Nat]

ASSUME NoSubIsNoRecord == NoSub \notin Record

Subscribed == {s \in Session : sub[s] # NoSub}

Init ==
    /\ eventlog_size \in Sizes
    /\ maxburst \in Bursts
    /\ now = 1
    /\ eventTime = <<>>
    /\ oldest = 1
    /\ notification_count = 0
    /\ sub = [s \in Session |-> NoSub]
    /\ serving = FALSE
    /\ todo = {}
    /\ sendcount = 0
    /\ sendtotal = 0
    /\ inbox = [s \in Session |-> <<>>]
    /\ owed = [s \in Session |-> 1]

-------------------------------------------------------------------------------
(* The log. *)

Tick ==
    /\ ~serving
    /\ now < MaxTime
    /\ now' = now + 1
    /\ UNCHANGED <<profile, log, sub, round, inbox, owed>>

\* delete_oldest_notification, which counts the message off.
DeleteOldest ==
    /\ oldest' = oldest + 1
    /\ notification_count' = notification_count - 1

\* The caller does not count the message that takes its place.
QueueNotification ==
    /\ ~serving
    /\ msgid < MaxEvents
    /\ eventTime' = Append(eventTime, now)
    /\ \/ /\ eventlog_size = 0
          /\ UNCHANGED <<oldest, notification_count>>
       \/ /\ notification_count < eventlog_size
          /\ notification_count' = notification_count + 1
          /\ UNCHANGED oldest
       \/ /\ eventlog_size > 0
          /\ notification_count >= eventlog_size
          /\ DeleteOldest
    /\ UNCHANGED <<profile, now, sub, round, inbox, owed>>

\* Mutant: what the slowest subscription was sent last is deleted as well.
PassedOrLast(m) ==
    \A s \in Subscribed : sub[s].lastmsgid = 0 \/ m <= sub[s].lastmsgid

\* Every subscription that has been sent something is past the message.
Passed(m) ==
    \A s \in Subscribed : sub[s].lastmsgid = 0 \/ m < sub[s].lastmsgid

\* agt_not_clean_eventlog; with no subscription everything goes.
CleanEventlog ==
    \/ eventlog_size > 0 /\ UNCHANGED oldest
    \/ /\ eventlog_size = 0
       /\ \E m \in oldest..(msgid + 1) :
            /\ \A k \in oldest..(m - 1) : Passed(k)
            /\ m <= msgid => ~Passed(m)
            /\ oldest' = m

-------------------------------------------------------------------------------
(* Subscriptions. *)

Subscription(mode, start, stop, first, last, lastmsgid) ==
    [state |-> mode, startTime |-> start, stopTime |-> stop,
     futurestop |-> stop > now, rcReady |-> mode = "replay" /\ first = 0,
     rcDone |-> FALSE, ncDone |-> FALSE,
     firstreplaymsgid |-> first, lastreplaymsgid |-> last, lastmsgid |-> lastmsgid]

\* A session has one subscription at most.
Add(s, r, first) ==
    /\ ~serving
    /\ sub[s] = NoSub
    /\ sub' = [sub EXCEPT ![s] = r]
    /\ owed' = [owed EXCEPT ![s] = first]
    /\ UNCHANGED <<profile, now, log, round, inbox>>

\* Without startTime: from the end of the log on.
SubscribeLive(s) ==
    Add(s, Subscription("live", NoTime, NoTime, 0, 0,
                        IF oldest <= msgid THEN msgid ELSE 0), msgid + 1)

Since(start) == {m \in oldest..msgid : start <= eventTime[m]}

\* There is nothing to replay: no event since start, or stop before the first.
SubscribeEmpty(s, start, stop) ==
    /\ start <= now
    /\ stop = NoTime \/ start <= stop
    /\ \/ Since(start) = {}
       \/ /\ stop # NoTime /\ stop <= now
          /\ \A m \in Since(start) : stop <= eventTime[m]
    /\ Add(s, Subscription("replay", start, stop, 0, 0, 0), msgid + 1)

\* The last entry to replay: all there is, or what is not after stop.
EndsReplay(last, first, stop) ==
    \/ stop = NoTime /\ last = 0
    \/ stop > now /\ last = msgid
    \/ /\ stop # NoTime /\ stop <= now
       /\ eventTime[first] < stop
       /\ last \in first..msgid
       /\ \A m \in first + 1..last : eventTime[m] <= stop
       /\ last < msgid => stop < eventTime[last + 1]

SubscribeReplay(s, start, stop) ==
    /\ start <= now
    /\ stop = NoTime \/ start <= stop
    /\ \E first \in Since(start), last \in 0..msgid :
         /\ \A m \in Since(start) : first <= m
         /\ EndsReplay(last, first, stop)
         /\ Add(s, Subscription("replay", start, stop, first, last, 0), first)

\* expire_subscription; what has been read is of no more interest.
Remove(s) ==
    /\ sub' = [sub EXCEPT ![s] = NoSub]
    /\ inbox' = [inbox EXCEPT ![s] = <<>>]
    /\ owed' = [owed EXCEPT ![s] = 1]

\* agt_not_remove_subscription: the session ends.
Close(s) ==
    /\ ~serving
    /\ sub[s] # NoSub
    /\ Remove(s)
    /\ UNCHANGED <<profile, now, log, round>>

-------------------------------------------------------------------------------
(* A burst of send_some_notifications is made of rounds, and in a round    *)
(* agt_not_send_notifications comes to each subscription once.             *)

Serve ==
    /\ ~serving
    /\ serving' = TRUE
    /\ todo' = Subscribed
    /\ UNCHANGED <<profile, now, log, sub, sendcount, sendtotal, inbox, owed>>

\* The round comes to s, which gets nothing.
Visit(s, r) ==
    /\ todo' = todo \ {s}
    /\ sub' = [sub EXCEPT ![s] = r]
    /\ UNCHANGED <<profile, now, log, serving, sendcount, sendtotal, inbox, owed>>

Send(s, r, x) ==
    /\ todo' = todo \ {s}
    /\ sub' = [sub EXCEPT ![s] = r]
    /\ inbox' = [inbox EXCEPT ![s] = Append(@, x)]
    /\ sendcount' = sendcount + 1
    /\ UNCHANGED <<profile, now, log, serving, sendtotal, owed>>

\* The round comes to s, whose subscription is in this state.
Turn(s, state) ==
    /\ serving
    /\ s \in todo
    /\ sub[s].state = state

\* Mutant: a subscription whose message was deleted goes on with the newest.
NewestIfDeleted(id) ==
    IF msgid < oldest \/ msgid <= id THEN 0 ELSE IF id < oldest THEN msgid ELSE id + 1

\* The first message after this id, 0 if there is none.
EntryAfter(id) ==
    IF msgid < oldest \/ msgid <= id THEN 0 ELSE IF id < oldest THEN oldest ELSE id + 1

\* The first to replay is the one found when the subscription was made.
ReplayEntry(r) ==
    EntryAfter(IF r.lastmsgid > 0 THEN r.lastmsgid ELSE r.firstreplaymsgid - 1)

SendReplayed(s) ==
    LET m == ReplayEntry(sub[s]) IN
        /\ Turn(s, "replay") /\ ~sub[s].rcReady
        /\ m # 0
        /\ Send(s, [sub[s] EXCEPT !.lastmsgid = m,
                                  !.rcReady = sub[s].lastreplaymsgid \in 1..m], m)

\* What follows the replay: live, timed, or still to be stopped.
AfterReplay(r) ==
    IF r.stopTime = NoTime THEN "live" ELSE IF r.futurestop THEN "timed" ELSE "replay"

\* Nothing is left in the log.
ReplayExhausted(s) ==
    /\ Turn(s, "replay") /\ ~sub[s].rcReady
    /\ ReplayEntry(sub[s]) = 0
    /\ Send(s, [sub[s] EXCEPT !.rcReady = TRUE, !.rcDone = TRUE,
                              !.state = AfterReplay(sub[s])], ReplayComplete)

SendReplayComplete(s) ==
    /\ Turn(s, "replay") /\ sub[s].rcReady /\ ~sub[s].rcDone
    /\ Send(s, [sub[s] EXCEPT !.rcDone = TRUE], ReplayComplete)

LeaveReplay(s) ==
    /\ Turn(s, "replay") /\ sub[s].rcDone
    /\ AfterReplay(sub[s]) # "replay"
    /\ Visit(s, [sub[s] EXCEPT !.state = AfterReplay(sub[s])])

\* Mutant: the mark is not noted as sent.
StopNotNoted(s) ==
    /\ Turn(s, "replay") /\ sub[s].rcDone
    /\ AfterReplay(sub[s]) = "replay"
    /\ Send(s, [sub[s] EXCEPT !.state = "shutdown"], NotificationComplete)

\* stopTime was in the past already.
StopReplay(s) ==
    /\ Turn(s, "replay") /\ sub[s].rcDone
    /\ AfterReplay(sub[s]) = "replay"
    /\ Send(s, [sub[s] EXCEPT !.ncDone = TRUE, !.state = "shutdown"], NotificationComplete)

SendLive(s) ==
    LET m == EntryAfter(sub[s].lastmsgid) IN
        /\ Turn(s, "live")
        /\ m # 0
        /\ Send(s, [sub[s] EXCEPT !.lastmsgid = m], m)

\* Mutant: stopTime is compared with the clock only, when nothing is to be sent.
TimedByClock(s) ==
    LET m == EntryAfter(sub[s].lastmsgid) IN
        /\ Turn(s, "timed")
        /\ m # 0
        /\ Send(s, [sub[s] EXCEPT !.lastmsgid = m], m)

\* stopTime is looked at when the event is sent already.
SendTimed(s) ==
    LET m == EntryAfter(sub[s].lastmsgid) IN
        /\ Turn(s, "timed")
        /\ m # 0
        /\ Send(s, [sub[s] EXCEPT !.lastmsgid = m,
                      !.state = IF sub[s].stopTime <= eventTime[m] THEN "shutdown"
                                                                   ELSE "timed"], m)

NothingLive(s) ==
    /\ Turn(s, "live")
    /\ EntryAfter(sub[s].lastmsgid) = 0
    /\ Visit(s, sub[s])

\* Mutant: stopTime is looked at only when an event is sent.
TimedByEvents(s) ==
    /\ Turn(s, "timed")
    /\ EntryAfter(sub[s].lastmsgid) = 0
    /\ Visit(s, sub[s])

NothingTimed(s) ==
    /\ Turn(s, "timed")
    /\ EntryAfter(sub[s].lastmsgid) = 0
    /\ Visit(s, [sub[s] EXCEPT !.state = IF sub[s].stopTime <= now THEN "shutdown"
                                                                    ELSE "timed"])

SendNotificationComplete(s) ==
    /\ Turn(s, "shutdown") /\ ~sub[s].ncDone
    /\ Send(s, [sub[s] EXCEPT !.ncDone = TRUE], NotificationComplete)

ExpireSubscription(s) ==
    /\ Turn(s, "shutdown") /\ sub[s].ncDone
    /\ Remove(s)
    /\ todo' = todo \ {s}
    /\ UNCHANGED <<profile, now, log, serving, sendcount, sendtotal>>

\* What is sent by now; more than maxburst is not told apart.
Total == IF sendtotal + sendcount < maxburst THEN sendtotal + sendcount ELSE maxburst

Enough == sendcount = 0 \/ (maxburst > 0 /\ Total = maxburst)

NextRound ==
    /\ serving /\ todo = {} /\ ~Enough
    /\ todo' = Subscribed
    /\ sendtotal' = Total
    /\ sendcount' = 0
    /\ UNCHANGED <<profile, now, log, sub, serving, inbox, owed>>

EndBurst ==
    /\ serving /\ todo = {} /\ Enough
    /\ CleanEventlog
    /\ serving' = FALSE
    /\ sendcount' = 0
    /\ sendtotal' = 0
    /\ UNCHANGED <<profile, now, eventTime, notification_count, sub, todo, inbox, owed>>

-------------------------------------------------------------------------------

Handler ==
    \/ QueueNotification
    \/ \E s \in Session :
         \/ SubscribeLive(s)
         \/ Close(s)
         \/ \E w \in Windows[s] :
              SubscribeEmpty(s, w[1], w[2]) \/ SubscribeReplay(s, w[1], w[2])

\* agt_not_send_notifications for one subscription.
ServeOne(s) ==
    \/ SendReplayed(s)
    \/ ReplayExhausted(s)
    \/ SendReplayComplete(s)
    \/ LeaveReplay(s)
    \/ StopReplay(s)
    \/ SendLive(s)
    \/ SendTimed(s)
    \/ NothingLive(s)
    \/ NothingTimed(s)
    \/ SendNotificationComplete(s)
    \/ ExpireSubscription(s)

Burst == Serve \/ (\E s \in Session : ServeOne(s)) \/ NextRound \/ EndBurst

Next == Tick \/ Handler \/ Burst

Spec == Init /\ [][Next]_vars

\* The loop comes to send_some_notifications after every request and when
\* select times out; the clock goes on whatever the server does.
FairSpec == Spec /\ WF_vars(Burst) /\ SF_vars(Tick)
-------------------------------------------------------------------------------
(* Properties. *)

Mark == {ReplayComplete, NotificationComplete}

\* Type correctness.
TypeOK ==
    /\ eventlog_size \in Sizes
    /\ maxburst \in Bursts
    /\ now \in Nat
    /\ eventTime \in Seq(Nat)
    /\ oldest \in Nat
    /\ notification_count \in Nat
    /\ sub \in [Session -> {NoSub} \cup Record]
    /\ serving \in BOOLEAN
    /\ todo \subseteq Session
    /\ sendcount \in Nat
    /\ sendtotal \in Nat
    /\ inbox \in [Session -> Seq(Nat \cup Mark)]
    /\ owed \in [Session -> Nat]

\* Where a session is in its subscription, as RFC 5277 has it.
Phase(r) ==
    IF r = NoSub THEN "closed"
    ELSE IF r.ncDone THEN "over"
    ELSE IF r.state # "live" /\ ~r.rcDone THEN "replay"
    ELSE IF r.stopTime = NoTime THEN "live" ELSE "timed"

\* Whatever is deleted from the log, and wherever a burst ends, a session
\* reads what NotificationStream allows.
Stream == INSTANCE NotificationStream WITH
    Event <- 1..MaxEvents,
    phase <- [s \in Session |-> Phase(sub[s])]

InOrder == Stream!Spec

Received(s) == {inbox[s][i] : i \in 1..Len(inbox[s])} \ Mark

EmptyReplay(r) == r.startTime # NoTime /\ r.firstreplaymsgid = 0

\* A session gets every event it is owed up to the last it was sent, and no
\* other: one that is missing was deleted from a full log.  It may be otherwise
\* after a replay that found nothing only (agt_not.c:1738-1740 "find the lowest
\* msgid that has been delivered to all the sessions").
NothingLost ==
    \A s \in Subscribed :
        EmptyReplay(sub[s]) \/
            /\ \A m \in Received(s) : owed[s] <= m
            /\ \A m \in owed[s]..sub[s].lastmsgid :
                 m \in Received(s) \/ (eventlog_size > 0 /\ m < oldest)

\* Without a log, messages go as soon as all have got them, and the pointers of
\* a subscription are not cleared then: one that will be followed must not
\* point to a message that is gone.
PointersLive ==
    eventlog_size = 0 =>
        \A s \in Subscribed :
            /\ sub[s].lastmsgid > 0 => sub[s].lastmsgid \in oldest..msgid
            /\ sub[s].state = "replay" /\ ~sub[s].rcReady /\ sub[s].lastmsgid = 0 =>
                 sub[s].firstreplaymsgid \in oldest..msgid

Late(s) == {m \in Received(s) : sub[s].stopTime < eventTime[m]}

\* Past its stopTime a session gets one event at most, if stopTime was to come
\* when it subscribed, and one more if the end of its replay has been deleted
\* (agt_not.c:1639-1645).
StopKept ==
    \A s \in Subscribed :
        sub[s].stopTime # NoTime =>
            Cardinality(Late(s)) <=
                (IF sub[s].futurestop THEN 1 ELSE 0)
                + (IF sub[s].lastreplaymsgid \in 1..(oldest - 1) THEN 1 ELSE 0)

\* A subscription with a stop time comes to its end.
StopEnds ==
    \A s \in Session :
        (sub[s] # NoSub /\ sub[s].stopTime # NoTime) ~> sub[s] = NoSub
===============================================================================
