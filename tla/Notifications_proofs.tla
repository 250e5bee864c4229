-------------------------- MODULE Notifications_proofs --------------------------
(***************************************************************************)
(* Proofs about Notifications, for any sessions, bounds, sizes of the log  *)
(* and bursts.  What a round does with one subscription is summed up first *)
(* (Served): the session gets an event, a mark or nothing.                 *)
(***************************************************************************)
EXTENDS Notifications, FiniteSetTheorems, TLAPS

\* The log is where the counter says, or longer.
LogOK ==
    /\ 1 <= oldest /\ oldest <= msgid + 1
    /\ msgid <= MaxEvents
    /\ eventlog_size > 0 => notification_count <= msgid - oldest + 1
    /\ eventlog_size > 0 /\ msgid > 0 => oldest <= msgid

\* A round visits subscriptions that are there.
TodoOK == todo \subseteq Subscribed /\ (~serving => todo = {})

\* The states of a subscription and its flags.
Flags ==
    \A s \in Subscribed :
        /\ sub[s].rcDone => sub[s].rcReady
        /\ sub[s].state = "live" => sub[s].stopTime = NoTime
        /\ sub[s].state \in {"timed", "shutdown"} => sub[s].stopTime # NoTime /\ sub[s].rcDone
        /\ sub[s].ncDone => sub[s].state = "shutdown"

\* Nothing was sent from beyond the last message.
Cursor ==
    \A s \in Session :
        sub[s] # NoSub =>
            /\ sub[s].lastmsgid <= msgid
            /\ \A i \in 1..Len(inbox[s]) : inbox[s][i] \in Nat => inbox[s][i] <= sub[s].lastmsgid

\* Sessions without a subscription have read nothing.
Unread == \A s \in Session : sub[s] = NoSub => inbox[s] = <<>>

\* A replay that is to begin.
Pending(s) == sub[s].state = "replay" /\ ~sub[s].rcReady /\ sub[s].lastmsgid = 0

\* A round that has come to a subscription has begun its replay, and has left
\* nothing in the log for one that was sent nothing.
Visited ==
    serving => \A s \in Subscribed \ todo :
        /\ ~Pending(s)
        /\ ~EmptyReplay(sub[s]) /\ sub[s].lastmsgid = 0 => msgid < oldest

\* Where a session that is owed something starts.
Starts ==
    \A s \in Subscribed :
        /\ Pending(s) => /\ sub[s].firstreplaymsgid \in 1..msgid
                         /\ owed[s] = sub[s].firstreplaymsgid
        /\ ~EmptyReplay(sub[s]) =>
             /\ owed[s] >= 1
             /\ sub[s].lastmsgid > 0 => owed[s] <= sub[s].lastmsgid + 1
             /\ sub[s].lastmsgid = 0 /\ ~Pending(s) =>
                  /\ sub[s].state = "live"
                  /\ owed[s] <= oldest
                  /\ eventlog_size = 0 => owed[s] = oldest

\* No event is later than the clock, and a session is sent events of the log.
TimesOK == \A m \in 1..msgid : eventTime[m] <= now
ReceivedOK == \A s \in Session : Received(s) \subseteq 1..msgid

\* A replay that goes on is not at its last message yet, and no message up to
\* that one is later than stopTime.
Ahead(r) ==
    /\ r.firstreplaymsgid >= 1
    /\ r.lastreplaymsgid \in r.firstreplaymsgid..msgid
    /\ \A m \in r.firstreplaymsgid..r.lastreplaymsgid : eventTime[m] <= r.stopTime
    /\ r.lastmsgid < r.lastreplaymsgid
    /\ r.lastmsgid > 0 => r.firstreplaymsgid <= r.lastmsgid

\* How many events may have come after stopTime so far: one that ended the
\* subscription, one sent in place of the end of the replay.
Ended(r) == IF r.state = "shutdown" /\ r.futurestop THEN 1 ELSE 0
Evicted(r) == IF r.rcReady /\ r.lastreplaymsgid \in 1..(oldest - 1) THEN 1 ELSE 0

Stops(s) ==
    sub[s].stopTime # NoTime =>
        /\ sub[s].state = "timed" => sub[s].futurestop
        /\ sub[s].state = "replay" /\ ~sub[s].rcReady => Ahead(sub[s])
        /\ Cardinality(Late(s)) <= Ended(sub[s]) + Evicted(sub[s])

StopInv == \A s \in Subscribed : Stops(s)

\* The inductive invariant.
IInv ==
    /\ TypeOK /\ LogOK /\ TodoOK /\ Flags /\ Cursor /\ Unread
    /\ Visited /\ Starts /\ PointersLive /\ NothingLost
    /\ TimesOK /\ ReceivedOK /\ StopInv

-------------------------------------------------------------------------------

\* The next entry of the log: nothing between it and the id is there.
LEMMA EntryOK ==
  ASSUME TypeOK, LogOK, NEW id \in Int
  PROVE  /\ EntryAfter(id) \in Nat
         /\ EntryAfter(id) # 0 =>
              /\ EntryAfter(id) \in oldest..msgid
              /\ id < EntryAfter(id)
              /\ \A k \in (id + 1)..(EntryAfter(id) - 1) : k < oldest
         /\ EntryAfter(id) = 0 => msgid < oldest \/ msgid <= id
  BY DEF TypeOK, LogOK, EntryAfter, msgid

\* A subscription whose turn it is is a record.
LEMMA TodoRecord ==
  ASSUME TypeOK, TodoOK, NEW s \in todo
  PROVE  s \in Session /\ s \in Subscribed /\ sub[s] \in Record
  BY DEF TypeOK, TodoOK, Subscribed

-------------------------------------------------------------------------------
(* What a round does with one subscription q, which becomes r.             *)

\* What the request asked for stays as it is.
Same(r, q) ==
    /\ r.startTime = q.startTime /\ r.stopTime = q.stopTime
    /\ r.futurestop = q.futurestop
    /\ r.firstreplaymsgid = q.firstreplaymsgid
    /\ r.lastreplaymsgid = q.lastreplaymsgid

\* The id after which the log is read.
From(q) ==
    IF q.state = "replay" /\ q.lastmsgid = 0 THEN q.firstreplaymsgid - 1 ELSE q.lastmsgid

GetsEvent(s, q, r) ==
    /\ Same(r, q)
    /\ q.state \in {"replay", "live", "timed"}
    /\ q.state = "replay" => ~q.rcReady
    /\ r.lastmsgid = EntryAfter(From(q)) /\ r.lastmsgid # 0
    /\ r.rcDone = q.rcDone /\ r.ncDone = q.ncDone /\ (q.rcReady => r.rcReady)
    /\ q.state = "replay" /\ ~r.rcReady => q.lastreplaymsgid \notin 1..r.lastmsgid
    /\ q.state = "replay" /\ r.rcReady => q.lastreplaymsgid \in 1..r.lastmsgid
    /\ q.state # "replay" => r.rcReady = q.rcReady
    /\ r.state = q.state \/ (q.state = "timed" /\ r.state = "shutdown")
    /\ q.state = "timed" /\ r.state = "timed" => ~(q.stopTime <= eventTime[r.lastmsgid])
    /\ Send(s, r, r.lastmsgid)

GetsReplayComplete(s, q, r) ==
    /\ Same(r, q)
    /\ r.lastmsgid = q.lastmsgid
    /\ q.state = "replay" /\ ~q.rcDone
    /\ q.rcReady \/ EntryAfter(From(q)) = 0
    /\ r.rcReady /\ r.rcDone /\ r.ncDone = q.ncDone
    /\ r.state \in {"replay", AfterReplay(q)}
    /\ Send(s, r, ReplayComplete)

GetsNotificationComplete(s, q, r) ==
    /\ Same(r, q)
    /\ r.lastmsgid = q.lastmsgid
    /\ \/ q.state = "replay" /\ q.rcDone /\ AfterReplay(q) = "replay"
       \/ q.state = "shutdown" /\ ~q.ncDone
    /\ r.rcReady = q.rcReady /\ r.rcDone = q.rcDone /\ r.ncDone
    /\ r.state = "shutdown"
    /\ Send(s, r, NotificationComplete)

GetsNothing(s, q, r) ==
    /\ Same(r, q)
    /\ r.lastmsgid = q.lastmsgid
    /\ r.rcReady = q.rcReady /\ r.rcDone = q.rcDone /\ r.ncDone = q.ncDone
    /\ \/ q.state = "replay" /\ q.rcDone /\ r.state = AfterReplay(q)
       \/ q.state = "live" /\ r.state = "live" /\ EntryAfter(q.lastmsgid) = 0
       \/ q.state = "timed" /\ r.state \in {"timed", "shutdown"} /\ EntryAfter(q.lastmsgid) = 0
    /\ Visit(s, r)

Gets(s, q, r) ==
    \/ GetsEvent(s, q, r)
    \/ GetsReplayComplete(s, q, r)
    \/ GetsNotificationComplete(s, q, r)
    \/ GetsNothing(s, q, r)

\* Every action of a round but ExpireSubscription is one of these.
LEMMA Served ==
  ASSUME TypeOK, LogOK, TodoOK, Flags, NEW s \in Session, ServeOne(s)
  PROVE  \/ ExpireSubscription(s)
         \/ /\ s \in todo /\ s \in Subscribed /\ sub[s] \in Record
            /\ \E r \in Record : Gets(s, sub[s], r)

<1> DEFINE Goal == s \in todo /\ \E r \in Record : Gets(s, sub[s], r)
<1>1. ASSUME SendReplayed(s) PROVE Goal
  <2> DEFINE q == sub[s]
             r == [q EXCEPT !.lastmsgid = ReplayEntry(sub[s]),
                                          !.rcReady = sub[s].lastreplaymsgid \in 1..ReplayEntry(sub[s])]
  <2>1. s \in todo /\ q \in Record
    BY <1>1, TodoRecord DEF SendReplayed, Turn
  <2>2. ReplayEntry(sub[s]) \in Nat
    BY <2>1, EntryOK DEF Record, ReplayEntry
  <2>3. \A b \in BOOLEAN :
          LET x == [q EXCEPT !.lastmsgid = ReplayEntry(q), !.rcReady = b]
          IN  /\ x \in Record /\ Same(x, q)
              /\ x.rcReady = b /\ x.lastmsgid = ReplayEntry(q)
              /\ x.state = q.state /\ x.rcDone = q.rcDone /\ x.ncDone = q.ncDone
    BY <2>1, <2>2 DEF Record, Same
  <2>4. (q.lastreplaymsgid \in 1..ReplayEntry(q)) \in BOOLEAN
    OBVIOUS
  <2>5. /\ r \in Record /\ Same(r, q)
        /\ r.rcReady <=> q.lastreplaymsgid \in 1..ReplayEntry(q)
        /\ r.lastmsgid = ReplayEntry(q)
        /\ r.state = q.state /\ r.rcDone = q.rcDone /\ r.ncDone = q.ncDone
    BY <2>3, <2>4
  <2>6. /\ q.state = "replay" /\ ~q.rcReady /\ ReplayEntry(q) # 0
        /\ Send(s, r, ReplayEntry(q))
    BY <1>1 DEF SendReplayed, Turn
  <2>7. ReplayEntry(q) = EntryAfter(From(q))
    BY <2>1, <2>6 DEF ReplayEntry, From, Record
  <2>8. GetsEvent(s, q, r)
    <3> HIDE DEF q, r
    <3> QED
      BY <2>5, <2>6, <2>7 DEF GetsEvent
  <2>9. QED
    BY <2>1, <2>5, <2>8 DEF Gets
<1>2. ASSUME ReplayExhausted(s) PROVE Goal
  <2> DEFINE q == sub[s]
             r == [q EXCEPT !.rcReady = TRUE, !.rcDone = TRUE,
                                          !.state = AfterReplay(sub[s])]
  <2>1. s \in todo /\ q \in Record
    BY <1>2, TodoRecord DEF ReplayExhausted, Turn
  <2>2. r \in Record
    BY <2>1 DEF Record, AfterReplay
  <2>3. EntryAfter(From(q)) = 0
    BY <1>2, <2>1 DEF ReplayExhausted, ReplayEntry, From, Turn, Record
  <2>4. Send(s, r, ReplayComplete)
    BY <1>2 DEF ReplayExhausted
  <2>5. AfterReplay(q) \in {"live", "timed", "replay"}
    BY DEF AfterReplay
  <2>6. r.state = AfterReplay(q) /\ r.rcReady /\ r.rcDone
    BY <2>1, <2>5 DEF Record
  <2>7. q.state = "replay" /\ ~q.rcReady /\ q.rcReady \in BOOLEAN
    BY <1>2, <2>1 DEF ReplayExhausted, Turn, Record
  <2>8. Same(r, q) /\ r.lastmsgid = q.lastmsgid /\ r.ncDone = q.ncDone
    BY <2>1 DEF Same, Record
  <2>9. ~q.rcDone
    BY <2>1, <2>7, TodoRecord DEF Flags, Record
  <2>10. r.state \in {"replay", AfterReplay(q)}
    BY <2>6
  <2>11. GetsReplayComplete(s, q, r)
    <3> HIDE DEF r, q
    <3> QED
      BY <2>3, <2>4, <2>6, <2>7, <2>8, <2>9, <2>10 DEF GetsReplayComplete
  <2>12. QED
    BY <2>1, <2>2, <2>11 DEF Gets
<1>3. ASSUME SendReplayComplete(s) PROVE Goal
  <2> DEFINE q == sub[s]
             r == [q EXCEPT !.rcDone = TRUE]
  <2>1. s \in todo /\ q \in Record
    BY <1>3, TodoRecord DEF SendReplayComplete, Turn
  <2>2. r \in Record
    BY <2>1 DEF Record
  <2>3. GetsReplayComplete(s, q, r)
    BY <1>3, <2>1, <2>2, EntryOK
    DEF GetsReplayComplete, SendReplayComplete, Turn, Same, Record
  <2>4. QED
    BY <2>1, <2>2, <2>3 DEF Gets
<1>4. ASSUME LeaveReplay(s) PROVE Goal
  <2> DEFINE q == sub[s]
             r == [q EXCEPT !.state = AfterReplay(sub[s])]
  <2>1. s \in todo /\ q \in Record
    BY <1>4, TodoRecord DEF LeaveReplay, Turn
  <2>2. r \in Record
    BY <2>1 DEF Record, AfterReplay
  <2>3. GetsNothing(s, q, r)
    BY <1>4, <2>1, <2>2, EntryOK
    DEF GetsNothing, LeaveReplay, Turn, Same, Record, AfterReplay
  <2>4. QED
    BY <2>1, <2>2, <2>3 DEF Gets
<1>5. ASSUME StopReplay(s) PROVE Goal
  <2> DEFINE q == sub[s]
             r == [q EXCEPT !.ncDone = TRUE, !.state = "shutdown"]
  <2>1. s \in todo /\ q \in Record
    BY <1>5, TodoRecord DEF StopReplay, Turn
  <2>2. r \in Record
    BY <2>1 DEF Record, AfterReplay
  <2>3. GetsNotificationComplete(s, q, r)
    BY <1>5, <2>1, <2>2, EntryOK
    DEF GetsNotificationComplete, StopReplay, Turn, Same, Record
  <2>4. QED
    BY <2>1, <2>2, <2>3 DEF Gets
<1>6. ASSUME SendLive(s) PROVE Goal
  <2> DEFINE q == sub[s]
             r == [q EXCEPT !.lastmsgid = EntryAfter(sub[s].lastmsgid)]
  <2>1. s \in todo /\ q \in Record
    BY <1>6, TodoRecord DEF SendLive, Turn
  <2>2. EntryAfter(sub[s].lastmsgid) \in Nat
    BY <2>1, EntryOK DEF Record
  <2>3. r \in Record
    BY <2>1, <2>2 DEF Record
  <2>4. GetsEvent(s, q, r)
    BY <1>6, <2>1, <2>3, <2>2, EntryOK
    DEF GetsEvent, SendLive, Turn, Same, Record, From
  <2>5. QED
    BY <2>1, <2>3, <2>4 DEF Gets
<1>7. ASSUME SendTimed(s) PROVE Goal
  <2> DEFINE q == sub[s]
             r == [q EXCEPT !.lastmsgid = EntryAfter(sub[s].lastmsgid),
                      !.state = IF sub[s].stopTime <= eventTime[EntryAfter(sub[s].lastmsgid)]
                                           THEN "shutdown" ELSE "timed"]
  <2>1. s \in todo /\ q \in Record
    BY <1>7, TodoRecord DEF SendTimed, Turn
  <2>2. EntryAfter(sub[s].lastmsgid) \in Nat
    BY <2>1, EntryOK DEF Record
  <2>3. r \in Record
    BY <2>1, <2>2 DEF Record
  <2>4. GetsEvent(s, q, r)
    BY <1>7, <2>1, <2>3, <2>2, EntryOK
    DEF GetsEvent, SendTimed, Turn, Same, Record, From
  <2>5. QED
    BY <2>1, <2>3, <2>4 DEF Gets
<1>8. ASSUME NothingLive(s) PROVE Goal
  <2> DEFINE q == sub[s]
             r == sub[s]
  <2>1. s \in todo /\ q \in Record
    BY <1>8, TodoRecord DEF NothingLive, Turn
  <2>2. r \in Record
    BY <2>1 DEF Record
  <2>3. GetsNothing(s, q, r)
    BY <1>8, <2>1, <2>2, EntryOK
    DEF GetsNothing, NothingLive, Turn, Same, Record
  <2>4. QED
    BY <2>1, <2>2, <2>3 DEF Gets
<1>9. ASSUME NothingTimed(s) PROVE Goal
  <2> DEFINE q == sub[s]
             r == [q EXCEPT !.state = IF sub[s].stopTime <= now THEN "shutdown" ELSE "timed"]
  <2>1. s \in todo /\ q \in Record
    BY <1>9, TodoRecord DEF NothingTimed, Turn
  <2>2. r \in Record
    BY <2>1 DEF Record
  <2>3. GetsNothing(s, q, r)
    BY <1>9, <2>1, <2>2, EntryOK
    DEF GetsNothing, NothingTimed, Turn, Same, Record
  <2>4. QED
    BY <2>1, <2>2, <2>3 DEF Gets
<1>10. ASSUME SendNotificationComplete(s) PROVE Goal
  <2> DEFINE q == sub[s]
             r == [q EXCEPT !.ncDone = TRUE]
  <2>1. s \in todo /\ q \in Record
    BY <1>10, TodoRecord DEF SendNotificationComplete, Turn
  <2>2. r \in Record
    BY <2>1 DEF Record
  <2>3. GetsNotificationComplete(s, q, r)
    BY <1>10, <2>1, <2>2, EntryOK
    DEF GetsNotificationComplete, SendNotificationComplete, Turn, Same, Record
  <2>4. QED
    BY <2>1, <2>2, <2>3 DEF Gets
<1>11. QED
  BY <1>1, <1>2, <1>3, <1>4, <1>5, <1>6, <1>7, <1>8, <1>9, <1>10, TodoRecord DEF ServeOne

-------------------------------------------------------------------------------

\* Sending keeps the types, whatever the new record of the subscription is.
LEMMA SendType ==
  ASSUME TypeOK, NEW s \in Session, NEW r \in Record, NEW x \in Nat \cup Mark, Send(s, r, x)
  PROVE  TypeOK'
<1>1. sub' \in [Session -> {NoSub} \cup Record]
  BY DEF Send, TypeOK
<1>2. inbox' \in [Session -> Seq(Nat \cup Mark)]
  <2>1. Append(inbox[s], x) \in Seq(Nat \cup Mark)
    BY DEF TypeOK
  <2>2. QED
    BY <2>1 DEF Send, TypeOK
<1>3. QED
  BY <1>1, <1>2 DEF Send, TypeOK, profile, log

\* So does a visit.
LEMMA VisitType ==
  ASSUME TypeOK, NEW s \in Session, NEW r \in Record, Visit(s, r)
  PROVE  TypeOK'
<1>1. sub' \in [Session -> {NoSub} \cup Record]
  BY DEF Visit, TypeOK
<1>2. QED
  BY <1>1 DEF Visit, TypeOK, profile, log

\* So does a new subscription.
LEMMA AddType ==
  ASSUME TypeOK, NEW s \in Session, NEW r \in Record, NEW first \in Nat, Add(s, r, first)
  PROVE  TypeOK'
<1>1. sub' \in [Session -> {NoSub} \cup Record]
  BY DEF Add, TypeOK
<1>2. owed' \in [Session -> Nat]
  BY DEF Add, TypeOK
<1>3. QED
  BY <1>1, <1>2 DEF Add, TypeOK, profile, log, round

\* Types are kept.
LEMMA TypeStep ==
  ASSUME TypeOK, LogOK, TodoOK, Flags, [Next]_vars
  PROVE  TypeOK'
<1>1. CASE Tick
  BY <1>1
  DEF TypeOK, Tick, profile, log, round
<1>2. CASE QueueNotification
  <2>1. eventTime' \in Seq(Nat)
    BY <1>2 DEF QueueNotification, TypeOK
  <2>2. oldest' \in Nat /\ notification_count' \in Nat
    BY <1>2, BoundsAreNumbers DEF QueueNotification, DeleteOldest, TypeOK
  <2>3. QED
    BY <1>2, <2>1, <2>2 DEF QueueNotification, TypeOK, profile, round
<1>3. ASSUME NEW s \in Session, SubscribeLive(s) PROVE TypeOK'
  <2> DEFINE c == IF oldest <= msgid THEN msgid ELSE 0
  <2>1. c \in Nat /\ msgid \in Nat
    BY DEF TypeOK, msgid
  <2>2. Subscription("live", NoTime, NoTime, 0, 0, c) \in Record
    BY <2>1 DEF Subscription, Record, TypeOK, NoTime
  <2>3. Add(s, Subscription("live", NoTime, NoTime, 0, 0, c), msgid + 1)
    BY <1>3 DEF SubscribeLive
  <2>4. QED
    BY <2>1, <2>2, <2>3, AddType
<1>4. ASSUME NEW s \in Session, NEW w \in Windows[s], SubscribeEmpty(s, w[1], w[2]) PROVE TypeOK'
  <2>1. w[1] \in Nat /\ w[2] \in Nat /\ msgid \in Nat
    BY WindowsAreTimes DEF TypeOK, msgid, NoTime
  <2>2. Subscription("replay", w[1], w[2], 0, 0, 0) \in Record
    BY <2>1 DEF Subscription, Record, TypeOK
  <2>3. Add(s, Subscription("replay", w[1], w[2], 0, 0, 0), msgid + 1)
    BY <1>4 DEF SubscribeEmpty
  <2>4. QED
    BY <2>1, <2>2, <2>3, AddType
<1>5. ASSUME NEW s \in Session, NEW w \in Windows[s], SubscribeReplay(s, w[1], w[2]) PROVE TypeOK'
  <2>1. w[1] \in Nat /\ w[2] \in Nat
    BY WindowsAreTimes DEF NoTime
  <2>2. PICK first \in Since(w[1]), last \in 0..msgid :
          Add(s, Subscription("replay", w[1], w[2], first, last, 0), first)
    BY <1>5 DEF SubscribeReplay
  <2>3. first \in Nat /\ last \in Nat
    BY DEF TypeOK, Since, msgid
  <2>4. Subscription("replay", w[1], w[2], first, last, 0) \in Record
    BY <2>1, <2>3 DEF Subscription, Record, TypeOK
  <2>5. QED
    BY <2>2, <2>3, <2>4, AddType
<1>6. ASSUME NEW s \in Session, Close(s) PROVE TypeOK'
  BY <1>6 DEF Close, Remove, TypeOK, profile, log, round
<1>7. CASE Serve
  BY <1>7 DEF Serve, TypeOK, Subscribed, profile, log
<1>8. ASSUME NEW s \in Subscribed, NEW r \in Record, s \in todo, sub[s] \in Record, GetsEvent(s, sub[s], r)
      PROVE TypeOK'
  BY <1>8, SendType DEF GetsEvent, Subscribed, Record, Mark
<1>9. ASSUME NEW s \in Subscribed, NEW r \in Record, s \in todo, sub[s] \in Record, GetsReplayComplete(s, sub[s], r)
      PROVE TypeOK'
  BY <1>9, SendType DEF GetsReplayComplete, Subscribed, Record, Mark
<1>10. ASSUME NEW s \in Subscribed, NEW r \in Record, s \in todo, sub[s] \in Record, GetsNotificationComplete(s, sub[s], r)
      PROVE TypeOK'
  BY <1>10, SendType DEF GetsNotificationComplete, Subscribed, Record, Mark
<1>11. ASSUME NEW s \in Subscribed, NEW r \in Record, s \in todo, sub[s] \in Record, GetsNothing(s, sub[s], r)
      PROVE TypeOK'
  BY <1>11, VisitType DEF GetsNothing, Subscribed
<1>12. ASSUME NEW s \in Session, ExpireSubscription(s) PROVE TypeOK'
  BY <1>12 DEF ExpireSubscription, Remove, TypeOK, profile, log
<1>13. CASE NextRound
  <2>1. sendtotal' \in Nat
    BY <1>13, BoundsAreNumbers DEF NextRound, Total, TypeOK
  <2>2. QED
    BY <1>13, <2>1 DEF NextRound, TypeOK, Subscribed, profile, log
<1>14. CASE EndBurst
  <2>1. oldest' \in Nat
    BY <1>14 DEF EndBurst, CleanEventlog, TypeOK, msgid
  <2>2. QED
    BY <1>14, <2>1 DEF EndBurst, TypeOK, profile
<1>15. CASE UNCHANGED vars
  BY <1>15 
  DEF TypeOK, vars
<1>16. QED
  BY <1>1, <1>2, <1>3, <1>4, <1>5, <1>6, <1>7, <1>8, <1>9, <1>10, <1>11, <1>12, <1>13, <1>14, <1>15, Served
  DEF Next, Handler, Burst, Gets


\* The log is where the counter says, or longer.
LEMMA LogStep ==
  ASSUME TypeOK, LogOK, TodoOK, Flags, [Next]_vars
  PROVE  LogOK'
<1>1. CASE Tick
  BY <1>1, BoundsAreNumbers
  DEF TypeOK, LogOK, msgid, Tick, profile, log, round
<1>2. CASE QueueNotification
  <2>1. Len(eventTime') = Len(eventTime) + 1
    BY <1>2 DEF QueueNotification, TypeOK
  <2>2. QED
    BY <1>2, <2>1, BoundsAreNumbers DEF QueueNotification, DeleteOldest, TypeOK, LogOK, msgid, profile
<1>3. ASSUME NEW s \in Session, SubscribeLive(s) PROVE LogOK'
  BY <1>3, BoundsAreNumbers
  DEF TypeOK, LogOK, msgid, SubscribeLive, Add, Subscription, profile, log, round
<1>4. ASSUME NEW s \in Session, NEW w \in Windows[s], SubscribeEmpty(s, w[1], w[2]) PROVE LogOK'
  BY <1>4, BoundsAreNumbers
  DEF TypeOK, LogOK, msgid, SubscribeEmpty, Add, Subscription, profile, log, round, Since
<1>5. ASSUME NEW s \in Session, NEW w \in Windows[s], SubscribeReplay(s, w[1], w[2]) PROVE LogOK'
  BY <1>5, BoundsAreNumbers
  DEF TypeOK, LogOK, msgid, SubscribeReplay, Add, Subscription, profile, log, round, Since, EndsReplay
<1>6. ASSUME NEW s \in Session, Close(s) PROVE LogOK'
  BY <1>6, BoundsAreNumbers
  DEF TypeOK, LogOK, msgid, Close, Remove, profile, log, round
<1>7. CASE Serve
  BY <1>7, BoundsAreNumbers
  DEF TypeOK, LogOK, msgid, Serve, profile, log
<1>8. ASSUME NEW s \in Subscribed, NEW r \in Record, s \in todo, sub[s] \in Record, GetsEvent(s, sub[s], r)
      PROVE LogOK'
  BY <1>8, BoundsAreNumbers
  DEF TypeOK, LogOK, msgid, GetsEvent, Send, Same, profile, log
<1>9. ASSUME NEW s \in Subscribed, NEW r \in Record, s \in todo, sub[s] \in Record, GetsReplayComplete(s, sub[s], r)
      PROVE LogOK'
  BY <1>9, BoundsAreNumbers
  DEF TypeOK, LogOK, msgid, GetsReplayComplete, Send, Same, profile, log
<1>10. ASSUME NEW s \in Subscribed, NEW r \in Record, s \in todo, sub[s] \in Record, GetsNotificationComplete(s, sub[s], r)
      PROVE LogOK'
  BY <1>10, BoundsAreNumbers
  DEF TypeOK, LogOK, msgid, GetsNotificationComplete, Send, Same, profile, log
<1>11. ASSUME NEW s \in Subscribed, NEW r \in Record, s \in todo, sub[s] \in Record, GetsNothing(s, sub[s], r)
      PROVE LogOK'
  BY <1>11, BoundsAreNumbers
  DEF TypeOK, LogOK, msgid, GetsNothing, Visit, Same, profile, log
<1>12. ASSUME NEW s \in Session, ExpireSubscription(s) PROVE LogOK'
  BY <1>12, BoundsAreNumbers
  DEF TypeOK, LogOK, msgid, ExpireSubscription, Turn, Remove, profile, log
<1>13. CASE NextRound
  BY <1>13, BoundsAreNumbers
  DEF TypeOK, LogOK, msgid, NextRound, profile, log, Total
<1>14. CASE EndBurst
  BY <1>14, BoundsAreNumbers
  DEF TypeOK, LogOK, msgid, EndBurst, CleanEventlog, Passed, profile
<1>15. CASE UNCHANGED vars
  BY <1>15, BoundsAreNumbers
  DEF TypeOK, LogOK, msgid, vars
<1>16. QED
  BY <1>1, <1>2, <1>3, <1>4, <1>5, <1>6, <1>7, <1>8, <1>9, <1>10, <1>11, <1>12, <1>13, <1>14, <1>15, Served
  DEF Next, Handler, Burst, Gets


\* A round visits subscriptions that are there.
LEMMA TodoStep ==
  ASSUME TypeOK, LogOK, TodoOK, Flags, [Next]_vars
  PROVE  TodoOK'
<1>1. CASE Tick
  BY <1>1, NoSubIsNoRecord
  DEF TypeOK, TodoOK, Subscribed, Tick, profile, log, round
<1>2. CASE QueueNotification
  BY <1>2, NoSubIsNoRecord
  DEF TypeOK, TodoOK, Subscribed, QueueNotification, DeleteOldest, profile, round
<1>3. ASSUME NEW s \in Session, SubscribeLive(s) PROVE TodoOK'
  BY <1>3, NoSubIsNoRecord
  DEF TypeOK, TodoOK, Subscribed, SubscribeLive, Add, Subscription, profile, log, round
<1>4. ASSUME NEW s \in Session, NEW w \in Windows[s], SubscribeEmpty(s, w[1], w[2]) PROVE TodoOK'
  BY <1>4, NoSubIsNoRecord
  DEF TypeOK, TodoOK, Subscribed, SubscribeEmpty, Add, Subscription, profile, log, round, Since
<1>5. ASSUME NEW s \in Session, NEW w \in Windows[s], SubscribeReplay(s, w[1], w[2]) PROVE TodoOK'
  BY <1>5, NoSubIsNoRecord
  DEF TypeOK, TodoOK, Subscribed, SubscribeReplay, Add, Subscription, profile, log, round, Since, EndsReplay
<1>6. ASSUME NEW s \in Session, Close(s) PROVE TodoOK'
  BY <1>6, NoSubIsNoRecord
  DEF TypeOK, TodoOK, Subscribed, Close, Remove, profile, log, round
<1>7. CASE Serve
  BY <1>7 DEF Serve, TodoOK, Subscribed, profile, log, round
<1>8. ASSUME NEW s \in Subscribed, NEW r \in Record, s \in todo, sub[s] \in Record, GetsEvent(s, sub[s], r)
      PROVE TodoOK'
  BY <1>8, NoSubIsNoRecord
  DEF TypeOK, TodoOK, Subscribed, GetsEvent, Send, Same, profile, log
<1>9. ASSUME NEW s \in Subscribed, NEW r \in Record, s \in todo, sub[s] \in Record, GetsReplayComplete(s, sub[s], r)
      PROVE TodoOK'
  BY <1>9, NoSubIsNoRecord
  DEF TypeOK, TodoOK, Subscribed, GetsReplayComplete, Send, Same, profile, log
<1>10. ASSUME NEW s \in Subscribed, NEW r \in Record, s \in todo, sub[s] \in Record, GetsNotificationComplete(s, sub[s], r)
      PROVE TodoOK'
  BY <1>10, NoSubIsNoRecord
  DEF TypeOK, TodoOK, Subscribed, GetsNotificationComplete, Send, Same, profile, log
<1>11. ASSUME NEW s \in Subscribed, NEW r \in Record, s \in todo, sub[s] \in Record, GetsNothing(s, sub[s], r)
      PROVE TodoOK'
  BY <1>11, NoSubIsNoRecord
  DEF TypeOK, TodoOK, Subscribed, GetsNothing, Visit, Same, profile, log
<1>12. ASSUME NEW s \in Session, ExpireSubscription(s) PROVE TodoOK'
  BY <1>12, NoSubIsNoRecord
  DEF TypeOK, TodoOK, Subscribed, ExpireSubscription, Turn, Remove, profile, log
<1>13. CASE NextRound
  BY <1>13 DEF NextRound, TodoOK, Subscribed, profile, log, round
<1>14. CASE EndBurst
  BY <1>14, NoSubIsNoRecord
  DEF TypeOK, TodoOK, Subscribed, EndBurst, CleanEventlog, Passed, profile
<1>15. CASE UNCHANGED vars
  BY <1>15, NoSubIsNoRecord
  DEF TypeOK, TodoOK, Subscribed, vars
<1>16. QED
  BY <1>1, <1>2, <1>3, <1>4, <1>5, <1>6, <1>7, <1>8, <1>9, <1>10, <1>11, <1>12, <1>13, <1>14, <1>15, Served
  DEF Next, Handler, Burst, Gets


\* A turn changes the subscription whose turn it is, and no other.
LEMMA OneChanged ==
  ASSUME TypeOK, NEW s \in Subscribed, NEW r \in Record, NEW x, Send(s, r, x) \/ Visit(s, r)
  PROVE  /\ sub'[s] = r
         /\ Subscribed' = Subscribed
         /\ \A t \in Session \ {s} : sub'[t] = sub[t] /\ inbox'[t] = inbox[t]
<1>1. sub' = [sub EXCEPT ![s] = r]
  BY DEF Send, Visit
<1>2. \A t \in Session \ {s} : inbox'[t] = inbox[t]
  BY DEF Send, Visit, Subscribed, TypeOK
<1>3. QED
  BY <1>1, <1>2, NoSubIsNoRecord DEF Subscribed, TypeOK


\* The flags of a subscription fit its state.
LEMMA FlagsStep ==
  ASSUME TypeOK, LogOK, TodoOK, Flags, [Next]_vars
  PROVE  Flags'
<1>1. CASE Tick
  BY <1>1 DEF Tick, Flags, Subscribed, round
<1>2. CASE QueueNotification
  BY <1>2 DEF QueueNotification, Flags, Subscribed, round
<1>3. ASSUME NEW s \in Session, SubscribeLive(s) PROVE Flags'
  BY <1>3, NoSubIsNoRecord
  DEF TypeOK, Flags, Subscribed, Record, NoTime, SubscribeLive, Add, Subscription, profile, log, round
<1>4. ASSUME NEW s \in Session, NEW w \in Windows[s], SubscribeEmpty(s, w[1], w[2]) PROVE Flags'
  BY <1>4, NoSubIsNoRecord
  DEF TypeOK, Flags, Subscribed, Record, NoTime, SubscribeEmpty, Add, Subscription, profile, log, round, Since
<1>5. ASSUME NEW s \in Session, NEW w \in Windows[s], SubscribeReplay(s, w[1], w[2]) PROVE Flags'
  BY <1>5, NoSubIsNoRecord
  DEF TypeOK, Flags, Subscribed, Record, NoTime, SubscribeReplay, Add, Subscription, profile, log, round, Since, EndsReplay
<1>6. ASSUME NEW s \in Session, Close(s) PROVE Flags'
  BY <1>6, NoSubIsNoRecord
  DEF TypeOK, Flags, Subscribed, Record, NoTime, Close, Remove, profile, log, round
<1>7. CASE Serve
  BY <1>7 DEF Serve, Flags, Subscribed, round
<1>8. ASSUME NEW s \in Subscribed, NEW r \in Record, s \in todo, sub[s] \in Record, GetsEvent(s, sub[s], r)
      PROVE Flags'
  <2>1. /\ sub'[s] = r /\ Subscribed' = Subscribed
        /\ \A t \in Session \ {s} : sub'[t] = sub[t] /\ inbox'[t] = inbox[t]
    BY <1>8, OneChanged DEF GetsEvent
  <2>2. QED
    BY <1>8, <2>1 DEF Flags, GetsEvent, Same, Record, NoTime, AfterReplay, Subscribed
<1>9. ASSUME NEW s \in Subscribed, NEW r \in Record, s \in todo, sub[s] \in Record, GetsReplayComplete(s, sub[s], r)
      PROVE Flags'
  <2>1. /\ sub'[s] = r /\ Subscribed' = Subscribed
        /\ \A t \in Session \ {s} : sub'[t] = sub[t] /\ inbox'[t] = inbox[t]
    BY <1>9, OneChanged DEF GetsReplayComplete
  <2>2. QED
    BY <1>9, <2>1 DEF Flags, GetsReplayComplete, Same, Record, NoTime, AfterReplay, Subscribed
<1>10. ASSUME NEW s \in Subscribed, NEW r \in Record, s \in todo, sub[s] \in Record, GetsNotificationComplete(s, sub[s], r)
      PROVE Flags'
  <2>1. /\ sub'[s] = r /\ Subscribed' = Subscribed
        /\ \A t \in Session \ {s} : sub'[t] = sub[t] /\ inbox'[t] = inbox[t]
    BY <1>10, OneChanged DEF GetsNotificationComplete
  <2>2. QED
    BY <1>10, <2>1 DEF Flags, GetsNotificationComplete, Same, Record, NoTime, AfterReplay, Subscribed
<1>11. ASSUME NEW s \in Subscribed, NEW r \in Record, s \in todo, sub[s] \in Record, GetsNothing(s, sub[s], r)
      PROVE Flags'
  <2>1. /\ sub'[s] = r /\ Subscribed' = Subscribed
        /\ \A t \in Session \ {s} : sub'[t] = sub[t] /\ inbox'[t] = inbox[t]
    BY <1>11, OneChanged DEF GetsNothing
  <2>2. QED
    BY <1>11, <2>1 DEF Flags, GetsNothing, Same, Record, NoTime, AfterReplay, Subscribed
<1>12. ASSUME NEW s \in Session, ExpireSubscription(s) PROVE Flags'
  BY <1>12, NoSubIsNoRecord
  DEF TypeOK, Flags, Subscribed, Record, NoTime, ExpireSubscription, Turn, Remove, profile, log
<1>13. CASE NextRound
  BY <1>13 DEF NextRound, Flags, Subscribed, round
<1>14. CASE EndBurst
  BY <1>14 DEF EndBurst, Flags, Subscribed, round
<1>15. CASE UNCHANGED vars
  BY <1>15, NoSubIsNoRecord
  DEF TypeOK, Flags, Subscribed, Record, NoTime, vars
<1>16. QED
  BY <1>1, <1>2, <1>3, <1>4, <1>5, <1>6, <1>7, <1>8, <1>9, <1>10, <1>11, <1>12, <1>13, <1>14, <1>15, Served
  DEF Next, Handler, Burst, Gets


\* Sessions without a subscription have read nothing.
LEMMA UnreadStep ==
  ASSUME TypeOK, LogOK, TodoOK, Flags, Unread, [Next]_vars
  PROVE  Unread'
<1>1. CASE Tick
  BY <1>1 DEF Tick, Unread, round
<1>2. CASE QueueNotification
  BY <1>2 DEF QueueNotification, Unread, round
<1>3. ASSUME NEW s \in Session, SubscribeLive(s) PROVE Unread'
  BY <1>3, NoSubIsNoRecord
  DEF TypeOK, Unread, Subscribed, SubscribeLive, Add, Subscription, profile, log, round
<1>4. ASSUME NEW s \in Session, NEW w \in Windows[s], SubscribeEmpty(s, w[1], w[2]) PROVE Unread'
  BY <1>4, NoSubIsNoRecord
  DEF TypeOK, Unread, Subscribed, SubscribeEmpty, Add, Subscription, profile, log, round, Since
<1>5. ASSUME NEW s \in Session, NEW w \in Windows[s], SubscribeReplay(s, w[1], w[2]) PROVE Unread'
  BY <1>5, NoSubIsNoRecord
  DEF TypeOK, Unread, Subscribed, SubscribeReplay, Add, Subscription, profile, log, round, Since, EndsReplay
<1>6. ASSUME NEW s \in Session, Close(s) PROVE Unread'
  BY <1>6, NoSubIsNoRecord
  DEF TypeOK, Unread, Subscribed, Close, Remove, profile, log, round
<1>7. CASE Serve
  BY <1>7 DEF Serve, Unread, round
<1>8. ASSUME NEW s \in Subscribed, NEW r \in Record, s \in todo, sub[s] \in Record, GetsEvent(s, sub[s], r)
      PROVE Unread'
  <2>1. /\ sub'[s] = r /\ Subscribed' = Subscribed
        /\ \A t \in Session \ {s} : sub'[t] = sub[t] /\ inbox'[t] = inbox[t]
    BY <1>8, OneChanged DEF GetsEvent
  <2>2. QED
    BY <1>8, <2>1, NoSubIsNoRecord DEF Unread, GetsEvent, Same, Subscribed, TypeOK
<1>9. ASSUME NEW s \in Subscribed, NEW r \in Record, s \in todo, sub[s] \in Record, GetsReplayComplete(s, sub[s], r)
      PROVE Unread'
  <2>1. /\ sub'[s] = r /\ Subscribed' = Subscribed
        /\ \A t \in Session \ {s} : sub'[t] = sub[t] /\ inbox'[t] = inbox[t]
    BY <1>9, OneChanged DEF GetsReplayComplete
  <2>2. QED
    BY <1>9, <2>1, NoSubIsNoRecord DEF Unread, GetsReplayComplete, Same, Subscribed, TypeOK
<1>10. ASSUME NEW s \in Subscribed, NEW r \in Record, s \in todo, sub[s] \in Record, GetsNotificationComplete(s, sub[s], r)
      PROVE Unread'
  <2>1. /\ sub'[s] = r /\ Subscribed' = Subscribed
        /\ \A t \in Session \ {s} : sub'[t] = sub[t] /\ inbox'[t] = inbox[t]
    BY <1>10, OneChanged DEF GetsNotificationComplete
  <2>2. QED
    BY <1>10, <2>1, NoSubIsNoRecord DEF Unread, GetsNotificationComplete, Same, Subscribed, TypeOK
<1>11. ASSUME NEW s \in Subscribed, NEW r \in Record, s \in todo, sub[s] \in Record, GetsNothing(s, sub[s], r)
      PROVE Unread'
  <2>1. /\ sub'[s] = r /\ Subscribed' = Subscribed
        /\ \A t \in Session \ {s} : sub'[t] = sub[t] /\ inbox'[t] = inbox[t]
    BY <1>11, OneChanged DEF GetsNothing
  <2>2. QED
    BY <1>11, <2>1, NoSubIsNoRecord DEF Unread, GetsNothing, Same, Subscribed, TypeOK
<1>12. ASSUME NEW s \in Session, ExpireSubscription(s) PROVE Unread'
  BY <1>12, NoSubIsNoRecord
  DEF TypeOK, Unread, Subscribed, ExpireSubscription, Turn, Remove, profile, log
<1>13. CASE NextRound
  BY <1>13 DEF NextRound, Unread, round
<1>14. CASE EndBurst
  BY <1>14 DEF EndBurst, Unread, round
<1>15. CASE UNCHANGED vars
  BY <1>15, NoSubIsNoRecord
  DEF TypeOK, Unread, Subscribed, vars
<1>16. QED
  BY <1>1, <1>2, <1>3, <1>4, <1>5, <1>6, <1>7, <1>8, <1>9, <1>10, <1>11, <1>12, <1>13, <1>14, <1>15, Served
  DEF Next, Handler, Burst, Gets


\* What is sent comes last.
LEMMA Sent ==
  ASSUME TypeOK, NEW s \in Subscribed, NEW r \in Record, NEW x \in Nat \cup Mark, Send(s, r, x)
  PROVE  /\ Len(inbox'[s]) = Len(inbox[s]) + 1
         /\ inbox'[s][Len(inbox[s]) + 1] = x
         /\ \A i \in 1..Len(inbox[s]) : inbox'[s][i] = inbox[s][i]
         /\ Len(inbox[s]) \in Nat
         /\ Received(s)' = Received(s) \cup ({x} \ Mark)
<1>1. inbox'[s] = Append(inbox[s], x) /\ inbox[s] \in Seq(Nat \cup Mark)
  BY DEF Send, TypeOK, Subscribed
<1>2. /\ Len(inbox'[s]) = Len(inbox[s]) + 1
      /\ inbox'[s][Len(inbox[s]) + 1] = x
      /\ \A i \in 1..Len(inbox[s]) : inbox'[s][i] = inbox[s][i]
      /\ Len(inbox[s]) \in Nat
  BY <1>1
<1>3. \A i \in 1..(Len(inbox[s]) + 1) : i = Len(inbox[s]) + 1 \/ i \in 1..Len(inbox[s])
  BY <1>2
<1>4. 1..Len(inbox[s]) \subseteq 1..(Len(inbox[s]) + 1) /\ Len(inbox[s]) + 1 \in 1..(Len(inbox[s]) + 1)
  BY <1>2
<1>5. Received(s)' = Received(s) \cup ({x} \ Mark)
  BY <1>2, <1>3, <1>4 DEF Received, Mark
<1>6. QED
  BY <1>2, <1>5

\* The next entry is past what was sent.
LEMMA FromOK ==
  ASSUME TypeOK, NEW q \in Record
  PROVE  From(q) \in Int /\ (q.lastmsgid > 0 => From(q) = q.lastmsgid)
  BY DEF From, Record

\* Nothing was sent from beyond the last message.
LEMMA CursorStep ==
  ASSUME TypeOK, LogOK, TodoOK, Flags, Unread, Cursor, [Next]_vars
  PROVE  Cursor'
<1>1. CASE Tick
  BY <1>1 DEF Tick, Cursor, round, log, msgid
<1>2. CASE QueueNotification
  <2>1. msgid \in Nat /\ msgid' = msgid + 1
    BY <1>2 DEF QueueNotification, TypeOK, msgid
  <2>2. \A s \in Session : sub[s] # NoSub => sub[s].lastmsgid \in Nat
    BY DEF TypeOK, Record
  <2>3. QED
    BY <1>2, <2>1, <2>2 DEF QueueNotification, Cursor
<1>3. ASSUME NEW s \in Session, SubscribeLive(s) PROVE Cursor'
  <2>1. /\ sub[s] = NoSub /\ sub'[s].lastmsgid <= msgid /\ inbox' = inbox /\ msgid' = msgid
        /\ \A t \in Session \ {s} : sub'[t] = sub[t]
    BY <1>3 DEF SubscribeLive, Add, Subscription, TypeOK, LogOK, msgid, log
  <2>2. inbox'[s] = <<>>
    BY <2>1 DEF Unread
  <2>3. QED
    BY <2>1, <2>2 DEF Cursor
<1>4. ASSUME NEW s \in Session, NEW w \in Windows[s], SubscribeEmpty(s, w[1], w[2]) PROVE Cursor'
  <2>1. /\ sub[s] = NoSub /\ sub'[s].lastmsgid <= msgid /\ inbox' = inbox /\ msgid' = msgid
        /\ \A t \in Session \ {s} : sub'[t] = sub[t]
    BY <1>4 DEF SubscribeEmpty, Add, Subscription, TypeOK, LogOK, msgid, log
  <2>2. inbox'[s] = <<>>
    BY <2>1 DEF Unread
  <2>3. QED
    BY <2>1, <2>2 DEF Cursor
<1>5. ASSUME NEW s \in Session, NEW w \in Windows[s], SubscribeReplay(s, w[1], w[2]) PROVE Cursor'
  <2>1. /\ sub[s] = NoSub /\ sub'[s].lastmsgid <= msgid /\ inbox' = inbox /\ msgid' = msgid
        /\ \A t \in Session \ {s} : sub'[t] = sub[t]
    BY <1>5 DEF SubscribeReplay, Add, Subscription, TypeOK, LogOK, msgid, log
  <2>2. inbox'[s] = <<>>
    BY <2>1 DEF Unread
  <2>3. QED
    BY <2>1, <2>2 DEF Cursor
<1>6. ASSUME NEW s \in Session, Close(s) PROVE Cursor'
  BY <1>6 DEF Close, Remove, Cursor, TypeOK, msgid, log
<1>7. CASE Serve
  BY <1>7 DEF Serve, Cursor, round, log, msgid
<1>8. ASSUME NEW s \in Subscribed, NEW r \in Record, s \in todo, sub[s] \in Record, GetsEvent(s, sub[s], r)
      PROVE Cursor'
  <2>1. /\ sub'[s] = r /\ Subscribed' = Subscribed
        /\ \A t \in Session \ {s} : sub'[t] = sub[t] /\ inbox'[t] = inbox[t]
    BY <1>8, OneChanged DEF GetsEvent
  <2>2. Send(s, r, r.lastmsgid) /\ r.lastmsgid \in Nat \cup Mark /\ msgid' = msgid
    BY <1>8 DEF GetsEvent, Record, Mark, Send, msgid, log
  <2>3. r.lastmsgid \in Nat /\ sub[s].lastmsgid \in Nat /\ r.lastmsgid <= msgid /\ sub[s].lastmsgid <= r.lastmsgid
    <3>1. sub[s].lastmsgid \in Nat /\ r.lastmsgid \in Nat /\ sub[s].lastmsgid <= msgid /\ msgid \in Nat
      BY <1>8 DEF Record, Cursor, Subscribed, TypeOK, msgid
    <3>2. r.lastmsgid = sub[s].lastmsgid
            \/ (r.lastmsgid = EntryAfter(From(sub[s])) /\ r.lastmsgid # 0)
      BY <1>8 DEF GetsEvent
    <3>3. CASE r.lastmsgid = EntryAfter(From(sub[s])) /\ r.lastmsgid # 0
      <4>1. From(sub[s]) \in Int /\ (sub[s].lastmsgid > 0 => From(sub[s]) = sub[s].lastmsgid)
        BY <1>8, FromOK
      <4>2. r.lastmsgid \in oldest..msgid /\ From(sub[s]) < r.lastmsgid
        BY <3>3, <4>1, EntryOK
      <4>3. QED
        BY <3>1, <4>1, <4>2 DEF TypeOK
    <3>4. QED
      BY <3>1, <3>2, <3>3
  <2>4. ASSUME NEW i \in 1..Len(inbox'[s]), inbox'[s][i] \in Nat PROVE inbox'[s][i] <= sub'[s].lastmsgid
    <3>1. i \in 1..Len(inbox[s]) \/ i = Len(inbox[s]) + 1
      <4>1. Len(inbox'[s]) = Len(inbox[s]) + 1 /\ Len(inbox[s]) \in Nat
        BY <2>2, Sent
      <4>2. QED
        BY <4>1
    <3>2. CASE i = Len(inbox[s]) + 1
      <4>1. inbox'[s][i] \in {r.lastmsgid} \cup Mark
        BY <2>2, <3>2, Sent DEF Mark
      <4>2. QED
        BY <2>1, <2>3, <2>4, <4>1, MarksAreNoEvents DEF Mark
    <3>3. CASE i \in 1..Len(inbox[s])
      <4>1. inbox'[s][i] = inbox[s][i]
        BY <2>2, <3>3, Sent
      <4>2. inbox[s][i] \in Nat => inbox[s][i] <= sub[s].lastmsgid
        BY <3>3 DEF Cursor, Subscribed
      <4>3. QED
        BY <2>1, <2>3, <2>4, <4>1, <4>2, Sent
    <3>4. QED
      BY <3>1, <3>2, <3>3
  <2>5. QED
    BY <2>1, <2>2, <2>3, <2>4 DEF Cursor, Subscribed
<1>9. ASSUME NEW s \in Subscribed, NEW r \in Record, s \in todo, sub[s] \in Record, GetsReplayComplete(s, sub[s], r)
      PROVE Cursor'
  <2>1. /\ sub'[s] = r /\ Subscribed' = Subscribed
        /\ \A t \in Session \ {s} : sub'[t] = sub[t] /\ inbox'[t] = inbox[t]
    BY <1>9, OneChanged DEF GetsReplayComplete
  <2>2. Send(s, r, ReplayComplete) /\ ReplayComplete \in Nat \cup Mark /\ msgid' = msgid
    BY <1>9 DEF GetsReplayComplete, Record, Mark, Send, msgid, log
  <2>3. r.lastmsgid \in Nat /\ sub[s].lastmsgid \in Nat /\ r.lastmsgid <= msgid /\ sub[s].lastmsgid <= r.lastmsgid
    <3>1. r.lastmsgid = sub[s].lastmsgid
      BY <1>9 DEF GetsReplayComplete
    <3>2. sub[s].lastmsgid \in Nat /\ sub[s].lastmsgid <= msgid
      BY <1>9 DEF Record, Cursor, Subscribed
    <3>3. QED
      BY <3>1, <3>2
  <2>4. ASSUME NEW i \in 1..Len(inbox'[s]), inbox'[s][i] \in Nat PROVE inbox'[s][i] <= sub'[s].lastmsgid
    <3>1. i \in 1..Len(inbox[s]) \/ i = Len(inbox[s]) + 1
      <4>1. Len(inbox'[s]) = Len(inbox[s]) + 1 /\ Len(inbox[s]) \in Nat
        BY <2>2, Sent
      <4>2. QED
        BY <4>1
    <3>2. CASE i = Len(inbox[s]) + 1
      <4>1. inbox'[s][i] \in {r.lastmsgid} \cup Mark
        BY <2>2, <3>2, Sent DEF Mark
      <4>2. QED
        BY <2>1, <2>3, <2>4, <4>1, MarksAreNoEvents DEF Mark
    <3>3. CASE i \in 1..Len(inbox[s])
      <4>1. inbox'[s][i] = inbox[s][i]
        BY <2>2, <3>3, Sent
      <4>2. inbox[s][i] \in Nat => inbox[s][i] <= sub[s].lastmsgid
        BY <3>3 DEF Cursor, Subscribed
      <4>3. QED
        BY <2>1, <2>3, <2>4, <4>1, <4>2, Sent
    <3>4. QED
      BY <3>1, <3>2, <3>3
  <2>5. QED
    BY <2>1, <2>2, <2>3, <2>4 DEF Cursor, Subscribed
<1>10. ASSUME NEW s \in Subscribed, NEW r \in Record, s \in todo, sub[s] \in Record, GetsNotificationComplete(s, sub[s], r)
      PROVE Cursor'
  <2>1. /\ sub'[s] = r /\ Subscribed' = Subscribed
        /\ \A t \in Session \ {s} : sub'[t] = sub[t] /\ inbox'[t] = inbox[t]
    BY <1>10, OneChanged DEF GetsNotificationComplete
  <2>2. Send(s, r, NotificationComplete) /\ NotificationComplete \in Nat \cup Mark /\ msgid' = msgid
    BY <1>10 DEF GetsNotificationComplete, Record, Mark, Send, msgid, log
  <2>3. r.lastmsgid \in Nat /\ sub[s].lastmsgid \in Nat /\ r.lastmsgid <= msgid /\ sub[s].lastmsgid <= r.lastmsgid
    <3>1. r.lastmsgid = sub[s].lastmsgid
      BY <1>10 DEF GetsNotificationComplete
    <3>2. sub[s].lastmsgid \in Nat /\ sub[s].lastmsgid <= msgid
      BY <1>10 DEF Record, Cursor, Subscribed
    <3>3. QED
      BY <3>1, <3>2
  <2>4. ASSUME NEW i \in 1..Len(inbox'[s]), inbox'[s][i] \in Nat PROVE inbox'[s][i] <= sub'[s].lastmsgid
    <3>1. i \in 1..Len(inbox[s]) \/ i = Len(inbox[s]) + 1
      <4>1. Len(inbox'[s]) = Len(inbox[s]) + 1 /\ Len(inbox[s]) \in Nat
        BY <2>2, Sent
      <4>2. QED
        BY <4>1
    <3>2. CASE i = Len(inbox[s]) + 1
      <4>1. inbox'[s][i] \in {r.lastmsgid} \cup Mark
        BY <2>2, <3>2, Sent DEF Mark
      <4>2. QED
        BY <2>1, <2>3, <2>4, <4>1, MarksAreNoEvents DEF Mark
    <3>3. CASE i \in 1..Len(inbox[s])
      <4>1. inbox'[s][i] = inbox[s][i]
        BY <2>2, <3>3, Sent
      <4>2. inbox[s][i] \in Nat => inbox[s][i] <= sub[s].lastmsgid
        BY <3>3 DEF Cursor, Subscribed
      <4>3. QED
        BY <2>1, <2>3, <2>4, <4>1, <4>2, Sent
    <3>4. QED
      BY <3>1, <3>2, <3>3
  <2>5. QED
    BY <2>1, <2>2, <2>3, <2>4 DEF Cursor, Subscribed
<1>11. ASSUME NEW s \in Subscribed, NEW r \in Record, s \in todo, sub[s] \in Record, GetsNothing(s, sub[s], r)
      PROVE Cursor'
  <2>1. /\ sub'[s] = r /\ Subscribed' = Subscribed
        /\ \A t \in Session \ {s} : sub'[t] = sub[t] /\ inbox'[t] = inbox[t]
    BY <1>11, OneChanged DEF GetsNothing
  <2>2. inbox' = inbox /\ msgid' = msgid /\ r.lastmsgid = sub[s].lastmsgid
    BY <1>11 DEF GetsNothing, Visit, msgid, log
  <2>3. QED
    BY <2>1, <2>2 DEF Cursor, Subscribed
<1>12. ASSUME NEW s \in Session, ExpireSubscription(s) PROVE Cursor'
  BY <1>12 DEF ExpireSubscription, Remove, Cursor, TypeOK, msgid, log
<1>13. CASE NextRound
  BY <1>13 DEF NextRound, Cursor, round, log, msgid
<1>14. CASE EndBurst
  BY <1>14 DEF EndBurst, Cursor, round, log, msgid
<1>15. CASE UNCHANGED vars
  BY <1>15, NoSubIsNoRecord
  DEF TypeOK, Cursor, msgid, vars
<1>16. QED
  BY <1>1, <1>2, <1>3, <1>4, <1>5, <1>6, <1>7, <1>8, <1>9, <1>10, <1>11, <1>12, <1>13, <1>14, <1>15, Served
  DEF Next, Handler, Burst, Gets


\* An event is sent from the log, and what comes between is gone.
LEMMA EventOK ==
  ASSUME TypeOK, LogOK, NEW s \in Subscribed, sub[s] \in Record, NEW r \in Record,
         GetsEvent(s, sub[s], r)
  PROVE  /\ r.lastmsgid \in oldest..msgid
         /\ From(sub[s]) \in Int /\ From(sub[s]) < r.lastmsgid
         /\ \A k \in (From(sub[s]) + 1)..(r.lastmsgid - 1) : k < oldest
<1>1. From(sub[s]) \in Int
  BY FromOK
<1>2. r.lastmsgid = EntryAfter(From(sub[s])) /\ r.lastmsgid # 0
  BY DEF GetsEvent
<1>3. QED
  BY <1>1, <1>2, EntryOK

\* A replay that began with an entry of the log sends it.
LEMMA ReplayBegun ==
  ASSUME TypeOK, LogOK, Flags, Starts, PointersLive, NEW s \in Subscribed, sub[s] \in Record,
         sub[s].state = "replay", ~EmptyReplay(sub[s]), sub[s].lastmsgid = 0
  PROVE  ~sub[s].rcReady /\ EntryAfter(From(sub[s])) # 0
<1>1. Pending(s) /\ ~sub[s].rcReady
  BY DEF Starts, Pending
<1>2. sub[s].firstreplaymsgid \in 1..msgid /\ From(sub[s]) = sub[s].firstreplaymsgid - 1
  BY <1>1 DEF Starts, From
<1>3. oldest <= msgid /\ msgid \in Nat /\ oldest \in Nat
  <2>1. CASE eventlog_size = 0
    <3>1. sub[s].firstreplaymsgid \in oldest..msgid
      BY <2>1, <1>1 DEF PointersLive, Pending
    <3>2. QED
      BY <3>1 DEF TypeOK, msgid
  <2>2. CASE eventlog_size # 0
    BY <2>2, <1>2, BoundsAreNumbers DEF TypeOK, LogOK, msgid
  <2>3. QED
    BY <2>1, <2>2
<1>4. QED
  BY <1>1, <1>2, <1>3, EntryOK

\* A round leaves nothing behind.
LEMMA VisitedStep ==
  ASSUME TypeOK, LogOK, TodoOK, Flags, Starts, PointersLive, Visited, [Next]_vars
  PROVE  Visited'
<1>1. CASE Tick
  BY <1>1 DEF Tick, Visited, round
<1>2. CASE QueueNotification
  BY <1>2 DEF QueueNotification, Visited, round
<1>3. ASSUME NEW s \in Session, SubscribeLive(s) PROVE Visited'
  BY <1>3 DEF SubscribeLive, Visited, round, Add
<1>4. ASSUME NEW s \in Session, NEW w \in Windows[s], SubscribeEmpty(s, w[1], w[2]) PROVE Visited'
  BY <1>4 DEF SubscribeEmpty, Visited, round, Add
<1>5. ASSUME NEW s \in Session, NEW w \in Windows[s], SubscribeReplay(s, w[1], w[2]) PROVE Visited'
  BY <1>5 DEF SubscribeReplay, Visited, round, Add
<1>6. ASSUME NEW s \in Session, Close(s) PROVE Visited'
  BY <1>6 DEF Close, Visited, round
<1>7. CASE Serve
  BY <1>7 DEF Serve, Visited, Subscribed
<1>8. ASSUME NEW s \in Subscribed, NEW r \in Record, s \in todo, sub[s] \in Record, GetsEvent(s, sub[s], r)
      PROVE Visited'
  <2>1. /\ sub'[s] = r /\ Subscribed' = Subscribed
        /\ \A t \in Session \ {s} : sub'[t] = sub[t] /\ inbox'[t] = inbox[t]
    BY <1>8, OneChanged DEF GetsEvent
  <2>2. /\ todo' = todo \ {s} /\ serving' = serving /\ oldest' = oldest /\ msgid' = msgid
        /\ eventlog_size' = eventlog_size /\ owed' = owed
    BY <1>8 DEF GetsEvent, Send, profile, log, msgid
  <2>3. ~Pending(s)' /\ (~EmptyReplay(r) /\ r.lastmsgid = 0 => msgid < oldest)
    BY <1>8, <2>1 DEF GetsEvent, Pending
  <2>4. QED
    BY <2>1, <2>2, <2>3 DEF Visited, Pending, EmptyReplay, Subscribed
<1>9. ASSUME NEW s \in Subscribed, NEW r \in Record, s \in todo, sub[s] \in Record, GetsReplayComplete(s, sub[s], r)
      PROVE Visited'
  <2>1. /\ sub'[s] = r /\ Subscribed' = Subscribed
        /\ \A t \in Session \ {s} : sub'[t] = sub[t] /\ inbox'[t] = inbox[t]
    BY <1>9, OneChanged DEF GetsReplayComplete
  <2>2. /\ todo' = todo \ {s} /\ serving' = serving /\ oldest' = oldest /\ msgid' = msgid
        /\ eventlog_size' = eventlog_size /\ owed' = owed
    BY <1>9 DEF GetsReplayComplete, Send, profile, log, msgid
  <2>3. ~Pending(s)' /\ (~EmptyReplay(r) /\ r.lastmsgid = 0 => msgid < oldest)
    BY <1>9, <2>1, ReplayBegun DEF GetsReplayComplete, Pending, EmptyReplay, Same
  <2>4. QED
    BY <2>1, <2>2, <2>3 DEF Visited, Pending, EmptyReplay, Subscribed
<1>10. ASSUME NEW s \in Subscribed, NEW r \in Record, s \in todo, sub[s] \in Record, GetsNotificationComplete(s, sub[s], r)
      PROVE Visited'
  <2>1. /\ sub'[s] = r /\ Subscribed' = Subscribed
        /\ \A t \in Session \ {s} : sub'[t] = sub[t] /\ inbox'[t] = inbox[t]
    BY <1>10, OneChanged DEF GetsNotificationComplete
  <2>2. /\ todo' = todo \ {s} /\ serving' = serving /\ oldest' = oldest /\ msgid' = msgid
        /\ eventlog_size' = eventlog_size /\ owed' = owed
    BY <1>10 DEF GetsNotificationComplete, Send, profile, log, msgid
  <2>3. ~Pending(s)' /\ (~EmptyReplay(r) /\ r.lastmsgid = 0 => msgid < oldest)
    <3>1. r.state = "shutdown" /\ r.lastmsgid = sub[s].lastmsgid /\ (EmptyReplay(r) <=> EmptyReplay(sub[s]))
      BY <1>10 DEF GetsNotificationComplete, Same, EmptyReplay
    <3>2. sub[s].state = "replay" => sub[s].rcReady
      BY <1>10 DEF GetsNotificationComplete, Flags
    <3>3. sub[s].state \in {"replay", "shutdown"}
      BY <1>10 DEF GetsNotificationComplete
    <3>4. ~EmptyReplay(sub[s]) => sub[s].lastmsgid # 0
      BY <1>10, <3>2, <3>3 DEF Starts, Pending
    <3>5. QED
      BY <2>1, <3>1, <3>4 DEF Pending
  <2>4. QED
    BY <2>1, <2>2, <2>3 DEF Visited, Pending, EmptyReplay, Subscribed
<1>11. ASSUME NEW s \in Subscribed, NEW r \in Record, s \in todo, sub[s] \in Record, GetsNothing(s, sub[s], r)
      PROVE Visited'
  <2>1. /\ sub'[s] = r /\ Subscribed' = Subscribed
        /\ \A t \in Session \ {s} : sub'[t] = sub[t] /\ inbox'[t] = inbox[t]
    BY <1>11, OneChanged DEF GetsNothing
  <2>2. /\ todo' = todo \ {s} /\ serving' = serving /\ oldest' = oldest /\ msgid' = msgid
        /\ eventlog_size' = eventlog_size /\ owed' = owed
    BY <1>11 DEF GetsNothing, Visit, profile, log, msgid
  <2>3. ~Pending(s)' /\ (~EmptyReplay(r) /\ r.lastmsgid = 0 => msgid < oldest)
    <3>1. /\ r.lastmsgid = sub[s].lastmsgid /\ (EmptyReplay(r) <=> EmptyReplay(sub[s]))
          /\ r.rcReady = sub[s].rcReady
      BY <1>11 DEF GetsNothing, Same, EmptyReplay
    <3>2. sub[s].state = "replay" => sub[s].rcReady
      BY <1>11 DEF GetsNothing, Flags
    <3>3. CASE sub[s].state = "replay"
      BY <1>11, <2>1, <3>1, <3>2, <3>3 DEF Starts, Pending
    <3>4. CASE sub[s].state # "replay"
      <4>1. r.state # "replay" /\ EntryAfter(sub[s].lastmsgid) = 0
        BY <1>11, <3>4 DEF GetsNothing
      <4>2. sub[s].lastmsgid = 0 => msgid < oldest
        BY <4>1, EntryOK DEF LogOK, TypeOK, msgid
      <4>3. QED
        BY <2>1, <3>1, <4>1, <4>2 DEF Pending
    <3>5. QED
      BY <3>3, <3>4
  <2>4. QED
    BY <2>1, <2>2, <2>3 DEF Visited, Pending, EmptyReplay, Subscribed
<1>12. ASSUME NEW s \in Session, ExpireSubscription(s) PROVE Visited'
  BY <1>12 DEF ExpireSubscription, Remove, Visited, Pending, EmptyReplay, Subscribed, TypeOK, log, msgid
<1>13. CASE NextRound
  BY <1>13 DEF NextRound, Visited, Subscribed
<1>14. CASE EndBurst
  BY <1>14 DEF EndBurst, Visited, round
<1>15. CASE UNCHANGED vars
  BY <1>15, NoSubIsNoRecord
  DEF TypeOK, Visited, Pending, EmptyReplay, Subscribed, msgid, vars
<1>16. QED
  BY <1>1, <1>2, <1>3, <1>4, <1>5, <1>6, <1>7, <1>8, <1>9, <1>10, <1>11, <1>12, <1>13, <1>14, <1>15, Served
  DEF Next, Handler, Burst, Gets



\* Of an empty replay only the mark is sent.
LEMMA SubscriptionReady ==
  ASSUME NEW start, NEW stop
  PROVE  Subscription("replay", start, stop, 0, 0, 0).rcReady
<1>1. ("replay" = "replay" /\ 0 = 0) = TRUE
  OBVIOUS
<1>2. Subscription("replay", start, stop, 0, 0, 0).rcReady = ("replay" = "replay" /\ 0 = 0)
  BY Zenon DEF Subscription
<1>3. QED
  BY <1>1, <1>2


\* A session starts with the first event it is owed.
LEMMA StartsStep ==
  ASSUME TypeOK, LogOK, TodoOK, Flags, Visited, PointersLive, Starts, [Next]_vars
  PROVE  Starts'
<1>1. CASE Tick
  BY <1>1 DEF Tick, Starts, Pending, EmptyReplay, Subscribed, profile, log, round, msgid
<1>2. CASE QueueNotification
  <2>1. /\ msgid \in Nat /\ msgid' = msgid + 1 /\ oldest \in Nat
        /\ oldest' \in Nat /\ oldest <= oldest' /\ (eventlog_size = 0 => oldest' = oldest)
    BY <1>2, BoundsAreNumbers DEF QueueNotification, DeleteOldest, TypeOK, msgid
  <2>2. sub' = sub /\ owed' = owed /\ eventlog_size' = eventlog_size
    BY <1>2 DEF QueueNotification, profile
  <2>3. \A s \in Subscribed : owed[s] \in Nat
    BY DEF TypeOK, Subscribed
  <2>4. 1..msgid \subseteq 1..(msgid + 1)
    BY <2>1
  <2>5. \A s \in Subscribed : owed[s] <= oldest => owed[s] <= oldest'
    BY <2>1, <2>3
  <2>6. QED
    BY <2>1, <2>2, <2>4, <2>5 DEF Starts, Pending, EmptyReplay, Subscribed
<1>3. ASSUME NEW s \in Session, SubscribeLive(s) PROVE Starts'
  <2>1. /\ sub[s] = NoSub /\ msgid' = msgid /\ oldest' = oldest /\ eventlog_size' = eventlog_size
        /\ \A t \in Session \ {s} : sub'[t] = sub[t] /\ owed'[t] = owed[t]
    BY <1>3 DEF SubscribeLive, Add, TypeOK, profile, log, msgid
  <2>2. oldest \in Nat /\ msgid \in Nat /\ 1 <= oldest
    BY DEF TypeOK, LogOK, msgid
  <2>3. /\ sub'[s].state = "live" /\ owed'[s] = msgid + 1
        /\ (sub'[s].lastmsgid = msgid /\ 1 <= msgid) \/ (sub'[s].lastmsgid = 0 /\ oldest = msgid + 1)
    <3> DEFINE c == IF oldest <= msgid THEN msgid ELSE 0
    <3>1. sub'[s] = Subscription("live", NoTime, NoTime, 0, 0, c) /\ owed'[s] = msgid + 1
      BY <1>3 DEF SubscribeLive, Add, TypeOK
    <3>2. (c = msgid /\ 1 <= msgid) \/ (c = 0 /\ oldest = msgid + 1)
      <4>1. oldest <= msgid + 1
        BY DEF LogOK
      <4>2. oldest <= msgid => c = msgid
        OBVIOUS
      <4>3. ~(oldest <= msgid) => c = 0
        OBVIOUS
      <4>4. ~(oldest <= msgid) => oldest = msgid + 1
        BY <2>2, <4>1
      <4>5. oldest <= msgid => 1 <= msgid
        BY <2>2
      <4> HIDE DEF c
      <4>6. QED
        BY <4>2, <4>3, <4>4, <4>5
    <3>3. QED
      BY <3>1, <3>2 DEF Subscription
  <2>4. ASSUME NEW t \in Session, sub'[t] # NoSub
        PROVE  /\ Pending(t)' => /\ sub'[t].firstreplaymsgid \in 1..msgid
                                 /\ owed'[t] = sub'[t].firstreplaymsgid
               /\ ~EmptyReplay(sub'[t]) =>
                    /\ owed'[t] >= 1
                    /\ sub'[t].lastmsgid > 0 => owed'[t] <= sub'[t].lastmsgid + 1
                    /\ sub'[t].lastmsgid = 0 /\ ~Pending(t)' =>
                         /\ sub'[t].state = "live"
                         /\ owed'[t] <= oldest
                         /\ eventlog_size = 0 => owed'[t] = oldest
    <3>1. CASE t = s
      BY <2>2, <2>3, <3>1 DEF Pending
    <3>2. CASE t # s
      <4>1. t \in Subscribed /\ sub'[t] = sub[t] /\ owed'[t] = owed[t]
        BY <2>1, <2>4, <3>2 DEF Subscribed
      <4>2. Pending(t)' <=> Pending(t)
        BY <4>1 DEF Pending
      <4>3. QED
        BY <4>1, <4>2 DEF Starts
    <3>3. QED
      BY <3>1, <3>2
  <2>5. QED
    BY <2>1, <2>4 DEF Starts, EmptyReplay, Subscribed
<1>4. ASSUME NEW s \in Session, NEW w \in Windows[s], SubscribeEmpty(s, w[1], w[2]) PROVE Starts'
  <2>1. /\ sub[s] = NoSub /\ msgid' = msgid /\ oldest' = oldest /\ eventlog_size' = eventlog_size
        /\ \A t \in Session \ {s} : sub'[t] = sub[t] /\ owed'[t] = owed[t]
    BY <1>4 DEF SubscribeEmpty, Add, TypeOK, profile, log, msgid
  <2>2. oldest \in Nat /\ msgid \in Nat /\ 1 <= oldest
    BY DEF TypeOK, LogOK, msgid
  <2>3. EmptyReplay(sub'[s]) /\ sub'[s].rcReady
    <3>1. w[1] # NoTime
      BY WindowsAreTimes
    <3>2. sub'[s] = Subscription("replay", w[1], w[2], 0, 0, 0)
      BY <1>4 DEF SubscribeEmpty, Add, TypeOK
    <3>3. sub'[s].rcReady
      BY <3>2, SubscriptionReady
    <3>4. sub'[s].startTime = w[1] /\ sub'[s].firstreplaymsgid = 0
      BY <3>2 DEF Subscription
    <3>5. QED
      BY <3>1, <3>3, <3>4 DEF EmptyReplay
  <2>4. ASSUME NEW t \in Session, sub'[t] # NoSub
        PROVE  /\ Pending(t)' => /\ sub'[t].firstreplaymsgid \in 1..msgid
                                 /\ owed'[t] = sub'[t].firstreplaymsgid
               /\ ~EmptyReplay(sub'[t]) =>
                    /\ owed'[t] >= 1
                    /\ sub'[t].lastmsgid > 0 => owed'[t] <= sub'[t].lastmsgid + 1
                    /\ sub'[t].lastmsgid = 0 /\ ~Pending(t)' =>
                         /\ sub'[t].state = "live"
                         /\ owed'[t] <= oldest
                         /\ eventlog_size = 0 => owed'[t] = oldest
    <3>1. CASE t = s
      BY <2>2, <2>3, <3>1 DEF Pending
    <3>2. CASE t # s
      <4>1. t \in Subscribed /\ sub'[t] = sub[t] /\ owed'[t] = owed[t]
        BY <2>1, <2>4, <3>2 DEF Subscribed
      <4>2. Pending(t)' <=> Pending(t)
        BY <4>1 DEF Pending
      <4>3. QED
        BY <4>1, <4>2 DEF Starts
    <3>3. QED
      BY <3>1, <3>2
  <2>5. QED
    BY <2>1, <2>4 DEF Starts, EmptyReplay, Subscribed
<1>5. ASSUME NEW s \in Session, NEW w \in Windows[s], SubscribeReplay(s, w[1], w[2]) PROVE Starts'
  <2>1. /\ sub[s] = NoSub /\ msgid' = msgid /\ oldest' = oldest /\ eventlog_size' = eventlog_size
        /\ \A t \in Session \ {s} : sub'[t] = sub[t] /\ owed'[t] = owed[t]
    BY <1>5 DEF SubscribeReplay, Add, TypeOK, profile, log, msgid
  <2>2. oldest \in Nat /\ msgid \in Nat /\ 1 <= oldest
    BY DEF TypeOK, LogOK, msgid
  <2>3. /\ sub'[s].state = "replay" /\ ~sub'[s].rcReady /\ sub'[s].lastmsgid = 0
        /\ owed'[s] = sub'[s].firstreplaymsgid /\ sub'[s].firstreplaymsgid \in oldest..msgid
    BY <1>5, <2>2 DEF SubscribeReplay, Add, Subscription, TypeOK, Since
  <2>4. ASSUME NEW t \in Session, sub'[t] # NoSub
        PROVE  /\ Pending(t)' => /\ sub'[t].firstreplaymsgid \in 1..msgid
                                 /\ owed'[t] = sub'[t].firstreplaymsgid
               /\ ~EmptyReplay(sub'[t]) =>
                    /\ owed'[t] >= 1
                    /\ sub'[t].lastmsgid > 0 => owed'[t] <= sub'[t].lastmsgid + 1
                    /\ sub'[t].lastmsgid = 0 /\ ~Pending(t)' =>
                         /\ sub'[t].state = "live"
                         /\ owed'[t] <= oldest
                         /\ eventlog_size = 0 => owed'[t] = oldest
    <3>1. CASE t = s
      BY <2>2, <2>3, <3>1 DEF Pending
    <3>2. CASE t # s
      <4>1. t \in Subscribed /\ sub'[t] = sub[t] /\ owed'[t] = owed[t]
        BY <2>1, <2>4, <3>2 DEF Subscribed
      <4>2. Pending(t)' <=> Pending(t)
        BY <4>1 DEF Pending
      <4>3. QED
        BY <4>1, <4>2 DEF Starts
    <3>3. QED
      BY <3>1, <3>2
  <2>5. QED
    BY <2>1, <2>4 DEF Starts, EmptyReplay, Subscribed
<1>6. ASSUME NEW s \in Session, Close(s) PROVE Starts'
  <2>1. /\ sub'[s] = NoSub /\ msgid' = msgid /\ oldest' = oldest /\ eventlog_size' = eventlog_size
        /\ \A t \in Session \ {s} : sub'[t] = sub[t] /\ owed'[t] = owed[t]
    BY <1>6 DEF Close, Remove, TypeOK, profile, log, msgid
  <2>2. QED
    BY <2>1 DEF Starts, Pending, EmptyReplay, Subscribed
<1>7. CASE Serve
  BY <1>7 DEF Serve, Starts, Pending, EmptyReplay, Subscribed, profile, log, round, msgid
<1>8. ASSUME NEW s \in Subscribed, NEW r \in Record, s \in todo, sub[s] \in Record, GetsEvent(s, sub[s], r)
      PROVE Starts'
  <2>1. /\ sub'[s] = r /\ Subscribed' = Subscribed
        /\ \A t \in Session \ {s} : sub'[t] = sub[t] /\ inbox'[t] = inbox[t]
    BY <1>8, OneChanged DEF GetsEvent
  <2>2. /\ todo' = todo \ {s} /\ serving' = serving /\ oldest' = oldest /\ msgid' = msgid
        /\ eventlog_size' = eventlog_size /\ owed' = owed
    BY <1>8 DEF GetsEvent, Send, profile, log, msgid
  <2>3. r.firstreplaymsgid = sub[s].firstreplaymsgid /\ (EmptyReplay(r) <=> EmptyReplay(sub[s]))
    BY <1>8 DEF GetsEvent, Same, EmptyReplay
  <2>4. ~Pending(s)' /\ (~EmptyReplay(sub[s]) => owed[s] >= 1)
    BY <1>8, <2>1, EventOK DEF GetsEvent, Pending, Starts
  <2>5. ~EmptyReplay(sub[s]) =>
          /\ r.lastmsgid > 0 => owed[s] <= r.lastmsgid + 1
          /\ r.lastmsgid = 0 => r.state = "live" /\ owed[s] <= oldest /\ (eventlog_size = 0 => owed[s] = oldest)
    <3>1. /\ r.lastmsgid \in oldest..msgid
          /\ From(sub[s]) \in Int /\ From(sub[s]) < r.lastmsgid
      BY <1>8, EventOK
    <3>2. sub[s].lastmsgid \in Nat /\ owed[s] \in Nat /\ oldest \in Nat /\ msgid \in Nat /\ 1 <= oldest
      BY <1>8 DEF Record, TypeOK, LogOK, Subscribed, msgid
    <3>3. CASE Pending(s)
      <4>1. From(sub[s]) = sub[s].firstreplaymsgid - 1 /\ owed[s] = sub[s].firstreplaymsgid
        BY <3>3 DEF From, Pending, Starts
      <4>2. QED
        BY <3>1, <3>2, <4>1
    <3>4. CASE ~Pending(s) /\ sub[s].lastmsgid = 0
      BY <3>1, <3>2, <3>4 DEF Starts
    <3>5. CASE sub[s].lastmsgid > 0
      <4>1. From(sub[s]) = sub[s].lastmsgid
        BY <3>5 DEF From
      <4>2. ~EmptyReplay(sub[s]) => owed[s] <= sub[s].lastmsgid + 1
        BY <3>5 DEF Starts
      <4>3. QED
        BY <3>1, <3>2, <4>1, <4>2
    <3>6. QED
      BY <3>2, <3>3, <3>4, <3>5
  <2>6. \A t \in Subscribed : (EmptyReplay(sub[t]) <=> EmptyReplay(sub[t])')
    BY <2>1, <2>3 DEF EmptyReplay, Subscribed
  <2>7. \A t \in Subscribed \ {s} : Pending(t)' <=> Pending(t)
    BY <2>1 DEF Pending, Subscribed
  <2>8. ASSUME NEW t \in Subscribed
        PROVE  /\ Pending(t)' => /\ sub'[t].firstreplaymsgid \in 1..msgid
                                 /\ owed[t] = sub'[t].firstreplaymsgid
               /\ ~EmptyReplay(sub[t]) =>
                    /\ owed[t] >= 1
                    /\ sub'[t].lastmsgid > 0 => owed[t] <= sub'[t].lastmsgid + 1
                    /\ sub'[t].lastmsgid = 0 /\ ~Pending(t)' =>
                         /\ sub'[t].state = "live"
                         /\ owed[t] <= oldest
                         /\ eventlog_size = 0 => owed[t] = oldest
    <3>1. CASE t = s
      BY <2>1, <2>4, <2>5, <3>1 DEF Starts
    <3>2. CASE t # s
      BY <2>1, <2>7, <2>8, <3>2 DEF Starts, Subscribed
    <3>3. QED
      BY <3>1, <3>2
  <2>9. QED
    BY <2>1, <2>2, <2>6, <2>8 DEF Starts, EmptyReplay
<1>9. ASSUME NEW s \in Subscribed, NEW r \in Record, s \in todo, sub[s] \in Record, GetsReplayComplete(s, sub[s], r)
      PROVE Starts'
  <2>1. /\ sub'[s] = r /\ Subscribed' = Subscribed
        /\ \A t \in Session \ {s} : sub'[t] = sub[t] /\ inbox'[t] = inbox[t]
    BY <1>9, OneChanged DEF GetsReplayComplete
  <2>2. /\ todo' = todo \ {s} /\ serving' = serving /\ oldest' = oldest /\ msgid' = msgid
        /\ eventlog_size' = eventlog_size /\ owed' = owed
    BY <1>9 DEF GetsReplayComplete, Send, profile, log, msgid
  <2>3. r.firstreplaymsgid = sub[s].firstreplaymsgid /\ (EmptyReplay(r) <=> EmptyReplay(sub[s]))
    BY <1>9 DEF GetsReplayComplete, Same, EmptyReplay
  <2>4. ~Pending(s)' /\ (~EmptyReplay(sub[s]) => owed[s] >= 1)
    BY <1>9, <2>1 DEF GetsReplayComplete, Pending, Starts
  <2>5. ~EmptyReplay(sub[s]) =>
          /\ r.lastmsgid > 0 => owed[s] <= r.lastmsgid + 1
          /\ r.lastmsgid = 0 => r.state = "live" /\ owed[s] <= oldest /\ (eventlog_size = 0 => owed[s] = oldest)
    <3>1. ~EmptyReplay(sub[s]) => sub[s].lastmsgid # 0
      BY <1>9, ReplayBegun DEF GetsReplayComplete
    <3>2. r.lastmsgid = sub[s].lastmsgid
      BY <1>9 DEF GetsReplayComplete
    <3>3. QED
      BY <3>1, <3>2 DEF Starts
  <2>6. \A t \in Subscribed : (EmptyReplay(sub[t]) <=> EmptyReplay(sub[t])')
    BY <2>1, <2>3 DEF EmptyReplay, Subscribed
  <2>7. \A t \in Subscribed \ {s} : Pending(t)' <=> Pending(t)
    BY <2>1 DEF Pending, Subscribed
  <2>8. ASSUME NEW t \in Subscribed
        PROVE  /\ Pending(t)' => /\ sub'[t].firstreplaymsgid \in 1..msgid
                                 /\ owed[t] = sub'[t].firstreplaymsgid
               /\ ~EmptyReplay(sub[t]) =>
                    /\ owed[t] >= 1
                    /\ sub'[t].lastmsgid > 0 => owed[t] <= sub'[t].lastmsgid + 1
                    /\ sub'[t].lastmsgid = 0 /\ ~Pending(t)' =>
                         /\ sub'[t].state = "live"
                         /\ owed[t] <= oldest
                         /\ eventlog_size = 0 => owed[t] = oldest
    <3>1. CASE t = s
      BY <2>1, <2>4, <2>5, <3>1 DEF Starts
    <3>2. CASE t # s
      BY <2>1, <2>7, <2>8, <3>2 DEF Starts, Subscribed
    <3>3. QED
      BY <3>1, <3>2
  <2>9. QED
    BY <2>1, <2>2, <2>6, <2>8 DEF Starts, EmptyReplay
<1>10. ASSUME NEW s \in Subscribed, NEW r \in Record, s \in todo, sub[s] \in Record, GetsNotificationComplete(s, sub[s], r)
      PROVE Starts'
  <2>1. /\ sub'[s] = r /\ Subscribed' = Subscribed
        /\ \A t \in Session \ {s} : sub'[t] = sub[t] /\ inbox'[t] = inbox[t]
    BY <1>10, OneChanged DEF GetsNotificationComplete
  <2>2. /\ todo' = todo \ {s} /\ serving' = serving /\ oldest' = oldest /\ msgid' = msgid
        /\ eventlog_size' = eventlog_size /\ owed' = owed
    BY <1>10 DEF GetsNotificationComplete, Send, profile, log, msgid
  <2>3. r.firstreplaymsgid = sub[s].firstreplaymsgid /\ (EmptyReplay(r) <=> EmptyReplay(sub[s]))
    BY <1>10 DEF GetsNotificationComplete, Same, EmptyReplay
  <2>4. ~Pending(s)' /\ (~EmptyReplay(sub[s]) => owed[s] >= 1)
    BY <1>10, <2>1 DEF GetsNotificationComplete, Pending, Starts
  <2>5. ~EmptyReplay(sub[s]) =>
          /\ r.lastmsgid > 0 => owed[s] <= r.lastmsgid + 1
          /\ r.lastmsgid = 0 => r.state = "live" /\ owed[s] <= oldest /\ (eventlog_size = 0 => owed[s] = oldest)
    <3>1. r.lastmsgid = sub[s].lastmsgid
      BY <1>10 DEF GetsNotificationComplete
    <3>2. sub[s].state = "replay" => sub[s].rcReady
      BY <1>10 DEF GetsNotificationComplete, Flags
    <3>3. sub[s].state \in {"replay", "shutdown"}
      BY <1>10 DEF GetsNotificationComplete
    <3>4. ~EmptyReplay(sub[s]) => sub[s].lastmsgid # 0
      BY <1>10, <3>2, <3>3 DEF Starts, Pending
    <3>5. QED
      BY <3>1, <3>4 DEF Starts
  <2>6. \A t \in Subscribed : (EmptyReplay(sub[t]) <=> EmptyReplay(sub[t])')
    BY <2>1, <2>3 DEF EmptyReplay, Subscribed
  <2>7. \A t \in Subscribed \ {s} : Pending(t)' <=> Pending(t)
    BY <2>1 DEF Pending, Subscribed
  <2>8. ASSUME NEW t \in Subscribed
        PROVE  /\ Pending(t)' => /\ sub'[t].firstreplaymsgid \in 1..msgid
                                 /\ owed[t] = sub'[t].firstreplaymsgid
               /\ ~EmptyReplay(sub[t]) =>
                    /\ owed[t] >= 1
                    /\ sub'[t].lastmsgid > 0 => owed[t] <= sub'[t].lastmsgid + 1
                    /\ sub'[t].lastmsgid = 0 /\ ~Pending(t)' =>
                         /\ sub'[t].state = "live"
                         /\ owed[t] <= oldest
                         /\ eventlog_size = 0 => owed[t] = oldest
    <3>1. CASE t = s
      BY <2>1, <2>4, <2>5, <3>1 DEF Starts
    <3>2. CASE t # s
      BY <2>1, <2>7, <2>8, <3>2 DEF Starts, Subscribed
    <3>3. QED
      BY <3>1, <3>2
  <2>9. QED
    BY <2>1, <2>2, <2>6, <2>8 DEF Starts, EmptyReplay
<1>11. ASSUME NEW s \in Subscribed, NEW r \in Record, s \in todo, sub[s] \in Record, GetsNothing(s, sub[s], r)
      PROVE Starts'
  <2>1. /\ sub'[s] = r /\ Subscribed' = Subscribed
        /\ \A t \in Session \ {s} : sub'[t] = sub[t] /\ inbox'[t] = inbox[t]
    BY <1>11, OneChanged DEF GetsNothing
  <2>2. /\ todo' = todo \ {s} /\ serving' = serving /\ oldest' = oldest /\ msgid' = msgid
        /\ eventlog_size' = eventlog_size /\ owed' = owed
    BY <1>11 DEF GetsNothing, Visit, profile, log, msgid
  <2>3. r.firstreplaymsgid = sub[s].firstreplaymsgid /\ (EmptyReplay(r) <=> EmptyReplay(sub[s]))
    BY <1>11 DEF GetsNothing, Same, EmptyReplay
  <2>4. ~Pending(s)' /\ (~EmptyReplay(sub[s]) => owed[s] >= 1)
    <3>1. sub[s].state = "replay" => sub[s].rcReady
      BY <1>11 DEF GetsNothing, Flags
    <3>2. QED
      BY <1>11, <2>1, <3>1 DEF GetsNothing, Pending, Starts
  <2>5. ~EmptyReplay(sub[s]) =>
          /\ r.lastmsgid > 0 => owed[s] <= r.lastmsgid + 1
          /\ r.lastmsgid = 0 => r.state = "live" /\ owed[s] <= oldest /\ (eventlog_size = 0 => owed[s] = oldest)
    <3>1. r.lastmsgid = sub[s].lastmsgid
      BY <1>11 DEF GetsNothing
    <3>2. sub[s].state = "replay" => sub[s].rcReady
      BY <1>11 DEF GetsNothing, Flags
    <3>3. ~Pending(s)
      BY <3>2 DEF Pending
    <3>4. sub[s].state = "live" => r.state = "live"
      BY <1>11 DEF GetsNothing
    <3>5. QED
      BY <3>1, <3>3, <3>4 DEF Starts
  <2>6. \A t \in Subscribed : (EmptyReplay(sub[t]) <=> EmptyReplay(sub[t])')
    BY <2>1, <2>3 DEF EmptyReplay, Subscribed
  <2>7. \A t \in Subscribed \ {s} : Pending(t)' <=> Pending(t)
    BY <2>1 DEF Pending, Subscribed
  <2>8. ASSUME NEW t \in Subscribed
        PROVE  /\ Pending(t)' => /\ sub'[t].firstreplaymsgid \in 1..msgid
                                 /\ owed[t] = sub'[t].firstreplaymsgid
               /\ ~EmptyReplay(sub[t]) =>
                    /\ owed[t] >= 1
                    /\ sub'[t].lastmsgid > 0 => owed[t] <= sub'[t].lastmsgid + 1
                    /\ sub'[t].lastmsgid = 0 /\ ~Pending(t)' =>
                         /\ sub'[t].state = "live"
                         /\ owed[t] <= oldest
                         /\ eventlog_size = 0 => owed[t] = oldest
    <3>1. CASE t = s
      BY <2>1, <2>4, <2>5, <3>1 DEF Starts
    <3>2. CASE t # s
      BY <2>1, <2>7, <2>8, <3>2 DEF Starts, Subscribed
    <3>3. QED
      BY <3>1, <3>2
  <2>9. QED
    BY <2>1, <2>2, <2>6, <2>8 DEF Starts, EmptyReplay
<1>12. ASSUME NEW s \in Session, ExpireSubscription(s) PROVE Starts'
  <2>1. /\ sub'[s] = NoSub /\ msgid' = msgid /\ oldest' = oldest /\ eventlog_size' = eventlog_size
        /\ \A t \in Session \ {s} : sub'[t] = sub[t] /\ owed'[t] = owed[t]
    BY <1>12 DEF ExpireSubscription, Remove, TypeOK, profile, log, msgid
  <2>2. QED
    BY <2>1 DEF Starts, Pending, EmptyReplay, Subscribed
<1>13. CASE NextRound
  BY <1>13 DEF NextRound, Starts, Pending, EmptyReplay, Subscribed, profile, log, round, msgid
<1>14. CASE EndBurst
  <2>1. /\ msgid' = msgid /\ msgid \in Nat /\ oldest \in Nat
        /\ oldest' \in Nat /\ oldest <= oldest' /\ oldest' <= msgid + 1
    BY <1>14 DEF EndBurst, CleanEventlog, TypeOK, LogOK, msgid, profile
  <2>2. sub' = sub /\ owed' = owed /\ eventlog_size' = eventlog_size /\ serving /\ todo = {}
    BY <1>14 DEF EndBurst, profile
  <2>3. \A s \in Subscribed : owed[s] \in Nat
    BY DEF TypeOK, Subscribed
  <2>4. \A s \in Subscribed :
          ~EmptyReplay(sub[s]) /\ sub[s].lastmsgid = 0 => oldest' = oldest
    BY <2>1, <2>2 DEF Visited
  <2>5. QED
    BY <2>1, <2>2, <2>4 DEF Starts, Pending, EmptyReplay, Subscribed
<1>15. CASE UNCHANGED vars
  BY <1>15 
  DEF TypeOK, Starts, Pending, EmptyReplay, Subscribed, msgid, vars
<1>16. QED
  BY <1>1, <1>2, <1>3, <1>4, <1>5, <1>6, <1>7, <1>8, <1>9, <1>10, <1>11, <1>12, <1>13, <1>14, <1>15, Served
  DEF Next, Handler, Burst, Gets


\* Without a log, no message goes that a subscription points to.
LEMMA PointersStep ==
  ASSUME TypeOK, LogOK, TodoOK, Flags, Visited, Starts, PointersLive, [Next]_vars
  PROVE  PointersLive'
<1>1. CASE Tick
  BY <1>1 DEF Tick, PointersLive, Subscribed, profile, log, round, msgid
<1>2. CASE QueueNotification
  <2>1. /\ msgid \in Nat /\ msgid' = msgid + 1 /\ oldest \in Nat
        /\ eventlog_size = 0 => oldest' = oldest
    BY <1>2, BoundsAreNumbers DEF QueueNotification, DeleteOldest, TypeOK, msgid
  <2>2. sub' = sub /\ eventlog_size' = eventlog_size
    BY <1>2 DEF QueueNotification, profile
  <2>3. oldest..msgid \subseteq oldest..(msgid + 1)
    BY <2>1
  <2>4. QED
    BY <2>1, <2>2, <2>3 DEF PointersLive, Subscribed
<1>3. ASSUME NEW s \in Session, SubscribeLive(s) PROVE PointersLive'
  <2>1. /\ sub[s] = NoSub /\ msgid' = msgid /\ oldest' = oldest /\ eventlog_size' = eventlog_size
        /\ \A t \in Session \ {s} : sub'[t] = sub[t]
    BY <1>3 DEF SubscribeLive, Add, TypeOK, profile, log, msgid
  <2>2. oldest \in Nat /\ msgid \in Nat /\ 1 <= oldest
    BY DEF TypeOK, LogOK, msgid
  <2>3. sub'[s].state = "live" /\ sub'[s].lastmsgid \in (oldest..msgid) \cup {0}
    <3> DEFINE c == IF oldest <= msgid THEN msgid ELSE 0
    <3>1. sub'[s] = Subscription("live", NoTime, NoTime, 0, 0, c)
      BY <1>3 DEF SubscribeLive, Add, TypeOK
    <3>2. c \in (oldest..msgid) \cup {0}
      BY <2>2
    <3>3. QED
      BY <3>1, <3>2 DEF Subscription
  <2>4. QED
    BY <2>1, <2>2, <2>3 DEF PointersLive, Subscribed
<1>4. ASSUME NEW s \in Session, NEW w \in Windows[s], SubscribeEmpty(s, w[1], w[2]) PROVE PointersLive'
  <2>1. /\ sub[s] = NoSub /\ msgid' = msgid /\ oldest' = oldest /\ eventlog_size' = eventlog_size
        /\ \A t \in Session \ {s} : sub'[t] = sub[t]
    BY <1>4 DEF SubscribeEmpty, Add, TypeOK, profile, log, msgid
  <2>2. oldest \in Nat /\ msgid \in Nat /\ 1 <= oldest
    BY DEF TypeOK, LogOK, msgid
  <2>3. sub'[s].lastmsgid = 0 /\ sub'[s].rcReady
    <3>1. sub'[s] = Subscription("replay", w[1], w[2], 0, 0, 0)
      BY <1>4 DEF SubscribeEmpty, Add, TypeOK
    <3>2. sub'[s].rcReady
      BY <3>1, SubscriptionReady
    <3>3. sub'[s].lastmsgid = 0
      BY <3>1 DEF Subscription
    <3>4. QED
      BY <3>2, <3>3
  <2>4. QED
    BY <2>1, <2>2, <2>3 DEF PointersLive, Subscribed
<1>5. ASSUME NEW s \in Session, NEW w \in Windows[s], SubscribeReplay(s, w[1], w[2]) PROVE PointersLive'
  <2>1. /\ sub[s] = NoSub /\ msgid' = msgid /\ oldest' = oldest /\ eventlog_size' = eventlog_size
        /\ \A t \in Session \ {s} : sub'[t] = sub[t]
    BY <1>5 DEF SubscribeReplay, Add, TypeOK, profile, log, msgid
  <2>2. oldest \in Nat /\ msgid \in Nat /\ 1 <= oldest
    BY DEF TypeOK, LogOK, msgid
  <2>3. sub'[s].lastmsgid = 0 /\ sub'[s].firstreplaymsgid \in oldest..msgid
    BY <1>5, <2>2 DEF SubscribeReplay, Add, Subscription, TypeOK, Since
  <2>4. QED
    BY <2>1, <2>2, <2>3 DEF PointersLive, Subscribed
<1>6. ASSUME NEW s \in Session, Close(s) PROVE PointersLive'
  <2>1. /\ sub'[s] = NoSub /\ msgid' = msgid /\ oldest' = oldest /\ eventlog_size' = eventlog_size
        /\ \A t \in Session \ {s} : sub'[t] = sub[t]
    BY <1>6 DEF Close, Remove, TypeOK, profile, log, msgid
  <2>2. QED
    BY <2>1 DEF PointersLive, Subscribed
<1>7. CASE Serve
  BY <1>7 DEF Serve, PointersLive, Subscribed, profile, log, round, msgid
<1>8. ASSUME NEW s \in Subscribed, NEW r \in Record, s \in todo, sub[s] \in Record, GetsEvent(s, sub[s], r)
      PROVE PointersLive'
  <2>1. /\ sub'[s] = r /\ Subscribed' = Subscribed
        /\ \A t \in Session \ {s} : sub'[t] = sub[t] /\ inbox'[t] = inbox[t]
    BY <1>8, OneChanged DEF GetsEvent
  <2>2. /\ todo' = todo \ {s} /\ serving' = serving /\ oldest' = oldest /\ msgid' = msgid
        /\ eventlog_size' = eventlog_size /\ owed' = owed
    BY <1>8 DEF GetsEvent, Send, profile, log, msgid
  <2>3. /\ r.lastmsgid > 0 => r.lastmsgid \in oldest..msgid \/ eventlog_size # 0
        /\ eventlog_size # 0 \/ ~(r.state = "replay" /\ ~r.rcReady /\ r.lastmsgid = 0)
    BY <1>8, EventOK DEF GetsEvent
  <2>4. QED
    BY <2>1, <2>2, <2>3 DEF PointersLive, Subscribed
<1>9. ASSUME NEW s \in Subscribed, NEW r \in Record, s \in todo, sub[s] \in Record, GetsReplayComplete(s, sub[s], r)
      PROVE PointersLive'
  <2>1. /\ sub'[s] = r /\ Subscribed' = Subscribed
        /\ \A t \in Session \ {s} : sub'[t] = sub[t] /\ inbox'[t] = inbox[t]
    BY <1>9, OneChanged DEF GetsReplayComplete
  <2>2. /\ todo' = todo \ {s} /\ serving' = serving /\ oldest' = oldest /\ msgid' = msgid
        /\ eventlog_size' = eventlog_size /\ owed' = owed
    BY <1>9 DEF GetsReplayComplete, Send, profile, log, msgid
  <2>3. /\ r.lastmsgid > 0 => r.lastmsgid \in oldest..msgid \/ eventlog_size # 0
        /\ eventlog_size # 0 \/ ~(r.state = "replay" /\ ~r.rcReady /\ r.lastmsgid = 0)
    BY <1>9 DEF GetsReplayComplete, PointersLive
  <2>4. QED
    BY <2>1, <2>2, <2>3 DEF PointersLive, Subscribed
<1>10. ASSUME NEW s \in Subscribed, NEW r \in Record, s \in todo, sub[s] \in Record, GetsNotificationComplete(s, sub[s], r)
      PROVE PointersLive'
  <2>1. /\ sub'[s] = r /\ Subscribed' = Subscribed
        /\ \A t \in Session \ {s} : sub'[t] = sub[t] /\ inbox'[t] = inbox[t]
    BY <1>10, OneChanged DEF GetsNotificationComplete
  <2>2. /\ todo' = todo \ {s} /\ serving' = serving /\ oldest' = oldest /\ msgid' = msgid
        /\ eventlog_size' = eventlog_size /\ owed' = owed
    BY <1>10 DEF GetsNotificationComplete, Send, profile, log, msgid
  <2>3. /\ r.lastmsgid > 0 => r.lastmsgid \in oldest..msgid \/ eventlog_size # 0
        /\ eventlog_size # 0 \/ ~(r.state = "replay" /\ ~r.rcReady /\ r.lastmsgid = 0)
    BY <1>10 DEF GetsNotificationComplete, PointersLive
  <2>4. QED
    BY <2>1, <2>2, <2>3 DEF PointersLive, Subscribed
<1>11. ASSUME NEW s \in Subscribed, NEW r \in Record, s \in todo, sub[s] \in Record, GetsNothing(s, sub[s], r)
      PROVE PointersLive'
  <2>1. /\ sub'[s] = r /\ Subscribed' = Subscribed
        /\ \A t \in Session \ {s} : sub'[t] = sub[t] /\ inbox'[t] = inbox[t]
    BY <1>11, OneChanged DEF GetsNothing
  <2>2. /\ todo' = todo \ {s} /\ serving' = serving /\ oldest' = oldest /\ msgid' = msgid
        /\ eventlog_size' = eventlog_size /\ owed' = owed
    BY <1>11 DEF GetsNothing, Visit, profile, log, msgid
  <2>3. /\ r.lastmsgid > 0 => r.lastmsgid \in oldest..msgid \/ eventlog_size # 0
        /\ eventlog_size # 0 \/ ~(r.state = "replay" /\ ~r.rcReady /\ r.lastmsgid = 0)
    <3>1. sub[s].state = "replay" => r.rcReady
      BY <1>11 DEF GetsNothing, Flags
    <3>2. r.lastmsgid = sub[s].lastmsgid /\ (sub[s].state # "replay" => r.state # "replay")
      BY <1>11 DEF GetsNothing
    <3>3. QED
      BY <3>1, <3>2 DEF PointersLive
  <2>4. QED
    BY <2>1, <2>2, <2>3 DEF PointersLive, Subscribed
<1>12. ASSUME NEW s \in Session, ExpireSubscription(s) PROVE PointersLive'
  <2>1. /\ sub'[s] = NoSub /\ msgid' = msgid /\ oldest' = oldest /\ eventlog_size' = eventlog_size
        /\ \A t \in Session \ {s} : sub'[t] = sub[t]
    BY <1>12 DEF ExpireSubscription, Remove, TypeOK, profile, log, msgid
  <2>2. QED
    BY <2>1 DEF PointersLive, Subscribed
<1>13. CASE NextRound
  BY <1>13 DEF NextRound, PointersLive, Subscribed, profile, log, round, msgid
<1>14. CASE EndBurst
  <2> SUFFICES ASSUME eventlog_size' = 0, NEW s \in Subscribed'
               PROVE  /\ sub'[s].lastmsgid > 0 => sub'[s].lastmsgid \in oldest'..msgid'
                      /\ sub'[s].state = "replay" /\ ~sub'[s].rcReady /\ sub'[s].lastmsgid = 0 =>
                           sub'[s].firstreplaymsgid \in oldest'..msgid'
    BY DEF PointersLive
  <2>1. /\ sub' = sub /\ msgid' = msgid /\ eventlog_size = 0 /\ serving /\ todo = {}
        /\ s \in Subscribed
    BY <1>14 DEF EndBurst, profile, msgid, Subscribed
  <2>2. ~Pending(s)
    BY <2>1 DEF Visited
  <2>3. PICK m \in oldest..(msgid + 1) :
          oldest' = m /\ \A k \in oldest..(m - 1) : Passed(k)
    BY <1>14, <2>1 DEF EndBurst, CleanEventlog
  <2>4. sub[s].lastmsgid > 0 => sub[s].lastmsgid \in oldest..msgid
    BY <2>1 DEF PointersLive
  <2>5. sub[s].lastmsgid \in oldest..(m - 1) /\ sub[s].lastmsgid > 0 => FALSE
    <3> SUFFICES ASSUME sub[s].lastmsgid \in oldest..(m - 1), sub[s].lastmsgid > 0 PROVE FALSE
      OBVIOUS
    <3>1. sub[s].lastmsgid = 0 \/ sub[s].lastmsgid < sub[s].lastmsgid
      BY <2>1, <2>3 DEF Passed
    <3>2. sub[s].lastmsgid \in Int
      BY DEF TypeOK
    <3>3. QED
      BY <3>1, <3>2
  <2>6. oldest \in Nat /\ msgid \in Nat
    BY DEF TypeOK, msgid
  <2>7. QED
    BY <2>1, <2>2, <2>3, <2>4, <2>5, <2>6 DEF Pending
<1>15. CASE UNCHANGED vars
  BY <1>15 
  DEF TypeOK, PointersLive, Subscribed, msgid, vars
<1>16. QED
  BY <1>1, <1>2, <1>3, <1>4, <1>5, <1>6, <1>7, <1>8, <1>9, <1>10, <1>11, <1>12, <1>13, <1>14, <1>15, Served
  DEF Next, Handler, Burst, Gets


\* A session gets every event it is owed, unless a full log lost it.
LEMMA LostStep ==
  ASSUME TypeOK, LogOK, TodoOK, Flags, Unread, Starts, PointersLive, NothingLost, [Next]_vars
  PROVE  NothingLost'
<1>1. CASE Tick
  BY <1>1 DEF Tick, NothingLost, EmptyReplay, Received, Subscribed, profile, log, round
<1>2. CASE QueueNotification
  <2>1. oldest \in Nat /\ oldest' \in Nat /\ oldest <= oldest'
    BY <1>2, BoundsAreNumbers DEF QueueNotification, DeleteOldest, TypeOK, LogOK, msgid
  <2>2. /\ sub' = sub /\ owed' = owed /\ eventlog_size' = eventlog_size /\ Subscribed' = Subscribed
        /\ \A s \in Subscribed : Received(s)' = Received(s)
    BY <1>2 DEF QueueNotification, profile, Received, Subscribed
  <2>3. \A s \in Subscribed : owed[s] \in Nat /\ sub[s].lastmsgid \in Nat
    BY DEF TypeOK, Subscribed, Record
  <2>4. \A s \in Subscribed : \A m \in owed[s]..sub[s].lastmsgid : m < oldest => m < oldest'
    BY <2>1, <2>3
  <2>5. QED
    BY <2>2, <2>4 DEF NothingLost
<1>3. ASSUME NEW s \in Session, SubscribeLive(s) PROVE NothingLost'
  <2>1. /\ sub[s] = NoSub /\ oldest' = oldest /\ eventlog_size' = eventlog_size /\ inbox' = inbox
        /\ \A t \in Session \ {s} : sub'[t] = sub[t] /\ owed'[t] = owed[t] /\ inbox'[t] = inbox[t]
    BY <1>3 DEF SubscribeLive, Add, TypeOK, profile, log
  <2>2. Received(s)' = {} /\ \A m \in owed'[s]..sub'[s].lastmsgid : FALSE
    <3>1. inbox'[s] = <<>>
      BY <2>1 DEF Unread
    <3>2. Received(s)' = {}
      BY <3>1 DEF Received, Mark
    <3>3. owed'[s] = msgid + 1 /\ sub'[s].lastmsgid \in {0, msgid} /\ msgid \in Nat
      BY <1>3 DEF SubscribeLive, Add, Subscription, TypeOK, msgid
    <3>4. QED
      BY <3>2, <3>3
  <2>3. ASSUME NEW t \in Subscribed', ~EmptyReplay(sub'[t])
        PROVE  /\ \A m \in Received(t)' : owed'[t] <= m
               /\ \A m \in owed'[t]..sub'[t].lastmsgid : m \in Received(t)' \/ (eventlog_size > 0 /\ m < oldest)
    <3>1. CASE t = s
      BY <2>1, <2>2, <2>3, <3>1 DEF Subscribed
    <3>2. CASE t # s
      <4>1. t \in Subscribed /\ sub'[t] = sub[t] /\ owed'[t] = owed[t] /\ Received(t)' = Received(t)
        BY <2>1, <3>2 DEF Subscribed, Received
      <4>2. QED
        BY <2>3, <4>1 DEF NothingLost
    <3>3. QED
      BY <3>1, <3>2
  <2>4. QED
    BY <2>1, <2>3 DEF NothingLost
<1>4. ASSUME NEW s \in Session, NEW w \in Windows[s], SubscribeEmpty(s, w[1], w[2]) PROVE NothingLost'
  <2>1. /\ sub[s] = NoSub /\ oldest' = oldest /\ eventlog_size' = eventlog_size /\ inbox' = inbox
        /\ \A t \in Session \ {s} : sub'[t] = sub[t] /\ owed'[t] = owed[t] /\ inbox'[t] = inbox[t]
    BY <1>4 DEF SubscribeEmpty, Add, TypeOK, profile, log
  <2>2. EmptyReplay(sub'[s])
    <3>1. w[1] # NoTime
      BY WindowsAreTimes
    <3>2. sub'[s] = Subscription("replay", w[1], w[2], 0, 0, 0)
      BY <1>4 DEF SubscribeEmpty, Add, TypeOK
    <3>3. QED
      BY <3>1, <3>2 DEF Subscription, EmptyReplay
  <2>3. ASSUME NEW t \in Subscribed', ~EmptyReplay(sub'[t])
        PROVE  /\ \A m \in Received(t)' : owed'[t] <= m
               /\ \A m \in owed'[t]..sub'[t].lastmsgid : m \in Received(t)' \/ (eventlog_size > 0 /\ m < oldest)
    <3>1. CASE t = s
      BY <2>1, <2>2, <2>3, <3>1 DEF Subscribed
    <3>2. CASE t # s
      <4>1. t \in Subscribed /\ sub'[t] = sub[t] /\ owed'[t] = owed[t] /\ Received(t)' = Received(t)
        BY <2>1, <3>2 DEF Subscribed, Received
      <4>2. QED
        BY <2>3, <4>1 DEF NothingLost
    <3>3. QED
      BY <3>1, <3>2
  <2>4. QED
    BY <2>1, <2>3 DEF NothingLost
<1>5. ASSUME NEW s \in Session, NEW w \in Windows[s], SubscribeReplay(s, w[1], w[2]) PROVE NothingLost'
  <2>1. /\ sub[s] = NoSub /\ oldest' = oldest /\ eventlog_size' = eventlog_size /\ inbox' = inbox
        /\ \A t \in Session \ {s} : sub'[t] = sub[t] /\ owed'[t] = owed[t] /\ inbox'[t] = inbox[t]
    BY <1>5 DEF SubscribeReplay, Add, TypeOK, profile, log
  <2>2. Received(s)' = {} /\ \A m \in owed'[s]..sub'[s].lastmsgid : FALSE
    <3>1. inbox'[s] = <<>>
      BY <2>1 DEF Unread
    <3>2. Received(s)' = {}
      BY <3>1 DEF Received, Mark
    <3>3. owed'[s] \in oldest..msgid /\ sub'[s].lastmsgid = 0 /\ msgid \in Nat /\ oldest \in Nat /\ 1 <= oldest
      BY <1>5 DEF SubscribeReplay, Add, Subscription, TypeOK, Since, LogOK, msgid
    <3>4. QED
      BY <3>2, <3>3
  <2>3. ASSUME NEW t \in Subscribed', ~EmptyReplay(sub'[t])
        PROVE  /\ \A m \in Received(t)' : owed'[t] <= m
               /\ \A m \in owed'[t]..sub'[t].lastmsgid : m \in Received(t)' \/ (eventlog_size > 0 /\ m < oldest)
    <3>1. CASE t = s
      BY <2>1, <2>2, <2>3, <3>1 DEF Subscribed
    <3>2. CASE t # s
      <4>1. t \in Subscribed /\ sub'[t] = sub[t] /\ owed'[t] = owed[t] /\ Received(t)' = Received(t)
        BY <2>1, <3>2 DEF Subscribed, Received
      <4>2. QED
        BY <2>3, <4>1 DEF NothingLost
    <3>3. QED
      BY <3>1, <3>2
  <2>4. QED
    BY <2>1, <2>3 DEF NothingLost
<1>6. ASSUME NEW s \in Session, Close(s) PROVE NothingLost'
  <2>1. /\ sub'[s] = NoSub /\ oldest' = oldest /\ eventlog_size' = eventlog_size
        /\ \A t \in Session \ {s} : sub'[t] = sub[t] /\ owed'[t] = owed[t] /\ inbox'[t] = inbox[t]
    BY <1>6 DEF Close, Remove, TypeOK, profile, log
  <2>2. ASSUME NEW t \in Subscribed', ~EmptyReplay(sub'[t])
        PROVE  /\ \A m \in Received(t)' : owed'[t] <= m
               /\ \A m \in owed'[t]..sub'[t].lastmsgid : m \in Received(t)' \/ (eventlog_size > 0 /\ m < oldest)
    <3>1. CASE t = s
      BY <2>1, <3>1 DEF Subscribed
    <3>2. CASE t # s
      <4>1. t \in Subscribed /\ sub'[t] = sub[t] /\ owed'[t] = owed[t] /\ Received(t)' = Received(t)
        BY <2>1, <3>2 DEF Subscribed, Received
      <4>2. QED
        BY <2>2, <4>1 DEF NothingLost
    <3>3. QED
      BY <3>1, <3>2
  <2>3. QED
    BY <2>1, <2>2 DEF NothingLost
<1>7. CASE Serve
  BY <1>7 DEF Serve, NothingLost, EmptyReplay, Received, Subscribed, profile, log, round
<1>8. ASSUME NEW s \in Subscribed, NEW r \in Record, s \in todo, sub[s] \in Record, GetsEvent(s, sub[s], r)
      PROVE NothingLost'
  <2>1. /\ sub'[s] = r /\ Subscribed' = Subscribed
        /\ \A t \in Session \ {s} : sub'[t] = sub[t] /\ inbox'[t] = inbox[t]
    BY <1>8, OneChanged DEF GetsEvent
  <2>2. /\ todo' = todo \ {s} /\ serving' = serving /\ oldest' = oldest /\ msgid' = msgid
        /\ eventlog_size' = eventlog_size /\ owed' = owed
    BY <1>8 DEF GetsEvent, Send, profile, log, msgid
  <2>3. ASSUME NEW t \in Subscribed, t # s
        PROVE  sub'[t] = sub[t] /\ Received(t)' = Received(t)
    BY <2>1, <2>3 DEF Received, Subscribed
  <2>4. EmptyReplay(r) <=> EmptyReplay(sub[s])
    BY <1>8 DEF GetsEvent, Same, EmptyReplay
  <2>5. ASSUME ~EmptyReplay(sub[s])
        PROVE  /\ \A m \in Received(s)' : owed[s] <= m
               /\ \A m \in owed[s]..sub'[s].lastmsgid : m \in Received(s)' \/ (eventlog_size > 0 /\ m < oldest)
    <3> DEFINE m == r.lastmsgid
    <3>1. /\ m \in oldest..msgid
          /\ From(sub[s]) \in Int /\ From(sub[s]) < m
          /\ \A k \in (From(sub[s]) + 1)..(m - 1) : k < oldest
      BY <1>8, EventOK
    <3>2. /\ sub[s].lastmsgid \in Nat /\ owed[s] \in Nat /\ oldest \in Nat /\ msgid \in Nat
          /\ m \in Nat /\ 1 <= owed[s] /\ 1 <= oldest
      BY <1>8, <2>5 DEF Record, TypeOK, LogOK, Subscribed, msgid, Starts
    <3>3. Received(s)' = Received(s) \cup {m}
      <4>1. Send(s, r, m) /\ m \in Nat \cup Mark /\ m \notin Mark
        BY <1>8, <3>2, MarksAreNoEvents DEF GetsEvent, Mark
      <4>2. Received(s)' = Received(s) \cup ({m} \ Mark)
        BY <4>1, Sent
      <4>3. QED
        BY <4>1, <4>2
    <3>4. owed[s] <= m
      <4>1. r.lastmsgid > 0 /\ ~EmptyReplay(r)
        BY <2>4, <2>5, <3>1, <3>2
      <4>2. CASE Pending(s)
        <5>1. From(sub[s]) = sub[s].firstreplaymsgid - 1 /\ owed[s] = sub[s].firstreplaymsgid
          BY <4>2 DEF From, Pending, Starts
        <5>2. QED
          BY <3>1, <3>2, <5>1
      <4>3. CASE ~Pending(s) /\ sub[s].lastmsgid = 0
        BY <2>5, <3>1, <3>2, <4>3 DEF Starts
      <4>4. CASE sub[s].lastmsgid > 0
        BY <2>5, <3>1, <3>2, <4>4 DEF Starts, From
      <4>5. QED
        BY <3>2, <4>2, <4>3, <4>4
    <3>5. ASSUME NEW k \in owed[s]..m, k # m, ~(k \in Received(s))
          PROVE  eventlog_size > 0 /\ k < oldest
      <4>1. eventlog_size \in Nat /\ k \in Nat /\ 1 <= k /\ k < m
        BY <3>2, <3>5, BoundsAreNumbers DEF TypeOK
      <4>2. CASE sub[s].lastmsgid > 0
        <5>1. From(sub[s]) = sub[s].lastmsgid
          BY <4>2 DEF From
        <5>2. CASE k <= sub[s].lastmsgid
          BY <2>5, <3>2, <3>5, <4>1, <5>2 DEF NothingLost
        <5>3. CASE ~(k <= sub[s].lastmsgid)
          <6>1. k < oldest
            BY <3>1, <3>2, <4>1, <5>1, <5>3
          <6>2. eventlog_size = 0 => sub[s].lastmsgid \in oldest..msgid
            BY <4>2 DEF PointersLive
          <6>3. QED
            BY <3>2, <4>1, <5>3, <6>1, <6>2
        <5>4. QED
          BY <5>2, <5>3
      <4>3. CASE Pending(s)
        <5>1. From(sub[s]) = sub[s].firstreplaymsgid - 1 /\ owed[s] = sub[s].firstreplaymsgid
          BY <4>3 DEF From, Pending, Starts
        <5>2. k < oldest
          BY <3>1, <3>2, <3>5, <4>1, <5>1
        <5>3. eventlog_size = 0 => sub[s].firstreplaymsgid \in oldest..msgid
          BY <4>3 DEF PointersLive, Pending
        <5>4. QED
          BY <3>2, <3>5, <4>1, <5>1, <5>2, <5>3
      <4>4. CASE ~Pending(s) /\ sub[s].lastmsgid = 0
        <5>1. sub[s].state = "live" /\ owed[s] <= oldest /\ (eventlog_size = 0 => owed[s] = oldest)
          BY <2>5, <4>4 DEF Starts
        <5>2. From(sub[s]) = 0
          BY <4>4, <5>1 DEF From
        <5>3. QED
          BY <3>1, <3>2, <3>5, <4>1, <5>1, <5>2
      <4>5. QED
        BY <3>2, <4>2, <4>3, <4>4
    <3>6. \A k \in Received(s) : owed[s] <= k
      BY <2>5 DEF NothingLost
    <3>7. QED
      BY <2>1, <3>2, <3>3, <3>4, <3>5, <3>6
  <2>6. ASSUME NEW t \in Subscribed, ~EmptyReplay(sub'[t])
        PROVE  /\ \A m \in Received(t)' : owed[t] <= m
               /\ \A m \in owed[t]..sub'[t].lastmsgid : m \in Received(t)' \/ (eventlog_size > 0 /\ m < oldest)
    <3>1. CASE t = s
      BY <2>1, <2>4, <2>5, <2>6, <3>1
    <3>2. CASE t # s
      BY <2>3, <2>6, <3>2 DEF NothingLost
    <3>3. QED
      BY <3>1, <3>2
  <2>7. QED
    BY <2>1, <2>2, <2>6 DEF NothingLost
<1>9. ASSUME NEW s \in Subscribed, NEW r \in Record, s \in todo, sub[s] \in Record, GetsReplayComplete(s, sub[s], r)
      PROVE NothingLost'
  <2>1. /\ sub'[s] = r /\ Subscribed' = Subscribed
        /\ \A t \in Session \ {s} : sub'[t] = sub[t] /\ inbox'[t] = inbox[t]
    BY <1>9, OneChanged DEF GetsReplayComplete
  <2>2. /\ todo' = todo \ {s} /\ serving' = serving /\ oldest' = oldest /\ msgid' = msgid
        /\ eventlog_size' = eventlog_size /\ owed' = owed
    BY <1>9 DEF GetsReplayComplete, Send, profile, log, msgid
  <2>3. ASSUME NEW t \in Subscribed, t # s
        PROVE  sub'[t] = sub[t] /\ Received(t)' = Received(t)
    BY <2>1, <2>3 DEF Received, Subscribed
  <2>4. EmptyReplay(r) <=> EmptyReplay(sub[s])
    BY <1>9 DEF GetsReplayComplete, Same, EmptyReplay
  <2>5. ASSUME ~EmptyReplay(sub[s])
        PROVE  /\ \A m \in Received(s)' : owed[s] <= m
               /\ \A m \in owed[s]..sub'[s].lastmsgid : m \in Received(s)' \/ (eventlog_size > 0 /\ m < oldest)
    <3>1. Received(s)' = Received(s)
      <4>1. Received(s)' = Received(s) \cup ({ReplayComplete} \ Mark)
        BY <1>9, Sent DEF GetsReplayComplete, Mark
      <4>2. QED
        BY <4>1 DEF Mark
    <3>2. r.lastmsgid = sub[s].lastmsgid
      BY <1>9 DEF GetsReplayComplete
    <3>3. QED
      BY <2>1, <2>5, <3>1, <3>2 DEF NothingLost
  <2>6. ASSUME NEW t \in Subscribed, ~EmptyReplay(sub'[t])
        PROVE  /\ \A m \in Received(t)' : owed[t] <= m
               /\ \A m \in owed[t]..sub'[t].lastmsgid : m \in Received(t)' \/ (eventlog_size > 0 /\ m < oldest)
    <3>1. CASE t = s
      BY <2>1, <2>4, <2>5, <2>6, <3>1
    <3>2. CASE t # s
      BY <2>3, <2>6, <3>2 DEF NothingLost
    <3>3. QED
      BY <3>1, <3>2
  <2>7. QED
    BY <2>1, <2>2, <2>6 DEF NothingLost
<1>10. ASSUME NEW s \in Subscribed, NEW r \in Record, s \in todo, sub[s] \in Record, GetsNotificationComplete(s, sub[s], r)
      PROVE NothingLost'
  <2>1. /\ sub'[s] = r /\ Subscribed' = Subscribed
        /\ \A t \in Session \ {s} : sub'[t] = sub[t] /\ inbox'[t] = inbox[t]
    BY <1>10, OneChanged DEF GetsNotificationComplete
  <2>2. /\ todo' = todo \ {s} /\ serving' = serving /\ oldest' = oldest /\ msgid' = msgid
        /\ eventlog_size' = eventlog_size /\ owed' = owed
    BY <1>10 DEF GetsNotificationComplete, Send, profile, log, msgid
  <2>3. ASSUME NEW t \in Subscribed, t # s
        PROVE  sub'[t] = sub[t] /\ Received(t)' = Received(t)
    BY <2>1, <2>3 DEF Received, Subscribed
  <2>4. EmptyReplay(r) <=> EmptyReplay(sub[s])
    BY <1>10 DEF GetsNotificationComplete, Same, EmptyReplay
  <2>5. ASSUME ~EmptyReplay(sub[s])
        PROVE  /\ \A m \in Received(s)' : owed[s] <= m
               /\ \A m \in owed[s]..sub'[s].lastmsgid : m \in Received(s)' \/ (eventlog_size > 0 /\ m < oldest)
    <3>1. Received(s)' = Received(s)
      <4>1. Received(s)' = Received(s) \cup ({NotificationComplete} \ Mark)
        BY <1>10, Sent DEF GetsNotificationComplete, Mark
      <4>2. QED
        BY <4>1 DEF Mark
    <3>2. r.lastmsgid = sub[s].lastmsgid
      BY <1>10 DEF GetsNotificationComplete
    <3>3. QED
      BY <2>1, <2>5, <3>1, <3>2 DEF NothingLost
  <2>6. ASSUME NEW t \in Subscribed, ~EmptyReplay(sub'[t])
        PROVE  /\ \A m \in Received(t)' : owed[t] <= m
               /\ \A m \in owed[t]..sub'[t].lastmsgid : m \in Received(t)' \/ (eventlog_size > 0 /\ m < oldest)
    <3>1. CASE t = s
      BY <2>1, <2>4, <2>5, <2>6, <3>1
    <3>2. CASE t # s
      BY <2>3, <2>6, <3>2 DEF NothingLost
    <3>3. QED
      BY <3>1, <3>2
  <2>7. QED
    BY <2>1, <2>2, <2>6 DEF NothingLost
<1>11. ASSUME NEW s \in Subscribed, NEW r \in Record, s \in todo, sub[s] \in Record, GetsNothing(s, sub[s], r)
      PROVE NothingLost'
  <2>1. /\ sub'[s] = r /\ Subscribed' = Subscribed
        /\ \A t \in Session \ {s} : sub'[t] = sub[t] /\ inbox'[t] = inbox[t]
    BY <1>11, OneChanged DEF GetsNothing
  <2>2. /\ todo' = todo \ {s} /\ serving' = serving /\ oldest' = oldest /\ msgid' = msgid
        /\ eventlog_size' = eventlog_size /\ owed' = owed
    BY <1>11 DEF GetsNothing, Visit, profile, log, msgid
  <2>3. ASSUME NEW t \in Subscribed, t # s
        PROVE  sub'[t] = sub[t] /\ Received(t)' = Received(t)
    BY <2>1, <2>3 DEF Received, Subscribed
  <2>4. EmptyReplay(r) <=> EmptyReplay(sub[s])
    BY <1>11 DEF GetsNothing, Same, EmptyReplay
  <2>5. ASSUME ~EmptyReplay(sub[s])
        PROVE  /\ \A m \in Received(s)' : owed[s] <= m
               /\ \A m \in owed[s]..sub'[s].lastmsgid : m \in Received(s)' \/ (eventlog_size > 0 /\ m < oldest)
    <3>1. Received(s)' = Received(s)
      BY <1>11 DEF GetsNothing, Visit, Received
    <3>2. r.lastmsgid = sub[s].lastmsgid
      BY <1>11 DEF GetsNothing
    <3>3. QED
      BY <2>1, <2>5, <3>1, <3>2 DEF NothingLost
  <2>6. ASSUME NEW t \in Subscribed, ~EmptyReplay(sub'[t])
        PROVE  /\ \A m \in Received(t)' : owed[t] <= m
               /\ \A m \in owed[t]..sub'[t].lastmsgid : m \in Received(t)' \/ (eventlog_size > 0 /\ m < oldest)
    <3>1. CASE t = s
      BY <2>1, <2>4, <2>5, <2>6, <3>1
    <3>2. CASE t # s
      BY <2>3, <2>6, <3>2 DEF NothingLost
    <3>3. QED
      BY <3>1, <3>2
  <2>7. QED
    BY <2>1, <2>2, <2>6 DEF NothingLost
<1>12. ASSUME NEW s \in Session, ExpireSubscription(s) PROVE NothingLost'
  <2>1. /\ sub'[s] = NoSub /\ oldest' = oldest /\ eventlog_size' = eventlog_size
        /\ \A t \in Session \ {s} : sub'[t] = sub[t] /\ owed'[t] = owed[t] /\ inbox'[t] = inbox[t]
    BY <1>12 DEF ExpireSubscription, Remove, TypeOK, profile, log
  <2>2. ASSUME NEW t \in Subscribed', ~EmptyReplay(sub'[t])
        PROVE  /\ \A m \in Received(t)' : owed'[t] <= m
               /\ \A m \in owed'[t]..sub'[t].lastmsgid : m \in Received(t)' \/ (eventlog_size > 0 /\ m < oldest)
    <3>1. CASE t = s
      BY <2>1, <3>1 DEF Subscribed
    <3>2. CASE t # s
      <4>1. t \in Subscribed /\ sub'[t] = sub[t] /\ owed'[t] = owed[t] /\ Received(t)' = Received(t)
        BY <2>1, <3>2 DEF Subscribed, Received
      <4>2. QED
        BY <2>2, <4>1 DEF NothingLost
    <3>3. QED
      BY <3>1, <3>2
  <2>3. QED
    BY <2>1, <2>2 DEF NothingLost
<1>13. CASE NextRound
  BY <1>13 DEF NextRound, NothingLost, EmptyReplay, Received, Subscribed, profile, log, round
<1>14. CASE EndBurst
  <2>1. oldest \in Nat /\ oldest' \in Nat /\ oldest <= oldest'
    BY <1>14, BoundsAreNumbers DEF EndBurst, CleanEventlog, TypeOK, LogOK, msgid
  <2>2. /\ sub' = sub /\ owed' = owed /\ eventlog_size' = eventlog_size /\ Subscribed' = Subscribed
        /\ \A s \in Subscribed : Received(s)' = Received(s)
    BY <1>14 DEF EndBurst, profile, Received, Subscribed
  <2>3. \A s \in Subscribed : owed[s] \in Nat /\ sub[s].lastmsgid \in Nat
    BY DEF TypeOK, Subscribed, Record
  <2>4. \A s \in Subscribed : \A m \in owed[s]..sub[s].lastmsgid : m < oldest => m < oldest'
    BY <2>1, <2>3
  <2>5. QED
    BY <2>2, <2>4 DEF NothingLost
<1>15. CASE UNCHANGED vars
  BY <1>15 
  DEF TypeOK, NothingLost, EmptyReplay, Received, Subscribed, vars
<1>16. QED
  BY <1>1, <1>2, <1>3, <1>4, <1>5, <1>6, <1>7, <1>8, <1>9, <1>10, <1>11, <1>12, <1>13, <1>14, <1>15, Served
  DEF Next, Handler, Burst, Gets

-------------------------------------------------------------------------------
(* Events that come after stopTime.                                        *)

\* No event is later than the clock.
LEMMA TimesStep ==
  ASSUME TypeOK, LogOK, TodoOK, Flags, TimesOK, [Next]_vars
  PROVE  TimesOK'
<1>0. msgid \in Nat /\ now \in Nat /\ \A m \in 1..msgid : eventTime[m] \in Nat
  BY DEF TypeOK, msgid
<1>1. ASSUME now' \in Nat, now <= now', eventTime' = eventTime PROVE TimesOK'
  BY <1>0, <1>1 DEF TimesOK, msgid
<1>2. CASE QueueNotification
  <2>1. eventTime' = Append(eventTime, now) /\ now' = now /\ msgid' = msgid + 1
    BY <1>2 DEF QueueNotification, TypeOK, msgid
  <2>2. \A m \in 1..(msgid + 1) : eventTime'[m] <= now
    BY <1>0, <2>1 DEF TimesOK, TypeOK, msgid
  <2>3. QED
    BY <2>1, <2>2 DEF TimesOK
<1>3. CASE Tick
  BY <1>0, <1>1, <1>3 DEF Tick, log
<1>4. ASSUME NEW s \in Session, ServeOne(s) PROVE TimesOK'
  BY <1>0, <1>1, <1>4
  DEF ServeOne, SendReplayed, ReplayExhausted, SendReplayComplete, LeaveReplay, StopReplay,
      SendLive, SendTimed, NothingLive, NothingTimed, SendNotificationComplete,
      ExpireSubscription, Send, Visit, log
<1>5. CASE Serve \/ NextRound \/ EndBurst \/ UNCHANGED vars
  BY <1>0, <1>1, <1>5 DEF Serve, NextRound, EndBurst, vars, log
<1>6. CASE Handler /\ ~QueueNotification
  BY <1>0, <1>1, <1>6
  DEF Handler, SubscribeLive, SubscribeEmpty, SubscribeReplay, Add, Close, log
<1>7. QED
  BY <1>2, <1>3, <1>4, <1>5, <1>6 DEF Next, Burst, Handler

\* What is sent to one session, and what stays as it is.
LEMMA Delivered ==
  ASSUME TypeOK, LogOK, NEW s \in Subscribed, sub[s] \in Record, NEW r \in Record,
         Gets(s, sub[s], r)
  PROVE  /\ sub'[s] = r /\ Subscribed' = Subscribed
         /\ \A t \in Session \ {s} : sub'[t] = sub[t] /\ Received(t)' = Received(t)
         /\ UNCHANGED <<now, eventTime, oldest>>
         /\ \/ GetsEvent(s, sub[s], r) /\ Received(s)' = Received(s) \cup {r.lastmsgid}
            \/ ~GetsEvent(s, sub[s], r) /\ Received(s)' = Received(s)
<1>1. PICK x \in Nat \cup Mark : Send(s, r, x) \/ Visit(s, r)
  BY DEF Gets, GetsEvent, GetsReplayComplete, GetsNotificationComplete, GetsNothing, Mark, Record
<1>2. /\ sub'[s] = r /\ Subscribed' = Subscribed
      /\ \A t \in Session \ {s} : sub'[t] = sub[t] /\ inbox'[t] = inbox[t]
  BY <1>1, OneChanged
<1>3. UNCHANGED <<now, eventTime, oldest>>
  BY <1>1 DEF Send, Visit, log
<1>4. \A t \in Session \ {s} : Received(t)' = Received(t)
  BY <1>2 DEF Received
<1>5. CASE GetsEvent(s, sub[s], r)
  <2>1. r.lastmsgid \in Nat /\ Send(s, r, r.lastmsgid)
    BY <1>5 DEF GetsEvent, Record
  <2>2. r.lastmsgid \notin Mark
    BY <2>1, MarksAreNoEvents DEF Mark
  <2>3. Received(s)' = Received(s) \cup {r.lastmsgid}
    BY <2>1, <2>2, Sent
  <2>4. QED
    BY <1>2, <1>3, <1>4, <1>5, <2>3
<1>6. CASE ~GetsEvent(s, sub[s], r)
  <2>1. ASSUME Visit(s, r) PROVE Received(s)' = Received(s)
    BY <2>1 DEF Visit, Received
  <2>2. ASSUME ~Visit(s, r) PROVE Received(s)' = Received(s)
    <3>1. PICK y \in Mark : Send(s, r, y)
      BY <1>6, <2>2 DEF Gets, GetsReplayComplete, GetsNotificationComplete, GetsNothing, Mark
    <3>2. Received(s)' = Received(s) \cup ({y} \ Mark)
      BY <3>1, Sent
    <3>3. QED
      BY <3>2
  <2>3. Received(s)' = Received(s)
    BY <2>1, <2>2
  <2>4. QED
    BY <1>2, <1>3, <1>4, <1>6, <2>3
<1>7. QED
  BY <1>5, <1>6

\* A session is sent events of the log.
LEMMA ReceivedStep ==
  ASSUME TypeOK, LogOK, TodoOK, Flags, Unread, ReceivedOK, [Next]_vars
  PROVE  ReceivedOK'
<1>0. msgid \in Nat
  BY DEF TypeOK, msgid
<1>1. ASSUME msgid' \in Nat, msgid <= msgid', \A s \in Session : Received(s)' \subseteq Received(s)
      PROVE  ReceivedOK'
  BY <1>0, <1>1 DEF ReceivedOK
<1>2. ASSUME msgid' \in Nat, msgid <= msgid', inbox' = inbox PROVE ReceivedOK'
  BY <1>1, <1>2 DEF Received
<1>3. CASE Tick \/ Serve \/ NextRound \/ EndBurst \/ UNCHANGED vars
  BY <1>0, <1>2, <1>3 DEF Tick, Serve, NextRound, EndBurst, vars, log, msgid
<1>4. CASE QueueNotification
  BY <1>0, <1>2, <1>4 DEF QueueNotification, TypeOK, msgid
<1>5. ASSUME NEW s \in Session, Close(s) \/ ExpireSubscription(s) PROVE ReceivedOK'
  <2>1. /\ \A t \in Session : inbox'[t] = <<>> \/ inbox'[t] = inbox[t]
        /\ msgid' = msgid
    BY <1>5 DEF Close, ExpireSubscription, Remove, TypeOK, msgid, log
  <2>2. \A t \in Session : Received(t)' \subseteq Received(t)
    BY <2>1 DEF Received
  <2>3. QED
    BY <1>0, <1>1, <2>1, <2>2
<1>6. ASSUME NEW s \in Session, SubscribeLive(s) PROVE ReceivedOK'
  BY <1>0, <1>2, <1>6 DEF SubscribeLive, Add, log, msgid
<1>7. ASSUME NEW s \in Session, NEW w \in Windows[s],
             SubscribeEmpty(s, w[1], w[2]) \/ SubscribeReplay(s, w[1], w[2])
      PROVE  ReceivedOK'
  BY <1>0, <1>2, <1>7 DEF SubscribeEmpty, SubscribeReplay, Add, log, msgid
<1>8. ASSUME NEW s \in Session, ServeOne(s) PROVE ReceivedOK'
  <2>1. CASE ExpireSubscription(s)
    BY <1>5, <2>1
  <2>2. ASSUME s \in Subscribed, sub[s] \in Record, NEW r \in Record, Gets(s, sub[s], r)
        PROVE  ReceivedOK'
    <3>1. /\ eventTime' = eventTime
          /\ \A t \in Session \ {s} : Received(t)' = Received(t)
          /\ \/ GetsEvent(s, sub[s], r) /\ Received(s)' = Received(s) \cup {r.lastmsgid}
             \/ Received(s)' = Received(s)
      BY <2>2, Delivered
    <3>2. GetsEvent(s, sub[s], r) => r.lastmsgid \in 1..msgid
      BY <2>2, <1>0, EventOK DEF LogOK, TypeOK
    <3>3. QED
      BY <3>1, <3>2 DEF ReceivedOK, msgid
  <2>3. QED
    BY <1>8, <2>1, <2>2, Served
<1>9. QED
  BY <1>3, <1>4, <1>5, <1>6, <1>7, <1>8 DEF Next, Handler, Burst

\* What a session was sent late is a finite set.
LEMMA LateFinite ==
  ASSUME TypeOK, ReceivedOK, NEW s \in Session
  PROVE  IsFiniteSet(Late(s)) /\ Cardinality(Late(s)) \in Nat
<1>1. IsFiniteSet(1..msgid)
  BY FS_Interval DEF TypeOK, msgid
<1>2. Late(s) \subseteq 1..msgid
  BY DEF Late, ReceivedOK
<1>3. QED
  BY <1>1, <1>2, FS_Subset, FS_CardinalityType

\* What a subscription was allowed it stays allowed as the log goes on.
LEMMA LogGoesOn ==
  ASSUME TypeOK, ReceivedOK, NEW s \in Subscribed, Stops(s),
         sub'[s] = sub[s], Received(s)' = Received(s),
         msgid' \in Nat, msgid <= msgid', oldest' \in Nat, oldest <= oldest',
         \A m \in 1..msgid : eventTime'[m] = eventTime[m]
  PROVE  Stops(s)'
<1> DEFINE q == sub[s]
<1>0. s \in Session /\ q \in Record /\ msgid \in Nat /\ oldest \in Nat
  BY DEF Subscribed, TypeOK, msgid
<1>1. SUFFICES ASSUME q.stopTime # NoTime
               PROVE  /\ q.state = "timed" => q.futurestop
                      /\ q.state = "replay" /\ ~q.rcReady => Ahead(q)'
                      /\ Cardinality(Late(s)') <= (Ended(q) + Evicted(q))'
  BY DEF Stops
<1>2. /\ q.state = "timed" => q.futurestop
      /\ q.state = "replay" /\ ~q.rcReady => Ahead(q)
      /\ Cardinality(Late(s)) <= Ended(q) + Evicted(q)
  BY <1>1 DEF Stops
<1>3. Late(s)' = Late(s)
  BY <1>0 DEF Late, ReceivedOK
<1>4. Cardinality(Late(s)) \in Nat
  BY <1>0, LateFinite
<1>5. Ahead(q) => Ahead(q)'
  BY <1>0 DEF Ahead, Record
<1>6. Ended(q)' = Ended(q) /\ Evicted(q) <= Evicted(q)' /\ Ended(q) \in Nat /\ Evicted(q) \in Nat
      /\ Evicted(q)' \in Nat
  BY <1>0 DEF Ended, Evicted, Record
<1>7. QED
  BY <1>2, <1>3, <1>4, <1>5, <1>6

\* One more event makes one more late event at most.
LEMMA LateGrows ==
  ASSUME TypeOK, ReceivedOK, NEW s \in Session, NEW x, NEW T
  PROVE  /\ Cardinality(Late(s)) \in Nat
         /\ T \subseteq Late(s) => Cardinality(T) \in Nat /\ Cardinality(T) <= Cardinality(Late(s))
         /\ T \subseteq Late(s) \cup {x} =>
              Cardinality(T) \in Nat /\ Cardinality(T) <= Cardinality(Late(s)) + 1
<1>1. IsFiniteSet(Late(s)) /\ Cardinality(Late(s)) \in Nat
  BY LateFinite
<1>2. /\ IsFiniteSet(Late(s) \cup {x})
      /\ Cardinality(Late(s) \cup {x}) <= Cardinality(Late(s)) + 1
      /\ Cardinality(Late(s) \cup {x}) \in Nat
  BY <1>1, FS_AddElement
<1>3. ASSUME T \subseteq Late(s)
      PROVE  Cardinality(T) \in Nat /\ Cardinality(T) <= Cardinality(Late(s))
  BY <1>1, <1>3, FS_Subset, FS_CardinalityType
<1>4. ASSUME T \subseteq Late(s) \cup {x}
      PROVE  Cardinality(T) \in Nat /\ Cardinality(T) <= Cardinality(Late(s)) + 1
  <2>1. Cardinality(T) \in Nat /\ Cardinality(T) <= Cardinality(Late(s) \cup {x})
    BY <1>2, <1>4, FS_Subset, FS_CardinalityType
  <2>2. QED
    BY <1>1, <1>2, <2>1
<1>5. QED
  BY <1>1, <1>3, <1>4

\* The events of a replay are not late, but for one that was sent when the last
\* message of the replay was deleted.
LEMMA ReplayStops ==
  ASSUME TypeOK, LogOK, ReceivedOK, NEW s \in Subscribed, sub[s] \in Record, Stops(s),
         NEW r \in Record, Gets(s, sub[s], r), GetsEvent(s, sub[s], r), sub[s].state = "replay",
         sub[s].stopTime # NoTime
  PROVE  /\ r.state = "replay"
         /\ ~r.rcReady => Ahead(r)'
         /\ Cardinality(Late(s)') \in Nat
         /\ Cardinality(Late(s)') <= Evicted(r)'
<1> DEFINE q == sub[s]
           m == r.lastmsgid
<1>1. /\ sub'[s] = r /\ UNCHANGED <<eventTime, oldest>>
      /\ Received(s)' = Received(s) \cup {m}
  BY Delivered
<1>2. /\ s \in Session /\ msgid \in Nat /\ oldest \in Nat /\ oldest >= 1 /\ msgid' = msgid
      /\ eventTime \in Seq(Nat)
  BY <1>1 DEF Subscribed, TypeOK, LogOK, msgid
<1>3. /\ r.stopTime = q.stopTime /\ r.firstreplaymsgid = q.firstreplaymsgid
      /\ r.lastreplaymsgid = q.lastreplaymsgid /\ r.state = "replay" /\ ~q.rcReady
      /\ ~r.rcReady => q.lastreplaymsgid \notin 1..m
      /\ r.rcReady => q.lastreplaymsgid \in 1..m
  BY DEF GetsEvent, Same
<1>4. Ahead(q)
  BY <1>3 DEF Stops
<1>5. /\ m \in oldest..msgid /\ From(q) \in Int /\ From(q) < m
      /\ \A k \in (From(q) + 1)..(m - 1) : k < oldest
  BY EventOK
<1>6. /\ q.firstreplaymsgid \in Nat /\ q.lastreplaymsgid \in Nat /\ q.lastmsgid \in Nat
      /\ q.stopTime \in Nat
  BY DEF Record
<1>7. q.firstreplaymsgid - 1 <= From(q) /\ From(q) < q.lastreplaymsgid
  BY <1>4, <1>6 DEF From, Ahead
<1>8. Late(s) = {}
  <2>1. Ended(q) = 0 /\ Evicted(q) = 0
    BY <1>3 DEF Ended, Evicted
  <2>2. IsFiniteSet(Late(s)) /\ Cardinality(Late(s)) = 0
    BY <1>2, <2>1, LateFinite DEF Stops
  <2>3. QED
    BY <2>2, FS_EmptySet
<1>9. Late(s)' \subseteq {m} /\ (m \in Late(s)' => q.stopTime < eventTime[m])
  BY <1>1, <1>3, <1>8 DEF Late
<1>10. m <= q.lastreplaymsgid => Late(s)' = {}
  <2>1. eventTime[m] \in Nat
    BY <1>2, <1>5 DEF msgid
  <2>2. ASSUME m <= q.lastreplaymsgid PROVE eventTime[m] <= q.stopTime
    BY <1>2, <1>4, <1>5, <1>6, <1>7, <2>2 DEF Ahead
  <2>3. QED
    BY <1>6, <1>9, <2>1, <2>2
<1>11. ASSUME ~r.rcReady PROVE Ahead(r)' /\ m <= q.lastreplaymsgid
  <2>1. m < q.lastreplaymsgid /\ q.firstreplaymsgid <= m
    BY <1>2, <1>3, <1>4, <1>5, <1>6, <1>7, <1>11 DEF Ahead
  <2>2. QED
    BY <1>1, <1>2, <1>3, <1>4, <1>5, <1>6, <2>1 DEF Ahead
<1>12. ASSUME ~(m <= q.lastreplaymsgid) PROVE Evicted(r)' = 1
  <2>1. q.lastreplaymsgid \in (From(q) + 1)..(m - 1) /\ q.lastreplaymsgid >= 1
    BY <1>2, <1>4, <1>5, <1>6, <1>7, <1>12 DEF Ahead
  <2>2. q.lastreplaymsgid \in 1..(oldest - 1)
    BY <1>2, <1>5, <1>6, <2>1
  <2>3. QED
    BY <1>1, <1>3, <1>11, <1>12, <2>2 DEF Evicted
<1>13. Evicted(r)' \in {0, 1}
  BY DEF Evicted
<1>14. CASE m <= q.lastreplaymsgid
  BY <1>3, <1>10, <1>11, <1>13, <1>14, FS_EmptySet
<1>15. CASE ~(m <= q.lastreplaymsgid)
  <2>1. Cardinality(Late(s)') \in Nat /\ Cardinality(Late(s)') <= 1
    <3>1. IsFiniteSet({m}) /\ Cardinality({m}) = 1
      BY FS_Singleton
    <3>2. \A T : T \subseteq {m} => Cardinality(T) \in Nat /\ Cardinality(T) <= 1
      BY <3>1, FS_Subset, FS_CardinalityType
    <3>3. QED
      BY <1>9, <3>2
  <2>2. QED
    BY <1>3, <1>11, <1>12, <1>15, <2>1
<1>16. QED
  BY <1>14, <1>15

\* A round keeps what a subscription is allowed: the event that is late ends it.
LEMMA ServedStops ==
  ASSUME TypeOK, LogOK, Flags, ReceivedOK, NEW s \in Subscribed, sub[s] \in Record, Stops(s),
         NEW r \in Record, Gets(s, sub[s], r)
  PROVE  Stops(s)'
<1> DEFINE q == sub[s]
           m == r.lastmsgid
<1>1. /\ sub'[s] = r /\ UNCHANGED <<eventTime, oldest>> /\ s \in Session
      /\ \/ GetsEvent(s, q, r) /\ Received(s)' = Received(s) \cup {m}
         \/ ~GetsEvent(s, q, r) /\ Received(s)' = Received(s)
  BY Delivered DEF Subscribed
<1>2. Same(r, q)
  BY DEF Gets, GetsEvent, GetsReplayComplete, GetsNotificationComplete, GetsNothing
<1>3. SUFFICES ASSUME q.stopTime # NoTime
               PROVE  /\ r.state = "timed" => r.futurestop
                      /\ r.state = "replay" /\ ~r.rcReady => Ahead(r)'
                      /\ Cardinality(Late(s)') <= (Ended(r) + Evicted(r))'
  BY <1>1, <1>2 DEF Stops, Same
<1>4. /\ q.state = "timed" => q.futurestop
      /\ q.state = "replay" /\ ~q.rcReady => Ahead(q)
      /\ Cardinality(Late(s)) <= Ended(q) + Evicted(q)
  BY <1>3 DEF Stops
<1>5. /\ Ended(q) \in {0, 1} /\ Evicted(q) \in {0, 1}
      /\ Ended(r)' \in {0, 1} /\ Evicted(r)' \in {0, 1}
  BY DEF Ended, Evicted
<1>6. CASE GetsEvent(s, q, r) /\ q.state = "replay"
  <2>1. /\ r.state = "replay"
        /\ ~r.rcReady => Ahead(r)'
        /\ Cardinality(Late(s)') \in Nat
        /\ Cardinality(Late(s)') <= Evicted(r)'
    BY <1>3, <1>6, ReplayStops
  <2>2. QED
    BY <1>5, <2>1
<1>7. CASE GetsEvent(s, q, r) /\ q.state = "timed"
  <2>1. /\ r.state \in {"timed", "shutdown"} /\ r.rcReady = q.rcReady
        /\ r.state = "timed" => ~(q.stopTime <= eventTime[m])
    BY <1>7 DEF GetsEvent
  <2>2. q.futurestop /\ r.futurestop /\ r.stopTime = q.stopTime
    BY <1>2, <1>4, <1>7 DEF Same
  <2>3. Ended(q) = 0 /\ Evicted(r)' = Evicted(q)
    BY <1>1, <1>2, <1>7, <2>1 DEF Ended, Evicted, Same
  <2>4. Late(s)' \subseteq Late(s) \cup {m}
    BY <1>1, <1>7, <2>2 DEF Late
  <2>5. CASE r.state = "shutdown"
    <3>1. Ended(r)' = 1
      BY <2>2, <2>5 DEF Ended
    <3>2. /\ Cardinality(Late(s)) \in Nat
          /\ Cardinality(Late(s)') \in Nat /\ Cardinality(Late(s)') <= Cardinality(Late(s)) + 1
      BY <1>1, <2>4, LateGrows
    <3>3. Cardinality(Late(s)') <= Ended(r)' + Evicted(r)'
      BY <1>4, <1>5, <2>3, <3>1, <3>2
    <3>4. QED
      BY <2>5, <3>3
  <2>6. CASE r.state = "timed"
    <3>1. m \in 1..msgid
      BY <1>7, EventOK DEF LogOK, TypeOK, msgid
    <3>2. eventTime[m] \in Nat /\ q.stopTime \in Nat
      <4>1. eventTime \in Seq(Nat)
        BY DEF TypeOK
      <4>2. eventTime[m] \in Nat
        BY <3>1, <4>1 DEF msgid
      <4>3. q.stopTime \in Nat
        BY DEF Record
      <4>4. QED
        BY <4>2, <4>3
    <3>3. Late(s)' \subseteq Late(s)
      BY <1>1, <1>7, <2>1, <2>2, <2>6, <3>2 DEF Late
    <3>4. QED
      BY <1>1, <1>4, <1>5, <2>2, <2>3, <2>6, <3>3, LateGrows
  <2>7. QED
    BY <2>1, <2>5, <2>6
<1>8. CASE ~GetsEvent(s, q, r)
  <2>1. Late(s)' = Late(s)
    BY <1>1, <1>2, <1>8 DEF Late, Same
  <2>2. /\ q.state = "shutdown" => r.state = "shutdown"
        /\ q.rcReady => r.rcReady
        /\ r.state = "timed" => q.state = "timed" \/ AfterReplay(q) = "timed"
        /\ r.state = "replay" => r.rcReady
    BY <1>8 DEF Gets, GetsReplayComplete, GetsNotificationComplete, GetsNothing, Flags
  <2>3. AfterReplay(q) = "timed" => q.futurestop
    BY DEF AfterReplay
  <2>4. Ended(q) <= Ended(r)' /\ Evicted(q) <= Evicted(r)'
    BY <1>1, <1>2, <2>2 DEF Ended, Evicted, Same
  <2>5. Cardinality(Late(s)) \in Nat
    BY <1>1, LateFinite
  <2>6. r.futurestop = q.futurestop
    BY <1>2 DEF Same
  <2>7. Cardinality(Late(s)') <= Ended(r)' + Evicted(r)'
    BY <1>4, <1>5, <2>1, <2>4, <2>5
  <2>8. QED
    BY <1>4, <2>2, <2>3, <2>6, <2>7
<1>9. ASSUME GetsEvent(s, q, r) PROVE q.state \in {"replay", "timed"}
  BY <1>3, <1>9 DEF GetsEvent, Flags
<1>10. QED
  BY <1>6, <1>7, <1>8, <1>9

\* A new subscription has been sent nothing, and its replay ends by stopTime.
LEMMA NewStops ==
  ASSUME TypeOK, LogOK, Unread, TimesOK, NEW s \in Session,
         NEW start \in Nat, NEW stop \in Nat, NEW first \in Nat, NEW last \in Nat, NEW o,
         NEW mode \in {"replay", "live"}, NEW id \in Nat,
         NEW r, r = Subscription(mode, start, stop, first, last, id), Add(s, r, o),
         mode = "live" => stop = NoTime,
         mode = "replay" /\ first # 0 =>
           id = 0 /\ first \in oldest..msgid /\ EndsReplay(last, first, stop)
  PROVE  Stops(s)'
<1>1. sub'[s] = r /\ inbox'[s] = <<>> /\ UNCHANGED <<eventTime, oldest>>
  BY DEF Add, Unread, TypeOK, log
<1>2. /\ r.state = mode /\ r.stopTime = stop /\ r.firstreplaymsgid = first
      /\ r.lastreplaymsgid = last /\ r.lastmsgid = id
  BY DEF Subscription
<1>3. mode = "replay" /\ first = 0 => r.rcReady
  <2>1. r.rcReady = (mode = "replay" /\ first = 0)
    BY Zenon DEF Subscription
  <2>2. QED
    BY <2>1
<1>4. Late(s)' = {}
  BY <1>1 DEF Late, Received
<1>5. Cardinality(Late(s)') = 0
  BY <1>4, FS_EmptySet
<1>6. Ended(r)' \in {0, 1} /\ Evicted(r)' \in {0, 1}
  BY DEF Ended, Evicted
<1>7. ASSUME mode = "replay", first # 0, stop # NoTime PROVE Ahead(r)'
  <2>0. msgid' = msgid
    BY <1>1 DEF msgid
  <2>1. /\ msgid \in Nat /\ oldest \in Nat /\ oldest >= 1 /\ now \in Nat
        /\ \A k \in 1..msgid : eventTime[k] \in Nat /\ eventTime[k] <= now
    <3>1. msgid \in Nat /\ now \in Nat /\ \A k \in 1..msgid : eventTime[k] \in Nat
      BY DEF TypeOK, msgid
    <3>2. QED
      BY <3>1 DEF TypeOK, LogOK, TimesOK
  <2>2. last \in first..msgid /\ first >= 1 /\ id = 0
    BY <1>7, <2>1 DEF EndsReplay
  <2>3. \A k \in first..last : eventTime[k] <= stop
    BY <1>7, <2>1, <2>2 DEF EndsReplay, NoTime
  <2>4. QED
    BY <1>1, <1>2, <2>0, <2>1, <2>2, <2>3 DEF Ahead
<1>8. SUFFICES ASSUME stop # NoTime
               PROVE  /\ r.state = "timed" => r.futurestop
                      /\ r.state = "replay" /\ ~r.rcReady => Ahead(r)'
                      /\ Cardinality(Late(s)') <= (Ended(r) + Evicted(r))'
  BY <1>1, <1>2 DEF Stops
<1>9. mode = "replay"
  BY <1>8
<1>10. Cardinality(Late(s)') <= Ended(r)' + Evicted(r)'
  BY <1>5, <1>6
<1>11. QED
  BY <1>2, <1>3, <1>7, <1>8, <1>9, <1>10

\* Every step keeps what a subscription may be sent after its stopTime.
LEMMA StopStep ==
  ASSUME TypeOK, LogOK, TodoOK, Flags, Unread, TimesOK, ReceivedOK, StopInv, [Next]_vars
  PROVE  StopInv'
<1>0. msgid \in Nat /\ oldest \in Nat
  BY DEF TypeOK, msgid
<1>1. ASSUME sub' = sub, inbox' = inbox, msgid' \in Nat, msgid <= msgid',
             oldest' \in Nat, oldest <= oldest', \A m \in 1..msgid : eventTime'[m] = eventTime[m]
      PROVE  StopInv'
  <2>1. \A s \in Subscribed : sub'[s] = sub[s] /\ Received(s)' = Received(s)
    BY <1>1 DEF Received
  <2>2. \A s \in Subscribed : Stops(s)'
    BY <1>1, <2>1, LogGoesOn DEF StopInv
  <2>3. QED
    BY <1>1, <2>2 DEF StopInv, Subscribed
<1>2. ASSUME NEW s \in Session, UNCHANGED <<eventTime, oldest>>,
             \A t \in Session \ {s} : sub'[t] = sub[t] /\ Received(t)' = Received(t),
             sub'[s] # NoSub => Stops(s)'
      PROVE  StopInv'
  <2>1. msgid' = msgid
    BY <1>2 DEF msgid
  <2>2. ASSUME NEW t \in Subscribed', t # s PROVE Stops(t)'
    <3>1. t \in Subscribed /\ sub'[t] = sub[t] /\ Received(t)' = Received(t)
      BY <1>2, <2>2 DEF Subscribed
    <3>2. QED
      BY <1>0, <1>2, <2>1, <3>1, LogGoesOn DEF StopInv
  <2>3. QED
    BY <1>2, <2>2 DEF StopInv, Subscribed
<1>3. CASE Tick \/ Serve \/ NextRound \/ UNCHANGED vars
  BY <1>0, <1>1, <1>3 DEF Tick, Serve, NextRound, vars, log, msgid
<1>4. CASE EndBurst
  BY <1>0, <1>1, <1>4 DEF EndBurst, CleanEventlog, msgid
<1>5. CASE QueueNotification
  BY <1>0, <1>1, <1>5 DEF QueueNotification, DeleteOldest, TypeOK, msgid
<1>6. ASSUME NEW s \in Session, Close(s) \/ ExpireSubscription(s) PROVE StopInv'
  <2>1. /\ sub'[s] = NoSub /\ UNCHANGED <<eventTime, oldest>>
        /\ \A t \in Session \ {s} : sub'[t] = sub[t] /\ inbox'[t] = inbox[t]
    BY <1>6 DEF Close, ExpireSubscription, Remove, TypeOK, log
  <2>2. \A t \in Session \ {s} : Received(t)' = Received(t)
    BY <2>1 DEF Received
  <2>3. QED
    BY <1>2, <2>1, <2>2
<1>7. ASSUME NEW s \in Session, NEW r, NEW o, Add(s, r, o), Stops(s)' PROVE StopInv'
  <2>1. /\ UNCHANGED <<eventTime, oldest>>
        /\ \A t \in Session \ {s} : sub'[t] = sub[t] /\ inbox'[t] = inbox[t]
    BY <1>7 DEF Add, TypeOK, log
  <2>2. \A t \in Session \ {s} : Received(t)' = Received(t)
    BY <2>1 DEF Received
  <2>3. QED
    BY <1>2, <1>7, <2>1, <2>2
<1>8. ASSUME NEW s \in Session, SubscribeLive(s) PROVE StopInv'
  <2> DEFINE id == IF oldest <= msgid THEN msgid ELSE 0
  <2>1. id \in Nat /\ NoTime \in Nat /\ Add(s, Subscription("live", NoTime, NoTime, 0, 0, id), msgid + 1)
    BY <1>0, <1>8 DEF SubscribeLive, NoTime
  <2> HIDE DEF id
  <2>2. Stops(s)'
    BY <2>1, NewStops
  <2>3. QED
    BY <1>7, <2>1, <2>2
<1>9. ASSUME NEW s \in Session, NEW w \in Windows[s], SubscribeEmpty(s, w[1], w[2]) PROVE StopInv'
  <2>1. w[1] \in Nat /\ w[2] \in Nat
    BY WindowsAreTimes DEF NoTime
  <2>2. Add(s, Subscription("replay", w[1], w[2], 0, 0, 0), msgid + 1)
    BY <1>9 DEF SubscribeEmpty
  <2>3. Stops(s)'
    BY <2>1, <2>2, NewStops
  <2>4. QED
    BY <1>7, <2>2, <2>3
<1>10. ASSUME NEW s \in Session, NEW w \in Windows[s], SubscribeReplay(s, w[1], w[2]) PROVE StopInv'
  <2>1. w[1] \in Nat /\ w[2] \in Nat
    BY WindowsAreTimes DEF NoTime
  <2>2. PICK first \in Since(w[1]), last \in 0..msgid :
          /\ EndsReplay(last, first, w[2])
          /\ Add(s, Subscription("replay", w[1], w[2], first, last, 0), first)
    BY <1>10 DEF SubscribeReplay
  <2>3. first \in Nat /\ last \in Nat /\ first \in oldest..msgid
    BY <1>0 DEF Since
  <2>4. Stops(s)'
    BY <2>1, <2>2, <2>3, NewStops
  <2>5. QED
    BY <1>7, <2>2, <2>4
<1>11. ASSUME NEW s \in Session, ServeOne(s) PROVE StopInv'
  <2>1. CASE ExpireSubscription(s)
    BY <1>6, <2>1
  <2>2. ASSUME s \in Subscribed, sub[s] \in Record, NEW r \in Record, Gets(s, sub[s], r)
        PROVE  StopInv'
    <3>1. Stops(s)'
      BY <2>2, ServedStops DEF StopInv
    <3>2. /\ UNCHANGED <<eventTime, oldest>>
          /\ \A t \in Session \ {s} : sub'[t] = sub[t] /\ Received(t)' = Received(t)
      BY <2>2, Delivered
    <3>3. QED
      BY <1>2, <3>1, <3>2
  <2>3. QED
    BY <1>11, <2>1, <2>2, Served
<1>12. QED
  BY <1>3, <1>4, <1>5, <1>6, <1>8, <1>9, <1>10, <1>11 DEF Next, Handler, Burst

-------------------------------------------------------------------------------
(* The invariant.                                                          *)

\* The invariant holds when the server starts.
LEMMA InitIInv ==
  ASSUME Init
  PROVE  IInv
<1>1. TypeOK
  <2>1. eventTime \in Seq(Nat) /\ inbox \in [Session -> Seq(Nat \cup Mark)]
    BY DEF Init
  <2>2. sub \in [Session -> {NoSub} \cup Record] /\ owed \in [Session -> Nat]
    BY DEF Init
  <2>3. QED
    BY <2>1, <2>2 DEF Init, TypeOK
<1>2. Subscribed = {} /\ msgid = 0 /\ \A s \in Session : sub[s] = NoSub /\ inbox[s] = <<>>
  BY DEF Init, Subscribed, msgid
<1>3. LogOK /\ TodoOK /\ Flags /\ Visited /\ Starts /\ PointersLive /\ NothingLost
  BY <1>2, BoundsAreNumbers
  DEF Init, LogOK, TodoOK, Flags, Visited, Starts, PointersLive, NothingLost
<1>4. Cursor /\ Unread /\ TimesOK /\ ReceivedOK /\ StopInv
  BY <1>2 DEF Cursor, Unread, TimesOK, ReceivedOK, Received, StopInv
<1>5. QED
  BY <1>1, <1>3, <1>4 DEF IInv

\* Every step keeps the invariant.
LEMMA Inductive ==
  ASSUME IInv, [Next]_vars
  PROVE  IInv'
<1>1. /\ TypeOK /\ LogOK /\ TodoOK /\ Flags /\ Cursor /\ Unread
      /\ Visited /\ Starts /\ PointersLive /\ NothingLost
      /\ TimesOK /\ ReceivedOK /\ StopInv
  BY DEF IInv
<1>2. TypeOK'
  BY <1>1, TypeStep
<1>3. LogOK'
  BY <1>1, LogStep
<1>4. TodoOK'
  BY <1>1, TodoStep
<1>5. Flags'
  BY <1>1, FlagsStep
<1>6. Cursor'
  BY <1>1, CursorStep
<1>7. Unread'
  BY <1>1, UnreadStep
<1>8. Visited'
  BY <1>1, VisitedStep
<1>9. Starts'
  BY <1>1, StartsStep
<1>10. PointersLive'
  BY <1>1, PointersStep
<1>11. NothingLost'
  BY <1>1, LostStep
<1>12. TimesOK' /\ ReceivedOK' /\ StopInv'
  BY <1>1, TimesStep, ReceivedStep, StopStep
<1>13. QED
  BY <1>2, <1>3, <1>4, <1>5, <1>6, <1>7, <1>8, <1>9, <1>10, <1>11, <1>12 DEF IInv

\* The invariant of every behaviour of the server.
LEMMA AlwaysIInv == Spec => []IInv
<1>1. Init => IInv
  BY InitIInv
<1>2. IInv /\ [Next]_vars => IInv'
  BY Inductive
<1>3. QED
  BY <1>1, <1>2, PTL DEF Spec

\* The types are right in every behaviour.
THEOREM TypeCorrect == Spec => []TypeOK
<1>1. IInv => TypeOK
  BY DEF IInv
<1>2. QED
  BY <1>1, AlwaysIInv, PTL

\* Without a log, agt_not_clean_eventlog leaves no pointer of a subscription
\* that will be followed to a message that is gone.
THEOREM NoPointerDangles == Spec => []PointersLive
<1>1. IInv => PointersLive
  BY DEF IInv
<1>2. QED
  BY <1>1, AlwaysIInv, PTL

\* Wherever a burst ends and whatever is deleted, a session gets every event from
\* the first it is owed on, but those that a full log has dropped.
THEOREM NoEventLost == Spec => []NothingLost
<1>1. IInv => NothingLost
  BY DEF IInv
<1>2. QED
  BY <1>1, AlwaysIInv, PTL

\* Past its stopTime a session gets one event at most, and one more if the end
\* of its replay was deleted, whenever the events come and bursts end.
THEOREM StopTimeKept == Spec => []StopKept
<1>1. IInv => StopKept
  <2> SUFFICES ASSUME IInv, NEW s \in Subscribed, sub[s].stopTime # NoTime
               PROVE  Cardinality(Late(s)) <=
                        (IF sub[s].futurestop THEN 1 ELSE 0)
                        + (IF sub[s].lastreplaymsgid \in 1..(oldest - 1) THEN 1 ELSE 0)
    BY DEF StopKept
  <2>1. Cardinality(Late(s)) <= Ended(sub[s]) + Evicted(sub[s])
    BY DEF IInv, StopInv, Stops
  <2>2. Cardinality(Late(s)) \in Nat
    BY LateFinite DEF IInv, Subscribed
  <2>3. QED
    BY <2>1, <2>2 DEF Ended, Evicted
<1>2. QED
  BY <1>1, AlwaysIInv, PTL

-------------------------------------------------------------------------------
(* The notifications of a session are those of NotificationStream.         *)

Phases == [s \in Session |-> Phase(sub[s])]

\* The phases of the other sessions stay as they are.
LEMMA OnePhase ==
  ASSUME TypeOK, NEW s \in Session, \A t \in Session \ {s} : sub'[t] = sub[t]
  PROVE  Phases' = [Phases EXCEPT ![s] = Phase(sub'[s])]
<1>1. \A t \in Session \ {s} : Phase(sub'[t]) = Phase(sub[t])
  OBVIOUS
<1>2. QED
  BY <1>1 DEF Phases

\* A turn is a step of the stream.
LEMMA TurnIsStep ==
  ASSUME IInv, NEW s \in Subscribed, sub[s] \in Record, NEW r \in Record, Gets(s, sub[s], r)
  PROVE  [Stream!Next]_<<Phases, inbox>>
<1> DEFINE q == sub[s]
<1>1. s \in Session /\ q # NoSub /\ r # NoSub /\ TypeOK
  BY NoSubIsNoRecord DEF Subscribed, IInv
<1>2. sub'[s] = r /\ \A t \in Session \ {s} : sub'[t] = sub[t]
  BY <1>1, OneChanged
  DEF Gets, GetsEvent, GetsReplayComplete, GetsNotificationComplete, GetsNothing
<1>3. Phases' = [Phases EXCEPT ![s] = Phase(r)] /\ Phases[s] = Phase(q)
  BY <1>1, <1>2, OnePhase DEF Phases
<1>4. /\ q.rcDone => q.rcReady
      /\ q.state = "live" => q.stopTime = NoTime
      /\ q.state \in {"timed", "shutdown"} => q.stopTime # NoTime /\ q.rcDone
      /\ q.ncDone => q.state = "shutdown"
  BY DEF IInv, Flags
<1>5. CASE GetsEvent(s, q, r)
  <2>1. Phase(r) = Phase(q) /\ Phase(q) \in {"replay", "live", "timed"}
    BY <1>1, <1>4, <1>5 DEF GetsEvent, Same, Phase
  <2>2. Phases' = Phases
    BY <1>1, <1>3, <2>1 DEF Phases
  <2>3. inbox' = [inbox EXCEPT ![s] = Append(@, r.lastmsgid)]
    BY <1>5 DEF GetsEvent, Send
  <2>4. r.lastmsgid \in oldest..msgid /\ From(q) < r.lastmsgid /\ From(q) \in Int
    BY <1>5, EventOK DEF IInv
  <2>5. r.lastmsgid \in 1..MaxEvents
    BY <2>4, BoundsAreNumbers DEF IInv, LogOK, TypeOK, msgid
  <2>6. q.lastmsgid < r.lastmsgid
    BY <2>4, <2>5 DEF From, Record
  <2>7. Stream!Later(s, r.lastmsgid)
    <3>1. \A i \in 1..Len(inbox[s]) : inbox[s][i] \in Nat => inbox[s][i] <= q.lastmsgid
      BY <1>1 DEF IInv, Cursor
    <3>2. q.lastmsgid \in Nat /\ r.lastmsgid \in Nat /\ 1..MaxEvents \subseteq Nat
      BY DEF Record
    <3>3. \A k \in Nat : k <= q.lastmsgid => k < r.lastmsgid
      BY <2>6, <3>2
    <3>4. QED
      BY <3>1, <3>2, <3>3 DEF Stream!Later
  <2>8. Stream!Happen(s)
    BY <1>3, <2>1, <2>2, <2>3, <2>5, <2>7 DEF Stream!Happen, Stream!Receive, Phases
  <2>9. QED
    BY <1>1, <2>8 DEF Stream!Next
<1>6. CASE GetsReplayComplete(s, q, r)
  <2>1. Phase(q) = "replay" /\ Phase(r) \in {"live", "timed"}
    BY <1>1, <1>4, <1>6 DEF GetsReplayComplete, Same, Phase
  <2>2. inbox' = [inbox EXCEPT ![s] = Append(@, ReplayComplete)]
    BY <1>6 DEF GetsReplayComplete, Send
  <2>3. Stream!Replayed(s)
    BY <1>3, <2>1, <2>2 DEF Stream!Replayed, Stream!Enter, Stream!Receive, Phases
  <2>4. QED
    BY <1>1, <2>3 DEF Stream!Next
<1>7. CASE GetsNotificationComplete(s, q, r)
  <2>1. Phase(q) = "timed" /\ Phase(r) = "over"
    BY <1>1, <1>4, <1>7 DEF GetsNotificationComplete, Same, Phase, AfterReplay
  <2>2. inbox' = [inbox EXCEPT ![s] = Append(@, NotificationComplete)]
    BY <1>7 DEF GetsNotificationComplete, Send
  <2>3. Stream!Stop(s)
    BY <1>3, <2>1, <2>2 DEF Stream!Stop, Stream!Enter, Stream!Receive, Phases
  <2>4. QED
    BY <1>1, <2>3 DEF Stream!Next
<1>8. CASE GetsNothing(s, q, r)
  <2>1. Phase(r) = Phase(q)
    BY <1>1, <1>4, <1>8 DEF GetsNothing, Same, Phase, AfterReplay
  <2>2. Phases' = Phases
    BY <1>1, <1>3, <2>1 DEF Phases
  <2>3. inbox' = inbox
    BY <1>8 DEF GetsNothing, Visit
  <2>4. QED
    BY <2>2, <2>3
<1>9. QED
  BY <1>5, <1>6, <1>7, <1>8 DEF Gets

\* Every step of the server is a step of the stream, or none.
LEMMA StreamStep ==
  ASSUME IInv, [Next]_vars
  PROVE  [Stream!Next]_<<Phases, inbox>>
<1>0. TypeOK /\ LogOK /\ TodoOK /\ Flags
  BY DEF IInv
<1>1. ASSUME sub' = sub, inbox' = inbox PROVE [Stream!Next]_<<Phases, inbox>>
  BY <1>1 DEF Phases
<1>2. ASSUME NEW s \in Session, NEW x, NEW first, Add(s, x, first), x \in Record,
             Phase(x) \in {"live", "replay"}
      PROVE  [Stream!Next]_<<Phases, inbox>>
  <2>1. /\ sub'[s] = x /\ (\A t \in Session \ {s} : sub'[t] = sub[t])
        /\ inbox' = inbox /\ sub[s] = NoSub
    BY <1>0, <1>2 DEF Add, TypeOK
  <2>2. Phases' = [Phases EXCEPT ![s] = Phase(x)] /\ Phases[s] = "closed"
    BY <1>0, <2>1, OnePhase DEF Phases, Phase
  <2>3. Stream!Open(s)
    BY <1>2, <2>1, <2>2 DEF Stream!Open, Stream!Enter, Phases
  <2>4. QED
    BY <2>3 DEF Stream!Next
<1>3. ASSUME NEW s \in Session, Remove(s) PROVE [Stream!Next]_<<Phases, inbox>>
  <2>1. sub'[s] = NoSub /\ \A t \in Session \ {s} : sub'[t] = sub[t]
    BY <1>0, <1>3 DEF Remove, TypeOK
  <2>2. Phases' = [Phases EXCEPT ![s] = "closed"]
    BY <1>0, <2>1, OnePhase DEF Phase
  <2>3. Stream!Close(s)
    BY <1>3, <2>2 DEF Stream!Close, Stream!Enter, Remove, Phases
  <2>4. QED
    BY <2>3 DEF Stream!Next
<1>4. CASE Tick \/ QueueNotification \/ Serve \/ NextRound \/ EndBurst \/ UNCHANGED vars
  BY <1>1, <1>4 DEF Tick, QueueNotification, Serve, NextRound, EndBurst, vars
<1>5. ASSUME NEW s \in Session, SubscribeLive(s) PROVE [Stream!Next]_<<Phases, inbox>>
  <2> DEFINE c == IF oldest <= msgid THEN msgid ELSE 0
             x == Subscription("live", NoTime, NoTime, 0, 0, c)
  <2>1. c \in Nat /\ x \in Record
    BY <1>0 DEF TypeOK, msgid, Subscription, Record, NoTime
  <2>2. x.state = "live" /\ x.ncDone = FALSE /\ x.stopTime = NoTime
    BY DEF Subscription
  <2>3. Phase(x) = "live"
    BY <2>1, <2>2, NoSubIsNoRecord DEF Phase
  <2>4. Add(s, x, msgid + 1)
    BY <1>5 DEF SubscribeLive
  <2> HIDE DEF x
  <2>5. QED
    BY <1>2, <2>1, <2>3, <2>4
<1>6. ASSUME NEW s \in Session, NEW start \in Nat, NEW stop \in Nat, NEW first \in Nat,
             NEW last \in Nat, NEW o, Add(s, Subscription("replay", start, stop, first, last, 0), o)
      PROVE  [Stream!Next]_<<Phases, inbox>>
  <2> DEFINE x == Subscription("replay", start, stop, first, last, 0)
  <2>1. x \in Record
    BY <1>0 DEF TypeOK, Subscription, Record
  <2>2. x.state = "replay" /\ x.ncDone = FALSE /\ x.rcDone = FALSE
    BY DEF Subscription
  <2>3. Phase(x) = "replay"
    BY <2>1, <2>2, NoSubIsNoRecord DEF Phase
  <2>4. Add(s, x, o)
    BY <1>6
  <2> HIDE DEF x
  <2>5. QED
    BY <1>2, <2>1, <2>3, <2>4
<1>7. ASSUME NEW s \in Session, NEW w \in Windows[s], SubscribeEmpty(s, w[1], w[2])
      PROVE  [Stream!Next]_<<Phases, inbox>>
  <2>1. w[1] \in Nat /\ w[2] \in Nat
    BY WindowsAreTimes DEF NoTime
  <2>2. QED
    BY <1>6, <1>7, <2>1 DEF SubscribeEmpty
<1>8. ASSUME NEW s \in Session, NEW w \in Windows[s], SubscribeReplay(s, w[1], w[2])
      PROVE  [Stream!Next]_<<Phases, inbox>>
  <2>1. w[1] \in Nat /\ w[2] \in Nat
    BY WindowsAreTimes DEF NoTime
  <2>2. PICK first \in Since(w[1]), last \in 0..msgid :
          Add(s, Subscription("replay", w[1], w[2], first, last, 0), first)
    BY <1>8 DEF SubscribeReplay
  <2>3. first \in Nat /\ last \in Nat
    BY <1>0 DEF TypeOK, Since, msgid
  <2>4. QED
    BY <1>6, <2>1, <2>2, <2>3
<1>9. ASSUME NEW s \in Session, Close(s) \/ ExpireSubscription(s)
      PROVE  [Stream!Next]_<<Phases, inbox>>
  BY <1>3, <1>9 DEF Close, ExpireSubscription
<1>10. ASSUME NEW s \in Session, ServeOne(s) PROVE [Stream!Next]_<<Phases, inbox>>
  BY <1>0, <1>9, <1>10, Served, TurnIsStep
<1>11. QED
  BY <1>4, <1>5, <1>7, <1>8, <1>9, <1>10 DEF Next, Handler, Burst

\* Every session reads what NotificationStream allows: events in order and none
\* twice, one replayComplete, one notificationComplete and nothing after it.
THEOREM Ordered == Spec => InOrder
<1>1. Init => Stream!Init
  BY DEF Init, Stream!Init, Phase
<1>2. IInv /\ [Next]_vars => [Stream!Next]_Stream!vars
  BY StreamStep DEF Stream!vars, Phases
<1>3. QED
  BY <1>1, <1>2, AlwaysIInv, PTL DEF Spec, InOrder, Stream!Spec

-------------------------------------------------------------------------------
(* What a session can rely on when it reads its inbox.                     *)

\* Events in the order in which they happened and none twice, each mark once,
\* and nothing after the last one.
Readable(q) ==
    /\ \A i, j \in 1..Len(q) :
         i < j /\ q[i] \in 1..MaxEvents /\ q[j] \in 1..MaxEvents => q[i] < q[j]
    /\ \A i, j \in 1..Len(q) :
         q[i] = ReplayComplete /\ q[j] = ReplayComplete => i = j
    /\ \A i \in 1..Len(q) : q[i] = NotificationComplete => i = Len(q)

\* A mark is in the inbox only when the phase that ends with it is over.
Marked(s) ==
    /\ Phases[s] = "closed" => inbox[s] = <<>>
    /\ Phases[s] \in {"closed", "replay"} =>
         \A i \in 1..Len(inbox[s]) : inbox[s][i] # ReplayComplete
    /\ Phases[s] # "over" =>
         \A i \in 1..Len(inbox[s]) : inbox[s][i] # NotificationComplete

ReadInv == \A s \in Session : Readable(inbox[s]) /\ Marked(s)

\* One more message may be read if it is a later event, or the first of its
\* marks, and the end has not been read.
LEMMA ReadOn ==
  ASSUME NEW q \in Seq(Nat \cup Mark), Readable(q), NEW x \in Nat \cup Mark,
         \A i \in 1..Len(q) : q[i] # NotificationComplete,
         x \in 1..MaxEvents => \A i \in 1..Len(q) : q[i] \in 1..MaxEvents => q[i] < x,
         x = ReplayComplete => \A i \in 1..Len(q) : q[i] # ReplayComplete
  PROVE  Readable(Append(q, x))
<1> DEFINE n == Len(q)
           p == Append(q, x)
<1>1. n \in Nat /\ Len(p) = n + 1 /\ p[n + 1] = x
  OBVIOUS
<1>2. \A i \in 1..n : p[i] = q[i]
  OBVIOUS
<1>3. \A i \in 1..Len(p) : i \in 1..n \/ i = n + 1
  BY <1>1
<1> HIDE DEF n, p
<1>4. ASSUME NEW i \in 1..Len(p), NEW j \in 1..Len(p), i < j,
             p[i] \in 1..MaxEvents, p[j] \in 1..MaxEvents
      PROVE  p[i] < p[j]
  <2>1. i \in 1..n
    BY <1>1, <1>3, <1>4
  <2>2. CASE j = n + 1
    BY <1>1, <1>2, <1>4, <2>1, <2>2 DEF n
  <2>3. CASE j \in 1..n
    BY <1>2, <1>4, <2>1, <2>3 DEF Readable, n
  <2>4. QED
    BY <1>3, <2>2, <2>3
<1>5. ASSUME NEW i \in 1..Len(p), NEW j \in 1..Len(p),
             p[i] = ReplayComplete, p[j] = ReplayComplete
      PROVE  i = j
  <2>1. CASE i = n + 1 \/ j = n + 1
    BY <1>1, <1>2, <1>3, <1>5, <2>1 DEF n
  <2>2. CASE i \in 1..n /\ j \in 1..n
    BY <1>2, <1>5, <2>2 DEF Readable, n
  <2>3. QED
    BY <1>3, <2>1, <2>2
<1>6. ASSUME NEW i \in 1..Len(p), p[i] = NotificationComplete
      PROVE  i = Len(p)
  BY <1>1, <1>2, <1>3, <1>6 DEF n
<1>7. QED
  BY <1>4, <1>5, <1>6 DEF Readable, p

\* The stream lets a session read nothing else.
LEMMA ReadStep ==
  ASSUME TypeOK, ReadInv, [Stream!Next]_<<Phases, inbox>>
  PROVE  ReadInv'
<1>. SUFFICES ASSUME NEW t \in Session PROVE Readable(inbox'[t]) /\ Marked(t)'
  BY DEF ReadInv
<1>0. /\ Readable(inbox[t]) /\ Marked(t) /\ inbox[t] \in Seq(Nat \cup Mark)
      /\ inbox \in [Session -> Seq(Nat \cup Mark)]
      /\ Phases \in [Session -> {Phases[s] : s \in Session}] /\ DOMAIN Phases = Session
  BY DEF ReadInv, TypeOK, Phases
<1>1. ASSUME Phases'[t] = Phases[t], inbox'[t] = inbox[t]
      PROVE  Readable(inbox'[t]) /\ Marked(t)'
  BY <1>0, <1>1 DEF Marked
<1>2. CASE UNCHANGED <<Phases, inbox>>
  BY <1>1, <1>2
<1>3. ASSUME NEW s \in Session, s # t,
             Stream!Open(s) \/ Stream!Happen(s) \/ Stream!Replayed(s) \/ Stream!Stop(s) \/ Stream!Close(s)
      PROVE  Readable(inbox'[t]) /\ Marked(t)'
  <2>1. Phases'[t] = Phases[t] /\ inbox'[t] = inbox[t]
    BY <1>0, <1>3
    DEF Stream!Open, Stream!Happen, Stream!Replayed, Stream!Stop, Stream!Close, Stream!Enter, Stream!Receive, Phases
  <2>2. QED
    BY <1>1, <2>1
<1>4. CASE Stream!Open(t)
  <2>1. Phases[t] = "closed" /\ inbox'[t] = <<>>
    BY <1>0, <1>4 DEF Stream!Open, Phases, Marked
  <2>2. QED
    BY <2>1 DEF Readable, Marked
<1>5. CASE Stream!Close(t)
  <2>1. inbox'[t] = <<>>
    BY <1>0, <1>5 DEF Stream!Close
  <2>2. QED
    BY <2>1 DEF Readable, Marked
<1>6. CASE Stream!Happen(t)
  <2>1. PICK m \in 1..MaxEvents : Stream!Later(t, m) /\ Stream!Receive(t, m)
    BY <1>6 DEF Stream!Happen
  <2>2. /\ inbox'[t] = Append(inbox[t], m) /\ Phases'[t] = Phases[t]
        /\ Phases[t] \in {"replay", "live", "timed"}
        /\ \A i \in 1..Len(inbox[t]) : inbox[t][i] \in 1..MaxEvents => inbox[t][i] < m
    BY <1>0, <1>6, <2>1 DEF Stream!Happen, Stream!Receive, Stream!Later, Phases
  <2>3. m \in Nat \cup Mark /\ m \notin Mark
    BY MarksAreNoEvents DEF Mark
  <2>4. \A i \in 1..Len(inbox[t]) : inbox[t][i] # NotificationComplete
    BY <1>0, <2>2 DEF Marked
  <2>5. Readable(inbox'[t])
    BY <1>0, <2>2, <2>3, <2>4, ReadOn DEF Mark
  <2>6. \A i \in 1..Len(inbox'[t]) : inbox'[t][i] = m \/ (i \in 1..Len(inbox[t]) /\ inbox'[t][i] = inbox[t][i])
    BY <1>0, <2>2, <2>3
  <2>7. Marked(t)'
    BY <1>0, <2>2, <2>3, <2>4, <2>6 DEF Marked, Mark
  <2>8. QED
    BY <2>5, <2>7
<1>7. CASE Stream!Replayed(t)
  <2>1. /\ inbox'[t] = Append(inbox[t], ReplayComplete)
        /\ Phases[t] = "replay" /\ Phases'[t] \in {"live", "timed"}
    BY <1>0, <1>7 DEF Stream!Replayed, Stream!Enter, Stream!Receive, Phases
  <2>2. /\ \A i \in 1..Len(inbox[t]) : inbox[t][i] # NotificationComplete
        /\ \A i \in 1..Len(inbox[t]) : inbox[t][i] # ReplayComplete
    BY <1>0, <2>1 DEF Marked
  <2>3. ReplayComplete \in Mark /\ ReplayComplete \notin 1..MaxEvents /\ ReplayComplete # NotificationComplete
    BY MarksAreNoEvents DEF Mark
  <2>4. Readable(inbox'[t])
    BY <1>0, <2>1, <2>2, <2>3, ReadOn
  <2>5. \A i \in 1..Len(inbox'[t]) : inbox'[t][i] = ReplayComplete \/ (i \in 1..Len(inbox[t]) /\ inbox'[t][i] = inbox[t][i])
    BY <1>0, <2>1, <2>3
  <2>6. Marked(t)'
    BY <2>1, <2>2, <2>3, <2>5 DEF Marked
  <2>7. QED
    BY <2>4, <2>6
<1>8. CASE Stream!Stop(t)
  <2>1. /\ inbox'[t] = Append(inbox[t], NotificationComplete)
        /\ Phases[t] = "timed" /\ Phases'[t] = "over"
    BY <1>0, <1>8 DEF Stream!Stop, Stream!Enter, Stream!Receive, Phases
  <2>2. \A i \in 1..Len(inbox[t]) : inbox[t][i] # NotificationComplete
    BY <1>0, <2>1 DEF Marked
  <2>3. NotificationComplete \in Mark /\ NotificationComplete \notin 1..MaxEvents /\ ReplayComplete # NotificationComplete
    BY MarksAreNoEvents DEF Mark
  <2>4. Readable(inbox'[t])
    BY <1>0, <2>1, <2>2, <2>3, ReadOn
  <2>5. QED
    BY <2>1, <2>4 DEF Marked
<1>9. QED
  BY <1>2, <1>3, <1>4, <1>5, <1>6, <1>7, <1>8 DEF Stream!Next

\* Whatever is deleted from the log, and wherever a burst ends, a session
\* reads events in their order and none twice, the mark of the replay once, and
\* nothing after <notificationComplete>: the flags RC_READY, RC_DONE and
\* NC_DONE (agt_not.c:1491-1520) outlive a burst, which may end between two of its turns.
THEOREM InboxReadable == Spec => [](\A s \in Session : Readable(inbox[s]))
<1>1. Init => ReadInv
  BY DEF Init, ReadInv, Readable, Marked
<1>2. IInv /\ ReadInv /\ [Next]_vars => ReadInv'
  BY StreamStep, ReadStep DEF IInv
<1>3. ReadInv => \A s \in Session : Readable(inbox[s])
  BY DEF ReadInv
<1>4. QED
  BY <1>1, <1>2, <1>3, AlwaysIInv, PTL DEF Spec

=================================================================================
