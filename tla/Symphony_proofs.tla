--------------------------- MODULE Symphony_proofs ---------------------------
(***************************************************************************)
(* What Symphony's core may rely on, for any services and scripts.  The    *)
(* lock is held by the waits that were left by an exception, and by no      *)
(* other; a wait for a creation ends with the event of its own service,     *)
(* unless the first event of another one was lost; a script that blocks     *)
(* never sleeps over a completion, and a cleanup that is not left by an     *)
(* exception leaves nothing behind.                                         *)
(***************************************************************************)
EXTENDS Symphony, SequenceTheorems, TLAPS

-----------------------------------------------------------------------------
(* The invariant every other one rests on.                                 *)

Calling == pc \in {"api", "parked", "woken", "getsvc"}

CallInv ==
  /\ Calling => cur \in Service
  /\ Calling => (op = "create" <=> raised = 0)
  /\ pc = "getsvc" => op = "create"
  /\ stage = "again" <=> raised > 0
  /\ raised = 0 => nsInfo = {} /\ todo = {}

\* The core holds the lock while it waits, and has not used up its looks.
LevelInv ==
  /\ Waiting /\ op = "create" => loops < MaxLoops

BaseInv == TypeOK /\ LevelInv /\ CallInv /\ LockOrphaned

-----------------------------------------------------------------------------
(* The deque, and the outcomes of a look at it.                            *)

\* Taking the newest event leaves the others where they are.
LEMMA PopFacts ==
  ASSUME TypeOK, PopNewest
  PROVE  /\ queue' \in Seq(Event)
         /\ queue = <<>> => queue' = <<>>
         /\ queue # <<>> => Len(queue') = Len(queue) - 1 /\ Newest \in Event /\ Len(queue) \in 1..Len(queue)
         /\ \A i \in 1..Len(queue') : i \in 1..Len(queue) /\ i # Len(queue) /\ queue'[i] = queue[i]
<1>0. queue \in Seq(Event) /\ Len(queue) \in Nat
  BY DEF TypeOK
<1>1. CASE queue = <<>>
  BY <1>0, <1>1 DEF PopNewest
<1>2. CASE queue # <<>>
  <2>1. Len(queue) >= 1
    BY <1>0, <1>2
  <2>2. queue' = SubSeq(queue, 1, Len(queue) - 1)
    BY <1>2 DEF PopNewest, Popped
  <2>3. Newest \in Event
    BY <1>0, <2>1 DEF Newest
  <2>a. 1 \in Int /\ Len(queue) - 1 \in Int /\ \A i \in 1..(Len(queue) - 1) : queue[i] \in Event
    BY <1>0
  <2>b. /\ SubSeq(queue, 1, Len(queue) - 1) \in Seq(Event)
        /\ Len(SubSeq(queue, 1, Len(queue) - 1)) = IF 1 <= Len(queue) - 1 THEN Len(queue) - 1 - 1 + 1 ELSE 0
    BY <2>a, SubSeqProperties
  <2>4. queue' \in Seq(Event) /\ Len(queue') = Len(queue) - 1
    <3>1. (IF 1 <= Len(queue) - 1 THEN Len(queue) - 1 - 1 + 1 ELSE 0) = Len(queue) - 1
      <4>1. \A n \in Nat : n >= 1 => (IF 1 <= n - 1 THEN n - 1 - 1 + 1 ELSE 0) = n - 1
        OBVIOUS
      <4>2. QED
        BY <1>0, <2>1, <4>1
    <3>2. Len(queue') = Len(queue) - 1
      BY <2>2, <2>b, <3>1, Zenon
    <3>3. QED
      BY <2>2, <2>b, <3>2, Zenon
  <2>5. \A i \in 1..Len(queue') : queue'[i] = queue[i]
    BY <1>0, <2>1, <2>2, <2>4, SubSeqProperties
  <2>6. QED
    BY <1>0, <1>2, <2>1, <2>3, <2>4, <2>5
<1>3. QED
  BY <1>1, <1>2

\* Insert puts the event on top.
LEMMA InsertFacts ==
  ASSUME TypeOK, NEW s \in Service, NEW k \in Kind, Insert(s, k)
  PROVE  /\ queue' \in Seq(Event)
         /\ Len(queue') = Len(queue) + 1
         /\ queue'[Len(queue) + 1].kind = k /\ queue'[Len(queue) + 1].svc = s
         /\ \A i \in 1..Len(queue) : queue'[i] = queue[i]
         /\ \A i \in 1..Len(queue') : i = Len(queue) + 1 \/ i \in 1..Len(queue)
         /\ queue' # <<>>
<1>1. queue \in Seq(Event) /\ [svc |-> s, kind |-> k] \in Event
  BY DEF TypeOK, Event
<1>2. queue' = Append(queue, [svc |-> s, kind |-> k])
  BY DEF Insert
<1>3. queue' \in Seq(Event) /\ Len(queue') = Len(queue) + 1 /\ Len(queue) \in Nat
  BY <1>1, <1>2
<1>4. queue'[Len(queue) + 1] = [svc |-> s, kind |-> k]
  BY <1>1, <1>2
<1>5. \A i \in 1..Len(queue) : queue'[i] = queue[i]
  BY <1>1, <1>2
<1>6. QED
  BY <1>3, <1>4, <1>5

\* A raise ends the call, and leaves the script for its cleanup.
LEMMA RaiseFacts ==
  ASSUME TypeOK, NEW known \in SUBSET Service, NEW held \in {0, 1}, Raises(known, held)
  PROVE  /\ raised' = raised + 1 /\ orphans' = orphans + held /\ raised' \in Nat /\ orphans' \in Nat
         /\ pc' \in {"script", "end"} /\ stage' = "again" /\ todo' \in SUBSET Service
         /\ stage # "again" => pc' = "script" /\ todo' = known
BY DEF TypeOK, Raises

\* A look ends in one of four ways.
LEMMA LookFacts ==
  ASSUME NEW n, NEW seen, Look(n, seen)
  PROVE  \/ /\ Raises(nsInfo, 1) /\ levels' = n /\ nsInfo' = nsInfo
            /\ loops' = loops \/ (loops' = seen + 1 /\ op = "create") \/ loops' = seen
         \/ /\ queue # <<>> /\ Newest.kind \in Complete /\ op = "create"
            /\ pc' = "getsvc" /\ levels' = n /\ nsInfo' = nsInfo /\ loops' = loops /\ UNCHANGED runVars
         \/ /\ queue # <<>> /\ Newest.kind \in Complete /\ op # "create"
            /\ pc' = "script" /\ levels' = n - 1 /\ nsInfo' = nsInfo \ {cur} /\ loops' = loops /\ UNCHANGED runVars
         \/ /\ queue # <<>> => Newest.kind \in Untelling
            /\ pc' = "parked" /\ levels' = n /\ nsInfo' = nsInfo /\ UNCHANGED runVars
            /\ \/ op = "create" /\ loops' = seen + 1 /\ ~(seen + 1 >= MaxLoops)
               \/ op # "create" /\ loops' = seen
BY DEF Look

\* A POST is under way, or its event is lost.
LEMMA PostFacts ==
  ASSUME TypeOK, NEW s \in Service, NEW k \in Kind, Posts(s, k)
  PROVE  /\ post' \in [Service -> SUBSET Kind] /\ lost' \subseteq Event
         /\ \A t \in Service \ {s} : post'[t] = post[t]
         /\ post[s] \subseteq post'[s] /\ post'[s] \subseteq post[s] \cup {k}
         /\ \A t \in Service, j \in Kind : Lost(t, j) => Lost(t, j)'
         /\ k \in post'[s] \/ Lost(s, k)'
<1>1. CASE post' = [post EXCEPT ![s] = @ \cup {k}] /\ UNCHANGED lost
  BY <1>1 DEF TypeOK, Lost
<1>2. CASE lost' = lost \cup {[svc |-> s, kind |-> k]} /\ UNCHANGED post
  BY <1>2 DEF TypeOK, Lost, Event
<1>3. QED
  BY <1>1, <1>2 DEF Posts

Phase == {"none", "launching", "deploying", "active", "failed", "unlinking", "deleting", "deleted", "stuck"}

LEMMA MoveFacts ==
  ASSUME TypeOK, NEW s \in Service, NEW p \in Phase, Moves(s, p)
  PROVE  phase' \in [Service -> Phase] /\ phase'[s] = p /\ \A t \in Service \ {s} : phase'[t] = phase[t]
BY DEF TypeOK, Moves, Phase

-----------------------------------------------------------------------------
(* Types, and the lock.                                                    *)

LEMMA BaseInit == Init => BaseInv
<1> SUFFICES ASSUME Init PROVE BaseInv
  OBVIOUS
<1>1. queue \in Seq(Event)
  BY DEF Init
<1>2. phase \in [Service -> {"none", "launching", "deploying", "active", "failed", "unlinking", "deleting", "deleted", "stuck"}]
  BY DEF Init
<1>3. post \in [Service -> SUBSET Kind] /\ spent \in [Service -> 0..MaxEvents]
  BY BoundAssumption DEF Init
<1>4. loops \in 0..MaxLoops
  BY BoundAssumption DEF Init
<1>5. TypeOK
  BY <1>1, <1>2, <1>3, <1>4 DEF Init, TypeOK
<1>6. LevelInv /\ CallInv /\ LockOrphaned
  BY DEF Init, LevelInv, CallInv, LockOrphaned, Waiting, Calling
<1>7. QED
  BY <1>5, <1>6 DEF BaseInv

\* What a step of the plugin leaves alone.
PluginFrame == UNCHANGED <<queue, levels, file, nsInfo, pc, callVars, runVars, frozen>>

LEMMA PluginBase ==
  ASSUME BaseInv, PluginFrame, phase' \in [Service -> Phase], post' \in [Service -> SUBSET Kind], lost' \subseteq Event,
         spent' \in [Service -> 0..MaxEvents]
  PROVE  BaseInv'
<1>1. TypeOK'
  BY DEF BaseInv, PluginFrame, TypeOK, Phase, callVars, runVars
<1>2. LevelInv' /\ CallInv' /\ LockOrphaned'
  BY DEF BaseInv, PluginFrame, LevelInv, CallInv, LockOrphaned, Waiting, Calling, callVars, runVars
<1>3. QED
  BY <1>1, <1>2 DEF BaseInv

\* A raise leaves the lock as orphaned as the wait it ends held it.
LEMMA RaiseBase ==
  ASSUME BaseInv, NEW known \in SUBSET Service, NEW held \in {0, 1}, Raises(known, held), levels' = orphans + held
  PROVE  LevelInv' /\ CallInv' /\ LockOrphaned'
<1>1. raised' = raised + 1 /\ orphans' = orphans + held /\ raised \in Nat /\ pc' \in {"script", "end"} /\ stage' = "again"
  BY RaiseFacts DEF BaseInv, TypeOK
<1>2. QED
  BY <1>1 DEF LevelInv, CallInv, LockOrphaned, Waiting, Calling

LEMMA BaseNext == ASSUME BaseInv, [Next]_vars PROVE BaseInv'
<1> USE BoundAssumption, FlagAssumption DEF BaseInv
<1>0. phase \in [Service -> Phase] /\ post \in [Service -> SUBSET Kind] /\ lost \subseteq Event /\ spent \in [Service -> 0..MaxEvents]
  BY DEF TypeOK, Phase
<1>1. ASSUME NEW s \in Service, NEW k \in Kind, Progress(s, k) PROVE BaseInv'
  <2>1. PluginFrame /\ phase' = phase /\ Posts(s, k)
    BY <1>1 DEF Progress, PluginFrame
  <2>2. spent' \in [Service -> 0..MaxEvents]
    BY <1>1 DEF Progress, TypeOK
  <2>3. QED
    BY <1>0, <2>1, <2>2, PostFacts, PluginBase
<1>2. ASSUME NEW s \in Service, Onboarded(s) PROVE BaseInv'
  <2>1. PluginFrame /\ spent' = spent /\ Moves(s, "active") /\ Posts(s, "onboarded")
    BY <1>2 DEF Onboarded, PluginFrame
  <2>2. phase' \in [Service -> Phase] /\ post' \in [Service -> SUBSET Kind] /\ lost' \subseteq Event
    BY <2>1, PostFacts, MoveFacts DEF Kind, Phase
  <2>3. QED
    BY <1>0, <2>1, <2>2, PluginBase
<1>3. ASSUME NEW s \in Service, Fails(s) PROVE BaseInv'
  <2>1. PluginFrame /\ spent' = spent /\ Moves(s, "failed") /\ (Posts(s, "error") \/ UNCHANGED <<post, lost>>)
    BY <1>3 DEF Fails, PluginFrame
  <2>2. phase' \in [Service -> Phase] /\ post' \in [Service -> SUBSET Kind] /\ lost' \subseteq Event
    BY <1>0, <2>1, PostFacts, MoveFacts DEF Kind, Phase
  <2>3. QED
    BY <1>0, <2>1, <2>2, PluginBase
<1>4. ASSUME NEW s \in Service, Offboarded(s) PROVE BaseInv'
  <2>1. PluginFrame /\ spent' = spent /\ \/ Moves(s, "deleted") /\ Posts(s, "offboarded")
                                         \/ Moves(s, "stuck") /\ UNCHANGED <<post, lost>>
    BY <1>4 DEF Offboarded, PluginFrame
  <2>2. phase' \in [Service -> Phase] /\ post' \in [Service -> SUBSET Kind] /\ lost' \subseteq Event
    BY <1>0, <2>1, PostFacts, MoveFacts DEF Kind, Phase
  <2>3. QED
    BY <1>0, <2>1, <2>2, PluginBase
<1>5. ASSUME NEW s \in Service, NEW k \in Kind, Insert(s, k) PROVE BaseInv'
  <2>1. post' \in [Service -> SUBSET Kind] /\ file' \subseteq Service
    BY <1>5 DEF Insert, TypeOK
  <2>2. pc' \in {"script", "api", "woken", "getsvc", "end"} /\ (pc' = pc \/ (pc = "parked" /\ pc' = "woken"))
    BY <1>5 DEF Insert, TypeOK
  <2>3. UNCHANGED <<phase, spent, lost, levels, nsInfo, callVars, runVars, frozen>> /\ queue' \in Seq(Event)
    BY <1>5, InsertFacts DEF Insert
  <2>4. TypeOK'
    BY <2>1, <2>2, <2>3 DEF TypeOK, callVars, runVars
  <2>5. LevelInv' /\ CallInv' /\ LockOrphaned'
    BY <2>2, <2>3 DEF LevelInv, CallInv, LockOrphaned, Waiting, Calling, callVars, runVars
  <2>6. QED
    BY <2>4, <2>5
<1>6. CASE Freeze
  <2>1. TypeOK'
    BY <1>6 DEF Freeze, TypeOK, plVars, callVars, runVars
  <2>2. LevelInv' /\ CallInv' /\ LockOrphaned'
    BY <1>6 DEF Freeze, LevelInv, CallInv, LockOrphaned, Waiting, Calling, plVars, callVars, runVars
  <2>3. QED
    BY <2>1, <2>2
<1>7. ASSUME NEW s \in Service, NEW b \in Blocks, CreateService(s, b) PROVE BaseInv'
  <2>0. UNCHANGED <<spent, levels, file, nsInfo, loops, frozen>> /\ pc = "script" /\ stage = "run"
    BY <1>7 DEF CreateService
  <2>1. CASE queue = <<>>
    <3>1. pc' = "api" /\ op' = "create" /\ cur' = s /\ block' = b /\ Moves(s, "launching") /\ Posts(s, "launch") /\ UNCHANGED <<queue, runVars>>
      BY <1>7, <2>1 DEF CreateService, Calls
    <3>2. phase' \in [Service -> Phase] /\ post' \in [Service -> SUBSET Kind] /\ lost' \subseteq Event
      BY <3>1, PostFacts, MoveFacts DEF Kind, Phase
    <3>3. TypeOK'
      BY <2>0, <3>1, <3>2 DEF TypeOK, Phase, runVars
    <3>4. LevelInv' /\ CallInv' /\ LockOrphaned'
      BY <2>0, <3>1 DEF LevelInv, CallInv, LockOrphaned, Waiting, Calling, TypeOK, runVars
    <3>5. QED
      BY <3>3, <3>4
  <2>2. CASE queue # <<>>
    <3>1. queue' \in Seq(Event) /\ Raises(nsInfo, 0) /\ UNCHANGED <<phase, post, lost, op, cur, block>>
      BY <1>7, <2>2, PopFacts DEF CreateService, PopNewest
    <3>2. nsInfo \in SUBSET Service /\ levels' = orphans + 0
      BY <2>0 DEF TypeOK, LockOrphaned, Waiting
    <3>3. TypeOK'
      BY <2>0, <3>1, <3>2, RaiseFacts DEF TypeOK
    <3>4. QED
      BY <3>1, <3>2, <3>3, RaiseBase
  <2>3. QED
    BY <2>1, <2>2
<1>8. ASSUME NEW s \in Service, DeleteService(s) PROVE BaseInv'
  <2>1. /\ UNCHANGED <<spent, queue, levels, file, nsInfo, loops, stage, raised, orphans, frozen>> /\ pc = "script" /\ stage # "run" /\ s \in todo
        /\ todo' = todo \ {s} /\ pc' = "api" /\ op' = "delete" /\ cur' = s /\ block' = TRUE /\ Moves(s, "unlinking") /\ Posts(s, "info")
    BY <1>8 DEF DeleteService, Calls
  <2>2. phase' \in [Service -> Phase] /\ post' \in [Service -> SUBSET Kind] /\ lost' \subseteq Event
    BY <2>1, PostFacts, MoveFacts DEF Kind, Phase
  <2>3. TypeOK'
    BY <2>1, <2>2 DEF TypeOK, Phase
  <2>4. LevelInv' /\ CallInv' /\ LockOrphaned'
    BY <2>1 DEF LevelInv, CallInv, LockOrphaned, Waiting, Calling, TypeOK
  <2>5. QED
    BY <2>3, <2>4
<1>9. CASE ApiReturns
  <2>1. cur \in Service /\ pc = "api" /\ levels = orphans /\ UNCHANGED <<post, spent, lost, file, op, cur, block, frozen>>
    BY <1>9 DEF ApiReturns, CallInv, LockOrphaned, Waiting, Calling, TypeOK
  <2>2. phase' \in [Service -> Phase]
    BY <1>9, <2>1, MoveFacts DEF ApiReturns, Deployed, Phase
  <2>3. CASE ~block
    <3>1. pc' = "script" /\ UNCHANGED <<queue, levels, nsInfo, loops, runVars>>
      BY <1>9, <2>3 DEF ApiReturns, Returns
    <3>2. TypeOK'
      BY <2>1, <2>2, <3>1 DEF TypeOK, Phase, runVars
    <3>3. LevelInv' /\ CallInv' /\ LockOrphaned'
      BY <2>1, <3>1 DEF LevelInv, CallInv, LockOrphaned, Waiting, Calling, runVars
    <3>4. QED
      BY <3>2, <3>3
  <2>4. CASE block
    <3>1. queue' \in Seq(Event) /\ Look(levels + 1, 0)
      BY <1>9, <2>4, PopFacts DEF ApiReturns
    <3>2. levels \in Nat /\ nsInfo \in SUBSET Service /\ \A l : l = 0 + 1 \/ l = 0 \/ l = loops => l \in 0..MaxLoops
      BY DEF TypeOK
    <3>3. CASE Raises(nsInfo, 1) /\ levels' = levels + 1 /\ nsInfo' = nsInfo /\ loops' \in 0..MaxLoops
      <4>1. TypeOK'
        BY <2>1, <2>2, <3>1, <3>2, <3>3, RaiseFacts DEF TypeOK, Phase
      <4>2. QED
        BY <2>1, <3>2, <3>3, <4>1, RaiseBase
    <3>4. CASE pc' = "getsvc" /\ op = "create" /\ levels' = levels + 1 /\ nsInfo' = nsInfo /\ loops' = loops /\ UNCHANGED runVars
      <4>1. TypeOK'
        BY <2>1, <2>2, <3>1, <3>2, <3>4 DEF TypeOK, Phase, runVars
      <4>2. LevelInv' /\ CallInv' /\ LockOrphaned'
        BY <2>1, <3>2, <3>4 DEF LevelInv, CallInv, LockOrphaned, Waiting, Calling, TypeOK, runVars
      <4>3. QED
        BY <4>1, <4>2
    <3>5. CASE pc' = "script" /\ op # "create" /\ levels' = levels + 1 - 1 /\ nsInfo' = nsInfo \ {cur} /\ loops' = loops /\ UNCHANGED runVars
      <4>1. TypeOK'
        BY <2>1, <2>2, <3>1, <3>2, <3>5 DEF TypeOK, Phase, runVars
      <4>2. LevelInv' /\ CallInv' /\ LockOrphaned'
        BY <2>1, <3>2, <3>5 DEF LevelInv, CallInv, LockOrphaned, Waiting, Calling, TypeOK, runVars
      <4>3. QED
        BY <4>1, <4>2
    <3>6. CASE pc' = "parked" /\ levels' = levels + 1 /\ nsInfo' = nsInfo /\ loops' \in 0..MaxLoops /\ (op = "create" => loops' < MaxLoops) /\ UNCHANGED runVars
      <4>1. TypeOK'
        BY <2>1, <2>2, <3>1, <3>2, <3>6 DEF TypeOK, Phase, runVars
      <4>2. LevelInv' /\ CallInv' /\ LockOrphaned'
        BY <2>1, <3>2, <3>6 DEF LevelInv, CallInv, LockOrphaned, Waiting, Calling, TypeOK, runVars
      <4>3. QED
        BY <4>1, <4>2
    <3>7. QED
      BY <3>1, <3>2, <3>3, <3>4, <3>5, <3>6, LookFacts
  <2>5. QED
    BY <2>3, <2>4
<1>10. CASE ApiFails
  <2>1. cur \in Service /\ pc = "api" /\ Raises(nsInfo, 0) /\ UNCHANGED <<post, spent, lost, queue, levels, file, nsInfo, callVars, frozen>>
    BY <1>10 DEF ApiFails, CallInv, Calling
  <2>2. phase' \in [Service -> Phase]
    BY <1>10, <2>1, MoveFacts DEF ApiFails, Phase
  <2>3. nsInfo \in SUBSET Service /\ levels' = orphans + 0
    BY <2>1 DEF TypeOK, LockOrphaned, Waiting
  <2>4. TypeOK'
    BY <2>1, <2>2, <2>3, RaiseFacts DEF TypeOK, Phase, callVars
  <2>5. QED
    BY <2>1, <2>3, <2>4, RaiseBase
<1>11. CASE Wake
  <2>1. cur \in Service /\ pc = "woken" /\ levels = orphans + 1 /\ UNCHANGED <<plVars, file, op, cur, block, frozen>>
    BY <1>11 DEF Wake, CallInv, LockOrphaned, Waiting, Calling
  <2>2. queue' \in Seq(Event) /\ Look(levels, loops)
    BY <1>11, PopFacts DEF Wake
  <2>3. levels \in Nat /\ nsInfo \in SUBSET Service /\ \A l : (l = loops + 1 /\ op = "create") \/ l = loops => l \in 0..MaxLoops
    BY <2>1 DEF TypeOK, LevelInv, Waiting
  <2>4. CASE Raises(nsInfo, 1) /\ levels' = levels /\ nsInfo' = nsInfo /\ loops' \in 0..MaxLoops
    <3>1. TypeOK'
      BY <2>1, <2>2, <2>3, <2>4, RaiseFacts DEF TypeOK, plVars
    <3>2. QED
      BY <2>1, <2>3, <2>4, <3>1, RaiseBase
  <2>5. CASE pc' = "getsvc" /\ op = "create" /\ levels' = levels /\ nsInfo' = nsInfo /\ loops' = loops /\ UNCHANGED runVars
    <3>1. TypeOK'
      BY <2>1, <2>2, <2>3, <2>5 DEF TypeOK, plVars, runVars
    <3>2. LevelInv' /\ CallInv' /\ LockOrphaned'
      BY <2>1, <2>3, <2>5 DEF LevelInv, CallInv, LockOrphaned, Waiting, Calling, TypeOK, runVars
    <3>3. QED
      BY <3>1, <3>2
  <2>6. CASE pc' = "script" /\ op # "create" /\ levels' = levels - 1 /\ nsInfo' = nsInfo \ {cur} /\ loops' = loops /\ UNCHANGED runVars
    <3>1. TypeOK'
      BY <2>1, <2>2, <2>3, <2>6 DEF TypeOK, plVars, runVars
    <3>2. LevelInv' /\ CallInv' /\ LockOrphaned'
      BY <2>1, <2>3, <2>6 DEF LevelInv, CallInv, LockOrphaned, Waiting, Calling, TypeOK, runVars
    <3>3. QED
      BY <3>1, <3>2
  <2>7. CASE pc' = "parked" /\ levels' = levels /\ nsInfo' = nsInfo /\ loops' \in 0..MaxLoops /\ (op = "create" => loops' < MaxLoops) /\ UNCHANGED runVars
    <3>1. TypeOK'
      BY <2>1, <2>2, <2>3, <2>7 DEF TypeOK, plVars, runVars
    <3>2. LevelInv' /\ CallInv' /\ LockOrphaned'
      BY <2>1, <2>3, <2>7 DEF LevelInv, CallInv, LockOrphaned, Waiting, Calling, TypeOK, runVars
    <3>3. QED
      BY <3>1, <3>2
  <2>8. loops \in Nat /\ (op = "create" /\ ~(loops + 1 >= MaxLoops) => loops + 1 < MaxLoops)
    BY DEF TypeOK
  <2>9. QED
    BY <2>2, <2>3, <2>4, <2>5, <2>6, <2>7, <2>8, LookFacts
<1>12. CASE GetSvcObj
  <2>1. PICK known \in Known : nsInfo' = known /\ Raises(known, 1)
    BY <1>12 DEF GetSvcObj
  <2>2. known \in SUBSET Service
    BY <2>1 DEF Known, TypeOK
  <2>3. UNCHANGED <<plVars, queue, levels, file, callVars, frozen>> /\ levels' = orphans + 1
    BY <1>12 DEF GetSvcObj, LockOrphaned
  <2>4. TypeOK'
    BY <2>1, <2>2, <2>3, RaiseFacts DEF TypeOK, plVars, callVars
  <2>5. QED
    BY <2>1, <2>2, <2>3, <2>4, RaiseBase
<1>13. CASE ScriptEnds
  <2>0. UNCHANGED <<plVars, queue, levels, file, nsInfo, callVars, frozen>> /\ pc = "script" /\ stage = "run" /\ nsInfo \in SUBSET Service
    BY <1>13 DEF ScriptEnds, TypeOK
  <2>1. CASE Raises(nsInfo, 0)
    <3>1. levels' = orphans + 0
      BY <2>0 DEF LockOrphaned, Waiting, TypeOK
    <3>2. TypeOK'
      BY <2>0, <2>1, RaiseFacts DEF TypeOK, plVars, callVars
    <3>3. QED
      BY <2>0, <2>1, <3>1, <3>2, RaiseBase
  <2>2. CASE stage' = "cleanup" /\ todo' = nsInfo /\ UNCHANGED <<pc, raised, orphans>>
    <3>1. TypeOK'
      BY <2>0, <2>2 DEF TypeOK, plVars, callVars
    <3>2. LevelInv' /\ CallInv' /\ LockOrphaned'
      BY <2>0, <2>2 DEF LevelInv, CallInv, LockOrphaned, Waiting, Calling, plVars, callVars
    <3>3. QED
      BY <3>1, <3>2
  <2>3. QED
    BY <1>13, <2>1, <2>2 DEF ScriptEnds
<1>14. CASE DeleteTemplate
  <2>1. UNCHANGED <<plVars, levels, file, nsInfo, callVars, runVars, frozen>> /\ pc = "script" /\ pc' = "end" /\ queue' \in Seq(Event)
    BY <1>14, PopFacts DEF DeleteTemplate
  <2>2. TypeOK'
    BY <2>1 DEF TypeOK, plVars, callVars, runVars
  <2>3. LevelInv' /\ CallInv' /\ LockOrphaned'
    BY <2>1 DEF LevelInv, CallInv, LockOrphaned, Waiting, Calling, plVars, callVars, runVars
  <2>4. QED
    BY <2>2, <2>3
<1>15. CASE UNCHANGED vars
  <2>1. TypeOK'
    BY <1>15 DEF vars, TypeOK, plVars, callVars, runVars
  <2>2. LevelInv' /\ CallInv' /\ LockOrphaned'
    BY <1>15 DEF vars, LevelInv, CallInv, LockOrphaned, Waiting, Calling, plVars, callVars, runVars
  <2>3. QED
    BY <2>1, <2>2
<1>16. QED
  BY <1>1, <1>2, <1>3, <1>4, <1>5, <1>6, <1>7, <1>8, <1>9, <1>10, <1>11, <1>12, <1>13, <1>14, <1>15 DEF Next, Plugin, Core

LEMMA BaseAlways == Spec => []BaseInv
BY BaseInit, BaseNext, PTL DEF Spec

\* TypeOK, for any services, any script and any bounds.
THEOREM TypeCorrect == Spec => []TypeOK
BY BaseAlways, PTL DEF BaseInv

\* The lock is held once by the wait under way, and once more by each wait that
\* was left by an exception: eventListner's Insert is kept out by nothing else.
THEOREM LockReleased == Spec => []LockOrphaned
BY BaseAlways, PTL DEF BaseInv

-----------------------------------------------------------------------------
(* A wait for a creation ends with its own event.                          *)

\* What is in the queue of the kinds that end a wait.
Ends(i) == queue[i].kind \in Complete

\* Until something raises nothing is deleted, and a completion in the queue has
\* left its file.
HereInv ==
  raised = 0 =>
    /\ \A s \in Service : phase[s] \notin {"unlinking", "deleting", "deleted", "stuck"} /\ "offboarded" \notin post[s]
    /\ \A s \in Service : phase[s] = "none" => post[s] = {} /\ s \notin file
    /\ \A i \in 1..Len(queue) : Ends(i) => queue[i].kind = "onboarded" /\ queue[i].svc \in file
    /\ pc = "getsvc" => file # {}
    /\ pc = "api" => phase[cur] = "launching"

\* The service is not created, or its first event was told to nobody.
Unheard(s) == phase[s] = "none" \/ Lost(s, "launch")

\* Between two creations an event of the first waits in the queue, and makes the
\* second raise, unless nobody was told of the first.
AloneInv ==
  raised = 0 =>
    /\ pc = "script" => queue # <<>> \/ \A s \in Service : Unheard(s)
    /\ Calling => \A s \in Service \ {cur} : Unheard(s)
    /\ pc = "api" => queue # <<>> \/ "launch" \in post[cur] \/ Lost(cur, "launch")

OwnInv == BaseInv /\ HereInv /\ AloneInv

LEMMA OwnInit == Init => OwnInv
BY BaseInit DEF Init, OwnInv, HereInv, AloneInv, Unheard, Calling

LEMMA RaiseOwn ==
  ASSUME TypeOK, NEW known \in SUBSET Service, NEW held \in {0, 1}, Raises(known, held)
  PROVE  HereInv' /\ AloneInv'
<1>1. raised' = raised + 1 /\ raised \in Nat
  BY RaiseFacts DEF TypeOK
<1>2. QED
  BY <1>1 DEF HereInv, AloneInv

\* The plugin goes on with a service that exists.
LEMMA PluginOwn ==
  ASSUME BaseInv, HereInv, AloneInv, PluginFrame, NEW s \in Service,
         phase[s] \notin {"none", "launching"}, phase'[s] \notin {"none", "unlinking", "deleting", "deleted", "stuck"},
         \A t \in Service \ {s} : phase'[t] = phase[t] /\ post'[t] = post[t],
         post[s] \subseteq post'[s], "offboarded" \in post'[s] => "offboarded" \in post[s],
         \A t \in Service, j \in Kind : Lost(t, j) => Lost(t, j)'
  PROVE  HereInv' /\ AloneInv'
<1>1. UNCHANGED <<queue, file, pc, op, cur, raised>>
  BY DEF PluginFrame, callVars, runVars
<1>2. \A t \in Service : Unheard(t) => Unheard(t)'
  BY DEF Unheard, Kind
<1>3. HereInv'
  <2>1. SUFFICES ASSUME raised = 0 PROVE HereInv'
    BY <1>1 DEF HereInv
  <2>2. pc = "api" => cur \in Service /\ cur # s
    BY <2>1 DEF HereInv, BaseInv, CallInv, Calling
  <2>3. QED
    BY <1>1, <2>1, <2>2 DEF HereInv, Ends
<1>4. AloneInv'
  <2>1. SUFFICES ASSUME raised = 0 PROVE AloneInv'
    BY <1>1 DEF AloneInv
  <2>2. Calling => cur \in Service
    BY DEF BaseInv, CallInv
  <2>3. pc = "api" /\ "launch" \in post[cur] => "launch" \in post'[cur]
    BY <2>2 DEF Calling
  <2>4. pc = "api" /\ Lost(cur, "launch") => Lost(cur, "launch")'
    BY <1>1, <2>2 DEF Calling, Kind, Lost
  <2>5. QED
    BY <1>1, <1>2, <2>1, <2>3, <2>4 DEF AloneInv, Calling
<1>5. QED
  BY <1>3, <1>4

\* A look ends the wait for a creation with a completion that left its file.
LEMMA LookOwn ==
  ASSUME BaseInv, HereInv, NEW n, NEW seen, PopNewest, Look(n, seen), pc \in {"api", "woken"},
         file' = file, cur' = cur, op' = op,
         \A s \in Service : phase'[s] = phase[s] \/ (s = cur /\ phase'[s] = "deploying"), post' = post,
         \A s \in Service \ {cur} : raised = 0 => Unheard(s)'
  PROVE  HereInv' /\ AloneInv'
<1> USE DEF BaseInv
<1>1. nsInfo \in SUBSET Service /\ 1 \in {0, 1}
  BY DEF TypeOK
<1>2. CASE Raises(nsInfo, 1)
  BY <1>1, <1>2, RaiseOwn
<1>3. SUFFICES ASSUME raised = 0, raised' = raised, pc' \in {"getsvc", "parked"},
                      pc' = "getsvc" => queue # <<>> /\ Newest.kind \in Complete
               PROVE  HereInv' /\ AloneInv'
  <2>1. raised = 0 => op = "create"
    BY DEF CallInv, Calling
  <2>2. raised' = 0 => raised = 0 \/ Raises(nsInfo, 1)
    BY LookFacts DEF runVars
  <2>3. CASE raised' # 0
    BY <2>3 DEF HereInv, AloneInv
  <2>4. QED
    BY <1>2, <1>3, <2>1, <2>2, <2>3, LookFacts DEF runVars
<1>4. \A i \in 1..Len(queue') : Ends(i)' => queue'[i].kind = "onboarded" /\ queue'[i].svc \in file
  BY <1>3, PopFacts DEF HereInv, Ends
<1>5. pc' = "getsvc" => file # {}
  <2>1. SUFFICES ASSUME queue # <<>>, Newest.kind \in Complete PROVE file # {}
    BY <1>3
  <2>2. Len(queue) \in 1..Len(queue) /\ Ends(Len(queue))
    BY <2>1, PopFacts DEF Ends, Newest
  <2>3. QED
    BY <1>3, <2>2 DEF HereInv
<1>6. HereInv'
  BY <1>3, <1>4, <1>5 DEF HereInv
<1>7. AloneInv'
  BY <1>3 DEF AloneInv
<1>8. QED
  BY <1>6, <1>7

LEMMA OwnNext == ASSUME BaseInv, HereInv, AloneInv, [Next]_vars PROVE HereInv' /\ AloneInv'
<1> USE DEF BaseInv
<1>1. ASSUME NEW s \in Service, NEW k \in Kind, Progress(s, k) PROVE HereInv' /\ AloneInv'
  <2>1. CASE raised # 0
    BY <1>1, <2>1 DEF Progress, HereInv, AloneInv, runVars
  <2>2. CASE raised = 0
    <3>1. PluginFrame /\ phase' = phase /\ Posts(s, k) /\ k \in {"info", "error"} /\ phase[s] \notin {"none", "launching"}
      BY <1>1 DEF Progress, PluginFrame
    <3>2. QED
      BY <2>2, <3>1, PostFacts, PluginOwn DEF HereInv
  <2>3. QED
    BY <2>1, <2>2
<1>2. ASSUME NEW s \in Service, Onboarded(s) PROVE HereInv' /\ AloneInv'
  <2>1. PluginFrame /\ Moves(s, "active") /\ Posts(s, "onboarded") /\ phase[s] = "deploying" /\ "active" \in Phase /\ "onboarded" \in Kind
    BY <1>2 DEF Onboarded, PluginFrame, Phase, Kind
  <2>2. phase'[s] = "active" /\ \A t \in Service \ {s} : phase'[t] = phase[t]
    BY <2>1, MoveFacts
  <2>3. QED
    BY <2>1, <2>2, PostFacts, PluginOwn
<1>3. ASSUME NEW s \in Service, Fails(s) PROVE HereInv' /\ AloneInv'
  <2>1. PluginFrame /\ Moves(s, "failed") /\ phase[s] = "deploying" /\ "failed" \in Phase /\ "error" \in Kind
    BY <1>3 DEF Fails, PluginFrame, Phase, Kind
  <2>2. phase'[s] = "failed" /\ \A t \in Service \ {s} : phase'[t] = phase[t]
    BY <2>1, MoveFacts
  <2>3. CASE Posts(s, "error")
    BY <2>1, <2>2, <2>3, PostFacts, PluginOwn
  <2>4. CASE UNCHANGED <<post, lost>>
    BY <2>1, <2>2, <2>4, PluginOwn DEF Lost
  <2>5. QED
    BY <1>3, <2>3, <2>4 DEF Fails
<1>4. ASSUME NEW s \in Service, Offboarded(s) PROVE HereInv' /\ AloneInv'
  BY <1>4 DEF Offboarded, HereInv, AloneInv, runVars
<1>5. ASSUME NEW s \in Service, NEW k \in Kind, Insert(s, k) PROVE HereInv' /\ AloneInv'
  <2>1. UNCHANGED <<phase, lost, callVars, runVars>> /\ (pc' = pc \/ (pc = "parked" /\ pc' = "woken")) /\ k \in post[s]
    BY <1>5 DEF Insert
  <2>2. SUFFICES ASSUME raised = 0 PROVE HereInv' /\ AloneInv'
    BY <2>1 DEF HereInv, AloneInv, runVars
  <2>3. post' = [post EXCEPT ![s] = @ \ {k}] /\ file' = IF k = "onboarded" THEN file \cup {s} ELSE file
    BY <1>5 DEF Insert
  <2>4. \A t \in Service : post'[t] \subseteq post[t]
    BY <2>3 DEF TypeOK
  <2>5. phase[s] # "none" /\ k # "offboarded"
    BY <2>1, <2>2 DEF HereInv
  <2>6. \A i \in 1..Len(queue') : Ends(i)' => queue'[i].kind = "onboarded" /\ queue'[i].svc \in file'
    <3>1. TAKE i \in 1..Len(queue')
    <3>2. CASE i \in 1..Len(queue)
      BY <1>5, <2>2, <2>3, <3>2, InsertFacts DEF HereInv, Ends
    <3>3. CASE i = Len(queue) + 1
      BY <1>5, <2>3, <2>5, <3>3, InsertFacts DEF Ends, Complete
    <3>4. QED
      BY <1>5, <3>1, <3>2, <3>3, InsertFacts
  <2>7. HereInv'
    BY <2>1, <2>2, <2>3, <2>4, <2>5, <2>6 DEF HereInv, callVars
  <2>8. AloneInv'
    BY <1>5, <2>1, <2>2, InsertFacts DEF AloneInv, Unheard, Lost, Calling, callVars
  <2>9. QED
    BY <2>7, <2>8
<1>6. CASE Freeze
  BY <1>6 DEF Freeze, HereInv, AloneInv, Unheard, Lost, Ends, Calling, plVars, callVars, runVars
<1>7. ASSUME NEW s \in Service, NEW b \in Blocks, CreateService(s, b) PROVE HereInv' /\ AloneInv'
  <2>1. CASE queue # <<>>
    <3>1. Raises(nsInfo, 0) /\ nsInfo \in SUBSET Service
      BY <1>7, <2>1 DEF CreateService, TypeOK
    <3>2. QED
      BY <3>1, RaiseOwn
  <2>2. CASE queue = <<>>
    <3>1. /\ pc = "script" /\ pc' = "api" /\ op' = "create" /\ cur' = s /\ Moves(s, "launching") /\ Posts(s, "launch") /\ UNCHANGED <<queue, file, runVars>>
          /\ phase[s] = "none" /\ "launching" \in Phase /\ "launch" \in Kind
      BY <1>7, <2>2 DEF CreateService, Calls, Phase, Kind
    <3>2. SUFFICES ASSUME raised = 0 PROVE HereInv' /\ AloneInv'
      BY <3>1 DEF HereInv, AloneInv, runVars
    <3>3. phase'[s] = "launching" /\ \A t \in Service \ {s} : phase'[t] = phase[t]
      BY <3>1, MoveFacts
    <3>4. /\ \A t \in Service \ {s} : post'[t] = post[t]
          /\ post'[s] \subseteq post[s] \cup {"launch"}
          /\ \A t \in Service : Lost(t, "launch") => Lost(t, "launch")'
          /\ "launch" \in post'[s] \/ Lost(s, "launch")'
      BY <3>1, PostFacts
    <3>5. HereInv'
      BY <3>1, <3>2, <3>3, <3>4 DEF HereInv, Ends, runVars
    <3>6. AloneInv'
      BY <2>2, <3>1, <3>2, <3>3, <3>4 DEF AloneInv, Unheard, Calling, runVars
    <3>7. QED
      BY <3>5, <3>6
  <2>3. QED
    BY <2>1, <2>2
<1>8. ASSUME NEW s \in Service, DeleteService(s) PROVE HereInv' /\ AloneInv'
  BY <1>8 DEF DeleteService, CallInv, HereInv, AloneInv
<1>9. CASE ApiReturns
  <2>1. cur \in Service /\ pc = "api" /\ post[cur] = {} /\ UNCHANGED <<post, lost, file, op, cur>> /\ Moves(cur, Deployed(cur)) /\ Deployed(cur) \in Phase
    BY <1>9 DEF ApiReturns, CallInv, Calling, Deployed, Phase
  <2>2. phase'[cur] = Deployed(cur) /\ \A t \in Service \ {cur} : phase'[t] = phase[t]
    BY <2>1, MoveFacts
  <2>3. CASE raised # 0
    <3>1. raised' # 0
      <4>1. CASE Raises(nsInfo, 1)
        BY <2>3, <4>1 DEF Raises, TypeOK
      <4>2. CASE raised' = raised
        BY <2>3, <4>2
      <4>3. QED
        BY <1>9, <4>1, <4>2, LookFacts DEF ApiReturns, Returns, runVars
    <3>2. QED
      BY <3>1 DEF HereInv, AloneInv
  <2>4. CASE raised = 0
    <3>1. phase'[cur] = "deploying"
      BY <2>1, <2>2, <2>4 DEF HereInv, Deployed
    <3>2. \A t \in Service \ {cur} : Unheard(t)'
      BY <2>1, <2>2, <2>4 DEF AloneInv, Unheard, Calling, Lost
    <3>3. CASE block
      <4>1. PopNewest /\ Look(levels + 1, 0)
        BY <1>9, <3>3 DEF ApiReturns
      <4>2. QED
        BY <2>1, <2>2, <3>1, <3>2, <4>1, LookOwn
    <3>4. CASE ~block
      <4>1. pc' = "script" /\ UNCHANGED <<queue, runVars>>
        BY <1>9, <3>4 DEF ApiReturns, Returns
      <4>2. queue # <<>> \/ Lost(cur, "launch")
        BY <2>1, <2>4 DEF AloneInv
      <4>3. HereInv'
        BY <2>1, <2>2, <2>4, <3>1, <4>1 DEF HereInv, Ends, runVars
      <4>4. AloneInv'
        BY <2>1, <2>4, <3>2, <4>1, <4>2 DEF AloneInv, Unheard, Lost, Calling, runVars
      <4>5. QED
        BY <4>3, <4>4
    <3>5. QED
      BY <3>3, <3>4
  <2>5. QED
    BY <2>3, <2>4
<1>10. CASE ApiFails
  BY <1>10, RaiseOwn DEF ApiFails, TypeOK
<1>11. CASE Wake
  <2>1. UNCHANGED <<plVars, file, op, cur>> /\ pc = "woken" /\ PopNewest /\ Look(levels, loops)
    BY <1>11 DEF Wake
  <2>2. \A t \in Service \ {cur} : raised = 0 => Unheard(t)'
    BY <2>1 DEF AloneInv, Unheard, Calling, Lost, plVars
  <2>3. QED
    BY <2>1, <2>2, LookOwn DEF plVars
<1>12. CASE GetSvcObj
  <2>1. PICK known \in Known : Raises(known, 1)
    BY <1>12 DEF GetSvcObj
  <2>2. known \in SUBSET Service
    BY <2>1 DEF Known, TypeOK
  <2>3. QED
    BY <2>1, <2>2, RaiseOwn
<1>13. CASE ScriptEnds
  <2>1. CASE Raises(nsInfo, 0)
    BY <2>1, RaiseOwn DEF TypeOK
  <2>2. CASE stage' = "cleanup" /\ todo' = nsInfo /\ UNCHANGED <<pc, raised, orphans>>
    BY <1>13, <2>2 DEF ScriptEnds, HereInv, AloneInv, Unheard, Lost, Ends, Calling, plVars, callVars
  <2>3. QED
    BY <1>13, <2>1, <2>2 DEF ScriptEnds
<1>14. CASE DeleteTemplate
  <2>1. UNCHANGED <<plVars, file, callVars, runVars>> /\ pc' = "end" /\ PopNewest
    BY <1>14 DEF DeleteTemplate
  <2>2. AloneInv'
    BY <2>1 DEF AloneInv, Calling
  <2>3. \A i \in 1..Len(queue') : Ends(i)' => i \in 1..Len(queue) /\ Ends(i) /\ queue'[i] = queue[i]
    BY <2>1, PopFacts DEF Ends
  <2>4. HereInv'
    BY <2>1, <2>3 DEF HereInv, plVars, callVars, runVars
  <2>5. QED
    BY <2>2, <2>4
<1>15. CASE UNCHANGED vars
  BY <1>15 DEF vars, HereInv, AloneInv, Unheard, Lost, Ends, Calling, plVars, callVars, runVars
<1>16. QED
  BY <1>1, <1>2, <1>3, <1>4, <1>5, <1>6, <1>7, <1>8, <1>9, <1>10, <1>11, <1>12, <1>13, <1>14, <1>15 DEF Next, Plugin, Core

LEMMA OwnAlways == Spec => []OwnInv
<1>1. Init => OwnInv
  BY OwnInit
<1>2. OwnInv /\ [Next]_vars => OwnInv'
  BY BaseNext, OwnNext DEF OwnInv
<1>3. QED
  BY <1>1, <1>2, PTL DEF Spec

\* The wait for a creation is ended by the service's own event, in any script,
\* unless the first event of another service was told to nobody.
THEOREM OwnEventEnds == Spec => []OwnEvent
<1>1. OwnInv => OwnEvent
  <2>1. SUFFICES ASSUME OwnInv, pc = "getsvc", \A s \in Service \ {cur} : ~Lost(s, "launch") PROVE cur \in file
    BY DEF OwnEvent
  <2>2. raised = 0 /\ file # {} /\ file \subseteq Service
    BY <2>1 DEF OwnInv, BaseInv, CallInv, Calling, HereInv, TypeOK
  <2>3. \A s \in Service \ {cur} : s \notin file
    BY <2>1, <2>2 DEF OwnInv, HereInv, AloneInv, Unheard, Calling
  <2>4. QED
    BY <2>2, <2>3
<1>2. QED
  BY <1>1, OwnAlways, PTL

-----------------------------------------------------------------------------
(* Scripts that block in each call.                                        *)

Blocking == Blocks = {TRUE}

\* A blocking creation raises, whatever its end: the script creates one service.
\* Its completion is told once.
OneInv ==
  raised = 0 =>
    /\ op = "create"
    /\ Blocking /\ ~Calling => \A s \in Service : phase[s] = "none"
    /\ Blocking /\ Calling =>
         /\ block = TRUE
         /\ \A s \in Service \ {cur} : phase[s] = "none"
         /\ "onboarded" \in post[cur] => phase[cur] = "active" /\ \A i \in 1..Len(queue) : ~Ends(i)
         /\ \A i \in 1..Len(queue) : Ends(i) => phase[cur] = "active" /\ \A j \in 1..Len(queue) : Ends(j) => i = j
         /\ pc = "getsvc" => phase[cur] = "active" /\ "onboarded" \notin post[cur] /\ \A i \in 1..Len(queue) : ~Ends(i)

\* The service of cur, and no other, is there.
Only == cur \in Service /\ \A s \in Service \ {cur} : phase[s] = "none" /\ post[s] = {}

\* What a cleanup has to delete is on board, and its completion was taken.
BeforeDelete ==
  /\ Only /\ todo \subseteq {cur} /\ pc = "script"
  /\ phase[cur] = "active" /\ post[cur] \cap Complete = {}
  /\ \A i \in 1..Len(queue) : ~Ends(i)

\* A completion in the queue is that of the deletion.
InDelete ==
  /\ Only /\ todo = {} /\ block = TRUE
  /\ phase[cur] \in {"unlinking", "deleting", "deleted", "stuck"}
  /\ "onboarded" \notin post[cur]
  /\ "offboarded" \in post[cur] => phase[cur] = "deleted"
  /\ \A i \in 1..Len(queue) : Ends(i) => phase[cur] = "deleted"
  /\ pc = "api" => phase[cur] = "unlinking"
  /\ ~Calling => phase[cur] = "deleted"

CleanInv ==
  Blocking /\ raised = 1 =>
    /\ op = "create" /\ todo # {} => BeforeDelete
    /\ op = "delete" => InDelete

LEMMA CleanInit == Init => OneInv /\ CleanInv
BY DEF Init, OneInv, CleanInv, Calling

\* The first exception leaves nothing to delete, but for that of GetSvcObj.
LEMMA RaiseClean ==
  ASSUME BaseInv, OneInv, NEW held \in {0, 1}, Raises(nsInfo, held), op' = op
  PROVE  OneInv' /\ CleanInv'
<1>1. raised' = raised + 1 /\ raised \in Nat /\ (stage # "again" => todo' = nsInfo)
  BY RaiseFacts DEF BaseInv, TypeOK
<1>2. raised' = 1 => todo' = {} /\ op' = "create"
  BY <1>1 DEF BaseInv, CallInv, OneInv
<1>3. QED
  BY <1>1, <1>2 DEF OneInv, CleanInv

\* An event of a service that exists, other than a completion, changes nothing.
LEMMA PluginClean ==
  ASSUME BaseInv, HereInv, OneInv, CleanInv, PluginFrame, NEW s \in Service, phase[s] # "none",
         \A t \in Service \ {s} : phase'[t] = phase[t] /\ post'[t] = post[t],
         \/ phase'[s] = phase[s] \/ (phase[s] = "deploying" /\ phase'[s] = "failed"),
         post[s] \subseteq post'[s], post'[s] \cap Complete = post[s] \cap Complete
  PROVE  OneInv' /\ CleanInv'
<1>1. UNCHANGED <<queue, file, pc, op, cur, block, todo, raised>>
  BY DEF PluginFrame, callVars, runVars
<1>2. OneInv'
  <2>1. SUFFICES ASSUME raised = 0 PROVE OneInv'
    BY <1>1 DEF OneInv
  <2>2. CASE Blocking /\ Calling
    <3>1. s = cur
      BY <2>1, <2>2 DEF OneInv
    <3>2. ("onboarded" \in post'[cur] <=> "onboarded" \in post[cur]) /\ (phase[cur] = "active" => phase'[cur] = "active")
      BY <3>1 DEF Complete
    <3>3. QED
      BY <1>1, <2>1, <2>2, <3>1, <3>2 DEF OneInv, Calling, Ends, Blocking
  <2>3. CASE Blocking /\ ~Calling
    BY <2>1, <2>3 DEF OneInv
  <2>4. QED
    BY <1>1, <2>1, <2>2, <2>3 DEF OneInv, Blocking, Calling
<1>3. CleanInv'
  <2>1. SUFFICES ASSUME Blocking, raised = 1 PROVE CleanInv'
    BY <1>1 DEF CleanInv, Blocking
  <2>2. CASE op = "create" /\ todo # {}
    <3>1. BeforeDelete
      BY <2>1, <2>2 DEF CleanInv
    <3>2. s = cur
      BY <3>1 DEF BeforeDelete, Only
    <3>3. BeforeDelete'
      BY <1>1, <3>1, <3>2 DEF BeforeDelete, Only, Ends
    <3>4. QED
      BY <1>1, <2>2, <3>3 DEF CleanInv
  <2>3. CASE op = "delete"
    <3>1. InDelete
      BY <2>1, <2>3 DEF CleanInv
    <3>2. s = cur
      BY <3>1 DEF InDelete, Only
    <3>3. Only'
      BY <1>1, <3>1, <3>2 DEF InDelete, Only
    <3>4. phase'[cur] = phase[cur] /\ ("onboarded" \in post'[cur] <=> "onboarded" \in post[cur]) /\ ("offboarded" \in post'[cur] <=> "offboarded" \in post[cur])
      BY <3>1, <3>2 DEF InDelete, Complete
    <3>5. InDelete'
      BY <1>1, <3>1, <3>3, <3>4 DEF InDelete, Ends, Calling
    <3>6. QED
      BY <1>1, <2>3, <3>5 DEF CleanInv
  <2>4. CASE op # "delete" /\ ~(op = "create" /\ todo # {})
    BY <1>1, <2>4 DEF CleanInv
  <2>5. QED
    BY <2>2, <2>3, <2>4
<1>4. QED
  BY <1>2, <1>3

LEMMA LookClean ==
  ASSUME BaseInv, OneInv, CleanInv, NEW n, NEW seen, PopNewest, Look(n, seen), pc \in {"api", "woken"}, block,
         cur' = cur, op' = op, block' = block, post' = post, cur \in Service,
         \A s \in Service \ {cur} : phase'[s] = phase[s],
         \/ pc = "woken" /\ phase'[cur] = phase[cur]
         \/ pc = "api" /\ phase[cur] \in {"launching", "unlinking"} /\ phase'[cur] = IF phase[cur] = "launching" THEN "deploying" ELSE "deleting"
  PROVE  OneInv' /\ CleanInv'
<1> USE DEF BaseInv
<1>1. CASE Raises(nsInfo, 1)
  BY <1>1, RaiseClean
<1>2. SUFFICES ASSUME UNCHANGED runVars,
                      \/ pc' \in {"getsvc", "parked"}
                      \/ pc' = "script" /\ op # "create",
                      pc' \in {"getsvc", "script"} => queue # <<>> /\ Newest.kind \in Complete,
                      pc' = "getsvc" => op = "create"
               PROVE  OneInv' /\ CleanInv'
  BY <1>1, LookFacts
<1>3. Calling /\ UNCHANGED <<raised, todo>> /\ (op = "create" <=> raised = 0)
  BY <1>2 DEF Calling, CallInv, runVars
<1>4. /\ \A i \in 1..Len(queue') : Ends(i)' => i \in 1..Len(queue) /\ i # Len(queue) /\ Ends(i)
      /\ pc' \in {"getsvc", "script"} => Len(queue) \in 1..Len(queue) /\ Ends(Len(queue))
  BY <1>2, PopFacts DEF Ends, Newest
<1>5. OneInv'
  <2>1. SUFFICES ASSUME raised = 0, Blocking PROVE OneInv'
    BY <1>2, <1>3 DEF OneInv, Blocking, Calling
  <2>2. phase[cur] = "active" => phase'[cur] = "active"
    OBVIOUS
  <2>3. pc' \in {"getsvc", "parked"} /\ Calling'
    BY <1>2, <1>3, <2>1 DEF Calling
  <2>4. "onboarded" \in post'[cur] => phase'[cur] = "active" /\ \A i \in 1..Len(queue') : ~Ends(i)'
    BY <1>3, <1>4, <2>1, <2>2 DEF OneInv
  <2>5. \A i \in 1..Len(queue') : Ends(i)' => phase'[cur] = "active" /\ \A j \in 1..Len(queue') : Ends(j)' => i = j
    BY <1>3, <1>4, <2>1, <2>2 DEF OneInv
  <2>6. pc' = "getsvc" => phase'[cur] = "active" /\ "onboarded" \notin post'[cur] /\ \A i \in 1..Len(queue') : ~Ends(i)'
    BY <1>3, <1>4, <2>1, <2>2 DEF OneInv
  <2>7. QED
    BY <1>3, <2>1, <2>3, <2>4, <2>5, <2>6 DEF OneInv, Blocking
<1>6. CleanInv'
  <2>1. SUFFICES ASSUME Blocking, raised = 1 PROVE CleanInv'
    BY <1>3 DEF CleanInv, Blocking
  <2>2. op = "delete"
    BY <1>3, <2>1 DEF TypeOK
  <2>3. InDelete
    BY <2>1, <2>2 DEF CleanInv
  <2>4. phase[cur] = "unlinking" => \A i \in 1..Len(queue) : ~Ends(i)
    BY <2>3 DEF InDelete
  <2>5. pc' = "script" => phase[cur] = "deleted"
    BY <1>4, <2>3 DEF InDelete
  <2>6. pc' # "api" /\ (~Calling' => pc' = "script")
    BY <1>2 DEF Calling
  <2>7. phase'[cur] = phase[cur] \/ (phase[cur] = "unlinking" /\ phase'[cur] = "deleting")
    BY <2>3 DEF InDelete
  <2>8. Only'
    BY <2>3 DEF InDelete, Only
  <2>9. InDelete'
    BY <1>3, <1>4, <2>3, <2>4, <2>5, <2>6, <2>7, <2>8 DEF InDelete
  <2>10. QED
    BY <2>2, <2>9 DEF CleanInv
<1>7. QED
  BY <1>5, <1>6

LEMMA CleanNext == ASSUME BaseInv, HereInv, OneInv, CleanInv, [Next]_vars PROVE OneInv' /\ CleanInv'
<1> USE DEF BaseInv
<1>1. ASSUME NEW s \in Service, NEW k \in Kind, Progress(s, k) PROVE OneInv' /\ CleanInv'
  <2>1. PluginFrame /\ phase' = phase /\ Posts(s, k) /\ k \notin Complete /\ phase[s] # "none"
    BY <1>1 DEF Progress, PluginFrame, Complete
  <2>2. QED
    BY <2>1, PostFacts, PluginClean
<1>2. ASSUME NEW s \in Service, Onboarded(s) PROVE OneInv' /\ CleanInv'
  <2>1. PluginFrame /\ Moves(s, "active") /\ Posts(s, "onboarded") /\ phase[s] = "deploying" /\ "active" \in Phase /\ "onboarded" \in Kind
    BY <1>2 DEF Onboarded, PluginFrame, Phase, Kind
  <2>2. phase'[s] = "active" /\ \A t \in Service \ {s} : phase'[t] = phase[t] /\ post'[t] = post[t]
    BY <2>1, MoveFacts, PostFacts
  <2>3. UNCHANGED <<queue, file, pc, op, cur, block, todo, raised>>
    BY <2>1 DEF PluginFrame, callVars, runVars
  <2>4. OneInv'
    <3>1. SUFFICES ASSUME raised = 0, Blocking PROVE OneInv'
      BY <2>3 DEF OneInv, Blocking, Calling
    <3>2. Calling /\ s = cur
      BY <2>1, <3>1 DEF OneInv
    <3>3. \A i \in 1..Len(queue) : ~Ends(i)
      BY <2>1, <3>1, <3>2 DEF OneInv
    <3>4. pc # "getsvc"
      BY <2>1, <3>1, <3>2 DEF OneInv
    <3>5. QED
      BY <2>2, <2>3, <3>1, <3>2, <3>3, <3>4 DEF OneInv, Blocking, Calling, Ends
  <2>5. CleanInv'
    <3>1. SUFFICES ASSUME Blocking, raised = 1 PROVE CleanInv'
      BY <2>3 DEF CleanInv, Blocking
    <3>2. ~(op = "create" /\ todo # {}) /\ op # "delete"
      BY <2>1, <3>1 DEF CleanInv, BeforeDelete, InDelete, Only
    <3>3. QED
      BY <2>3, <3>2 DEF CleanInv
  <2>6. QED
    BY <2>4, <2>5
<1>3. ASSUME NEW s \in Service, Fails(s) PROVE OneInv' /\ CleanInv'
  <2>1. PluginFrame /\ Moves(s, "failed") /\ phase[s] = "deploying" /\ "failed" \in Phase /\ "error" \in Kind /\ "error" \notin Complete
    BY <1>3 DEF Fails, PluginFrame, Phase, Kind, Complete
  <2>2. phase'[s] = "failed" /\ \A t \in Service \ {s} : phase'[t] = phase[t]
    BY <2>1, MoveFacts
  <2>3. CASE Posts(s, "error")
    BY <2>1, <2>2, <2>3, PostFacts, PluginClean
  <2>4. CASE UNCHANGED <<post, lost>>
    BY <2>1, <2>2, <2>4, PluginClean
  <2>5. QED
    BY <1>3, <2>3, <2>4 DEF Fails
<1>4. ASSUME NEW s \in Service, Offboarded(s) PROVE OneInv' /\ CleanInv'
  <2>1. PluginFrame /\ phase[s] = "deleting" /\ {"deleted", "stuck"} \subseteq Phase /\ "offboarded" \in Kind
    BY <1>4 DEF Offboarded, PluginFrame, Phase, Kind
  <2>2. UNCHANGED <<queue, file, pc, op, cur, block, todo, raised>>
    BY <2>1 DEF PluginFrame, callVars, runVars
  <2>3. \/ phase'[s] = "deleted" /\ post[s] \subseteq post'[s] /\ post'[s] \subseteq post[s] \cup {"offboarded"}
        \/ phase'[s] = "stuck" /\ post'[s] = post[s]
    BY <1>4, <2>1, MoveFacts, PostFacts DEF Offboarded
  <2>4. \A t \in Service \ {s} : phase'[t] = phase[t] /\ post'[t] = post[t]
    BY <1>4, <2>1, MoveFacts, PostFacts DEF Offboarded
  <2>5. OneInv'
    BY <2>1, <2>2 DEF OneInv, HereInv
  <2>6. CleanInv'
    <3>1. SUFFICES ASSUME Blocking, raised = 1 PROVE CleanInv'
      BY <2>2 DEF CleanInv, Blocking
    <3>2. ~(op = "create" /\ todo # {})
      BY <2>1, <3>1 DEF CleanInv, BeforeDelete, Only
    <3>3. CASE op = "delete"
      <4>1. InDelete /\ s = cur
        BY <2>1, <3>1, <3>3 DEF CleanInv, InDelete, Only
      <4>2. pc # "api" /\ Calling /\ \A i \in 1..Len(queue) : ~Ends(i)
        BY <2>1, <4>1 DEF InDelete
      <4>3. Only' /\ Calling' /\ cur' = cur /\ pc' # "api" /\ \A i \in 1..Len(queue') : ~Ends(i)'
        BY <2>2, <2>4, <4>1, <4>2 DEF InDelete, Only, Calling, Ends
      <4>4. phase'[cur] \in {"deleted", "stuck"} /\ "onboarded" \notin post'[cur] /\ ("offboarded" \in post'[cur] => phase'[cur] = "deleted")
        BY <2>1, <2>3, <4>1 DEF InDelete, Complete
      <4>5. InDelete'
        BY <2>2, <4>1, <4>3, <4>4 DEF InDelete
      <4>6. QED
        BY <2>2, <3>3, <4>5 DEF CleanInv
    <3>4. CASE op # "delete"
      BY <2>2, <3>2, <3>4 DEF CleanInv
    <3>5. QED
      BY <3>3, <3>4
  <2>7. QED
    BY <2>5, <2>6
<1>5. ASSUME NEW s \in Service, NEW k \in Kind, Insert(s, k) PROVE OneInv' /\ CleanInv'
  <2>1. UNCHANGED <<phase, lost, op, cur, block, todo, raised>> /\ (pc' = pc \/ (pc = "parked" /\ pc' = "woken")) /\ k \in post[s]
    BY <1>5 DEF Insert, callVars, runVars
  <2>2. post' = [post EXCEPT ![s] = @ \ {k}]
    BY <1>5 DEF Insert
  <2>3. \A t \in Service : post'[t] = IF t = s THEN post[s] \ {k} ELSE post[t]
    BY <2>2 DEF TypeOK
  <2>4. Calling' = Calling /\ (pc' = "api" <=> pc = "api") /\ (pc' = "getsvc" <=> pc = "getsvc") /\ (pc' = "script" <=> pc = "script")
    BY <2>1 DEF Calling
  <2>5. \A i \in 1..Len(queue') : Ends(i)' => (i \in 1..Len(queue) /\ Ends(i)) \/ (i = Len(queue) + 1 /\ k \in Complete)
    BY <1>5, InsertFacts DEF Ends
  <2>6. OneInv'
    <3>1. SUFFICES ASSUME raised = 0, Blocking PROVE OneInv'
      BY <2>1, <2>4 DEF OneInv, Blocking
    <3>2. s = cur /\ Calling
      BY <2>1, <3>1 DEF HereInv, OneInv
    <3>3. k \in Complete => k = "onboarded"
      BY <2>1, <3>1 DEF HereInv, Complete
    <3>4. CASE k \in Complete
      <4>1. phase[cur] = "active" /\ (\A i \in 1..Len(queue) : ~Ends(i)) /\ pc # "getsvc"
        BY <2>1, <3>1, <3>2, <3>3, <3>4 DEF OneInv
      <4>2. \A i \in 1..Len(queue') : Ends(i)' => i = Len(queue) + 1
        BY <2>5, <4>1
      <4>3. "onboarded" \notin post'[cur]
        BY <2>3, <3>2, <3>3, <3>4
      <4>4. QED
        BY <2>1, <2>4, <3>1, <3>2, <4>1, <4>2, <4>3 DEF OneInv
    <3>5. CASE k \notin Complete
      <4>1. \A i \in 1..Len(queue') : Ends(i)' => i \in 1..Len(queue) /\ Ends(i)
        BY <2>5, <3>5
      <4>2. "onboarded" \in post'[cur] => "onboarded" \in post[cur]
        BY <2>3, <3>2
      <4>3. QED
        BY <2>1, <2>4, <3>1, <3>2, <4>1, <4>2 DEF OneInv
    <3>6. QED
      BY <3>4, <3>5
  <2>7. CleanInv'
    <3>1. SUFFICES ASSUME Blocking, raised = 1 PROVE CleanInv'
      BY <2>1 DEF CleanInv, Blocking
    <3>2. CASE op = "create" /\ todo # {}
      <4>1. BeforeDelete /\ s = cur
        BY <2>1, <3>1, <3>2 DEF CleanInv, BeforeDelete, Only
      <4>2. k \notin Complete
        BY <2>1, <4>1 DEF BeforeDelete
      <4>3. BeforeDelete'
        BY <2>1, <2>3, <2>4, <2>5, <4>1, <4>2 DEF BeforeDelete, Only
      <4>4. QED
        BY <2>1, <3>2, <4>3 DEF CleanInv
    <3>3. CASE op = "delete"
      <4>1. InDelete /\ s = cur
        BY <2>1, <3>1, <3>3 DEF CleanInv, InDelete, Only
      <4>2. k \in Complete => phase[cur] = "deleted"
        BY <2>1, <4>1 DEF InDelete, Complete
      <4>3. InDelete'
        BY <2>1, <2>3, <2>4, <2>5, <4>1, <4>2 DEF InDelete, Only
      <4>4. QED
        BY <2>1, <3>3, <4>3 DEF CleanInv
    <3>4. CASE op # "delete" /\ ~(op = "create" /\ todo # {})
      BY <2>1, <3>4 DEF CleanInv
    <3>5. QED
      BY <3>2, <3>3, <3>4
  <2>8. QED
    BY <2>6, <2>7
<1>6. CASE Freeze
  <2>1. UNCHANGED <<phase, post, queue, pc, op, cur, block, todo, raised>>
    BY <1>6 DEF Freeze, plVars, callVars, runVars
  <2>2. QED
    BY <2>1 DEF OneInv, CleanInv, BeforeDelete, InDelete, Only, Ends, Calling, Blocking
<1>7. ASSUME NEW s \in Service, NEW b \in Blocks, CreateService(s, b) PROVE OneInv' /\ CleanInv'
  <2>1. pc = "script" /\ stage = "run" /\ raised = 0 /\ phase[s] = "none"
    BY <1>7 DEF CreateService, CallInv, TypeOK
  <2>2. CASE queue # <<>>
    BY <1>7, <2>2, RaiseClean DEF CreateService
  <2>3. CASE queue = <<>>
    <3>1. /\ pc' = "api" /\ op' = "create" /\ cur' = s /\ block' = b /\ Moves(s, "launching") /\ Posts(s, "launch") /\ UNCHANGED <<queue, runVars>>
          /\ "launching" \in Phase /\ "launch" \in Kind
      BY <1>7, <2>3 DEF CreateService, Calls, Phase, Kind
    <3>2. phase'[s] = "launching" /\ (\A t \in Service \ {s} : phase'[t] = phase[t]) /\ post'[s] \subseteq post[s] \cup {"launch"}
      BY <3>1, MoveFacts, PostFacts
    <3>3. raised' = 0 /\ Len(queue') = 0
      BY <2>1, <2>3, <3>1 DEF runVars
    <3>4. post[s] = {}
      BY <2>1 DEF HereInv
    <3>5. OneInv'
      <4>1. SUFFICES ASSUME Blocking PROVE OneInv'
        BY <3>1, <3>3 DEF OneInv, Blocking
      <4>2. b = TRUE /\ \A t \in Service : phase[t] = "none"
        BY <2>1, <4>1 DEF OneInv, Calling, Blocking
      <4>3. QED
        BY <3>1, <3>2, <3>3, <3>4, <4>2 DEF OneInv, Calling
    <3>6. QED
      BY <3>3, <3>5 DEF CleanInv
  <2>4. QED
    BY <2>2, <2>3
<1>8. ASSUME NEW s \in Service, DeleteService(s) PROVE OneInv' /\ CleanInv'
  <2>1. /\ UNCHANGED <<queue, raised>> /\ pc = "script" /\ s \in todo /\ todo' = todo \ {s}
        /\ pc' = "api" /\ op' = "delete" /\ cur' = s /\ block' = TRUE /\ Moves(s, "unlinking") /\ Posts(s, "info")
        /\ "unlinking" \in Phase /\ "info" \in Kind
    BY <1>8 DEF DeleteService, Calls, Phase, Kind
  <2>2. raised # 0
    BY <2>1 DEF CallInv
  <2>3. OneInv'
    BY <2>1, <2>2 DEF OneInv
  <2>4. SUFFICES ASSUME Blocking, raised = 1 PROVE CleanInv'
    BY <2>1, <2>3 DEF CleanInv, Blocking
  <2>5. op = "create" /\ BeforeDelete
    BY <2>1, <2>4 DEF CleanInv, InDelete, TypeOK
  <2>6. s = cur /\ todo' = {}
    BY <2>1, <2>5 DEF BeforeDelete
  <2>7. phase'[s] = "unlinking" /\ \A t \in Service \ {s} : phase'[t] = phase[t] /\ post'[t] = post[t]
    BY <2>1, MoveFacts, PostFacts
  <2>8. post'[s] \subseteq post[s] \cup {"info"}
    BY <2>1, PostFacts
  <2>9. post'[s] \cap Complete = {}
    BY <2>5, <2>6, <2>8 DEF BeforeDelete, Complete
  <2>10. InDelete'
    BY <2>1, <2>5, <2>6, <2>7, <2>9 DEF BeforeDelete, InDelete, Only, Ends, Calling, Complete
  <2>11. QED
    BY <2>1, <2>10 DEF CleanInv
<1>9. CASE ApiReturns
  <2>1. cur \in Service /\ pc = "api" /\ post' = post /\ UNCHANGED <<op, cur, block>> /\ Moves(cur, Deployed(cur)) /\ Deployed(cur) \in Phase /\ Calling
    BY <1>9 DEF ApiReturns, CallInv, Calling, Deployed, Phase
  <2>2. phase'[cur] = Deployed(cur) /\ \A t \in Service \ {cur} : phase'[t] = phase[t]
    BY <2>1, MoveFacts
  <2>3. CASE ~block
    <3>1. pc' = "script" /\ UNCHANGED <<queue, runVars>>
      BY <1>9, <2>3 DEF ApiReturns, Returns
    <3>2. Blocking => raised # 0 /\ ~(raised = 1 /\ op = "delete") /\ ~(raised = 1 /\ op = "create")
      BY <2>1, <2>3 DEF OneInv, CleanInv, InDelete, CallInv
    <3>3. QED
      BY <2>1, <3>1, <3>2 DEF OneInv, CleanInv, Blocking, TypeOK, runVars
  <2>4. CASE block /\ Blocking /\ raised \in {0, 1}
    <3>1. PopNewest /\ Look(levels + 1, 0)
      BY <1>9, <2>4 DEF ApiReturns
    <3>2. phase[cur] \in {"launching", "unlinking"}
      BY <2>1, <2>4 DEF HereInv, CleanInv, InDelete, CallInv, TypeOK
    <3>3. QED
      BY <2>1, <2>2, <2>4, <3>1, <3>2, LookClean DEF Deployed
  <2>5. CASE block /\ ~(Blocking /\ raised \in {0, 1})
    <3>1. Look(levels + 1, 0)
      BY <1>9, <2>5 DEF ApiReturns
    <3>2. CASE Raises(nsInfo, 1)
      BY <2>1, <3>2, RaiseClean
    <3>3. CASE UNCHANGED runVars
      BY <2>1, <2>5, <3>3 DEF OneInv, CleanInv, Blocking, runVars
    <3>4. QED
      BY <3>1, <3>2, <3>3, LookFacts
  <2>6. QED
    BY <2>3, <2>4, <2>5
<1>10. CASE ApiFails
  BY <1>10, RaiseClean DEF ApiFails, callVars
<1>11. CASE Wake
  <2>1. cur \in Service /\ pc = "woken" /\ UNCHANGED <<plVars, op, cur, block>> /\ PopNewest /\ Look(levels, loops) /\ Calling
    BY <1>11 DEF Wake, CallInv, Calling
  <2>2. CASE Blocking /\ raised \in {0, 1}
    <3>1. block
      BY <2>1, <2>2 DEF OneInv, CleanInv, InDelete, CallInv, TypeOK
    <3>2. QED
      BY <2>1, <3>1, LookClean DEF plVars
  <2>3. CASE ~(Blocking /\ raised \in {0, 1})
    <3>1. CASE Raises(nsInfo, 1)
      BY <2>1, <3>1, RaiseClean
    <3>2. CASE UNCHANGED runVars
      BY <2>1, <2>3, <3>2 DEF OneInv, CleanInv, Blocking, runVars
    <3>3. QED
      BY <2>1, <3>1, <3>2, LookFacts
  <2>4. QED
    BY <2>2, <2>3
<1>12. CASE GetSvcObj
  <2>1. PICK known \in Known : Raises(known, 1)
    BY <1>12 DEF GetSvcObj
  <2>2. known \in SUBSET Service /\ pc = "getsvc" /\ UNCHANGED <<plVars, queue, callVars>> /\ cur \in Service /\ raised = 0 /\ nsInfo = {} /\ stage # "again"
    BY <1>12, <2>1 DEF GetSvcObj, Known, TypeOK, CallInv, Calling
  <2>3. raised' = 1 /\ todo' = known /\ known \subseteq {cur} /\ pc' = "script"
    BY <2>1, <2>2, RaiseFacts DEF Known
  <2>4. op = "create" /\ op' = "create"
    BY <2>2 DEF CallInv, callVars
  <2>5. ASSUME Blocking PROVE BeforeDelete'
    <3>1. Only
      BY <2>2, <2>5 DEF OneInv, HereInv, Only, Calling
    <3>2. phase[cur] = "active" /\ post[cur] \cap Complete = {} /\ \A i \in 1..Len(queue) : ~Ends(i)
      BY <2>2, <2>5 DEF OneInv, HereInv, Calling, Complete
    <3>3. QED
      BY <2>2, <2>3, <3>1, <3>2 DEF BeforeDelete, Only, Ends, plVars, callVars
  <2>6. OneInv'
    BY <2>3 DEF OneInv
  <2>7. CleanInv'
    BY <2>3, <2>4, <2>5 DEF CleanInv, Blocking
  <2>8. QED
    BY <2>6, <2>7
<1>13. CASE ScriptEnds
  <2>1. CASE Raises(nsInfo, 0)
    BY <1>13, <2>1, RaiseClean DEF ScriptEnds, callVars
  <2>2. CASE stage' = "cleanup" /\ todo' = nsInfo /\ UNCHANGED <<pc, raised, orphans>>
    <3>1. UNCHANGED <<phase, post, queue, op, cur, block, pc, raised>> /\ raised = 0
      BY <1>13, <2>2 DEF ScriptEnds, plVars, callVars, CallInv, TypeOK
    <3>2. OneInv'
      BY <3>1 DEF OneInv, Ends, Calling, Blocking
    <3>3. CleanInv'
      BY <3>1 DEF CleanInv
    <3>4. QED
      BY <3>2, <3>3
  <2>3. QED
    BY <1>13, <2>1, <2>2 DEF ScriptEnds
<1>14. CASE DeleteTemplate
  <2>1. UNCHANGED <<phase, post, op, cur, block, todo, raised>> /\ pc = "script" /\ pc' = "end" /\ todo = {} /\ PopNewest
    BY <1>14 DEF DeleteTemplate, plVars, callVars, runVars
  <2>2. \A i \in 1..Len(queue') : Ends(i)' => i \in 1..Len(queue) /\ Ends(i)
    BY <2>1, PopFacts DEF Ends
  <2>3. ~Calling /\ ~Calling'
    BY <2>1 DEF Calling
  <2>4. OneInv'
    BY <2>1, <2>3 DEF OneInv, Blocking
  <2>5. InDelete => InDelete'
    BY <2>1, <2>2, <2>3 DEF InDelete, Only
  <2>6. CleanInv'
    BY <2>1, <2>5 DEF CleanInv, Blocking
  <2>7. QED
    BY <2>4, <2>6
<1>15. CASE UNCHANGED vars
  <2>1. UNCHANGED <<phase, post, queue, pc, op, cur, block, todo, raised>>
    BY <1>15 DEF vars, plVars, callVars, runVars
  <2>2. QED
    BY <2>1 DEF OneInv, CleanInv, BeforeDelete, InDelete, Only, Ends, Calling, Blocking
<1>16. QED
  BY <1>1, <1>2, <1>3, <1>4, <1>5, <1>6, <1>7, <1>8, <1>9, <1>10, <1>11, <1>12, <1>13, <1>14, <1>15 DEF Next, Plugin, Core

LEMMA CleanAlways == Spec => [](OwnInv /\ OneInv /\ CleanInv)
<1>1. Init => OwnInv /\ OneInv /\ CleanInv
  BY OwnInit, CleanInit
<1>2. OwnInv /\ OneInv /\ CleanInv /\ [Next]_vars => (OwnInv /\ OneInv /\ CleanInv)'
  BY BaseNext, OwnNext, CleanNext DEF OwnInv
<1>3. QED
  BY <1>1, <1>2, PTL DEF Spec

\* A blocking script whose cleanup deletes and is not left by an exception itself
\* leaves no service behind, whatever was lost and whoever updates meanwhile.
THEOREM NothingLeft == Spec => []CleanRun
<1>1. OneInv /\ CleanInv => CleanRun
  BY DEF CleanInv, InDelete, Only, CleanRun, Blocking, Calling
<1>2. QED
  BY <1>1, CleanAlways, PTL

-----------------------------------------------------------------------------
(* Wake-ups.                                                               *)

\* A completion is the last event of its creation; it is on top of the queue, with
\* the core woken, until the core looks.
BuriedInv ==
  Blocking /\ ~Updating /\ raised = 0 /\ Calling =>
    /\ phase[cur] = "active" => post[cur] \subseteq {"onboarded"}
    /\ \A i \in 1..Len(queue) : Ends(i) => pc = "woken" /\ i = Len(queue)

\* A step after which the service is not on board, or no completion is left.
LEMMA BuriedQuiet ==
  ASSUME (phase'[cur'] = "active" => post'[cur'] \subseteq {"onboarded"}), \A i \in 1..Len(queue') : ~Ends(i)'
  PROVE  BuriedInv'
BY DEF BuriedInv

LEMMA BuriedNext == ASSUME BaseInv, HereInv, OneInv, BuriedInv, [Next]_vars PROVE BuriedInv'
<1> USE DEF BaseInv
<1>1. SUFFICES ASSUME Blocking, ~Updating, raised' = 0, Calling' PROVE BuriedInv'
  BY DEF BuriedInv, Blocking
<1>2. ASSUME NEW held \in {0, 1}, NEW known \in SUBSET Service, Raises(known, held) PROVE FALSE
  BY <1>1, <1>2, RaiseFacts DEF TypeOK
<1>3. ASSUME raised = 0, Calling, NEW i \in 1..Len(queue), Ends(i) PROVE phase[cur] = "active"
  BY <1>1, <1>3 DEF OneInv
\* A step of the plugin is one of the only service, which is not on board.
<1>4. ASSUME NEW s \in Service, phase[s] \notin {"none", "active"}, PluginFrame
      PROVE  s = cur /\ cur' = cur /\ (\A i \in 1..Len(queue') : ~Ends(i)') /\ raised = 0 /\ Calling
  <2>1. UNCHANGED <<queue, pc, cur, raised>>
    BY <1>4 DEF PluginFrame, callVars, runVars
  <2>2. raised = 0 /\ Calling
    BY <1>1, <2>1 DEF Calling
  <2>3. s = cur
    BY <1>1, <1>4, <2>2 DEF OneInv
  <2>4. QED
    BY <1>3, <1>4, <2>1, <2>2, <2>3 DEF Ends
<1>5. ASSUME NEW s \in Service, NEW k \in Kind, Progress(s, k) PROVE BuriedInv'
  <2>1. PluginFrame /\ phase' = phase /\ phase[s] \notin {"none", "active"}
    BY <1>1, <1>5 DEF Progress, PluginFrame
  <2>2. QED
    BY <1>4, <2>1, BuriedQuiet
<1>6. ASSUME NEW s \in Service, Onboarded(s) PROVE BuriedInv'
  <2>1. PluginFrame /\ phase[s] = "deploying" /\ post[s] = {} /\ Posts(s, "onboarded") /\ "onboarded" \in Kind
    BY <1>1, <1>6 DEF Onboarded, PluginFrame, Kind
  <2>2. post'[s] \subseteq {"onboarded"}
    BY <2>1, PostFacts
  <2>3. QED
    BY <1>4, <2>1, <2>2, BuriedQuiet
<1>7. ASSUME NEW s \in Service, Fails(s) PROVE BuriedInv'
  <2>1. PluginFrame /\ phase[s] = "deploying" /\ Moves(s, "failed") /\ "failed" \in Phase
    BY <1>7 DEF Fails, PluginFrame, Phase
  <2>2. phase'[s] # "active"
    BY <2>1, MoveFacts
  <2>3. QED
    BY <1>4, <2>1, <2>2, BuriedQuiet
<1>8. ASSUME NEW s \in Service, Offboarded(s) PROVE BuriedInv'
  <2>1. PluginFrame /\ phase[s] = "deleting"
    BY <1>8 DEF Offboarded, PluginFrame
  <2>2. QED
    BY <1>4, <2>1 DEF HereInv
<1>9. ASSUME NEW s \in Service, NEW k \in Kind, Insert(s, k) PROVE BuriedInv'
  <2>1. UNCHANGED <<phase, cur, raised>> /\ pc' = (IF pc = "parked" THEN "woken" ELSE pc) /\ k \in post[s]
    BY <1>9 DEF Insert, callVars, runVars
  <2>2. raised = 0 /\ Calling
    BY <1>1, <2>1 DEF Calling
  <2>3. s = cur
    BY <1>1, <2>1, <2>2 DEF OneInv, HereInv
  <2>4. post'[cur] = post[cur] \ {k}
    BY <1>9, <2>3 DEF Insert, TypeOK
  <2>5. \A i \in 1..Len(queue') : Ends(i)' => (i \in 1..Len(queue) /\ Ends(i)) \/ (i = Len(queue) + 1 /\ k \in Complete)
    BY <1>9, InsertFacts DEF Ends
  <2>6. CASE k = "onboarded"
    <3>1. phase[cur] = "active" /\ (\A i \in 1..Len(queue) : ~Ends(i)) /\ pc # "getsvc"
      BY <1>1, <2>1, <2>2, <2>3, <2>6 DEF OneInv
    <3>2. pc' = "woken"
      BY <2>1, <2>2, <3>1 DEF HereInv, Calling
    <3>3. Len(queue') = Len(queue) + 1
      BY <1>9, InsertFacts
    <3>4. phase'[cur'] = "active" => post'[cur'] \subseteq {"onboarded"}
      BY <1>1, <2>1, <2>2, <2>4, <3>1 DEF BuriedInv
    <3>5. QED
      BY <2>5, <3>1, <3>2, <3>3, <3>4 DEF BuriedInv
  <2>7. CASE k # "onboarded"
    <3>1. phase[cur] # "active"
      BY <1>1, <2>1, <2>2, <2>3, <2>7 DEF BuriedInv
    <3>2. k \notin Complete
      BY <2>1, <2>2, <2>7 DEF HereInv, Complete
    <3>3. QED
      BY <1>3, <2>1, <2>2, <2>5, <3>1, <3>2, BuriedQuiet
  <2>8. QED
    BY <2>6, <2>7
<1>10. CASE Freeze \/ UNCHANGED vars
  <2>1. UNCHANGED <<phase, post, queue, pc, cur, raised>>
    BY <1>10 DEF Freeze, vars, plVars, callVars, runVars
  <2>2. QED
    BY <2>1 DEF BuriedInv, Ends, Calling, Blocking
<1>11. ASSUME NEW s \in Service, NEW b \in Blocks, CreateService(s, b) PROVE BuriedInv'
  <2>1. nsInfo \in SUBSET Service
    BY DEF TypeOK
  <2>2. queue' = <<>> /\ cur' = s /\ Moves(s, "launching") /\ "launching" \in Phase
    BY <1>2, <1>11, <2>1 DEF CreateService, Calls, Phase
  <2>3. phase'[cur'] = "launching" /\ Len(queue') = 0
    BY <2>2, MoveFacts
  <2>4. QED
    BY <2>3, BuriedQuiet
<1>12. ASSUME NEW s \in Service, DeleteService(s) PROVE BuriedInv'
  BY <1>1, <1>12 DEF DeleteService, CallInv
<1>13. CASE ApiReturns
  <2>1. cur \in Service /\ pc = "api" /\ cur' = cur /\ Moves(cur, Deployed(cur)) /\ Calling
    BY <1>13 DEF ApiReturns, CallInv, Calling
  <2>2. raised = 0
    <3>1. CASE block
      BY <1>1, <1>2, <1>13, <3>1, LookFacts DEF ApiReturns, runVars, TypeOK
    <3>2. CASE ~block
      BY <1>1, <1>13, <3>2 DEF ApiReturns, Returns, runVars
    <3>3. QED
      BY <3>1, <3>2
  <2>3. phase[cur] = "launching" /\ block
    BY <1>1, <2>1, <2>2 DEF HereInv, OneInv
  <2>4. phase'[cur] = "deploying"
    BY <2>1, <2>3, MoveFacts DEF Deployed, Phase
  <2>5. \A i \in 1..Len(queue') : Ends(i)' => i \in 1..Len(queue) /\ Ends(i)
    BY <1>13, <2>3, PopFacts DEF ApiReturns, Ends
  <2>6. QED
    BY <1>3, <2>1, <2>2, <2>3, <2>4, <2>5, BuriedQuiet
<1>14. CASE Wake
  <2>1. pc = "woken" /\ UNCHANGED <<phase, post, cur>> /\ PopNewest /\ Look(levels, loops) /\ Calling
    BY <1>14 DEF Wake, plVars, Calling
  <2>2. raised = 0
    BY <1>1, <1>2, <2>1, LookFacts DEF runVars, TypeOK
  <2>3. \A i \in 1..Len(queue') : ~Ends(i)'
    BY <1>1, <2>1, <2>2, PopFacts DEF BuriedInv, Ends
  <2>4. QED
    BY <1>1, <2>1, <2>2, <2>3, BuriedQuiet DEF BuriedInv
<1>15. CASE ApiFails \/ GetSvcObj
  <2>1. \E known \in SUBSET Service, held \in {0, 1} : Raises(known, held)
    <3>1. CASE ApiFails
      BY <3>1 DEF ApiFails, TypeOK
    <3>2. CASE GetSvcObj
      <4>1. PICK known \in Known : Raises(known, 1)
        BY <3>2 DEF GetSvcObj
      <4>2. known \in SUBSET Service
        BY <3>2 DEF GetSvcObj, Known, TypeOK, CallInv, Calling
      <4>3. QED
        BY <4>1, <4>2
    <3>3. QED
      BY <1>15, <3>1, <3>2
  <2>2. QED
    BY <1>2, <2>1
<1>16. CASE ScriptEnds \/ DeleteTemplate
  <2>1. nsInfo \in SUBSET Service
    BY DEF TypeOK
  <2>2. QED
    BY <1>1, <1>2, <1>16, <2>1 DEF ScriptEnds, DeleteTemplate, Calling
<1>17. QED
  BY <1>5, <1>6, <1>7, <1>8, <1>9, <1>10, <1>11, <1>12, <1>13, <1>14, <1>15, <1>16 DEF Next, Plugin, Core

\* A script that blocks in each call loses no wake-up before something raises, for
\* any services and whatever events are lost.
THEOREM NoWakeUpLost == Spec => []NothingBuried
<1>1. Init => BuriedInv
  BY DEF Init, BuriedInv, Calling
<1>2. BuriedInv => NothingBuried
  BY DEF BuriedInv, NothingBuried, Blocking, Calling, Ends
<1>3. (OwnInv /\ OneInv /\ CleanInv) /\ BuriedInv /\ [Next]_vars => BuriedInv'
  BY BuriedNext DEF OwnInv
<1>4. QED
  BY <1>1, <1>2, <1>3, CleanAlways, PTL DEF Spec

=============================================================================
