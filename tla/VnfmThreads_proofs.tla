------------------------- MODULE VnfmThreads_proofs -------------------------
(***************************************************************************)
(* Proofs about VnfmThreads.                                               *)
(***************************************************************************)
EXTENDS VnfmThreads, TLAPS

USE DEF jobVars, monVars

-----------------------------------------------------------------------------
(* Type correctness *)

\* The monitor looks through the dict with the lock, so that the entry it acks
\* is there until it deletes it.
LockInv ==
  /\ monitor \in {"scan", "acking"} => lock = "monitor"
  /\ monitor = "acking" => current \in Id /\ info[current].result # "no"

\* The initial state is well typed.
LEMMA TypeInit == Init => TypeOK /\ LockInv
<1> SUFFICES ASSUME Init PROVE TypeOK /\ LockInv
  OBVIOUS
<1>1. info \in [Id -> Entry] /\ acks \in [Job -> [Status -> Nat]]
  BY DEF Init, Entry
<1>2. QED
  BY <1>1 DEF Init, TypeOK, LockInv

\* An entry with a result has a job.
LEMMA EntryJob ==
  ASSUME TypeOK, NEW i \in Id, info[i].result # "no"
  PROVE  info[i].job \in Job /\ info[i].result \in Result
BY DEF TypeOK, Entry, Absent

\* Every step keeps the state well typed.
LEMMA TypeStep == TypeOK /\ LockInv /\ [Next]_vars => TypeOK' /\ LockInv'
<1> SUFFICES ASSUME TypeOK, LockInv, [Next]_vars PROVE TypeOK' /\ LockInv'
  OBVIOUS
<1> USE JobAssumption DEF TypeOK, LockInv, Status
<1>1. ASSUME NEW j \in Job, CheckComplete(j) PROVE (TypeOK' /\ LockInv')
  BY <1>1 DEF CheckComplete
<1>2. ASSUME NEW j \in Job, AckDriverless(j) PROVE (TypeOK' /\ LockInv')
  BY <1>2 DEF AckDriverless, Acked
<1>3. ASSUME NEW j \in Job, CompleteDriverless(j) PROVE (TypeOK' /\ LockInv')
  BY <1>3 DEF CompleteDriverless
<1>4. ASSUME NEW j \in Job, AckUnaddressed(j) PROVE (TypeOK' /\ LockInv')
  BY <1>4 DEF AckUnaddressed, Acked
<1>5. ASSUME NEW j \in Job, NEW i \in Id, InvokeDriverThread(j, i) PROVE (TypeOK' /\ LockInv')
  BY <1>5 DEF InvokeDriverThread, Entry
<1>6. ASSUME NEW j \in Job, NEW r \in Result, ConfigureService(j, r) PROVE (TypeOK' /\ LockInv')
  BY <1>6 DEF ConfigureService
<1>7. ASSUME NEW j \in Job, Run(j) PROVE (TypeOK' /\ LockInv')
  BY <1>7 DEF Run, Entry, Absent, Result
<1>8. ASSUME NEW j \in Job, RunRaises(j) PROVE (TypeOK' /\ LockInv')
  BY <1>8 DEF RunRaises
<1>9. CASE MonitorStart
  BY <1>9 DEF MonitorStart
<1>10. CASE MonitorAcquire
  BY <1>10 DEF MonitorAcquire
<1>11. ASSUME NEW i \in Id, MonitorAck(i) PROVE (TypeOK' /\ LockInv')
  <2>1. info[i].job \in Job
    BY <1>11, EntryJob DEF MonitorAck
  <2>2. StatusOf(info[i].result) \in Status
    BY DEF StatusOf
  <2>3. QED
    BY <1>11, <2>1, <2>2 DEF MonitorAck, Acked
<1>12. CASE MonitorDeletes
  <2>1. current \in Id /\ info[current].job \in Job
    BY <1>12, EntryJob DEF MonitorDeletes
  <2>2. complete' \subseteq Instance
    BY <1>12, <2>1 DEF MonitorDeletes
  <2>3. info' \in [Id -> Entry]
    BY <1>12, <2>1 DEF MonitorDeletes, Entry
  <2>4. QED
    BY <1>12, <2>2, <2>3 DEF MonitorDeletes
<1>13. CASE MonitorWait
  BY <1>13 DEF MonitorWait
<1>14. CASE MonitorWake
  BY <1>14 DEF MonitorWake
<1>15. CASE MonitorRaises
  BY <1>15 DEF MonitorRaises
<1>16. CASE UNCHANGED vars
  BY <1>16 DEF vars
<1>17. ASSUME NEW j \in Job, Handler(j) PROVE (TypeOK' /\ LockInv')
  BY <1>1, <1>2, <1>3, <1>4, <1>5, <1>17 DEF Handler
<1>18. ASSUME NEW j \in Job, Driver(j) PROVE (TypeOK' /\ LockInv')
  BY <1>6, <1>7, <1>8, <1>18 DEF Driver
<1>19. CASE Monitor
  BY <1>9, <1>10, <1>11, <1>12, <1>13, <1>14, <1>19 DEF Monitor
<1>20. QED
  BY <1>15, <1>16, <1>17, <1>18, <1>19 DEF Next

\* TypeOK is an invariant of the manager.
THEOREM TypeCorrect == Spec => []TypeOK
BY TypeInit, TypeStep, PTL DEF Spec

-----------------------------------------------------------------------------
(* Whatever the ids are *)

Unacked(j) == \A s \in Status : acks[j][s] = 0

\* The inductive invariant for ids that may collide: the entry of a job is under
\* its id, and its job is not acked before the monitor comes to it.
ThreadInv ==
  /\ NoResultMissed
  /\ AckedOnce
  /\ \A j \in Job : job[j] \in {"idle", "checked", "skipped"} => Unacked(j)
  /\ \A i \in Id : info[i].job # NoJob =>
       /\ idOf[info[i].job] = i
       /\ job[info[i].job] \in {"running", "unstarted", "returned", "reported"}
  /\ \A i \in Id : info[i].job # NoJob /\ monitor # "dead" /\ ~(monitor = "acking" /\ current = i)
       => Unacked(info[i].job)
  /\ \A j \in Job : job[j] \in {"running", "returned"} => idOf[j] \in Id
  /\ monitor = "dead" => lock = "orphan"

\* An entry is absent or has a job.
LEMMA EntryShape ==
  ASSUME TypeOK, NEW i \in Id
  PROVE  \/ info[i] = Absent /\ info[i].job = NoJob /\ info[i].result = "no"
         \/ info[i].job \in Job /\ info[i].job # NoJob /\ info[i].result \in Result \cup {"no"}
BY JobAssumption DEF TypeOK, Entry, Absent

\* What casting one more ack does.
LEMMA OneMoreAck ==
  ASSUME TypeOK, NEW j \in Job, NEW s \in Status, Unacked(j), AckedOnce, acks' = Acked(j, s)
  PROVE  /\ AckedOnce'
         /\ \A k \in Job \ {j} : Unacked(k) => Unacked(k)'
<1>1. \A k \in Job : acks'[k]["COMPLETE"] = acks[k]["COMPLETE"] + (IF k = j /\ s = "COMPLETE" THEN 1 ELSE 0)
  BY DEF TypeOK, Acked, Status
<1>2. \A k \in Job : acks'[k]["ERROR"] = acks[k]["ERROR"] + (IF k = j /\ s = "ERROR" THEN 1 ELSE 0)
  BY DEF TypeOK, Acked, Status
<1>3. \A k \in Job : acks[k]["COMPLETE"] \in Nat /\ acks[k]["ERROR"] \in Nat
  BY DEF TypeOK, Status
<1>4. acks[j]["COMPLETE"] = 0 /\ acks[j]["ERROR"] = 0
  BY DEF Unacked, Status
<1>5. AckedOnce'
  BY <1>1, <1>2, <1>3, <1>4 DEF AckedOnce
<1>6. \A k \in Job \ {j} : Unacked(k) => Unacked(k)'
  BY <1>1, <1>2, <1>3 DEF Unacked, Status
<1>7. QED
  BY <1>5, <1>6

\* Every step preserves ThreadInv.
LEMMA ThreadStep == TypeOK /\ LockInv /\ ThreadInv /\ [Next]_vars => ThreadInv'
<1> SUFFICES ASSUME TypeOK, LockInv, ThreadInv, [Next]_vars PROVE ThreadInv'
  OBVIOUS
<1>0. \A i \in Id : \/ info[i] = Absent /\ info[i].job = NoJob /\ info[i].result = "no"
                    \/ info[i].job \in Job /\ info[i].job # NoJob
  BY EntryShape
<1> USE JobAssumption DEF TypeOK, LockInv, ThreadInv, NoResultMissed
<1>1. ASSUME NEW j \in Job, CheckComplete(j) PROVE ThreadInv'
  BY <1>1, <1>0 DEF Unacked, AckedOnce, CheckComplete
<1>2. ASSUME NEW j \in Job, AckDriverless(j) PROVE ThreadInv'
  <2>1. AckedOnce' /\ \A k \in Job \ {j} : Unacked(k) => Unacked(k)'
    BY <1>2, OneMoreAck DEF AckDriverless, Status
  <2>2. QED
    BY <1>2, <1>0, <2>1 DEF AckDriverless
<1>3. ASSUME NEW j \in Job, CompleteDriverless(j) PROVE ThreadInv'
  BY <1>3, <1>0 DEF Unacked, AckedOnce, CompleteDriverless
<1>4. ASSUME NEW j \in Job, AckUnaddressed(j) PROVE ThreadInv'
  <2>1. AckedOnce' /\ \A k \in Job \ {j} : Unacked(k) => Unacked(k)'
    BY <1>4, OneMoreAck DEF AckUnaddressed, Status
  <2>2. QED
    BY <1>4, <1>0, <2>1 DEF AckUnaddressed
<1>5. ASSUME NEW j \in Job, NEW i \in Id, InvokeDriverThread(j, i) PROVE ThreadInv'
  <2>1. \A k \in Id \ {i} : info'[k] = info[k]
    BY <1>5 DEF InvokeDriverThread
  <2>2. info'[i].job = j /\ info'[i].result = "no"
    BY <1>5 DEF InvokeDriverThread
  <2>3. \A k \in Id : info[k].job # NoJob => info[k].job # j
    BY <1>5 DEF InvokeDriverThread
  <2>4. idOf'[j] = i /\ job'[j] \in {"running", "unstarted"}
    BY <1>5 DEF InvokeDriverThread
  <2>5. \A k \in Job \ {j} : idOf'[k] = idOf[k] /\ job'[k] = job[k]
    BY <1>5 DEF InvokeDriverThread
  <2>6. Unacked(j) /\ UNCHANGED <<acks, monitor, current, lock, notified>>
    BY <1>5 DEF InvokeDriverThread
  <2>7. monitor # "scan" /\ monitor # "acking"
    BY <1>5 DEF InvokeDriverThread
  <2>8. \A k \in Id : info'[k].job # NoJob =>
          /\ idOf'[info'[k].job] = k
          /\ job'[info'[k].job] \in {"running", "unstarted", "returned", "reported"}
    BY <1>0, <2>1, <2>2, <2>3, <2>4, <2>5
  <2>9. \A k \in Id : info'[k].job # NoJob /\ monitor # "dead" => Unacked(info'[k].job)
    BY <1>0, <2>1, <2>2, <2>6, <2>7
  <2>10. NoResultMissed'
    BY <2>1, <2>2, <2>6
  <2>11. \A k \in Job : job'[k] \in {"idle", "checked", "skipped"} => Unacked(k)
    BY <2>4, <2>5
  <2>12. QED
    BY <2>4, <2>5, <2>6, <2>8, <2>9, <2>10, <2>11 DEF Unacked, AckedOnce
<1>6. ASSUME NEW j \in Job, NEW r \in Result, ConfigureService(j, r) PROVE ThreadInv'
  BY <1>6, <1>0 DEF Unacked, AckedOnce, ConfigureService
<1>7. ASSUME NEW j \in Job, Run(j) PROVE ThreadInv'
  <2>1. idOf[j] \in Id
    BY <1>7 DEF Run, Absent
  <2>2. \A k \in Id : info'[k].job = info[k].job
    BY <1>7 DEF Run
  <2>3. \A k \in Job : job'[k] = job[k] \/ (k = j /\ job'[k] = "reported")
    BY <1>7 DEF Run
  <2>4. UNCHANGED <<acks, monitor, current, lock, idOf>> /\ monitor # "scan" /\ monitor # "acking"
    BY <1>7 DEF Run
  <2>5. monitor = "wait" => notified'
    BY <1>7 DEF Run
  <2>6. NoResultMissed'
    BY <2>4, <2>5
  <2>7. \A k \in Id : info'[k].job # NoJob =>
          /\ idOf'[info'[k].job] = k
          /\ job'[info'[k].job] \in {"running", "unstarted", "returned", "reported"}
    BY <1>0, <2>2, <2>3, <2>4
  <2>8. \A k \in Id : info'[k].job # NoJob /\ monitor # "dead" => Unacked(info[k].job)'
    BY <1>0, <2>2, <2>4 DEF Unacked
  <2>9. \A k \in Job : job'[k] \in {"idle", "checked", "skipped"} => Unacked(k)'
    BY <2>3, <2>4 DEF Unacked
  <2>10. \A k \in Job : job'[k] \in {"running", "returned"} => idOf'[k] \in Id
    BY <2>3, <2>4
  <2>11. AckedOnce' /\ UNCHANGED <<monitor, lock, current>>
    BY <2>4 DEF AckedOnce
  <2>12. monitor' = "dead" => lock' = "orphan"
    BY <2>11
  <2>13. QED
    BY <2>6, <2>7, <2>8, <2>9, <2>10, <2>11, <2>12 DEF Unacked
<1>8. ASSUME NEW j \in Job, RunRaises(j) PROVE ThreadInv'
  <2>1. \A k \in Id : info[k].job # NoJob => info[k].job # j
    BY <1>8 DEF RunRaises, Absent
  <2>2. UNCHANGED <<acks, monitor, current, info, idOf, notified>> /\ lock' = "orphan"
    BY <1>8 DEF RunRaises
  <2>3. \A k \in Job : job'[k] = IF k = j THEN "raised" ELSE job[k]
    BY <1>8 DEF RunRaises
  <2>4. \A k \in Id : info'[k].job # NoJob =>
          /\ idOf'[info'[k].job] = k
          /\ job'[info'[k].job] \in {"running", "unstarted", "returned", "reported"}
    BY <1>0, <2>1, <2>2, <2>3
  <2>5. QED
    BY <2>2, <2>3, <2>4 DEF Unacked, AckedOnce
<1>9. CASE MonitorStart
  BY <1>9, <1>0 DEF Unacked, AckedOnce, MonitorStart
<1>10. CASE MonitorAcquire
  BY <1>10, <1>0 DEF Unacked, AckedOnce, MonitorAcquire
<1>11. ASSUME NEW i \in Id, MonitorAck(i) PROVE ThreadInv'
  <2>1. info[i].job \in Job /\ info[i].job # NoJob /\ Unacked(info[i].job)
    BY <1>11, <1>0 DEF MonitorAck
  <2>2. StatusOf(info[i].result) \in Status
    BY DEF StatusOf, Status
  <2>3. AckedOnce' /\ \A k \in Job \ {info[i].job} : Unacked(k) => Unacked(k)'
    BY <1>11, <2>1, <2>2, OneMoreAck DEF MonitorAck
  <2>4. \A k \in Id \ {i} : info[k].job # NoJob => info[k].job # info[i].job
    BY <2>1
  <2>5. job[info[i].job] \notin {"idle", "checked", "skipped"}
    BY <2>1
  <2>6. \A k \in Id \ {i} : info[k].job # NoJob => Unacked(info[k].job)'
    BY <1>11, <1>0, <2>3, <2>4 DEF MonitorAck
  <2>7. QED
    BY <1>11, <1>0, <2>3, <2>5, <2>6 DEF MonitorAck
<1>12. CASE MonitorDeletes
  <2>1. UNCHANGED <<job, idOf, acks>> /\ current' = NoId
    BY <1>12 DEF MonitorDeletes
  <2>2. CASE monitor' = "dead" /\ lock' = "orphan" /\ UNCHANGED info
    BY <1>12, <1>0, <2>1, <2>2 DEF Unacked, AckedOnce
  <2>3. CASE info' = [info EXCEPT ![current] = Absent] /\ monitor' = "scan" /\ UNCHANGED lock
    <3>1. info'[current].job = NoJob /\ \A k \in Id \ {current} : info'[k] = info[k]
      BY <1>12, <2>3 DEF Absent, MonitorDeletes
    <3>2. \A k \in Id : info'[k].job # NoJob => k # current /\ info'[k] = info[k]
      BY <3>1
    <3>3. monitor = "acking"
      BY <1>12 DEF MonitorDeletes
    <3>4. \A k \in Id : info'[k].job # NoJob => Unacked(info'[k].job)
      BY <3>2, <3>3
    <3>5. QED
      BY <1>0, <2>1, <2>3, <3>2, <3>4 DEF Unacked, AckedOnce
  <2>4. QED
    BY <1>12, <2>2, <2>3 DEF MonitorDeletes
<1>13. CASE MonitorWait
  BY <1>13, <1>0 DEF Unacked, AckedOnce, MonitorWait
<1>14. CASE MonitorWake
  BY <1>14, <1>0 DEF Unacked, AckedOnce, MonitorWake
<1>15. CASE MonitorRaises
  BY <1>15, <1>0 DEF Unacked, AckedOnce, MonitorRaises
<1>16. CASE UNCHANGED vars
  BY <1>16, <1>0 DEF Unacked, AckedOnce, vars
<1>17. ASSUME NEW j \in Job, Handler(j) PROVE ThreadInv'
  BY <1>1, <1>2, <1>3, <1>4, <1>5, <1>17 DEF Handler
<1>18. ASSUME NEW j \in Job, Driver(j) PROVE ThreadInv'
  BY <1>6, <1>7, <1>8, <1>18 DEF Driver
<1>19. CASE Monitor
  BY <1>9, <1>10, <1>11, <1>12, <1>13, <1>14, <1>19 DEF Monitor
<1>20. QED
  BY <1>15, <1>16, <1>17, <1>18, <1>19 DEF Next

\* ThreadInv is an invariant of the manager.
LEMMA ThreadCorrect == Spec => [](TypeOK /\ LockInv /\ ThreadInv)
<1>1. Init => ThreadInv
  BY DEF Init, ThreadInv, NoResultMissed, AckedOnce, Unacked, Absent, Status
<1>2. QED
  BY <1>1, TypeInit, TypeStep, ThreadStep, PTL DEF Spec

\* The monitor never sleeps on a result, whatever the ids are.
THEOREM ResultNeverMissed == Spec => []NoResultMissed
<1>1. ThreadInv => NoResultMissed
  BY DEF ThreadInv
<1>2. QED
  BY <1>1, ThreadCorrect, PTL

\* No job is acked twice, whatever the ids are.
THEOREM NeverAckedTwice == Spec => []AckedOnce
<1>1. ThreadInv => AckedOnce
  BY DEF ThreadInv
<1>2. QED
  BY <1>1, ThreadCorrect, PTL

-----------------------------------------------------------------------------
(* While the ids differ *)

\* The inductive invariant for ids that differ: a thread finds its own entry,
\* and an entry holds the result of its own job.
TrueInv ==
  ~collided =>
    /\ AckIsTrue
    /\ \A j \in Job : job[j] \in {"running", "returned"} => info[idOf[j]] = [job |-> j, result |-> "no"]
    /\ \A i \in Id : info[i].result # "no" =>
         job[info[i].job] = "reported" /\ info[i].result = result[info[i].job]
    /\ \A j \in Job : job[j] \in {"acking", "direct"} => j \in Driverless \cup Unaddressed
    /\ \A j \in Job : job[j] \in {"running", "unstarted", "returned", "reported", "raised"}
         => j \notin Driverless \cup Unaddressed
    /\ lock = "orphan" <=> monitor = "dead"

\* Every step preserves TrueInv.
LEMMA TrueStep == TypeOK /\ LockInv /\ ThreadInv /\ TrueInv /\ [Next]_vars => TrueInv'
<1> SUFFICES ASSUME TypeOK, LockInv, ThreadInv, TrueInv, [Next]_vars PROVE TrueInv'
  OBVIOUS
<1>0. \A i \in Id : \/ info[i] = Absent /\ info[i].job = NoJob /\ info[i].result = "no"
                    \/ info[i].job \in Job /\ info[i].job # NoJob
  BY EntryShape
<1> USE JobAssumption DEF TypeOK, LockInv, ThreadInv, TrueInv
<1>00. ASSUME ~collided, NEW k \in Job, job[k] \in {"running", "returned"}
       PROVE  info[idOf[k]].job = k /\ info[idOf[k]].result = "no"
  <2>1. info[idOf[k]] = [job |-> k, result |-> "no"]
    BY <1>00
  <2>2. QED
    BY <2>1
<1>1. ASSUME NEW j \in Job, CheckComplete(j) PROVE TrueInv'
  BY <1>1, <1>0 DEF AckIsTrue, CheckComplete
<1>2. ASSUME NEW j \in Job, AckDriverless(j) PROVE TrueInv'
  <2>1. \A k \in Job \ {j} : acks'[k] = acks[k] /\ job'[k] = job[k]
    BY <1>2 DEF AckDriverless, Acked
  <2>2. j \in Driverless /\ job'[j] = "acking" /\ UNCHANGED <<result, idOf, info, lock, monitor, collided>>
    BY <1>2 DEF AckDriverless
  <2>3. \A i \in Id : info[i].job # NoJob => info[i].job # j
    BY <1>2 DEF AckDriverless
  <2>4. job[j] = "checked"
    BY <1>2 DEF AckDriverless
  <2>5. QED
    BY <1>0, <2>1, <2>2, <2>3, <2>4 DEF AckIsTrue
<1>3. ASSUME NEW j \in Job, CompleteDriverless(j) PROVE TrueInv'
  BY <1>3, <1>0 DEF AckIsTrue, CompleteDriverless
<1>4. ASSUME NEW j \in Job, AckUnaddressed(j) PROVE TrueInv'
  <2>1. \A k \in Job \ {j} : acks'[k] = acks[k] /\ job'[k] = job[k]
    BY <1>4 DEF AckUnaddressed, Acked
  <2>2. j \in Unaddressed /\ job'[j] = "direct" /\ UNCHANGED <<result, idOf, info, lock, monitor, collided>>
    BY <1>4 DEF AckUnaddressed
  <2>3. \A i \in Id : info[i].job # NoJob => info[i].job # j
    BY <1>4 DEF AckUnaddressed
  <2>4. QED
    BY <1>0, <2>1, <2>2, <2>3 DEF AckIsTrue
<1>5. ASSUME NEW j \in Job, NEW i \in Id, InvokeDriverThread(j, i) PROVE TrueInv'
  <2> SUFFICES ASSUME ~collided' PROVE TrueInv'
    OBVIOUS
  <2>1. ~collided /\ info[i] = Absent
    BY <1>5 DEF InvokeDriverThread
  <2>2. \A k \in Id \ {i} : info'[k] = info[k]
    BY <1>5 DEF InvokeDriverThread
  <2>3. info'[i] = [job |-> j, result |-> "no"] /\ idOf'[j] = i
    BY <1>5 DEF InvokeDriverThread
  <2>4. \A k \in Job \ {j} : idOf'[k] = idOf[k] /\ job'[k] = job[k]
    BY <1>5 DEF InvokeDriverThread
  <2>5. job[j] = "checked" /\ job'[j] \in {"running", "unstarted"} /\ j \notin Driverless \cup Unaddressed
    BY <1>5 DEF InvokeDriverThread
  <2>6. UNCHANGED <<acks, lock, monitor, result>>
    BY <1>5 DEF InvokeDriverThread
  <2>7. \A k \in Job \ {j} : job[k] \in {"running", "returned"} => idOf[k] \in Id \ {i}
    <3>1. TAKE k \in Job \ {j}
    <3>2. HAVE job[k] \in {"running", "returned"}
    <3>3. info[idOf[k]].job = k /\ idOf[k] \in Id
      BY <1>00, <2>1, <3>2
    <3>4. info[i].job = NoJob
      BY <2>1 DEF Absent
    <3>5. QED
      BY <3>3, <3>4
  <2>8. \A k \in Job : job'[k] \in {"running", "returned"} => info'[idOf'[k]] = [job |-> k, result |-> "no"]
    BY <2>1, <2>2, <2>3, <2>4, <2>7
  <2>9. \A k \in Id : info'[k].result # "no" =>
          job'[info'[k].job] = "reported" /\ info'[k].result = result'[info'[k].job]
    BY <1>0, <2>1, <2>2, <2>3, <2>4, <2>5, <2>6
  <2>10. AckIsTrue'
    BY <2>1, <2>4, <2>5, <2>6 DEF AckIsTrue, Unacked
  <2>11. QED
    BY <2>1, <2>4, <2>5, <2>6, <2>8, <2>9, <2>10
<1>6. ASSUME NEW j \in Job, NEW r \in Result, ConfigureService(j, r) PROVE TrueInv'
  BY <1>6, <1>0 DEF AckIsTrue, ConfigureService
<1>7. ASSUME NEW j \in Job, Run(j) PROVE TrueInv'
  <2> SUFFICES ASSUME ~collided' PROVE TrueInv'
    OBVIOUS
  <2>1. ~collided /\ idOf[j] \in Id /\ info[idOf[j]] = [job |-> j, result |-> "no"]
    BY <1>7 DEF Run
  <2>2. info'[idOf[j]].job = j /\ info'[idOf[j]].result = result[j]
    BY <1>7, <2>1 DEF Run
  <2>3. \A k \in Id \ {idOf[j]} : info'[k] = info[k]
    BY <1>7 DEF Run
  <2>4. \A k \in Job : job'[k] = IF k = j THEN "reported" ELSE job[k]
    BY <1>7 DEF Run
  <2>5. UNCHANGED <<acks, lock, monitor, result, idOf>> /\ job[j] = "returned"
    BY <1>7 DEF Run
  <2>6. \A k \in Job : job'[k] \in {"running", "returned"} => info'[idOf'[k]] = [job |-> k, result |-> "no"]
    BY <2>1, <2>3, <2>4, <2>5
  <2>7. \A k \in Id : info'[k].result # "no" =>
          job'[info'[k].job] = "reported" /\ info'[k].result = result'[info'[k].job]
    BY <1>0, <2>1, <2>2, <2>3, <2>4, <2>5
  <2>8. AckIsTrue'
    BY <2>1, <2>4, <2>5 DEF AckIsTrue, Unacked
  <2>9. QED
    BY <2>1, <2>4, <2>5, <2>6, <2>7, <2>8
<1>8. ASSUME NEW j \in Job, RunRaises(j) PROVE TrueInv'
  <2> SUFFICES ASSUME ~collided' PROVE FALSE
    OBVIOUS
  <2>1. ~collided /\ info[idOf[j]] = [job |-> j, result |-> "no"] /\ info[idOf[j]] = Absent
    BY <1>8 DEF RunRaises
  <2>2. QED
    BY <2>1 DEF Absent
<1>9. CASE MonitorStart
  BY <1>9, <1>0 DEF AckIsTrue, MonitorStart
<1>10. CASE MonitorAcquire
  BY <1>10, <1>0 DEF AckIsTrue, MonitorAcquire
<1>11. ASSUME NEW i \in Id, MonitorAck(i) PROVE TrueInv'
  <2> SUFFICES ASSUME ~collided' PROVE TrueInv'
    OBVIOUS
  <2>1. ~collided /\ info[i].job \in Job
    BY <1>11, <1>0 DEF MonitorAck
  <2>2. \A k \in Job : \A s \in Status : acks'[k][s] > 0 =>
          acks[k][s] > 0 \/ (k = info[i].job /\ s = StatusOf(info[i].result))
    BY <1>11, <2>1 DEF MonitorAck, Acked
  <2>3. job[info[i].job] = "reported" /\ info[i].result = result[info[i].job]
    BY <1>11, <2>1 DEF MonitorAck
  <2>4. UNCHANGED <<job, result, idOf, info, lock>> /\ monitor = "scan" /\ monitor' = "acking"
    BY <1>11 DEF MonitorAck
  <2>5. AckIsTrue'
    BY <2>1, <2>2, <2>3, <2>4 DEF AckIsTrue
  <2>6. QED
    BY <2>1, <2>4, <2>5
<1>12. CASE MonitorDeletes
  <2> SUFFICES ASSUME ~collided' PROVE TrueInv'
    OBVIOUS
  <2>1. ~collided /\ monitor = "acking" /\ current \in Id /\ info[current].result # "no"
    BY <1>12 DEF MonitorDeletes
  <2>2. job[info[current].job] = "reported"
    BY <2>1
  <2>3. info' = [info EXCEPT ![current] = Absent] /\ monitor' = "scan" /\ UNCHANGED lock
    BY <1>12, <2>2 DEF MonitorDeletes, Alive
  <2>4. UNCHANGED <<job, result, idOf, acks>>
    BY <1>12 DEF MonitorDeletes
  <2>5. \A k \in Job : job[k] \in {"running", "returned"} => idOf[k] \in Id /\ idOf[k] # current
    BY <1>00, <2>1
  <2>6. \A k \in Id : info'[k].result # "no" => info'[k] = info[k]
    BY <2>3 DEF Absent
  <2>7. \A k \in Id \ {current} : info'[k] = info[k]
    BY <2>3
  <2>8. AckIsTrue'
    BY <2>1, <2>4 DEF AckIsTrue
  <2>9. QED
    BY <2>1, <2>3, <2>4, <2>5, <2>6, <2>7, <2>8
<1>13. CASE MonitorWait
  BY <1>13, <1>0 DEF AckIsTrue, MonitorWait
<1>14. CASE MonitorWake
  BY <1>14, <1>0 DEF AckIsTrue, MonitorWake
<1>15. CASE MonitorRaises
  BY <1>15, <1>0 DEF AckIsTrue, MonitorRaises
<1>16. CASE UNCHANGED vars
  BY <1>16, <1>0 DEF AckIsTrue, vars
<1>17. ASSUME NEW j \in Job, Handler(j) PROVE TrueInv'
  BY <1>1, <1>2, <1>3, <1>4, <1>5, <1>17 DEF Handler
<1>18. ASSUME NEW j \in Job, Driver(j) PROVE TrueInv'
  BY <1>6, <1>7, <1>8, <1>18 DEF Driver
<1>19. CASE Monitor
  BY <1>9, <1>10, <1>11, <1>12, <1>13, <1>14, <1>19 DEF Monitor
<1>20. QED
  BY <1>15, <1>16, <1>17, <1>18, <1>19 DEF Next

\* TrueInv is an invariant of the manager.
LEMMA TrueCorrect == Spec => []TrueInv
<1>1. Init => TrueInv
  BY DEF Init, TrueInv, AckIsTrue, Absent
<1>2. QED
  BY <1>1, TrueStep, ThreadCorrect, PTL DEF Spec

\* While the ids differ, every ack tells what the driver of its own job returned.
THEOREM AckTrue == Spec => []AckIsTrue
<1>1. TrueInv => AckIsTrue
  BY DEF TrueInv, AckIsTrue
<1>2. QED
  BY <1>1, TrueCorrect, PTL

\* While the ids differ, only a cast of the monitor that raises orphans the lock.
THEOREM LockOrphaned == Spec => []OrphanedByCause
<1>1. TrueInv => OrphanedByCause
  BY DEF TrueInv, OrphanedByCause
<1>2. QED
  BY <1>1, TrueCorrect, PTL

-----------------------------------------------------------------------------
(* The threads implement DriverAcks *)

phase == [j \in Job |-> PhaseOf(job[j])]

\* The initial states correspond.
LEMMA PromiseInit == Init => Abstract!Init
<1> SUFFICES ASSUME Init PROVE Abstract!Init
  OBVIOUS
<1>1. \A j \in Job : PhaseOf(job[j]) = "asked"
  BY DEF Init, PhaseOf
<1>2. QED
  BY <1>1 DEF Init, Abstract!Init, Status, Abstract!Status

\* One more ack of a job that has none is its first.
LEMMA OneAckIs ==
  ASSUME TypeOK, NEW j \in Job, NEW s \in Status, Unacked(j)
  PROVE  Acked(j, s) = [acks EXCEPT ![j][s] = 1]
<1>1. acks[j][s] + 1 = 1
  BY DEF Unacked
<1>2. QED
  BY <1>1 DEF Acked

\* Every step of the threads is a step of DriverAcks or none.
LEMMA PromiseStep ==
  TypeOK /\ LockInv /\ ThreadInv /\ TrueInv /\ ~collided /\ [Next]_vars
    => [Abstract!Next]_(Abstract!vars)
<1> SUFFICES ASSUME TypeOK, LockInv, ThreadInv, TrueInv, ~collided, [Next]_vars
             PROVE  Abstract!Next \/ UNCHANGED <<phase, result, acks>>
  BY DEF Abstract!vars, phase
<1> USE DEF phase
<1>1. ASSUME NEW j \in Job, CheckComplete(j) PROVE (Abstract!Next \/ UNCHANGED <<phase, result, acks>>)
  BY <1>1 DEF TypeOK, PhaseOf, CheckComplete
<1>2. ASSUME NEW j \in Job, AckDriverless(j) PROVE (Abstract!Next \/ UNCHANGED <<phase, result, acks>>)
  <2>1. phase' = [phase EXCEPT ![j] = "direct"] /\ phase[j] = "asked" /\ UNCHANGED result
    BY <1>2 DEF AckDriverless, TypeOK, PhaseOf
  <2>2. acks' = [acks EXCEPT ![j]["COMPLETE"] = 1]
    BY <1>2, OneAckIs DEF AckDriverless, ThreadInv, Status
  <2>3. Abstract!Direct(j, "COMPLETE")
    BY <2>1, <2>2 DEF Abstract!Direct
  <2>4. QED
    BY <2>3 DEF Abstract!Next, Abstract!Status
<1>3. ASSUME NEW j \in Job, CompleteDriverless(j) PROVE (Abstract!Next \/ UNCHANGED <<phase, result, acks>>)
  BY <1>3 DEF TypeOK, PhaseOf, CompleteDriverless
<1>4. ASSUME NEW j \in Job, AckUnaddressed(j) PROVE (Abstract!Next \/ UNCHANGED <<phase, result, acks>>)
  <2>1. phase' = [phase EXCEPT ![j] = "direct"] /\ phase[j] = "asked" /\ UNCHANGED result
    BY <1>4 DEF AckUnaddressed, TypeOK, PhaseOf
  <2>2. acks' = [acks EXCEPT ![j]["ERROR"] = 1]
    BY <1>4, OneAckIs DEF AckUnaddressed, ThreadInv, Status
  <2>3. Abstract!Direct(j, "ERROR")
    BY <2>1, <2>2 DEF Abstract!Direct
  <2>4. QED
    BY <2>3 DEF Abstract!Next, Abstract!Status
<1>5. ASSUME NEW j \in Job, NEW i \in Id, InvokeDriverThread(j, i) PROVE (Abstract!Next \/ UNCHANGED <<phase, result, acks>>)
  <2>1. CASE job' = [job EXCEPT ![j] = "running"]
    <3>1. phase' = [phase EXCEPT ![j] = "running"] /\ phase[j] = "asked" /\ UNCHANGED <<result, acks>>
      BY <1>5, <2>1 DEF InvokeDriverThread, TypeOK, PhaseOf
    <3>2. QED
      BY <3>1 DEF Abstract!Next, Abstract!Launch
  <2>2. CASE job' = [job EXCEPT ![j] = "unstarted"]
    BY <1>5, <2>2 DEF InvokeDriverThread, TypeOK, PhaseOf
  <2>3. QED
    BY <1>5, <2>1, <2>2 DEF InvokeDriverThread
<1>6. ASSUME NEW j \in Job, NEW r \in Result, ConfigureService(j, r) PROVE (Abstract!Next \/ UNCHANGED <<phase, result, acks>>)
  <2>1. phase' = [phase EXCEPT ![j] = "returned"] /\ phase[j] = "running"
    BY <1>6 DEF ConfigureService, TypeOK, PhaseOf
  <2>2. result' = [result EXCEPT ![j] = r] /\ UNCHANGED acks
    BY <1>6 DEF ConfigureService
  <2>3. QED
    BY <2>1, <2>2 DEF Abstract!Next, Abstract!Return, Abstract!Result, Result
<1>7. ASSUME NEW j \in Job, Run(j) PROVE (Abstract!Next \/ UNCHANGED <<phase, result, acks>>)
  BY <1>7 DEF TypeOK, PhaseOf, Run
<1>8. ASSUME NEW j \in Job, RunRaises(j) PROVE (Abstract!Next \/ UNCHANGED <<phase, result, acks>>)
  BY <1>8 DEF TypeOK, PhaseOf, RunRaises
<1>9. CASE MonitorStart
  BY <1>9 DEF TypeOK, PhaseOf, MonitorStart
<1>10. CASE MonitorAcquire
  BY <1>10 DEF TypeOK, PhaseOf, MonitorAcquire
<1>11. ASSUME NEW i \in Id, MonitorAck(i) PROVE (Abstract!Next \/ UNCHANGED <<phase, result, acks>>)
  <2> DEFINE j == info[i].job
  <2>1. j \in Job /\ j # NoJob /\ job[j] = "reported" /\ info[i].result = result[j]
    BY <1>11, EntryShape DEF MonitorAck, TrueInv
  <2>2. Unacked(j)
    BY <1>11, <2>1 DEF MonitorAck, ThreadInv
  <2>3. StatusOf(result[j]) = Abstract!Answer(result[j]) /\ StatusOf(result[j]) \in Status
    BY DEF StatusOf, Abstract!Answer, Status
  <2>4. acks' = [acks EXCEPT ![j][Abstract!Answer(result[j])] = 1]
    BY <1>11, <2>1, <2>2, <2>3, OneAckIs DEF MonitorAck
  <2>5. phase[j] = "returned" /\ UNCHANGED <<phase, result>>
    BY <1>11, <2>1 DEF MonitorAck, PhaseOf
  <2>6. Abstract!Tell(j)
    BY <2>2, <2>4, <2>5 DEF Abstract!Tell, Abstract!Unanswered, Abstract!Status, Unacked, Status
  <2>7. QED
    BY <2>1, <2>6 DEF Abstract!Next
<1>12. CASE MonitorDeletes
  BY <1>12 DEF TypeOK, PhaseOf, MonitorDeletes
<1>13. CASE MonitorWait
  BY <1>13 DEF TypeOK, PhaseOf, MonitorWait
<1>14. CASE MonitorWake
  BY <1>14 DEF TypeOK, PhaseOf, MonitorWake
<1>15. CASE MonitorRaises
  BY <1>15 DEF TypeOK, PhaseOf, MonitorRaises
<1>16. CASE UNCHANGED vars
  BY <1>16 DEF TypeOK, PhaseOf, vars
<1>17. ASSUME NEW j \in Job, Handler(j) PROVE (Abstract!Next \/ UNCHANGED <<phase, result, acks>>)
  BY <1>1, <1>2, <1>3, <1>4, <1>5, <1>17 DEF Handler
<1>18. ASSUME NEW j \in Job, Driver(j) PROVE (Abstract!Next \/ UNCHANGED <<phase, result, acks>>)
  BY <1>6, <1>7, <1>8, <1>18 DEF Driver
<1>19. CASE Monitor
  BY <1>9, <1>10, <1>11, <1>12, <1>13, <1>14, <1>19 DEF Monitor
<1>20. QED
  BY <1>15, <1>16, <1>17, <1>18, <1>19 DEF Next

\* With ids that differ, the manager keeps the promise of DriverAcks.
THEOREM PromiseKept == UniqueSpec => Promise
<1>1. UniqueSpec => Spec
  <2>1. [Next /\ ~collided']_vars => [Next]_vars
    OBVIOUS
  <2>2. QED
    BY <2>1, PTL DEF UniqueSpec, Spec
<1>2. UniqueSpec => []~collided
  <2>1. Init => ~collided
    BY DEF Init
  <2>2. ~collided /\ [Next /\ ~collided']_vars => ~collided'
    BY DEF vars
  <2>3. QED
    BY <2>1, <2>2, PTL DEF UniqueSpec
<1>3. UniqueSpec => Init
  BY DEF UniqueSpec
<1>4. QED
  BY <1>1, <1>2, <1>3, PromiseInit, PromiseStep, ThreadCorrect, TrueCorrect, PTL
  DEF Spec, Promise, Abstract!Spec
=============================================================================
