----------------------------- MODULE VnfmThreads -----------------------------
(***************************************************************************)
(* The driver threads of a VNF manager and the monitor thread that acks    *)
(* their results.                                                          *)
(*                                                                         *)
(* A job is one call that configures one instance: a pass of the loop of   *)
(* _configure_vdu or of configure_vdus.  Jobs with a driver run in a       *)
(* thread of their own that is listed in launchd_threads_info under a      *)
(* random id; the monitor looks through that dict whenever the condition   *)
(* is notified.  The threads are greenthreads (eventlet.monkey_patch), so  *)
(* a thread is only interrupted where it waits: for the condition, for a   *)
(* device, or in an RPC cast.                                              *)
(***************************************************************************)
EXTENDS Naturals

CONSTANTS
  Job,          \* the calls that configure an instance
  NoJob,        \* the job of an id that is not in the dict
  Instance,     \* the instances
  InstanceOf,   \* the instance that a job configures
  Initial,      \* the jobs of the configuration file, done in __init__
  Update,       \* the jobs of update_vdu_configuration
  Driverless,   \* the jobs of VDUs that have no mgmt-driver
  Unaddressed,  \* the jobs of instances that have no management address
  Id,           \* the thread ids, the second group of a uuid
  NoId          \* current when the monitor acks nothing

ASSUME JobAssumption ==
  /\ NoJob \notin Job /\ NoId \notin Id
  /\ InstanceOf \in [Job -> Instance]
  /\ Initial \subseteq Job /\ Update \subseteq Job
  /\ Driverless \subseteq Job /\ Unaddressed \subseteq Job

VARIABLES
  job,        \* of every job: "idle", "checked" (to be done), "skipped",
              \* "acking", "direct" (acked by the handler),
              \* "running" (in the driver), "returned" (waits for the lock),
              \* "reported", "raised", "unstarted"
  result,     \* what its driver has returned
  idOf,       \* the id of its thread
  info,       \* launchd_threads_info: the job of an id, and its result
  lock,       \* the lock of the condition: "free", "monitor", "orphan"
  monitor,    \* "off", "acquire", "scan", "acking", "wait", "dead"
  current,    \* the id whose job the monitor acks
  notified,   \* the monitor has been notified since it waits
  acks,       \* for every job and status, the send_ack casts made
  complete,   \* the instances in the COMPLETE lists of drv_conf
  collided    \* history: a job has drawn an id that was taken

jobVars == <<job, result, idOf>>
monVars == <<monitor, current>>
vars == <<jobVars, info, lock, monVars, notified, acks, complete, collided>>

Result == {"COMPLETE", "ERROR", "None"}
Status == {"COMPLETE", "ERROR"}

\* No entry, and an entry with or without a result.
Absent == [job |-> NoJob, result |-> "no"]
Entry  == [job : Job, result : Result \cup {"no"}] \cup {Absent}

\* Mutant: whatever is not COMPLETE is an error.
StatusOfStrict(r) == IF r = "COMPLETE" THEN "COMPLETE" ELSE "ERROR"

\* The status that the monitor acks for a result: whatever does not contain
\* 'ERROR' is complete.
StatusOf(r) == IF r = "ERROR" THEN "ERROR" ELSE "COMPLETE"

\* A thread that has not ended: it is in the driver, or waits for the lock.
Alive(j) == job[j] \in {"running", "returned"}

\* The send_ack casts after one more.
Acked(j, s) == [acks EXCEPT ![j][s] = @ + 1]
-----------------------------------------------------------------------------
Init ==
  /\ job = [j \in Job |-> "idle"]
  /\ result = [j \in Job |-> "no"]
  /\ idOf = [j \in Job |-> NoId]
  /\ info = [i \in Id |-> Absent]
  /\ lock = "free"
  /\ monitor = "off"
  /\ current = NoId
  /\ notified = FALSE
  /\ acks = [j \in Job |-> [s \in Status |-> 0]]
  /\ complete = {}
  /\ collided = FALSE

\* A handler comes to the instance. It skips an instance that is complete
\* unless it updates it. The RPC consumers start after __init__, whose last
\* statement starts the monitor.
CheckComplete(j) ==
  /\ job[j] = "idle"
  /\ j \in Initial \/ monitor # "off"
  /\ job' = [job EXCEPT ![j] = IF j \in Update \/ InstanceOf[j] \notin complete
                                 THEN "checked" ELSE "skipped"]
  /\ UNCHANGED <<result, idOf, info, lock, monVars, notified, acks, complete, collided>>

\* An instance without a driver is acked at once, and then listed as complete.
AckDriverless(j) ==
  /\ job[j] = "checked"
  /\ j \in Driverless
  /\ job' = [job EXCEPT ![j] = "acking"]
  /\ acks' = Acked(j, "COMPLETE")
  /\ UNCHANGED <<result, idOf, info, lock, monVars, notified, complete, collided>>

CompleteDriverless(j) ==
  /\ job[j] = "acking"
  /\ job' = [job EXCEPT ![j] = "direct"]
  /\ complete' = complete \cup {InstanceOf[j]}
  /\ UNCHANGED <<result, idOf, info, lock, monVars, notified, acks, collided>>

\* An instance whose address is missing: the handler acks the error.
AckUnaddressed(j) ==
  /\ job[j] = "checked"
  /\ j \in Unaddressed \ Driverless
  /\ job' = [job EXCEPT ![j] = "direct"]
  /\ acks' = Acked(j, "ERROR")
  /\ UNCHANGED <<result, idOf, info, lock, monVars, notified, complete, collided>>

\* _invoke_driver_thread: the entry is written under the lock, whatever it
\* overwrites, and then the thread is started, or there is no thread to be had.
InvokeDriverThread(j, i) ==
  /\ job[j] = "checked"
  /\ j \notin Driverless \cup Unaddressed
  /\ lock = "free"
  /\ idOf' = [idOf EXCEPT ![j] = i]
  /\ collided' = (collided \/ info[i] # Absent)
  /\ info' = [info EXCEPT ![i] = [job |-> j, result |-> "no"]]
  /\ \E s \in {"running", "unstarted"} : job' = [job EXCEPT ![j] = s]
  /\ UNCHANGED <<result, lock, monVars, notified, acks, complete>>

\* _configure_service returns what the driver returns, or ERROR if it raises.
ConfigureService(j, r) ==
  /\ job[j] = "running"
  /\ job' = [job EXCEPT ![j] = "returned"]
  /\ result' = [result EXCEPT ![j] = r]
  /\ UNCHANGED <<idOf, info, lock, monVars, notified, acks, complete, collided>>

\* Mutant: the result is stored, but nobody is told.
RunUntold(j) ==
  /\ job[j] = "returned"
  /\ lock = "free"
  /\ info[idOf[j]] # Absent
  /\ info' = [info EXCEPT ![idOf[j]].result = result[j]]
  /\ job' = [job EXCEPT ![j] = "reported"]
  /\ UNCHANGED <<result, idOf, lock, monVars, notified, acks, complete, collided>>

\* The end of ImplThread.run.
Run(j) ==
  /\ job[j] = "returned"
  /\ lock = "free"
  /\ info[idOf[j]] # Absent
  /\ info' = [info EXCEPT ![idOf[j]].result = result[j]]
  /\ notified' = (notified \/ monitor = "wait")
  /\ job' = [job EXCEPT ![j] = "reported"]
  /\ UNCHANGED <<result, idOf, lock, monVars, acks, complete, collided>>

\* The end of ImplThread.run when its entry is gone: the KeyError leaves the
\* lock held.
RunRaises(j) ==
  /\ job[j] = "returned"
  /\ lock = "free"
  /\ info[idOf[j]] = Absent
  /\ job' = [job EXCEPT ![j] = "raised"]
  /\ lock' = "orphan"
  /\ UNCHANGED <<result, idOf, info, monVars, notified, acks, complete, collided>>
-----------------------------------------------------------------------------
\* The last statement of __init__.
MonitorStart ==
  /\ monitor = "off"
  /\ \A j \in Initial : job[j] \notin {"idle", "checked", "acking"}
  /\ monitor' = "acquire"
  /\ UNCHANGED <<jobVars, info, lock, current, notified, acks, complete, collided>>

\* Mutant: the monitor waits before it has looked through the dict.
MonitorWaitsFirst ==
  /\ monitor = "acquire"
  /\ lock = "free"
  /\ monitor' = "wait"
  /\ notified' = FALSE
  /\ UNCHANGED <<jobVars, info, lock, current, acks, complete, collided>>

\* monitor_thread_pool acquires the condition and looks through the dict.
MonitorAcquire ==
  /\ monitor = "acquire"
  /\ lock = "free"
  /\ lock' = "monitor"
  /\ monitor' = "scan"
  /\ UNCHANGED <<jobVars, info, current, notified, acks, complete, collided>>

\* Mutant: the monitor acks what it finds listed, with or without a result.
MonitorAckListed(i) ==
  /\ monitor = "scan"
  /\ info[i].job # NoJob
  /\ acks' = Acked(info[i].job, StatusOf(info[i].result))
  /\ current' = i
  /\ monitor' = "acking"
  /\ UNCHANGED <<jobVars, info, lock, notified, complete, collided>>

\* The monitor finds a result and acks the job of the entry.
MonitorAck(i) ==
  /\ monitor = "scan"
  /\ info[i].result # "no"
  /\ acks' = Acked(info[i].job, StatusOf(info[i].result))
  /\ current' = i
  /\ monitor' = "acking"
  /\ UNCHANGED <<jobVars, info, lock, notified, complete, collided>>

\* Mutant: the entry of a job that is acked is not deleted.
MonitorKeeps ==
  /\ monitor = "acking"
  /\ complete' = IF StatusOf(info[current].result) = "COMPLETE"
                   THEN complete \cup {InstanceOf[info[current].job]} ELSE complete
  /\ current' = NoId
  /\ monitor' = IF acks[info[current].job]["COMPLETE"] > 1 THEN "dead" ELSE "scan"
  /\ UNCHANGED <<jobVars, info, lock, notified, acks, collided>>

\* After the cast: the instance is complete and the entry is deleted. A thread
\* that is still alive has no kill(): the monitor dies with the lock.
MonitorDeletes ==
  /\ monitor = "acking"
  /\ complete' = IF StatusOf(info[current].result) = "COMPLETE"
                   THEN complete \cup {InstanceOf[info[current].job]} ELSE complete
  /\ IF Alive(info[current].job)
       THEN monitor' = "dead" /\ lock' = "orphan" /\ UNCHANGED info
       ELSE /\ info' = [info EXCEPT ![current] = Absent]
            /\ monitor' = "scan"
            /\ UNCHANGED lock
  /\ current' = NoId
  /\ UNCHANGED <<jobVars, notified, acks, collided>>

\* send_ack raises in the monitor.
MonitorRaises ==
  /\ monitor = "scan"
  /\ \E i \in Id : info[i].result # "no"
  /\ monitor' = "dead"
  /\ lock' = "orphan"
  /\ UNCHANGED <<jobVars, info, current, notified, acks, complete, collided>>

\* All entries have been looked at: condition.wait() releases the lock.
MonitorWait ==
  /\ monitor = "scan"
  /\ \A i \in Id : info[i].result = "no"
  /\ monitor' = "wait"
  /\ lock' = "free"
  /\ notified' = FALSE
  /\ UNCHANGED <<jobVars, info, current, acks, complete, collided>>

\* wait() returns with the lock, which the monitor releases.
MonitorWake ==
  /\ monitor = "wait"
  /\ notified
  /\ lock = "free"
  /\ monitor' = "acquire"
  /\ notified' = FALSE
  /\ UNCHANGED <<jobVars, info, lock, current, acks, complete, collided>>
-----------------------------------------------------------------------------
Handler(j) ==
  \/ CheckComplete(j)
  \/ AckDriverless(j) \/ CompleteDriverless(j) \/ AckUnaddressed(j)
  \/ \E i \in Id : InvokeDriverThread(j, i)

Driver(j) ==
  \/ \E r \in Result : ConfigureService(j, r)
  \/ Run(j) \/ RunRaises(j)

Monitor ==
  \/ MonitorStart \/ MonitorAcquire
  \/ \E i \in Id : MonitorAck(i)
  \/ MonitorDeletes \/ MonitorWait \/ MonitorWake

Next == (\E j \in Job : Handler(j) \/ Driver(j)) \/ Monitor \/ MonitorRaises

Spec == Init /\ [][Next]_vars

\* No two threads that are listed at the same time have the same id. The id is
\* a group of 16 random bits, so the code makes this likely and not certain.
UniqueSpec == Init /\ [][Next /\ ~collided']_vars

\* The greenthreads are scheduled, the lock is given to those that wait for it,
\* and a driver returns: it tries again until its device answers. Nothing
\* obliges an RPC handler to be called.
Fairness ==
  /\ \A j \in Initial : SF_vars(Handler(j))
  /\ \A j \in Job : SF_vars(Driver(j))
  /\ SF_vars(Monitor)

FairUniqueSpec == UniqueSpec /\ Fairness
-----------------------------------------------------------------------------
(* Properties *)

\* TypeOK: the shape of every variable.
TypeOK ==
  /\ job \in [Job -> {"idle", "checked", "skipped", "acking", "direct", "running",
                      "returned", "reported", "raised", "unstarted"}]
  /\ result \in [Job -> Result \cup {"no"}]
  /\ idOf \in [Job -> Id \cup {NoId}]
  /\ info \in [Id -> Entry]
  /\ lock \in {"free", "monitor", "orphan"}
  /\ monitor \in {"off", "acquire", "scan", "acking", "wait", "dead"}
  /\ current \in Id \cup {NoId}
  /\ notified \in BOOLEAN
  /\ acks \in [Job -> [Status -> Nat]]
  /\ complete \subseteq Instance
  /\ collided \in BOOLEAN

\* NoResultMissed: the monitor does not sleep in condition.wait() on a result
\* that is there, whether it came before the monitor was started, while it was
\* looking through the dict or while it was waking up.
NoResultMissed ==
  monitor = "wait" /\ ~notified => \A i \in Id : info[i].result = "no"

\* AckedOnce: whatever the ids are, no call that configures an instance is
\* acked twice.
AckedOnce == \A j \in Job : acks[j]["COMPLETE"] + acks[j]["ERROR"] <= 1

\* AckIsTrue: as long as the ids differ, a job is acked only after its own
\* driver has returned, with the status of what that driver returned.
AckIsTrue ==
  ~collided =>
    \A j \in Job : \A s \in Status :
      acks[j][s] > 0 /\ j \notin Driverless \cup Unaddressed
        => job[j] = "reported" /\ StatusOf(result[j]) = s

\* OrphanedByCause: as long as the ids differ, the lock is orphaned only by a
\* send_ack that raises; no thread leaves the condition with the lock.
OrphanedByCause == ~collided => (lock = "orphan" <=> monitor = "dead")

\* ResultIsAcked: the result of a driver is acked in the end, unless a
\* send_ack of the monitor raises.
ResultIsAcked ==
  \A j \in Job : job[j] = "returned" ~>
    \/ \E s \in Status : acks[j][s] > 0
    \/ monitor = "dead"

-----------------------------------------------------------------------------
(* What the threads implement *)

\* The phase of a job: asked for, answered by the handler, in its driver, or
\* returned from it.
PhaseOf(s) ==
  CASE s \in {"idle", "checked", "skipped", "unstarted"} -> "asked"
    [] s \in {"acking", "direct"} -> "direct"
    [] s = "running" -> "running"
    [] s \in {"returned", "reported", "raised"} -> "returned"

Abstract == INSTANCE DriverAcks WITH phase <- [j \in Job |-> PhaseOf(job[j])]

\* Promise: whatever the order in which threads end, handlers come and the
\* monitor wakes, the acks are those that DriverAcks promises.
Promise == Abstract!Spec
=============================================================================
