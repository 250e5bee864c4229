------------------------------ MODULE Symphony ------------------------------
(***************************************************************************)
(* The wait of a test script for the events of its services.  The plugin   *)
(* posts every event of a service over HTTP; the listener of Symphony      *)
(* (eventListner.py, Insert) appends it to the deque comm_queue and        *)
(* notifies the condition eventNotification; the core (executionCore.py)   *)
(* pops the newest event under the lock and decides from its text.         *)
(*                                                                         *)
(* Both run in eventlet greenthreads, which switch only at HTTP calls and  *)
(* where they block: Insert is one step, and so is the core from one HTTP  *)
(* call or wait() to the next.  The text of an event is abstracted to what *)
(* checkServiceStatus looks for in it.  A delivery is not  *)
(* sure: _notify_user swallows a POST that fails.                          *)
(***************************************************************************)
EXTENDS Naturals, Sequences

CONSTANTS
  Service,    \* the services a script may create
  NoService,  \* the core waits for no service
  Blocks,     \* the values of the argument block that the script passes
  Updating,   \* whether another user updates an onboarded service
  RawLock,    \* whether the lock, made before monkey_patch, blocks the process
  MaxEvents,  \* events of a service that do not end its creation or deletion
  MaxLoops    \* schema.MAX_RETRIES

ASSUME ServiceAssumption == NoService \notin Service
ASSUME FlagAssumption == Blocks \subseteq BOOLEAN /\ Updating \in BOOLEAN /\ RawLock \in BOOLEAN
ASSUME BoundAssumption == MaxEvents \in Nat /\ MaxLoops \in Nat \ {0}

VARIABLES
  phase,   \* what the plugin does with each service
  post,    \* the kinds of events of each service whose POST has not returned
  spent,   \* events of each service counted against MaxEvents
  lost,    \* (auxiliary) the events that were told to nobody
  queue,   \* comm_queue
  levels,  \* how often the core has acquired eventNotification
  file,    \* the services whose file nsinfo is written
  nsInfo,  \* the services the core knows to be created
  pc, op, cur, block, loops,  \* the call the script is in
  stage,   \* of run: the script, its cleanup, or the cleanup of an exception
  todo,    \* the keys of nsInfo that cleanup has still to delete
  raised,  \* how many exceptions have left the script or a cleanup
  orphans, \* (auxiliary) how many of them left a wait, with the lock held
  frozen   \* the process is blocked for ever

plVars == <<phase, post, spent, lost>>
callVars == <<op, cur, block, loops>>
runVars == <<stage, todo, raised, orphans>>
vars == <<plVars, queue, levels, file, nsInfo, pc, callVars, runVars, frozen>>

Kind == {"launch", "info", "error", "onboarded", "offboarded"}
Event == [svc : Service, kind : Kind]
Complete == {"onboarded", "offboarded"}
Untelling == {"launch", "info"}

Newest == queue[Len(queue)]
Popped == SubSeq(queue, 1, Len(queue) - 1)
PopNewest == queue' = IF queue = <<>> THEN queue ELSE Popped

\* Mutant: the core polls, and keeps the lock meanwhile.
LockFreePolled == levels = 0

\* Condition.wait releases every level, and takes them all again when it ends.
LockFree == levels = 0 \/ pc \in {"parked", "woken"}

Init ==
  /\ phase = [s \in Service |-> "none"]
  /\ post = [s \in Service |-> {}]
  /\ spent = [s \in Service |-> 0]
  /\ lost = {}
  /\ queue = <<>> /\ levels = 0
  /\ file = {} /\ nsInfo = {}
  /\ pc = "script" /\ op = "create" /\ cur = NoService /\ block = TRUE /\ loops = 0
  /\ stage = "run" /\ todo = {} /\ raised = 0 /\ orphans = 0
  /\ frozen = FALSE

-----------------------------------------------------------------------------
(* The plugin's events: _notify_user posts them synchronously.             *)

\* The event is dropped if the row of the user is that of a newer service of the
\* template, or of none, and an exception of the POST is only logged.
Posts(s, k) ==
  \/ post' = [post EXCEPT ![s] = @ \cup {k}] /\ UNCHANGED lost
  \/ lost' = lost \cup {[svc |-> s, kind |-> k]} /\ UNCHANGED post
Moves(s, p) == phase' = [phase EXCEPT ![s] = p]

\* An event besides those that follow: each ack of a driver is told, also that of
\* a failed deployment and that of an update, and an ack may tell an error.
Progress(s, k) ==
  /\ \/ k = "info" /\ phase[s] \in {"deploying", "deleting"}
     \/ k \in {"info", "error"} /\ (phase[s] = "failed" \/ (phase[s] = "active" /\ Updating))
  /\ spent[s] < MaxEvents /\ k \notin post[s]
  /\ Posts(s, k)
  /\ spent' = [spent EXCEPT ![s] = @ + 1]
  /\ UNCHANGED <<phase, queue, levels, file, nsInfo, pc, callVars, runVars, frozen>>

\* A deployment ends once its acks are told, an ack of an update apart.
Onboarded(s) ==
  /\ phase[s] = "deploying" /\ (Updating \/ post[s] = {})
  /\ Moves(s, "active") /\ Posts(s, "onboarded")
  /\ UNCHANGED <<spent, queue, levels, file, nsInfo, pc, callVars, runVars, frozen>>

\* An instance or a driver is in error, or the greenthread raises untold.
Fails(s) ==
  /\ phase[s] = "deploying"
  /\ Moves(s, "failed")
  /\ (Posts(s, "error") \/ UNCHANGED <<post, lost>>)
  /\ UNCHANGED <<spent, queue, levels, file, nsInfo, pc, callVars, runVars, frozen>>

\* delete_vnfs ends, or raises: nothing is told then.
Offboarded(s) ==
  /\ phase[s] = "deleting" /\ post[s] = {}
  /\ \/ Moves(s, "deleted") /\ Posts(s, "offboarded")
     \/ Moves(s, "stuck") /\ UNCHANGED <<post, lost>>
  /\ UNCHANGED <<spent, queue, levels, file, nsInfo, pc, callVars, runVars, frozen>>

\* Mutant: the listener puts an event at the end that is popped last.
InsertLeft(s, k) ==
  /\ ~frozen /\ LockFree /\ k \in post[s]
  /\ queue' = <<[svc |-> s, kind |-> k]>> \o queue
  /\ pc' = IF pc = "parked" THEN "woken" ELSE pc
  /\ file' = IF k = "onboarded" THEN file \cup {s} ELSE file
  /\ post' = [post EXCEPT ![s] = @ \ {k}]
  /\ UNCHANGED <<phase, spent, lost, levels, nsInfo, callVars, runVars, frozen>>

\* Mutant: the listener appends the event, and notifies nobody.
InsertSilent(s, k) ==
  /\ ~frozen /\ LockFree /\ k \in post[s]
  /\ queue' = Append(queue, [svc |-> s, kind |-> k])
  /\ file' = IF k = "onboarded" THEN file \cup {s} ELSE file
  /\ post' = [post EXCEPT ![s] = @ \ {k}]
  /\ UNCHANGED <<phase, spent, lost, levels, nsInfo, pc, callVars, runVars, frozen>>

\* The listener's handler of a POST, and the answer.
Insert(s, k) ==
  /\ ~frozen /\ LockFree /\ k \in post[s]
  /\ queue' = Append(queue, [svc |-> s, kind |-> k])
  /\ pc' = IF pc = "parked" THEN "woken" ELSE pc
  /\ file' = IF k = "onboarded" THEN file \cup {s} ELSE file
  /\ post' = [post EXCEPT ![s] = @ \ {k}]
  /\ UNCHANGED <<phase, spent, lost, levels, nsInfo, callVars, runVars, frozen>>

\* The lock is not a greenthread's: acquiring it while the core holds it
\* blocks the process, and the core with it.
Freeze ==
  /\ RawLock /\ ~frozen /\ ~LockFree /\ \E s \in Service : post[s] # {}
  /\ frozen' = TRUE
  /\ UNCHANGED <<plVars, queue, levels, file, nsInfo, pc, callVars, runVars>>

-----------------------------------------------------------------------------
(* The core.                                                               *)

Returns == pc' = "script" /\ UNCHANGED runVars

\* run: an exception of the script or of its cleanup starts another cleanup, of
\* the services known by then.  A wait that is left by one (held = 1) leaves the
\* lock held.
Raises(known, held) ==
  /\ raised' = raised + 1 /\ orphans' = orphans + held
  /\ IF stage = "again"
       THEN pc' = "end" /\ UNCHANGED <<stage, todo>>
       ELSE pc' = "script" /\ stage' = "again" /\ todo' = known

Calls(o, s, b) == pc' = "api" /\ op' = o /\ cur' = s /\ block' = b

\* Mutant: __check_queue__ drops the event and returns what the method returned.
CreateServiceChecked(s, b) ==
  /\ ~frozen /\ pc = "script" /\ stage = "run" /\ phase[s] = "none"
  /\ PopNewest /\ Calls("create", s, b) /\ Moves(s, "launching") /\ Posts(s, "launch")
  /\ UNCHANGED <<spent, levels, file, nsInfo, loops, runVars, frozen>>

\* createServiceRequestObject, decorated by __check_queue__, returns None if it
\* finds an event in the queue, and createService raises.
CreateService(s, b) ==
  /\ ~frozen /\ pc = "script" /\ stage = "run" /\ phase[s] = "none"
  /\ IF queue = <<>>
       THEN Calls("create", s, b) /\ Moves(s, "launching") /\ Posts(s, "launch") /\ UNCHANGED <<queue, runVars>>
       ELSE queue' = Popped /\ Raises(nsInfo, 0) /\ UNCHANGED <<phase, post, lost, op, cur, block>>
  /\ UNCHANGED <<spent, levels, file, nsInfo, loops, frozen>>

\* The cleanup deletes what the core knows.  The script itself has nothing to
\* delete: a service gets known by a creation that raises (GetSvcObj), and
\* deleteService raises for any other (ScriptEnds).
DeleteService(s) ==
  /\ ~frozen /\ pc = "script" /\ stage # "run" /\ s \in todo /\ s \in nsInfo
  /\ todo' = todo \ {s}
  /\ Calls("delete", s, TRUE) /\ Moves(s, "unlinking") /\ Posts(s, "info")
  /\ UNCHANGED <<spent, queue, levels, file, nsInfo, loops, stage, raised, orphans, frozen>>

\* Mutant: waitForServiceDelete returns without the release.
LookKeeps(n, seen) ==
  \/ /\ queue # <<>> /\ Newest.kind = "error"
     /\ Raises(nsInfo, 1) /\ levels' = n /\ UNCHANGED <<nsInfo, loops>>
  \/ /\ queue # <<>> /\ Newest.kind \in Complete
     /\ UNCHANGED <<runVars, loops>> /\ levels' = n
     /\ IF op = "create"
          THEN pc' = "getsvc" /\ UNCHANGED nsInfo
          ELSE pc' = "script" /\ nsInfo' = nsInfo \ {cur}
  \/ /\ queue # <<>> => Newest.kind \in Untelling
     /\ levels' = n /\ UNCHANGED nsInfo
     /\ loops' = IF op = "create" THEN seen + 1 ELSE seen
     /\ IF op = "create" /\ seen + 1 >= MaxLoops
          THEN Raises(nsInfo, 1)
          ELSE pc' = "parked" /\ UNCHANGED runVars

\* One evaluation of the loop's condition, the core holding n levels.
Look(n, seen) ==
  \/ /\ queue # <<>> /\ Newest.kind = "error"
     /\ Raises(nsInfo, 1) /\ levels' = n /\ UNCHANGED <<nsInfo, loops>>
  \/ /\ queue # <<>> /\ Newest.kind \in Complete
     /\ UNCHANGED <<runVars, loops>>
     /\ IF op = "create"
          THEN pc' = "getsvc" /\ levels' = n /\ UNCHANGED nsInfo
          ELSE pc' = "script" /\ levels' = n - 1 /\ nsInfo' = nsInfo \ {cur}
  \/ /\ queue # <<>> => Newest.kind \in Untelling
     /\ levels' = n /\ UNCHANGED nsInfo
     /\ loops' = IF op = "create" THEN seen + 1 ELSE seen
     /\ IF op = "create" /\ seen + 1 >= MaxLoops
          THEN Raises(nsInfo, 1)
          ELSE pc' = "parked" /\ UNCHANGED runVars

Deployed(s) == IF phase[s] = "launching" THEN "deploying" ELSE "deleting"

\* Mutant: deleteService does not wait.
ApiReturnsDeleted ==
  /\ ~frozen /\ pc = "api" /\ post[cur] = {}
  /\ Moves(cur, Deployed(cur))
  /\ IF block /\ op = "create"
       THEN PopNewest /\ Look(levels + 1, 0)
       ELSE Returns /\ UNCHANGED <<queue, levels, nsInfo, loops>>
  /\ UNCHANGED <<post, spent, lost, file, op, cur, block, frozen>>

\* The API call returns, after the POST it made; a blocking call then waits.
ApiReturns ==
  /\ ~frozen /\ pc = "api" /\ post[cur] = {}
  /\ Moves(cur, Deployed(cur))
  /\ IF block
       THEN PopNewest /\ Look(levels + 1, 0)
       ELSE Returns /\ UNCHANGED <<queue, levels, nsInfo, loops>>
  /\ UNCHANGED <<post, spent, lost, file, op, cur, block, frozen>>

\* The API refuses: nothing is deployed, or deleted.
ApiFails ==
  /\ ~frozen /\ pc = "api" /\ post[cur] = {}
  /\ Moves(cur, IF phase[cur] = "launching" THEN "none" ELSE "active")
  /\ Raises(nsInfo, 0)
  /\ UNCHANGED <<post, spent, lost, queue, levels, file, nsInfo, callVars, frozen>>

Wake ==
  /\ ~frozen /\ pc = "woken"
  /\ PopNewest /\ Look(levels, loops)
  /\ UNCHANGED <<plVars, file, op, cur, block, frozen>>

\* getSvcObj asks the listener for the file nsinfo: without it, or if the GET or
\* the parsing of the answer raises, the service stays unknown.
Known == {nsInfo} \cup {nsInfo \cup {s} : s \in {cur} \cap file}

\* Either way the wait raises with the lock held: after nsInfo is written it
\* reads utils.diagnostics_enabled, which utils does not define.
GetSvcObj ==
  /\ ~frozen /\ pc = "getsvc"
  /\ \E known \in Known : nsInfo' = known /\ Raises(known, 1)
  /\ UNCHANGED <<plVars, queue, levels, file, callVars, frozen>>

\* The script ends, or raises by itself.
ScriptEnds ==
  /\ ~frozen /\ pc = "script" /\ stage = "run"
  /\ \/ stage' = "cleanup" /\ todo' = nsInfo /\ UNCHANGED <<pc, raised, orphans>>
     \/ Raises(nsInfo, 0)
  /\ UNCHANGED <<plVars, queue, levels, file, nsInfo, callVars, frozen>>

\* deleteTemplate takes an event from the queue, too.
DeleteTemplate ==
  /\ ~frozen /\ pc = "script" /\ stage # "run" /\ todo = {}
  /\ PopNewest /\ pc' = "end"
  /\ UNCHANGED <<plVars, levels, file, nsInfo, callVars, runVars, frozen>>

Plugin(s) ==
  \/ \E k \in Kind : Progress(s, k)
  \/ Onboarded(s) \/ Fails(s) \/ Offboarded(s)

Core ==
  \/ \E s \in Service, b \in Blocks : CreateService(s, b)
  \/ \E s \in Service : DeleteService(s)
  \/ ApiReturns \/ ApiFails \/ Wake \/ GetSvcObj \/ ScriptEnds \/ DeleteTemplate

Next ==
  \/ \E s \in Service : Plugin(s)
  \/ \E s \in Service, k \in Kind : Insert(s, k)
  \/ Freeze
  \/ Core

Spec == Init /\ [][Next]_vars

\* Every greenthread that can run runs: the listener's, and the core's between
\* its calls.  Nothing makes a script or a plugin go on.
FairSpec ==
  /\ Spec
  /\ WF_vars(ApiReturns) /\ WF_vars(Wake) /\ WF_vars(GetSvcObj)
  /\ \A s \in Service, k \in Kind : WF_vars(Insert(s, k))

-----------------------------------------------------------------------------
(* Properties.                                                             *)

Waiting == pc \in {"parked", "woken"}

Lost(s, k) == [svc |-> s, kind |-> k] \in lost

TypeOK ==
  /\ phase \in [Service -> {"none", "launching", "deploying", "active", "failed",
                           "unlinking", "deleting", "deleted", "stuck"}]
  /\ post \in [Service -> SUBSET Kind]
  /\ spent \in [Service -> 0..MaxEvents]
  /\ lost \subseteq Event
  /\ queue \in Seq(Event)
  /\ levels \in Nat
  /\ file \subseteq Service /\ nsInfo \subseteq Service
  /\ pc \in {"script", "api", "parked", "woken", "getsvc", "end"}
  /\ op \in {"create", "delete"} /\ cur \in Service \cup {NoService} /\ block \in BOOLEAN /\ loops \in 0..MaxLoops
  /\ stage \in {"run", "cleanup", "again"} /\ todo \subseteq Service /\ raised \in Nat /\ orphans \in Nat
  /\ frozen \in BOOLEAN

\* The lock is taken once by each wait, on top of what earlier waits left: each
\* wait that ends by an exception leaves one level for ever, every other gives its
\* own back (waitForServiceCreate releases on its last line but one, which an
\* exception always skips, and waitForServiceDelete on its last).
LockOrphaned == levels = orphans + (IF Waiting \/ pc = "getsvc" THEN 1 ELSE 0)

\* A wait for a creation ends with the event of that very service, although
\* nothing compares the two: __check_queue__ makes every creation raise that
\* starts while an event of another one is in the queue.  Only if the first event
\* of another service was told to nobody can its completion end this wait.
OwnEvent == pc = "getsvc" => cur \in file \/ \E s \in Service \ {cur} : Lost(s, "launch")

\* As long as nothing has raised, a script that blocks in each call is never
\* asleep with the completion of its service in the queue: LIFO order and one
\* look per wake-up lose no wake-up (updates of other users apart).
NothingBuried ==
  Blocks = {TRUE} /\ ~Updating /\ raised = 0 /\ pc = "parked" =>
    \A i \in 1..Len(queue) : queue[i].kind \notin Complete

\* A blocking script whose cleanup deletes something, and is not left by an
\* exception itself, leaves nothing behind: the wait of the deletion is not ended
\* by what the creation left in the queue.
CleanRun ==
  Blocks = {TRUE} /\ pc = "end" /\ raised = 1 /\ op = "delete" =>
    \A s \in Service : phase[s] \in {"none", "deleted"}

\* Every notification of the plugin is answered, unless a wait has raised and no
\* other one gives the lock away meanwhile, or the process is frozen.
InsertAnswered ==
  \A s \in Service : post[s] # {} ~> post[s] = {} \/ (orphans > 0 /\ ~Waiting) \/ frozen

\* A blocking creation ends once its service is on board, if that was told.
CreationEnds ==
  \A s \in Service :
    Waiting /\ op = "create" /\ cur = s /\ phase[s] = "active" ~> ~Waiting \/ Lost(s, "onboarded") \/ frozen

=============================================================================
