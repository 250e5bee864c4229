------------------------------ MODULE VnfDeploy ------------------------------
(***************************************************************************)
(* Deployment of ONE network service by the vnfsvc plugin.                 *)
(*                                                                         *)
(* Three activities interleave:                                            *)
(*   - the deploy greenthread (deploy_vnfs and what it calls) boots the    *)
(*     VDUs wave by wave: first those without a dependency, then those     *)
(*     whose dependencies are all configured;                              *)
(*   - the VNF manager process of the service configures the instances it  *)
(*     is told about, each in a driver thread, and casts one ack for each; *)
(*   - the RPC greenthreads of the plugin count the acks.                  *)
(* Only API calls, RPC, database and HTTP calls switch greenthreads, so a  *)
(* stretch of code between two of them is one step.                        *)
(***************************************************************************)
EXTENDS Naturals, FiniteSets

CONSTANTS
  Vdu,            \* the VDUs of the service, "vnfd:vdu" in the code
  NoVdu,          \* current when no VDU is being booted
  Templates,      \* the templates the service may be created from
  MaxUpdates,     \* bound: update_service calls
  MaxKills        \* bound: deletions of other services on the manager's host

ASSUME VduAssumption ==
  /\ IsFiniteSet(Vdu)
  /\ NoVdu \notin Vdu

\* What matters of a template: the 'dependency' of every VDU, the VDUs whose
\* num-instances is not 1, and whether the VDU has a mgmt-driver and whether
\* the manager can import it.
Template == [from   : [Vdu -> SUBSET Vdu],
             multi  : SUBSET Vdu,
             driver : [Vdu -> {"none", "ok", "broken"}]]

ASSUME TemplateAssumption == Templates \subseteq Template

ASSUME BoundAssumption == MaxUpdates \in Nat /\ MaxKills \in Nat

VARIABLES
  \* the deploy greenthread
  tmpl,        \* the parsed template
  pc,          \* where the deploy greenthread is
  wave,        \* the VDUs it launches and then waits for
  todo,        \* those of wave that it has still to launch
  current,     \* the VDU whose server it is polling
  boots,       \* server_create calls made for each VDU
  \* ns_dict and the database row
  instances,   \* number of entries of vdus[vdu]['instances']
  deployed,    \* deployed_vdus
  confGen,     \* conf_generated
  acks,        \* length of acknowledge_list[vdu]
  configured,  \* the list configured, as entries <<vdu, ack that appended it>>
  errored,     \* errored
  status,      \* NetworkService.status
  \* the RPC greenthreads of the plugin
  confirming,  \* entries about to be appended to configured
  failing,     \* VDUs whose error is about to be written to the status
  \* RPC messages
  confCasts,   \* configure_vdus casts in transit
  updCasts,    \* update_vdu_configuration casts in transit, for each VDU
  ackMsgs,     \* send_ack(COMPLETE) in transit, for each VDU
  errMsgs,     \* send_ack(ERROR) in transit, for each VDU
  \* the VNF manager process
  mgr,         \* "off", "init", "starting", "serving", "dead"
  fileConf,    \* the configuration file it is started with
  known,       \* keys of drv_conf
  running,     \* driver threads, for each VDU
  \* history
  lost,        \* VDUs whose configuration the manager never started
  updates,     \* update_service calls made
  kills        \* times another service's deletion killed the managers

deployVars == <<tmpl, pc, wave, todo, current, boots>>
nsVars     == <<instances, deployed, confGen, acks, configured, errored>>
rpcVars    == <<confirming, failing>>
msgVars    == <<confCasts, updCasts, ackMsgs, errMsgs>>
mgrVars    == <<mgr, fileConf, known, running>>
histVars   == <<lost, updates, kills>>
vars == <<deployVars, nsVars, status, rpcVars, msgVars, mgrVars, histVars>>

-----------------------------------------------------------------------------
\* Reading the ns_dict lists

\* "vdu in configured" for every VDU at once.
Configured == {e[1] : e \in configured}

\* Mutant: the loop ends when there is nothing to launch.
NothingReady == {v \in Vdu \ Configured : tmpl.from[v] \subseteq Configured} = {}

\* Both branches of the comparison in the loop of _resolve_dependency.
AllConfigured == Cardinality(configured) = Cardinality(Vdu)

\* The VDUs without a dependency (updatesFrom is empty).
Independent == {v \in Vdu : tmpl.from[v] = {}}

\* Mutant: one configured dependency is enough.
ReadyIfAny == {v \in Vdu \ Configured : tmpl.from[v] = {} \/ tmpl.from[v] \cap Configured # {}}

\* The VDUs the next wave is made of: not configured, every dependency is.
Ready == {v \in Vdu \ Configured : tmpl.from[v] \subseteq Configured}

\* The VDUs the manager has no driver for, and those it cannot load one for.
NoDriver == {v \in Vdu : tmpl.driver[v] = "none"}
Broken == {v \in Vdu : tmpl.driver[v] = "broken"}

\* What _generate_vnfm_conf puts in a configuration.
NewConf == deployed \ confGen

-----------------------------------------------------------------------------
Init ==
  /\ tmpl \in Templates
  /\ pc = "launch"
  /\ wave = Independent
  /\ todo = Independent
  /\ current = NoVdu
  /\ boots = [v \in Vdu |-> 0]
  /\ instances = [v \in Vdu |-> 0]
  /\ deployed = {}
  /\ confGen = {}
  /\ acks = [v \in Vdu |-> 0]
  /\ configured = {}
  /\ errored = {}
  /\ status = "PENDING"
  /\ confirming = {}
  /\ failing = {}
  /\ confCasts = {}
  /\ updCasts = [v \in Vdu |-> 0]
  /\ ackMsgs = [v \in Vdu |-> 0]
  /\ errMsgs = [v \in Vdu |-> 0]
  /\ mgr = "off"
  /\ fileConf = {}
  /\ known = {}
  /\ running = [v \in Vdu |-> 0]
  /\ lost = {}
  /\ updates = 0
  /\ kills = 0

-----------------------------------------------------------------------------
(* The deploy greenthread *)

\* _launch_vnfds up to the server_create of _boot_vdu.
LaunchVnfds(v) ==
  /\ pc = "launch"
  /\ v \in todo
  /\ pc' = "boot"
  /\ current' = v
  /\ boots' = [boots EXCEPT ![v] = @ + 1]
  /\ UNCHANGED <<tmpl, wave, todo, nsVars, status, rpcVars, msgVars, mgrVars, histVars>>

\* The server is ACTIVE: the rest of _launch_vnfds records it.
BootActive ==
  /\ pc = "boot"
  /\ current \notin tmpl.multi
  /\ instances' = [instances EXCEPT ![current] = 1]
  /\ deployed' = deployed \cup {current}
  /\ todo' = todo \ {current}
  /\ current' = NoVdu
  /\ pc' = "launch"
  /\ UNCHANGED <<tmpl, wave, boots, confGen, acks, configured, errored, status,
                 rpcVars, msgVars, mgrVars, histVars>>

\* Mutant: the error is recorded but the exception is not raised.
BootErrorGoesOn ==
  /\ pc = "boot"
  /\ current \notin tmpl.multi
  /\ status' = "ERROR"
  /\ instances' = [instances EXCEPT ![current] = 1]
  /\ deployed' = deployed \cup {current}
  /\ todo' = todo \ {current}
  /\ current' = NoVdu
  /\ pc' = "launch"
  /\ UNCHANGED <<tmpl, wave, boots, confGen, acks, configured, errored,
                 rpcVars, msgVars, mgrVars, histVars>>

\* The server is in ERROR: the status says so and InstanceException ends the
\* greenthread.
BootError ==
  /\ pc = "boot"
  /\ current \notin tmpl.multi
  /\ status' = "ERROR"
  /\ pc' = "dead"
  /\ UNCHANGED <<tmpl, wave, todo, current, boots, nsVars, rpcVars, msgVars,
                 mgrVars, histVars>>

\* The branch for several instances reads instance.name of a list as soon as
\* one server has an outcome: the AttributeError ends the greenthread.
BootMulti ==
  /\ pc = "boot"
  /\ current \in tmpl.multi
  /\ pc' = "dead"
  /\ UNCHANGED <<tmpl, wave, todo, current, boots, nsVars, status, rpcVars,
                 msgVars, mgrVars, histVars>>

\* All independent VDUs are up: write their configuration to a file and start
\* the VNF manager on it.
InvokeVnfManager ==
  /\ pc = "launch"
  /\ todo = {}
  /\ mgr = "off"
  /\ fileConf' = NewConf
  /\ confGen' = confGen \cup NewConf
  /\ mgr' = "init"
  /\ pc' = "wait"
  /\ UNCHANGED <<tmpl, wave, todo, current, boots, instances, deployed, acks,
                 configured, errored, status, rpcVars, msgVars, known, running,
                 histVars>>

\* All VDUs of a later wave are up: cast their configuration. A fanout cast
\* that finds no consumer is dropped.
CastConfigureVdus ==
  /\ pc = "launch"
  /\ todo = {}
  /\ mgr # "off"
  /\ confGen' = confGen \cup NewConf \cup wave
  /\ IF mgr = "serving"
       THEN confCasts' = confCasts \cup {NewConf} /\ UNCHANGED lost
       ELSE lost' = lost \cup NewConf /\ UNCHANGED confCasts
  /\ pc' = "wait"
  /\ UNCHANGED <<tmpl, wave, todo, current, boots, instances, deployed, acks,
                 configured, errored, status, rpcVars, updCasts, ackMsgs,
                 errMsgs, mgrVars, updates, kills>>

\* Mutant: the wait is given up only when every VDU has failed.
WaitErrorOfAll ==
  /\ pc = "wait"
  /\ wave # {} /\ wave \subseteq errored
  /\ pc' = "dead"
  /\ UNCHANGED <<tmpl, wave, todo, current, boots, nsVars, status, rpcVars,
                 msgVars, mgrVars, histVars>>

\* wait_for_acknowledgment finds an error of a VDU it waits for.
WaitError ==
  /\ pc = "wait"
  /\ wave \cap errored # {}
  /\ pc' = "dead"
  /\ UNCHANGED <<tmpl, wave, todo, current, boots, nsVars, status, rpcVars,
                 msgVars, mgrVars, histVars>>

\* wait_for_acknowledgment finds all of them configured.
WaitDone ==
  /\ pc = "wait"
  /\ wave \cap errored = {}
  /\ wave \subseteq Configured
  /\ pc' = "resolve"
  /\ UNCHANGED <<tmpl, wave, todo, current, boots, nsVars, status, rpcVars,
                 msgVars, mgrVars, histVars>>

\* The loop of _resolve_dependency goes round: the next wave, possibly empty.
ResolveDependency ==
  /\ pc = "resolve"
  /\ ~AllConfigured
  /\ wave' = Ready
  /\ todo' = Ready
  /\ pc' = "launch"
  /\ UNCHANGED <<tmpl, current, boots, nsVars, status, rpcVars, msgVars,
                 mgrVars, histVars>>

\* The loop of _resolve_dependency ends.
DependencyResolved ==
  /\ pc = "resolve"
  /\ AllConfigured
  /\ pc' = "finish"
  /\ UNCHANGED <<tmpl, wave, todo, current, boots, nsVars, status, rpcVars,
                 msgVars, mgrVars, histVars>>

\* The end of deploy_vnfs.
DeployVnfs ==
  /\ pc = "finish"
  /\ status' = "ACTIVE"
  /\ pc' = "done"
  /\ UNCHANGED <<tmpl, wave, todo, current, boots, nsVars, rpcVars, msgVars,
                 mgrVars, histVars>>

\* A nova, neutron, database or AMQP call of the greenthread raises: nobody
\* catches it, the greenthread ends and the status stays.
DeployRaises ==
  /\ pc \in {"launch", "boot", "finish"}
  /\ pc' = "dead"
  /\ UNCHANGED <<tmpl, wave, todo, current, boots, nsVars, status, rpcVars,
                 msgVars, mgrVars, histVars>>

-----------------------------------------------------------------------------
(* The RPC greenthreads of the plugin *)

\* build_acknowledge_list, status COMPLETE, up to its HTTP notification: the
\* count is taken here and decides whether configured grows.
AckComplete(v) ==
  /\ ackMsgs[v] > 0
  /\ ackMsgs' = [ackMsgs EXCEPT ![v] = @ - 1]
  /\ acks' = [acks EXCEPT ![v] = @ + 1]
  /\ confirming' = IF instances[v] <= acks[v] + 1
                     THEN confirming \cup {<<v, acks[v] + 1>>}
                     ELSE confirming
  /\ UNCHANGED <<deployVars, instances, deployed, confGen, configured, errored,
                 status, failing, confCasts, updCasts, errMsgs, mgrVars, histVars>>

\* build_acknowledge_list, status COMPLETE, after the notification.
AckConfirmed(e) ==
  /\ e \in confirming
  /\ confirming' = confirming \ {e}
  /\ configured' = configured \cup {e}
  /\ UNCHANGED <<deployVars, instances, deployed, confGen, acks, errored, status,
                 failing, msgVars, mgrVars, histVars>>

\* Mutant: the error is listed but never written to the status.
AckErrorSilent(v) ==
  /\ errMsgs[v] > 0
  /\ errMsgs' = [errMsgs EXCEPT ![v] = @ - 1]
  /\ errored' = errored \cup {v}
  /\ UNCHANGED <<deployVars, instances, deployed, confGen, acks, configured,
                 status, rpcVars, confCasts, updCasts, ackMsgs, mgrVars, histVars>>

\* build_acknowledge_list, status ERROR, up to its database transaction.
AckError(v) ==
  /\ errMsgs[v] > 0
  /\ errMsgs' = [errMsgs EXCEPT ![v] = @ - 1]
  /\ errored' = errored \cup {v}
  /\ failing' = failing \cup {v}
  /\ UNCHANGED <<deployVars, instances, deployed, confGen, acks, configured,
                 status, confirming, confCasts, updCasts, ackMsgs, mgrVars, histVars>>

\* build_acknowledge_list, status ERROR: update_nsd_status.
AckErrorStatus(v) ==
  /\ v \in failing
  /\ failing' = failing \ {v}
  /\ status' = "ERROR"
  /\ UNCHANGED <<deployVars, nsVars, confirming, msgVars, mgrVars, histVars>>

\* update_service: one cast, whatever the status of the service is.
UpdateService(v) ==
  /\ updates < MaxUpdates
  /\ updates' = updates + 1
  /\ updCasts' = IF mgr = "serving" THEN [updCasts EXCEPT ![v] = @ + 1] ELSE updCasts
  /\ UNCHANGED <<deployVars, nsVars, status, rpcVars, confCasts, ackMsgs,
                 errMsgs, mgrVars, lost, kills>>

-----------------------------------------------------------------------------
(* The VNF manager process *)

\* configure_vdus of the manager on the VDUs of conf it does not know yet: an
\* immediate ack for those without a driver, a driver thread for the others.
ConfigureKnown(conf) ==
  LET new == conf \ known
  IN  /\ new \cap Broken = {}
      /\ known' = known \cup new
      /\ ackMsgs' = [v \in Vdu |-> IF v \in new \cap NoDriver THEN ackMsgs[v] + 1
                                                              ELSE ackMsgs[v]]
      /\ running' = [v \in Vdu |-> IF v \in new \ NoDriver THEN running[v] + 1
                                                           ELSE running[v]]

\* configure_vdus of the manager when a driver cannot be imported: it raises
\* before any ack, and drv_conf holds the whole batch or nothing of it.
ConfigureRaises(conf) ==
  LET new == conf \ known
  IN  /\ new \cap Broken # {}
      /\ \/ known' = known
         \/ new \ Broken # {} /\ known' = known \cup new
      /\ UNCHANGED <<ackMsgs, running>>

\* VNFManager.__init__: the configuration file, then the monitor thread. An
\* empty file has no 'monitor' key.
ManagerInit ==
  /\ mgr = "init"
  /\ fileConf # {}
  /\ \/ ConfigureKnown(fileConf) /\ mgr' = "starting" /\ UNCHANGED lost
     \/ ConfigureRaises(fileConf) /\ mgr' = "dead" /\ lost' = lost \cup fileConf
  /\ UNCHANGED <<deployVars, nsVars, status, rpcVars, confCasts, updCasts,
                 errMsgs, fileConf, updates, kills>>

ManagerInitEmpty ==
  /\ mgr = "init"
  /\ fileConf = {}
  /\ mgr' = "dead"
  /\ UNCHANGED <<deployVars, nsVars, status, rpcVars, msgVars, fileConf, known,
                 running, histVars>>

\* The service creates its RPC consumers after the manager object.
ManagerServe ==
  /\ mgr = "starting"
  /\ mgr' = "serving"
  /\ UNCHANGED <<deployVars, nsVars, status, rpcVars, msgVars, fileConf, known,
                 running, histVars>>

\* A configure_vdus cast reaches the manager.
ManagerConfigure(conf) ==
  /\ mgr = "serving"
  /\ conf \in confCasts
  /\ confCasts' = confCasts \ {conf}
  /\ \/ ConfigureKnown(conf) /\ UNCHANGED lost
     \/ ConfigureRaises(conf) /\ lost' = lost \cup conf
  /\ UNCHANGED <<deployVars, nsVars, status, rpcVars, updCasts, errMsgs, mgr,
                 fileConf, updates, kills>>

\* An update_vdu_configuration cast reaches the manager: the instance is
\* configured again even if it is complete or still being configured. An
\* unknown VDU is an exception that update_vdu_configuration swallows.
ManagerUpdate(v) ==
  /\ mgr = "serving"
  /\ updCasts[v] > 0
  /\ updCasts' = [updCasts EXCEPT ![v] = @ - 1]
  /\ ackMsgs' = IF v \in known \cap NoDriver THEN [ackMsgs EXCEPT ![v] = @ + 1]
                                             ELSE ackMsgs
  /\ running' = IF v \in known \ NoDriver THEN [running EXCEPT ![v] = @ + 1]
                                          ELSE running
  /\ UNCHANGED <<deployVars, nsVars, status, rpcVars, confCasts, errMsgs, mgr,
                 fileConf, known, histVars>>

\* Mutant: the monitor keeps the entry of a thread it has acked.
DriverEndsKept(v) ==
  /\ mgr \in {"starting", "serving"}
  /\ running[v] > 0
  /\ ackMsgs[v] < 3 /\ ackMsgs' = [ackMsgs EXCEPT ![v] = @ + 1]
  /\ UNCHANGED <<deployVars, nsVars, status, rpcVars, confCasts, updCasts, errMsgs,
                 mgr, fileConf, known, running, histVars>>

\* A driver thread ends and the monitor thread acks its instance.
DriverEnds(v) ==
  /\ mgr \in {"starting", "serving"}
  /\ running[v] > 0
  /\ running' = [running EXCEPT ![v] = @ - 1]
  /\ \/ /\ v \notin Broken
        /\ ackMsgs' = [ackMsgs EXCEPT ![v] = @ + 1]
        /\ UNCHANGED errMsgs
     \/ /\ errMsgs' = [errMsgs EXCEPT ![v] = @ + 1]
        /\ UNCHANGED ackMsgs
  /\ UNCHANGED <<deployVars, nsVars, status, rpcVars, confCasts, updCasts, mgr,
                 fileConf, known, histVars>>

\* The deletion of another service runs "pkill -9 vnf-manager" on this host.
ManagerKilled ==
  /\ kills < MaxKills
  /\ mgr \in {"init", "starting", "serving"}
  /\ kills' = kills + 1
  /\ mgr' = "dead"
  /\ lost' = lost \cup (IF mgr = "init" THEN fileConf ELSE {})
                  \cup (UNION confCasts) \cup {v \in Vdu : running[v] > 0}
  /\ running' = [v \in Vdu |-> 0]
  /\ confCasts' = {}
  /\ updCasts' = [v \in Vdu |-> 0]
  /\ UNCHANGED <<deployVars, nsVars, status, rpcVars, ackMsgs, errMsgs,
                 fileConf, known, updates>>

-----------------------------------------------------------------------------
Deploy ==
  \/ \E v \in Vdu : LaunchVnfds(v)
  \/ BootActive \/ BootError \/ BootMulti
  \/ InvokeVnfManager \/ CastConfigureVdus
  \/ WaitError \/ WaitDone
  \/ ResolveDependency \/ DependencyResolved
  \/ DeployVnfs

Acknowledge ==
  \/ \E v \in Vdu : AckComplete(v) \/ AckError(v) \/ AckErrorStatus(v)
  \/ \E e \in confirming : AckConfirmed(e)

Manager ==
  \/ ManagerInit \/ ManagerInitEmpty \/ ManagerServe
  \/ \E conf \in confCasts : ManagerConfigure(conf)
  \/ \E v \in Vdu : ManagerUpdate(v) \/ DriverEnds(v)

\* What nobody is obliged to do: exceptions, API calls, other services.
Environment ==
  \/ DeployRaises
  \/ \E v \in Vdu : UpdateService(v)
  \/ ManagerKilled

Next == Deploy \/ Acknowledge \/ Manager \/ Environment

Spec == Init /\ [][Next]_vars

(***************************************************************************)
(* The greenthread runs whenever it can; nova gives every server an        *)
(* outcome; the manager process is scheduled; a driver thread returns (the *)
(* drivers retry until the device answers); RPC delivers what has a        *)
(* consumer and its handlers run to their end.                             *)
(***************************************************************************)
Fairness ==
  /\ WF_vars(Deploy)
  /\ WF_vars(ManagerInit \/ ManagerInitEmpty \/ ManagerServe)
  /\ WF_vars(\E conf \in confCasts : ManagerConfigure(conf))
  /\ \A v \in Vdu :
       /\ WF_vars(ManagerUpdate(v))
       /\ WF_vars(DriverEnds(v))
       /\ WF_vars(AckComplete(v))
       /\ WF_vars(AckError(v))
       /\ WF_vars(AckErrorStatus(v))
  /\ WF_vars(\E e \in confirming : AckConfirmed(e))

FairSpec == Spec /\ Fairness
-----------------------------------------------------------------------------
(* Properties *)

\* TypeOK: the shape of every variable.
TypeOK ==
  /\ tmpl \in Templates
  /\ pc \in {"launch", "boot", "wait", "resolve", "finish", "done", "dead"}
  /\ wave \subseteq Vdu /\ todo \subseteq Vdu
  /\ current \in Vdu \cup {NoVdu} /\ (pc = "boot" => current \in todo)
  /\ boots \in [Vdu -> Nat] /\ instances \in [Vdu -> Nat] /\ acks \in [Vdu -> Nat]
  /\ deployed \subseteq Vdu /\ confGen \subseteq Vdu /\ errored \subseteq Vdu
  /\ configured \subseteq Vdu \X Nat /\ confirming \subseteq Vdu \X Nat
  /\ failing \subseteq Vdu
  /\ status \in {"PENDING", "ACTIVE", "ERROR"}
  /\ confCasts \subseteq SUBSET Vdu
  /\ updCasts \in [Vdu -> Nat] /\ ackMsgs \in [Vdu -> Nat] /\ errMsgs \in [Vdu -> Nat]
  /\ mgr \in {"off", "init", "starting", "serving", "dead"}
  /\ fileConf \subseteq Vdu /\ known \subseteq Vdu
  /\ running \in [Vdu -> Nat]
  /\ lost \subseteq Vdu
  /\ updates \in Nat /\ kills \in Nat

\* DependencyOrder: a server of a VDU is created (_launch_vnfds) only once
\* every VDU it depends on has been acknowledged as configured, whatever the
\* acks, updates and failures do in the meantime.
DependencyOrder == \A v \in Vdu : boots[v] > 0 => tmpl.from[v] \subseteq Configured

\* BootedOnce: no round of _resolve_dependency launches a VDU that an earlier
\* round has launched.
BootedOnce == \A v \in Vdu : boots[v] <= 1

\* HandedOverOnce: the configuration of a VDU is given to the manager at most
\* once, in the file or in one cast (conf_generated), and never before its
\* server is up.
HandedOverOnce ==
  /\ \A c \in confCasts : c \subseteq deployed /\ c \cap (known \cup fileConf) = {}
  /\ \A c, d \in confCasts : c # d => c \cap d = {}
  /\ known \cup fileConf \subseteq deployed

\* NoSpuriousAck: every answer about a VDU (an ack counted, an error listed,
\* an ack in transit, a driver thread or an update that will be acked) is owed
\* to the one hand-over of its configuration or to an update request.
NoSpuriousAck ==
  \A v \in Vdu :
    acks[v] + ackMsgs[v] + errMsgs[v] + running[v] + updCasts[v]
        + (IF v \in errored THEN 1 ELSE 0)
      <= (IF v \in known THEN 1 ELSE 0) + updates

\* ActiveIsComplete: unless update_service interfered, a service is ACTIVE
\* only when every VDU is configured and none has reported an error.
ActiveIsComplete ==
  status = "ACTIVE" /\ updates = 0 => Configured = Vdu /\ errored = {}

\* ErrorStays: unless update_service interferes, the deployment never
\* overwrites the status ERROR.
ErrorStays ==
  [][updates = 0 /\ status = "ERROR" => status' = "ERROR"]_vars

\* A set of VDUs that wait for each other.
Cyclic == \E S \in (SUBSET Vdu) \ {{}} : \A v \in S : tmpl.from[v] \cap S # {}

\* DeployStops: the greenthread ends, unless the template is cyclic, the
\* manager has missed a configuration or update_service added acks.
DeployStops ==
  <>(pc \in {"done", "dead"} \/ Cyclic \/ lost # {} \/ updates > 0)

\* ErrorReported: an error ack ends in the status ERROR.
ErrorReported == \A v \in Vdu : errMsgs[v] > 0 ~> status = "ERROR"
=============================================================================
