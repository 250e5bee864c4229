----------------------------- MODULE VnfDelete ------------------------------
(***************************************************************************)
(* Deletion of network services by the vnfsvc plugin, while services are   *)
(* deployed and others are deleted.                                        *)
(*                                                                         *)
(* delete_service reads the rows of a service into a dict that belongs to  *)
(* the module vnf_db, and the greenthread of delete_vnfs works from it: it *)
(* is the same dict for every deletion, and each reads it again after each *)
(* API call.  Greenthreads switch at API, database and HTTP calls only, so *)
(* a step is what happens from one such call to the next.                  *)
(***************************************************************************)
EXTENDS Naturals, FiniteSets

CONSTANTS
  Service,     \* the services that have been created
  NoService,   \* no row of NetworkService: the id is unknown, the query is empty
  Size,        \* the VDUs of each service are 1..Size
  Deployed,    \* the services whose deployment has ended before
  Call,        \* bound: the delete_service requests
  MaxInstances, \* bound: the servers of a VDU, num_instances of its flavour
  MaxRefused,  \* bound: services for which nova or neutron refuses a call
  MaxRestarts  \* bound: restarts of the plugin

ASSUME ServiceAssumption == NoService \notin Service
ASSUME DeployedAssumption == Deployed \subseteq Service
ASSUME SizeAssumption == Size \in [Service -> Nat \ {0}]
ASSUME BoundAssumption == MaxInstances \in Nat \ {0} /\ MaxRestarts \in Nat /\ MaxRefused \in Nat

VARIABLES
  row,       \* status of the NetworkService row, "gone" once it is deleted
  recorded,  \* the servers, as <<VDU, index>>, whose id is in the row of their VDU
  live,      \* the servers that nova runs, as <<service, server>>
  left,      \* what neutron still has of a service
  deploy,    \* the deploy greenthread of each service
  current,   \* the VDU it is booting
  dict,      \* service_db_dict: svc of 'service_db', of and has of 'instances'
  pc, svc, at, count,  \* each deletion: where it is, its service, its loop
  todo,      \* the instance_list of its round, [of: service, has: servers left]
  mixed,     \* deletions during which that of another service wrote the dict
  late,      \* deletions that read the rows of an unfinished deployment
  refused,   \* services for which nova or neutron refused a call
  restarts

deployVars == <<deploy, current>>
callVars == <<pc, svc, at, count, todo>>
histVars == <<mixed, late, refused, restarts>>
vars == <<row, recorded, live, left, deployVars, dict, callVars, histVars>>

Vdu(s) == 1..Size[s]
Servers(v) == {v} \X (1..MaxInstances)
Server(s) == Vdu(s) \X (1..MaxInstances)
Part == {"interfaces", "router", "ports", "networks"}

NoList == [of |-> NoService, has |-> {}]

Over == {"idle", "done", "returned", "stuck", "lost"}
Running == {c \in Call : pc[c] \notin Over}

\* A server whose id no row will ever have, or not yet.
Unrecorded(s) == {n \in Server(s) : <<s, n>> \in live /\ n \notin recorded[s]}

Init ==
  /\ row = [s \in Service |-> IF s \in Deployed THEN "ACTIVE" ELSE "PENDING"]
  /\ recorded = [s \in Service |-> IF s \in Deployed THEN Vdu(s) \X {1} ELSE {}]
  /\ live = UNION {{s} \X (Vdu(s) \X {1}) : s \in Deployed}
  /\ left = [s \in Service |-> Part]
  /\ deploy = [s \in Service |-> IF s \in Deployed THEN "done" ELSE "launch"]
  /\ current = [s \in Service |-> 1]
  /\ dict = [svc |-> NoService, of |-> NoService, has |-> {}]
  /\ pc = [c \in Call |-> "idle"]
  /\ svc = [c \in Call |-> NoService]
  /\ at = [c \in Call |-> 1] /\ count = [c \in Call |-> 0] /\ todo = [c \in Call |-> NoList]
  /\ mixed = {} /\ late = {} /\ refused = {} /\ restarts = 0

-----------------------------------------------------------------------------
(* The deploy greenthread, as far as it meets a deletion.                  *)

DeployGoes(s, p) == deploy' = [deploy EXCEPT ![s] = p]

\* _launch_vnfds and _boot_vdu up to server_create: update_vdu_details and
\* get_instance_ids raise if the row of the VDU is gone.
Launch(s) ==
  /\ deploy[s] = "launch"
  /\ \E v \in Vdu(s) :
       /\ Servers(v) \cap recorded[s] = {}
       /\ IF row[s] = "gone"
            THEN DeployGoes(s, "dead") /\ UNCHANGED current
            ELSE DeployGoes(s, "create") /\ current' = [current EXCEPT ![s] = v]
  /\ UNCHANGED <<row, recorded, live, left, dict, callVars, histVars>>

\* Servers of one VDU are created, recorded and deleted in the order of their index.
First(S) == {n \in S : \A m \in S : n[2] <= m[2]}

\* server_create, one server: a VDU whose flavour asks for several gets them all
\* before _boot_vdu has any of their ids. Each gets a port in its networks.
ServerCreate(s) ==
  /\ deploy[s] = "create"
  /\ \/ /\ "networks" \notin left[s]
        /\ DeployGoes(s, "dead") /\ UNCHANGED <<live, left>>
     \/ /\ "networks" \in left[s]
        /\ left' = [left EXCEPT ![s] = @ \cup {"ports"}]
        /\ LET missing == {n \in Servers(current[s]) : <<s, n>> \notin live} IN
           \E n \in First(missing) :
             /\ live' = live \cup {<<s, n>>}
             /\ DeployGoes(s, "record") \/ (missing # {n} /\ DeployGoes(s, "create"))
  /\ UNCHANGED <<row, recorded, current, dict, callVars, histVars>>

\* The greenthread when it has written the id of n to the row. After those of
\* several servers it waits for them, and raises when one has an outcome: it
\* reads the name of a list.
Written(s, n) ==
  /\ recorded' = [recorded EXCEPT ![s] = @ \cup {n}]
  /\ \/ Unrecorded(s) # {n} /\ DeployGoes(s, "record")
     \/ /\ Unrecorded(s) = {n}
        /\ DeployGoes(s, IF Servers(current[s]) \cap recorded'[s] = {n} THEN "launch" ELSE "poll")

\* Mutant: the row of a service that is being deleted is left alone.
RecordSkipped(s) ==
  /\ deploy[s] = "record"
  /\ CASE row[s] = "gone" -> DeployGoes(s, "dead") /\ UNCHANGED recorded
       [] row[s] = "DELETING" -> DeployGoes(s, "launch") /\ UNCHANGED recorded
       [] OTHER -> \E n \in First(Unrecorded(s)) : Written(s, n)
  /\ UNCHANGED <<row, live, left, current, dict, callVars, histVars>>

\* update_vdu_instance_details, of one server.
Record(s) ==
  /\ deploy[s] = "record"
  /\ \/ row[s] = "gone" /\ DeployGoes(s, "dead") /\ UNCHANGED recorded
     \/ row[s] # "gone" /\ \E n \in First(Unrecorded(s)) : Written(s, n)
  /\ UNCHANGED <<row, live, left, current, dict, callVars, histVars>>

\* The end of deploy_vnfs: update_nsd_status raises without a row.
DeployVnfs(s) ==
  /\ deploy[s] = "launch" /\ \A v \in Vdu(s) : Servers(v) \cap recorded[s] # {}
  /\ IF row[s] = "gone"
       THEN DeployGoes(s, "dead") /\ UNCHANGED row
       ELSE DeployGoes(s, "done") /\ row' = [row EXCEPT ![s] = "ACTIVE"]
  /\ UNCHANGED <<recorded, live, left, current, dict, callVars, histVars>>

\* A server or a driver is in error, or some call raises: the greenthread ends.
DeployRaises(s) ==
  /\ deploy[s] \in {"launch", "create", "record", "poll"}
  /\ DeployGoes(s, "dead")
  /\ \/ UNCHANGED row
     \/ row[s] # "gone" /\ row' = [row EXCEPT ![s] = "ERROR"]
  /\ UNCHANGED <<recorded, live, left, current, dict, callVars, histVars>>

-----------------------------------------------------------------------------
(* delete_service and the greenthread of delete_vnfs.                      *)

Goes(c, p) == pc' = [pc EXCEPT ![c] = p]
Overwrites(c, s) == mixed' = mixed \cup {d \in Running \ {c} : svc[d] # s}

\* A request, of a service that need not exist (any more), up to the first query
\* of delete_service_model. Without a row it raises, which ends the request,
\* but the empty list stays in the dict.
DeleteService(c, s) ==
  /\ pc[c] = "idle"
  /\ svc' = [svc EXCEPT ![c] = s]
  /\ IF s \in Service /\ row[s] # "gone"
       THEN dict' = [dict EXCEPT !.svc = s] /\ Goes(c, "instances")
       ELSE dict' = [dict EXCEPT !.svc = NoService] /\ Goes(c, "returned")
  /\ Overwrites(c, s)
  /\ UNCHANGED <<row, recorded, live, left, deployVars, at, count, todo, late, refused, restarts>>

\* Mutant: the rows of the VDUs are queried without the filter.
ReadInstancesAny(c) ==
  /\ pc[c] = "instances"
  /\ \E s \in Service : dict' = [dict EXCEPT !.of = s, !.has = IF row[s] = "gone" THEN {} ELSE recorded[s]]
  /\ Goes(c, "status") /\ Overwrites(c, svc[c])
  /\ UNCHANGED <<row, recorded, live, left, deployVars, svc, at, count, todo, late, refused, restarts>>

\* delete_service_model, the rows of the VDUs.
ReadInstances(c) ==
  LET s == svc[c] IN
  /\ pc[c] = "instances"
  /\ dict' = [dict EXCEPT !.of = s, !.has = IF row[s] = "gone" THEN {} ELSE recorded[s]]
  /\ late' = IF deploy[s] \in {"done", "dead"} /\ Unrecorded(s) = {} THEN late ELSE late \cup {c}
  /\ Goes(c, "status") /\ Overwrites(c, svc[c])
  /\ UNCHANGED <<row, recorded, live, left, deployVars, svc, at, count, todo, refused, restarts>>

\* The status DELETING, whose exception is swallowed, and spawn_n.
SetDeleting(c) ==
  /\ pc[c] = "status"
  /\ row' = IF row[svc[c]] = "gone" THEN row ELSE [row EXCEPT ![svc[c]] = "DELETING"]
  /\ Goes(c, "vnfm")
  /\ UNCHANGED <<recorded, live, left, deployVars, dict, svc, at, count, todo, histVars>>

\* delete_vtap_and_vnfm, which swallows all, and the start of delete_vdus: the
\* range of its loop is fixed here. (What the kill does to a deployment is
\* in VnfDeploy.)
DeleteVtapAndVnfm(c) ==
  /\ pc[c] = "vnfm"
  /\ count' = [count EXCEPT ![c] = Size[dict.of]]
  /\ Goes(c, "vdus")
  /\ UNCHANGED <<row, recorded, live, left, deployVars, dict, svc, at, todo, histVars>>

\* An exception of nova or neutron, which is swallowed.
Refuse(s) ==
  /\ s \notin refused /\ Cardinality(refused) < MaxRefused
  /\ refused' = refused \cup {s}

\* The loop goes on, or ends with the sleep of 15 seconds.
Round(c) ==
  IF at[c] < count[c]
    THEN Goes(c, "vdus") /\ at' = [at EXCEPT ![c] = @ + 1] /\ UNCHANGED count
    ELSE Goes(c, "interfaces") /\ at' = [at EXCEPT ![c] = 1] /\ count' = [count EXCEPT ![c] = 0]

\* The ids in the row of a VDU that the dict has.
InstanceList(v) == {n \in dict.has : n[1] = v}

\* Mutant: what nova raises for a row without an id is not swallowed.
DeleteVduRaises(c) ==
  /\ pc[c] = "vdus"
  /\ IF at[c] > Size[dict.of] \/ InstanceList(at[c]) = {}
       THEN Goes(c, "stuck") /\ UNCHANGED todo
       ELSE Goes(c, "servers") /\ todo' = [todo EXCEPT ![c] = [of |-> dict.of, has |-> InstanceList(at[c])]]
  /\ UNCHANGED <<row, recorded, live, left, deployVars, dict, svc, at, count, histVars>>

\* delete_vdus, the start of a round: an index that the list no longer has
\* raises, and what nova says to the empty id of a row without one is swallowed.
DeleteVdu(c) ==
  /\ pc[c] = "vdus"
  /\ \/ /\ at[c] > Size[dict.of]
        /\ Goes(c, "stuck") /\ UNCHANGED <<at, count, todo>>
     \/ /\ at[c] <= Size[dict.of] /\ InstanceList(at[c]) = {}
        /\ Round(c) /\ UNCHANGED todo
     \/ /\ at[c] <= Size[dict.of] /\ InstanceList(at[c]) # {}
        /\ Goes(c, "servers") /\ todo' = [todo EXCEPT ![c] = [of |-> dict.of, has |-> InstanceList(at[c])]]
        /\ UNCHANGED <<at, count>>
  /\ UNCHANGED <<row, recorded, live, left, deployVars, dict, svc, histVars>>

\* delete_vdus, one server: an exception of nova is swallowed, but ends the round.
DeleteServer(c) ==
  /\ pc[c] = "servers"
  /\ \/ \E n \in First(todo[c].has) :
          /\ live' = live \ {<<todo[c].of, n>>} /\ UNCHANGED refused
          /\ IF todo[c].has = {n}
               THEN Round(c) /\ todo' = [todo EXCEPT ![c] = NoList]
               ELSE UNCHANGED <<pc, at, count>> /\ todo' = [todo EXCEPT ![c] = [of |-> @.of, has |-> @.has \ {n}]]
     \/ /\ Refuse(todo[c].of) /\ UNCHANGED live
        /\ Round(c) /\ todo' = [todo EXCEPT ![c] = NoList]
  /\ UNCHANGED <<row, recorded, left, deployVars, dict, svc, mixed, late, restarts>>

\* What neutron deletes only when other parts are deleted.
Needs == [p \in Part |-> CASE p = "router" -> {"interfaces"}
                           [] p = "networks" -> {"interfaces", "ports"}
                           [] OTHER -> {}]

\* Mutant: the networks are deleted before the ports.
AfterSwapped == [p \in Part |-> CASE p = "interfaces" -> "router" [] p = "router" -> "networks"
                                  [] p = "networks" -> "ports" [] OTHER -> "row"]

\* The order of the calls of delete_vnfs.
After == [p \in Part |-> CASE p = "interfaces" -> "router" [] p = "router" -> "ports"
                           [] p = "ports" -> "networks" [] OTHER -> "row"]

\* delete_router_interfaces, delete_router, delete_ports, delete_networks: each
\* takes the service from the dict. What neutron raises is swallowed, unless it
\* comes from the query of the ports that two of them begin with.
DeletePart(c) ==
  LET p == pc[c] s == dict.svc IN
  /\ p \in Part
  /\ \/ /\ s = NoService
        /\ Goes(c, "stuck") /\ UNCHANGED <<left, refused>>
     \/ /\ s # NoService
        /\ left' = IF Needs[p] \cap left[s] = {} THEN [left EXCEPT ![s] = @ \ {p}] ELSE left
        /\ Goes(c, After[p]) /\ UNCHANGED refused
     \/ /\ s # NoService
        /\ Refuse(s) /\ UNCHANGED left
        /\ Goes(c, After[p]) \/ (p \in {"interfaces", "ports"} /\ Goes(c, "stuck"))
  /\ UNCHANGED <<row, recorded, live, deployVars, dict, svc, at, count, todo, mixed, late, restarts>>

\* delete_db_dict, its query: without a row it raises.
QueryRow(c) ==
  /\ pc[c] = "row"
  /\ Goes(c, IF row[svc[c]] = "gone" THEN "stuck" ELSE "delete")
  /\ UNCHANGED <<row, recorded, live, left, deployVars, dict, svc, at, count, todo, histVars>>

\* delete_db_dict, and the event OffBoard_Complete.
DeleteRow(c) ==
  /\ pc[c] = "delete"
  /\ row' = [row EXCEPT ![svc[c]] = "gone"]
  /\ Goes(c, "done")
  /\ UNCHANGED <<recorded, live, left, deployVars, dict, svc, at, count, todo, histVars>>

\* The greenthreads and the dict are lost, the rows are not.
Restart ==
  /\ restarts < MaxRestarts
  /\ restarts' = restarts + 1
  /\ deploy' = [s \in Service |-> IF deploy[s] = "done" THEN "done" ELSE "dead"]
  /\ pc' = [c \in Call |-> IF c \in Running THEN "lost" ELSE pc[c]]
  /\ dict' = [svc |-> NoService, of |-> NoService, has |-> {}]
  /\ UNCHANGED <<row, recorded, live, left, current, svc, at, count, todo, mixed, late, refused>>

Deploy(s) == Launch(s) \/ ServerCreate(s) \/ Record(s) \/ DeployVnfs(s) \/ DeployRaises(s)

Deletion(c) ==
  \/ ReadInstances(c) \/ SetDeleting(c) \/ DeleteVtapAndVnfm(c)
  \/ DeleteVdu(c) \/ DeleteServer(c) \/ DeletePart(c) \/ QueryRow(c) \/ DeleteRow(c)

Next ==
  \/ \E s \in Service : Deploy(s)
  \/ \E c \in Call, s \in Service \cup {NoService} : DeleteService(c, s)
  \/ \E c \in Call : Deletion(c)
  \/ Restart

Spec == Init /\ [][Next]_vars

-----------------------------------------------------------------------------
(* Properties.                                                             *)

TypeOK ==
  /\ row \in [Service -> {"PENDING", "ACTIVE", "ERROR", "DELETING", "gone"}]
  /\ recorded \in [Service -> SUBSET (Nat \X Nat)] /\ \A s \in Service : recorded[s] \subseteq Server(s)
  /\ live \subseteq Service \X (Nat \X Nat)
  /\ left \in [Service -> SUBSET Part]
  /\ deploy \in [Service -> {"launch", "create", "record", "poll", "done", "dead"}]
  /\ current \in [Service -> Nat] /\ \A s \in Service : current[s] \in Vdu(s)
  /\ dict \in [svc : Service \cup {NoService}, of : Service \cup {NoService}, has : SUBSET (Nat \X Nat)]
  /\ pc \in [Call -> Over \cup Part \cup {"instances", "status", "vnfm", "vdus", "servers", "row", "delete"}]
  /\ svc \in [Call -> Service \cup {NoService}]
  /\ at \in [Call -> Nat] /\ count \in [Call -> Nat]
  /\ todo \in [Call -> [of : Service \cup {NoService}, has : SUBSET (Nat \X Nat)]]
  /\ mixed \subseteq Call /\ late \subseteq Call /\ refused \subseteq Service
  /\ restarts \in 0..MaxRestarts

\* Whatever deletions overlap and share the dict, nothing is taken from a service
\* whose deletion nobody has asked for.
OnlyAsked ==
  \A s \in Service :
    (\A c \in Call : svc[c] # s) =>
      left[s] = Part /\ \A n \in recorded[s] : <<s, n>> \in live

\* A deletion that has told OffBoard_Complete has left nothing behind, unless one
\* of another service wrote the dict during it, the service was still being
\* deployed, or nova or neutron refused a call.
Swept ==
  \A c \in Call :
    pc[c] = "done" /\ c \notin mixed \cup late /\ svc[c] \notin refused =>
      left[svc[c]] = {} /\ \A n \in Server(svc[c]) : <<svc[c], n>> \notin live

\* A deletion raises only if one of another service wrote the dict during it,
\* another one of the same service has deleted the row, or neutron refused a call.
StuckByOther ==
  \A c \in Call :
    pc[c] = "stuck" => \/ c \in mixed \/ svc[c] \in refused
                       \/ \E o \in Call \ {c} : svc[o] = svc[c] /\ pc[o] = "done"

\* However a deployment and the deletions of its service overlap, the servers that
\* no row has are all of one VDU, and those of every other VDU can be deleted.
UnrecordedOfOneVdu ==
  \A s \in Service : \E v \in Vdu(s) : Unrecorded(s) \subseteq Servers(v)
=============================================================================
