-------------------------- MODULE VnfDelete_proofs --------------------------
(***************************************************************************)
(* Proofs about VnfDelete, for any services, requests, refusals and        *)
(* restarts.  A deletion is followed from the reading of the rows to the   *)
(* event OffBoard_Complete: as long as no deletion of another service has  *)
(* written the dict, it is the deletion's own (OwnInv); when nothing is    *)
(* being deployed any more, it has every server (CalmInv), and what the    *)
(* deletion has behind it is gone (SweptInv).                              *)
(***************************************************************************)
EXTENDS VnfDelete, TLAPS

(***************************************************************************)
(* The inductive invariant.                                                *)

Asked(s) == \E c \in Call : svc[c] = s

PastRead(c) == pc[c] \in Part \cup {"status", "vnfm", "vdus", "servers", "row", "delete"}

\* Another deletion of the same service has come to its end.
DeletedBefore(s) == \E o \in Call : svc[o] = s /\ pc[o] = "done"

\* What the place of a call tells of its service and its loop.
CallInv ==
  \A c \in Call :
    /\ pc[c] = "idle" => svc[c] = NoService
    /\ c \in Running \/ pc[c] = "done" => svc[c] \in Service
    /\ PastRead(c) => dict.of \in Service
    /\ pc[c] \in {"idle", "instances", "status", "vnfm"} => at[c] = 1
    /\ pc[c] = "servers" => todo[c].of \in Service

\* The dict names services whose deletion was asked for, the others are whole.
AskedInv ==
  /\ dict.svc # NoService => Asked(dict.svc)
  /\ dict.of # NoService => Asked(dict.of)
  /\ \A c \in Call : todo[c].of # NoService => Asked(todo[c].of)
  /\ \A s \in Service :
       ~Asked(s) =>
         /\ left[s] = Part
         /\ \A n \in recorded[s] : <<s, n>> \in live

\* The only servers without a row are those of the VDU that is being booted.
ServerInv ==
  \A s \in Service :
    /\ Unrecorded(s) \subseteq Servers(current[s])
    /\ deploy[s] \notin {"create", "record", "dead"} => Unrecorded(s) = {}

GoneInv == \A s \in Service : row[s] = "gone" => DeletedBefore(s)

\* The dict is that of any running deletion that no other service came between.
OwnInv ==
  \A c \in Running \ mixed :
    /\ dict.svc = svc[c] \/ (dict.svc = NoService /\ DeletedBefore(svc[c]))
    /\ PastRead(c) => dict.of = svc[c]
    /\ pc[c] \in {"vdus", "servers"} => at[c] <= count[c] /\ count[c] = Size[svc[c]]
    /\ pc[c] = "servers" => todo[c].of = svc[c]

Calm(c) == c \notin mixed \cup late /\ (PastRead(c) \/ pc[c] = "done")

\* After a calm reading the deployment is over, and the dict has all servers.
CalmInv ==
  \A c \in Call :
    Calm(c) =>
      /\ deploy[svc[c]] \in {"done", "dead"} /\ Unrecorded(svc[c]) = {}
      /\ PastRead(c) /\ row[svc[c]] # "gone" => dict.has = recorded[svc[c]]

\* The servers and the parts that a deletion has behind it.
ServerBehind(c, n) ==
  \/ pc[c] \in Part \cup {"row", "delete", "done"}
  \/ pc[c] \in {"vdus", "servers"} /\ n[1] < at[c]
  \/ pc[c] = "servers" /\ n[1] = at[c] /\ n \notin todo[c].has
Behind(c) ==
  CASE pc[c] = "router" -> {"interfaces"}
    [] pc[c] = "ports" -> {"interfaces", "router"}
    [] pc[c] = "networks" -> {"interfaces", "router", "ports"}
    [] pc[c] \in {"row", "delete", "done"} -> Part
    [] OTHER -> {}

\* What a calm deletion has behind it is no more, while its row lasts.
SweptInv ==
  \A c \in Call :
    Calm(c) /\ svc[c] \notin refused /\ (row[svc[c]] # "gone" \/ pc[c] \in {"delete", "done"}) =>
      /\ \A n \in Server(svc[c]) : ServerBehind(c, n) => <<svc[c], n>> \notin live
      /\ Behind(c) \cap left[svc[c]] = {}

-----------------------------------------------------------------------------
(***************************************************************************)
(* What the steps with a choice of servers leave and change.               *)

Phase == {"launch", "create", "record", "poll", "done", "dead"}
Place == Over \cup Part \cup {"instances", "status", "vnfm", "vdus", "servers", "row", "delete"}

\* server_create adds servers of the VDU that is being booted, and a port.
CreatePost(s) ==
  /\ UNCHANGED <<row, recorded, current, dict, pc, svc, at, count, todo, mixed, late, refused, restarts>>
  /\ deploy[s] = "create" /\ deploy' \in [Service -> Phase] /\ deploy'[s] \in {"create", "record", "dead"}
  /\ live \subseteq live' /\ live' \subseteq live \cup ({s} \X Servers(current[s]))
  /\ left' \in [Service -> SUBSET Part] /\ \A x \in Service : left[x] \subseteq left'[x]
  /\ \A x \in Service \ {s} : deploy'[x] = deploy[x] /\ left'[x] = left[x]

\* ServerCreate does that.
LEMMA CreateFacts ==
  ASSUME TypeOK, NEW s \in Service, ServerCreate(s)
  PROVE  CreatePost(s)
<1> USE DEF CreatePost
<1> DEFINE missing == {n \in Servers(current[s]) : <<s, n>> \notin live}
<1>1. /\ UNCHANGED <<row, recorded, current, dict, pc, svc, at, count, todo, mixed, late, refused, restarts>>
      /\ deploy[s] = "create"
  BY DEF ServerCreate, callVars, histVars
<1>2. CASE "networks" \notin left[s]
  BY <1>1, <1>2 DEF ServerCreate, DeployGoes, TypeOK, Phase
<1>3. CASE "networks" \in left[s]
  <2>1. PICK n \in First(missing) :
          /\ live' = live \cup {<<s, n>>}
          /\ deploy' = [deploy EXCEPT ![s] = "record"] \/ deploy' = [deploy EXCEPT ![s] = "create"]
    BY <1>3 DEF ServerCreate, DeployGoes
  <2>2. left' = [left EXCEPT ![s] = @ \cup {"ports"}]
    BY <1>3 DEF ServerCreate
  <2>3. n \in Servers(current[s])
    BY DEF First
  <2>4. live \subseteq live' /\ live' \subseteq live \cup ({s} \X Servers(current[s]))
    BY <2>1, <2>3
  <2> QED
    BY <1>1, <2>1, <2>2, <2>4 DEF TypeOK, Phase, Part
<1> QED
  BY <1>2, <1>3

\* update_vdu_instance_details adds one id that no row had, or raises.
RecordPost(s) ==
  /\ UNCHANGED <<row, live, left, current, dict, pc, svc, at, count, todo, mixed, late, refused, restarts>>
  /\ deploy[s] = "record" /\ deploy' \in [Service -> Phase]
  /\ \A x \in Service \ {s} : deploy'[x] = deploy[x] /\ recorded'[x] = recorded[x]
  /\ \/ recorded' = recorded /\ deploy'[s] = "dead"
     \/ \E n \in Unrecorded(s) :
          /\ recorded' = [recorded EXCEPT ![s] = @ \cup {n}]
          /\ deploy'[s] = "record" \/ (Unrecorded(s) = {n} /\ deploy'[s] \in {"launch", "poll"})

\* Record does that.
LEMMA RecordFacts ==
  ASSUME TypeOK, NEW s \in Service, Record(s)
  PROVE  RecordPost(s)
<1> USE DEF RecordPost
<1>1. /\ UNCHANGED <<row, live, left, current, dict, pc, svc, at, count, todo, mixed, late, refused, restarts>>
      /\ deploy[s] = "record"
  BY DEF Record, callVars, histVars
<1>2. CASE row[s] = "gone"
  BY <1>1, <1>2 DEF Record, DeployGoes, TypeOK, Phase
<1>3. CASE row[s] # "gone"
  <2>1. PICK n \in First(Unrecorded(s)) : Written(s, n)
    BY <1>3 DEF Record
  <2>2. n \in Unrecorded(s) /\ recorded' = [recorded EXCEPT ![s] = @ \cup {n}]
    BY <2>1 DEF First, Written
  <2>3. \/ deploy' = [deploy EXCEPT ![s] = "record"]
        \/ Unrecorded(s) = {n} /\ deploy' = [deploy EXCEPT ![s] = "launch"]
        \/ Unrecorded(s) = {n} /\ deploy' = [deploy EXCEPT ![s] = "poll"]
    BY <2>1 DEF Written, DeployGoes
  <2>4. deploy' \in [Service -> Phase] /\ \A x \in Service \ {s} : deploy'[x] = deploy[x] /\ recorded'[x] = recorded[x]
    BY <2>2, <2>3 DEF TypeOK, Phase
  <2>5. deploy'[s] = "record" \/ (Unrecorded(s) = {n} /\ deploy'[s] \in {"launch", "poll"})
    BY <2>3 DEF TypeOK
  <2> QED
    BY <1>1, <2>2, <2>4, <2>5
<1> QED
  BY <1>2, <1>3

\* A loop goes on with the next VDU or ends.
RoundDone(d) ==
  \/ pc'[d] = "vdus" /\ at[d] < count[d] /\ at'[d] = at[d] + 1 /\ count'[d] = count[d]
  \/ pc'[d] = "interfaces" /\ ~(at[d] < count[d]) /\ at'[d] = 1 /\ count'[d] = 0

\* What a step of a deletion does not touch: the other deletions.
OthersKeep(d) ==
  \A c \in Call \ {d} : pc'[c] = pc[c] /\ at'[c] = at[c] /\ count'[c] = count[c] /\ todo'[c] = todo[c]

LoopTypes ==
  /\ pc' \in [Call -> Place] /\ at' \in [Call -> Nat] /\ count' \in [Call -> Nat]
  /\ todo' \in [Call -> [of : Service \cup {NoService}, has : SUBSET (Nat \X Nat)]]

\* Round does that, and leaves the other deletions alone.
LEMMA RoundFacts ==
  ASSUME TypeOK, NEW d \in Call, Round(d)
  PROVE  /\ pc' \in [Call -> Place] /\ at' \in [Call -> Nat] /\ count' \in [Call -> Nat]
         /\ \A c \in Call \ {d} : pc'[c] = pc[c] /\ at'[c] = at[c] /\ count'[c] = count[c]
         /\ RoundDone(d)
<1>1. CASE at[d] < count[d]
  <2>1. pc' = [pc EXCEPT ![d] = "vdus"] /\ at' = [at EXCEPT ![d] = at[d] + 1] /\ count' = count
    BY <1>1 DEF Round, Goes
  <2>2. at[d] + 1 \in Nat /\ "vdus" \in Place
    BY DEF TypeOK, Place
  <2> QED
    BY <1>1, <2>1, <2>2 DEF RoundDone, TypeOK, Place
<1>2. CASE ~(at[d] < count[d])
  <2>1. pc' = [pc EXCEPT ![d] = "interfaces"] /\ at' = [at EXCEPT ![d] = 1] /\ count' = [count EXCEPT ![d] = 0]
    BY <1>2 DEF Round, Goes
  <2>2. "interfaces" \in Place
    BY DEF Place, Part
  <2> QED
    BY <1>2, <2>1, <2>2 DEF RoundDone, TypeOK, Place
<1> QED
  BY <1>1, <1>2

\* The start of a round: it raises, has nothing to delete, or takes the list.
VduPost(d) ==
  /\ UNCHANGED <<row, recorded, live, left, deploy, current, dict, svc, mixed, late, refused, restarts>>
  /\ pc[d] = "vdus" /\ OthersKeep(d) /\ LoopTypes
  /\ \/ at[d] > Size[dict.of] /\ pc'[d] = "stuck" /\ at'[d] = at[d] /\ count'[d] = count[d] /\ todo' = todo
     \/ at[d] <= Size[dict.of] /\ InstanceList(at[d]) = {} /\ RoundDone(d) /\ todo' = todo
     \/ /\ at[d] <= Size[dict.of] /\ pc'[d] = "servers" /\ at'[d] = at[d] /\ count'[d] = count[d]
        /\ todo'[d] = [of |-> dict.of, has |-> InstanceList(at[d])]

\* DeleteVdu does that.
LEMMA VduFacts ==
  ASSUME TypeOK, NEW d \in Call, DeleteVdu(d)
  PROVE  VduPost(d)
<1> USE DEF VduPost
<1>1. /\ UNCHANGED <<row, recorded, live, left, deploy, current, dict, svc, mixed, late, refused, restarts>>
      /\ pc[d] = "vdus"
  BY DEF DeleteVdu, deployVars, histVars
<1>2. CASE at[d] > Size[dict.of] /\ Goes(d, "stuck") /\ UNCHANGED <<at, count, todo>>
  BY <1>1, <1>2 DEF Goes, OthersKeep, LoopTypes, TypeOK, Place, Over
<1>3. CASE at[d] <= Size[dict.of] /\ InstanceList(at[d]) = {} /\ Round(d) /\ UNCHANGED todo
  BY <1>1, <1>3, RoundFacts DEF OthersKeep, LoopTypes, TypeOK
<1>4. CASE /\ at[d] <= Size[dict.of] /\ Goes(d, "servers") /\ UNCHANGED <<at, count>>
           /\ todo' = [todo EXCEPT ![d] = [of |-> dict.of, has |-> InstanceList(at[d])]]
  <2>1. [of |-> dict.of, has |-> InstanceList(at[d])] \in [of : Service \cup {NoService}, has : SUBSET (Nat \X Nat)]
    BY DEF TypeOK, InstanceList
  <2>2. todo' \in [Call -> [of : Service \cup {NoService}, has : SUBSET (Nat \X Nat)]]
        /\ todo'[d] = [of |-> dict.of, has |-> InstanceList(at[d])] /\ \A c \in Call \ {d} : todo'[c] = todo[c]
    BY <1>4, <2>1 DEF TypeOK
  <2> QED
    BY <1>1, <1>4, <2>2 DEF Goes, OthersKeep, LoopTypes, TypeOK, Place
<1> QED
  BY <1>2, <1>3, <1>4 DEF DeleteVdu

\* One server of the list is deleted, or a refusal ends the round.
ServerPost(d) ==
  /\ UNCHANGED <<row, recorded, left, deploy, current, dict, svc, mixed, late, restarts>>
  /\ pc[d] = "servers" /\ OthersKeep(d) /\ LoopTypes
  /\ \/ \E n \in todo[d].has :
          /\ live' = live \ {<<todo[d].of, n>>} /\ refused' = refused
          /\ \/ todo[d].has = {n} /\ RoundDone(d) /\ todo'[d] = NoList
             \/ /\ pc'[d] = "servers" /\ at'[d] = at[d] /\ count'[d] = count[d]
                /\ todo'[d] = [of |-> todo[d].of, has |-> todo[d].has \ {n}]
     \/ /\ live' = live /\ refused' = refused \cup {todo[d].of}
        /\ RoundDone(d) /\ todo'[d] = NoList

\* DeleteServer does that.
LEMMA ServerFacts ==
  ASSUME TypeOK, NEW d \in Call, DeleteServer(d)
  PROVE  ServerPost(d)
<1> USE DEF ServerPost
<1>1. /\ UNCHANGED <<row, recorded, left, deploy, current, dict, svc, mixed, late, restarts>>
      /\ pc[d] = "servers"
  BY DEF DeleteServer, deployVars
<1>2. todo[d] \in [of : Service \cup {NoService}, has : SUBSET (Nat \X Nat)]
  BY DEF TypeOK
<1>3. NoList \in [of : Service \cup {NoService}, has : SUBSET (Nat \X Nat)]
  BY DEF NoList
<1>4. CASE Refuse(todo[d].of) /\ UNCHANGED live /\ Round(d) /\ todo' = [todo EXCEPT ![d] = NoList]
  <2>1. todo' \in [Call -> [of : Service \cup {NoService}, has : SUBSET (Nat \X Nat)]]
        /\ todo'[d] = NoList /\ \A c \in Call \ {d} : todo'[c] = todo[c]
    BY <1>3, <1>4 DEF TypeOK
  <2> QED
    BY <1>1, <1>4, <2>1, RoundFacts DEF OthersKeep, LoopTypes, Refuse
<1>5. ASSUME NEW n \in First(todo[d].has), live' = live \ {<<todo[d].of, n>>} /\ UNCHANGED refused,
             todo[d].has = {n}, Round(d) /\ todo' = [todo EXCEPT ![d] = NoList]
      PROVE  OthersKeep(d) /\ LoopTypes /\ RoundDone(d) /\ todo'[d] = NoList
  <2>1. todo' \in [Call -> [of : Service \cup {NoService}, has : SUBSET (Nat \X Nat)]]
        /\ todo'[d] = NoList /\ \A c \in Call \ {d} : todo'[c] = todo[c]
    BY <1>3, <1>5 DEF TypeOK
  <2> QED
    BY <1>5, <2>1, RoundFacts DEF OthersKeep, LoopTypes
<1>6. ASSUME NEW n \in First(todo[d].has),
             UNCHANGED <<pc, at, count>> /\ todo' = [todo EXCEPT ![d] = [of |-> @.of, has |-> @.has \ {n}]]
      PROVE  /\ OthersKeep(d) /\ LoopTypes /\ pc'[d] = pc[d] /\ at'[d] = at[d] /\ count'[d] = count[d]
             /\ todo'[d] = [of |-> todo[d].of, has |-> todo[d].has \ {n}]
  <2>2. todo' = [todo EXCEPT ![d] = [of |-> todo[d].of, has |-> todo[d].has \ {n}]]
    BY <1>6
  <2>3. [of |-> todo[d].of, has |-> todo[d].has \ {n}] \in [of : Service \cup {NoService}, has : SUBSET (Nat \X Nat)]
    BY <1>2
  <2>4. todo' \in [Call -> [of : Service \cup {NoService}, has : SUBSET (Nat \X Nat)]]
        /\ todo'[d] = [of |-> todo[d].of, has |-> todo[d].has \ {n}] /\ \A c \in Call \ {d} : todo'[c] = todo[c]
    BY <2>2, <2>3 DEF TypeOK
  <2> QED
    BY <1>6, <2>4 DEF OthersKeep, LoopTypes, TypeOK, Place
<1>7. CASE \E n \in First(todo[d].has) :
             /\ live' = live \ {<<todo[d].of, n>>} /\ UNCHANGED refused
             /\ IF todo[d].has = {n}
                  THEN Round(d) /\ todo' = [todo EXCEPT ![d] = NoList]
                  ELSE UNCHANGED <<pc, at, count>> /\ todo' = [todo EXCEPT ![d] = [of |-> @.of, has |-> @.has \ {n}]]
  <2>1. PICK n \in First(todo[d].has) :
             /\ live' = live \ {<<todo[d].of, n>>} /\ UNCHANGED refused
             /\ IF todo[d].has = {n}
                  THEN Round(d) /\ todo' = [todo EXCEPT ![d] = NoList]
                  ELSE UNCHANGED <<pc, at, count>> /\ todo' = [todo EXCEPT ![d] = [of |-> @.of, has |-> @.has \ {n}]]
    BY <1>7
  <2>2. n \in todo[d].has
    BY DEF First
  <2>3. CASE todo[d].has = {n}
    BY <1>1, <1>5, <2>1, <2>2, <2>3
  <2>4. CASE todo[d].has # {n}
    BY <1>1, <1>6, <2>1, <2>2, <2>4
  <2> QED
    BY <2>3, <2>4
<1> QED
  BY <1>4, <1>7 DEF DeleteServer

-----------------------------------------------------------------------------
\* Each step keeps the types.
LEMMA TypeStep == TypeOK /\ CallInv /\ [Next]_vars => TypeOK'
<1> SUFFICES ASSUME TypeOK, CallInv, [Next]_vars PROVE TypeOK'
  OBVIOUS
<1> USE ServiceAssumption, SizeAssumption, BoundAssumption
<1>1. ASSUME NEW s \in Service, Launch(s) PROVE TypeOK'
  <2>0. deploy' = [deploy EXCEPT ![s] = "dead"] \/ deploy' = [deploy EXCEPT ![s] = "create"]
    BY <1>1 DEF Launch, DeployGoes
  <2>1. deploy' \in [Service -> Phase]
    BY <2>0 DEF TypeOK, Phase
  <2>2. current' = current \/ \E v \in Vdu(s) : current' = [current EXCEPT ![s] = v]
    BY <1>1 DEF Launch
  <2>3. current' \in [Service -> Nat] /\ \A x \in Service : current'[x] \in Vdu(x)
    BY <2>2 DEF TypeOK, Vdu
  <2> QED
    BY <1>1, <2>1, <2>3 DEF Launch, TypeOK, Phase, callVars, histVars
<1>2. ASSUME NEW s \in Service, ServerCreate(s) PROVE TypeOK'
  <2>0. CreatePost(s)
    BY <1>2, CreateFacts
  <2>1. \A n \in Servers(current[s]) : n \in Nat \X Nat
    BY DEF Servers, TypeOK
  <2>2. live' \subseteq Service \X (Nat \X Nat)
    BY <2>1, <2>0 DEF CreatePost, TypeOK
  <2> QED
    BY <2>2, <2>0 DEF CreatePost, TypeOK, Phase
<1>3. ASSUME NEW s \in Service, Record(s) PROVE TypeOK'
  <2>0. RecordPost(s)
    BY <1>3, RecordFacts
  <2>1. \A n \in Unrecorded(s) : n \in Server(s) /\ n \in Nat \X Nat
    BY DEF Unrecorded, Server, Vdu
  <2>2. recorded' = recorded \/ \E n \in Unrecorded(s) : recorded' = [recorded EXCEPT ![s] = @ \cup {n}]
    BY <2>0 DEF RecordPost
  <2>3. CASE recorded' = recorded
    BY <2>0, <2>3 DEF RecordPost, TypeOK, Phase
  <2>4. ASSUME NEW n \in Unrecorded(s), recorded' = [recorded EXCEPT ![s] = @ \cup {n}]
        PROVE  recorded' \in [Service -> SUBSET (Nat \X Nat)] /\ \A x \in Service : recorded'[x] \subseteq Server(x)
    <3>1. recorded[s] \cup {n} \subseteq Server(s) /\ recorded[s] \cup {n} \in SUBSET (Nat \X Nat)
      BY <2>1 DEF TypeOK
    <3> QED
      BY <2>4, <3>1 DEF TypeOK
  <2> QED
    BY <2>0, <2>2, <2>3, <2>4 DEF RecordPost, TypeOK, Phase
<1>4. ASSUME NEW s \in Service, DeployVnfs(s) PROVE TypeOK'
  <2>1. row' \in [Service -> {"PENDING", "ACTIVE", "ERROR", "DELETING", "gone"}]
    BY <1>4 DEF DeployVnfs, TypeOK
  <2>2. deploy' = [deploy EXCEPT ![s] = "dead"] \/ deploy' = [deploy EXCEPT ![s] = "done"]
    BY <1>4 DEF DeployVnfs, DeployGoes
  <2>3. deploy' \in [Service -> Phase]
    BY <2>2 DEF TypeOK, Phase
  <2> QED
    BY <1>4, <2>1, <2>3 DEF DeployVnfs, TypeOK, Phase, callVars, histVars
<1>5. ASSUME NEW s \in Service, DeployRaises(s) PROVE TypeOK'
  BY <1>5 DEF DeployRaises, DeployGoes, TypeOK, callVars, histVars
<1>6. ASSUME NEW d \in Call, NEW s \in Service \cup {NoService}, DeleteService(d, s) PROVE TypeOK'
  <2>1. /\ pc' \in [Call -> Place]
        /\ dict' \in [svc : Service \cup {NoService}, of : Service \cup {NoService}, has : SUBSET (Nat \X Nat)]
    <3>1. PICK p \in {"instances", "returned"}, v \in Service \cup {NoService} :
            pc' = [pc EXCEPT ![d] = p] /\ dict' = [dict EXCEPT !.svc = v]
      BY <1>6 DEF DeleteService, Goes
    <3>2. p \in Place
      BY <3>1 DEF Place, Over
    <3>3. pc \in [Call -> Place]
      BY DEF TypeOK, Place
    <3>4. pc' \in [Call -> Place]
      BY <3>1, <3>2, <3>3
    <3>5. dict \in [svc : Service \cup {NoService}, of : Service \cup {NoService}, has : SUBSET (Nat \X Nat)]
      BY DEF TypeOK
    <3>6. QED
      BY <3>1, <3>4, <3>5
  <2>2. mixed' \subseteq Call /\ svc' \in [Call -> Service \cup {NoService}]
    BY <1>6 DEF DeleteService, Overwrites, Running, TypeOK
  <2> QED
    BY <1>6, <2>1, <2>2 DEF DeleteService, TypeOK, Place, deployVars
<1>7. ASSUME NEW d \in Call, ReadInstances(d) PROVE TypeOK'
  BY <1>7 DEF ReadInstances, Goes, Overwrites, TypeOK, CallInv, Over, Running, deployVars
<1>8. ASSUME NEW d \in Call, SetDeleting(d) PROVE TypeOK'
  BY <1>8 DEF SetDeleting, Goes, TypeOK, deployVars, histVars
<1>9. ASSUME NEW d \in Call, DeleteVtapAndVnfm(d) PROVE TypeOK'
  BY <1>9 DEF DeleteVtapAndVnfm, Goes, TypeOK, CallInv, PastRead, deployVars, histVars
<1>10. ASSUME NEW d \in Call, DeleteVdu(d) PROVE TypeOK'
  <2>0. VduPost(d)
    BY <1>10, VduFacts
  <2> QED
    BY <2>0 DEF VduPost, TypeOK, LoopTypes, Place
<1>11. ASSUME NEW d \in Call, DeletePart(d) PROVE TypeOK'
  <2>1. pc' \in [Call -> Over \cup Part \cup {"instances", "status", "vnfm", "vdus", "servers", "row", "delete"}]
    BY <1>11 DEF DeletePart, Goes, TypeOK, After, Part, Over
  <2>2. left' \in [Service -> SUBSET Part]
    <3>1. dict.svc \in Service \cup {NoService}
      BY DEF TypeOK
    <3>2. CASE dict.svc = NoService
      BY <1>11, <3>2 DEF DeletePart, TypeOK
    <3>3. CASE dict.svc # NoService
      <4>1. left' = left \/ left' = [left EXCEPT ![dict.svc] = @ \ {pc[d]}]
        BY <1>11, <3>3, Zenon DEF DeletePart
      <4> QED
        BY <3>1, <3>3, <4>1 DEF TypeOK
    <3> QED
      BY <3>2, <3>3
  <2>3. refused' \subseteq Service
    BY <1>11 DEF DeletePart, Refuse, TypeOK
  <2> QED
    BY <1>11, <2>1, <2>2, <2>3 DEF DeletePart, TypeOK, deployVars, Vdu
<1>12. ASSUME NEW d \in Call, QueryRow(d) PROVE TypeOK'
  BY <1>12 DEF QueryRow, Goes, TypeOK, Over, deployVars, histVars
<1>13. ASSUME NEW d \in Call, DeleteRow(d) PROVE TypeOK'
  BY <1>13 DEF DeleteRow, Goes, TypeOK, Over, deployVars, histVars
<1>14. CASE Restart
  BY <1>14 DEF Restart, TypeOK, Over
<1>15. ASSUME NEW d \in Call, DeleteServer(d) PROVE TypeOK'
  <2>0. ServerPost(d)
    BY <1>15, ServerFacts
  <2>1. live' \subseteq live /\ refused' \subseteq refused \cup {todo[d].of}
    BY <2>0 DEF ServerPost
  <2>2. todo[d].of \in Service
    BY <2>0 DEF ServerPost, CallInv
  <2>3. refused' \subseteq Service
    BY <2>1, <2>2 DEF TypeOK
  <2> QED
    BY <2>1, <2>3, <2>0 DEF ServerPost, TypeOK, LoopTypes, Place
<1>16. CASE UNCHANGED vars
  BY <1>16 DEF vars, TypeOK, deployVars, callVars, histVars
<1> QED
  BY <1>1, <1>2, <1>3, <1>4, <1>5, <1>6, <1>7, <1>8, <1>9, <1>10, <1>11, <1>12, <1>13, <1>14, <1>15, <1>16
     DEF Next, Deploy, Deletion

\* Each step keeps what the place of a call tells.
LEMMA CallStep == TypeOK /\ CallInv /\ [Next]_vars => CallInv'
<1> SUFFICES ASSUME TypeOK, CallInv, [Next]_vars PROVE CallInv'
  OBVIOUS
<1> USE ServiceAssumption, SizeAssumption
<1>1. ASSUME NEW s \in Service, Launch(s) PROVE CallInv'
  BY <1>1 DEF Launch, DeployGoes, CallInv, PastRead, Running, callVars
<1>2. ASSUME NEW s \in Service, ServerCreate(s) PROVE CallInv'
  BY <1>2 DEF ServerCreate, DeployGoes, CallInv, PastRead, Running, callVars
<1>3. ASSUME NEW s \in Service, Record(s) PROVE CallInv'
  BY <1>3 DEF Record, DeployGoes, CallInv, PastRead, Running, callVars
<1>4. ASSUME NEW s \in Service, DeployVnfs(s) PROVE CallInv'
  BY <1>4 DEF DeployVnfs, DeployGoes, CallInv, PastRead, Running, callVars
<1>5. ASSUME NEW s \in Service, DeployRaises(s) PROVE CallInv'
  BY <1>5 DEF DeployRaises, DeployGoes, CallInv, PastRead, Running, callVars
<1>6. ASSUME NEW d \in Call, NEW s \in Service \cup {NoService}, DeleteService(d, s) PROVE CallInv'
  BY <1>6 DEF DeleteService, Goes, TypeOK, CallInv, PastRead, Over, Running, Part
<1>7. ASSUME NEW d \in Call, ReadInstances(d) PROVE CallInv'
  BY <1>7 DEF ReadInstances, Goes, CallInv, Over, Running
<1>8. ASSUME NEW d \in Call, SetDeleting(d) PROVE CallInv'
  BY <1>8 DEF SetDeleting, Goes, CallInv, PastRead, Over, Running
<1>9. ASSUME NEW d \in Call, DeleteVtapAndVnfm(d) PROVE CallInv'
  BY <1>9 DEF DeleteVtapAndVnfm, Goes, CallInv, PastRead, Over, Running
<1>10. ASSUME NEW d \in Call, DeleteVdu(d) PROVE CallInv'
  BY <1>10 DEF DeleteVdu, Goes, Round, TypeOK, CallInv, PastRead, Over, Running
<1>11. ASSUME NEW d \in Call, DeletePart(d) PROVE CallInv'
  BY <1>11 DEF DeletePart, Goes, TypeOK, CallInv, PastRead, Over, Running, Part, After
<1>12. ASSUME NEW d \in Call, QueryRow(d) PROVE CallInv'
  BY <1>12 DEF QueryRow, Goes, CallInv, PastRead, Over, Running
<1>13. ASSUME NEW d \in Call, DeleteRow(d) PROVE CallInv'
  BY <1>13 DEF DeleteRow, Goes, CallInv, PastRead, Over, Running
<1>14. CASE Restart
  BY <1>14 DEF Restart, TypeOK, CallInv, PastRead, Over, Running, Part
<1>15. ASSUME NEW d \in Call, DeleteServer(d) PROVE CallInv'
  BY <1>15 DEF DeleteServer, Goes, Round, TypeOK, CallInv, PastRead, Over, Running, Part
<1>16. CASE UNCHANGED vars
  BY <1>16 DEF vars, TypeOK, CallInv, PastRead, Running, callVars
<1> QED
  BY <1>1, <1>2, <1>3, <1>4, <1>5, <1>6, <1>7, <1>8, <1>9, <1>10, <1>11, <1>12, <1>13, <1>14, <1>15, <1>16
     DEF Next, Deploy, Deletion

\* Each step keeps what is known of servers without a row.
LEMMA ServerStep == TypeOK /\ ServerInv /\ [Next]_vars => ServerInv'
<1> SUFFICES ASSUME TypeOK, ServerInv, [Next]_vars PROVE ServerInv'
  OBVIOUS
<1> USE ServiceAssumption, SizeAssumption
<1>1. ASSUME NEW s \in Service, Launch(s) PROVE ServerInv'
  BY <1>1 DEF Launch, DeployGoes, TypeOK, ServerInv, Unrecorded, Server
<1>2. ASSUME NEW s \in Service, ServerCreate(s) PROVE ServerInv'
  <2>0. CreatePost(s)
    BY <1>2, CreateFacts
  <2>1. Unrecorded(s)' \subseteq Unrecorded(s) \cup Servers(current[s])
    BY <2>0 DEF CreatePost, Unrecorded
  <2>2. \A x \in Service \ {s} : Unrecorded(x)' = Unrecorded(x)
    BY <2>0 DEF CreatePost, Unrecorded
  <2> QED
    BY <2>1, <2>2, <2>0 DEF CreatePost, ServerInv
<1>3. ASSUME NEW s \in Service, Record(s) PROVE ServerInv'
  <2>0. RecordPost(s)
    BY <1>3, RecordFacts
  <2>1. \A x \in Service \ {s} : Unrecorded(x)' = Unrecorded(x)
    BY <2>0 DEF RecordPost, Unrecorded
  <2>2. CASE recorded' = recorded /\ deploy'[s] = "dead"
    BY <2>1, <2>2, <2>0 DEF RecordPost, ServerInv, Unrecorded
  <2>3. ASSUME NEW n \in Unrecorded(s), recorded' = [recorded EXCEPT ![s] = @ \cup {n}],
               deploy'[s] = "record" \/ (Unrecorded(s) = {n} /\ deploy'[s] \in {"launch", "poll"})
        PROVE  ServerInv'
    <3>1. Unrecorded(s)' = Unrecorded(s) \ {n}
      BY <2>3, <2>0 DEF RecordPost, Unrecorded, TypeOK
    <3> QED
      BY <2>1, <2>3, <3>1, <2>0 DEF RecordPost, ServerInv
  <2> QED
    BY <2>2, <2>3, <2>0 DEF RecordPost
<1>4. ASSUME NEW s \in Service, DeployVnfs(s) PROVE ServerInv'
  BY <1>4 DEF DeployVnfs, DeployGoes, TypeOK, ServerInv, Unrecorded, Server
<1>5. ASSUME NEW s \in Service, DeployRaises(s) PROVE ServerInv'
  BY <1>5 DEF DeployRaises, DeployGoes, ServerInv, Unrecorded, Server
<1>6. ASSUME NEW d \in Call, NEW s \in Service \cup {NoService}, DeleteService(d, s) PROVE ServerInv'
  BY <1>6 DEF DeleteService, Goes, ServerInv, Unrecorded, Server, deployVars
<1>7. ASSUME NEW d \in Call, ReadInstances(d) PROVE ServerInv'
  BY <1>7 DEF ReadInstances, Goes, ServerInv, Unrecorded, Server, deployVars
<1>8. ASSUME NEW d \in Call, SetDeleting(d) PROVE ServerInv'
  BY <1>8 DEF SetDeleting, Goes, ServerInv, Unrecorded, Server, deployVars
<1>9. ASSUME NEW d \in Call, DeleteVtapAndVnfm(d) PROVE ServerInv'
  BY <1>9 DEF DeleteVtapAndVnfm, Goes, ServerInv, Unrecorded, Server, deployVars
<1>10. ASSUME NEW d \in Call, DeleteVdu(d) PROVE ServerInv'
  BY <1>10 DEF DeleteVdu, Goes, ServerInv, Unrecorded, Server, deployVars
<1>11. ASSUME NEW d \in Call, DeletePart(d) PROVE ServerInv'
  BY <1>11 DEF DeletePart, Goes, ServerInv, Unrecorded, Server, deployVars
<1>12. ASSUME NEW d \in Call, QueryRow(d) PROVE ServerInv'
  BY <1>12 DEF QueryRow, Goes, ServerInv, Unrecorded, Server, deployVars
<1>13. ASSUME NEW d \in Call, DeleteRow(d) PROVE ServerInv'
  BY <1>13 DEF DeleteRow, Goes, ServerInv, Unrecorded, Server, deployVars
<1>14. CASE Restart
  BY <1>14 DEF Restart, TypeOK, ServerInv, Unrecorded, Server
<1>15. ASSUME NEW d \in Call, DeleteServer(d) PROVE ServerInv'
  BY <1>15 DEF DeleteServer, ServerInv, Unrecorded, deployVars
<1>16. CASE UNCHANGED vars
  BY <1>16 DEF vars, TypeOK, ServerInv, Unrecorded, Server, deployVars
<1> QED
  BY <1>1, <1>2, <1>3, <1>4, <1>5, <1>6, <1>7, <1>8, <1>9, <1>10, <1>11, <1>12, <1>13, <1>14, <1>15, <1>16
     DEF Next, Deploy, Deletion

\* Each step keeps that a row is gone by a deletion that has ended.
LEMMA GoneStep == TypeOK /\ CallInv /\ GoneInv /\ [Next]_vars => GoneInv'
<1> SUFFICES ASSUME TypeOK, CallInv, GoneInv, [Next]_vars PROVE GoneInv'
  OBVIOUS
<1> USE ServiceAssumption, SizeAssumption
<1>1. ASSUME NEW s \in Service, Launch(s) PROVE GoneInv'
  BY <1>1 DEF Launch, DeployGoes, GoneInv, DeletedBefore, callVars
<1>2. ASSUME NEW s \in Service, ServerCreate(s) PROVE GoneInv'
  BY <1>2 DEF ServerCreate, DeployGoes, GoneInv, DeletedBefore, callVars
<1>3. ASSUME NEW s \in Service, Record(s) PROVE GoneInv'
  BY <1>3 DEF Record, DeployGoes, GoneInv, DeletedBefore, callVars
<1>4. ASSUME NEW s \in Service, DeployVnfs(s) PROVE GoneInv'
  BY <1>4 DEF DeployVnfs, DeployGoes, TypeOK, GoneInv, DeletedBefore, callVars
<1>5. ASSUME NEW s \in Service, DeployRaises(s) PROVE GoneInv'
  BY <1>5 DEF DeployRaises, DeployGoes, TypeOK, GoneInv, DeletedBefore, callVars
<1>6. ASSUME NEW d \in Call, NEW s \in Service \cup {NoService}, DeleteService(d, s) PROVE GoneInv'
  BY <1>6 DEF DeleteService, Goes, TypeOK, GoneInv, DeletedBefore
<1>7. ASSUME NEW d \in Call, ReadInstances(d) PROVE GoneInv'
  BY <1>7 DEF ReadInstances, Goes, GoneInv, DeletedBefore
<1>8. ASSUME NEW d \in Call, SetDeleting(d) PROVE GoneInv'
  BY <1>8 DEF SetDeleting, Goes, GoneInv, DeletedBefore
<1>9. ASSUME NEW d \in Call, DeleteVtapAndVnfm(d) PROVE GoneInv'
  BY <1>9 DEF DeleteVtapAndVnfm, Goes, GoneInv, DeletedBefore
<1>10. ASSUME NEW d \in Call, DeleteVdu(d) PROVE GoneInv'
  BY <1>10 DEF DeleteVdu, Goes, Round, TypeOK, GoneInv, DeletedBefore
<1>11. ASSUME NEW d \in Call, DeletePart(d) PROVE GoneInv'
  BY <1>11 DEF DeletePart, Goes, TypeOK, GoneInv, DeletedBefore, Part
<1>12. ASSUME NEW d \in Call, QueryRow(d) PROVE GoneInv'
  BY <1>12 DEF QueryRow, Goes, GoneInv, DeletedBefore
<1>13. ASSUME NEW d \in Call, DeleteRow(d) PROVE GoneInv'
  BY <1>13 DEF DeleteRow, Goes, TypeOK, GoneInv, DeletedBefore
<1>14. CASE Restart
  BY <1>14 DEF Restart, TypeOK, GoneInv, DeletedBefore, Over, Running
<1>15. ASSUME NEW d \in Call, DeleteServer(d) PROVE GoneInv'
  BY <1>15 DEF DeleteServer, Goes, Round, TypeOK, GoneInv, DeletedBefore
<1>16. CASE UNCHANGED vars
  BY <1>16 DEF vars, TypeOK, GoneInv, DeletedBefore, callVars
<1> QED
  BY <1>1, <1>2, <1>3, <1>4, <1>5, <1>6, <1>7, <1>8, <1>9, <1>10, <1>11, <1>12, <1>13, <1>14, <1>15, <1>16
     DEF Next, Deploy, Deletion

\* Each step keeps that nothing is taken from a service unasked.
LEMMA AskedStep == TypeOK /\ CallInv /\ AskedInv /\ [Next]_vars => AskedInv'
<1> SUFFICES ASSUME TypeOK, CallInv, AskedInv, [Next]_vars PROVE AskedInv'
  OBVIOUS
<1> USE ServiceAssumption, SizeAssumption
<1>1. ASSUME NEW s \in Service, Launch(s) PROVE AskedInv'
  BY <1>1 DEF Launch, AskedInv, Asked, callVars
<1>2. ASSUME NEW s \in Service, ServerCreate(s) PROVE AskedInv'
  <2>0. CreatePost(s)
    BY <1>2, CreateFacts
  <2>1. \A x \in Service : left[x] = Part => left'[x] = Part
    BY <2>0 DEF CreatePost
  <2> QED
    BY <2>1, <2>0 DEF CreatePost, AskedInv, Asked
<1>3. ASSUME NEW s \in Service, Record(s) PROVE AskedInv'
  <2>0. RecordPost(s)
    BY <1>3, RecordFacts
  <2>1. recorded' = recorded \/ \E n \in Unrecorded(s) : recorded' = [recorded EXCEPT ![s] = @ \cup {n}]
    BY <2>0 DEF RecordPost
  <2>2. \A n \in Unrecorded(s) : <<s, n>> \in live
    BY DEF Unrecorded
  <2>3. \A x \in Service : \A n \in recorded'[x] : n \in recorded[x] \/ <<x, n>> \in live
    BY <2>1, <2>2 DEF TypeOK
  <2> QED
    BY <2>3, <2>0 DEF RecordPost, AskedInv, Asked
<1>4. ASSUME NEW s \in Service, DeployVnfs(s) PROVE AskedInv'
  BY <1>4 DEF DeployVnfs, DeployGoes, TypeOK, AskedInv, Asked, callVars
<1>5. ASSUME NEW s \in Service, DeployRaises(s) PROVE AskedInv'
  BY <1>5 DEF DeployRaises, DeployGoes, AskedInv, Asked, callVars
<1>6. ASSUME NEW d \in Call, NEW s \in Service \cup {NoService}, DeleteService(d, s) PROVE AskedInv'
  BY <1>6 DEF DeleteService, Goes, TypeOK, CallInv, AskedInv, Asked, deployVars
<1>7. ASSUME NEW d \in Call, ReadInstances(d) PROVE AskedInv'
  BY <1>7 DEF ReadInstances, Goes, AskedInv, Asked, deployVars
<1>8. ASSUME NEW d \in Call, SetDeleting(d) PROVE AskedInv'
  BY <1>8 DEF SetDeleting, Goes, AskedInv, Asked, deployVars
<1>9. ASSUME NEW d \in Call, DeleteVtapAndVnfm(d) PROVE AskedInv'
  BY <1>9 DEF DeleteVtapAndVnfm, Goes, AskedInv, Asked, deployVars
<1>10. ASSUME NEW d \in Call, DeleteVdu(d) PROVE AskedInv'
  <2>0. VduPost(d)
    BY <1>10, VduFacts
  <2>1. \A c \in Call : todo'[c] = todo[c] \/ todo'[c].of = dict.of
    BY <2>0 DEF VduPost, OthersKeep
  <2>2. dict' = dict /\ svc' = svc /\ left' = left /\ recorded' = recorded /\ live' = live
    BY <2>0 DEF VduPost
  <2> QED
    BY <2>1, <2>2 DEF AskedInv, Asked
<1>11. ASSUME NEW d \in Call, DeletePart(d) PROVE AskedInv'
  BY <1>11 DEF DeletePart, Goes, TypeOK, AskedInv, Asked, deployVars
<1>12. ASSUME NEW d \in Call, QueryRow(d) PROVE AskedInv'
  BY <1>12 DEF QueryRow, Goes, AskedInv, Asked, deployVars
<1>13. ASSUME NEW d \in Call, DeleteRow(d) PROVE AskedInv'
  BY <1>13 DEF DeleteRow, Goes, AskedInv, Asked, deployVars
<1>14. CASE Restart
  BY <1>14 DEF Restart, TypeOK, AskedInv, Asked
<1>15. ASSUME NEW d \in Call, DeleteServer(d) PROVE AskedInv'
  <2>0. ServerPost(d)
    BY <1>15, ServerFacts
  <2>1. \A c \in Call \ {d} : todo'[c] = todo[c]
    BY <2>0 DEF ServerPost, OthersKeep
  <2>2. todo'[d].of = NoService \/ todo'[d].of = todo[d].of
    <3>1. todo'[d] = NoList \/ todo'[d] = todo[d] \/ \E S : todo'[d] = [of |-> todo[d].of, has |-> S]
      BY <2>0 DEF ServerPost
    <3>2. ASSUME NEW S, todo'[d] = [of |-> todo[d].of, has |-> S] PROVE todo'[d].of = todo[d].of
      BY <3>2
    <3>3. CASE todo'[d] = NoList
      BY <3>3 DEF NoList
    <3> QED
      BY <3>1, <3>2, <3>3, Zenon
  <2>3. todo[d].of # NoService
    BY <2>0 DEF ServerPost, CallInv
  <2>4. \A x \in Service \ {todo[d].of} : \A n \in recorded[x] : <<x, n>> \in live => <<x, n>> \in live'
    BY <2>0 DEF ServerPost
  <2>5. dict' = dict /\ svc' = svc /\ left' = left /\ recorded' = recorded
    BY <2>0 DEF ServerPost
  <2>6. \A c \in Call : todo'[c].of # NoService => todo'[c].of = todo[c].of
    BY <2>1, <2>2
  <2> QED
    BY <2>3, <2>4, <2>5, <2>6 DEF AskedInv, Asked
<1>16. CASE UNCHANGED vars
  BY <1>16 DEF vars, TypeOK, AskedInv, Asked, deployVars, callVars
<1> QED
  BY <1>1, <1>2, <1>3, <1>4, <1>5, <1>6, <1>7, <1>8, <1>9, <1>10, <1>11, <1>12, <1>13, <1>14, <1>15, <1>16
     DEF Next, Deploy, Deletion

\* Each step keeps that the dict is a deletion's own.
LEMMA OwnStep == TypeOK /\ CallInv /\ GoneInv /\ OwnInv /\ [Next]_vars => OwnInv'
<1> SUFFICES ASSUME TypeOK, CallInv, GoneInv, OwnInv, [Next]_vars PROVE OwnInv'
  OBVIOUS
<1> USE ServiceAssumption, SizeAssumption
<1>1. ASSUME NEW s \in Service, Launch(s) PROVE OwnInv'
  BY <1>1 DEF Launch, DeployGoes, OwnInv, DeletedBefore, PastRead, Running, callVars, histVars
<1>2. ASSUME NEW s \in Service, ServerCreate(s) PROVE OwnInv'
  BY <1>2 DEF ServerCreate, DeployGoes, OwnInv, DeletedBefore, PastRead, Running, callVars, histVars
<1>3. ASSUME NEW s \in Service, Record(s) PROVE OwnInv'
  BY <1>3 DEF Record, DeployGoes, OwnInv, DeletedBefore, PastRead, Running, callVars, histVars
<1>4. ASSUME NEW s \in Service, DeployVnfs(s) PROVE OwnInv'
  BY <1>4 DEF DeployVnfs, DeployGoes, OwnInv, DeletedBefore, PastRead, Running, callVars, histVars
<1>5. ASSUME NEW s \in Service, DeployRaises(s) PROVE OwnInv'
  BY <1>5 DEF DeployRaises, DeployGoes, OwnInv, DeletedBefore, PastRead, Running, callVars, histVars
<1>6. ASSUME NEW d \in Call, NEW s \in Service \cup {NoService}, DeleteService(d, s) PROVE OwnInv'
  BY <1>6
     DEF DeleteService, Goes, Overwrites, TypeOK, GoneInv, OwnInv, DeletedBefore, PastRead, Running, Part
<1>7. ASSUME NEW d \in Call, ReadInstances(d) PROVE OwnInv'
  BY <1>7 DEF ReadInstances, Goes, Overwrites, OwnInv, DeletedBefore, Over, Running
<1>8. ASSUME NEW d \in Call, SetDeleting(d) PROVE OwnInv'
  BY <1>8 DEF SetDeleting, Goes, OwnInv, DeletedBefore, PastRead, Over, Running, histVars
<1>9. ASSUME NEW d \in Call, DeleteVtapAndVnfm(d) PROVE OwnInv'
  BY <1>9
     DEF DeleteVtapAndVnfm, Goes, TypeOK, CallInv, OwnInv, DeletedBefore, PastRead, Over, Running, histVars
<1>10. ASSUME NEW d \in Call, DeleteVdu(d) PROVE OwnInv'
  <2>0. VduPost(d)
    BY <1>10, VduFacts
  <2>1. svc' = svc /\ dict' = dict /\ mixed' = mixed /\ OthersKeep(d) /\ pc[d] \in {"vdus", "servers"}
    BY <2>0 DEF VduPost
  <2>2. \A c \in Call : DeletedBefore(svc[c]) => DeletedBefore(svc[c])'
    BY <2>1 DEF DeletedBefore, OthersKeep
  <2> SUFFICES ASSUME NEW c \in Call, pc'[c] \notin Over, c \notin mixed
               PROVE  /\ dict.svc = svc[c] \/ (dict.svc = NoService /\ DeletedBefore(svc[c])')
                      /\ PastRead(c)' => dict.of = svc[c]
                      /\ pc'[c] \in {"vdus", "servers"} => at'[c] <= count'[c] /\ count'[c] = Size[svc[c]]
                      /\ pc'[c] = "servers" => todo'[c].of = svc[c]
    BY <2>1 DEF OwnInv, Running
  <2>3. svc[c] \in Service \cup {NoService}
    BY DEF TypeOK
  <2>4. CASE c # d
    <3>1. pc'[c] = pc[c] /\ at'[c] = at[c] /\ count'[c] = count[c] /\ todo'[c] = todo[c] /\ c \in Running
      BY <2>1, <2>4 DEF OthersKeep, Running
    <3> QED
      BY <2>2, <2>3, <3>1 DEF OwnInv, PastRead
  <2>5. CASE c = d
    <3>1. c \in Running /\ PastRead(c)
      BY <2>1, <2>5 DEF Running, PastRead, Over
    <3>2. /\ dict.svc = svc[c] \/ (dict.svc = NoService /\ DeletedBefore(svc[c]))
          /\ dict.of = svc[c] /\ at[c] <= count[c] /\ count[c] = Size[svc[c]]
          /\ pc[c] = "servers" => todo[c].of = svc[c]
      BY <2>1, <2>5, <3>1 DEF OwnInv
    <3>3. at[c] \in Nat /\ count[c] \in Nat
      BY DEF TypeOK
    <3>4. \/ pc'[c] = "servers" /\ todo'[c].of = svc[c] /\ at'[c] = at[c] /\ count'[c] = count[c]
          \/ RoundDone(c)
      BY <2>5, <3>1, <3>2, <2>0 DEF VduPost, Over
    <3> QED
      BY <2>2, <2>3, <3>2, <3>3, <3>4 DEF RoundDone
  <2> QED
    BY <2>4, <2>5
<1>11. ASSUME NEW d \in Call, DeletePart(d) PROVE OwnInv'
  BY <1>11 DEF DeletePart, Goes, TypeOK, OwnInv, DeletedBefore, PastRead, Over, Running, Part, After
<1>12. ASSUME NEW d \in Call, QueryRow(d) PROVE OwnInv'
  BY <1>12 DEF QueryRow, Goes, OwnInv, DeletedBefore, PastRead, Over, Running, histVars
<1>13. ASSUME NEW d \in Call, DeleteRow(d) PROVE OwnInv'
  BY <1>13 DEF DeleteRow, Goes, OwnInv, DeletedBefore, PastRead, Over, Running, histVars
<1>14. CASE Restart
  BY <1>14 DEF Restart, TypeOK, OwnInv, Over, Running
<1>15. ASSUME NEW d \in Call, DeleteServer(d) PROVE OwnInv'
  <2>0. ServerPost(d)
    BY <1>15, ServerFacts
  <2>1. svc' = svc /\ dict' = dict /\ mixed' = mixed /\ OthersKeep(d) /\ pc[d] \in {"vdus", "servers"}
    BY <2>0 DEF ServerPost
  <2>2. \A c \in Call : DeletedBefore(svc[c]) => DeletedBefore(svc[c])'
    BY <2>1 DEF DeletedBefore, OthersKeep
  <2> SUFFICES ASSUME NEW c \in Call, pc'[c] \notin Over, c \notin mixed
               PROVE  /\ dict.svc = svc[c] \/ (dict.svc = NoService /\ DeletedBefore(svc[c])')
                      /\ PastRead(c)' => dict.of = svc[c]
                      /\ pc'[c] \in {"vdus", "servers"} => at'[c] <= count'[c] /\ count'[c] = Size[svc[c]]
                      /\ pc'[c] = "servers" => todo'[c].of = svc[c]
    BY <2>1 DEF OwnInv, Running
  <2>3. svc[c] \in Service \cup {NoService}
    BY DEF TypeOK
  <2>4. CASE c # d
    <3>1. pc'[c] = pc[c] /\ at'[c] = at[c] /\ count'[c] = count[c] /\ todo'[c] = todo[c] /\ c \in Running
      BY <2>1, <2>4 DEF OthersKeep, Running
    <3> QED
      BY <2>2, <2>3, <3>1 DEF OwnInv, PastRead
  <2>5. CASE c = d
    <3>1. c \in Running /\ PastRead(c)
      BY <2>1, <2>5 DEF Running, PastRead, Over
    <3>2. /\ dict.svc = svc[c] \/ (dict.svc = NoService /\ DeletedBefore(svc[c]))
          /\ dict.of = svc[c] /\ at[c] <= count[c] /\ count[c] = Size[svc[c]]
          /\ pc[c] = "servers" => todo[c].of = svc[c]
      BY <2>1, <2>5, <3>1 DEF OwnInv
    <3>3. at[c] \in Nat /\ count[c] \in Nat
      BY DEF TypeOK
    <3>4. \/ pc'[c] = "servers" /\ todo'[c].of = svc[c] /\ at'[c] = at[c] /\ count'[c] = count[c]
          \/ RoundDone(c)
      <4>1. RoundDone(d) \/ \E S : /\ pc'[d] = "servers" /\ at'[d] = at[d] /\ count'[d] = count[d]
                                   /\ todo'[d] = [of |-> todo[d].of, has |-> S]
        BY <2>0 DEF ServerPost
      <4>2. todo[d].of = svc[d]
        BY <2>0, <2>5, <3>2 DEF ServerPost
      <4>3. ASSUME NEW S, todo'[d] = [of |-> todo[d].of, has |-> S] PROVE todo'[d].of = svc[d]
        BY <4>2, <4>3
      <4> QED
        BY <2>5, <4>1, <4>3
    <3> QED
      BY <2>2, <2>3, <3>2, <3>3, <3>4 DEF RoundDone
  <2> QED
    BY <2>4, <2>5
<1>16. CASE UNCHANGED vars
  BY <1>16 DEF vars, TypeOK, OwnInv, DeletedBefore, PastRead, Running, callVars, histVars
<1> QED
  BY <1>1, <1>2, <1>3, <1>4, <1>5, <1>6, <1>7, <1>8, <1>9, <1>10, <1>11, <1>12, <1>13, <1>14, <1>15, <1>16
     DEF Next, Deploy, Deletion

\* Each step keeps that the dict has all servers after a calm reading.
LEMMA CalmStep == TypeOK /\ CallInv /\ ServerInv /\ OwnInv /\ CalmInv /\ [Next]_vars => CalmInv'
<1> SUFFICES ASSUME TypeOK, CallInv, ServerInv, OwnInv, CalmInv, [Next]_vars PROVE CalmInv'
  OBVIOUS
<1> USE ServiceAssumption, SizeAssumption
<1>1. ASSUME NEW s \in Service, Launch(s) PROVE CalmInv'
  <2> SUFFICES ASSUME NEW c \in Call, Calm(c)'
               PROVE  /\ (deploy[svc[c]] \in {"done", "dead"} /\ Unrecorded(svc[c]) = {})'
                      /\ (PastRead(c) /\ row[svc[c]] # "gone" => dict.has = recorded[svc[c]])'
    BY DEF CalmInv
  <2>1. Calm(c) /\ svc' = svc /\ pc' = pc /\ dict' = dict
    BY <1>1 DEF Launch, Calm, PastRead, callVars, histVars
  <2>2. svc[c] \in Service
    BY <2>1 DEF CallInv, Calm, PastRead, Running, Over, Part, TypeOK
  <2>3. deploy[svc[c]] \in {"done", "dead"} /\ svc[c] # s
    BY <1>1, <2>1 DEF CalmInv, Launch
  <2>4. row'[svc[c]] = row[svc[c]] /\ deploy'[svc[c]] = deploy[svc[c]] /\ recorded'[svc[c]] = recorded[svc[c]]
    BY <1>1, <2>2, <2>3 DEF Launch, DeployGoes, TypeOK
  <2>5. Unrecorded(svc[c])' = Unrecorded(svc[c])
    BY <1>1, <2>1, <2>3, <2>4 DEF Launch, Unrecorded, Server, Vdu
  <2> QED
    BY <1>1, <2>1, <2>3, <2>4, <2>5 DEF CalmInv, Launch, PastRead, callVars
<1>2. ASSUME NEW s \in Service, ServerCreate(s) PROVE CalmInv'
  <2>0. CreatePost(s)
    BY <1>2, CreateFacts
  <2> SUFFICES ASSUME NEW c \in Call, Calm(c)'
               PROVE  /\ (deploy[svc[c]] \in {"done", "dead"} /\ Unrecorded(svc[c]) = {})'
                      /\ (PastRead(c) /\ row[svc[c]] # "gone" => dict.has = recorded[svc[c]])'
    BY DEF CalmInv
  <2>1. Calm(c) /\ svc' = svc /\ pc' = pc /\ dict' = dict
    BY <2>0 DEF CreatePost, Calm, PastRead
  <2>2. svc[c] \in Service
    BY <2>1 DEF CallInv, Calm, PastRead, Running, Over, Part, TypeOK
  <2>3. deploy[svc[c]] \in {"done", "dead"} /\ svc[c] # s
    BY <2>1, <2>0 DEF CreatePost, CalmInv
  <2>4. row'[svc[c]] = row[svc[c]] /\ deploy'[svc[c]] = deploy[svc[c]] /\ recorded'[svc[c]] = recorded[svc[c]]
    BY <2>2, <2>3, <2>0 DEF CreatePost
  <2>5. Unrecorded(svc[c])' = Unrecorded(svc[c])
    BY <2>3, <2>4, <2>0 DEF CreatePost, Unrecorded
  <2> QED
    BY <2>1, <2>3, <2>4, <2>5, <2>0 DEF CreatePost, CalmInv, PastRead
<1>3. ASSUME NEW s \in Service, Record(s) PROVE CalmInv'
  <2>0. RecordPost(s)
    BY <1>3, RecordFacts
  <2> SUFFICES ASSUME NEW c \in Call, Calm(c)'
               PROVE  /\ (deploy[svc[c]] \in {"done", "dead"} /\ Unrecorded(svc[c]) = {})'
                      /\ (PastRead(c) /\ row[svc[c]] # "gone" => dict.has = recorded[svc[c]])'
    BY DEF CalmInv
  <2>1. Calm(c) /\ svc' = svc /\ pc' = pc /\ dict' = dict
    BY <2>0 DEF RecordPost, Calm, PastRead
  <2>2. svc[c] \in Service
    BY <2>1 DEF CallInv, Calm, PastRead, Running, Over, Part, TypeOK
  <2>3. deploy[svc[c]] \in {"done", "dead"} /\ svc[c] # s
    BY <2>1, <2>0 DEF RecordPost, CalmInv
  <2>4. row'[svc[c]] = row[svc[c]] /\ deploy'[svc[c]] = deploy[svc[c]] /\ recorded'[svc[c]] = recorded[svc[c]]
    BY <2>2, <2>3, <2>0 DEF RecordPost
  <2>5. Unrecorded(svc[c])' = Unrecorded(svc[c])
    BY <2>3, <2>4, <2>0 DEF RecordPost, Unrecorded
  <2> QED
    BY <2>1, <2>3, <2>4, <2>5, <2>0 DEF RecordPost, CalmInv, PastRead
<1>4. ASSUME NEW s \in Service, DeployVnfs(s) PROVE CalmInv'
  <2> SUFFICES ASSUME NEW c \in Call, Calm(c)'
               PROVE  /\ (deploy[svc[c]] \in {"done", "dead"} /\ Unrecorded(svc[c]) = {})'
                      /\ (PastRead(c) /\ row[svc[c]] # "gone" => dict.has = recorded[svc[c]])'
    BY DEF CalmInv
  <2>1. Calm(c) /\ svc' = svc /\ pc' = pc /\ dict' = dict
    BY <1>4 DEF DeployVnfs, Calm, PastRead, callVars, histVars
  <2>2. svc[c] \in Service
    BY <2>1 DEF CallInv, Calm, PastRead, Running, Over, Part, TypeOK
  <2>3. deploy[svc[c]] \in {"done", "dead"} /\ svc[c] # s
    BY <1>4, <2>1 DEF CalmInv, DeployVnfs
  <2>4. row'[svc[c]] = row[svc[c]] /\ deploy'[svc[c]] = deploy[svc[c]] /\ recorded'[svc[c]] = recorded[svc[c]]
    BY <1>4, <2>2, <2>3 DEF DeployVnfs, DeployGoes, TypeOK
  <2>5. Unrecorded(svc[c])' = Unrecorded(svc[c])
    BY <1>4, <2>1, <2>3, <2>4 DEF DeployVnfs, Unrecorded, Server, Vdu
  <2> QED
    BY <1>4, <2>1, <2>3, <2>4, <2>5 DEF CalmInv, DeployVnfs, PastRead, callVars
<1>5. ASSUME NEW s \in Service, DeployRaises(s) PROVE CalmInv'
  <2> SUFFICES ASSUME NEW c \in Call, Calm(c)'
               PROVE  /\ (deploy[svc[c]] \in {"done", "dead"} /\ Unrecorded(svc[c]) = {})'
                      /\ (PastRead(c) /\ row[svc[c]] # "gone" => dict.has = recorded[svc[c]])'
    BY DEF CalmInv
  <2>1. Calm(c) /\ svc' = svc /\ pc' = pc /\ dict' = dict
    BY <1>5 DEF DeployRaises, Calm, PastRead, callVars, histVars
  <2>2. svc[c] \in Service
    BY <2>1 DEF CallInv, Calm, PastRead, Running, Over, Part, TypeOK
  <2>3. deploy[svc[c]] \in {"done", "dead"} /\ svc[c] # s
    BY <1>5, <2>1 DEF CalmInv, DeployRaises
  <2>4. row'[svc[c]] = row[svc[c]] /\ deploy'[svc[c]] = deploy[svc[c]] /\ recorded'[svc[c]] = recorded[svc[c]]
    BY <1>5, <2>2, <2>3 DEF DeployRaises, DeployGoes, TypeOK
  <2>5. Unrecorded(svc[c])' = Unrecorded(svc[c])
    BY <1>5, <2>1, <2>3, <2>4 DEF DeployRaises, Unrecorded, Server, Vdu
  <2> QED
    BY <1>5, <2>1, <2>3, <2>4, <2>5 DEF CalmInv, DeployRaises, PastRead, callVars
<1>6. ASSUME NEW d \in Call, NEW s \in Service \cup {NoService}, DeleteService(d, s) PROVE CalmInv'
  BY <1>6
     DEF DeleteService, Goes, Overwrites, TypeOK, CalmInv, Calm, Unrecorded, Server, PastRead, Part, deployVars
<1>7. ASSUME NEW d \in Call, ReadInstances(d) PROVE CalmInv'
  BY <1>7
     DEF ReadInstances, Goes, Overwrites, CalmInv, Calm, Unrecorded, Server, PastRead, Over, Running, Part, deployVars
<1>8. ASSUME NEW d \in Call, SetDeleting(d) PROVE CalmInv'
  BY <1>8 DEF SetDeleting, Goes, CalmInv, Calm, Unrecorded, Server, PastRead, deployVars, histVars
<1>9. ASSUME NEW d \in Call, DeleteVtapAndVnfm(d) PROVE CalmInv'
  BY <1>9 DEF DeleteVtapAndVnfm, Goes, CalmInv, Calm, Unrecorded, Server, PastRead, deployVars, histVars
<1>10. ASSUME NEW d \in Call, DeleteVdu(d) PROVE CalmInv'
  <2>0. VduPost(d)
    BY <1>10, VduFacts
  <2>1. /\ row' = row /\ recorded' = recorded /\ deploy' = deploy /\ dict' = dict /\ svc' = svc /\ mixed' = mixed
        /\ late' = late /\ OthersKeep(d) /\ pc[d] \in {"vdus", "servers"} /\ live' \subseteq live
    BY <2>0 DEF VduPost
  <2>2. \A s \in Service : Unrecorded(s)' \subseteq Unrecorded(s)
    BY <2>1 DEF Unrecorded
  <2>3. \A c \in Call : Calm(c)' => Calm(c) /\ (PastRead(c)' => PastRead(c))
    BY <2>1 DEF Calm, PastRead, OthersKeep
  <2>4. \A c \in Call : Calm(c) => svc[c] \in Service
    BY DEF CallInv, Calm, PastRead, Running, Over, Part, TypeOK
  <2> QED
    BY <2>1, <2>2, <2>3, <2>4 DEF CalmInv
<1>11. ASSUME NEW d \in Call, DeletePart(d) PROVE CalmInv'
  BY <1>11 DEF DeletePart, Goes, TypeOK, CalmInv, Calm, Unrecorded, Server, PastRead, deployVars
<1>12. ASSUME NEW d \in Call, QueryRow(d) PROVE CalmInv'
  BY <1>12 DEF QueryRow, Goes, CalmInv, Calm, Unrecorded, Server, PastRead, deployVars, histVars
<1>13. ASSUME NEW d \in Call, DeleteRow(d) PROVE CalmInv'
  BY <1>13 DEF DeleteRow, Goes, CalmInv, Calm, Unrecorded, Server, PastRead, deployVars, histVars
<1>14. CASE Restart
  BY <1>14 DEF Restart, TypeOK, CallInv, CalmInv, Calm, Unrecorded, Server, PastRead, Over, Running, Part
<1>15. ASSUME NEW d \in Call, DeleteServer(d) PROVE CalmInv'
  <2>0. ServerPost(d)
    BY <1>15, ServerFacts
  <2>1. /\ row' = row /\ recorded' = recorded /\ deploy' = deploy /\ dict' = dict /\ svc' = svc /\ mixed' = mixed
        /\ late' = late /\ OthersKeep(d) /\ pc[d] \in {"vdus", "servers"} /\ live' \subseteq live
    BY <2>0 DEF ServerPost
  <2>2. \A s \in Service : Unrecorded(s)' \subseteq Unrecorded(s)
    BY <2>1 DEF Unrecorded
  <2>3. \A c \in Call : Calm(c)' => Calm(c) /\ (PastRead(c)' => PastRead(c))
    BY <2>1 DEF Calm, PastRead, OthersKeep
  <2>4. \A c \in Call : Calm(c) => svc[c] \in Service
    BY DEF CallInv, Calm, PastRead, Running, Over, Part, TypeOK
  <2> QED
    BY <2>1, <2>2, <2>3, <2>4 DEF CalmInv
<1>16. CASE UNCHANGED vars
  BY <1>16 DEF vars, TypeOK, CalmInv, Calm, Unrecorded, Server, PastRead, deployVars, callVars, histVars
<1> QED
  BY <1>1, <1>2, <1>3, <1>4, <1>5, <1>6, <1>7, <1>8, <1>9, <1>10, <1>11, <1>12, <1>13, <1>14, <1>15, <1>16
     DEF Next, Deploy, Deletion

\* Each step keeps that what a calm deletion has behind it is gone.
LEMMA SweptStep == TypeOK /\ CallInv /\ GoneInv /\ OwnInv /\ CalmInv /\ SweptInv /\ [Next]_vars => SweptInv'
<1> SUFFICES ASSUME TypeOK, CallInv, GoneInv, OwnInv, CalmInv, SweptInv, [Next]_vars PROVE SweptInv'
  OBVIOUS
<1> USE ServiceAssumption, SizeAssumption
<1>1. ASSUME NEW s \in Service, Launch(s) PROVE SweptInv'
  BY <1>1 DEF Launch, DeployGoes, SweptInv, Calm, ServerBehind, Behind, PastRead, callVars, histVars
<1>2. ASSUME NEW s \in Service, ServerCreate(s) PROVE SweptInv'
  <2> SUFFICES ASSUME NEW c \in Call, Calm(c)', (svc[c] \notin refused)',
                      (row[svc[c]] # "gone" \/ pc[c] \in {"delete", "done"})'
               PROVE  /\ (\A n \in Server(svc[c]) : ServerBehind(c, n) => <<svc[c], n>> \notin live)'
                      /\ (Behind(c) \cap left[svc[c]] = {})'
    BY DEF SweptInv
  <2>1. /\ row' = row /\ pc' = pc /\ at' = at /\ svc' = svc /\ todo' = todo
        /\ mixed' = mixed /\ late' = late /\ refused' = refused /\ dict' = dict
    BY <1>2 DEF ServerCreate, callVars, histVars
  <2>2. Calm(c)
    BY <2>1 DEF Calm, PastRead
  <2>3. svc[c] # s
    BY <1>2, <2>2 DEF CalmInv, ServerCreate
  <2>4. svc[c] \in Service
    BY <2>2 DEF Calm, PastRead, CallInv, Running, Over, Part, TypeOK
  <2>5. left'[svc[c]] = left[svc[c]] /\ \A n \in Server(svc[c]) : <<svc[c], n>> \in live' => <<svc[c], n>> \in live
    BY <1>2, <2>3, <2>4 DEF ServerCreate, TypeOK
  <2>6. Behind(c)' = Behind(c) /\ \A n \in Server(svc[c]) : ServerBehind(c, n)' = ServerBehind(c, n)
    BY <2>1 DEF Behind, ServerBehind, callVars
  <2> QED
    BY <2>1, <2>2, <2>5, <2>6 DEF SweptInv, Server, Vdu
<1>3. ASSUME NEW s \in Service, Record(s) PROVE SweptInv'
  BY <1>3 DEF Record, DeployGoes, SweptInv, Calm, ServerBehind, Behind, PastRead, callVars, histVars
<1>4. ASSUME NEW s \in Service, DeployVnfs(s) PROVE SweptInv'
  <2> SUFFICES ASSUME NEW c \in Call, Calm(c)', (svc[c] \notin refused)',
                      (row[svc[c]] # "gone" \/ pc[c] \in {"delete", "done"})'
               PROVE  /\ (\A n \in Server(svc[c]) : ServerBehind(c, n) => <<svc[c], n>> \notin live)'
                      /\ (Behind(c) \cap left[svc[c]] = {})'
    BY DEF SweptInv
  <2>1. Calm(c)
    BY <1>4 DEF DeployVnfs, Calm, PastRead, callVars, histVars
  <2>2. svc[c] \in Service
    BY <2>1 DEF CallInv, Calm, PastRead, Running, Over, Part, TypeOK
  <2>3. deploy[svc[c]] \in {"done", "dead"} /\ svc[c] # s
    BY <1>4, <2>1 DEF CalmInv, DeployVnfs
  <2>4. row'[svc[c]] = row[svc[c]]
    BY <1>4, <2>2, <2>3 DEF DeployVnfs, TypeOK
  <2> QED
    BY <1>4, <2>1, <2>4 DEF SweptInv, DeployVnfs, ServerBehind, Behind, Vdu, callVars, histVars
<1>5. ASSUME NEW s \in Service, DeployRaises(s) PROVE SweptInv'
  <2> SUFFICES ASSUME NEW c \in Call, Calm(c)', (svc[c] \notin refused)',
                      (row[svc[c]] # "gone" \/ pc[c] \in {"delete", "done"})'
               PROVE  /\ (\A n \in Server(svc[c]) : ServerBehind(c, n) => <<svc[c], n>> \notin live)'
                      /\ (Behind(c) \cap left[svc[c]] = {})'
    BY DEF SweptInv
  <2>1. Calm(c) /\ svc' = svc /\ pc' = pc
    BY <1>5 DEF DeployRaises, Calm, PastRead, callVars, histVars
  <2>2. svc[c] \in Service
    BY <2>1 DEF CallInv, Calm, PastRead, Running, Over, Part, TypeOK
  <2>3. deploy[svc[c]] \in {"done", "dead"} /\ svc[c] # s
    BY <1>5, <2>1 DEF CalmInv, DeployRaises
  <2>4. row'[svc[c]] = row[svc[c]]
    BY <1>5, <2>2, <2>3 DEF DeployRaises, TypeOK
  <2> QED
    BY <1>5, <2>1, <2>4 DEF SweptInv, DeployRaises, ServerBehind, Behind, Server, Vdu, callVars, histVars
<1>6. ASSUME NEW d \in Call, NEW s \in Service \cup {NoService}, DeleteService(d, s) PROVE SweptInv'
  BY <1>6
     DEF DeleteService, Goes, Overwrites, TypeOK, SweptInv, Calm, ServerBehind, Behind, PastRead, Part
<1>7. ASSUME NEW d \in Call, ReadInstances(d) PROVE SweptInv'
  BY <1>7 DEF ReadInstances, Goes, Overwrites, SweptInv, Calm, ServerBehind, Behind, PastRead, Part
<1>8. ASSUME NEW d \in Call, SetDeleting(d) PROVE SweptInv'
  BY <1>8 DEF SetDeleting, Goes, SweptInv, Calm, ServerBehind, Behind, PastRead, Part, histVars
<1>9. ASSUME NEW d \in Call, DeleteVtapAndVnfm(d) PROVE SweptInv'
  <2> SUFFICES ASSUME NEW c \in Call, Calm(c)', (svc[c] \notin refused)',
                      (row[svc[c]] # "gone" \/ pc[c] \in {"delete", "done"})'
               PROVE  /\ (\A n \in Server(svc[c]) : ServerBehind(c, n) => <<svc[c], n>> \notin live)'
                      /\ (Behind(c) \cap left[svc[c]] = {})'
    BY DEF SweptInv
  <2>1. /\ svc' = svc /\ live' = live /\ left' = left /\ at' = at /\ todo' = todo /\ row' = row /\ refused' = refused
        /\ mixed' = mixed /\ late' = late /\ pc[d] = "vnfm" /\ pc' = [pc EXCEPT ![d] = "vdus"]
    BY <1>9 DEF DeleteVtapAndVnfm, Goes, histVars
  <2>2. Calm(c) /\ at[d] = 1 /\ pc'[d] = "vdus" /\ \A x \in Call \ {d} : pc'[x] = pc[x]
    BY <2>1 DEF Calm, PastRead, CallInv, TypeOK
  <2>3. CASE c = d
    BY <2>1, <2>2, <2>3 DEF ServerBehind, Behind, Server, Vdu, Part
  <2>4. CASE c # d
    BY <2>1, <2>2, <2>4 DEF SweptInv, ServerBehind, Behind, Server, Vdu
  <2> QED
    BY <2>3, <2>4
<1>10. ASSUME NEW d \in Call, DeleteVdu(d) PROVE SweptInv'
  <2>0. VduPost(d)
    BY <1>10, VduFacts
  <2> SUFFICES ASSUME NEW c \in Call, Calm(c)', (svc[c] \notin refused)',
                      (row[svc[c]] # "gone" \/ pc[c] \in {"delete", "done"})'
               PROVE  /\ (\A n \in Server(svc[c]) : ServerBehind(c, n) => <<svc[c], n>> \notin live)'
                      /\ (Behind(c) \cap left[svc[c]] = {})'
    BY DEF SweptInv
  <2>1. /\ row' = row /\ left' = left /\ svc' = svc /\ dict' = dict /\ mixed' = mixed /\ late' = late
        /\ live' \subseteq live /\ refused \subseteq refused' /\ OthersKeep(d) /\ pc[d] \in {"vdus", "servers"}
    BY <2>0 DEF VduPost
  <2>2. CASE c # d
    <3>1. pc'[c] = pc[c] /\ at'[c] = at[c] /\ todo'[c] = todo[c]
      BY <2>1, <2>2 DEF OthersKeep
    <3>2. Calm(c)
      BY <2>1, <3>1 DEF Calm, PastRead
    <3>3. Behind(c)' = Behind(c) /\ \A n \in Server(svc[c]) : ServerBehind(c, n)' = ServerBehind(c, n)
      BY <3>1 DEF Behind, ServerBehind
    <3> QED
      BY <2>1, <3>1, <3>2, <3>3 DEF SweptInv, Server, Vdu
  <2>3. CASE c = d
    <3>1. Calm(d) /\ PastRead(d) /\ d \in Running /\ svc[d] \in Service
      BY <2>1, <2>3 DEF Calm, PastRead, CallInv, Running, Over, Part
    <3>2. pc'[d] # "stuck"
      BY <2>3 DEF Calm, PastRead, Part
    <3>3. /\ dict.of = svc[d] /\ at[d] <= count[d] /\ count[d] = Size[svc[d]] /\ Size[svc[d]] \in Nat
          /\ pc[d] = "servers" => todo[d].of = svc[d]
      BY <2>1, <3>1 DEF OwnInv, Calm
    <3>4. pc'[d] \in {"vdus", "servers", "interfaces"}
      BY <3>2, <2>0 DEF VduPost, RoundDone
    <3>5. row[svc[d]] # "gone"
      BY <2>1, <2>3, <3>4
    <3>6. dict.has = recorded[svc[d]] /\ Unrecorded(svc[d]) = {}
      BY <3>1, <3>5 DEF CalmInv
    <3>7. \A n \in Server(svc[d]) : ServerBehind(d, n) => <<svc[d], n>> \notin live
      BY <2>1, <2>3, <3>1, <3>5 DEF SweptInv
    <3>8. at[d] \in Nat /\ \A n \in Server(svc[d]) : n[1] \in Nat /\ n[1] <= Size[svc[d]]
      BY <3>1 DEF TypeOK, Server, Vdu
    <3>9. \A n \in Server(svc[d]) : n[1] < at[d] => <<svc[d], n>> \notin live
      BY <2>1, <3>7 DEF ServerBehind
    <3>10. \A n \in Server(svc[d]) : ServerBehind(d, n)' => n[1] < at[d] \/ (n[1] = at[d] /\ n \notin InstanceList(at[d]))
      <4>1. CASE RoundDone(d) /\ InstanceList(at[d]) = {}
        BY <3>3, <3>8, <4>1 DEF RoundDone, ServerBehind, Part
      <4>2. CASE pc'[d] = "servers" /\ at'[d] = at[d] /\ todo'[d] = [of |-> dict.of, has |-> InstanceList(at[d])]
        BY <4>2 DEF ServerBehind, Part
      <4> QED
        BY <3>2, <4>1, <4>2, <2>0 DEF VduPost
    <3>11. \A n \in Server(svc[d]) : n[1] = at[d] /\ n \notin InstanceList(at[d]) => <<svc[d], n>> \notin live
      BY <3>6 DEF InstanceList, Unrecorded
    <3>12. \A n \in Server(svc[d]) : ServerBehind(d, n)' => <<svc[d], n>> \notin live'
      BY <2>1, <3>9, <3>10, <3>11
    <3>13. (Behind(d))' = {}
      BY <3>4 DEF Behind
    <3> QED
      BY <2>1, <2>3, <3>12, <3>13 DEF Server, Vdu
  <2> QED
    BY <2>2, <2>3
<1>11. ASSUME NEW d \in Call, DeletePart(d) PROVE SweptInv'
  <2> SUFFICES ASSUME NEW c \in Call, Calm(c)', (svc[c] \notin refused)',
                      (row[svc[c]] # "gone" \/ pc[c] \in {"delete", "done"})'
               PROVE  /\ (\A n \in Server(svc[c]) : ServerBehind(c, n) => <<svc[c], n>> \notin live)'
                      /\ (Behind(c) \cap left[svc[c]] = {})'
    BY DEF SweptInv
  <2>1. row' = row /\ live' = live /\ svc' = svc /\ at' = at /\ todo' = todo /\ mixed' = mixed /\ late' = late /\ dict' = dict
    BY <1>11 DEF DeletePart
  <2>2. \A x \in Service : left'[x] \subseteq left[x]
    BY <1>11 DEF DeletePart, TypeOK
  <2>3. refused \subseteq refused'
    BY <1>11 DEF DeletePart, Refuse
  <2>4. CASE c # d
    <3>1. pc'[c] = pc[c]
      BY <1>11, <2>4 DEF DeletePart, Goes, TypeOK
    <3>2. Calm(c) /\ svc[c] \in Service
      BY <2>1, <3>1 DEF Calm, PastRead, CallInv, Running, Over, Part, TypeOK
    <3>3. /\ \A n \in Server(svc[c]) : ServerBehind(c, n) => <<svc[c], n>> \notin live
          /\ Behind(c) \cap left[svc[c]] = {}
      BY <2>1, <2>3, <3>1, <3>2 DEF SweptInv
    <3>4. Behind(c)' = Behind(c) /\ \A n \in Server(svc[c]) : ServerBehind(c, n)' = ServerBehind(c, n)
      BY <2>1, <3>1 DEF Behind, ServerBehind
    <3> QED
      BY <2>1, <2>2, <3>2, <3>3, <3>4 DEF Vdu
  <2>5. CASE c = d
    <3>1. pc[d] \in Part
      BY <1>11 DEF DeletePart
    <3>2. svc[d] \in Service /\ PastRead(d) /\ d \in Running /\ d \notin mixed
      BY <2>1, <2>5, <3>1 DEF CallInv, PastRead, Running, Over, Part, TypeOK, Calm
    <3>3. dict.svc # NoService
      BY <1>11, <2>5, <3>1 DEF DeletePart, Goes, TypeOK, Calm, PastRead, Part
    <3>4. dict.svc = svc[d]
      BY <3>2, <3>3 DEF OwnInv
    <3>5. pc' = [pc EXCEPT ![d] = After[pc[d]]] /\ UNCHANGED refused
          /\ left' = IF Needs[pc[d]] \cap left[svc[d]] = {} THEN [left EXCEPT ![svc[d]] = @ \ {pc[d]}] ELSE left
      BY <1>11, <2>1, <2>5, <3>3, <3>4 DEF DeletePart, Goes, Refuse
    <3>6. Calm(d)
      BY <2>1, <2>5, <3>2 DEF Calm
    <3>7. row[svc[d]] # "gone"
      BY <2>1, <2>5, <3>1, <3>5 DEF After, Part, TypeOK
    <3>8. /\ \A n \in Server(svc[d]) : <<svc[d], n>> \notin live
          /\ Behind(d) \cap left[svc[d]] = {}
      BY <2>1, <2>5, <3>1, <3>5, <3>6, <3>7 DEF SweptInv, ServerBehind, Part
    <3>9. left[svc[d]] \subseteq Part
      BY <3>2 DEF TypeOK
    <3>10. (Behind(d))' \cap left'[svc[d]] = {}
      <4>1. CASE pc[d] = "interfaces"
        <5>1. pc'[d] = "router" /\ left'[svc[d]] = left[svc[d]] \ {"interfaces"}
          BY <3>2, <3>5, <4>1 DEF Needs, After, Part, TypeOK
        <5> QED
          BY <5>1 DEF Behind
      <4>2. CASE pc[d] = "router"
        <5>1. "interfaces" \notin left[svc[d]]
          BY <3>8, <4>2 DEF Behind
        <5>2. pc'[d] = "ports" /\ left'[svc[d]] = left[svc[d]] \ {"router"}
          BY <3>2, <3>5, <4>2, <5>1 DEF Needs, After, Part, TypeOK
        <5> QED
          BY <5>1, <5>2 DEF Behind
      <4>3. CASE pc[d] = "ports"
        <5>1. {"interfaces", "router"} \cap left[svc[d]] = {}
          BY <3>8, <4>3 DEF Behind
        <5>2. pc'[d] = "networks" /\ left'[svc[d]] = left[svc[d]] \ {"ports"}
          BY <3>2, <3>5, <4>3 DEF Needs, After, Part, TypeOK
        <5> QED
          BY <5>1, <5>2 DEF Behind
      <4>4. CASE pc[d] = "networks"
        <5>1. {"interfaces", "router", "ports"} \cap left[svc[d]] = {}
          BY <3>8, <4>4 DEF Behind
        <5>2. pc'[d] = "row" /\ left'[svc[d]] = left[svc[d]] \ {"networks"}
          BY <3>2, <3>5, <4>4, <5>1 DEF Needs, After, Part, TypeOK
        <5> QED
          BY <3>9, <5>1, <5>2 DEF Behind, Part
      <4> QED
        BY <3>1, <4>1, <4>2, <4>3, <4>4 DEF Part
    <3> QED
      BY <2>1, <2>5, <3>8, <3>10 DEF Vdu
  <2> QED
    BY <2>4, <2>5
<1>12. ASSUME NEW d \in Call, QueryRow(d) PROVE SweptInv'
  BY <1>12 DEF QueryRow, Goes, SweptInv, Calm, ServerBehind, Behind, PastRead, histVars
<1>13. ASSUME NEW d \in Call, DeleteRow(d) PROVE SweptInv'
  BY <1>13 DEF DeleteRow, Goes, SweptInv, Calm, ServerBehind, Behind, PastRead, histVars
<1>14. CASE Restart
  BY <1>14 DEF Restart, TypeOK, SweptInv, Calm, ServerBehind, Behind, Over, Running, Part
<1>15. ASSUME NEW d \in Call, DeleteServer(d) PROVE SweptInv'
  <2>0. ServerPost(d)
    BY <1>15, ServerFacts
  <2> SUFFICES ASSUME NEW c \in Call, Calm(c)', (svc[c] \notin refused)',
                      (row[svc[c]] # "gone" \/ pc[c] \in {"delete", "done"})'
               PROVE  /\ (\A n \in Server(svc[c]) : ServerBehind(c, n) => <<svc[c], n>> \notin live)'
                      /\ (Behind(c) \cap left[svc[c]] = {})'
    BY DEF SweptInv
  <2>1. /\ row' = row /\ left' = left /\ svc' = svc /\ dict' = dict /\ mixed' = mixed /\ late' = late
        /\ live' \subseteq live /\ refused \subseteq refused' /\ OthersKeep(d) /\ pc[d] \in {"vdus", "servers"}
    BY <2>0 DEF ServerPost
  <2>2. CASE c # d
    <3>1. pc'[c] = pc[c] /\ at'[c] = at[c] /\ todo'[c] = todo[c]
      BY <2>1, <2>2 DEF OthersKeep
    <3>2. Calm(c)
      BY <2>1, <3>1 DEF Calm, PastRead
    <3>3. Behind(c)' = Behind(c) /\ \A n \in Server(svc[c]) : ServerBehind(c, n)' = ServerBehind(c, n)
      BY <3>1 DEF Behind, ServerBehind
    <3> QED
      BY <2>1, <3>1, <3>2, <3>3 DEF SweptInv, Server, Vdu
  <2>3. CASE c = d
    <3>1. Calm(d) /\ PastRead(d) /\ d \in Running /\ svc[d] \in Service
      BY <2>1, <2>3 DEF Calm, PastRead, CallInv, Running, Over, Part
    <3>2. pc'[d] # "stuck"
      BY <2>3 DEF Calm, PastRead, Part
    <3>3. /\ dict.of = svc[d] /\ at[d] <= count[d] /\ count[d] = Size[svc[d]] /\ Size[svc[d]] \in Nat
          /\ pc[d] = "servers" => todo[d].of = svc[d]
      BY <2>1, <3>1 DEF OwnInv, Calm
    <3>4. pc'[d] \in {"vdus", "servers", "interfaces"}
      BY <3>2, <2>0 DEF ServerPost, RoundDone
    <3>5. row[svc[d]] # "gone"
      BY <2>1, <2>3, <3>4
    <3>6. dict.has = recorded[svc[d]] /\ Unrecorded(svc[d]) = {}
      BY <3>1, <3>5 DEF CalmInv
    <3>7. \A n \in Server(svc[d]) : ServerBehind(d, n) => <<svc[d], n>> \notin live
      BY <2>1, <2>3, <3>1, <3>5 DEF SweptInv
    <3>8. at[d] \in Nat /\ \A n \in Server(svc[d]) : n[1] \in Nat /\ n[1] <= Size[svc[d]]
      BY <3>1 DEF TypeOK, Server, Vdu
    <3>9. \A n \in Server(svc[d]) : n[1] < at[d] => <<svc[d], n>> \notin live
      BY <2>1, <3>7 DEF ServerBehind
    <3>10. PICK m \in todo[d].has :
             /\ live' = live \ {<<svc[d], m>>}
             /\ \/ todo[d].has = {m} /\ RoundDone(d)
                \/ pc'[d] = "servers" /\ at'[d] = at[d] /\ todo'[d].has = todo[d].has \ {m}
      <4>1. todo[d].of = svc[d] /\ svc[d] \notin refused'
        BY <2>0, <2>1, <2>3, <3>3 DEF ServerPost
      <4>2. PICK m \in todo[d].has :
              /\ live' = live \ {<<todo[d].of, m>>}
              /\ \/ todo[d].has = {m} /\ RoundDone(d)
                 \/ /\ pc'[d] = "servers" /\ at'[d] = at[d]
                    /\ todo'[d] = [of |-> todo[d].of, has |-> todo[d].has \ {m}]
        BY <2>0, <4>1 DEF ServerPost
      <4> QED
        BY <4>1, <4>2
    <3>11. \A n \in Server(svc[d]) :
             ServerBehind(d, n)' => n[1] < at[d] \/ n = m \/ (n[1] = at[d] /\ <<svc[d], n>> \notin live)
      <4>1. \A n \in Server(svc[d]) : ServerBehind(d, n)' => n[1] < at[d] \/ n = m \/ (n[1] = at[d] /\ n \notin todo[d].has)
        <5>1. CASE todo[d].has = {m} /\ RoundDone(d)
          BY <3>3, <3>8, <5>1 DEF RoundDone, ServerBehind, Part
        <5>2. CASE pc'[d] = "servers" /\ at'[d] = at[d] /\ todo'[d].has = todo[d].has \ {m}
          BY <5>2 DEF ServerBehind, Part
        <5> QED
          BY <3>10, <5>1, <5>2
      <4>2. pc[d] = "servers"
        BY <2>0 DEF ServerPost
      <4>3. \A n \in Server(svc[d]) : n[1] = at[d] /\ n \notin todo[d].has => <<svc[d], n>> \notin live
        BY <3>7, <4>2 DEF ServerBehind
      <4> QED
        BY <4>1, <4>3
    <3>12. \A n \in Server(svc[d]) : ServerBehind(d, n)' => <<svc[d], n>> \notin live'
      BY <2>1, <3>9, <3>10, <3>11
    <3>13. (Behind(d))' = {}
      BY <3>4 DEF Behind
    <3> QED
      BY <2>1, <2>3, <3>12, <3>13 DEF Server, Vdu
  <2> QED
    BY <2>2, <2>3
<1>16. CASE UNCHANGED vars
  BY <1>16 DEF vars, TypeOK, SweptInv, Calm, ServerBehind, Behind, PastRead, callVars, histVars
<1> QED
  BY <1>1, <1>2, <1>3, <1>4, <1>5, <1>6, <1>7, <1>8, <1>9, <1>10, <1>11, <1>12, <1>13, <1>14, <1>15, <1>16
     DEF Next, Deploy, Deletion

\* Each step keeps that a deletion raises by another one only.
LEMMA StuckStep == TypeOK /\ CallInv /\ GoneInv /\ OwnInv /\ StuckByOther /\ [Next]_vars => StuckByOther'
<1> SUFFICES ASSUME TypeOK, CallInv, GoneInv, OwnInv, StuckByOther, [Next]_vars PROVE StuckByOther'
  OBVIOUS
<1> USE ServiceAssumption, SizeAssumption
<1>1. ASSUME NEW s \in Service, Launch(s) PROVE StuckByOther'
  BY <1>1 DEF Launch, DeployGoes, StuckByOther, callVars, histVars
<1>2. ASSUME NEW s \in Service, ServerCreate(s) PROVE StuckByOther'
  BY <1>2 DEF ServerCreate, DeployGoes, StuckByOther, callVars, histVars
<1>3. ASSUME NEW s \in Service, Record(s) PROVE StuckByOther'
  BY <1>3 DEF Record, DeployGoes, StuckByOther, callVars, histVars
<1>4. ASSUME NEW s \in Service, DeployVnfs(s) PROVE StuckByOther'
  BY <1>4 DEF DeployVnfs, DeployGoes, StuckByOther, callVars, histVars
<1>5. ASSUME NEW s \in Service, DeployRaises(s) PROVE StuckByOther'
  BY <1>5 DEF DeployRaises, DeployGoes, StuckByOther, callVars, histVars
<1>6. ASSUME NEW d \in Call, NEW s \in Service \cup {NoService}, DeleteService(d, s) PROVE StuckByOther'
  BY <1>6 DEF DeleteService, Goes, Overwrites, TypeOK, StuckByOther
<1>7. ASSUME NEW d \in Call, ReadInstances(d) PROVE StuckByOther'
  BY <1>7 DEF ReadInstances, Goes, Overwrites, StuckByOther
<1>8. ASSUME NEW d \in Call, SetDeleting(d) PROVE StuckByOther'
  BY <1>8 DEF SetDeleting, Goes, StuckByOther, histVars
<1>9. ASSUME NEW d \in Call, DeleteVtapAndVnfm(d) PROVE StuckByOther'
  BY <1>9 DEF DeleteVtapAndVnfm, Goes, StuckByOther, histVars
<1>10. ASSUME NEW d \in Call, DeleteVdu(d) PROVE StuckByOther'
  <2>0. VduPost(d)
    BY <1>10, VduFacts
  <2> SUFFICES ASSUME NEW c \in Call, pc'[c] = "stuck"
               PROVE  (c \in mixed \/ svc[c] \in refused \/ \E o \in Call \ {c} : svc[o] = svc[c] /\ pc[o] = "done")'
    BY DEF StuckByOther
  <2>1. svc' = svc /\ mixed' = mixed /\ refused' = refused /\ OthersKeep(d) /\ pc[d] = "vdus"
    BY <2>0 DEF VduPost
  <2>2. \A o \in Call : pc[o] = "done" => pc'[o] = "done"
    BY <2>1 DEF OthersKeep
  <2>3. CASE c # d
    BY <2>1, <2>2, <2>3 DEF StuckByOther, OthersKeep
  <2>4. CASE c = d
    <3>1. pc[c] = "vdus" /\ at[c] > Size[dict.of]
      BY <2>1, <2>4, <2>0 DEF VduPost, RoundDone
    <3>2. c \in Running /\ PastRead(c) /\ svc[c] \in Service
      BY <3>1 DEF Running, PastRead, Over, CallInv
    <3>3. c \notin mixed => at[c] <= Size[svc[c]] /\ dict.of = svc[c]
      BY <3>1, <3>2 DEF OwnInv
    <3> QED
      BY <2>1, <3>1, <3>2, <3>3 DEF TypeOK
  <2> QED
    BY <2>3, <2>4
<1>11. ASSUME NEW d \in Call, DeletePart(d) PROVE StuckByOther'
  <2> SUFFICES ASSUME NEW c \in Call, pc'[c] = "stuck"
               PROVE  (c \in mixed \/ svc[c] \in refused \/ \E o \in Call \ {c} : svc[o] = svc[c] /\ pc[o] = "done")'
    BY DEF StuckByOther
  <2>1. svc' = svc /\ mixed' = mixed /\ refused \subseteq refused'
    BY <1>11 DEF DeletePart, Refuse
  <2>2. \A o \in Call : pc[o] = "done" => pc'[o] = "done"
    BY <1>11 DEF DeletePart, Goes, TypeOK, Part
  <2>3. CASE c # d
    <3>1. pc[c] = "stuck"
      BY <1>11, <2>3 DEF DeletePart, Goes, TypeOK
    <3> QED
      BY <2>1, <2>2, <3>1 DEF StuckByOther
  <2>4. CASE c = d
    <3>1. pc[c] \in Part /\ (dict.svc = NoService \/ dict.svc \in refused')
      BY <1>11, <2>4 DEF DeletePart, Goes, Refuse, TypeOK, After, Part
    <3>2. c \in Running /\ svc[c] # NoService
      BY <3>1 DEF CallInv, Running, Over, Part
    <3>3. c \in mixed \/ dict.svc = svc[c] \/ DeletedBefore(svc[c])
      BY <3>2 DEF OwnInv
    <3> QED
      BY <2>1, <2>2, <3>1, <3>2, <3>3 DEF DeletedBefore, Part
  <2> QED
    BY <2>3, <2>4
<1>12. ASSUME NEW d \in Call, QueryRow(d) PROVE StuckByOther'
  BY <1>12
     DEF QueryRow, Goes, CallInv, GoneInv, StuckByOther, DeletedBefore, Over, Running, histVars
<1>13. ASSUME NEW d \in Call, DeleteRow(d) PROVE StuckByOther'
  BY <1>13 DEF DeleteRow, Goes, StuckByOther, histVars
<1>14. CASE Restart
  BY <1>14 DEF Restart, TypeOK, StuckByOther, Over, Running
<1>15. ASSUME NEW d \in Call, DeleteServer(d) PROVE StuckByOther'
  <2>0. ServerPost(d)
    BY <1>15, ServerFacts
  <2>1. /\ svc' = svc /\ mixed' = mixed /\ refused \subseteq refused' /\ OthersKeep(d)
        /\ pc[d] = "servers" /\ pc'[d] # "stuck"
    BY <2>0 DEF ServerPost, RoundDone
  <2>2. \A o \in Call : (pc[o] = "done" => pc'[o] = "done") /\ (pc'[o] = "stuck" => pc[o] = "stuck")
    BY <2>1 DEF OthersKeep
  <2> QED
    BY <2>1, <2>2 DEF StuckByOther
<1>16. CASE UNCHANGED vars
  BY <1>16 DEF vars, TypeOK, StuckByOther, callVars, histVars
<1> QED
  BY <1>1, <1>2, <1>3, <1>4, <1>5, <1>6, <1>7, <1>8, <1>9, <1>10, <1>11, <1>12, <1>13, <1>14, <1>15, <1>16
     DEF Next, Deploy, Deletion

-----------------------------------------------------------------------------
IInv == TypeOK /\ CallInv /\ ServerInv /\ GoneInv /\ AskedInv /\ OwnInv /\ CalmInv /\ SweptInv /\ StuckByOther

\* The first state satisfies the inductive invariant.
LEMMA InitIInv == Init => IInv
<1> SUFFICES ASSUME Init PROVE IInv
  OBVIOUS
<1> USE ServiceAssumption, DeployedAssumption, SizeAssumption, BoundAssumption
<1>1. \A s \in Service : Vdu(s) \subseteq Nat /\ 1 \in Vdu(s) /\ Vdu(s) \X {1} \subseteq Server(s)
  BY DEF Vdu, Server
<1>2. \A s \in Service, n \in Nat \X Nat : <<s, n>> \in live <=> s \in Deployed /\ n \in Vdu(s) \X {1}
  BY <1>1 DEF Init
<1>3. live \subseteq Service \X (Nat \X Nat)
  BY <1>1 DEF Init
<1>4. recorded \in [Service -> SUBSET (Nat \X Nat)] /\ \A s \in Service : recorded[s] \subseteq Server(s)
  BY <1>1 DEF Init
<1>5. \A s \in Service : Unrecorded(s) = {}
  <2> SUFFICES ASSUME NEW s \in Service, NEW n \in Server(s), <<s, n>> \in live PROVE n \in recorded[s]
    BY DEF Unrecorded
  <2>1. n \in Nat \X Nat
    BY <1>1 DEF Server
  <2> QED
    BY <1>2, <2>1 DEF Init
<1>6. TypeOK
  BY <1>1, <1>3, <1>4 DEF Init, TypeOK, Over, Part, NoList
<1>7. CallInv /\ ServerInv /\ GoneInv /\ OwnInv /\ CalmInv /\ SweptInv /\ StuckByOther
  BY <1>5
     DEF Init, StuckByOther, CallInv, ServerInv, GoneInv, OwnInv, CalmInv, SweptInv, Calm, PastRead, Running, Over, Part
<1>8. AskedInv
  <2>1. \A s \in Service : \A n \in recorded[s] : <<s, n>> \in live
    BY <1>1, <1>2 DEF Init
  <2> QED
    BY <2>1 DEF Init, AskedInv, NoList
<1> QED
  BY <1>6, <1>7, <1>8 DEF IInv

\* Every state satisfies the inductive invariant.
LEMMA Inductive == Spec => []IInv
<1>1. IInv /\ [Next]_vars => IInv'
  BY TypeStep, CallStep, ServerStep, GoneStep, AskedStep, OwnStep, CalmStep, SweptStep, StuckStep
     DEF IInv
<1> QED
  BY InitIInv, <1>1, PTL DEF Spec

\* Every reachable state of deployments and deletions is well typed.
THEOREM TypeCorrect == Spec => []TypeOK
<1>1. IInv => TypeOK
  BY DEF IInv
<1> QED
  BY Inductive, <1>1, PTL

\* Whatever deletions share the dict, nothing is taken from a service unasked.
THEOREM AskedOnly == Spec => []OnlyAsked
<1>1. IInv => OnlyAsked
  BY DEF IInv, AskedInv, Asked, OnlyAsked
<1> QED
  BY Inductive, <1>1, PTL

\* A deletion that nothing came between has left nothing behind.
THEOREM AllSwept == Spec => []Swept
<1>1. IInv => Swept
  <2> SUFFICES ASSUME IInv, NEW c \in Call,
                      pc[c] = "done" /\ c \notin mixed \cup late /\ svc[c] \notin refused
               PROVE  left[svc[c]] = {} /\ \A n \in Server(svc[c]) : <<svc[c], n>> \notin live
    BY DEF Swept
  <2>1. svc[c] \in Service
    BY DEF IInv, CallInv
  <2>2. Behind(c) \cap left[svc[c]] = {} /\ \A n \in Server(svc[c]) : <<svc[c], n>> \notin live
    BY DEF IInv, SweptInv, Calm, ServerBehind
  <2>3. Behind(c) = Part /\ left[svc[c]] \subseteq Part
    BY <2>1 DEF IInv, TypeOK, Behind
  <2> QED
    BY <2>2, <2>3
<1> QED
  BY Inductive, <1>1, PTL

\* A deletion raises only by what other deletions did to the dict or to its row.
THEOREM OthersStick == Spec => []StuckByOther
<1>1. IInv => StuckByOther
  BY DEF IInv
<1> QED
  BY Inductive, <1>1, PTL

\* However a deployment and deletions overlap, the servers no row has are of one VDU.
THEOREM OneVduUnrecorded == Spec => []UnrecordedOfOneVdu
<1>1. IInv => UnrecordedOfOneVdu
  BY DEF IInv, TypeOK, ServerInv, UnrecordedOfOneVdu
<1> QED
  BY Inductive, <1>1, PTL
=============================================================================
