--------------------------- MODULE Firewall_proofs ---------------------------
(***************************************************************************)
(* Proofs about Firewall.                                                  *)
(***************************************************************************)
EXTENDS Firewall, TLAPS

USE DEF dbVars, apiVars, agVars, vmVars, histVars

-----------------------------------------------------------------------------
(* Type correctness *)

\* The snapshot of the rules of a firewall is well typed.
LEMMA SnapshotType == ASSUME TypeOK, NEW f \in Fw PROVE Snapshot(f) \in Firsts
BY DEF TypeOK, Snapshot

\* The initial state is well typed.
LEMMA TypeInit == Init => TypeOK
<1> SUFFICES ASSUME Init PROVE TypeOK
  OBVIOUS
<1>1. applied \in [Fw -> Rule] /\ overlapped \in BOOLEAN
  BY DEF Init, Rule
<1>2. row \in [Fw -> Status \cup {"none"}] /\ rules \in [Policy -> Firsts] /\ restarts \in 0..MaxRestarts
  BY RestartAssumption DEF Init
<1>3. QED
  BY <1>1, <1>2 DEF Init, TypeOK

\* Once applied, the rule is enforced, and no other VM is touched.
LEMMA ApplyFacts ==
  ASSUME TypeOK, NEW t \in tasks, Apply(t)
  PROVE  /\ applied' \in [Fw -> Rule] /\ attached' \subseteq Fw
         /\ Enforces(t.fw, t.rules)'
         /\ \A g \in Fw : g # t.fw => applied'[g] = applied[g] /\ (g \in attached => g \in attached')
<1>1. t.fw \in Fw /\ t.rules \in Firsts
  BY DEF TypeOK, Task
<1>2. CASE t.rules = {}
  BY <1>1, <1>2 DEF TypeOK, Apply, Enforces
<1>3. CASE t.rules # {}
  <2>1. PICK r \in t.rules : /\ applied' = [applied EXCEPT ![t.fw] = Replace(@, r)]
                             /\ attached' = attached \cup {t.fw}
    BY <1>3 DEF Apply
  <2>2. t.rules = {r} /\ r \in Rule
    BY <1>1 DEF Firsts
  <2>3. Replace(applied[t.fw], r) \in Rule /\ \A x \in Field : r[x] # NoValue => Replace(applied[t.fw], r)[x] = r[x]
    BY <1>1, <2>2 DEF TypeOK, Rule, Replace
  <2>4. applied'[t.fw] = Replace(applied[t.fw], r)
    BY <1>1, <2>1 DEF TypeOK
  <2>5. Enforces(t.fw, t.rules)'
    BY <2>1, <2>2, <2>3, <2>4 DEF Enforces
  <2>6. QED
    BY <1>1, <2>1, <2>3, <2>5 DEF TypeOK
<1>4. QED
  BY <1>2, <1>3

\* To raise for want of a rule is to raise.
LEMMA NoRulesRaises == ASSUME NEW t, NoRules(t) PROVE TaskRaises(t)
BY DEF NoRules, TaskRaises

\* A task that unwinds leaves the tasks well typed.
LEMMA UnwindType ==
  ASSUME TypeOK, NEW t \in tasks, Unwind(t)
  PROVE  tasks' \subseteq Task
<1>1. t \in Task
  BY DEF TypeOK
<1>2. t.outer # "none" => [t EXCEPT !.pc = "tell", !.say = t.outer, !.outer = "none"] \in Task
  BY <1>1 DEF Task
<1>3. QED
  BY <1>2 DEF Unwind, Goes, Ends, TypeOK

\* Every step keeps the state well typed.
LEMMA TypeStep == TypeOK /\ [Next]_vars => TypeOK'
<1> SUFFICES ASSUME TypeOK, [Next]_vars PROVE TypeOK'
  OBVIOUS
<1> USE RestartAssumption, FwAssumption DEF TypeOK, Status, Pending, APICall, Kind, Task
<1>1. ASSUME NEW f \in Fw, CountFirewalls(f) PROVE TypeOK'
  BY <1>1 DEF CountFirewalls, Begin, Rows
<1>2. ASSUME NEW f \in Fw, LaunchFwVm(f) PROVE TypeOK'
  BY <1>2 DEF LaunchFwVm
<1>3. ASSUME NEW f \in Fw, InsertFirewall(f) PROVE TypeOK'
  BY <1>3 DEF InsertFirewall
<1>4. ASSUME NEW f \in Fw, CastCreate(f) PROVE TypeOK'
  <2>1. NewTask(f, "create", f, "new") \in Task
    BY SnapshotType DEF NewTask
  <2>2. QED
    BY <1>4, <2>1 DEF CastCreate
<1>5. ASSUME NEW f \in Fw, CreateRaises(f) PROVE TypeOK'
  BY <1>5 DEF CreateRaises
<1>6. ASSUME NEW f \in Fw, ServerBuilt(f) PROVE TypeOK'
  BY <1>6 DEF ServerBuilt
<1>7. ASSUME NEW r \in Call, NEW f \in Fw, NEW p \in Policy, UpdateFirewall(r, f, p) PROVE TypeOK'
  BY <1>7 DEF UpdateFirewall, Begin, NewCall
<1>8. ASSUME NEW r \in Call, NEW p \in Policy, UpdatePolicy(r, p) PROVE TypeOK'
  BY <1>8 DEF UpdatePolicy, Begin, NewCall, Bound, Rows
<1>9. ASSUME NEW r \in Call, NEW f \in Fw, DeleteFirewall(r, f) PROVE TypeOK'
  BY <1>9 DEF DeleteFirewall, Begin, NewCall
<1>10. ASSUME NEW c \in calls, NEW f \in Fw, Ensure(c, f) PROVE TypeOK'
  BY <1>10 DEF Ensure
<1>11. ASSUME NEW c \in calls, NEW f \in Fw, WriteStatus(c, f) PROVE TypeOK'
  <2>0. c \in APICall
    OBVIOUS
  <2>1. [c EXCEPT !.pc = "cast", !.todo = @ \ {f}, !.fw = f] \in APICall
    BY <2>0
  <2>2. row' \in [Fw -> Status \cup {"none"}] /\ policyOf' \in [Fw -> Policy] /\ revived' \subseteq Fw
    BY <1>11 DEF WriteStatus
  <2>3. QED
    BY <1>11, <2>1, <2>2 DEF WriteStatus
<1>12. ASSUME NEW c \in calls, ChangeRules(c) PROVE TypeOK'
  <2>1. [c EXCEPT !.pc = "write", !.todo = Bound(c.policy)] \in APICall
    <3>1. c \in APICall /\ Bound(c.policy) \in SUBSET Fw
      BY DEF Bound, Rows
    <3>2. QED
      BY <3>1
  <2>2. rules' \in [Policy -> Firsts]
    BY <1>12 DEF ChangeRules
  <2>3. QED
    BY <1>12, <2>1, <2>2 DEF ChangeRules
<1>13. ASSUME NEW c \in calls, Return(c) PROVE TypeOK'
  BY <1>13 DEF Return
<1>14. ASSUME NEW c \in calls, CastFirewall(c) PROVE TypeOK'
  <2>1. c.fw \in Fw
    BY <1>14 DEF CastFirewall, Rows
  <2>2. NewTask(c.id, "delete", c.fw, "new") \in Task /\ NewTask(c.id, "update", c.fw, "apply") \in Task
    BY <2>1, SnapshotType DEF NewTask
  <2>0. c \in APICall
    OBVIOUS
  <2>3. [c EXCEPT !.pc = "write", !.fw = NoFw] \in APICall
    BY <2>0
  <2>4. tasks' \subseteq Task
    BY <1>14, <2>2 DEF CastFirewall
  <2>5. calls' \subseteq APICall
    BY <1>14, <2>3 DEF CastFirewall
  <2>6. \A d \in calls' : d.pc = "cast" => d.fw \in Fw
    <3>1. [c EXCEPT !.pc = "write", !.fw = NoFw].pc = "write"
      BY <2>0
    <3>2. QED
      BY <1>14, <3>1 DEF CastFirewall
  <2>7. QED
    BY <1>14, <2>4, <2>5, <2>6 DEF CastFirewall
<1>15. ASSUME NEW c \in calls, CallRaises(c) PROVE TypeOK'
  BY <1>15 DEF CallRaises
<1>16. ASSUME NEW t \in tasks, GetServer(t) PROVE TypeOK'
  BY <1>16 DEF GetServer, Goes
<1>17. ASSUME NEW t \in tasks, WaitOver(t) PROVE TypeOK'
  <2>0. t \in Task
    OBVIOUS
  <2>1. \A o \in {"ACTIVE", "ERROR"} : [t EXCEPT !.pc = "driver", !.outer = o] \in Task
    BY <2>0
  <2>2. QED
    BY <1>17, <2>1 DEF WaitOver, Goes
<1>18. ASSUME NEW t \in tasks, WaitMore(t) PROVE TypeOK'
  BY <1>18 DEF WaitMore, Goes
<1>19. ASSUME NEW t \in tasks, LoadDriver(t) PROVE TypeOK'
  BY <1>19 DEF LoadDriver, Goes
<1>20. ASSUME NEW t \in tasks, Apply(t) PROVE TypeOK'
  <2>1. applied' \in [Fw -> Rule] /\ attached' \subseteq Fw
    BY <1>20, ApplyFacts
  <2>2. tasks' \subseteq Task
    BY <1>20 DEF Apply, Goes
  <2>3. QED
    BY <1>20, <2>1, <2>2 DEF Apply
<1>21. ASSUME NEW t \in tasks, ApplyError(t) PROVE TypeOK'
  BY <1>21 DEF ApplyError, Goes
<1>22. ASSUME NEW t \in tasks, UpdateNoDriver(t) PROVE TypeOK'
  BY <1>22 DEF UpdateNoDriver, Ends
<1>23. ASSUME NEW t \in tasks, SetFirewallStatus(t) PROVE TypeOK'
  <2>1. tasks' \subseteq Task
    BY <1>23, UnwindType DEF SetFirewallStatus
  <2>2. t.fw \in Fw /\ t.say \in {"ACTIVE", "ERROR"}
    OBVIOUS
  <2>3. row' \in [Fw -> Status \cup {"none"}] /\ revived' \subseteq Fw
    BY <1>23, <2>2 DEF SetFirewallStatus
  <2>4. QED
    BY <1>23, <2>1, <2>3 DEF SetFirewallStatus
<1>24. ASSUME NEW t \in tasks, FirewallDeleted(t) PROVE TypeOK'
  BY <1>24 DEF FirewallDeleted, Goes
<1>25. ASSUME NEW t \in tasks, DeleteServer(t) PROVE TypeOK'
  BY <1>25 DEF DeleteServer, Ends
<1>26. ASSUME NEW t \in tasks, CallbackRaises(t) PROVE TypeOK'
  <2>1. tasks' \subseteq Task
    BY <1>26, UnwindType DEF CallbackRaises
  <2>2. QED
    BY <1>26, <2>1 DEF CallbackRaises
<1>27. ASSUME NEW t \in tasks, TaskRaises(t) PROVE TypeOK'
  <2>1. tasks' \subseteq Task
    BY <1>27, UnwindType DEF TaskRaises
  <2>2. QED
    BY <1>27, <2>1 DEF TaskRaises
<1>28. CASE AgentRestart
  BY <1>28 DEF AgentRestart
<1>29. CASE UNCHANGED vars
  BY <1>29 DEF vars
<1>30. ASSUME NEW f \in Fw, CreateNext(f) \/ ServerBuilt(f) PROVE TypeOK'
  BY <1>1, <1>2, <1>3, <1>4, <1>5, <1>6, <1>30 DEF CreateNext
<1>31. ASSUME NEW r \in Call, BeginNext(r) PROVE TypeOK'
  BY <1>7, <1>8, <1>9, <1>31 DEF BeginNext
<1>32. ASSUME NEW c \in calls, CallNext(c) PROVE TypeOK'
  BY <1>10, <1>11, <1>12, <1>13, <1>14, <1>15, <1>32 DEF CallNext
<1>33. ASSUME NEW t \in tasks, TaskNext(t) PROVE TypeOK'
  BY <1>16, <1>17, <1>18, <1>19, <1>20, <1>21, <1>22, <1>23, <1>24, <1>25, <1>26, <1>27, <1>33, NoRulesRaises DEF TaskNext
<1>34. QED
  BY <1>28, <1>29, <1>30, <1>31, <1>32, <1>33 DEF Next

\* TypeOK is an invariant.
THEOREM TypeCorrect == Spec => []TypeOK
BY TypeInit, TypeStep, PTL DEF Spec

-----------------------------------------------------------------------------
(* What a step does to the sets of calls and of tasks *)

CallMoved(c, d) ==
  /\ d \in calls' /\ d.kind = c.kind
  /\ \A x \in calls : x # c => x \in calls'
  /\ \A x \in calls' : x \in calls \/ x = d

TaskMoved(t, u) ==
  /\ u \in tasks' /\ u.fw = t.fw /\ u.kind = t.kind /\ u.pc # "new"
  /\ \A x \in tasks : x # t => x \in tasks'
  /\ \A x \in tasks' : x \in tasks \/ x = u

TaskAdded(u) ==
  /\ u \in tasks'
  /\ \A x \in tasks : x \in tasks'
  /\ \A x \in tasks' : x \in tasks \/ x = u

\* A call that writes a status goes on to cast that firewall.
LEMMA WriteMoves ==
  ASSUME TypeOK, NEW c \in calls, NEW f \in Fw, WriteStatus(c, f)
  PROVE  \E d : CallMoved(c, d) /\ d.pc = "cast" /\ d.fw = f /\ d.todo \subseteq c.todo
<1> DEFINE d == [c EXCEPT !.pc = "cast", !.todo = @ \ {f}, !.fw = f]
<1>1. c \in APICall
  BY DEF TypeOK
<1>2. d.kind = c.kind /\ d.pc = "cast" /\ d.fw = f /\ d.todo \subseteq c.todo
  BY <1>1 DEF APICall
<1>3. calls' = (calls \ {c}) \cup {d}
  BY DEF WriteStatus
<1> HIDE DEF d
<1>4. QED
  BY <1>2, <1>3 DEF CallMoved

\* A call that changes the rules goes on with the firewalls of the policy.
LEMMA ChangeMoves ==
  ASSUME TypeOK, NEW c \in calls, ChangeRules(c)
  PROVE  \E d : CallMoved(c, d) /\ d.pc = "write" /\ d.todo \subseteq Rows
<1> DEFINE d == [c EXCEPT !.pc = "write", !.todo = Bound(c.policy)]
<1>1. c \in APICall
  BY DEF TypeOK
<1>2. d.kind = c.kind /\ d.pc = "write" /\ d.todo \subseteq Rows
  BY <1>1 DEF APICall, Bound
<1>3. calls' = (calls \ {c}) \cup {d}
  BY DEF ChangeRules
<1> HIDE DEF d
<1>4. QED
  BY <1>2, <1>3 DEF CallMoved

\* A call that casts a firewall goes on with the others, and adds a task.
LEMMA CastMoves ==
  ASSUME TypeOK, NEW c \in calls, CastFirewall(c)
  PROVE  /\ c.fw \in Fw
         /\ \E d : CallMoved(c, d) /\ d.pc = "write" /\ d.todo = c.todo
         /\ \E u : /\ TaskAdded(u) /\ u.fw = c.fw /\ u.pc \in {"new", "apply"}
                   /\ c.kind = "delete" => u.kind = "delete" /\ u.pc = "new"
                   /\ c.kind # "delete" => u.kind = "update"
<1> DEFINE d == [c EXCEPT !.pc = "write", !.fw = NoFw]
<1> DEFINE u == IF c.kind = "delete" THEN NewTask(c.id, "delete", c.fw, "new")
                                     ELSE NewTask(c.id, "update", c.fw, "apply")
<1>1. c \in APICall /\ c.fw \in Fw
  BY DEF TypeOK, CastFirewall
<1>2. d.kind = c.kind /\ d.pc = "write" /\ d.todo = c.todo
  BY <1>1 DEF APICall
<1>3. calls' = (calls \ {c}) \cup {d} /\ tasks' = tasks \cup {u}
  BY DEF CastFirewall
<1>4. /\ u.fw = c.fw /\ u.pc \in {"new", "apply"}
      /\ c.kind = "delete" => u.kind = "delete" /\ u.pc = "new"
      /\ c.kind # "delete" => u.kind = "update"
  BY DEF NewTask
<1> HIDE DEF d, u
<1>5. QED
  BY <1>1, <1>2, <1>3, <1>4 DEF CallMoved, TaskAdded

\* create_firewall adds a task.
LEMMA CreateAdds ==
  ASSUME NEW f \in Fw, CastCreate(f)
  PROVE  \E u : TaskAdded(u) /\ u.fw = f /\ u.kind = "create" /\ u.pc = "new"
<1> DEFINE u == NewTask(f, "create", f, "new")
<1>1. u.fw = f /\ u.kind = "create" /\ u.pc = "new"
  BY DEF NewTask
<1>2. tasks' = tasks \cup {u}
  BY DEF CastCreate
<1> HIDE DEF u
<1>3. QED
  BY <1>1, <1>2 DEF TaskAdded

\* A task that goes on stays a task of its kind on its firewall; its next step
\* is to delete the server only after firewall_deleted.
LEMMA TaskMoves ==
  ASSUME TypeOK, NEW t \in tasks,
         \/ GetServer(t) \/ WaitOver(t) \/ WaitMore(t) \/ LoadDriver(t)
         \/ Apply(t) \/ ApplyError(t) \/ FirewallDeleted(t)
  PROVE  \E u : TaskMoved(t, u) /\ (u.pc = "server" <=> t.kind = "delete" /\ t.pc = "new")
<1>1. t \in Task
  BY DEF TypeOK
<1>2. ASSUME NEW u, Goes(t, u), u.fw = t.fw, u.kind = t.kind, u.pc # "new"
      PROVE  TaskMoved(t, u)
  BY <1>2 DEF Goes, TaskMoved
<1>3. CASE GetServer(t)
  <2> DEFINE u == [t EXCEPT !.pc = IF server[t.fw] = "active" THEN "driver" ELSE "wait"]
  <2>1. u.fw = t.fw /\ u.kind = t.kind /\ u.pc \in {"driver", "wait"}
    BY <1>1 DEF Task
  <2>2. Goes(t, u) /\ t.kind # "delete"
    BY <1>3 DEF GetServer
  <2> HIDE DEF u
  <2>3. QED
    BY <1>2, <2>1, <2>2
<1>4. CASE WaitOver(t)
  <2> DEFINE u == [t EXCEPT !.pc = "driver", !.outer = IF t.pc = "wait" THEN "ACTIVE" ELSE "ERROR"]
  <2>1. u.fw = t.fw /\ u.kind = t.kind /\ u.pc = "driver"
    BY <1>1 DEF Task
  <2>2. Goes(t, u) /\ t.pc # "new"
    BY <1>4 DEF WaitOver
  <2> HIDE DEF u
  <2>3. QED
    BY <1>2, <2>1, <2>2
<1>5. CASE WaitMore(t)
  <2> DEFINE u == [t EXCEPT !.pc = "waitmore"]
  <2>1. u.fw = t.fw /\ u.kind = t.kind /\ u.pc = "waitmore"
    BY <1>1 DEF Task
  <2>2. Goes(t, u) /\ t.pc # "new"
    BY <1>5 DEF WaitMore
  <2> HIDE DEF u
  <2>3. QED
    BY <1>2, <2>1, <2>2
<1>6. CASE LoadDriver(t)
  <2> DEFINE u == [t EXCEPT !.pc = "apply"]
  <2>1. u.fw = t.fw /\ u.kind = t.kind /\ u.pc = "apply"
    BY <1>1 DEF Task
  <2>2. Goes(t, u) /\ t.pc # "new"
    BY <1>6 DEF LoadDriver
  <2> HIDE DEF u
  <2>3. QED
    BY <1>2, <2>1, <2>2
<1>7. CASE Apply(t)
  <2> DEFINE u == [t EXCEPT !.pc = "tell"]
  <2>1. u.fw = t.fw /\ u.kind = t.kind /\ u.pc = "tell"
    BY <1>1 DEF Task
  <2>2. Goes(t, u) /\ t.pc # "new"
    BY <1>7 DEF Apply
  <2> HIDE DEF u
  <2>3. QED
    BY <1>2, <2>1, <2>2
<1>8. CASE ApplyError(t)
  <2> DEFINE u == [t EXCEPT !.pc = "tell", !.say = "ERROR"]
  <2>1. u.fw = t.fw /\ u.kind = t.kind /\ u.pc = "tell"
    BY <1>1 DEF Task
  <2>2. Goes(t, u) /\ t.pc # "new"
    BY <1>8 DEF ApplyError
  <2> HIDE DEF u
  <2>3. QED
    BY <1>2, <2>1, <2>2
<1>9. CASE FirewallDeleted(t)
  <2> DEFINE u == [t EXCEPT !.pc = "server"]
  <2>1. u.fw = t.fw /\ u.kind = t.kind /\ u.pc = "server"
    BY <1>1 DEF Task
  <2>2. Goes(t, u) /\ t.kind = "delete" /\ t.pc = "new"
    BY <1>9 DEF FirewallDeleted
  <2> HIDE DEF u
  <2>3. QED
    BY <1>2, <2>1, <2>2
<1>10. QED
  BY <1>3, <1>4, <1>5, <1>6, <1>7, <1>8, <1>9

\* A task that unwinds ends, or has a status to tell.
LEMMA Unwinds ==
  ASSUME TypeOK, NEW t \in tasks, Unwind(t)
  PROVE  /\ \A x \in tasks : x # t => x \in tasks'
         /\ \A x \in tasks' : x \in tasks \/ (x.fw = t.fw /\ x.kind = t.kind /\ x.pc = "tell")
<1> DEFINE u == [t EXCEPT !.pc = "tell", !.say = t.outer, !.outer = "none"]
<1>1. u.fw = t.fw /\ u.kind = t.kind /\ u.pc = "tell"
  BY DEF TypeOK, Task
<1>2. tasks' = tasks \ {t} \/ tasks' = (tasks \ {t}) \cup {u}
  BY DEF Unwind, Goes, Ends
<1> HIDE DEF u
<1>3. QED
  BY <1>1, <1>2

-----------------------------------------------------------------------------
(* Where there is a row, a call or a task *)

Began(f) == making[f] \in {"inserted", "done"}

\* Rows, calls and tasks belong to firewalls that create_firewall has inserted.
WorkInv ==
  /\ \A f \in Fw : row[f] # "none" => Began(f)
  /\ \A f \in Fw : server[f] # "none" => making[f] \notin {"no", "counted"}
  /\ \A f \in Fw : server[f] = "gone" => Began(f)
  /\ \A c \in calls : \A f \in c.todo : Began(f)
  /\ \A c \in calls : c.pc = "cast" => Began(c.fw)
  /\ \A t \in tasks : Began(t.fw)

\* Every step keeps WorkInv.
LEMMA WorkStep == TypeOK /\ WorkInv /\ [Next]_vars => WorkInv'
<1> SUFFICES ASSUME TypeOK, WorkInv, [Next]_vars PROVE WorkInv'
  OBVIOUS
<1> USE FwAssumption DEF TypeOK, WorkInv, Began, APICall, Task
<1>1. ASSUME NEW f \in Fw, CountFirewalls(f) PROVE WorkInv'
  BY <1>1 DEF CountFirewalls, Begin, Rows
<1>2. ASSUME NEW f \in Fw, LaunchFwVm(f) PROVE WorkInv'
  BY <1>2 DEF LaunchFwVm
<1>3. ASSUME NEW f \in Fw, InsertFirewall(f) PROVE WorkInv'
  BY <1>3 DEF InsertFirewall
<1>4. ASSUME NEW f \in Fw, CastCreate(f) PROVE WorkInv'
  <2>1. PICK u : TaskAdded(u) /\ u.fw = f /\ u.kind = "create" /\ u.pc = "new"
    BY <1>4, CreateAdds
  <2>2. QED
    BY <1>4, <2>1 DEF CastCreate, TaskAdded
<1>5. ASSUME NEW f \in Fw, CreateRaises(f) PROVE WorkInv'
  BY <1>5 DEF CreateRaises
<1>6. ASSUME NEW f \in Fw, ServerBuilt(f) PROVE WorkInv'
  BY <1>6 DEF ServerBuilt
<1>7. ASSUME NEW r \in Call, NEW f \in Fw, NEW p \in Policy, UpdateFirewall(r, f, p) PROVE WorkInv'
  <2> DEFINE d == NewCall(r, "firewall", "write", p, {f})
  <2>1. d.pc = "write" /\ d.kind = "firewall" /\ d.todo = {f}
    BY DEF NewCall
  <2>2. calls' = calls \cup {d}
    BY <1>7 DEF UpdateFirewall
  <2> HIDE DEF d
  <2>3. row[f] # "none"
    BY <1>7 DEF UpdateFirewall, Status, Pending
  <2>4. QED
    BY <1>7, <2>1, <2>2, <2>3 DEF UpdateFirewall, Begin
<1>8. ASSUME NEW r \in Call, NEW p \in Policy, UpdatePolicy(r, p) PROVE WorkInv'
  BY <1>8 DEF UpdatePolicy, Begin, NewCall, Bound, Rows
<1>9. ASSUME NEW r \in Call, NEW f \in Fw, DeleteFirewall(r, f) PROVE WorkInv'
  BY <1>9 DEF DeleteFirewall, Begin, NewCall
<1>10. ASSUME NEW c \in calls, NEW f \in Fw, Ensure(c, f) PROVE WorkInv'
  BY <1>10 DEF Ensure
<1>11. ASSUME NEW c \in calls, NEW f \in Fw, WriteStatus(c, f) PROVE WorkInv'
  <2>1. PICK d : CallMoved(c, d) /\ d.pc = "cast" /\ d.fw = f /\ d.todo \subseteq c.todo
    BY <1>11, WriteMoves
  <2>2. QED
    BY <1>11, <2>1 DEF WriteStatus, CallMoved
<1>12. ASSUME NEW c \in calls, ChangeRules(c) PROVE WorkInv'
  <2>1. PICK d : CallMoved(c, d) /\ d.pc = "write" /\ d.todo \subseteq Rows
    BY <1>12, ChangeMoves
  <2>2. QED
    BY <1>12, <2>1 DEF ChangeRules, CallMoved, Rows
<1>13. ASSUME NEW c \in calls, Return(c) PROVE WorkInv'
  BY <1>13 DEF Return
<1>14. ASSUME NEW c \in calls, CastFirewall(c) PROVE WorkInv'
  <2>1. PICK d : CallMoved(c, d) /\ d.pc = "write" /\ d.todo = c.todo
    BY <1>14, CastMoves
  <2>2. PICK u : /\ TaskAdded(u) /\ u.fw = c.fw /\ u.pc \in {"new", "apply"}
                 /\ c.kind = "delete" => u.kind = "delete" /\ u.pc = "new"
                 /\ c.kind # "delete" => u.kind = "update"
    BY <1>14, CastMoves
  <2>3. c.fw \in Fw
    BY <1>14, CastMoves
  <2>4. UNCHANGED <<row, making, server, revived, dropped>> /\ row[c.fw] # "none" /\ c.pc = "cast"
    BY <1>14 DEF CastFirewall
  <2>5. QED
    BY <2>1, <2>2, <2>3, <2>4 DEF CallMoved, TaskAdded
<1>15. ASSUME NEW c \in calls, CallRaises(c) PROVE WorkInv'
  BY <1>15 DEF CallRaises
<1>16. ASSUME NEW t \in tasks, GetServer(t) PROVE WorkInv'
  <2>1. PICK u : TaskMoved(t, u) /\ (u.pc = "server" <=> t.kind = "delete" /\ t.pc = "new")
    BY <1>16, TaskMoves
  <2>2. QED
    BY <1>16, <2>1 DEF GetServer, TaskMoved
<1>17. ASSUME NEW t \in tasks, WaitOver(t) PROVE WorkInv'
  <2>1. PICK u : TaskMoved(t, u) /\ (u.pc = "server" <=> t.kind = "delete" /\ t.pc = "new")
    BY <1>17, TaskMoves
  <2>2. QED
    BY <1>17, <2>1 DEF WaitOver, TaskMoved
<1>18. ASSUME NEW t \in tasks, WaitMore(t) PROVE WorkInv'
  <2>1. PICK u : TaskMoved(t, u) /\ (u.pc = "server" <=> t.kind = "delete" /\ t.pc = "new")
    BY <1>18, TaskMoves
  <2>2. QED
    BY <1>18, <2>1 DEF WaitMore, TaskMoved
<1>19. ASSUME NEW t \in tasks, LoadDriver(t) PROVE WorkInv'
  <2>1. PICK u : TaskMoved(t, u) /\ (u.pc = "server" <=> t.kind = "delete" /\ t.pc = "new")
    BY <1>19, TaskMoves
  <2>2. QED
    BY <1>19, <2>1 DEF LoadDriver, TaskMoved
<1>20. ASSUME NEW t \in tasks, Apply(t) PROVE WorkInv'
  <2>1. PICK u : TaskMoved(t, u) /\ (u.pc = "server" <=> t.kind = "delete" /\ t.pc = "new")
    BY <1>20, TaskMoves
  <2>2. QED
    BY <1>20, <2>1 DEF Apply, TaskMoved
<1>21. ASSUME NEW t \in tasks, ApplyError(t) PROVE WorkInv'
  <2>1. PICK u : TaskMoved(t, u) /\ (u.pc = "server" <=> t.kind = "delete" /\ t.pc = "new")
    BY <1>21, TaskMoves
  <2>2. QED
    BY <1>21, <2>1 DEF ApplyError, TaskMoved
<1>22. ASSUME NEW t \in tasks, UpdateNoDriver(t) PROVE WorkInv'
  BY <1>22 DEF UpdateNoDriver, Ends
<1>23. ASSUME NEW t \in tasks, SetFirewallStatus(t) PROVE WorkInv'
  <2>1. Unwind(t)
    BY <1>23 DEF SetFirewallStatus
  <2>2. QED
    BY <1>23, <2>1, Unwinds DEF SetFirewallStatus
<1>24. ASSUME NEW t \in tasks, FirewallDeleted(t) PROVE WorkInv'
  <2>1. PICK u : TaskMoved(t, u) /\ (u.pc = "server" <=> t.kind = "delete" /\ t.pc = "new")
    BY <1>24, TaskMoves
  <2>2. QED
    BY <1>24, <2>1 DEF FirewallDeleted, TaskMoved
<1>25. ASSUME NEW t \in tasks, DeleteServer(t) PROVE WorkInv'
  BY <1>25 DEF DeleteServer, Ends
<1>26. ASSUME NEW t \in tasks, CallbackRaises(t) PROVE WorkInv'
  <2>1. Unwind(t)
    BY <1>26 DEF CallbackRaises
  <2>2. QED
    BY <1>26, <2>1, Unwinds DEF CallbackRaises
<1>27. ASSUME NEW t \in tasks, TaskRaises(t) PROVE WorkInv'
  <2>1. Unwind(t)
    BY <1>27 DEF TaskRaises
  <2>2. QED
    BY <1>27, <2>1, Unwinds DEF TaskRaises
<1>28. CASE AgentRestart
  BY <1>28 DEF AgentRestart
<1>29. CASE UNCHANGED vars
  BY <1>29 DEF vars
<1>30. ASSUME NEW f \in Fw, CreateNext(f) \/ ServerBuilt(f) PROVE WorkInv'
  BY <1>1, <1>2, <1>3, <1>4, <1>5, <1>6, <1>30 DEF CreateNext
<1>31. ASSUME NEW r \in Call, BeginNext(r) PROVE WorkInv'
  BY <1>7, <1>8, <1>9, <1>31 DEF BeginNext
<1>32. ASSUME NEW c \in calls, CallNext(c) PROVE WorkInv'
  BY <1>10, <1>11, <1>12, <1>13, <1>14, <1>15, <1>32 DEF CallNext
<1>33. ASSUME NEW t \in tasks, TaskNext(t) PROVE WorkInv'
  BY <1>16, <1>17, <1>18, <1>19, <1>20, <1>21, <1>22, <1>23, <1>24, <1>25, <1>26, <1>27, <1>33, NoRulesRaises DEF TaskNext
<1>34. QED
  BY <1>28, <1>29, <1>30, <1>31, <1>32, <1>33 DEF Next

-----------------------------------------------------------------------------
(* Deletions *)

\* A delete call that has written its status, and its task until it has called
\* the plugin back, see PENDING_DELETE or no row, unless the status was
\* overwritten; and no row is left when the server is to be deleted.
DeleteInv ==
  /\ \A c \in calls : c.pc = "cast" /\ c.kind = "delete" =>
       row[c.fw] \in {"PENDING_DELETE", "none"} \/ c.fw \in revived
  /\ \A t \in tasks : t.kind = "delete" /\ t.pc = "new" =>
       row[t.fw] \in {"PENDING_DELETE", "none"} \/ t.fw \in revived
  /\ \A t \in tasks : t.pc = "server" => row[t.fw] = "none" \/ t.fw \in revived

\* Every step keeps DeleteInv and RowHasServer.
LEMMA DeleteStep ==
  TypeOK /\ WorkInv /\ DeleteInv /\ RowHasServer /\ [Next]_vars
    => DeleteInv' /\ RowHasServer'
<1> SUFFICES ASSUME TypeOK, WorkInv, DeleteInv, RowHasServer, [Next]_vars
             PROVE  DeleteInv' /\ RowHasServer'
  OBVIOUS
<1> USE FwAssumption DEF TypeOK, WorkInv, Began, DeleteInv, RowHasServer, APICall, Task
<1>1. ASSUME NEW f \in Fw, CountFirewalls(f) PROVE (DeleteInv' /\ RowHasServer')
  BY <1>1 DEF CountFirewalls, Begin, Rows
<1>2. ASSUME NEW f \in Fw, LaunchFwVm(f) PROVE (DeleteInv' /\ RowHasServer')
  BY <1>2 DEF LaunchFwVm
<1>3. ASSUME NEW f \in Fw, InsertFirewall(f) PROVE (DeleteInv' /\ RowHasServer')
  BY <1>3 DEF InsertFirewall
<1>4. ASSUME NEW f \in Fw, CastCreate(f) PROVE (DeleteInv' /\ RowHasServer')
  <2>1. PICK u : TaskAdded(u) /\ u.fw = f /\ u.kind = "create" /\ u.pc = "new"
    BY <1>4, CreateAdds
  <2>2. QED
    BY <1>4, <2>1 DEF CastCreate, TaskAdded
<1>5. ASSUME NEW f \in Fw, CreateRaises(f) PROVE (DeleteInv' /\ RowHasServer')
  BY <1>5 DEF CreateRaises
<1>6. ASSUME NEW f \in Fw, ServerBuilt(f) PROVE (DeleteInv' /\ RowHasServer')
  BY <1>6 DEF ServerBuilt
<1>7. ASSUME NEW r \in Call, NEW f \in Fw, NEW p \in Policy, UpdateFirewall(r, f, p) PROVE (DeleteInv' /\ RowHasServer')
  <2> DEFINE d == NewCall(r, "firewall", "write", p, {f})
  <2>1. d.pc = "write" /\ d.kind = "firewall" /\ d.todo = {f}
    BY DEF NewCall
  <2>2. calls' = calls \cup {d}
    BY <1>7 DEF UpdateFirewall
  <2> HIDE DEF d
  <2>3. row[f] # "none"
    BY <1>7 DEF UpdateFirewall, Status, Pending
  <2>4. QED
    BY <1>7, <2>1, <2>2, <2>3 DEF UpdateFirewall, Begin
<1>8. ASSUME NEW r \in Call, NEW p \in Policy, UpdatePolicy(r, p) PROVE (DeleteInv' /\ RowHasServer')
  BY <1>8 DEF UpdatePolicy, Begin, NewCall, Bound, Rows
<1>9. ASSUME NEW r \in Call, NEW f \in Fw, DeleteFirewall(r, f) PROVE (DeleteInv' /\ RowHasServer')
  BY <1>9 DEF DeleteFirewall, Begin, NewCall
<1>10. ASSUME NEW c \in calls, NEW f \in Fw, Ensure(c, f) PROVE (DeleteInv' /\ RowHasServer')
  BY <1>10 DEF Ensure
<1>11. ASSUME NEW c \in calls, NEW f \in Fw, WriteStatus(c, f) PROVE (DeleteInv' /\ RowHasServer')
  <2>1. PICK d : CallMoved(c, d) /\ d.pc = "cast" /\ d.fw = f /\ d.todo \subseteq c.todo
    BY <1>11, WriteMoves
  <2>2. QED
    BY <1>11, <2>1 DEF WriteStatus, CallMoved
<1>12. ASSUME NEW c \in calls, ChangeRules(c) PROVE (DeleteInv' /\ RowHasServer')
  <2>1. PICK d : CallMoved(c, d) /\ d.pc = "write" /\ d.todo \subseteq Rows
    BY <1>12, ChangeMoves
  <2>2. QED
    BY <1>12, <2>1 DEF ChangeRules, CallMoved, Rows
<1>13. ASSUME NEW c \in calls, Return(c) PROVE (DeleteInv' /\ RowHasServer')
  BY <1>13 DEF Return
<1>14. ASSUME NEW c \in calls, CastFirewall(c) PROVE (DeleteInv' /\ RowHasServer')
  <2>1. PICK d : CallMoved(c, d) /\ d.pc = "write" /\ d.todo = c.todo
    BY <1>14, CastMoves
  <2>2. PICK u : /\ TaskAdded(u) /\ u.fw = c.fw /\ u.pc \in {"new", "apply"}
                 /\ c.kind = "delete" => u.kind = "delete" /\ u.pc = "new"
                 /\ c.kind # "delete" => u.kind = "update"
    BY <1>14, CastMoves
  <2>3. c.fw \in Fw
    BY <1>14, CastMoves
  <2>4. UNCHANGED <<row, making, server, revived, dropped>> /\ row[c.fw] # "none" /\ c.pc = "cast"
    BY <1>14 DEF CastFirewall
  <2>5. QED
    BY <2>1, <2>2, <2>3, <2>4 DEF CallMoved, TaskAdded
<1>15. ASSUME NEW c \in calls, CallRaises(c) PROVE (DeleteInv' /\ RowHasServer')
  BY <1>15 DEF CallRaises
<1>16. ASSUME NEW t \in tasks, GetServer(t) PROVE (DeleteInv' /\ RowHasServer')
  <2>1. PICK u : TaskMoved(t, u) /\ (u.pc = "server" <=> t.kind = "delete" /\ t.pc = "new")
    BY <1>16, TaskMoves
  <2>2. QED
    BY <1>16, <2>1 DEF GetServer, TaskMoved
<1>17. ASSUME NEW t \in tasks, WaitOver(t) PROVE (DeleteInv' /\ RowHasServer')
  <2>1. PICK u : TaskMoved(t, u) /\ (u.pc = "server" <=> t.kind = "delete" /\ t.pc = "new")
    BY <1>17, TaskMoves
  <2>2. QED
    BY <1>17, <2>1 DEF WaitOver, TaskMoved
<1>18. ASSUME NEW t \in tasks, WaitMore(t) PROVE (DeleteInv' /\ RowHasServer')
  <2>1. PICK u : TaskMoved(t, u) /\ (u.pc = "server" <=> t.kind = "delete" /\ t.pc = "new")
    BY <1>18, TaskMoves
  <2>2. QED
    BY <1>18, <2>1 DEF WaitMore, TaskMoved
<1>19. ASSUME NEW t \in tasks, LoadDriver(t) PROVE (DeleteInv' /\ RowHasServer')
  <2>1. PICK u : TaskMoved(t, u) /\ (u.pc = "server" <=> t.kind = "delete" /\ t.pc = "new")
    BY <1>19, TaskMoves
  <2>2. QED
    BY <1>19, <2>1 DEF LoadDriver, TaskMoved
<1>20. ASSUME NEW t \in tasks, Apply(t) PROVE (DeleteInv' /\ RowHasServer')
  <2>1. PICK u : TaskMoved(t, u) /\ (u.pc = "server" <=> t.kind = "delete" /\ t.pc = "new")
    BY <1>20, TaskMoves
  <2>2. QED
    BY <1>20, <2>1 DEF Apply, TaskMoved
<1>21. ASSUME NEW t \in tasks, ApplyError(t) PROVE (DeleteInv' /\ RowHasServer')
  <2>1. PICK u : TaskMoved(t, u) /\ (u.pc = "server" <=> t.kind = "delete" /\ t.pc = "new")
    BY <1>21, TaskMoves
  <2>2. QED
    BY <1>21, <2>1 DEF ApplyError, TaskMoved
<1>22. ASSUME NEW t \in tasks, UpdateNoDriver(t) PROVE (DeleteInv' /\ RowHasServer')
  BY <1>22 DEF UpdateNoDriver, Ends
<1>23. ASSUME NEW t \in tasks, SetFirewallStatus(t) PROVE (DeleteInv' /\ RowHasServer')
  <2>1. Unwind(t)
    BY <1>23 DEF SetFirewallStatus
  <2>2. QED
    BY <1>23, <2>1, Unwinds DEF SetFirewallStatus
<1>24. ASSUME NEW t \in tasks, FirewallDeleted(t) PROVE (DeleteInv' /\ RowHasServer')
  <2>1. PICK u : TaskMoved(t, u) /\ (u.pc = "server" <=> t.kind = "delete" /\ t.pc = "new")
    BY <1>24, TaskMoves
  <2>2. QED
    BY <1>24, <2>1 DEF FirewallDeleted, TaskMoved
<1>25. ASSUME NEW t \in tasks, DeleteServer(t) PROVE (DeleteInv' /\ RowHasServer')
  BY <1>25 DEF DeleteServer, Ends
<1>26. ASSUME NEW t \in tasks, CallbackRaises(t) PROVE (DeleteInv' /\ RowHasServer')
  <2>1. Unwind(t)
    BY <1>26 DEF CallbackRaises
  <2>2. QED
    BY <1>26, <2>1, Unwinds DEF CallbackRaises
<1>27. ASSUME NEW t \in tasks, TaskRaises(t) PROVE (DeleteInv' /\ RowHasServer')
  <2>1. Unwind(t)
    BY <1>27 DEF TaskRaises
  <2>2. QED
    BY <1>27, <2>1, Unwinds DEF TaskRaises
<1>28. CASE AgentRestart
  BY <1>28 DEF AgentRestart
<1>29. CASE UNCHANGED vars
  BY <1>29 DEF vars
<1>30. ASSUME NEW f \in Fw, CreateNext(f) \/ ServerBuilt(f) PROVE (DeleteInv' /\ RowHasServer')
  BY <1>1, <1>2, <1>3, <1>4, <1>5, <1>6, <1>30 DEF CreateNext
<1>31. ASSUME NEW r \in Call, BeginNext(r) PROVE (DeleteInv' /\ RowHasServer')
  BY <1>7, <1>8, <1>9, <1>31 DEF BeginNext
<1>32. ASSUME NEW c \in calls, CallNext(c) PROVE (DeleteInv' /\ RowHasServer')
  BY <1>10, <1>11, <1>12, <1>13, <1>14, <1>15, <1>32 DEF CallNext
<1>33. ASSUME NEW t \in tasks, TaskNext(t) PROVE (DeleteInv' /\ RowHasServer')
  BY <1>16, <1>17, <1>18, <1>19, <1>20, <1>21, <1>22, <1>23, <1>24, <1>25, <1>26, <1>27, <1>33, NoRulesRaises DEF TaskNext
<1>34. QED
  BY <1>28, <1>29, <1>30, <1>31, <1>32, <1>33 DEF Next

-----------------------------------------------------------------------------
(* Owners of pending statuses and of servers *)

\* Every step keeps PendingOwned.
LEMMA OwnedStep == TypeOK /\ WorkInv /\ PendingOwned /\ [Next]_vars => PendingOwned'
<1> SUFFICES ASSUME TypeOK, WorkInv, PendingOwned, [Next]_vars PROVE PendingOwned'
  OBVIOUS
<1> USE FwAssumption DEF TypeOK, WorkInv, Began, PendingOwned, CreateOwned, UpdateOwned,
                         DeleteOwned, APICall, Task
<1>1. ASSUME NEW f \in Fw, CountFirewalls(f) PROVE PendingOwned'
  BY <1>1 DEF CountFirewalls, Begin, Rows
<1>2. ASSUME NEW f \in Fw, LaunchFwVm(f) PROVE PendingOwned'
  BY <1>2 DEF LaunchFwVm
<1>3. ASSUME NEW f \in Fw, InsertFirewall(f) PROVE PendingOwned'
  BY <1>3 DEF InsertFirewall
<1>4. ASSUME NEW f \in Fw, CastCreate(f) PROVE PendingOwned'
  <2>1. PICK u : TaskAdded(u) /\ u.fw = f /\ u.kind = "create" /\ u.pc = "new"
    BY <1>4, CreateAdds
  <2>2. QED
    BY <1>4, <2>1 DEF CastCreate, TaskAdded
<1>5. ASSUME NEW f \in Fw, CreateRaises(f) PROVE PendingOwned'
  BY <1>5 DEF CreateRaises
<1>6. ASSUME NEW f \in Fw, ServerBuilt(f) PROVE PendingOwned'
  BY <1>6 DEF ServerBuilt
<1>7. ASSUME NEW r \in Call, NEW f \in Fw, NEW p \in Policy, UpdateFirewall(r, f, p) PROVE PendingOwned'
  <2> DEFINE d == NewCall(r, "firewall", "write", p, {f})
  <2>1. d.pc = "write" /\ d.kind = "firewall" /\ d.todo = {f}
    BY DEF NewCall
  <2>2. calls' = calls \cup {d}
    BY <1>7 DEF UpdateFirewall
  <2> HIDE DEF d
  <2>3. row[f] # "none"
    BY <1>7 DEF UpdateFirewall, Status, Pending
  <2>4. QED
    BY <1>7, <2>1, <2>2, <2>3 DEF UpdateFirewall, Begin
<1>8. ASSUME NEW r \in Call, NEW p \in Policy, UpdatePolicy(r, p) PROVE PendingOwned'
  BY <1>8 DEF UpdatePolicy, Begin, NewCall, Bound, Rows
<1>9. ASSUME NEW r \in Call, NEW f \in Fw, DeleteFirewall(r, f) PROVE PendingOwned'
  BY <1>9 DEF DeleteFirewall, Begin, NewCall
<1>10. ASSUME NEW c \in calls, NEW f \in Fw, Ensure(c, f) PROVE PendingOwned'
  BY <1>10 DEF Ensure
<1>11. ASSUME NEW c \in calls, NEW f \in Fw, WriteStatus(c, f) PROVE PendingOwned'
  <2>1. PICK d : CallMoved(c, d) /\ d.pc = "cast" /\ d.fw = f /\ d.todo \subseteq c.todo
    BY <1>11, WriteMoves
  <2>2. QED
    BY <1>11, <2>1 DEF WriteStatus, CallMoved
<1>12. ASSUME NEW c \in calls, ChangeRules(c) PROVE PendingOwned'
  <2>1. PICK d : CallMoved(c, d) /\ d.pc = "write" /\ d.todo \subseteq Rows
    BY <1>12, ChangeMoves
  <2>2. QED
    BY <1>12, <2>1 DEF ChangeRules, CallMoved, Rows
<1>13. ASSUME NEW c \in calls, Return(c) PROVE PendingOwned'
  BY <1>13 DEF Return
<1>14. ASSUME NEW c \in calls, CastFirewall(c) PROVE PendingOwned'
  <2>1. PICK d : CallMoved(c, d) /\ d.pc = "write" /\ d.todo = c.todo
    BY <1>14, CastMoves
  <2>2. PICK u : /\ TaskAdded(u) /\ u.fw = c.fw /\ u.pc \in {"new", "apply"}
                 /\ c.kind = "delete" => u.kind = "delete" /\ u.pc = "new"
                 /\ c.kind # "delete" => u.kind = "update"
    BY <1>14, CastMoves
  <2>3. c.fw \in Fw
    BY <1>14, CastMoves
  <2>4. UNCHANGED <<row, making, server, revived, dropped>> /\ row[c.fw] # "none" /\ c.pc = "cast"
    BY <1>14 DEF CastFirewall
  <2>5. QED
    BY <2>1, <2>2, <2>3, <2>4 DEF CallMoved, TaskAdded
<1>15. ASSUME NEW c \in calls, CallRaises(c) PROVE PendingOwned'
  BY <1>15 DEF CallRaises
<1>16. ASSUME NEW t \in tasks, GetServer(t) PROVE PendingOwned'
  <2>1. PICK u : TaskMoved(t, u) /\ (u.pc = "server" <=> t.kind = "delete" /\ t.pc = "new")
    BY <1>16, TaskMoves
  <2>2. QED
    BY <1>16, <2>1 DEF GetServer, TaskMoved
<1>17. ASSUME NEW t \in tasks, WaitOver(t) PROVE PendingOwned'
  <2>1. PICK u : TaskMoved(t, u) /\ (u.pc = "server" <=> t.kind = "delete" /\ t.pc = "new")
    BY <1>17, TaskMoves
  <2>2. QED
    BY <1>17, <2>1 DEF WaitOver, TaskMoved
<1>18. ASSUME NEW t \in tasks, WaitMore(t) PROVE PendingOwned'
  <2>1. PICK u : TaskMoved(t, u) /\ (u.pc = "server" <=> t.kind = "delete" /\ t.pc = "new")
    BY <1>18, TaskMoves
  <2>2. QED
    BY <1>18, <2>1 DEF WaitMore, TaskMoved
<1>19. ASSUME NEW t \in tasks, LoadDriver(t) PROVE PendingOwned'
  <2>1. PICK u : TaskMoved(t, u) /\ (u.pc = "server" <=> t.kind = "delete" /\ t.pc = "new")
    BY <1>19, TaskMoves
  <2>2. QED
    BY <1>19, <2>1 DEF LoadDriver, TaskMoved
<1>20. ASSUME NEW t \in tasks, Apply(t) PROVE PendingOwned'
  <2>1. PICK u : TaskMoved(t, u) /\ (u.pc = "server" <=> t.kind = "delete" /\ t.pc = "new")
    BY <1>20, TaskMoves
  <2>2. QED
    BY <1>20, <2>1 DEF Apply, TaskMoved
<1>21. ASSUME NEW t \in tasks, ApplyError(t) PROVE PendingOwned'
  <2>1. PICK u : TaskMoved(t, u) /\ (u.pc = "server" <=> t.kind = "delete" /\ t.pc = "new")
    BY <1>21, TaskMoves
  <2>2. QED
    BY <1>21, <2>1 DEF ApplyError, TaskMoved
<1>22. ASSUME NEW t \in tasks, UpdateNoDriver(t) PROVE PendingOwned'
  BY <1>22 DEF UpdateNoDriver, Ends
<1>23. ASSUME NEW t \in tasks, SetFirewallStatus(t) PROVE PendingOwned'
  <2>1. Unwind(t)
    BY <1>23 DEF SetFirewallStatus
  <2>2. QED
    BY <1>23, <2>1, Unwinds DEF SetFirewallStatus
<1>24. ASSUME NEW t \in tasks, FirewallDeleted(t) PROVE PendingOwned'
  <2>1. PICK u : TaskMoved(t, u) /\ (u.pc = "server" <=> t.kind = "delete" /\ t.pc = "new")
    BY <1>24, TaskMoves
  <2>2. QED
    BY <1>24, <2>1 DEF FirewallDeleted, TaskMoved
<1>25. ASSUME NEW t \in tasks, DeleteServer(t) PROVE PendingOwned'
  BY <1>25 DEF DeleteServer, Ends
<1>26. ASSUME NEW t \in tasks, CallbackRaises(t) PROVE PendingOwned'
  <2>1. Unwind(t)
    BY <1>26 DEF CallbackRaises
  <2>2. QED
    BY <1>26, <2>1, Unwinds DEF CallbackRaises
<1>27. ASSUME NEW t \in tasks, TaskRaises(t) PROVE PendingOwned'
  <2>1. Unwind(t)
    BY <1>27 DEF TaskRaises
  <2>2. QED
    BY <1>27, <2>1, Unwinds DEF TaskRaises
<1>28. CASE AgentRestart
  BY <1>28 DEF AgentRestart
<1>29. CASE UNCHANGED vars
  BY <1>29 DEF vars
<1>30. ASSUME NEW f \in Fw, CreateNext(f) \/ ServerBuilt(f) PROVE PendingOwned'
  BY <1>1, <1>2, <1>3, <1>4, <1>5, <1>6, <1>30 DEF CreateNext
<1>31. ASSUME NEW r \in Call, BeginNext(r) PROVE PendingOwned'
  BY <1>7, <1>8, <1>9, <1>31 DEF BeginNext
<1>32. ASSUME NEW c \in calls, CallNext(c) PROVE PendingOwned'
  BY <1>10, <1>11, <1>12, <1>13, <1>14, <1>15, <1>32 DEF CallNext
<1>33. ASSUME NEW t \in tasks, TaskNext(t) PROVE PendingOwned'
  BY <1>16, <1>17, <1>18, <1>19, <1>20, <1>21, <1>22, <1>23, <1>24, <1>25, <1>26, <1>27, <1>33, NoRulesRaises DEF TaskNext
<1>34. QED
  BY <1>28, <1>29, <1>30, <1>31, <1>32, <1>33 DEF Next

\* Every step keeps NoServerLeak.
LEMMA LeakStep == TypeOK /\ WorkInv /\ NoServerLeak /\ [Next]_vars => NoServerLeak'
<1> SUFFICES ASSUME TypeOK, WorkInv, NoServerLeak, [Next]_vars PROVE NoServerLeak'
  OBVIOUS
<1> USE FwAssumption DEF TypeOK, WorkInv, Began, NoServerLeak, APICall, Task
<1>1. ASSUME NEW f \in Fw, CountFirewalls(f) PROVE NoServerLeak'
  BY <1>1 DEF CountFirewalls, Begin, Rows
<1>2. ASSUME NEW f \in Fw, LaunchFwVm(f) PROVE NoServerLeak'
  BY <1>2 DEF LaunchFwVm
<1>3. ASSUME NEW f \in Fw, InsertFirewall(f) PROVE NoServerLeak'
  BY <1>3 DEF InsertFirewall
<1>4. ASSUME NEW f \in Fw, CastCreate(f) PROVE NoServerLeak'
  <2>1. PICK u : TaskAdded(u) /\ u.fw = f /\ u.kind = "create" /\ u.pc = "new"
    BY <1>4, CreateAdds
  <2>2. QED
    BY <1>4, <2>1 DEF CastCreate, TaskAdded
<1>5. ASSUME NEW f \in Fw, CreateRaises(f) PROVE NoServerLeak'
  BY <1>5 DEF CreateRaises
<1>6. ASSUME NEW f \in Fw, ServerBuilt(f) PROVE NoServerLeak'
  BY <1>6 DEF ServerBuilt
<1>7. ASSUME NEW r \in Call, NEW f \in Fw, NEW p \in Policy, UpdateFirewall(r, f, p) PROVE NoServerLeak'
  <2> DEFINE d == NewCall(r, "firewall", "write", p, {f})
  <2>1. d.pc = "write" /\ d.kind = "firewall" /\ d.todo = {f}
    BY DEF NewCall
  <2>2. calls' = calls \cup {d}
    BY <1>7 DEF UpdateFirewall
  <2> HIDE DEF d
  <2>3. row[f] # "none"
    BY <1>7 DEF UpdateFirewall, Status, Pending
  <2>4. QED
    BY <1>7, <2>1, <2>2, <2>3 DEF UpdateFirewall, Begin
<1>8. ASSUME NEW r \in Call, NEW p \in Policy, UpdatePolicy(r, p) PROVE NoServerLeak'
  BY <1>8 DEF UpdatePolicy, Begin, NewCall, Bound, Rows
<1>9. ASSUME NEW r \in Call, NEW f \in Fw, DeleteFirewall(r, f) PROVE NoServerLeak'
  BY <1>9 DEF DeleteFirewall, Begin, NewCall
<1>10. ASSUME NEW c \in calls, NEW f \in Fw, Ensure(c, f) PROVE NoServerLeak'
  BY <1>10 DEF Ensure
<1>11. ASSUME NEW c \in calls, NEW f \in Fw, WriteStatus(c, f) PROVE NoServerLeak'
  <2>1. PICK d : CallMoved(c, d) /\ d.pc = "cast" /\ d.fw = f /\ d.todo \subseteq c.todo
    BY <1>11, WriteMoves
  <2>2. QED
    BY <1>11, <2>1 DEF WriteStatus, CallMoved
<1>12. ASSUME NEW c \in calls, ChangeRules(c) PROVE NoServerLeak'
  <2>1. PICK d : CallMoved(c, d) /\ d.pc = "write" /\ d.todo \subseteq Rows
    BY <1>12, ChangeMoves
  <2>2. QED
    BY <1>12, <2>1 DEF ChangeRules, CallMoved, Rows
<1>13. ASSUME NEW c \in calls, Return(c) PROVE NoServerLeak'
  BY <1>13 DEF Return
<1>14. ASSUME NEW c \in calls, CastFirewall(c) PROVE NoServerLeak'
  <2>1. PICK d : CallMoved(c, d) /\ d.pc = "write" /\ d.todo = c.todo
    BY <1>14, CastMoves
  <2>2. PICK u : /\ TaskAdded(u) /\ u.fw = c.fw /\ u.pc \in {"new", "apply"}
                 /\ c.kind = "delete" => u.kind = "delete" /\ u.pc = "new"
                 /\ c.kind # "delete" => u.kind = "update"
    BY <1>14, CastMoves
  <2>3. c.fw \in Fw
    BY <1>14, CastMoves
  <2>4. UNCHANGED <<row, making, server, revived, dropped>> /\ row[c.fw] # "none" /\ c.pc = "cast"
    BY <1>14 DEF CastFirewall
  <2>5. QED
    BY <2>1, <2>2, <2>3, <2>4 DEF CallMoved, TaskAdded
<1>15. ASSUME NEW c \in calls, CallRaises(c) PROVE NoServerLeak'
  BY <1>15 DEF CallRaises
<1>16. ASSUME NEW t \in tasks, GetServer(t) PROVE NoServerLeak'
  <2>1. PICK u : TaskMoved(t, u) /\ (u.pc = "server" <=> t.kind = "delete" /\ t.pc = "new")
    BY <1>16, TaskMoves
  <2>2. QED
    BY <1>16, <2>1 DEF GetServer, TaskMoved
<1>17. ASSUME NEW t \in tasks, WaitOver(t) PROVE NoServerLeak'
  <2>1. PICK u : TaskMoved(t, u) /\ (u.pc = "server" <=> t.kind = "delete" /\ t.pc = "new")
    BY <1>17, TaskMoves
  <2>2. QED
    BY <1>17, <2>1 DEF WaitOver, TaskMoved
<1>18. ASSUME NEW t \in tasks, WaitMore(t) PROVE NoServerLeak'
  <2>1. PICK u : TaskMoved(t, u) /\ (u.pc = "server" <=> t.kind = "delete" /\ t.pc = "new")
    BY <1>18, TaskMoves
  <2>2. QED
    BY <1>18, <2>1 DEF WaitMore, TaskMoved
<1>19. ASSUME NEW t \in tasks, LoadDriver(t) PROVE NoServerLeak'
  <2>1. PICK u : TaskMoved(t, u) /\ (u.pc = "server" <=> t.kind = "delete" /\ t.pc = "new")
    BY <1>19, TaskMoves
  <2>2. QED
    BY <1>19, <2>1 DEF LoadDriver, TaskMoved
<1>20. ASSUME NEW t \in tasks, Apply(t) PROVE NoServerLeak'
  <2>1. PICK u : TaskMoved(t, u) /\ (u.pc = "server" <=> t.kind = "delete" /\ t.pc = "new")
    BY <1>20, TaskMoves
  <2>2. QED
    BY <1>20, <2>1 DEF Apply, TaskMoved
<1>21. ASSUME NEW t \in tasks, ApplyError(t) PROVE NoServerLeak'
  <2>1. PICK u : TaskMoved(t, u) /\ (u.pc = "server" <=> t.kind = "delete" /\ t.pc = "new")
    BY <1>21, TaskMoves
  <2>2. QED
    BY <1>21, <2>1 DEF ApplyError, TaskMoved
<1>22. ASSUME NEW t \in tasks, UpdateNoDriver(t) PROVE NoServerLeak'
  BY <1>22 DEF UpdateNoDriver, Ends
<1>23. ASSUME NEW t \in tasks, SetFirewallStatus(t) PROVE NoServerLeak'
  <2>1. Unwind(t)
    BY <1>23 DEF SetFirewallStatus
  <2>2. QED
    BY <1>23, <2>1, Unwinds DEF SetFirewallStatus
<1>24. ASSUME NEW t \in tasks, FirewallDeleted(t) PROVE NoServerLeak'
  <2>1. PICK u : TaskMoved(t, u) /\ (u.pc = "server" <=> t.kind = "delete" /\ t.pc = "new")
    BY <1>24, TaskMoves
  <2>2. QED
    BY <1>24, <2>1 DEF FirewallDeleted, TaskMoved
<1>25. ASSUME NEW t \in tasks, DeleteServer(t) PROVE NoServerLeak'
  BY <1>25 DEF DeleteServer, Ends
<1>26. ASSUME NEW t \in tasks, CallbackRaises(t) PROVE NoServerLeak'
  <2>1. Unwind(t)
    BY <1>26 DEF CallbackRaises
  <2>2. QED
    BY <1>26, <2>1, Unwinds DEF CallbackRaises
<1>27. ASSUME NEW t \in tasks, TaskRaises(t) PROVE NoServerLeak'
  <2>1. Unwind(t)
    BY <1>27 DEF TaskRaises
  <2>2. QED
    BY <1>27, <2>1, Unwinds DEF TaskRaises
<1>28. CASE AgentRestart
  BY <1>28 DEF AgentRestart
<1>29. CASE UNCHANGED vars
  BY <1>29 DEF vars
<1>30. ASSUME NEW f \in Fw, CreateNext(f) \/ ServerBuilt(f) PROVE NoServerLeak'
  BY <1>1, <1>2, <1>3, <1>4, <1>5, <1>6, <1>30 DEF CreateNext
<1>31. ASSUME NEW r \in Call, BeginNext(r) PROVE NoServerLeak'
  BY <1>7, <1>8, <1>9, <1>31 DEF BeginNext
<1>32. ASSUME NEW c \in calls, CallNext(c) PROVE NoServerLeak'
  BY <1>10, <1>11, <1>12, <1>13, <1>14, <1>15, <1>32 DEF CallNext
<1>33. ASSUME NEW t \in tasks, TaskNext(t) PROVE NoServerLeak'
  BY <1>16, <1>17, <1>18, <1>19, <1>20, <1>21, <1>22, <1>23, <1>24, <1>25, <1>26, <1>27, <1>33, NoRulesRaises DEF TaskNext
<1>34. QED
  BY <1>28, <1>29, <1>30, <1>31, <1>32, <1>33 DEF Next

-----------------------------------------------------------------------------
(* As long as calls do not overlap *)

\* All that is in progress belongs to one operation: a creation up to its
\* cast, or one call and the tasks it has cast, each for its own firewall.
Alone ==
  /\ \A f \in Fw : Creating(f) =>
       calls = {} /\ tasks = {} /\ \A g \in Fw : Creating(g) => g = f
  /\ \A c, d \in calls : c = d
  /\ \A c \in calls, t \in tasks :
       /\ c.pc # "ensure"
       /\ t.kind = (IF c.kind = "delete" THEN "delete" ELSE "update")
       /\ t.fw \notin c.todo
       /\ c.pc = "cast" => t.fw # c.fw
  /\ \A c \in calls : c.pc = "cast" => c.fw \notin c.todo

\* No status is written over a deletion that is pending: nobody is about to
\* write one, and a task that deletes never tells one.
Undisturbed ==
  /\ revived = {}
  /\ \A t \in tasks : t.kind = "delete" => t.pc \in {"new", "server"} /\ t.outer = "none"
  /\ \A f \in Fw : making[f] = "inserted" => row[f] # "PENDING_DELETE"
  /\ \A t \in tasks : t.kind # "delete" => row[t.fw] # "PENDING_DELETE"
  /\ \A c \in calls :
       c.pc = "ensure" => \A f \in Bound(c.policy) \ c.todo : row[f] \in Status \ Pending
  /\ \A c \in calls : c.kind # "delete" /\ c.pc # "ensure" =>
       /\ \A f \in c.todo : row[f] # "PENDING_DELETE"
       /\ c.pc = "cast" => row[c.fw] # "PENDING_DELETE"

\* A task works with the rule of the database, and what it is to tell is done;
\* an ACTIVE firewall enforces this rule, or a call has still to come to it.
Current ==
  /\ \A t \in tasks :
       /\ t.rules = Snapshot(t.fw)
       /\ t.pc = "new" => t.outer = "none"
       /\ t.pc = "tell" /\ t.fw \notin dropped => Enforces(t.fw, t.rules)
  /\ \A f \in Fw \ dropped : row[f] = "ACTIVE" =>
       \/ Enforces(f, Snapshot(f))
       \/ \E c \in calls : c.pc # "ensure" /\ f \in c.todo

\* The count of create_firewall is still right.
Single ==
  /\ \A f \in Fw : making[f] \in {"counted", "launched"} => Rows = {}
  /\ \A f, g \in Rows : f = g

QuietInv == ~overlapped => Alone /\ Undisturbed /\ Current /\ Single

\* The only call checks a firewall: it goes on with the others, or is refused.
LEMMA OnlyEnsures ==
  ASSUME TypeOK, Alone, NEW c \in calls, NEW f \in Fw, Ensure(c, f)
  PROVE  \/ calls' = {}
         \/ /\ row[f] \in Status \ Pending
            /\ \E d : /\ calls' = {d} /\ d.kind = c.kind /\ d.policy = c.policy
                      /\ d.pc = "ensure" /\ d.todo = c.todo \ {f}
<1> DEFINE d == [c EXCEPT !.todo = @ \ {f}]
<1>1. calls = {c}
  BY DEF Alone
<1>2. d.kind = c.kind /\ d.policy = c.policy /\ d.pc = "ensure" /\ d.todo = c.todo \ {f}
  BY DEF TypeOK, APICall, Ensure
<1>3. calls' = (IF row[f] \in Status \ Pending THEN (calls \ {c}) \cup {d} ELSE calls \ {c})
  BY DEF Ensure
<1> HIDE DEF d
<1>4. QED
  BY <1>1, <1>2, <1>3

\* The only call writes a status, and is about to cast that firewall.
LEMMA OnlyWrites ==
  ASSUME TypeOK, Alone, NEW c \in calls, NEW f \in Fw, WriteStatus(c, f)
  PROVE  \E d : /\ calls' = {d} /\ d.kind = c.kind /\ d.policy = c.policy
                /\ d.pc = "cast" /\ d.fw = f /\ d.todo = c.todo \ {f}
<1> DEFINE d == [c EXCEPT !.pc = "cast", !.todo = @ \ {f}, !.fw = f]
<1>1. calls = {c}
  BY DEF Alone
<1>2. /\ d.kind = c.kind /\ d.policy = c.policy
      /\ d.pc = "cast" /\ d.fw = f /\ d.todo = c.todo \ {f}
  BY DEF TypeOK, APICall
<1>3. calls' = (calls \ {c}) \cup {d}
  BY DEF WriteStatus
<1> HIDE DEF d
<1>4. QED
  BY <1>1, <1>2, <1>3

\* The only call changes the rules, and has every firewall of the policy to do.
LEMMA OnlyChanges ==
  ASSUME TypeOK, Alone, NEW c \in calls, ChangeRules(c)
  PROVE  \E d : /\ calls' = {d} /\ d.kind = c.kind
                /\ d.pc = "write" /\ d.todo = Bound(c.policy)
<1> DEFINE d == [c EXCEPT !.pc = "write", !.todo = Bound(c.policy)]
<1>1. calls = {c}
  BY DEF Alone
<1>2. d.kind = c.kind /\ d.pc = "write" /\ d.todo = Bound(c.policy)
  BY DEF TypeOK, APICall
<1>3. calls' = (calls \ {c}) \cup {d}
  BY DEF ChangeRules
<1> HIDE DEF d
<1>4. QED
  BY <1>1, <1>2, <1>3

\* The only call casts: the task it adds has the rules of the database.
LEMMA OnlyCasts ==
  ASSUME TypeOK, Alone, NEW c \in calls, CastFirewall(c)
  PROVE  \E d, u : /\ calls' = {d} /\ d.kind = c.kind /\ d.pc = "write" /\ d.todo = c.todo
                   /\ tasks' = tasks \cup {u} /\ u.fw = c.fw /\ u.rules = Snapshot(c.fw)
                   /\ u.pc # "tell" /\ u.outer = "none"
                   /\ (u.kind = "delete" => u.pc = "new")
                   /\ u.kind = (IF c.kind = "delete" THEN "delete" ELSE "update")
<1> DEFINE d == [c EXCEPT !.pc = "write", !.fw = NoFw]
<1> DEFINE u == IF c.kind = "delete" THEN NewTask(c.id, "delete", c.fw, "new")
                                     ELSE NewTask(c.id, "update", c.fw, "apply")
<1>1. calls = {c}
  BY DEF Alone
<1>2. d.kind = c.kind /\ d.pc = "write" /\ d.todo = c.todo
  BY DEF TypeOK, APICall
<1>3. calls' = (calls \ {c}) \cup {d} /\ tasks' = tasks \cup {u}
  BY DEF CastFirewall
<1>4. /\ u.fw = c.fw /\ u.rules = Snapshot(c.fw) /\ u.pc # "tell" /\ u.outer = "none"
      /\ (u.kind = "delete" => u.pc = "new")
      /\ u.kind = (IF c.kind = "delete" THEN "delete" ELSE "update")
  BY DEF NewTask
<1> HIDE DEF d, u
<1>5. QED
  BY <1>1, <1>2, <1>3, <1>4

\* A task that goes on keeps its firewall, its kind and its rules.
LEMMA TaskGoes ==
  ASSUME TypeOK, NEW t \in tasks,
         \/ GetServer(t) \/ WaitOver(t) \/ WaitMore(t) \/ LoadDriver(t)
         \/ Apply(t) \/ ApplyError(t) \/ FirewallDeleted(t)
  PROVE  \E u : /\ tasks' = (tasks \ {t}) \cup {u}
                /\ u.fw = t.fw /\ u.kind = t.kind /\ u.rules = t.rules
                /\ u.pc # "new" /\ (u.pc = "tell" => Apply(t) \/ ApplyError(t))
                /\ (FirewallDeleted(t) => u.pc = "server") /\ (WaitOver(t) \/ u.outer = t.outer)
<1>1. t \in Task
  BY DEF TypeOK
<1>3. CASE GetServer(t)
  <2> DEFINE u == [t EXCEPT !.pc = IF server[t.fw] = "active" THEN "driver" ELSE "wait"]
  <2>1. u.fw = t.fw /\ u.kind = t.kind /\ u.rules = t.rules /\ u.pc \in {"driver", "wait"} /\ u.outer = t.outer
    BY <1>1 DEF Task
  <2>2. tasks' = (tasks \ {t}) \cup {u}
    BY <1>3 DEF GetServer, Goes
  <2> HIDE DEF u
  <2>3. QED
    BY <1>3, <2>1, <2>2 DEF FirewallDeleted, GetServer
<1>4. CASE WaitOver(t)
  <2> DEFINE u == [t EXCEPT !.pc = "driver", !.outer = IF t.pc = "wait" THEN "ACTIVE" ELSE "ERROR"]
  <2>1. u.fw = t.fw /\ u.kind = t.kind /\ u.rules = t.rules /\ u.pc = "driver"
    BY <1>1 DEF Task
  <2>2. tasks' = (tasks \ {t}) \cup {u}
    BY <1>4 DEF WaitOver, Goes
  <2> HIDE DEF u
  <2>3. QED
    BY <1>4, <2>1, <2>2 DEF FirewallDeleted, WaitOver
<1>5. CASE WaitMore(t)
  <2> DEFINE u == [t EXCEPT !.pc = "waitmore"]
  <2>1. u.fw = t.fw /\ u.kind = t.kind /\ u.rules = t.rules /\ u.pc = "waitmore" /\ u.outer = t.outer
    BY <1>1 DEF Task
  <2>2. tasks' = (tasks \ {t}) \cup {u}
    BY <1>5 DEF WaitMore, Goes
  <2> HIDE DEF u
  <2>3. QED
    BY <1>5, <2>1, <2>2 DEF FirewallDeleted, WaitMore
<1>6. CASE LoadDriver(t)
  <2> DEFINE u == [t EXCEPT !.pc = "apply"]
  <2>1. u.fw = t.fw /\ u.kind = t.kind /\ u.rules = t.rules /\ u.pc = "apply" /\ u.outer = t.outer
    BY <1>1 DEF Task
  <2>2. tasks' = (tasks \ {t}) \cup {u}
    BY <1>6 DEF LoadDriver, Goes
  <2> HIDE DEF u
  <2>3. QED
    BY <1>6, <2>1, <2>2 DEF FirewallDeleted, LoadDriver
<1>7. CASE Apply(t)
  <2> DEFINE u == [t EXCEPT !.pc = "tell"]
  <2>1. u.fw = t.fw /\ u.kind = t.kind /\ u.rules = t.rules /\ u.pc = "tell" /\ u.outer = t.outer
    BY <1>1 DEF Task
  <2>2. tasks' = (tasks \ {t}) \cup {u}
    BY <1>7 DEF Apply, Goes
  <2> HIDE DEF u
  <2>3. QED
    BY <1>7, <2>1, <2>2 DEF FirewallDeleted, Apply
<1>8. CASE ApplyError(t)
  <2> DEFINE u == [t EXCEPT !.pc = "tell", !.say = "ERROR"]
  <2>1. u.fw = t.fw /\ u.kind = t.kind /\ u.rules = t.rules /\ u.pc = "tell" /\ u.outer = t.outer
    BY <1>1 DEF Task
  <2>2. tasks' = (tasks \ {t}) \cup {u}
    BY <1>8 DEF ApplyError, Goes
  <2> HIDE DEF u
  <2>3. QED
    BY <1>8, <2>1, <2>2 DEF FirewallDeleted, ApplyError
<1>9. CASE FirewallDeleted(t)
  <2> DEFINE u == [t EXCEPT !.pc = "server"]
  <2>1. u.fw = t.fw /\ u.kind = t.kind /\ u.rules = t.rules /\ u.pc = "server" /\ u.outer = t.outer
    BY <1>1 DEF Task
  <2>2. tasks' = (tasks \ {t}) \cup {u}
    BY <1>9 DEF FirewallDeleted, Goes
  <2> HIDE DEF u
  <2>3. QED
    BY <1>9, <2>1, <2>2 DEF FirewallDeleted, FirewallDeleted
<1>10. QED
  BY <1>3, <1>4, <1>5, <1>6, <1>7, <1>8, <1>9

\* A task that unwinds may go on as the outer create only.
LEMMA TaskUnwinds ==
  ASSUME TypeOK, NEW t \in tasks, Unwind(t)
  PROVE  \A x \in tasks' : \/ x \in tasks
                           \/ /\ x.fw = t.fw /\ x.kind = t.kind /\ x.rules = t.rules
                              /\ x.pc = "tell" /\ t.outer # "none"
<1> DEFINE u == [t EXCEPT !.pc = "tell", !.say = t.outer, !.outer = "none"]
<1>1. u.fw = t.fw /\ u.kind = t.kind /\ u.rules = t.rules /\ u.pc = "tell"
  BY DEF TypeOK, Task
<1>2. tasks' = tasks \ {t} \/ (t.outer # "none" /\ tasks' = (tasks \ {t}) \cup {u})
  BY DEF Unwind, Goes, Ends
<1> HIDE DEF u
<1>3. QED
  BY <1>1, <1>2

\* An operation stays alone until another one begins.
LEMMA AloneStep == TypeOK /\ WorkInv /\ Alone /\ ~overlapped /\ [Next]_vars /\ ~overlapped' => Alone'
<1> SUFFICES ASSUME TypeOK, WorkInv, Alone, ~overlapped, [Next]_vars, ~overlapped' PROVE Alone'
  OBVIOUS
<1> USE FwAssumption DEF TypeOK, APICall, Task
<1>1. ASSUME NEW f \in Fw, CountFirewalls(f) PROVE Alone'
  <2>1. Idle /\ calls' = {} /\ tasks' = {}
    BY <1>1 DEF CountFirewalls, Begin, Idle
  <2>2. \A g \in Fw : making'[g] \in {"counted", "launched", "inserted"} => g = f
    BY <1>1, <2>1 DEF CountFirewalls, Idle, Creating
  <2>3. QED
    BY <2>1, <2>2 DEF Alone, Creating
<1>2. ASSUME NEW f \in Fw, LaunchFwVm(f) PROVE Alone'
  BY <1>2 DEF LaunchFwVm, Alone, Creating
<1>3. ASSUME NEW f \in Fw, InsertFirewall(f) PROVE Alone'
  BY <1>3 DEF InsertFirewall, Alone, Creating
<1>4. ASSUME NEW f \in Fw, CastCreate(f) PROVE Alone'
  <2> DEFINE u == NewTask(f, "create", f, "new")
  <2>1. /\ u.fw = f /\ u.kind = "create" /\ u.pc = "new" /\ u.outer = "none"
        /\ u.rules = Snapshot(f)
    BY DEF NewTask
  <2>2. tasks' = tasks \cup {u}
    BY <1>4 DEF CastCreate
  <2> HIDE DEF u
  <2>3. QED
    BY <1>4, <2>1, <2>2 DEF CastCreate, Alone, Creating
<1>5. ASSUME NEW f \in Fw, CreateRaises(f) PROVE Alone'
  BY <1>5 DEF CreateRaises, Alone, Creating
<1>6. ASSUME NEW f \in Fw, ServerBuilt(f) PROVE Alone'
  BY <1>6 DEF ServerBuilt, Alone, Creating
<1>7. ASSUME NEW r \in Call, NEW f \in Fw, NEW p \in Policy, UpdateFirewall(r, f, p) PROVE Alone'
  <2> DEFINE d == NewCall(r, "firewall", "write", p, {f})
  <2>1. d.pc = "write" /\ d.kind = "firewall" /\ d.todo = {f} /\ d.policy = p
    BY DEF NewCall
  <2>2. calls = {} /\ tasks = {} /\ calls' = {d} /\ Idle
    BY <1>7 DEF UpdateFirewall, Begin, Idle
  <2> HIDE DEF d
  <2>3. QED
    BY <1>7, <2>1, <2>2 DEF UpdateFirewall, Idle, Alone, Creating
<1>8. ASSUME NEW r \in Call, NEW p \in Policy, UpdatePolicy(r, p) PROVE Alone'
  <2> DEFINE d == NewCall(r, "policy", "ensure", p, Bound(p))
  <2>1. d.pc = "ensure" /\ d.kind = "policy" /\ d.todo = Bound(p) /\ d.policy = p
    BY DEF NewCall
  <2>2. calls = {} /\ tasks = {} /\ calls' = {d} /\ Idle
    BY <1>8 DEF UpdatePolicy, Begin, Idle
  <2> HIDE DEF d
  <2>3. QED
    BY <1>8, <2>1, <2>2 DEF UpdatePolicy, Idle, Alone, Creating
<1>9. ASSUME NEW r \in Call, NEW f \in Fw, DeleteFirewall(r, f) PROVE Alone'
  <2> DEFINE d == NewCall(r, "delete", "write", policyOf[f], {f})
  <2>1. d.pc = "write" /\ d.kind = "delete" /\ d.todo = {f} /\ d.policy = policyOf[f]
    BY DEF NewCall
  <2>2. calls = {} /\ tasks = {} /\ calls' = {d} /\ Idle
    BY <1>9 DEF DeleteFirewall, Begin, Idle
  <2> HIDE DEF d
  <2>3. QED
    BY <1>9, <2>1, <2>2 DEF DeleteFirewall, Idle, Alone, Creating
<1>10. ASSUME NEW c \in calls, NEW f \in Fw, Ensure(c, f) PROVE Alone'
  <2>1. CASE calls' = {}
    BY <1>10, <2>1 DEF Ensure, Alone, Creating
  <2>2. CASE /\ row[f] \in Status \ Pending
             /\ \E d : /\ calls' = {d} /\ d.kind = c.kind /\ d.policy = c.policy
                      /\ d.pc = "ensure" /\ d.todo = c.todo \ {f}
    <3>1. PICK d : /\ calls' = {d} /\ d.kind = c.kind /\ d.policy = c.policy
                   /\ d.pc = "ensure" /\ d.todo = c.todo \ {f}
      BY <2>2
    <3>2. QED
      BY <1>10, <2>2, <3>1 DEF Ensure, Alone, Creating
  <2>3. QED
    BY <1>10, <2>1, <2>2, OnlyEnsures
<1>11. ASSUME NEW c \in calls, NEW f \in Fw, WriteStatus(c, f) PROVE Alone'
  <2>1. PICK d : /\ calls' = {d} /\ d.kind = c.kind /\ d.policy = c.policy
                 /\ d.pc = "cast" /\ d.fw = f /\ d.todo = c.todo \ {f}
    BY <1>11, OnlyWrites
  <2>2. QED
    BY <1>11, <2>1 DEF WriteStatus, Alone, Creating
<1>12. ASSUME NEW c \in calls, ChangeRules(c) PROVE Alone'
  <2>1. PICK d : /\ calls' = {d} /\ d.kind = c.kind
                 /\ d.pc = "write" /\ d.todo = Bound(c.policy)
    BY <1>12, OnlyChanges
  <2>2. QED
    BY <1>12, <2>1 DEF ChangeRules, Alone, Creating
<1>13. ASSUME NEW c \in calls, Return(c) PROVE Alone'
  BY <1>13 DEF Return, Alone, Creating
<1>14. ASSUME NEW c \in calls, CastFirewall(c) PROVE Alone'
  <2>1. PICK d, u : /\ calls' = {d} /\ d.kind = c.kind /\ d.pc = "write" /\ d.todo = c.todo
                    /\ tasks' = tasks \cup {u} /\ u.fw = c.fw /\ u.rules = Snapshot(c.fw)
                    /\ u.pc # "tell" /\ u.outer = "none"
                    /\ (u.kind = "delete" => u.pc = "new")
                    /\ u.kind = (IF c.kind = "delete" THEN "delete" ELSE "update")
    BY <1>14, OnlyCasts
  <2>2. QED
    BY <1>14, <2>1 DEF CastFirewall, Alone, Creating
<1>15. ASSUME NEW c \in calls, CallRaises(c) PROVE Alone'
  BY <1>15 DEF CallRaises, Alone, Creating
<1>16. ASSUME NEW t \in tasks, GetServer(t) PROVE Alone'
  <2>1. PICK u : /\ tasks' = (tasks \ {t}) \cup {u}
                 /\ u.fw = t.fw /\ u.kind = t.kind /\ u.rules = t.rules
                 /\ u.pc # "new" /\ (u.pc = "tell" => Apply(t) \/ ApplyError(t))
                 /\ (FirewallDeleted(t) => u.pc = "server") /\ (WaitOver(t) \/ u.outer = t.outer)
    BY <1>16, TaskGoes
  <2>2. QED
    BY <1>16, <2>1 DEF GetServer, Alone, Creating
<1>17. ASSUME NEW t \in tasks, WaitOver(t) PROVE Alone'
  <2>1. PICK u : /\ tasks' = (tasks \ {t}) \cup {u}
                 /\ u.fw = t.fw /\ u.kind = t.kind /\ u.rules = t.rules
                 /\ u.pc # "new" /\ (u.pc = "tell" => Apply(t) \/ ApplyError(t))
                 /\ (FirewallDeleted(t) => u.pc = "server") /\ (WaitOver(t) \/ u.outer = t.outer)
    BY <1>17, TaskGoes
  <2>2. QED
    BY <1>17, <2>1 DEF WaitOver, Alone, Creating
<1>18. ASSUME NEW t \in tasks, WaitMore(t) PROVE Alone'
  <2>1. PICK u : /\ tasks' = (tasks \ {t}) \cup {u}
                 /\ u.fw = t.fw /\ u.kind = t.kind /\ u.rules = t.rules
                 /\ u.pc # "new" /\ (u.pc = "tell" => Apply(t) \/ ApplyError(t))
                 /\ (FirewallDeleted(t) => u.pc = "server") /\ (WaitOver(t) \/ u.outer = t.outer)
    BY <1>18, TaskGoes
  <2>2. QED
    BY <1>18, <2>1 DEF WaitMore, Alone, Creating
<1>19. ASSUME NEW t \in tasks, LoadDriver(t) PROVE Alone'
  <2>1. PICK u : /\ tasks' = (tasks \ {t}) \cup {u}
                 /\ u.fw = t.fw /\ u.kind = t.kind /\ u.rules = t.rules
                 /\ u.pc # "new" /\ (u.pc = "tell" => Apply(t) \/ ApplyError(t))
                 /\ (FirewallDeleted(t) => u.pc = "server") /\ (WaitOver(t) \/ u.outer = t.outer)
    BY <1>19, TaskGoes
  <2>2. QED
    BY <1>19, <2>1 DEF LoadDriver, Alone, Creating
<1>20. ASSUME NEW t \in tasks, Apply(t) PROVE Alone'
  <2>1. PICK u : /\ tasks' = (tasks \ {t}) \cup {u}
                 /\ u.fw = t.fw /\ u.kind = t.kind /\ u.rules = t.rules
                 /\ u.pc # "new" /\ (u.pc = "tell" => Apply(t) \/ ApplyError(t))
                 /\ (FirewallDeleted(t) => u.pc = "server") /\ (WaitOver(t) \/ u.outer = t.outer)
    BY <1>20, TaskGoes
  <2>2. QED
    BY <1>20, <2>1 DEF Apply, Alone, Creating
<1>21. ASSUME NEW t \in tasks, ApplyError(t) PROVE Alone'
  <2>1. PICK u : /\ tasks' = (tasks \ {t}) \cup {u}
                 /\ u.fw = t.fw /\ u.kind = t.kind /\ u.rules = t.rules
                 /\ u.pc # "new" /\ (u.pc = "tell" => Apply(t) \/ ApplyError(t))
                 /\ (FirewallDeleted(t) => u.pc = "server") /\ (WaitOver(t) \/ u.outer = t.outer)
    BY <1>21, TaskGoes
  <2>2. QED
    BY <1>21, <2>1 DEF ApplyError, Alone, Creating
<1>22. ASSUME NEW t \in tasks, UpdateNoDriver(t) PROVE Alone'
  BY <1>22 DEF UpdateNoDriver, Ends, Alone, Creating
<1>23. ASSUME NEW t \in tasks, SetFirewallStatus(t) PROVE Alone'
  <2>1. Unwind(t)
    BY <1>23 DEF SetFirewallStatus
  <2>2. QED
    BY <1>23, <2>1, TaskUnwinds DEF SetFirewallStatus, Alone, Creating
<1>24. ASSUME NEW t \in tasks, FirewallDeleted(t) PROVE Alone'
  <2>1. PICK u : /\ tasks' = (tasks \ {t}) \cup {u}
                 /\ u.fw = t.fw /\ u.kind = t.kind /\ u.rules = t.rules
                 /\ u.pc # "new" /\ (u.pc = "tell" => Apply(t) \/ ApplyError(t))
                 /\ (FirewallDeleted(t) => u.pc = "server") /\ (WaitOver(t) \/ u.outer = t.outer)
    BY <1>24, TaskGoes
  <2>2. QED
    BY <1>24, <2>1 DEF FirewallDeleted, Alone, Creating
<1>25. ASSUME NEW t \in tasks, DeleteServer(t) PROVE Alone'
  BY <1>25 DEF DeleteServer, Ends, Alone, Creating
<1>26. ASSUME NEW t \in tasks, CallbackRaises(t) PROVE Alone'
  <2>1. Unwind(t)
    BY <1>26 DEF CallbackRaises
  <2>2. QED
    BY <1>26, <2>1, TaskUnwinds DEF CallbackRaises, Alone, Creating
<1>27. ASSUME NEW t \in tasks, TaskRaises(t) PROVE Alone'
  <2>1. Unwind(t)
    BY <1>27 DEF TaskRaises
  <2>2. QED
    BY <1>27, <2>1, TaskUnwinds DEF TaskRaises, Alone, Creating
<1>28. CASE AgentRestart
  BY <1>28 DEF AgentRestart, Alone, Creating
<1>29. CASE UNCHANGED vars
  BY <1>29 DEF vars, Alone, Creating
<1>30. ASSUME NEW f \in Fw, CreateNext(f) \/ ServerBuilt(f) PROVE Alone'
  BY <1>1, <1>2, <1>3, <1>4, <1>5, <1>6, <1>30 DEF CreateNext
<1>31. ASSUME NEW r \in Call, BeginNext(r) PROVE Alone'
  BY <1>7, <1>8, <1>9, <1>31 DEF BeginNext
<1>32. ASSUME NEW c \in calls, CallNext(c) PROVE Alone'
  BY <1>10, <1>11, <1>12, <1>13, <1>14, <1>15, <1>32 DEF CallNext
<1>33. ASSUME NEW t \in tasks, TaskNext(t) PROVE Alone'
  BY <1>16, <1>17, <1>18, <1>19, <1>20, <1>21, <1>22, <1>23, <1>24, <1>25, <1>26, <1>27, <1>33, NoRulesRaises DEF TaskNext
<1>34. QED
  BY <1>28, <1>29, <1>30, <1>31, <1>32, <1>33 DEF Next

\* No step of an operation that is alone overwrites a pending deletion.
LEMMA UndisturbedStep == TypeOK /\ WorkInv /\ Alone /\ Undisturbed /\ ~overlapped /\ [Next]_vars /\ ~overlapped' => Undisturbed'
<1> SUFFICES ASSUME TypeOK, WorkInv, Alone, Undisturbed, ~overlapped, [Next]_vars, ~overlapped' PROVE Undisturbed'
  OBVIOUS
<1> USE FwAssumption DEF TypeOK, APICall, Task
<1>1. ASSUME NEW f \in Fw, CountFirewalls(f) PROVE Undisturbed'
  BY <1>1 DEF CountFirewalls, Begin, Idle, Undisturbed, Bound, Rows, Status, Pending
<1>2. ASSUME NEW f \in Fw, LaunchFwVm(f) PROVE Undisturbed'
  BY <1>2 DEF LaunchFwVm, Undisturbed, Bound, Rows, Status, Pending
<1>3. ASSUME NEW f \in Fw, InsertFirewall(f) PROVE Undisturbed'
  <2>1. calls = {} /\ tasks = {} /\ making[f] = "launched"
    BY <1>3 DEF InsertFirewall, Alone, Creating
  <2>2. calls' = {} /\ tasks' = {} /\ revived' = {}
    BY <1>3, <2>1 DEF InsertFirewall, Undisturbed
  <2>3. \A g \in Fw : making'[g] = "inserted" => row'[g] # "PENDING_DELETE"
    BY <1>3 DEF InsertFirewall, Undisturbed
  <2>4. QED
    BY <2>2, <2>3 DEF Undisturbed
<1>4. ASSUME NEW f \in Fw, CastCreate(f) PROVE Undisturbed'
  <2> DEFINE u == NewTask(f, "create", f, "new")
  <2>1. /\ u.fw = f /\ u.kind = "create" /\ u.pc = "new" /\ u.outer = "none"
        /\ u.rules = Snapshot(f)
    BY DEF NewTask
  <2>2. tasks' = tasks \cup {u}
    BY <1>4 DEF CastCreate
  <2> HIDE DEF u
  <2>3. QED
    BY <1>4, <2>1, <2>2 DEF CastCreate, Undisturbed, Bound, Rows, Status, Pending
<1>5. ASSUME NEW f \in Fw, CreateRaises(f) PROVE Undisturbed'
  BY <1>5 DEF CreateRaises, Undisturbed, Bound, Rows, Status, Pending
<1>6. ASSUME NEW f \in Fw, ServerBuilt(f) PROVE Undisturbed'
  BY <1>6 DEF ServerBuilt, Undisturbed, Bound, Rows, Status, Pending
<1>7. ASSUME NEW r \in Call, NEW f \in Fw, NEW p \in Policy, UpdateFirewall(r, f, p) PROVE Undisturbed'
  <2> DEFINE d == NewCall(r, "firewall", "write", p, {f})
  <2>1. d.pc = "write" /\ d.kind = "firewall" /\ d.todo = {f} /\ d.policy = p
    BY DEF NewCall
  <2>2. calls = {} /\ tasks = {} /\ calls' = {d} /\ Idle
    BY <1>7 DEF UpdateFirewall, Begin, Idle
  <2> HIDE DEF d
  <2>3. QED
    BY <1>7, <2>1, <2>2 DEF UpdateFirewall, Idle, Undisturbed, Bound, Rows, Status, Pending
<1>8. ASSUME NEW r \in Call, NEW p \in Policy, UpdatePolicy(r, p) PROVE Undisturbed'
  <2> DEFINE d == NewCall(r, "policy", "ensure", p, Bound(p))
  <2>1. d.pc = "ensure" /\ d.kind = "policy" /\ d.todo = Bound(p) /\ d.policy = p
    BY DEF NewCall
  <2>2. calls = {} /\ tasks = {} /\ calls' = {d} /\ Idle
    BY <1>8 DEF UpdatePolicy, Begin, Idle
  <2> HIDE DEF d
  <2>3. QED
    BY <1>8, <2>1, <2>2 DEF UpdatePolicy, Idle, Undisturbed, Bound, Rows, Status, Pending
<1>9. ASSUME NEW r \in Call, NEW f \in Fw, DeleteFirewall(r, f) PROVE Undisturbed'
  <2> DEFINE d == NewCall(r, "delete", "write", policyOf[f], {f})
  <2>1. d.pc = "write" /\ d.kind = "delete" /\ d.todo = {f} /\ d.policy = policyOf[f]
    BY DEF NewCall
  <2>2. calls = {} /\ tasks = {} /\ calls' = {d} /\ Idle
    BY <1>9 DEF DeleteFirewall, Begin, Idle
  <2> HIDE DEF d
  <2>3. QED
    BY <1>9, <2>1, <2>2 DEF DeleteFirewall, Idle, Undisturbed, Bound, Rows, Status, Pending
<1>10. ASSUME NEW c \in calls, NEW f \in Fw, Ensure(c, f) PROVE Undisturbed'
  <2>1. CASE calls' = {}
    BY <1>10, <2>1 DEF Ensure, Undisturbed, Bound, Rows, Status, Pending
  <2>2. CASE /\ row[f] \in Status \ Pending
             /\ \E d : /\ calls' = {d} /\ d.kind = c.kind /\ d.policy = c.policy
                      /\ d.pc = "ensure" /\ d.todo = c.todo \ {f}
    <3>1. PICK d : /\ calls' = {d} /\ d.kind = c.kind /\ d.policy = c.policy
                   /\ d.pc = "ensure" /\ d.todo = c.todo \ {f}
      BY <2>2
    <3>2. QED
      BY <1>10, <2>2, <3>1 DEF Ensure, Undisturbed, Bound, Rows, Status, Pending
  <2>3. QED
    BY <1>10, <2>1, <2>2, OnlyEnsures
<1>11. ASSUME NEW c \in calls, NEW f \in Fw, WriteStatus(c, f) PROVE Undisturbed'
  <2>1. PICK d : /\ calls' = {d} /\ d.kind = c.kind /\ d.policy = c.policy
                 /\ d.pc = "cast" /\ d.fw = f /\ d.todo = c.todo \ {f}
    BY <1>11, OnlyWrites
  <2>2. /\ c.pc = "write" /\ f \in c.todo /\ UNCHANGED <<tasks, making>>
        /\ \A g \in Fw : g # f => row'[g] = row[g]
        /\ row'[f] = IF c.kind = "delete" THEN "PENDING_DELETE" ELSE "PENDING_UPDATE"
        /\ row[f] # "PENDING_DELETE" \/ c.kind = "delete" => revived' = revived
    BY <1>11 DEF WriteStatus
  <2>3. revived' = {}
    BY <2>2 DEF Undisturbed
  <2>4. \A g \in Fw : making'[g] = "inserted" => row'[g] # "PENDING_DELETE"
    BY <2>2 DEF Alone, Creating
  <2>5. \A t \in tasks' : /\ t.kind = "delete" => t.pc \in {"new", "server"} /\ t.outer = "none"
                          /\ t.kind # "delete" => row'[t.fw] # "PENDING_DELETE"
    BY <2>2 DEF Alone, Undisturbed
  <2>6. \A x \in calls' : x.kind # "delete" =>
          /\ \A g \in x.todo : row'[g] # "PENDING_DELETE"
          /\ x.pc = "cast" => row'[x.fw] # "PENDING_DELETE"
    BY <2>1, <2>2 DEF Undisturbed
  <2>7. QED
    BY <2>1, <2>3, <2>4, <2>5, <2>6 DEF Undisturbed
<1>12. ASSUME NEW c \in calls, ChangeRules(c) PROVE Undisturbed'
  <2>1. PICK d : /\ calls' = {d} /\ d.kind = c.kind
                 /\ d.pc = "write" /\ d.todo = Bound(c.policy)
    BY <1>12, OnlyChanges
  <2>2. QED
    BY <1>12, <2>1 DEF ChangeRules, Undisturbed, Bound, Rows, Status, Pending
<1>13. ASSUME NEW c \in calls, Return(c) PROVE Undisturbed'
  BY <1>13 DEF Return, Undisturbed, Bound, Rows, Status, Pending
<1>14. ASSUME NEW c \in calls, CastFirewall(c) PROVE Undisturbed'
  <2>1. PICK d, u : /\ calls' = {d} /\ d.kind = c.kind /\ d.pc = "write" /\ d.todo = c.todo
                    /\ tasks' = tasks \cup {u} /\ u.fw = c.fw /\ u.rules = Snapshot(c.fw)
                    /\ u.pc # "tell" /\ u.outer = "none"
                    /\ (u.kind = "delete" => u.pc = "new")
                    /\ u.kind = (IF c.kind = "delete" THEN "delete" ELSE "update")
    BY <1>14, OnlyCasts
  <2>2. QED
    BY <1>14, <2>1 DEF CastFirewall, Undisturbed, Bound, Rows, Status, Pending
<1>15. ASSUME NEW c \in calls, CallRaises(c) PROVE Undisturbed'
  BY <1>15 DEF CallRaises, Undisturbed, Bound, Rows, Status, Pending
<1>16. ASSUME NEW t \in tasks, GetServer(t) PROVE Undisturbed'
  <2>1. PICK u : /\ tasks' = (tasks \ {t}) \cup {u}
                 /\ u.fw = t.fw /\ u.kind = t.kind /\ u.rules = t.rules
                 /\ u.pc # "new" /\ (u.pc = "tell" => Apply(t) \/ ApplyError(t))
                 /\ (FirewallDeleted(t) => u.pc = "server") /\ (WaitOver(t) \/ u.outer = t.outer)
    BY <1>16, TaskGoes
  <2>2. QED
    BY <1>16, <2>1 DEF GetServer, Undisturbed, Bound, Rows, Status, Pending
<1>17. ASSUME NEW t \in tasks, WaitOver(t) PROVE Undisturbed'
  <2>1. PICK u : /\ tasks' = (tasks \ {t}) \cup {u}
                 /\ u.fw = t.fw /\ u.kind = t.kind /\ u.rules = t.rules
                 /\ u.pc # "new" /\ (u.pc = "tell" => Apply(t) \/ ApplyError(t))
                 /\ (FirewallDeleted(t) => u.pc = "server") /\ (WaitOver(t) \/ u.outer = t.outer)
    BY <1>17, TaskGoes
  <2>2. QED
    BY <1>17, <2>1 DEF WaitOver, Undisturbed, Bound, Rows, Status, Pending
<1>18. ASSUME NEW t \in tasks, WaitMore(t) PROVE Undisturbed'
  <2>1. PICK u : /\ tasks' = (tasks \ {t}) \cup {u}
                 /\ u.fw = t.fw /\ u.kind = t.kind /\ u.rules = t.rules
                 /\ u.pc # "new" /\ (u.pc = "tell" => Apply(t) \/ ApplyError(t))
                 /\ (FirewallDeleted(t) => u.pc = "server") /\ (WaitOver(t) \/ u.outer = t.outer)
    BY <1>18, TaskGoes
  <2>2. QED
    BY <1>18, <2>1 DEF WaitMore, Undisturbed, Bound, Rows, Status, Pending
<1>19. ASSUME NEW t \in tasks, LoadDriver(t) PROVE Undisturbed'
  <2>1. PICK u : /\ tasks' = (tasks \ {t}) \cup {u}
                 /\ u.fw = t.fw /\ u.kind = t.kind /\ u.rules = t.rules
                 /\ u.pc # "new" /\ (u.pc = "tell" => Apply(t) \/ ApplyError(t))
                 /\ (FirewallDeleted(t) => u.pc = "server") /\ (WaitOver(t) \/ u.outer = t.outer)
    BY <1>19, TaskGoes
  <2>2. QED
    BY <1>19, <2>1 DEF LoadDriver, Undisturbed, Bound, Rows, Status, Pending
<1>20. ASSUME NEW t \in tasks, Apply(t) PROVE Undisturbed'
  <2>1. PICK u : /\ tasks' = (tasks \ {t}) \cup {u}
                 /\ u.fw = t.fw /\ u.kind = t.kind /\ u.rules = t.rules
                 /\ u.pc # "new" /\ (u.pc = "tell" => Apply(t) \/ ApplyError(t))
                 /\ (FirewallDeleted(t) => u.pc = "server") /\ (WaitOver(t) \/ u.outer = t.outer)
    BY <1>20, TaskGoes
  <2>2. QED
    BY <1>20, <2>1 DEF Apply, Undisturbed, Bound, Rows, Status, Pending
<1>21. ASSUME NEW t \in tasks, ApplyError(t) PROVE Undisturbed'
  <2>1. PICK u : /\ tasks' = (tasks \ {t}) \cup {u}
                 /\ u.fw = t.fw /\ u.kind = t.kind /\ u.rules = t.rules
                 /\ u.pc # "new" /\ (u.pc = "tell" => Apply(t) \/ ApplyError(t))
                 /\ (FirewallDeleted(t) => u.pc = "server") /\ (WaitOver(t) \/ u.outer = t.outer)
    BY <1>21, TaskGoes
  <2>2. QED
    BY <1>21, <2>1 DEF ApplyError, Undisturbed, Bound, Rows, Status, Pending
<1>22. ASSUME NEW t \in tasks, UpdateNoDriver(t) PROVE Undisturbed'
  BY <1>22 DEF UpdateNoDriver, Ends, Undisturbed, Bound, Rows, Status, Pending
<1>23. ASSUME NEW t \in tasks, SetFirewallStatus(t) PROVE Undisturbed'
  <2>1. \A x \in tasks' : x \in tasks \/ (x.fw = t.fw /\ x.kind = t.kind)
    BY <1>23, TaskUnwinds DEF SetFirewallStatus
  <2>2. /\ t.kind # "delete" /\ row[t.fw] # "PENDING_DELETE"
        /\ t.fw \in Fw /\ t.say \in {"ACTIVE", "ERROR"}
    BY <1>23 DEF SetFirewallStatus, Undisturbed
  <2>3. /\ UNCHANGED <<calls, making, policyOf, revived>>
        /\ \A g \in Fw : g # t.fw => row'[g] = row[g]
        /\ row'[t.fw] = t.say /\ row[t.fw] # "none"
    BY <1>23, <2>2 DEF SetFirewallStatus
  <2>4. \A x \in tasks' : /\ x.kind = "delete" => x.pc \in {"new", "server"} /\ x.outer = "none"
                          /\ x.kind # "delete" => row'[x.fw] # "PENDING_DELETE"
    BY <2>1, <2>2, <2>3 DEF Undisturbed
  <2>5. \A g \in Fw : row[g] # "PENDING_DELETE" => row'[g] # "PENDING_DELETE"
    BY <2>2, <2>3
  <2>6. \A c \in calls' : c.pc # "ensure"
    BY <2>3 DEF Alone
  <2>7. QED
    BY <2>3, <2>4, <2>5, <2>6 DEF Undisturbed
<1>24. ASSUME NEW t \in tasks, FirewallDeleted(t) PROVE Undisturbed'
  <2>1. PICK u : /\ tasks' = (tasks \ {t}) \cup {u}
                 /\ u.fw = t.fw /\ u.kind = t.kind /\ u.rules = t.rules
                 /\ u.pc # "new" /\ (u.pc = "tell" => Apply(t) \/ ApplyError(t))
                 /\ (FirewallDeleted(t) => u.pc = "server") /\ (WaitOver(t) \/ u.outer = t.outer)
    BY <1>24, TaskGoes
  <2>2. /\ t.kind = "delete" /\ t.pc = "new" /\ t.outer = "none"
        /\ UNCHANGED <<calls, making, policyOf, revived>>
        /\ \A g \in Fw : row'[g] = row[g] \/ row'[g] \in {"none", "ERROR"}
    BY <1>24 DEF FirewallDeleted, Undisturbed
  <2>3. u.kind = "delete" /\ u.pc = "server" /\ u.outer = "none"
    BY <1>24, <2>1, <2>2 DEF WaitOver
  <2>4. \A x \in tasks' : /\ x.kind = "delete" => x.pc \in {"new", "server"} /\ x.outer = "none"
                          /\ x.kind # "delete" => row'[x.fw] # "PENDING_DELETE"
    BY <2>1, <2>2, <2>3 DEF Undisturbed
  <2>5. \A g \in Fw : row[g] # "PENDING_DELETE" => row'[g] # "PENDING_DELETE"
    BY <2>2
  <2>6. \A c \in calls' : c.kind = "delete" /\ c.pc # "ensure"
    BY <2>2 DEF Alone
  <2>7. QED
    BY <2>2, <2>4, <2>5, <2>6 DEF Undisturbed
<1>25. ASSUME NEW t \in tasks, DeleteServer(t) PROVE Undisturbed'
  BY <1>25 DEF DeleteServer, Ends, Undisturbed, Bound, Rows, Status, Pending
<1>26. ASSUME NEW t \in tasks, CallbackRaises(t) PROVE Undisturbed'
  <2>1. Unwind(t)
    BY <1>26 DEF CallbackRaises
  <2>2. QED
    BY <1>26, <2>1, TaskUnwinds DEF CallbackRaises, Undisturbed, Bound, Rows, Status, Pending
<1>27. ASSUME NEW t \in tasks, TaskRaises(t) PROVE Undisturbed'
  <2>1. Unwind(t)
    BY <1>27 DEF TaskRaises
  <2>2. QED
    BY <1>27, <2>1, TaskUnwinds DEF TaskRaises, Undisturbed, Bound, Rows, Status, Pending
<1>28. CASE AgentRestart
  BY <1>28 DEF AgentRestart, Undisturbed, Bound, Rows, Status, Pending
<1>29. CASE UNCHANGED vars
  BY <1>29 DEF vars, Undisturbed, Bound, Rows, Status, Pending
<1>30. ASSUME NEW f \in Fw, CreateNext(f) \/ ServerBuilt(f) PROVE Undisturbed'
  BY <1>1, <1>2, <1>3, <1>4, <1>5, <1>6, <1>30 DEF CreateNext
<1>31. ASSUME NEW r \in Call, BeginNext(r) PROVE Undisturbed'
  BY <1>7, <1>8, <1>9, <1>31 DEF BeginNext
<1>32. ASSUME NEW c \in calls, CallNext(c) PROVE Undisturbed'
  BY <1>10, <1>11, <1>12, <1>13, <1>14, <1>15, <1>32 DEF CallNext
<1>33. ASSUME NEW t \in tasks, TaskNext(t) PROVE Undisturbed'
  BY <1>16, <1>17, <1>18, <1>19, <1>20, <1>21, <1>22, <1>23, <1>24, <1>25, <1>26, <1>27, <1>33, NoRulesRaises DEF TaskNext
<1>34. QED
  BY <1>28, <1>29, <1>30, <1>31, <1>32, <1>33 DEF Next

\* Every step keeps the rules that are applied up to date.
LEMMA CurrentStep == TypeOK /\ WorkInv /\ Alone /\ Current /\ ~overlapped /\ [Next]_vars /\ ~overlapped' => Current'
<1> SUFFICES ASSUME TypeOK, WorkInv, Alone, Current, ~overlapped, [Next]_vars, ~overlapped' PROVE Current'
  OBVIOUS
<1> USE FwAssumption DEF TypeOK, APICall, Task
<1>1. ASSUME NEW f \in Fw, CountFirewalls(f) PROVE Current'
  BY <1>1 DEF CountFirewalls, Begin, Idle, Current, Enforces, Snapshot
<1>2. ASSUME NEW f \in Fw, LaunchFwVm(f) PROVE Current'
  BY <1>2 DEF LaunchFwVm, Current, Enforces, Snapshot
<1>3. ASSUME NEW f \in Fw, InsertFirewall(f) PROVE Current'
  BY <1>3 DEF InsertFirewall, Current, Enforces, Snapshot
<1>4. ASSUME NEW f \in Fw, CastCreate(f) PROVE Current'
  <2> DEFINE u == NewTask(f, "create", f, "new")
  <2>1. /\ u.fw = f /\ u.kind = "create" /\ u.pc = "new" /\ u.outer = "none"
        /\ u.rules = Snapshot(f)
    BY DEF NewTask
  <2>2. tasks' = tasks \cup {u}
    BY <1>4 DEF CastCreate
  <2> HIDE DEF u
  <2>3. QED
    BY <1>4, <2>1, <2>2 DEF CastCreate, Current, Enforces, Snapshot
<1>5. ASSUME NEW f \in Fw, CreateRaises(f) PROVE Current'
  BY <1>5 DEF CreateRaises, Current, Enforces, Snapshot
<1>6. ASSUME NEW f \in Fw, ServerBuilt(f) PROVE Current'
  BY <1>6 DEF ServerBuilt, Current, Enforces, Snapshot
<1>7. ASSUME NEW r \in Call, NEW f \in Fw, NEW p \in Policy, UpdateFirewall(r, f, p) PROVE Current'
  <2> DEFINE d == NewCall(r, "firewall", "write", p, {f})
  <2>1. d.pc = "write" /\ d.kind = "firewall" /\ d.todo = {f} /\ d.policy = p
    BY DEF NewCall
  <2>2. calls = {} /\ tasks = {} /\ calls' = {d} /\ Idle
    BY <1>7 DEF UpdateFirewall, Begin, Idle
  <2> HIDE DEF d
  <2>3. QED
    BY <1>7, <2>1, <2>2 DEF UpdateFirewall, Idle, Current, Enforces, Snapshot
<1>8. ASSUME NEW r \in Call, NEW p \in Policy, UpdatePolicy(r, p) PROVE Current'
  <2> DEFINE d == NewCall(r, "policy", "ensure", p, Bound(p))
  <2>1. d.pc = "ensure" /\ d.kind = "policy" /\ d.todo = Bound(p) /\ d.policy = p
    BY DEF NewCall
  <2>2. calls = {} /\ tasks = {} /\ calls' = {d} /\ Idle
    BY <1>8 DEF UpdatePolicy, Begin, Idle
  <2> HIDE DEF d
  <2>3. QED
    BY <1>8, <2>1, <2>2 DEF UpdatePolicy, Idle, Current, Enforces, Snapshot
<1>9. ASSUME NEW r \in Call, NEW f \in Fw, DeleteFirewall(r, f) PROVE Current'
  <2> DEFINE d == NewCall(r, "delete", "write", policyOf[f], {f})
  <2>1. d.pc = "write" /\ d.kind = "delete" /\ d.todo = {f} /\ d.policy = policyOf[f]
    BY DEF NewCall
  <2>2. calls = {} /\ tasks = {} /\ calls' = {d} /\ Idle
    BY <1>9 DEF DeleteFirewall, Begin, Idle
  <2> HIDE DEF d
  <2>3. QED
    BY <1>9, <2>1, <2>2 DEF DeleteFirewall, Idle, Current, Enforces, Snapshot
<1>10. ASSUME NEW c \in calls, NEW f \in Fw, Ensure(c, f) PROVE Current'
  <2>1. CASE calls' = {}
    BY <1>10, <2>1 DEF Ensure, Current, Enforces, Snapshot
  <2>2. CASE /\ row[f] \in Status \ Pending
             /\ \E d : /\ calls' = {d} /\ d.kind = c.kind /\ d.policy = c.policy
                      /\ d.pc = "ensure" /\ d.todo = c.todo \ {f}
    <3>1. PICK d : /\ calls' = {d} /\ d.kind = c.kind /\ d.policy = c.policy
                   /\ d.pc = "ensure" /\ d.todo = c.todo \ {f}
      BY <2>2
    <3>2. QED
      BY <1>10, <2>2, <3>1 DEF Ensure, Current, Enforces, Snapshot
  <2>3. QED
    BY <1>10, <2>1, <2>2, OnlyEnsures
<1>11. ASSUME NEW c \in calls, NEW f \in Fw, WriteStatus(c, f) PROVE Current'
  <2>1. PICK d : /\ calls' = {d} /\ d.kind = c.kind /\ d.policy = c.policy
                 /\ d.pc = "cast" /\ d.fw = f /\ d.todo = c.todo \ {f}
    BY <1>11, OnlyWrites
  <2>2. /\ c.pc = "write" /\ f \in c.todo /\ UNCHANGED <<tasks, rules, applied, attached, dropped>>
        /\ \A g \in Fw : g # f => row'[g] = row[g] /\ policyOf'[g] = policyOf[g]
        /\ row'[f] # "ACTIVE"
    BY <1>11 DEF WriteStatus
  <2>3. \A g \in Fw : g # f => Snapshot(g)' = Snapshot(g)
    BY <2>2 DEF Snapshot
  <2>4. \A t \in tasks : t.fw \in Fw /\ t.fw # f
    BY <2>2 DEF Alone
  <2>5. \A x \in tasks' :
          /\ x.rules = Snapshot(x.fw)'
          /\ x.pc = "new" => x.outer = "none"
          /\ x.pc = "tell" /\ x.fw \notin dropped' => Enforces(x.fw, x.rules)'
    BY <2>2, <2>3, <2>4 DEF Current, Enforces
  <2>6. calls = {c}
    BY DEF Alone
  <2>7. \A g \in Fw \ dropped' : row'[g] = "ACTIVE" =>
          \/ Enforces(g, Snapshot(g))'
          \/ \E x \in calls' : x.pc # "ensure" /\ g \in x.todo
    BY <2>1, <2>2, <2>3, <2>6 DEF Current, Enforces
  <2>8. QED
    BY <2>5, <2>7 DEF Current, Enforces
<1>12. ASSUME NEW c \in calls, ChangeRules(c) PROVE Current'
  <2>1. PICK d : /\ calls' = {d} /\ d.kind = c.kind
                 /\ d.pc = "write" /\ d.todo = Bound(c.policy)
    BY <1>12, OnlyChanges
  <2>2. /\ UNCHANGED <<row, policyOf, tasks, applied, attached, dropped>>
        /\ \A p \in Policy : p # c.policy => rules'[p] = rules[p]
    BY <1>12 DEF ChangeRules
  <2>3. calls = {c} /\ c.pc = "ensure" /\ tasks' = {}
    BY <1>12 DEF ChangeRules, Alone
  <2>4. ASSUME NEW g \in Fw \ dropped', row'[g] = "ACTIVE"
        PROVE  \/ Enforces(g, Snapshot(g))'
               \/ \E x \in calls' : x.pc # "ensure" /\ g \in x.todo
    <3>1. CASE policyOf[g] = c.policy
      BY <2>1, <2>2, <2>4, <3>1 DEF Bound, Rows
    <3>2. CASE policyOf[g] # c.policy
      <4>1. Snapshot(g)' = Snapshot(g)
        BY <2>2, <3>2 DEF Snapshot
      <4>2. QED
        BY <2>2, <2>3, <2>4, <4>1 DEF Current, Enforces
    <3>3. QED
      BY <3>1, <3>2
  <2>5. QED
    BY <2>3, <2>4 DEF Current, Enforces
<1>13. ASSUME NEW c \in calls, Return(c) PROVE Current'
  BY <1>13 DEF Return, Current, Enforces, Snapshot
<1>14. ASSUME NEW c \in calls, CastFirewall(c) PROVE Current'
  <2>1. PICK d, u : /\ calls' = {d} /\ d.kind = c.kind /\ d.pc = "write" /\ d.todo = c.todo
                    /\ tasks' = tasks \cup {u} /\ u.fw = c.fw /\ u.rules = Snapshot(c.fw)
                    /\ u.pc # "tell" /\ u.outer = "none"
                    /\ (u.kind = "delete" => u.pc = "new")
                    /\ u.kind = (IF c.kind = "delete" THEN "delete" ELSE "update")
    BY <1>14, OnlyCasts
  <2>2. QED
    BY <1>14, <2>1 DEF CastFirewall, Current, Enforces, Snapshot
<1>15. ASSUME NEW c \in calls, CallRaises(c) PROVE Current'
  BY <1>15 DEF CallRaises, Current, Enforces, Snapshot
<1>16. ASSUME NEW t \in tasks, GetServer(t) PROVE Current'
  <2>1. PICK u : /\ tasks' = (tasks \ {t}) \cup {u}
                 /\ u.fw = t.fw /\ u.kind = t.kind /\ u.rules = t.rules
                 /\ u.pc # "new" /\ (u.pc = "tell" => Apply(t) \/ ApplyError(t))
                 /\ (FirewallDeleted(t) => u.pc = "server") /\ (WaitOver(t) \/ u.outer = t.outer)
    BY <1>16, TaskGoes
  <2>2. UNCHANGED <<row, policyOf, rules, calls, applied, attached, dropped>>
    BY <1>16 DEF GetServer
  <2>3. u.pc # "tell"
    BY <1>16, <2>1 DEF GetServer, Apply, ApplyError
  <2>4. \A x \in tasks' :
          /\ x.rules = Snapshot(x.fw)'
          /\ x.pc = "new" => x.outer = "none"
          /\ x.pc = "tell" /\ x.fw \notin dropped' => Enforces(x.fw, x.rules)'
    BY <2>1, <2>2, <2>3 DEF Current, Enforces, Snapshot
  <2>5. \A g \in Fw \ dropped' : row'[g] = "ACTIVE" =>
          \/ Enforces(g, Snapshot(g))'
          \/ \E x \in calls' : x.pc # "ensure" /\ g \in x.todo
    BY <2>2 DEF Current, Enforces, Snapshot
  <2>6. QED
    BY <2>4, <2>5 DEF Current, Enforces
<1>17. ASSUME NEW t \in tasks, WaitOver(t) PROVE Current'
  <2>1. PICK u : /\ tasks' = (tasks \ {t}) \cup {u}
                 /\ u.fw = t.fw /\ u.kind = t.kind /\ u.rules = t.rules
                 /\ u.pc # "new" /\ (u.pc = "tell" => Apply(t) \/ ApplyError(t))
                 /\ (FirewallDeleted(t) => u.pc = "server") /\ (WaitOver(t) \/ u.outer = t.outer)
    BY <1>17, TaskGoes
  <2>2. UNCHANGED <<row, policyOf, rules, calls, applied, attached, dropped>>
    BY <1>17 DEF WaitOver
  <2>3. u.pc # "tell"
    BY <1>17, <2>1 DEF WaitOver, Apply, ApplyError
  <2>4. \A x \in tasks' :
          /\ x.rules = Snapshot(x.fw)'
          /\ x.pc = "new" => x.outer = "none"
          /\ x.pc = "tell" /\ x.fw \notin dropped' => Enforces(x.fw, x.rules)'
    BY <2>1, <2>2, <2>3 DEF Current, Enforces, Snapshot
  <2>5. \A g \in Fw \ dropped' : row'[g] = "ACTIVE" =>
          \/ Enforces(g, Snapshot(g))'
          \/ \E x \in calls' : x.pc # "ensure" /\ g \in x.todo
    BY <2>2 DEF Current, Enforces, Snapshot
  <2>6. QED
    BY <2>4, <2>5 DEF Current, Enforces
<1>18. ASSUME NEW t \in tasks, WaitMore(t) PROVE Current'
  <2>1. PICK u : /\ tasks' = (tasks \ {t}) \cup {u}
                 /\ u.fw = t.fw /\ u.kind = t.kind /\ u.rules = t.rules
                 /\ u.pc # "new" /\ (u.pc = "tell" => Apply(t) \/ ApplyError(t))
                 /\ (FirewallDeleted(t) => u.pc = "server") /\ (WaitOver(t) \/ u.outer = t.outer)
    BY <1>18, TaskGoes
  <2>2. UNCHANGED <<row, policyOf, rules, calls, applied, attached, dropped>>
    BY <1>18 DEF WaitMore
  <2>3. u.pc # "tell"
    BY <1>18, <2>1 DEF WaitMore, Apply, ApplyError
  <2>4. \A x \in tasks' :
          /\ x.rules = Snapshot(x.fw)'
          /\ x.pc = "new" => x.outer = "none"
          /\ x.pc = "tell" /\ x.fw \notin dropped' => Enforces(x.fw, x.rules)'
    BY <2>1, <2>2, <2>3 DEF Current, Enforces, Snapshot
  <2>5. \A g \in Fw \ dropped' : row'[g] = "ACTIVE" =>
          \/ Enforces(g, Snapshot(g))'
          \/ \E x \in calls' : x.pc # "ensure" /\ g \in x.todo
    BY <2>2 DEF Current, Enforces, Snapshot
  <2>6. QED
    BY <2>4, <2>5 DEF Current, Enforces
<1>19. ASSUME NEW t \in tasks, LoadDriver(t) PROVE Current'
  <2>1. PICK u : /\ tasks' = (tasks \ {t}) \cup {u}
                 /\ u.fw = t.fw /\ u.kind = t.kind /\ u.rules = t.rules
                 /\ u.pc # "new" /\ (u.pc = "tell" => Apply(t) \/ ApplyError(t))
                 /\ (FirewallDeleted(t) => u.pc = "server") /\ (WaitOver(t) \/ u.outer = t.outer)
    BY <1>19, TaskGoes
  <2>2. UNCHANGED <<row, policyOf, rules, calls, applied, attached, dropped>>
    BY <1>19 DEF LoadDriver
  <2>3. u.pc # "tell"
    BY <1>19, <2>1 DEF LoadDriver, Apply, ApplyError
  <2>4. \A x \in tasks' :
          /\ x.rules = Snapshot(x.fw)'
          /\ x.pc = "new" => x.outer = "none"
          /\ x.pc = "tell" /\ x.fw \notin dropped' => Enforces(x.fw, x.rules)'
    BY <2>1, <2>2, <2>3 DEF Current, Enforces, Snapshot
  <2>5. \A g \in Fw \ dropped' : row'[g] = "ACTIVE" =>
          \/ Enforces(g, Snapshot(g))'
          \/ \E x \in calls' : x.pc # "ensure" /\ g \in x.todo
    BY <2>2 DEF Current, Enforces, Snapshot
  <2>6. QED
    BY <2>4, <2>5 DEF Current, Enforces
<1>20. ASSUME NEW t \in tasks, Apply(t) PROVE Current'
  <2>1. PICK u : /\ tasks' = (tasks \ {t}) \cup {u}
                 /\ u.fw = t.fw /\ u.kind = t.kind /\ u.rules = t.rules
                 /\ u.pc # "new" /\ (u.pc = "tell" => Apply(t) \/ ApplyError(t))
                 /\ (FirewallDeleted(t) => u.pc = "server") /\ (WaitOver(t) \/ u.outer = t.outer)
    BY <1>20, TaskGoes
  <2>2. /\ UNCHANGED <<row, policyOf, rules, calls, dropped>>
        /\ t.fw \in Fw /\ Enforces(t.fw, t.rules)'
        /\ \A g \in Fw : g # t.fw => applied'[g] = applied[g] /\ (g \in attached => g \in attached')
    BY <1>20, ApplyFacts DEF Apply
  <2>3. \A x \in tasks : x.fw \in Fw /\ x.rules = Snapshot(x.fw)
    BY DEF Current, Enforces
  <2>4. \A g \in Fw : Snapshot(g)' = Snapshot(g)
    BY <2>2 DEF Snapshot
  <2>5. \A x \in tasks' :
          /\ x.rules = Snapshot(x.fw)'
          /\ x.pc = "new" => x.outer = "none"
          /\ x.pc = "tell" /\ x.fw \notin dropped' => Enforces(x.fw, x.rules)'
    BY <2>1, <2>2, <2>3, <2>4 DEF Current, Enforces
  <2>6. \A g \in Fw \ dropped' : row'[g] = "ACTIVE" =>
          \/ Enforces(g, Snapshot(g))'
          \/ \E x \in calls' : x.pc # "ensure" /\ g \in x.todo
    BY <2>2, <2>3, <2>4 DEF Current, Enforces
  <2>7. QED
    BY <2>5, <2>6 DEF Current, Enforces
<1>21. ASSUME NEW t \in tasks, ApplyError(t) PROVE Current'
  <2>1. PICK u : /\ tasks' = (tasks \ {t}) \cup {u}
                 /\ u.fw = t.fw /\ u.kind = t.kind /\ u.rules = t.rules
                 /\ u.pc # "new" /\ (u.pc = "tell" => Apply(t) \/ ApplyError(t))
                 /\ (FirewallDeleted(t) => u.pc = "server") /\ (WaitOver(t) \/ u.outer = t.outer)
    BY <1>21, TaskGoes
  <2>2. QED
    BY <1>21, <2>1 DEF ApplyError, Current, Enforces, Snapshot
<1>22. ASSUME NEW t \in tasks, UpdateNoDriver(t) PROVE Current'
  BY <1>22 DEF UpdateNoDriver, Ends, Current, Enforces, Snapshot
<1>23. ASSUME NEW t \in tasks, SetFirewallStatus(t) PROVE Current'
  <2>1. \A x \in tasks' : \/ x \in tasks
                          \/ /\ x.fw = t.fw /\ x.kind = t.kind /\ x.rules = t.rules
                             /\ x.pc = "tell" /\ t.outer # "none"
    BY <1>23, TaskUnwinds DEF SetFirewallStatus
  <2>2. /\ UNCHANGED <<policyOf, rules, calls, dropped, applied, attached>>
        /\ t.fw \in Fw /\ t.pc = "tell"
        /\ \A g \in Fw : g # t.fw => row'[g] = row[g]
    BY <1>23 DEF SetFirewallStatus
  <2>3. \A g \in Fw : Snapshot(g)' = Snapshot(g)
    BY <2>2 DEF Snapshot
  <2>4. t.rules = Snapshot(t.fw) /\ (t.fw \notin dropped => Enforces(t.fw, t.rules))
    BY <2>2 DEF Current, Enforces
  <2>5. \A x \in tasks' :
          /\ x.rules = Snapshot(x.fw)'
          /\ x.pc = "new" => x.outer = "none"
          /\ x.pc = "tell" /\ x.fw \notin dropped' => Enforces(x.fw, x.rules)'
    BY <2>1, <2>2, <2>3, <2>4 DEF Current, Enforces
  <2>6. \A g \in Fw \ dropped' : row'[g] = "ACTIVE" =>
          \/ Enforces(g, Snapshot(g))'
          \/ \E x \in calls' : x.pc # "ensure" /\ g \in x.todo
    BY <2>2, <2>3, <2>4 DEF Current, Enforces
  <2>7. QED
    BY <2>5, <2>6 DEF Current, Enforces
<1>24. ASSUME NEW t \in tasks, FirewallDeleted(t) PROVE Current'
  <2>1. PICK u : /\ tasks' = (tasks \ {t}) \cup {u}
                 /\ u.fw = t.fw /\ u.kind = t.kind /\ u.rules = t.rules
                 /\ u.pc # "new" /\ (u.pc = "tell" => Apply(t) \/ ApplyError(t))
                 /\ (FirewallDeleted(t) => u.pc = "server") /\ (WaitOver(t) \/ u.outer = t.outer)
    BY <1>24, TaskGoes
  <2>2. UNCHANGED <<policyOf, rules, calls, applied, attached, dropped>>
    BY <1>24 DEF FirewallDeleted
  <2>3. u.pc # "tell"
    BY <1>24, <2>1 DEF FirewallDeleted, Apply, ApplyError
  <2>4. \A x \in tasks' :
          /\ x.rules = Snapshot(x.fw)'
          /\ x.pc = "new" => x.outer = "none"
          /\ x.pc = "tell" /\ x.fw \notin dropped' => Enforces(x.fw, x.rules)'
    BY <2>1, <2>2, <2>3 DEF Current, Enforces, Snapshot
  <2>5. \A g \in Fw : row'[g] = "ACTIVE" => row[g] = "ACTIVE"
    BY <1>24 DEF FirewallDeleted
  <2>6. \A g \in Fw \ dropped' : row'[g] = "ACTIVE" =>
          \/ Enforces(g, Snapshot(g))'
          \/ \E x \in calls' : x.pc # "ensure" /\ g \in x.todo
    BY <2>2, <2>5 DEF Current, Enforces, Snapshot
  <2>7. QED
    BY <2>4, <2>6 DEF Current, Enforces
<1>25. ASSUME NEW t \in tasks, DeleteServer(t) PROVE Current'
  BY <1>25 DEF DeleteServer, Ends, Current, Enforces, Snapshot
<1>26. ASSUME NEW t \in tasks, CallbackRaises(t) PROVE Current'
  <2>1. Unwind(t)
    BY <1>26 DEF CallbackRaises
  <2>2. QED
    BY <1>26, <2>1, TaskUnwinds DEF CallbackRaises, Current, Enforces, Snapshot
<1>27. ASSUME NEW t \in tasks, TaskRaises(t) PROVE Current'
  <2>1. Unwind(t)
    BY <1>27 DEF TaskRaises
  <2>2. QED
    BY <1>27, <2>1, TaskUnwinds DEF TaskRaises, Current, Enforces, Snapshot
<1>28. CASE AgentRestart
  BY <1>28 DEF AgentRestart, Current, Enforces, Snapshot
<1>29. CASE UNCHANGED vars
  BY <1>29 DEF vars, Current, Enforces, Snapshot
<1>30. ASSUME NEW f \in Fw, CreateNext(f) \/ ServerBuilt(f) PROVE Current'
  BY <1>1, <1>2, <1>3, <1>4, <1>5, <1>6, <1>30 DEF CreateNext
<1>31. ASSUME NEW r \in Call, BeginNext(r) PROVE Current'
  BY <1>7, <1>8, <1>9, <1>31 DEF BeginNext
<1>32. ASSUME NEW c \in calls, CallNext(c) PROVE Current'
  BY <1>10, <1>11, <1>12, <1>13, <1>14, <1>15, <1>32 DEF CallNext
<1>33. ASSUME NEW t \in tasks, TaskNext(t) PROVE Current'
  BY <1>16, <1>17, <1>18, <1>19, <1>20, <1>21, <1>22, <1>23, <1>24, <1>25, <1>26, <1>27, <1>33, NoRulesRaises DEF TaskNext
<1>34. QED
  BY <1>28, <1>29, <1>30, <1>31, <1>32, <1>33 DEF Next

\* No firewall is inserted beside another one.
LEMMA SingleStep == TypeOK /\ WorkInv /\ Alone /\ Single /\ ~overlapped /\ [Next]_vars /\ ~overlapped' => Single'
<1> SUFFICES ASSUME TypeOK, WorkInv, Alone, Single, ~overlapped, [Next]_vars, ~overlapped' PROVE Single'
  OBVIOUS
<1> USE FwAssumption DEF TypeOK, APICall, Task
<1>1. ASSUME NEW f \in Fw, CountFirewalls(f) PROVE Single'
  BY <1>1 DEF CountFirewalls, Begin, Idle, Single, Rows
<1>2. ASSUME NEW f \in Fw, LaunchFwVm(f) PROVE Single'
  BY <1>2 DEF LaunchFwVm, Single, Rows
<1>3. ASSUME NEW f \in Fw, InsertFirewall(f) PROVE Single'
  <2>1. Rows = {} /\ making[f] = "launched"
    BY <1>3 DEF InsertFirewall, Single
  <2>2. \A g \in Fw : row'[g] # "none" => g = f
    BY <1>3, <2>1 DEF InsertFirewall, Rows
  <2>3. \A g \in Fw : making'[g] \notin {"counted", "launched"}
    BY <1>3, <2>1 DEF InsertFirewall, Alone, Creating
  <2>4. QED
    BY <2>2, <2>3 DEF Single, Rows
<1>4. ASSUME NEW f \in Fw, CastCreate(f) PROVE Single'
  <2> DEFINE u == NewTask(f, "create", f, "new")
  <2>1. /\ u.fw = f /\ u.kind = "create" /\ u.pc = "new" /\ u.outer = "none"
        /\ u.rules = Snapshot(f)
    BY DEF NewTask
  <2>2. tasks' = tasks \cup {u}
    BY <1>4 DEF CastCreate
  <2> HIDE DEF u
  <2>3. QED
    BY <1>4, <2>1, <2>2 DEF CastCreate, Single, Rows
<1>5. ASSUME NEW f \in Fw, CreateRaises(f) PROVE Single'
  BY <1>5 DEF CreateRaises, Single, Rows
<1>6. ASSUME NEW f \in Fw, ServerBuilt(f) PROVE Single'
  BY <1>6 DEF ServerBuilt, Single, Rows
<1>7. ASSUME NEW r \in Call, NEW f \in Fw, NEW p \in Policy, UpdateFirewall(r, f, p) PROVE Single'
  <2> DEFINE d == NewCall(r, "firewall", "write", p, {f})
  <2>1. d.pc = "write" /\ d.kind = "firewall" /\ d.todo = {f} /\ d.policy = p
    BY DEF NewCall
  <2>2. calls = {} /\ tasks = {} /\ calls' = {d} /\ Idle
    BY <1>7 DEF UpdateFirewall, Begin, Idle
  <2> HIDE DEF d
  <2>3. QED
    BY <1>7, <2>1, <2>2 DEF UpdateFirewall, Idle, Single, Rows
<1>8. ASSUME NEW r \in Call, NEW p \in Policy, UpdatePolicy(r, p) PROVE Single'
  <2> DEFINE d == NewCall(r, "policy", "ensure", p, Bound(p))
  <2>1. d.pc = "ensure" /\ d.kind = "policy" /\ d.todo = Bound(p) /\ d.policy = p
    BY DEF NewCall
  <2>2. calls = {} /\ tasks = {} /\ calls' = {d} /\ Idle
    BY <1>8 DEF UpdatePolicy, Begin, Idle
  <2> HIDE DEF d
  <2>3. QED
    BY <1>8, <2>1, <2>2 DEF UpdatePolicy, Idle, Single, Rows
<1>9. ASSUME NEW r \in Call, NEW f \in Fw, DeleteFirewall(r, f) PROVE Single'
  <2> DEFINE d == NewCall(r, "delete", "write", policyOf[f], {f})
  <2>1. d.pc = "write" /\ d.kind = "delete" /\ d.todo = {f} /\ d.policy = policyOf[f]
    BY DEF NewCall
  <2>2. calls = {} /\ tasks = {} /\ calls' = {d} /\ Idle
    BY <1>9 DEF DeleteFirewall, Begin, Idle
  <2> HIDE DEF d
  <2>3. QED
    BY <1>9, <2>1, <2>2 DEF DeleteFirewall, Idle, Single, Rows
<1>10. ASSUME NEW c \in calls, NEW f \in Fw, Ensure(c, f) PROVE Single'
  <2>1. CASE calls' = {}
    BY <1>10, <2>1 DEF Ensure, Single, Rows
  <2>2. CASE /\ row[f] \in Status \ Pending
             /\ \E d : /\ calls' = {d} /\ d.kind = c.kind /\ d.policy = c.policy
                      /\ d.pc = "ensure" /\ d.todo = c.todo \ {f}
    <3>1. PICK d : /\ calls' = {d} /\ d.kind = c.kind /\ d.policy = c.policy
                   /\ d.pc = "ensure" /\ d.todo = c.todo \ {f}
      BY <2>2
    <3>2. QED
      BY <1>10, <2>2, <3>1 DEF Ensure, Single, Rows
  <2>3. QED
    BY <1>10, <2>1, <2>2, OnlyEnsures
<1>11. ASSUME NEW c \in calls, NEW f \in Fw, WriteStatus(c, f) PROVE Single'
  <2>1. PICK d : /\ calls' = {d} /\ d.kind = c.kind /\ d.policy = c.policy
                 /\ d.pc = "cast" /\ d.fw = f /\ d.todo = c.todo \ {f}
    BY <1>11, OnlyWrites
  <2>2. QED
    BY <1>11, <2>1 DEF WriteStatus, Single, Rows
<1>12. ASSUME NEW c \in calls, ChangeRules(c) PROVE Single'
  <2>1. PICK d : /\ calls' = {d} /\ d.kind = c.kind
                 /\ d.pc = "write" /\ d.todo = Bound(c.policy)
    BY <1>12, OnlyChanges
  <2>2. QED
    BY <1>12, <2>1 DEF ChangeRules, Single, Rows
<1>13. ASSUME NEW c \in calls, Return(c) PROVE Single'
  BY <1>13 DEF Return, Single, Rows
<1>14. ASSUME NEW c \in calls, CastFirewall(c) PROVE Single'
  <2>1. PICK d, u : /\ calls' = {d} /\ d.kind = c.kind /\ d.pc = "write" /\ d.todo = c.todo
                    /\ tasks' = tasks \cup {u} /\ u.fw = c.fw /\ u.rules = Snapshot(c.fw)
                    /\ u.pc # "tell" /\ u.outer = "none"
                    /\ (u.kind = "delete" => u.pc = "new")
                    /\ u.kind = (IF c.kind = "delete" THEN "delete" ELSE "update")
    BY <1>14, OnlyCasts
  <2>2. QED
    BY <1>14, <2>1 DEF CastFirewall, Single, Rows
<1>15. ASSUME NEW c \in calls, CallRaises(c) PROVE Single'
  BY <1>15 DEF CallRaises, Single, Rows
<1>16. ASSUME NEW t \in tasks, GetServer(t) PROVE Single'
  <2>1. PICK u : /\ tasks' = (tasks \ {t}) \cup {u}
                 /\ u.fw = t.fw /\ u.kind = t.kind /\ u.rules = t.rules
                 /\ u.pc # "new" /\ (u.pc = "tell" => Apply(t) \/ ApplyError(t))
                 /\ (FirewallDeleted(t) => u.pc = "server") /\ (WaitOver(t) \/ u.outer = t.outer)
    BY <1>16, TaskGoes
  <2>2. QED
    BY <1>16, <2>1 DEF GetServer, Single, Rows
<1>17. ASSUME NEW t \in tasks, WaitOver(t) PROVE Single'
  <2>1. PICK u : /\ tasks' = (tasks \ {t}) \cup {u}
                 /\ u.fw = t.fw /\ u.kind = t.kind /\ u.rules = t.rules
                 /\ u.pc # "new" /\ (u.pc = "tell" => Apply(t) \/ ApplyError(t))
                 /\ (FirewallDeleted(t) => u.pc = "server") /\ (WaitOver(t) \/ u.outer = t.outer)
    BY <1>17, TaskGoes
  <2>2. QED
    BY <1>17, <2>1 DEF WaitOver, Single, Rows
<1>18. ASSUME NEW t \in tasks, WaitMore(t) PROVE Single'
  <2>1. PICK u : /\ tasks' = (tasks \ {t}) \cup {u}
                 /\ u.fw = t.fw /\ u.kind = t.kind /\ u.rules = t.rules
                 /\ u.pc # "new" /\ (u.pc = "tell" => Apply(t) \/ ApplyError(t))
                 /\ (FirewallDeleted(t) => u.pc = "server") /\ (WaitOver(t) \/ u.outer = t.outer)
    BY <1>18, TaskGoes
  <2>2. QED
    BY <1>18, <2>1 DEF WaitMore, Single, Rows
<1>19. ASSUME NEW t \in tasks, LoadDriver(t) PROVE Single'
  <2>1. PICK u : /\ tasks' = (tasks \ {t}) \cup {u}
                 /\ u.fw = t.fw /\ u.kind = t.kind /\ u.rules = t.rules
                 /\ u.pc # "new" /\ (u.pc = "tell" => Apply(t) \/ ApplyError(t))
                 /\ (FirewallDeleted(t) => u.pc = "server") /\ (WaitOver(t) \/ u.outer = t.outer)
    BY <1>19, TaskGoes
  <2>2. QED
    BY <1>19, <2>1 DEF LoadDriver, Single, Rows
<1>20. ASSUME NEW t \in tasks, Apply(t) PROVE Single'
  <2>1. PICK u : /\ tasks' = (tasks \ {t}) \cup {u}
                 /\ u.fw = t.fw /\ u.kind = t.kind /\ u.rules = t.rules
                 /\ u.pc # "new" /\ (u.pc = "tell" => Apply(t) \/ ApplyError(t))
                 /\ (FirewallDeleted(t) => u.pc = "server") /\ (WaitOver(t) \/ u.outer = t.outer)
    BY <1>20, TaskGoes
  <2>2. QED
    BY <1>20, <2>1 DEF Apply, Single, Rows
<1>21. ASSUME NEW t \in tasks, ApplyError(t) PROVE Single'
  <2>1. PICK u : /\ tasks' = (tasks \ {t}) \cup {u}
                 /\ u.fw = t.fw /\ u.kind = t.kind /\ u.rules = t.rules
                 /\ u.pc # "new" /\ (u.pc = "tell" => Apply(t) \/ ApplyError(t))
                 /\ (FirewallDeleted(t) => u.pc = "server") /\ (WaitOver(t) \/ u.outer = t.outer)
    BY <1>21, TaskGoes
  <2>2. QED
    BY <1>21, <2>1 DEF ApplyError, Single, Rows
<1>22. ASSUME NEW t \in tasks, UpdateNoDriver(t) PROVE Single'
  BY <1>22 DEF UpdateNoDriver, Ends, Single, Rows
<1>23. ASSUME NEW t \in tasks, SetFirewallStatus(t) PROVE Single'
  <2>1. Unwind(t)
    BY <1>23 DEF SetFirewallStatus
  <2>2. QED
    BY <1>23, <2>1, TaskUnwinds DEF SetFirewallStatus, Single, Rows
<1>24. ASSUME NEW t \in tasks, FirewallDeleted(t) PROVE Single'
  <2>1. PICK u : /\ tasks' = (tasks \ {t}) \cup {u}
                 /\ u.fw = t.fw /\ u.kind = t.kind /\ u.rules = t.rules
                 /\ u.pc # "new" /\ (u.pc = "tell" => Apply(t) \/ ApplyError(t))
                 /\ (FirewallDeleted(t) => u.pc = "server") /\ (WaitOver(t) \/ u.outer = t.outer)
    BY <1>24, TaskGoes
  <2>2. QED
    BY <1>24, <2>1 DEF FirewallDeleted, Single, Rows
<1>25. ASSUME NEW t \in tasks, DeleteServer(t) PROVE Single'
  BY <1>25 DEF DeleteServer, Ends, Single, Rows
<1>26. ASSUME NEW t \in tasks, CallbackRaises(t) PROVE Single'
  <2>1. Unwind(t)
    BY <1>26 DEF CallbackRaises
  <2>2. QED
    BY <1>26, <2>1, TaskUnwinds DEF CallbackRaises, Single, Rows
<1>27. ASSUME NEW t \in tasks, TaskRaises(t) PROVE Single'
  <2>1. Unwind(t)
    BY <1>27 DEF TaskRaises
  <2>2. QED
    BY <1>27, <2>1, TaskUnwinds DEF TaskRaises, Single, Rows
<1>28. CASE AgentRestart
  BY <1>28 DEF AgentRestart, Single, Rows
<1>29. CASE UNCHANGED vars
  BY <1>29 DEF vars, Single, Rows
<1>30. ASSUME NEW f \in Fw, CreateNext(f) \/ ServerBuilt(f) PROVE Single'
  BY <1>1, <1>2, <1>3, <1>4, <1>5, <1>6, <1>30 DEF CreateNext
<1>31. ASSUME NEW r \in Call, BeginNext(r) PROVE Single'
  BY <1>7, <1>8, <1>9, <1>31 DEF BeginNext
<1>32. ASSUME NEW c \in calls, CallNext(c) PROVE Single'
  BY <1>10, <1>11, <1>12, <1>13, <1>14, <1>15, <1>32 DEF CallNext
<1>33. ASSUME NEW t \in tasks, TaskNext(t) PROVE Single'
  BY <1>16, <1>17, <1>18, <1>19, <1>20, <1>21, <1>22, <1>23, <1>24, <1>25, <1>26, <1>27, <1>33, NoRulesRaises DEF TaskNext
<1>34. QED
  BY <1>28, <1>29, <1>30, <1>31, <1>32, <1>33 DEF Next

\* Every step keeps QuietInv: a call that begins finds all idle, or overlaps.
LEMMA QuietStep == TypeOK /\ WorkInv /\ QuietInv /\ [Next]_vars => QuietInv'
<1> SUFFICES ASSUME TypeOK, WorkInv, QuietInv, [Next]_vars, ~overlapped'
             PROVE  (Alone /\ Undisturbed /\ Current /\ Single)'
  BY DEF QuietInv
<1>1. ~overlapped
  <2> USE DEF TypeOK, Begin
  <2>1. ASSUME NEW f \in Fw, CreateNext(f) \/ ServerBuilt(f) PROVE ~overlapped
    BY <2>1 DEF CreateNext, CountFirewalls, LaunchFwVm, InsertFirewall, CastCreate,
                CreateRaises, ServerBuilt
  <2>2. ASSUME NEW r \in Call, BeginNext(r) PROVE ~overlapped
    BY <2>2 DEF BeginNext, UpdateFirewall, UpdatePolicy, DeleteFirewall
  <2>3. ASSUME NEW c \in calls, CallNext(c) PROVE ~overlapped
    BY <2>3 DEF CallNext, Ensure, WriteStatus, ChangeRules, Return, CastFirewall, CallRaises
  <2>4. ASSUME NEW t \in tasks, TaskNext(t) PROVE ~overlapped
    BY <2>4 DEF TaskNext, GetServer, WaitOver, WaitMore, LoadDriver, Apply, ApplyError,
                UpdateNoDriver, SetFirewallStatus, FirewallDeleted, DeleteServer,
                CallbackRaises, TaskRaises, NoRules
  <2>5. CASE AgentRestart
    BY <2>5 DEF AgentRestart
  <2>6. CASE UNCHANGED vars
    BY <2>6 DEF vars
  <2>7. QED
    BY <2>1, <2>2, <2>3, <2>4, <2>5, <2>6 DEF Next
<1>2. Alone /\ Undisturbed /\ Current /\ Single
  BY <1>1 DEF QuietInv
<1>3. QED
  BY <1>1, <1>2, AloneStep, UndisturbedStep, CurrentStep, SingleStep

-----------------------------------------------------------------------------
(* The theorems *)

IInv ==
  /\ TypeOK /\ WorkInv /\ DeleteInv /\ RowHasServer /\ PendingOwned /\ NoServerLeak
  /\ QuietInv

\* IInv is an inductive invariant.
LEMMA Invariance == Spec => []IInv
<1>1. Init => IInv
  <2> SUFFICES ASSUME Init PROVE IInv
    OBVIOUS
  <2>1. TypeOK
    BY TypeInit
  <2>2. WorkInv /\ DeleteInv /\ RowHasServer /\ PendingOwned /\ NoServerLeak
    BY DEF Init, WorkInv, DeleteInv, RowHasServer, PendingOwned, NoServerLeak
  <2>3. Alone /\ Undisturbed
    BY DEF Init, Alone, Creating, Undisturbed
  <2>4. Current /\ Single
    BY DEF Init, Current, Single, Rows
  <2>5. QED
    BY <2>1, <2>2, <2>3, <2>4 DEF IInv, QuietInv
<1>2. IInv /\ [Next]_vars => IInv'
  BY TypeStep, WorkStep, DeleteStep, OwnedStep, LeakStep, QuietStep DEF IInv
<1>3. QED
  BY <1>1, <1>2, PTL DEF Spec

\* A pending firewall always has somebody who is still to end that, unless a
\* call or a task on it raised or was lost.
THEOREM PendingHasOwner == Spec => []PendingOwned
BY Invariance, PTL DEF IInv

\* A firewall's server never leaks, unless a call or a task on it raised or
\* was lost.
THEOREM ServersAccountedFor == Spec => []NoServerLeak
BY Invariance, PTL DEF IInv

\* A row outlives its server only if its PENDING_DELETE was overwritten.
THEOREM RowOutlivesServer == Spec => []RowHasServer
BY Invariance, PTL DEF IInv

\* A deletion is never undone as long as calls do not overlap.
THEOREM DeletionsKept == Spec => []DeletionKept
<1>1. IInv => DeletionKept
  BY DEF IInv, QuietInv, Undisturbed, DeletionKept
<1>2. QED
  BY <1>1, Invariance, PTL

\* Once all is over, and nothing raised, an ACTIVE firewall enforces the rules
\* its policy has in the database, as long as calls do not overlap.
THEOREM RulesKept == Spec => []RulesCurrent
<1>1. IInv => RulesCurrent
  BY DEF IInv, QuietInv, Current, RulesCurrent, Idle
<1>2. QED
  BY <1>1, Invariance, PTL

\* The tenant gets a second firewall only when calls overlap: it takes two
\* creations that count before either inserts.
THEOREM SecondByOverlap == Spec => [](~overlapped => OneFirewall)
<1>1. IInv => (~overlapped => OneFirewall)
  BY DEF IInv, QuietInv, Single, OneFirewall
<1>2. QED
  BY <1>1, Invariance, PTL
==============================================================================
