------------------------------- MODULE Firewall -------------------------------
(***************************************************************************)
(* The life of the firewalls of ONE tenant: the neutron FWaaS plugin, its  *)
(* database, the netconf agent and nova.                                   *)
(*                                                                         *)
(* The plugin serves API calls concurrently.  A call changes rows of the   *)
(* database, one transaction at a time, and casts to the agent.  The agent *)
(* runs one task for each cast; a task works on the firewall's server and  *)
(* calls the plugin back with a status.  Nothing orders the tasks.  A step *)
(* is a transaction, or what a task does up to its next HTTP, RPC or       *)
(* netconf call.                                                           *)
(*                                                                         *)
(* Of the rules of a policy only the first matters to the agent: it returns *)
(* out of its loop over them.  A rule is the optional fields that it sets,  *)
(* and the driver replaces on the VM what is set, one netconf command each; *)
(* the commands of a task are one step, since nothing is said of the VM     *)
(* when tasks overlap.                                                      *)
(***************************************************************************)
EXTENDS Naturals, FiniteSets

CONSTANTS
  Fw,             \* the firewalls create_firewall is called for
  NoFw,           \* no firewall
  Policy,         \* the firewall policies
  Field,          \* the fields a rule may leave open: protocol, addresses
  Value,          \* their values
  NoValue,        \* the rule leaves the field open
  Call,           \* bound: the calls that update or delete something
  MaxRestarts     \* bound: restarts of the agent

ASSUME FwAssumption == NoFw \notin Fw
ASSUME ValueAssumption == NoValue \notin Value
ASSUME RestartAssumption == MaxRestarts \in Nat

VARIABLES
  \* the database
  row,         \* Firewall.status, "none" when there is no such row
  policyOf,    \* Firewall.firewall_policy_id, from the call that creates it
  rules,       \* the first rule of each policy, {} without rules
  \* the plugin
  making,      \* where create_firewall is, for each firewall
  calls,       \* the other API calls in progress
  fresh,       \* those not made yet
  \* the agent
  tasks,       \* its tasks, those of the casts in transit included
  driver,      \* the keys of fwaas_driver
  restarts,    \* times it was restarted
  \* nova and the firewall VMs
  server,      \* what nova says of the server
  applied,     \* rule 1 of the firewall fw1 on the VM
  attached,    \* the VMs whose interface eth0 has fw1 as its firewall
  \* history
  dropped,     \* firewalls for which a call or task raised or was lost
  revived,     \* firewalls whose PENDING_DELETE was overwritten
  overlapped   \* whether a call began while another call or task was there

dbVars   == <<row, policyOf, rules>>
apiVars  == <<making, calls, fresh>>
agVars   == <<tasks, driver, restarts>>
vmVars   == <<server, applied, attached>>
histVars == <<dropped, revived, overlapped>>
vars == <<dbVars, apiVars, agVars, vmVars, histVars>>

-----------------------------------------------------------------------------
Pending == {"PENDING_CREATE", "PENDING_UPDATE", "PENDING_DELETE"}
Status  == Pending \cup {"ACTIVE", "ERROR"}
Kind    == {"firewall", "policy", "delete"}

Rule == [Field -> Value \cup {NoValue}]
Firsts == {{}} \cup {{r} : r \in Rule}

\* The rules a firewall is to enforce: _make_firewall_dict_with_rules.
Snapshot(f) == rules[policyOf[f]]

APICall == [id : Call, kind : Kind, pc : {"ensure", "write", "cast"},
            policy : Policy, todo : SUBSET Fw, fw : Fw \cup {NoFw}]

\* A task of the agent.  say: the status it is about to tell the plugin;
\* outer: what wait_for_service_vm will tell after the nested create ends.
Task == [by : Fw \cup Call, kind : {"create", "update", "delete"}, fw : Fw,
         rules : Firsts,
         pc : {"new", "wait", "waitmore", "driver", "apply", "tell", "server"},
         say : {"ACTIVE", "ERROR"}, outer : {"none", "ACTIVE", "ERROR"}]

NewTask(id, kind, f, pc) ==
  [by |-> id, kind |-> kind, fw |-> f, rules |-> Snapshot(f), pc |-> pc,
   say |-> "ACTIVE", outer |-> "none"]

Rows == {f \in Fw : row[f] # "none"}
Bound(p) == {f \in Rows : policyOf[f] = p}

\* Somebody is at work for a firewall, in the plugin or in the agent.
Creating(f) == making[f] \in {"counted", "launched", "inserted"}
Idle == calls = {} /\ tasks = {} /\ \A f \in Fw : ~Creating(f)
Begin == overlapped' = (overlapped \/ ~Idle)

Init ==
  /\ row = [f \in Fw |-> "none"]
  /\ policyOf \in [Fw -> Policy]
  /\ rules \in [Policy -> Firsts]
  /\ making = [f \in Fw |-> "no"]
  /\ calls = {}
  /\ fresh = Call
  /\ tasks = {}
  /\ driver = {}
  /\ restarts = 0
  /\ server = [f \in Fw |-> "none"]
  /\ applied = [f \in Fw |-> [x \in Field |-> NoValue]]
  /\ attached = {}
  /\ dropped = {}
  /\ revived = {}
  /\ overlapped = FALSE

-----------------------------------------------------------------------------
(* create_firewall of the plugin *)

\* The count of the tenant's firewalls is zero.
CountFirewalls(f) ==
  /\ making[f] = "no"
  /\ Rows = {}
  /\ making' = [making EXCEPT ![f] = "counted"]
  /\ Begin
  /\ UNCHANGED <<dbVars, calls, fresh, agVars, vmVars, dropped, revived>>

\* Nova accepts the server; its id becomes the firewall's.  The networks are
\* those of the first rule: without one the call raises (CreateRaises).
LaunchFwVm(f) ==
  /\ making[f] = "counted" /\ Snapshot(f) # {}
  /\ making' = [making EXCEPT ![f] = "launched"]
  /\ server' = [server EXCEPT ![f] = "build"]
  /\ UNCHANGED <<dbVars, calls, fresh, agVars, applied, attached, histVars>>

InsertFirewall(f) ==
  /\ making[f] = "launched"
  /\ making' = [making EXCEPT ![f] = "inserted"]
  /\ row' = [row EXCEPT ![f] = "PENDING_CREATE"]
  /\ UNCHANGED <<policyOf, rules, calls, fresh, agVars, vmVars, histVars>>

CastCreate(f) ==
  /\ making[f] = "inserted"
  /\ row[f] # "none"
  /\ making' = [making EXCEPT ![f] = "done"]
  /\ tasks' = tasks \cup {NewTask(f, "create", f, "new")}
  /\ UNCHANGED <<dbVars, calls, fresh, driver, restarts, vmVars, histVars>>

\* A nova, database or AMQP call raises, or the row is gone before the cast.
CreateRaises(f) ==
  /\ Creating(f)
  /\ making' = [making EXCEPT ![f] = "done"]
  /\ dropped' = dropped \cup {f}
  /\ UNCHANGED <<dbVars, calls, fresh, agVars, vmVars, revived, overlapped>>

-----------------------------------------------------------------------------
(* The other API calls of the plugin *)

NewCall(r, kind, pc, p, todo) ==
  [id |-> r, kind |-> kind, pc |-> pc, policy |-> p, todo |-> todo, fw |-> NoFw]

\* Mutant: _ensure_update_firewall forgets PENDING_DELETE.
UpdateDeleting(r, f, p) ==
  /\ r \in fresh
  /\ row[f] \in {"ACTIVE", "ERROR", "PENDING_DELETE"}
  /\ fresh' = fresh \ {r}
  /\ calls' = calls \cup {NewCall(r, "firewall", "write", p, {f})}
  /\ Begin
  /\ UNCHANGED <<dbVars, making, agVars, vmVars, dropped, revived>>

\* update_firewall(f), to policy p: _ensure_update_firewall lets it pass.
UpdateFirewall(r, f, p) ==
  /\ r \in fresh
  /\ row[f] \in Status \ Pending
  /\ fresh' = fresh \ {r}
  /\ calls' = calls \cup {NewCall(r, "firewall", "write", p, {f})}
  /\ Begin
  /\ UNCHANGED <<dbVars, making, agVars, vmVars, dropped, revived>>

\* A call that changes the rules of policy p: update_firewall_policy,
\* update_firewall_rule, insert_rule or remove_rule.
UpdatePolicy(r, p) ==
  /\ r \in fresh
  /\ fresh' = fresh \ {r}
  /\ calls' = calls \cup {NewCall(r, "policy", "ensure", p, Bound(p))}
  /\ Begin
  /\ UNCHANGED <<dbVars, making, agVars, vmVars, dropped, revived>>

\* delete_firewall(f): no status is refused.
DeleteFirewall(r, f) ==
  /\ r \in fresh
  /\ row[f] # "none"
  /\ fresh' = fresh \ {r}
  /\ calls' = calls \cup {NewCall(r, "delete", "write", policyOf[f], {f})}
  /\ Begin
  /\ UNCHANGED <<dbVars, making, agVars, vmVars, dropped, revived>>

\* _ensure_update_firewall on one firewall of the policy.
Ensure(c, f) ==
  /\ c.pc = "ensure" /\ f \in c.todo
  /\ calls' = IF row[f] \in Status \ Pending
                THEN (calls \ {c}) \cup {[c EXCEPT !.todo = @ \ {f}]}
                ELSE calls \ {c}
  /\ UNCHANGED <<dbVars, making, fresh, agVars, vmVars, histVars>>

\* Mutant: the firewalls of the policy are not told.
ChangeRulesUntold(c) ==
  /\ c.pc = "ensure" /\ c.todo = {}
  /\ \E first \in Firsts : rules' = [rules EXCEPT ![c.policy] = first]
  /\ calls' = calls \ {c}
  /\ UNCHANGED <<row, policyOf, making, fresh, agVars, vmVars, histVars>>

\* The rules are changed in the database, and the policy's firewalls are read.
ChangeRules(c) ==
  /\ c.pc = "ensure" /\ c.todo = {}
  /\ \E first \in Firsts : rules' = [rules EXCEPT ![c.policy] = first]
  /\ calls' = (calls \ {c}) \cup {[c EXCEPT !.pc = "write", !.todo = Bound(c.policy)]}
  /\ UNCHANGED <<row, policyOf, making, fresh, agVars, vmVars, histVars>>

\* The call has dealt with every firewall.
Return(c) ==
  /\ c.pc = "write" /\ c.todo = {}
  /\ calls' = calls \ {c}
  /\ UNCHANGED <<dbVars, making, fresh, agVars, vmVars, histVars>>

\* The status is written, whatever it was, with the policy of update_firewall.
WriteStatus(c, f) ==
  /\ c.pc = "write" /\ f \in c.todo
  /\ row[f] # "none"
  /\ row' = [row EXCEPT ![f] = IF c.kind = "delete" THEN "PENDING_DELETE"
                                                    ELSE "PENDING_UPDATE"]
  /\ policyOf' = IF c.kind = "firewall" THEN [policyOf EXCEPT ![f] = c.policy]
                                        ELSE policyOf
  /\ revived' = IF row[f] = "PENDING_DELETE" /\ c.kind # "delete"
                  THEN revived \cup {f} ELSE revived
  /\ calls' = (calls \ {c}) \cup {[c EXCEPT !.pc = "cast", !.todo = @ \ {f}, !.fw = f]}
  /\ UNCHANGED <<rules, making, fresh, agVars, vmVars, dropped, overlapped>>

\* The firewall is read with its rules and cast to the agent.
CastFirewall(c) ==
  /\ c.pc = "cast"
  /\ row[c.fw] # "none"
  /\ tasks' = tasks \cup {IF c.kind = "delete"
                            THEN NewTask(c.id, "delete", c.fw, "new")
                            ELSE NewTask(c.id, "update", c.fw, "apply")}
  /\ calls' = (calls \ {c}) \cup {[c EXCEPT !.pc = "write", !.fw = NoFw]}
  /\ UNCHANGED <<dbVars, making, fresh, driver, restarts, vmVars, histVars>>

\* A firewall is gone, or a database or AMQP call raises: the call ends, and
\* whatever it had still to tell the agent is never told.
CallRaises(c) ==
  /\ c.pc \in {"write", "cast"}
  /\ calls' = calls \ {c}
  /\ dropped' = dropped \cup ((c.todo \cup {c.fw}) \ {NoFw})
  /\ UNCHANGED <<dbVars, making, fresh, agVars, vmVars, revived, overlapped>>

-----------------------------------------------------------------------------
(* The tasks of the agent: _invoke_driver_for_plugin_api *)

Goes(t, u) == tasks' = (tasks \ {t}) \cup {u}
Ends(t) == tasks' = tasks \ {t}

\* A task ends, done or with an exception that is logged and swallowed.  When
\* it was a nested create, the outer call goes on and tells a status of its own.
Unwind(t) ==
  IF t.outer = "none" THEN Ends(t)
  ELSE Goes(t, [t EXCEPT !.pc = "tell", !.say = t.outer, !.outer = "none"])

\* create_firewall asks nova for the server.
GetServer(t) ==
  /\ t.kind = "create" /\ t.pc = "new"
  /\ server[t.fw] \in {"build", "error", "active"}
  /\ Goes(t, [t EXCEPT !.pc = IF server[t.fw] = "active" THEN "driver" ELSE "wait"])
  /\ UNCHANGED <<dbVars, apiVars, driver, restarts, vmVars, histVars>>

\* Mutant: a deeper wait gives up silently.
WaitOverOnce(t) ==
  /\ t.pc = "wait"
  /\ server[t.fw] = "active"
  /\ Goes(t, [t EXCEPT !.pc = "driver", !.outer = "ACTIVE"])
  /\ UNCHANGED <<dbVars, apiVars, driver, restarts, vmVars, histVars>>

\* wait_for_service_vm: the server is up, and the create is invoked again.
\* Only the first wait returns a status; a deeper one loses it, and the plugin
\* is told None, which it takes for an error.
WaitOver(t) ==
  /\ t.pc \in {"wait", "waitmore"}
  /\ server[t.fw] = "active"
  /\ Goes(t, [t EXCEPT !.pc = "driver",
                       !.outer = IF t.pc = "wait" THEN "ACTIVE" ELSE "ERROR"])
  /\ UNCHANGED <<dbVars, apiVars, driver, restarts, vmVars, histVars>>

\* wait_for_service_vm: the server is not up, and it calls itself.
WaitMore(t) ==
  /\ t.pc = "wait"
  /\ server[t.fw] \in {"build", "error"}
  /\ Goes(t, [t EXCEPT !.pc = "waitmore"])
  /\ UNCHANGED <<dbVars, apiVars, driver, restarts, vmVars, histVars>>

\* The driver is made for the addresses of the first rule.
LoadDriver(t) ==
  /\ t.pc = "driver" /\ t.rules # {}
  /\ driver' = driver \cup {t.fw}
  /\ Goes(t, [t EXCEPT !.pc = "apply"])
  /\ UNCHANGED <<dbVars, apiVars, restarts, vmVars, histVars>>

\* Without a first rule create_firewall raises.
NoRules(t) ==
  /\ t.pc = "driver" /\ t.rules = {}
  /\ Unwind(t)
  /\ dropped' = dropped \cup {t.fw}
  /\ UNCHANGED <<dbVars, apiVars, driver, restarts, vmVars, revived, overlapped>>

\* The driver replaces the fields that the rule sets, and clears none.
Replace(old, r) == [x \in Field |-> IF r[x] = NoValue THEN old[x] ELSE r[x]]

\* apply_fw_policies and associate_fw_to_interface, with the first rule of the
\* cast.  Without one rule 1 stays as it is, and the interface is given a firewall
\* named None, which the VM may refuse.  The driver retries every command until
\* the VM answers.
Apply(t) ==
  /\ t.pc = "apply"
  /\ t.fw \in driver
  /\ server[t.fw] = "active"
  /\ \/ \E r \in t.rules :
          /\ applied' = [applied EXCEPT ![t.fw] = Replace(@, r)]
          /\ attached' = attached \cup {t.fw}
     \/ /\ t.rules = {}
        /\ attached' \in {attached, attached \ {t.fw}}
        /\ UNCHANGED applied
  /\ Goes(t, [t EXCEPT !.pc = "tell"])
  /\ UNCHANGED <<dbVars, apiVars, driver, restarts, server, histVars>>

\* create_firewall: the driver raises FirewallInternalDriverError.
ApplyError(t) ==
  /\ t.kind = "create" /\ t.pc = "apply"
  /\ Goes(t, [t EXCEPT !.pc = "tell", !.say = "ERROR"])
  /\ dropped' = dropped \cup {t.fw}
  /\ UNCHANGED <<dbVars, apiVars, driver, restarts, vmVars, revived, overlapped>>

\* update_firewall: the agent has no driver for the firewall.
UpdateNoDriver(t) ==
  /\ t.kind = "update" /\ t.pc = "apply"
  /\ t.fw \notin driver
  /\ Ends(t)
  /\ dropped' = dropped \cup {t.fw}
  /\ UNCHANGED <<dbVars, apiVars, driver, restarts, vmVars, revived, overlapped>>

\* Mutant: the plugin takes a status only for a firewall being created.
SetStatusOnce(t) ==
  /\ t.pc = "tell"
  /\ row[t.fw] # "none"
  /\ row' = [row EXCEPT ![t.fw] = IF @ = "PENDING_CREATE" THEN t.say ELSE @]
  /\ Unwind(t)
  /\ UNCHANGED <<policyOf, rules, apiVars, driver, restarts, vmVars, histVars>>

\* set_firewall_status of the plugin: the last call of a task, or of a nested
\* create.
SetFirewallStatus(t) ==
  /\ t.pc = "tell"
  /\ row[t.fw] # "none"
  /\ row' = [row EXCEPT ![t.fw] = t.say]
  /\ revived' = IF row[t.fw] = "PENDING_DELETE" THEN revived \cup {t.fw} ELSE revived
  /\ Unwind(t)
  /\ UNCHANGED <<policyOf, rules, apiVars, driver, restarts, vmVars, dropped,
                 overlapped>>

\* Mutants: the agent is done when the plugin knows; the test is inverted.
DeletedReturns(t) ==
  /\ t.kind = "delete" /\ t.pc = "new"
  /\ row[t.fw] # "none"
  /\ row' = [row EXCEPT ![t.fw] = IF @ = "PENDING_DELETE" THEN "none" ELSE "ERROR"]
  /\ Ends(t)
  /\ UNCHANGED <<policyOf, rules, apiVars, driver, restarts, vmVars, histVars>>
DeletedInverted(t) ==
  /\ t.kind = "delete" /\ t.pc = "new"
  /\ row[t.fw] # "none"
  /\ row' = [row EXCEPT ![t.fw] = IF @ = "PENDING_DELETE" THEN "ERROR" ELSE "none"]
  /\ Goes(t, [t EXCEPT !.pc = "server"])
  /\ UNCHANGED <<policyOf, rules, apiVars, driver, restarts, vmVars, histVars>>

\* firewall_deleted of the plugin: the row goes if a deletion is pending.
FirewallDeleted(t) ==
  /\ t.kind = "delete" /\ t.pc = "new"
  /\ row[t.fw] # "none"
  /\ row' = [row EXCEPT ![t.fw] = IF @ = "PENDING_DELETE" THEN "none" ELSE "ERROR"]
  /\ Goes(t, [t EXCEPT !.pc = "server"])
  /\ UNCHANGED <<policyOf, rules, apiVars, driver, restarts, vmVars, histVars>>

DeleteServer(t) ==
  /\ t.kind = "delete" /\ t.pc = "server"
  /\ server' = [server EXCEPT ![t.fw] = "gone"]
  /\ Ends(t)
  /\ UNCHANGED <<dbVars, apiVars, driver, restarts, applied, attached, histVars>>

\* The callback finds no row: FirewallNotFound is raised to the agent.
CallbackRaises(t) ==
  /\ t.pc = "tell" \/ (t.kind = "delete" /\ t.pc = "new")
  /\ row[t.fw] = "none"
  /\ Unwind(t)
  /\ UNCHANGED <<dbVars, apiVars, driver, restarts, vmVars, histVars>>

\* A nova, RPC or netconf call raises, or anything else in the task does.
TaskRaises(t) ==
  /\ Unwind(t)
  /\ dropped' = dropped \cup {t.fw}
  /\ UNCHANGED <<dbVars, apiVars, driver, restarts, vmVars, revived, overlapped>>

\* The agent restarts: its tasks, the casts in transit and its drivers are lost.
AgentRestart ==
  /\ restarts < MaxRestarts
  /\ restarts' = restarts + 1
  /\ tasks' = {}
  /\ driver' = {}
  /\ dropped' = dropped \cup {t.fw : t \in tasks}
  /\ UNCHANGED <<dbVars, apiVars, vmVars, revived, overlapped>>

-----------------------------------------------------------------------------
(* Nova *)

ServerBuilt(f) ==
  /\ server[f] = "build"
  /\ \E s \in {"active", "error"} : server' = [server EXCEPT ![f] = s]
  /\ UNCHANGED <<dbVars, apiVars, agVars, applied, attached, histVars>>

-----------------------------------------------------------------------------
CreateNext(f) == \/ CountFirewalls(f) \/ LaunchFwVm(f) \/ InsertFirewall(f)
                 \/ CastCreate(f) \/ CreateRaises(f)

BeginNext(r) == \/ \E f \in Fw, p \in Policy : UpdateFirewall(r, f, p)
                \/ \E p \in Policy : UpdatePolicy(r, p)
                \/ \E f \in Fw : DeleteFirewall(r, f)

CallNext(c) == \/ \E f \in Fw : Ensure(c, f) \/ WriteStatus(c, f)
               \/ ChangeRules(c) \/ Return(c) \/ CastFirewall(c) \/ CallRaises(c)

TaskNext(t) == \/ GetServer(t) \/ WaitOver(t) \/ WaitMore(t) \/ LoadDriver(t) \/ NoRules(t)
               \/ Apply(t) \/ ApplyError(t) \/ UpdateNoDriver(t)
               \/ SetFirewallStatus(t) \/ FirewallDeleted(t) \/ DeleteServer(t)
               \/ CallbackRaises(t) \/ TaskRaises(t)

Next ==
  \/ \E f \in Fw : CreateNext(f) \/ ServerBuilt(f)
  \/ \E r \in Call : BeginNext(r)
  \/ \E c \in calls : CallNext(c)
  \/ \E t \in tasks : TaskNext(t)
  \/ AgentRestart

Spec == Init /\ [][Next]_vars

-----------------------------------------------------------------------------
TypeOK ==
  /\ row \in [Fw -> Status \cup {"none"}]
  /\ policyOf \in [Fw -> Policy]
  /\ rules \in [Policy -> Firsts]
  /\ making \in [Fw -> {"no", "counted", "launched", "inserted", "done"}]
  /\ calls \subseteq APICall
  /\ \A c \in calls : c.pc = "cast" => c.fw \in Fw
  /\ fresh \subseteq Call
  /\ tasks \subseteq Task
  /\ driver \subseteq Fw
  /\ restarts \in 0..MaxRestarts
  /\ server \in [Fw -> {"none", "build", "active", "error", "gone"}]
  /\ applied \in [Fw -> Rule]
  /\ attached \subseteq Fw
  /\ dropped \subseteq Fw
  /\ revived \subseteq Fw
  /\ overlapped \in BOOLEAN

-----------------------------------------------------------------------------
(* Properties *)

\* Every pending status has somebody who is still to end it: the API call
\* about to cast, or the cast's task in the agent.  A pending firewall refuses
\* every update, so one without an owner would be stuck; only a call or a task
\* that raised, or a restart of the agent, strands it.
CreateOwned(f) == making[f] = "inserted" \/ \E t \in tasks : t.kind = "create" /\ t.fw = f
UpdateOwned(f) == \/ \E c \in calls : c.kind # "delete" /\ c.pc = "cast" /\ c.fw = f
                  \/ \E t \in tasks : t.kind = "update" /\ t.fw = f
DeleteOwned(f) == \/ \E c \in calls : c.kind = "delete" /\ c.pc = "cast" /\ c.fw = f
                  \/ \E t \in tasks : t.kind = "delete" /\ t.pc = "new" /\ t.fw = f
PendingOwned ==
  \A f \in Fw \ dropped :
    /\ row[f] = "PENDING_CREATE" => CreateOwned(f)
    /\ row[f] = "PENDING_UPDATE" => UpdateOwned(f)
    /\ row[f] = "PENDING_DELETE" => DeleteOwned(f)

\* No server leaks: one that exists has a row, is about to get one, or is about
\* to be deleted by the task that made the row go.  The row goes before the
\* server does (firewall_deleted, then delete_server).
NoServerLeak ==
  \A f \in Fw \ dropped :
    server[f] \in {"build", "active", "error"} =>
      \/ row[f] # "none"
      \/ making[f] = "launched"
      \/ \E t \in tasks : t.pc = "server" /\ t.fw = f

\* A row outlives its server only if its PENDING_DELETE was overwritten, by a
\* late status of the agent or by an update that passed its check before.
RowHasServer ==
  \A f \in Fw : row[f] # "none" /\ server[f] = "gone" => f \in revived

\* A deletion is never undone as long as every call waits until the calls and
\* tasks before it are over: nothing they left behind overwrites the status.
DeletionKept == ~overlapped => revived = {}

\* The VM has what the first rule sets, at the interface.  The fields the rule
\* leaves open are those of earlier rules, and an emptied policy takes nothing
\* away: the agent can only replace.
Enforces(f, first) ==
  \A r \in first : f \in attached /\ \A x \in Field : r[x] # NoValue => applied[f][x] = r[x]

\* Used that way, an ACTIVE firewall at rest enforces what the first rule of its
\* policy sets in the database, through any sequence of rules and policies, emptied
\* ones included, unless something raised on the way.
RulesCurrent ==
  ~overlapped /\ Idle =>
    \A f \in Fw \ dropped : row[f] = "ACTIVE" => Enforces(f, Snapshot(f))

\* FirewallCountExceeded: "Only one firewall is supported per tenant".
OneFirewall == \A f, g \in Rows : f = g

-----------------------------------------------------------------------------
(* Liveness.  Greenthreads of the plugin and of the agent are scheduled until *)
(* they end, and nova makes something of every server.  No raise is forced.   *)

TaskGoesOn(t) ==
  \/ GetServer(t) \/ WaitOver(t) \/ WaitMore(t) \/ LoadDriver(t) \/ NoRules(t) \/ Apply(t)
  \/ UpdateNoDriver(t) \/ SetFirewallStatus(t) \/ FirewallDeleted(t)
  \/ DeleteServer(t) \/ CallbackRaises(t)

Fairness ==
  /\ \A f \in Fw : WF_vars(ServerBuilt(f))
  /\ \A f \in Fw : WF_vars(CastCreate(f))
  /\ \A r \in Call : WF_vars(\E c \in calls : c.id = r /\ CallNext(c))
  /\ \A i \in Fw \cup Call, f \in Fw :
       WF_vars(\E t \in tasks : t.by = i /\ t.fw = f /\ TaskGoesOn(t))

FairSpec == Spec /\ Fairness

\* No firewall stays pending for ever, unless something raised, or its server
\* is in error or was deleted: the agent then asks nova, or sends netconf
\* commands, without end.
PendingEnds ==
  \A f \in Fw :
    row[f] \in Pending ~> \/ row[f] \notin Pending
                          \/ f \in dropped
                          \/ server[f] \in {"error", "gone"}
===============================================================================
