# A TLA+ development of the network-service orchestrator

The repository holds an orchestrator of virtual network functions written for
OpenStack Kilo, a firewall-as-a-service integration for neutron, a test
automation server, and the netconf server (OpenYuma, in C) that the firewall VM
runs. This directory models the Python code, and of the C code what decides
which configuration a device has: the datastores with the confirmed commit, the
transaction behind a commit, and the notifications. The libraries of the netconf
server, its client, the copies of OpenStack common code, and the backup copies of
source files are left out (section 7).

Below, `OpenYuma` stands for
`src/firewall/fwaas_integration_ with_heat/opt/stack/neutron/bin/workspace1/OpenYuma-master/netconf/src`.

## 1. Inventory

| Component | Where | State | Operations |
|---|---|---|---|
| vnfsvc plugin | `src/vnfsvc/plugin.py` | `ns_dict` (per service), plugin-wide attributes (`nsd_id`, `template_id`, `independent_vdus`, `configured_instances`), rows of the database | create_service, update_service, delete_service, create_template, delete_template, create_scale, get_*; a greenthread per deployment, per deletion and per scaling |
| vnfsvc RPC callbacks | same file, `VNFManagerCallbacks` | the lists `acknowledge_list`, `configured`, `errored` of `ns_dict` | send_ack |
| vnfsvc database | `src/vnfsvc/db/vnf/vnf_db.py` | NetworkService, VNFD, Template, ... rows, the module dict `service_db_dict` | status updates, model creation and deletion |
| VNF manager | `src/vnfmanager-2015.1.0-py2.7.egg/vnfmanager/` | `drv_conf`, `nsd_dict`, the dict of driver threads and its condition variable | configure_vdus, update_vdu_configuration, scale_vdu, update_vdu; one process per service |
| VNF manager drivers | `.../vnfmanager/drivers/` | a device session each | configure and update a device; retry until it answers |
| VNF monitor | `src/vnfsvc/vnfmonitor/service.py` | - | RPC relay |
| Firewall plugin | `.../neutron/services/firewall/fwaas_plugin.py`, `.../db/firewall/firewall_db.py` | firewall rows with a status, policies, ordered rules | CRUD of firewalls, policies and rules; set_firewall_status and firewall_deleted callbacks |
| Firewall agent | `.../agents/fw_netconf/` | the service VM of a tenant, netconf sessions | create, update and delete a firewall |
| Netconf server: datastores | `OpenYuma/agt/agt_ncx.c`, `agt_rpc.c`, `OpenYuma/ncx/cfg.c` | candidate, running, startup file, backup file, global locks, `commit_cb` (the confirmed commit) | edit-config, copy-config, discard-changes, lock, unlock, commit, cancel-commit, the confirm timeout |
| Netconf server: sessions and loop | `agt_ses.c`, `agt_ncxserver.c`, `agt_top.c` | sessions with their queues, the `select` loop | open, close, kill, timeouts |
| Netconf server: transactions | `agt_val.c`, `agt_cfg.c`, `agt_commit_complete.c`, `agt_util.c` | the transaction, its undo records, the markers in the trees | apply, commit, reverse, roll back; SIL callbacks |
| Netconf server: notifications | `agt_not.c` | the event log, the subscriptions with their cursors | create-subscription, queue an event, send a burst, evict, clean |
| Netconf client | `OpenYuma/yangcli/`, `libtecla` | an interactive shell | one request, one answer |
| Heat resource | `.../heat/engine/resources/neutron/securityhigh.py` | the resource's state | create, update, delete a firewall stack resource |
| Symphony | `src/symphony/` | the event queue `comm_queue`, the condition `eventNotification`, `nsInfo`, `serviceInfo` | run a test script: onboard, create and delete services, wait for events |

### How they interact

A user creates a service; the plugin inserts its row with the status PENDING
and spawns a greenthread that boots the VDUs (the virtual machines of the
service) through nova, wave by wave along their dependencies. When the first
wave is up it starts a VNF manager process on the configuration of that wave;
the configuration of later waves goes to the manager by an RPC cast. The
manager runs a driver per instance and casts one ack per instance to the
plugin, which counts them and lists a VDU as configured when the acks reach
the number of its instances. The deployment waits for the acks of a wave, then
launches the next, and writes ACTIVE when as many VDUs are listed as were
launched. Symphony hears of the events of a service by HTTP notifications that
the plugin posts. The firewall plugin casts to the firewall agent, which boots
a service VM, configures it over netconf and calls the plugin back. For that the
driver runs `netconf_wrapper.py`, which drives the client `yangcli` against port 830
of the VM: the client edits the candidate and commits it, the server hands each
edit to the library of its module (the SIL, server instrumentation library), and
this configures the device. After each request, and when nothing is to be read,
the server sends waiting events to the sessions that subscribed.

The plugin, the VNF manager and Symphony all call `eventlet.monkey_patch`: what
the code calls threads are greenthreads, and one of them loses control only at
an API, RPC, database or HTTP call, at a sleep, or where it waits for a lock or
a condition. All modules of these take the code between two such places as one
step. The netconf server is one thread around `select`: a request is handled to
its end before the next is read, so nothing interleaves inside a request; what is
in any order is the messages of its sessions, the timeouts, the answers of SILs
and the failures.

### What is hard, and what makes each component correct

- *Deployment.* Acks arrive in any order, late, duplicated by update requests or
  never. Correct: no VDU is booted before its dependencies are configured or
  booted twice, ACTIVE only when everything is configured, an error is never
  overwritten, the greenthread ends.
- *VNF manager.* Driver greenthreads and the monitor greenthread share a dict and a
  condition variable. Correct: every driver that ends is acked once, for its own
  instance; the monitor never sleeps on a finished thread.
- *Scaling and update.* They reuse the ack counts of the deployment. Correct: a
  scaled VDU is configured only when all its instances are acked; the status of a
  service after a failed request is what it was.
- *Deletion.* It races with the deployment, shares a module-level dict with other
  deletions and kills every manager of the host. Correct: nothing is taken from
  a service nobody asked to delete, nothing of a deleted service is left behind,
  and a deletion raises only for a reason that can be named.
- *Firewall.* A status machine between plugin and agent with casts in both
  directions. Correct: a firewall pending deletion is deleted, and not brought
  back by a late status; one firewall per tenant; the order of rules is a
  permutation 1..n.
- *Symphony.* A queue and a condition variable between HTTP handlers and the test
  script. Correct: a wait for a service ends with an event of that service, no
  completion is slept over, and a cleanup leaves no service behind.
- *Netconf datastores.* A confirmed commit is a trial that lives on in the server:
  its session may close, be killed or lose its connection, another session may
  come with the token, the timeout passes, a commit inside the trial may fail, the
  backup file may be missing, stale or refused. Correct: a trial is either kept and
  saved or undone, never half; what is locked changes by its owner only; a commit
  takes all of the candidate; a trial has somebody to end it, and ends.
- *Netconf transactions.* Each SIL may refuse at each phase, also when it is asked to
  undo, and the undo of one that had committed is another edit. Correct: running
  changes as a whole or not at all, each device follows running unless its own SIL
  refused, every commit is answered.
- *Netconf notifications.* The log is at the same time the replay buffer and the
  queue of all subscriptions; messages are deleted under the cursors, a burst
  may end after any round, never inside one, and a clock of seconds decides who is replayed
  what. Correct: events in order, once, with the two marks in their places; no
  cursor points to a deleted message; what a session misses was evicted; a
  subscription with a stop time ends.


## 2. The modules

| Component | Module | Checked by | Proofs |
|---|---|---|---|
| deployment of one service | `VnfDeploy` | `MC_VnfDeploy` | `VnfDeploy_proofs` |
| the manager's threads | `VnfmThreads`, which implements `DriverAcks` | `MC_VnfmThreads` | `VnfmThreads_proofs` |
| firewall plugin and agent | `Firewall` | `MC_Firewall` | `Firewall_proofs` |
| test scripts and their events | `Symphony` | `MC_Symphony` | `Symphony_proofs` |
| deletion of services | `VnfDelete` | `MC_VnfDelete` | `VnfDelete_proofs` |
| netconf datastores, locks, confirmed commit, sessions | `Netconfd`, which implements `ConfirmedCommit` | `MC_Netconfd` | `Netconfd_proofs` |
| netconf transaction and SILs | `SilTransaction`, which implements `AtomicCommit` | `MC_SilTransaction` | `SilTransaction_proofs` |
| netconf notifications | `Notifications`, which implements `NotificationStream` | `MC_Notifications` | `Notifications_proofs` |

`PROJECT.json` maps every definition to its lines. An operator called
`Mutant: ...` stands before the definition it is a faulty version of: put in its
place, it makes the named property fail, and it is part of no specification.

### VnfDeploy

One service, from the insertion of its row to the end of its greenthread. `pc`
is the place in `deploy_vnfs` and what it calls: `launch` and `boot` are
`_launch_vnfds` and `_boot_vdu` for the VDUs of the current `wave`; `wait` is
`wait_for_acknowledgment`; `resolve` is `_resolve_dependency`. `deployed`,
`confGen`, `configured`, `errored` and `acks` are the lists of `ns_dict` of
similar names (`acks[v]` is the length of `acknowledge_list[v]`). `configured` is
a list in the code that may name a VDU twice, and its *length* ends the loop:
its entries are pairs of a VDU and the ack that appended it. An ack is counted
(`AckComplete`) before the HTTP notification, and its VDU listed after it
(`AckConfirmed`); an error is listed (`AckError`) before the status is written
(`AckErrorStatus`). The manager is here only as far as the deployment sees it:
its start on the configuration file, the casts it gets or misses, a driver per
instance, an ack per driver. `lost` remembers configuration that never reached a
driver: a manager whose file
has only VDUs without a driver acks them in its constructor, before it has a
consumer, so that the next cast is dropped; a driver that cannot be imported ends
the whole call; and the deletion of any other service kills all managers of the
host.

### VnfmThreads and DriverAcks

Inside the manager. A job is one call that configures one instance. `job` is its
place, `info` is the dict `launchd_threads_info`, `lock` and `notified` are the
condition, `monitor` is the place in `monitor_thread_pool`, whose pass over the
dict, deletion of entries and `wait()` are steps of their own where they cast.
Ids are drawn without a comparison with those in use, so a new thread may take
the entry of another (`collided`). `DriverAcks` has no threads: a job is asked,
runs and returns, and is answered at most once with what its driver returned.
`VnfmThreads` implements it as long as ids differ (`UniqueSpec`), by the mapping
of `job` to the phases (`PhaseOf`).

### Firewall

One tenant: `row` is the status in the database, `making` the place in
`create_firewall` (count, launch over nova, insert, cast), `calls` the other API
calls (the check that nothing is pending, the write, the cast), `tasks` the casts
in transit and the handlers of the agent, in any order; `driver` is the agent's
dict of drivers. The create handler waits for its server and, when it comes,
calls the driver once more from inside the wait, which is the `outer` status.
Of the rules of a policy the agent applies the first only (`apply_fw_policies` returns
inside its loop), so `rules` is a policy's first rule, or none; a rule is the set of
optional fields it fills (`Field`, `Value`, `NoValue`). `applied` is rule 1 of the
firewall `fw1` on the VM: the driver replaces the fields that a rule fills and clears
none (`Replace`). Without a rule a creation raises (`LaunchFwVm` is not enabled, and
`NoRules` in the agent), and an update changes no rule but names a firewall `None` at
the interface, which the VM, which is not part of the repository, may take or refuse
(`attached`). A restart of the agent loses its tasks; an API call or a cast may raise anywhere
(`CreateRaises`, `CallRaises`, `CallbackRaises`), which also stands for a restart
of the plugin. `dropped` and `revived` record what raised and whose deletion was
overwritten; `overlapped` whether calls ever overlapped.

### Symphony

The core runs a script: `createService`, `deleteService`, then `cleanup`. `Insert`
of the listener is one step, because nothing in it yields; it blocks while the
core holds the lock (`levels`, an RLock's count). The core pops the newest event
of `queue` at each wake-up and at no other time. The text of an event is reduced
to what `checkServiceStatus` searches for: an error, a completion of a creation
or of a deletion, or something else. The event "Deletion" is of the last kind.
The plugin is reduced to the order of its events (`phase`, `post`); an event that
`_notify_user` drops, or whose POST fails, is in `lost`. `GetSvcObj` ends the wait of
every creation by an exception: after `nsInfo` is written `waitForServiceCreate` reads
`utils.diagnostics_enabled`, which does not exist (`executionCore.py:378`), so that the
lock is never released there. A script thus deletes only in a cleanup. It is taken to
catch no exception. `RawLock` is whether the condition, created before `monkey_patch`
in `common/utils.py`, blocks the whole process instead of one greenthread. `orphans`
counts the exceptions that left a wait.

### VnfDelete

Several services, deployments in progress, and several deletions. `dict` is
`service_db_dict` of `vnf_db.py`, one for the whole process: `delete_service_model`
fills it in two steps (the service, then the instances), and `delete_vnfs` of
*each* deletion looks into it again after each call of nova or neutron. `count`
and `at` are the loop of `delete_vdus`, whose length is fixed when it starts.
Without a row `delete_service_model` returns `None`, but the empty query result
stays in the dict, and a running deletion raises on it. `live` are the servers
of nova, `recorded` those whose id is in a Vdu row, `left` what neutron has:
router interfaces before routers, ports before networks. Nova or neutron may
refuse a call (`Refuse`), which the code swallows except for the query of the
ports. A server is a pair of its VDU and its index. How many a VDU gets is
chosen when it is booted, up to `MaxInstances`: `server_create` creates all of them, one
HTTP call each, before `_boot_vdu` writes the first id to the row, and after several
the deployment waits for them (`poll`) and can only raise there (`instance.name` of a
list, `plugin.py:1178`). `todo` is the `instance_list` of the round of `delete_vdus`, from
which one server is deleted per step; a refusal ends the round. The VDUs of a
deployment are booted in any order here; the order is the subject of `VnfDeploy`.

### Netconfd and ConfirmedCommit

The server between two calls of `select`. `input` says whether the next call finds
something to read; a message is one action, and the timeouts (`CcTimeout`,
`IdleTimeout`) happen only when there is none, as in `agt_ncxserver_run`. `open` are the
sessions, `owner` the `locked_by` of candidate and running, `cc` the fields of
`commit_cb` that decide who may end the trial (`cc_ses_id`, `cc_persist_id`, `cc_active`),
`expired` its timer. A configuration is the content of one top-level container;
`dirty` is the flag of the candidate that a lock looks at, `marks` the flags in its
nodes that a commit looks at: the two differ, because a fill clears both and a
failed commit only the second. `Apply` is the end of a commit with all that may go
wrong in it: the backup cannot be written, a callback refuses, a rollback is
refused, something fails after the edits are final. Its outcomes are those that
`SilTransaction` shows. Loading the backup is a write to running by the session
that caused it, or by nobody (sid 0), and is refused when another session has the
lock and the server was started with `--startup-error=stop` (`stop`). A failed write of
startup after a commit is a late failure. A request that is refused, or only
reads, is `NoEffect`. A restart loads startup.

`ConfirmedCommit` has running, startup, whether a trial is pending and whether no
backup has failed (`Sound`): a trial starts, is kept and saved, or running is the
saved content again. `faults`, `refused` and `forgotten` are history, for the
properties to name their exceptions.

### SilTransaction and AtomicCommit

One commit from `commit_invoke` to the answer, in its phases. A node is the place an
edit is applied to, with the SIL registered there; `undo` is the set of undo records,
`old` and `commit_res` their fields. In `apply` each edit goes to its SIL and then into
the tree; in `commit` each SIL commits; then the edits are final (`Finalize`: markers
and flags go, and the nodes that were moved are gone from the candidate; a `Leaf` that
running had before is `Merged` into the old one and stays there, without a mark), the
commit-complete callbacks run and startup is saved (`Complete`). Any refusal leads to
`rollback`: a SIL that had committed gets the reversed edit, the others `ROLLBACK`,
and the tree gets its old node whatever the SIL says. A refused rollback, or a
failure after `Finalize`, leads to `load`: the backup is a transaction of its own over
the nodes that differ, and may fail like any other. `device` is what the SILs have
committed, `staged` what they have applied; a SIL that refused to undo has `Unknown`,
because the code cannot know more, until an edit of its node is committed. The warning
about a refused `ROLLBACK` passes an integer for its first `%s` (`agt_val.c:2856-2858`),
which is undefined: the server dies of it (`RollbackKills`, phase `dead`, where the
model stops) or goes on (`RollbackRefused`). What a type allows a node to hold is
`Schema`; it is looked at where the client's values come in.

`AtomicCommit` is what the client sees: all or nothing, except after a failure of what
follows the final edits. Then the nodes that moved are lost from the candidate, and
the merged leafs are `forgotten`: they differ from running, but the next commit
looks for marks and passes over them, answers `ok` and fills the candidate from
running. The history variables `goal` and `missed` keep, during a commit, the candidate and the
forgotten nodes it began with.

### Notifications and NotificationStream

A message is its `msgid`, which counts all events since the start; the log is
`oldest..msgid`. A subscription is the record of `agt_not_subscription_t`: state, start
and stop time, the ids of its cursor and of the ends of its replay, and the flags.
A burst is `send_some_notifications`: rounds over all subscriptions (`todo`), each gets
at most one message, until a round sends nothing or, at its end, `maxburst` is reached; then
`CleanEventlog` deletes what all have passed, if the log has size 0. `eventlog_size` above
0 evicts the oldest when an event is queued. Between bursts events are queued,
sessions subscribe and close, and the clock, which counts seconds, goes on.
`inbox` and `owed` are history: what a session was sent, and the first event it is to
get. `NotificationStream` is RFC 5277 as one session sees it.

Not in them: filters, access control of events, lack of memory, and the
modules that raise events (`agt_sys.c`).

### How the netconf modules fit together

`Netconfd` composes the other two by abstraction. Its `Apply` has one disjunct per
outcome that `AtomicCommit` allows (`Taken`, `Kept` and `Late`, and the load of the
backup that may fail), so `AllOrNothing` is what justifies a commit as one step of
`Netconfd`. Its container after a late failure is lost, or still there without a mark
when only leafs in it had changed. A server that dies in a rollback is there a refused
callback and a `Restart`: the backup file is written, running and candidate are only in memory. Notifications read no datastore and change none; a session that ends is
`Close` there and `Kill` or `Free` in `Netconfd`.

## 3. The runs

| Run | Instance | What it shows |
|---|---|---|
| `deploy` | every dependency graph on three VDUs, with templates that have several instances, no driver or one that cannot be imported; one update request, one kill | order, owed acks, complete ACTIVE, stable ERROR; the deployment stops and errors are reported |
| `vnfm_ids` | five jobs (initial, later, update, without driver, without address), two ids that collide | no result is slept on, no double ack; true acks while ids differ |
| `vnfm_promise` | three threads, three ids, distinct | `DriverAcks` is implemented, and every result is acked |
| `fw_pair` | two firewalls created together, one other call, one agent restart | owners of pending statuses, no leak of servers |
| `fw_calls` | one firewall, a policy without rule or with one, open or filled, two further calls in any overlap, one restart | rows without servers, deletions undone, rules not enforced, pending for ever |
| `fw_count` | two creations of one tenant | the finding of section 6 |
| `sym_any` | two services, blocking and other calls, lost events, updates by others, the raw lock | who orphans the lock, whose event ends a creation |
| `sym_blocking` | two services, blocking calls, three events each | no completion is slept over, a clean cleanup leaves nothing, POSTs are answered until the lock is orphaned, every creation whose completion is told ends |
| `delete` | a service of two VDUs in deployment, each of one server or two, one of one VDU deployed, two deletions of these or of an unknown id, one refusing service, one restart | what a shared dict cannot do, what is left behind and why |
| `nc_commit` | two sessions, the contents empty and another, one token, two kinds of failure between two starts, with and without `--startup-error=stop` | `ConfirmedCommit` is implemented, locks exclude, a commit takes the whole candidate, a trial has an owner and ends |
| `nc_sil` | two leafs with one of two values or none, a complex node that is there or not | `AtomicCommit` is implemented, devices follow, every commit is answered or the server dies of a refused `ROLLBACK` |
| `nc_notif` | three events in three seconds; a session with every window of start and stop, one without; logs of 0, 1 and 2 messages; bursts of 2 | `NotificationStream` is implemented, nothing owed is lost, no dangling cursor, stop times kept as far as the code keeps them |

Why these bounds are enough: the graphs of three VDUs have every shape the
dependency resolution tells apart (chain, fork, join, cycle, a VDU beside a
pair); an ack count is wrong with one ack too many, so one update is enough.
Two threads collide with two ids, and a third thread may come while the monitor
acks one of them. Two calls and a creation have every overlap of a check, a write
and a cast; another policy is to a firewall what another first rule is, and one field that
is filled or left open is every field (`RulesKept` is for any of both). Symphony's queue covers a completion with one event, and three make
both orders and a run of `MAX_RETRIES` wake-ups. A deletion meets another one in
the dict: lists of different lengths (two VDUs and one) are what the index runs
out of. A datastore of the netconf server has one owner and a trial one session,
so a second session is every other one; an empty and a full container are the two
ways a commit treats a node (marked, or missing); with one token a right, a wrong
and no persist-id all occur; two kinds of failure put a backup that cannot be
loaded after a late failure. With three nodes one SIL has committed, one refuses
and one was not asked; a leaf needs a second value to be merged, any other node is moved
whatever it holds. Three events let a log of one message lose the end of a
replay and still have one to send, and three seconds put an event after the stop
time. Larger values repeat these cases; for the safety properties the proofs of
section 5 do not depend on bounds at all.

Deadlock is checked in `nc_commit` and `nc_notif`. It is not in the others: those
systems come to an end, or may die (`nc_sil`).

Further invariants are proved and in no run (`TypeOK` of every module, `BootedOnce`,
`HandedOverOnce`, `WaitHasAnswer`, `RoundHasVdu` and `ErrorOnItsWay` of the deployment,
`OrphanedByCause` of the threads, `CommitterLocks` and `Settled` of the netconf server,
`Readable` inboxes of its subscriptions); each was an invariant of a TLC
run of the instance before its proof was written.

## 4. Fairness

Only what the code's scheduling justifies is assumed.

- *VnfDeploy*: the greenthread runs when it can, nova gives each server an
  outcome, the manager process is scheduled, a driver returns (the drivers retry
  until their device answers), RPC delivers to an existing consumer. No exception,
  update or kill is forced.
- *VnfmThreads*: strong fairness of threads and monitor, since each competes for
  the lock with the others and eventlet serves waiters in order.
- *Firewall*: greenthreads of plugin and agent go on, nova finishes building a
  server, in error or not. No raise is forced.
- *Symphony*: the core's API calls return or fail, its wake-ups are taken, each
  POST is answered that was not lost. The plugin is not obliged to finish a service.
- *VnfDelete* states safety only.
- *Netconfd*: time passes (`WF(Tick)`), and the server looks at the confirm timeout when
  `select` returns without input (`WF(CcTimeout)`). This action is enabled only while
  nothing is to be read, and weak fairness owes nothing to a server that always
  finds input: `TrialEnds` is therefore stated for clients that fall silent, which
  is all the code gives. No message and no failure is forced.
- *SilTransaction*: the single thread goes on and SILs return (`WF(Server)`), with
  whatever answer.
- *Notifications*: the loop comes to `send_some_notifications` after each request and
  when `select` times out, so a burst begins and goes on (`WF(Burst)`). The clock goes
  on whatever the server does (`SF(Tick)`: bursts interrupt it, but do not stop it).
  No event and no request is forced.

## 5. Proofs

Each theorem holds for every value of the constants, under the `ASSUME`s of the
module, which TLC evaluates in every run: sets of VDUs and of nodes are finite, special
values are not members of the sets they complement, bounds are naturals.
All are invariants of `Spec` (no fairness) unless noted.

- `VnfDeploy_proofs`: `TypeCorrect`; `DependenciesRespected` and
  `BootedAtMostOnce` from `WaveInv` (what is still to be
  launched has its dependencies configured and has not been booted; what has been
  booted is configured or in the wave that is waited for); `HandedOver` from
  `HandInv` (`confGen` covers whatever was given to the manager); `AcksOwed`, which
  is inductive with it; `ActiveComplete` from `DoneInv`: the code compares two
  *lengths*, and they imply equal sets only because no VDU is listed twice without
  an update, which is what the owed acks give. `ErrorKept` is an action property
  from the same invariants. Three theorems are the safety halves of the liveness
  properties: `NeverWaitsForNothing` (from `OwedInv`: unless a configuration was lost,
  each VDU that was handed over is configured, has failed, or is in the manager's
  file, in a cast, with its driver, or in an answer), `EveryRoundLaunches` (the loop of
  `_resolve_dependency` has work in each round unless the template is cyclic; the
  comparison of two lengths again) and `ErrorsOnTheirWay`.
- `VnfmThreads_proofs`: `LockInv` ties the lock to the monitor's place, `ThreadInv`
  each listed id to its thread, `TrueInv` each ack to its driver while ids differ.
  From them `ResultNeverMissed`, `NeverAckedTwice`, `AckTrue` and `LockOrphaned`;
  `PromiseKept` is the refinement of `DriverAcks`, step by step, from `UniqueSpec`.
- `Firewall_proofs`: `PendingHasOwner`, `ServersAccountedFor`, `RowOutlivesServer`
  from `WorkInv` (rows, calls and tasks belong to firewalls that were inserted) and
  `DeleteInv` (a deletion that has written its status sees PENDING_DELETE or no row
  until it is over, unless the status was overwritten). `DeletionsKept`, `RulesKept` and
  `SecondByOverlap` are about calls that never overlapped, and need `QuietInv`: while no
  two calls have overlapped, what is in progress belongs to one operation (`Alone`),
  nobody is about to write a status over a pending deletion (`Undisturbed`), a task works
  with the rule of the database, and an ACTIVE firewall enforces it or a call has still
  to come to it (`Current`), and the count of `create_firewall` is right (`Single`). A
  second firewall is always the work of an overlap: the finding of section 6.
- `Symphony_proofs`: `LockReleased`, `OwnEventEnds`, `NoWakeUpLost`, `NothingLeft`.
  `OwnEvent` is not inductive: that an event of another service cannot be met rests
  on `AloneInv` (between two creations an event of the first waits in the queue, and
  `__check_queue__` makes the second raise, unless nobody was told of the first). For
  blocking scripts `OneInv` says that there is one service until something raises, and
  `CleanInv` what the queue may hold before and during its deletion; `BuriedInv`, that a
  completion is on top of the queue and the core woken.
- `VnfDelete_proofs`: `AskedOnly` from `AskedInv` (the dict names only services
  whose deletion was asked for); `OthersStick` from `OwnInv` (between deletions of
  the same service the dict is right for both); `AllSwept` from `CalmInv` (a reading
  after the deployment has every server) and `SweptInv` (what lies behind the loop
  is gone); `OneVduUnrecorded` from `ServerInv` (what no row has is of the VDU being booted,
  and nothing when none is).
- `Netconfd_proofs`: `LocksOfCommitter` (a lock held during a trial is the committer's),
  `TrialIsOwned`, `CommitIsWhole` (the flags a commit looks for cover what differs),
  and `StartupSettles`, the heart of the refinement `Implements`: while no backup has
  failed, startup holds what the backup holds during a trial and what running holds
  otherwise. Neither half is inductive alone: that a cancelled trial gives back the
  saved content needs the first, that a new trial's backup is the saved content the
  second. `Excludes` is the action property that no other session changes a locked
  datastore.
- `SilTransaction_proofs`: `DevicesSettle` from `TreeInv` (a node without undo record has
  its old value, one with it the new one until it is restored), `DeviceInv` (what the
  device of a node holds follows from how far its record has come, unless its SIL refused
  to undo) and `PendingInv` (what the tree and the candidate have of the commit that is
  still to be answered). `Implements` is the refinement of `AtomicCommit`: during a
  transaction the client sees the backup and the candidate as it was, and only the
  answer, and edits between commits, are steps of the abstract module; `Lost` says
  which nodes are gone and that no mark is left, `Whole` that the marks are as the commit
  found them, so that what is forgotten is known at each answer. `CommitTerminates` is
  the safety half of `Answered`: a measure over the phases, the nodes left and the one
  load of the backup decreases with each step, so that nothing is tried without end.
- `Notifications_proofs`: the turns of a subscription are summed up by what it gets (an
  event, one of the two marks, nothing; `Served`), and the inductive invariant is
  shown for these. `LogOK` bounds the log, `Cursor` and `Flags` relate a subscription
  to what it has read. `NoPointerDangles` and `NoEventLost` need two less obvious
  parts: `Starts`, from where on a session is owed events, and `Visited`, that every
  replay has begun by the end of a round: `agt_not_clean_eventlog` ignores
  subscriptions that were sent nothing, and only `Visited` keeps it from deleting what
  such a one is owed. `StopTimeKept` counts what arrives past the stop time: `StopInv` says
  that no message a replay has to send up to its end is later than that (`Ahead`), so that
  one event is late when it ends the subscription, and one more only where the message
  that ends the replay was evicted. `Ordered` is the refinement of `NotificationStream`, and
  `InboxReadable` says what it gives a session: events in their order and none twice,
  each mark once, nothing after the last one.

Each inductive invariant was first an invariant of a TLC run of the instance.

Every safety invariant and every action property of the runs is proved. Only
model-checked: all liveness (`DeployStops`, `ErrorReported`, `ResultIsAcked`,
`PendingEnds`, `InsertAnswered`, `CreationEnds`, `TrialEnds`, `Answered`, `StopEnds`), which
is out of the prover's reach. The theorems named above as safety halves say for every
size of the system what the runs cannot: that whoever waits has something to wait
for, or that only finitely many steps are left; that the steps are then taken rests on
the fairness of section 4 and is checked on the instances.

## 6. What the code does not keep

- `fw_count`: "only one firewall is supported per tenant", but two overlapping
  creations both count none (`fwaas_plugin.py:256`) and insert one each.

Seen while modelling, and part of the models, without a run of their own:

- A firewall enforces the first rule of its policy only, although `apply_fw_policies` says
  that the policies are "applied one by one" (`firewall_netconf_agent.py:245`, `261`); a
  field the rule leaves open keeps its last value, and an emptied policy leaves the last
  rule on the VM while the status is ACTIVE. `RulesCurrent` says what is kept.
- The nested create of `wait_for_service_vm` (`firewall_netconf_agent.py:294`) swallows
  what its driver raises, and the outer one reports ACTIVE.
- "We errored in test script execution, so unboard the services", but `cleanup` of
  Symphony knows only those whose creation completed (`executionCore.py:623`, `374`).
- `waitForServiceCreate` of Symphony raises in every creation that completes
  (`executionCore.py:378`), with the service known and the lock held: no blocking creation
  returns, and the plugin's POSTs block until another wait gives the lock away.
- A deletion of another service in the middle spoils a deletion (`mixed`), and one
  during a deployment leaves a server (`late`); an update request during a deployment
  makes ACTIVE meaningless (`updates`); an orphaned lock of Symphony stops the plugin's
  POSTs (`orphans`).

In the netconf server:

- `find_callback_set` of `agt_commit_complete.c` (89-105) returns the first set whose name
  *differs*, because `xml_strcmp` is used as a truth value. A module that registers
  replaces the callback of another one, where the header
  (`agt_commit_complete.h:60-72`) promises to replace its own.
- A cancelled trial loads the backup "as the system user" (`agt_ncx.c:3907-3909`), which
  with `--startup-error=stop` is refused while another session has the lock of running;
  the trial is cleared all the same, and running stays on trial (`refused`).
- An extension of a trial that fails late loads the backup, which is from before the
  trial, while the trial stays active (`CommitExtend`).
- A message that is no request frees the session without `agt_ses_kill_session`, so its
  trial waits for the timeout (`forgotten`).
- After a refused rollback the tree is as before, so the load of the backup
  ("because rollback failed", `agt_ncx.c` near 2459) finds nothing to replace and calls
  no SIL: the device stays `Unknown`. If it comes to that: the warning about the
  refusal reads the transaction number as a string (`agt_val.c:2856-2858`).
- A commit that fails after its final edits has lost the nodes that it moved from the
  candidate; a client that commits again deletes them from running, though the edit is to be
  preserved "in case commit is attempted again" (`agt_val.c:2878-2881`). Leafs that it
  merged are still in the candidate, without a mark: committing again reports success
  without them and drops them from the candidate (`forgotten`).
- The timeouts of sessions and trials are looked at when `select` returns 0 only: a
  client that keeps sending starves them.
- Startup and backup are written in place (`fopen` with "w", `ncx/xml_wr.c:1779`): a crash
  leaves a part of the file. The models let a write happen or not.
- The replay buffer grows beyond `--eventlog-size` ("maximum number of notification
  events", `netconfd.yang:240-243`): `delete_oldest_notification` counts the message off,
  and its caller (`agt_not.c:1961-1967`) does not count the one that takes its place.
- A replay that starts after the last event goes live with a cursor of 0 and is sent
  the whole log, events before its start time included (`agt_not.c:638-642`).
- A stop time is looked at after the event is sent (`agt_not.c:1639-1645`): `StopKept`
  states how many events may be late.

## 7. Not modelled

- *Scaling, templates and users, policies and rules, the Heat resource*: see the plan.
- *Database models, clients, REST layer, RPC relay, netconf and ssh drivers,
  translation of rules, launch of the firewall server, reporting and packet
  capture*: they keep no state of their own that others see; where a call of theirs
  fails, the failure is an action of the module that calls it.
- *Netconf server, partial locks* (`agt_plock.c`, `release_partial_locks` in `cfg.c`): the
  locks live in the nodes of the trees, and `val_clone` (`ncx/val.c:1343`) copies the
  pointers, so that a candidate has marks of locks that are gone. They need the tree
  that a content or a node stands for here; with them nearly every promise of
  `ConfirmedCommit` gets another exception.
- *Netconf server, access control, monitoring, validation, copy-config and
  delete-config of files, system events*: they refuse, report or do what one action of
  `Netconfd` does already. A refusal is `NoEffect` there.
- *The yuma library* (`OpenYuma/ncx`: YANG parser, object and value trees, XPath, XML and
  CLI input and output), *the client `yangcli`*, *the tools `yangdump` and `yangdiff`*,
  and *libtecla*, the line editor of the client: nearly nine tenths of
  the C sources. They turn text into trees and trees into text for one caller at a time; no
  step of theirs is seen by another session. What the server needs of them is a
  configuration that can be compared, merged and cloned, which the modules have as a
  value. The modules map about 4300 lines of C, a tenth of the server proper
  (`OpenYuma/agt`, 42,000 lines): those where sessions, failures and timeouts meet. The
  rest of `agt` refuses, reports, registers callbacks or reads its profile.
- *Copied code*: `openstack/common`, files derived from neutron's API layer, and copies of
  modelled files kept beside them (`*_bkp*`, `plugin.py_*`, `plugin-*-update.py`,
  `drivers_bkpp`, `executionCore_mounika.py`, `vnf_manager*update.py`).

## 8. Plan

Done, in this order: `VnfDeploy` (the core), `VnfmThreads` with `DriverAcks`,
`Firewall`, `Symphony`, `VnfDelete`; then the server on the other side of the firewall
driver: `Netconfd` with `ConfirmedCommit`, `SilTransaction` with `AtomicCommit`,
`Notifications` with `NotificationStream`.

Next:

1. Proofs: the safety halves of the other liveness properties (a trial of `Netconfd`
   has its timeout armed; a creation of Symphony has its event).
2. `VnfScale`: `create_scale`, `scale_out`, `scale_vdu`, `update_vdu`, with the
   status row across a restart. Properties: two scalings never work on one service;
   the status after a failed request is what it was; a scaled VDU counts as
   configured only when its own instances are acked.
3. `FirewallRules`: the ordered lists and their positions, the operations of
   `firewall_db.py` against a reference definition on sequences (positions are a
   permutation of 1..n), and the Heat resource as a client; pure operators.
4. Two concurrent deployments that share the attributes of the plugin
   (`independent_vdus`, `template_id`): `VnfDeploy` instantiated twice over shared
   variables.
5. Templates and users: who is told of an event when a template has one user row.
6. Partial locks, over a tree of nodes in place of one content.
