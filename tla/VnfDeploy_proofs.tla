-------------------------- MODULE VnfDeploy_proofs --------------------------
(***************************************************************************)
(* Proofs about VnfDeploy.                                                 *)
(***************************************************************************)
EXTENDS VnfDeploy, FiniteSetTheorems, TLAPS

USE DEF deployVars, nsVars, rpcVars, msgVars, mgrVars, histVars

-----------------------------------------------------------------------------
(* Type correctness *)

\* The initial state is well typed.
LEMMA TypeInit == Init => TypeOK
BY TemplateAssumption DEF Init, TypeOK, Independent, Template

\* Every step keeps the state well typed.
LEMMA TypeStep == TypeOK /\ [Next]_vars => TypeOK'
<1> SUFFICES ASSUME TypeOK, [Next]_vars PROVE TypeOK'
  OBVIOUS
<1>1. ASSUME NEW v \in Vdu, LaunchVnfds(v) PROVE TypeOK'
  BY <1>1 DEF TypeOK, LaunchVnfds
<1>2. CASE BootActive
  BY <1>2 DEF TypeOK, BootActive
<1>3. CASE BootError
  BY <1>3 DEF TypeOK, BootError
<1>4. CASE BootMulti
  BY <1>4 DEF TypeOK, BootMulti
<1>5. CASE InvokeVnfManager
  BY <1>5 DEF TypeOK, InvokeVnfManager, NewConf
<1>6. CASE CastConfigureVdus
  BY <1>6 DEF TypeOK, CastConfigureVdus, NewConf
<1>7. CASE WaitError
  BY <1>7 DEF TypeOK, WaitError
<1>8. CASE WaitDone
  BY <1>8 DEF TypeOK, WaitDone
<1>9. CASE ResolveDependency
  BY <1>9 DEF TypeOK, ResolveDependency, Ready, Configured
<1>10. CASE DependencyResolved
  BY <1>10 DEF TypeOK, DependencyResolved
<1>11. CASE DeployVnfs
  BY <1>11 DEF TypeOK, DeployVnfs
<1>12. CASE DeployRaises
  BY <1>12 DEF TypeOK, DeployRaises
<1>13. ASSUME NEW v \in Vdu, AckComplete(v) PROVE TypeOK'
  BY <1>13 DEF TypeOK, AckComplete
<1>14. ASSUME NEW v \in Vdu, AckError(v) PROVE TypeOK'
  BY <1>14 DEF TypeOK, AckError
<1>15. ASSUME NEW v \in Vdu, AckErrorStatus(v) PROVE TypeOK'
  BY <1>15 DEF TypeOK, AckErrorStatus
<1>16. ASSUME NEW e \in confirming, AckConfirmed(e) PROVE TypeOK'
  BY <1>16 DEF TypeOK, AckConfirmed
<1>17. ASSUME NEW v \in Vdu, UpdateService(v) PROVE TypeOK'
  BY <1>17 DEF TypeOK, UpdateService
<1>18. CASE ManagerInit
  BY <1>18 DEF TypeOK, ManagerInit, ConfigureKnown, ConfigureRaises
<1>19. CASE ManagerInitEmpty
  BY <1>19 DEF TypeOK, ManagerInitEmpty
<1>20. CASE ManagerServe
  BY <1>20 DEF TypeOK, ManagerServe
<1>21. ASSUME NEW conf \in confCasts, ManagerConfigure(conf) PROVE TypeOK'
  BY <1>21 DEF TypeOK, ManagerConfigure, ConfigureKnown, ConfigureRaises
<1>22. ASSUME NEW v \in Vdu, ManagerUpdate(v) PROVE TypeOK'
  BY <1>22 DEF TypeOK, ManagerUpdate
<1>23. ASSUME NEW v \in Vdu, DriverEnds(v) PROVE TypeOK'
  BY <1>23 DEF TypeOK, DriverEnds
<1>24. CASE ManagerKilled
  BY <1>24 DEF TypeOK, ManagerKilled
<1>25. CASE UNCHANGED vars
  BY <1>25 DEF TypeOK, vars
<1>26. CASE Deploy
  BY <1>1, <1>2, <1>3, <1>4, <1>5, <1>6, <1>7, <1>8, <1>9, <1>10, <1>11, <1>26
  DEF Deploy
<1>27. CASE Acknowledge
  BY <1>13, <1>14, <1>15, <1>16, <1>27 DEF Acknowledge
<1>28. CASE Manager
  BY <1>18, <1>19, <1>20, <1>21, <1>22, <1>23, <1>28 DEF Manager
<1>29. CASE Environment
  BY <1>12, <1>17, <1>24, <1>29 DEF Environment
<1>30. QED
  BY <1>25, <1>26, <1>27, <1>28, <1>29 DEF Next

\* TypeOK is an invariant of the deployment.
THEOREM TypeCorrect == Spec => []TypeOK
BY TypeInit, TypeStep, PTL DEF Spec

-----------------------------------------------------------------------------
(* The order of the waves *)

\* An entry of configured is never taken back.
LEMMA ConfiguredGrows == [Next]_vars => Configured \subseteq Configured'
<1> SUFFICES ASSUME [Next]_vars PROVE configured \subseteq configured'
  BY DEF Configured
<1>1. CASE Next
  BY <1>1 DEF Next, Deploy, Acknowledge, Manager, Environment, LaunchVnfds,
    BootActive, BootError, BootMulti, InvokeVnfManager, CastConfigureVdus,
    WaitError, WaitDone, ResolveDependency, DependencyResolved, DeployVnfs,
    DeployRaises, AckComplete, AckError, AckErrorStatus, AckConfirmed,
    UpdateService, ManagerInit, ManagerInitEmpty, ManagerServe,
    ManagerConfigure, ManagerUpdate, DriverEnds, ManagerKilled
<1>2. QED
  BY <1>1 DEF vars

\* The inductive invariant of the waves: what is still to be launched has its
\* dependencies configured and has not been booted; what has been booted is
\* configured or belongs to the wave that is waited for.
WaveInv ==
  /\ DependencyOrder
  /\ BootedOnce
  /\ pc \in {"launch", "boot"} => \A v \in todo : tmpl.from[v] \subseteq Configured
  /\ pc \in {"launch", "boot"} => todo \subseteq wave
  /\ pc \in {"launch", "boot"} => \A v \in todo : v # current => boots[v] = 0
  /\ pc \in {"launch", "wait", "resolve"} => current = NoVdu
  /\ pc = "resolve" => wave \subseteq Configured
  /\ \A v \in Vdu : boots[v] > 0 => v \in wave \cup Configured

\* WaveInv holds initially.
LEMMA WaveInit == Init => WaveInv
BY VduAssumption, TemplateAssumption
DEF Init, WaveInv, DependencyOrder, BootedOnce, Independent, Template

\* Every step preserves WaveInv.
LEMMA WaveStep == TypeOK /\ WaveInv /\ [Next]_vars => WaveInv'
<1> SUFFICES ASSUME TypeOK, WaveInv, [Next]_vars PROVE WaveInv'
  OBVIOUS
<1> USE VduAssumption DEF TypeOK, WaveInv, DependencyOrder, BootedOnce
<1>0. Configured \subseteq Configured'
  BY ConfiguredGrows
<1>1. ASSUME NEW v \in Vdu, LaunchVnfds(v) PROVE WaveInv'
  BY <1>1, <1>0 DEF LaunchVnfds
<1>2. CASE BootActive
  BY <1>2, <1>0 DEF BootActive
<1>3. CASE BootError
  BY <1>3, <1>0 DEF BootError
<1>4. CASE BootMulti
  BY <1>4, <1>0 DEF BootMulti
<1>5. CASE InvokeVnfManager
  BY <1>5, <1>0 DEF InvokeVnfManager
<1>6. CASE CastConfigureVdus
  BY <1>6, <1>0 DEF CastConfigureVdus
<1>7. CASE WaitError
  BY <1>7, <1>0 DEF WaitError
<1>8. CASE WaitDone
  BY <1>8, <1>0 DEF WaitDone, Configured
<1>9. CASE ResolveDependency
  BY <1>9, <1>0 DEF ResolveDependency, Ready, Configured
<1>10. CASE DependencyResolved
  BY <1>10, <1>0 DEF DependencyResolved
<1>11. CASE DeployVnfs
  BY <1>11, <1>0 DEF DeployVnfs
<1>12. CASE DeployRaises
  BY <1>12, <1>0 DEF DeployRaises
<1>13. ASSUME NEW v \in Vdu, AckComplete(v) PROVE WaveInv'
  BY <1>13, <1>0 DEF AckComplete
<1>14. ASSUME NEW v \in Vdu, AckError(v) PROVE WaveInv'
  BY <1>14, <1>0 DEF AckError
<1>15. ASSUME NEW v \in Vdu, AckErrorStatus(v) PROVE WaveInv'
  BY <1>15, <1>0 DEF AckErrorStatus
<1>16. ASSUME NEW e \in confirming, AckConfirmed(e) PROVE WaveInv'
  BY <1>16, <1>0 DEF AckConfirmed
<1>17. ASSUME NEW v \in Vdu, UpdateService(v) PROVE WaveInv'
  BY <1>17, <1>0 DEF UpdateService
<1>18. CASE ManagerInit
  BY <1>18, <1>0 DEF ManagerInit
<1>19. CASE ManagerInitEmpty
  BY <1>19, <1>0 DEF ManagerInitEmpty
<1>20. CASE ManagerServe
  BY <1>20, <1>0 DEF ManagerServe
<1>21. ASSUME NEW conf \in confCasts, ManagerConfigure(conf) PROVE WaveInv'
  BY <1>21, <1>0 DEF ManagerConfigure
<1>22. ASSUME NEW v \in Vdu, ManagerUpdate(v) PROVE WaveInv'
  BY <1>22, <1>0 DEF ManagerUpdate
<1>23. ASSUME NEW v \in Vdu, DriverEnds(v) PROVE WaveInv'
  BY <1>23, <1>0 DEF DriverEnds
<1>24. CASE ManagerKilled
  BY <1>24, <1>0 DEF ManagerKilled
<1>25. CASE UNCHANGED vars
  BY <1>25, <1>0 DEF vars
<1>26. CASE Deploy
  BY <1>1, <1>2, <1>3, <1>4, <1>5, <1>6, <1>7, <1>8, <1>9, <1>10, <1>11, <1>26
  DEF Deploy
<1>27. CASE Acknowledge
  BY <1>13, <1>14, <1>15, <1>16, <1>27 DEF Acknowledge
<1>28. CASE Manager
  BY <1>18, <1>19, <1>20, <1>21, <1>22, <1>23, <1>28 DEF Manager
<1>29. CASE Environment
  BY <1>12, <1>17, <1>24, <1>29 DEF Environment
<1>30. QED
  BY <1>25, <1>26, <1>27, <1>28, <1>29 DEF Next

\* No server is created before the VDUs it depends on are configured.
THEOREM DependenciesRespected == Spec => []DependencyOrder
<1>1. WaveInv => DependencyOrder
  BY DEF WaveInv
<1>2. QED
  BY <1>1, TypeCorrect, WaveInit, WaveStep, PTL DEF Spec

\* No VDU is booted twice.
THEOREM BootedAtMostOnce == Spec => []BootedOnce
<1>1. WaveInv => BootedOnce
  BY DEF WaveInv
<1>2. QED
  BY <1>1, TypeCorrect, WaveInit, WaveStep, PTL DEF Spec

-----------------------------------------------------------------------------
(* Handing the configurations over *)

\* The inductive invariant of the hand-over: conf_generated remembers every
\* VDU whose configuration has left the plugin.
HandInv ==
  /\ HandedOverOnce
  /\ known \cup fileConf \subseteq confGen
  /\ \A conf \in confCasts : conf \subseteq confGen

\* Every step preserves HandInv.
LEMMA HandStep == TypeOK /\ HandInv /\ [Next]_vars => HandInv'
<1> SUFFICES ASSUME TypeOK, HandInv, [Next]_vars PROVE HandInv'
  OBVIOUS
<1> USE DEF HandInv, HandedOverOnce
<1>1. ASSUME NEW v \in Vdu, LaunchVnfds(v) PROVE HandInv'
  BY <1>1 DEF LaunchVnfds
<1>2. CASE BootActive
  BY <1>2 DEF BootActive
<1>3. CASE BootError
  BY <1>3 DEF BootError
<1>4. CASE BootMulti
  BY <1>4 DEF BootMulti
<1>5. CASE InvokeVnfManager
  BY <1>5 DEF InvokeVnfManager, NewConf
<1>6. CASE CastConfigureVdus
  <2>1. NewConf \subseteq deployed /\ NewConf \cap confGen = {}
    BY DEF NewConf
  <2>2. confCasts' \subseteq confCasts \cup {NewConf}
    BY <1>6 DEF CastConfigureVdus
  <2>3. confGen' = confGen \cup NewConf \cup wave /\ UNCHANGED <<deployed, known, fileConf>>
    BY <1>6 DEF CastConfigureVdus
  <2>4. QED
    BY <2>1, <2>2, <2>3
<1>7. CASE WaitError
  BY <1>7 DEF WaitError
<1>8. CASE WaitDone
  BY <1>8 DEF WaitDone
<1>9. CASE ResolveDependency
  BY <1>9 DEF ResolveDependency
<1>10. CASE DependencyResolved
  BY <1>10 DEF DependencyResolved
<1>11. CASE DeployVnfs
  BY <1>11 DEF DeployVnfs
<1>12. CASE DeployRaises
  BY <1>12 DEF DeployRaises
<1>13. ASSUME NEW v \in Vdu, AckComplete(v) PROVE HandInv'
  BY <1>13 DEF AckComplete
<1>14. ASSUME NEW v \in Vdu, AckError(v) PROVE HandInv'
  BY <1>14 DEF AckError
<1>15. ASSUME NEW v \in Vdu, AckErrorStatus(v) PROVE HandInv'
  BY <1>15 DEF AckErrorStatus
<1>16. ASSUME NEW e \in confirming, AckConfirmed(e) PROVE HandInv'
  BY <1>16 DEF AckConfirmed
<1>17. ASSUME NEW v \in Vdu, UpdateService(v) PROVE HandInv'
  BY <1>17 DEF UpdateService
<1>18. CASE ManagerInit
  BY <1>18 DEF ManagerInit, ConfigureKnown, ConfigureRaises
<1>19. CASE ManagerInitEmpty
  BY <1>19 DEF ManagerInitEmpty
<1>20. CASE ManagerServe
  BY <1>20 DEF ManagerServe
<1>21. ASSUME NEW conf \in confCasts, ManagerConfigure(conf) PROVE HandInv'
  BY <1>21 DEF ManagerConfigure, ConfigureKnown, ConfigureRaises
<1>22. ASSUME NEW v \in Vdu, ManagerUpdate(v) PROVE HandInv'
  BY <1>22 DEF ManagerUpdate
<1>23. ASSUME NEW v \in Vdu, DriverEnds(v) PROVE HandInv'
  BY <1>23 DEF DriverEnds
<1>24. CASE ManagerKilled
  BY <1>24 DEF ManagerKilled
<1>25. CASE UNCHANGED vars
  BY <1>25 DEF vars
<1>26. CASE Deploy
  BY <1>1, <1>2, <1>3, <1>4, <1>5, <1>6, <1>7, <1>8, <1>9, <1>10, <1>11, <1>26
  DEF Deploy
<1>27. CASE Acknowledge
  BY <1>13, <1>14, <1>15, <1>16, <1>27 DEF Acknowledge
<1>28. CASE Manager
  BY <1>18, <1>19, <1>20, <1>21, <1>22, <1>23, <1>28 DEF Manager
<1>29. CASE Environment
  BY <1>12, <1>17, <1>24, <1>29 DEF Environment
<1>30. QED
  BY <1>25, <1>26, <1>27, <1>28, <1>29 DEF Next

\* The manager is given the configuration of a VDU at most once.
THEOREM HandedOver == Spec => []HandedOverOnce
<1>1. Init => HandInv
  BY DEF Init, HandInv, HandedOverOnce
<1>2. HandInv => HandedOverOnce
  BY DEF HandInv
<1>3. QED
  BY <1>1, <1>2, HandStep, TypeCorrect, PTL DEF Spec

-----------------------------------------------------------------------------
(* The acks *)

\* NoSpuriousAck is inductive: a step moves an answer from one place to the
\* next, and only a hand-over or an update request creates one.
LEMMA AckStep == TypeOK /\ NoSpuriousAck /\ [Next]_vars => NoSpuriousAck'
<1> SUFFICES ASSUME TypeOK, NoSpuriousAck, [Next]_vars PROVE NoSpuriousAck'
  OBVIOUS
<1> USE DEF TypeOK, NoSpuriousAck
<1>1. ASSUME NEW v \in Vdu, LaunchVnfds(v) PROVE NoSpuriousAck'
  BY <1>1 DEF LaunchVnfds
<1>2. CASE BootActive
  BY <1>2 DEF BootActive
<1>3. CASE BootError
  BY <1>3 DEF BootError
<1>4. CASE BootMulti
  BY <1>4 DEF BootMulti
<1>5. CASE InvokeVnfManager
  BY <1>5 DEF InvokeVnfManager
<1>6. CASE CastConfigureVdus
  BY <1>6 DEF CastConfigureVdus
<1>7. CASE WaitError
  BY <1>7 DEF WaitError
<1>8. CASE WaitDone
  BY <1>8 DEF WaitDone
<1>9. CASE ResolveDependency
  BY <1>9 DEF ResolveDependency
<1>10. CASE DependencyResolved
  BY <1>10 DEF DependencyResolved
<1>11. CASE DeployVnfs
  BY <1>11 DEF DeployVnfs
<1>12. CASE DeployRaises
  BY <1>12 DEF DeployRaises
<1>13. ASSUME NEW v \in Vdu, AckComplete(v) PROVE NoSpuriousAck'
  BY <1>13 DEF AckComplete
<1>14. ASSUME NEW v \in Vdu, AckError(v) PROVE NoSpuriousAck'
  BY <1>14 DEF AckError
<1>15. ASSUME NEW v \in Vdu, AckErrorStatus(v) PROVE NoSpuriousAck'
  BY <1>15 DEF AckErrorStatus
<1>16. ASSUME NEW e \in confirming, AckConfirmed(e) PROVE NoSpuriousAck'
  BY <1>16 DEF AckConfirmed
<1>17. ASSUME NEW v \in Vdu, UpdateService(v) PROVE NoSpuriousAck'
  BY <1>17 DEF UpdateService
<1>18. CASE ManagerInit
  BY <1>18 DEF ManagerInit, ConfigureKnown, ConfigureRaises
<1>19. CASE ManagerInitEmpty
  BY <1>19 DEF ManagerInitEmpty
<1>20. CASE ManagerServe
  BY <1>20 DEF ManagerServe
<1>21. ASSUME NEW conf \in confCasts, ManagerConfigure(conf) PROVE NoSpuriousAck'
  BY <1>21 DEF ManagerConfigure, ConfigureKnown, ConfigureRaises
<1>22. ASSUME NEW v \in Vdu, ManagerUpdate(v) PROVE NoSpuriousAck'
  BY <1>22 DEF ManagerUpdate
<1>23. ASSUME NEW v \in Vdu, DriverEnds(v) PROVE NoSpuriousAck'
  BY <1>23 DEF DriverEnds
<1>24. CASE ManagerKilled
  BY <1>24 DEF ManagerKilled
<1>25. CASE UNCHANGED vars
  BY <1>25 DEF vars
<1>26. CASE Deploy
  BY <1>1, <1>2, <1>3, <1>4, <1>5, <1>6, <1>7, <1>8, <1>9, <1>10, <1>11, <1>26
  DEF Deploy
<1>27. CASE Acknowledge
  BY <1>13, <1>14, <1>15, <1>16, <1>27 DEF Acknowledge
<1>28. CASE Manager
  BY <1>18, <1>19, <1>20, <1>21, <1>22, <1>23, <1>28 DEF Manager
<1>29. CASE Environment
  BY <1>12, <1>17, <1>24, <1>29 DEF Environment
<1>30. QED
  BY <1>25, <1>26, <1>27, <1>28, <1>29 DEF Next

\* No ack is counted that is not owed.
THEOREM AcksOwed == Spec => []NoSpuriousAck
<1>1. Init => NoSpuriousAck
  BY DEF Init, NoSpuriousAck
<1>2. QED
  BY <1>1, AckStep, TypeCorrect, PTL DEF Spec

-----------------------------------------------------------------------------
(* What ACTIVE means *)

\* The inductive invariant of the end of the deployment.
DoneInv ==
  /\ NoSpuriousAck
  /\ \A e \in configured \cup confirming : e[2] \in 1 .. acks[e[1]]
  /\ failing \subseteq errored
  /\ status = "ERROR" => errored # {} \/ pc = "dead"
  /\ status = "ACTIVE" => pc = "done"
  /\ pc \in {"finish", "done"} /\ updates = 0 => Configured = Vdu

\* Without update requests a VDU is configured by its first ack only, and then
\* it has reported no error.
LEMMA OneAck ==
  ASSUME TypeOK, DoneInv, updates = 0
  PROVE  /\ configured \subseteq Vdu \X {1}
         /\ Configured \cap errored = {}
<1>1. ASSUME NEW e \in configured PROVE e \in Vdu \X {1} /\ e[1] \notin errored
  <2>1. e[1] \in Vdu /\ e[2] \in Nat /\ e = <<e[1], e[2]>>
    BY DEF TypeOK
  <2>2. acks[e[1]] \in Nat /\ ackMsgs[e[1]] \in Nat /\ errMsgs[e[1]] \in Nat
        /\ running[e[1]] \in Nat /\ updCasts[e[1]] \in Nat
    BY <2>1 DEF TypeOK
  <2>3. acks[e[1]] + (IF e[1] \in errored THEN 1 ELSE 0) <= 1
    BY <2>1, <2>2 DEF DoneInv, NoSpuriousAck
  <2>4. e[2] >= 1 /\ e[2] <= acks[e[1]]
    BY <2>1, <2>2 DEF DoneInv
  <2>5. e[2] = 1 /\ e[1] \notin errored
    BY <2>1, <2>2, <2>3, <2>4
  <2>6. QED
    BY <2>1, <2>5
<1>2. QED
  BY <1>1 DEF Configured

\* Without update requests the comparison of the lengths in
\* _resolve_dependency says what it is meant to say.
LEMMA LengthsSuffice ==
  ASSUME TypeOK, DoneInv, updates = 0, AllConfigured
  PROVE  Configured = Vdu
<1> DEFINE f == [v \in Configured |-> <<v, 1>>]
<1>1. configured \subseteq Vdu \X {1}
  BY OneAck
<1>2. Configured \subseteq Vdu
  BY <1>1 DEF Configured
<1>3. IsFiniteSet(Configured) /\ IsFiniteSet(Vdu)
  BY <1>2, VduAssumption, FS_Subset
<1>4. f \in Bijection(Configured, configured)
  <2>1. \A e \in configured : e = <<e[1], 1>> /\ e[1] \in Configured
    BY <1>1 DEF Configured
  <2>2. \A v \in Configured : <<v, 1>> \in configured
    <3>1. TAKE v \in Configured
    <3>2. PICK e \in configured : v = e[1]
      BY DEF Configured
    <3>3. QED
      BY <3>2, <2>1
  <2>3. f \in [Configured -> configured]
    BY <2>2
  <2>4. \A v, w \in Configured : f[v] = f[w] => v = w
    OBVIOUS
  <2>5. \A e \in configured : \E v \in Configured : f[v] = e
    BY <2>1
  <2>6. QED
    BY <2>3, <2>4, <2>5 DEF Bijection, Injection, Surjection, IsInjective
<1>5. Cardinality(Configured) = Cardinality(configured)
  BY <1>3, <1>4, FS_Bijection DEF ExistsBijection
<1>6. QED
  BY <1>2, <1>3, <1>5, FS_Subset DEF AllConfigured

\* Every step preserves DoneInv.
LEMMA DoneStep == TypeOK /\ DoneInv /\ [Next]_vars => DoneInv'
<1> SUFFICES ASSUME TypeOK, DoneInv, [Next]_vars PROVE DoneInv'
  OBVIOUS
<1>0. NoSpuriousAck' /\ Configured \subseteq Configured'
  BY AckStep, ConfiguredGrows DEF DoneInv
<1>00. TypeOK'
  BY TypeStep
<1>000. Configured' \subseteq Vdu
  BY <1>00 DEF TypeOK, Configured
<1> USE DEF DoneInv
<1>1. ASSUME NEW v \in Vdu, LaunchVnfds(v) PROVE DoneInv'
  BY <1>1, <1>0, <1>000 DEF TypeOK, LaunchVnfds
<1>2. CASE BootActive
  BY <1>2, <1>0, <1>000 DEF TypeOK, BootActive
<1>3. CASE BootError
  BY <1>3, <1>0, <1>000 DEF TypeOK, BootError
<1>4. CASE BootMulti
  BY <1>4, <1>0, <1>000 DEF TypeOK, BootMulti
<1>5. CASE InvokeVnfManager
  BY <1>5, <1>0, <1>000 DEF TypeOK, InvokeVnfManager
<1>6. CASE CastConfigureVdus
  BY <1>6, <1>0, <1>000 DEF TypeOK, CastConfigureVdus
<1>7. CASE WaitError
  BY <1>7, <1>0, <1>000 DEF TypeOK, WaitError
<1>8. CASE WaitDone
  BY <1>8, <1>0, <1>000 DEF TypeOK, WaitDone
<1>9. CASE ResolveDependency
  BY <1>9, <1>0, <1>000 DEF TypeOK, ResolveDependency
<1>10. CASE DependencyResolved
  BY <1>10, <1>0, <1>000, LengthsSuffice DEF TypeOK, DependencyResolved, Configured
<1>11. CASE DeployVnfs
  <2>1. updates = 0 => errored = {}
    BY <1>11, OneAck DEF TypeOK, DeployVnfs
  <2>2. QED
    BY <1>11, <1>0, <1>000, <2>1 DEF TypeOK, DeployVnfs
<1>12. CASE DeployRaises
  BY <1>12, <1>0, <1>000 DEF TypeOK, DeployRaises
<1>13. ASSUME NEW v \in Vdu, AckComplete(v) PROVE DoneInv'
  <2>1. /\ UNCHANGED <<pc, configured, errored, failing, status, updates>>
        /\ Configured' = Configured
    BY <1>13 DEF AckComplete, Configured
  <2>2. \A w \in Vdu : acks[w] \in Nat /\ acks'[w] \in Nat /\ acks'[w] >= acks[w]
    BY <1>13 DEF TypeOK, AckComplete
  <2>3. acks'[v] = acks[v] + 1 /\ confirming' \subseteq confirming \cup {<<v, acks[v] + 1>>}
    BY <1>13 DEF TypeOK, AckComplete
  <2>4. ASSUME NEW e \in configured \cup confirming PROVE e[2] \in 1 .. acks'[e[1]]
    <3>1. e[1] \in Vdu /\ e[2] \in Nat /\ e[2] \in 1 .. acks[e[1]]
      BY DEF TypeOK
    <3>2. QED
      BY <3>1, <2>2
  <2>5. <<v, acks[v] + 1>>[2] \in 1 .. acks'[<<v, acks[v] + 1>>[1]]
    BY <2>2, <2>3
  <2>6. \A e \in configured' \cup confirming' : e[2] \in 1 .. acks'[e[1]]
    BY <2>1, <2>3, <2>4, <2>5
  <2>7. QED
    BY <1>0, <2>1, <2>6
<1>14. ASSUME NEW v \in Vdu, AckError(v) PROVE DoneInv'
  BY <1>14, <1>0, <1>000 DEF TypeOK, AckError
<1>15. ASSUME NEW v \in Vdu, AckErrorStatus(v) PROVE DoneInv'
  BY <1>15, <1>0, <1>000 DEF TypeOK, AckErrorStatus
<1>16. ASSUME NEW e \in confirming, AckConfirmed(e) PROVE DoneInv'
  BY <1>16, <1>0, <1>000 DEF TypeOK, AckConfirmed
<1>17. ASSUME NEW v \in Vdu, UpdateService(v) PROVE DoneInv'
  BY <1>17, <1>0, <1>000 DEF TypeOK, UpdateService
<1>18. CASE ManagerInit
  BY <1>18, <1>0, <1>000 DEF TypeOK, ManagerInit, ConfigureKnown, ConfigureRaises
<1>19. CASE ManagerInitEmpty
  BY <1>19, <1>0, <1>000 DEF TypeOK, ManagerInitEmpty
<1>20. CASE ManagerServe
  BY <1>20, <1>0, <1>000 DEF TypeOK, ManagerServe
<1>21. ASSUME NEW conf \in confCasts, ManagerConfigure(conf) PROVE DoneInv'
  BY <1>21, <1>0, <1>000 DEF TypeOK, ManagerConfigure, ConfigureKnown, ConfigureRaises
<1>22. ASSUME NEW v \in Vdu, ManagerUpdate(v) PROVE DoneInv'
  BY <1>22, <1>0, <1>000 DEF TypeOK, ManagerUpdate
<1>23. ASSUME NEW v \in Vdu, DriverEnds(v) PROVE DoneInv'
  BY <1>23, <1>0, <1>000 DEF TypeOK, DriverEnds
<1>24. CASE ManagerKilled
  BY <1>24, <1>0, <1>000 DEF TypeOK, ManagerKilled
<1>25. CASE UNCHANGED vars
  BY <1>25, <1>0, <1>000 DEF TypeOK, vars
<1>26. CASE Deploy
  BY <1>1, <1>2, <1>3, <1>4, <1>5, <1>6, <1>7, <1>8, <1>9, <1>10, <1>11, <1>26
  DEF Deploy
<1>27. CASE Acknowledge
  BY <1>13, <1>14, <1>15, <1>16, <1>27 DEF Acknowledge
<1>28. CASE Manager
  BY <1>18, <1>19, <1>20, <1>21, <1>22, <1>23, <1>28 DEF Manager
<1>29. CASE Environment
  BY <1>12, <1>17, <1>24, <1>29 DEF Environment
<1>30. QED
  BY <1>25, <1>26, <1>27, <1>28, <1>29 DEF Next

\* DoneInv is an invariant of the deployment.
LEMMA DoneCorrect == Spec => []DoneInv
<1>1. Init => DoneInv
  BY DEF Init, DoneInv, NoSpuriousAck
<1>2. QED
  BY <1>1, DoneStep, TypeCorrect, PTL DEF Spec

\* Unless update_service interfered, an ACTIVE service is complete.
THEOREM ActiveComplete == Spec => []ActiveIsComplete
<1>1. TypeOK /\ DoneInv => ActiveIsComplete
  <2> SUFFICES ASSUME TypeOK, DoneInv, status = "ACTIVE", updates = 0
               PROVE  Configured = Vdu /\ errored = {}
    BY DEF ActiveIsComplete
  <2>1. Configured = Vdu
    BY DEF DoneInv
  <2>2. QED
    BY <2>1, OneAck DEF TypeOK
<1>2. QED
  BY <1>1, DoneCorrect, TypeCorrect, PTL

\* Unless update_service interferes, the status ERROR is never overwritten.
THEOREM ErrorKept == Spec => ErrorStays
<1>1. TypeOK /\ DoneInv /\ [Next]_vars
        => (updates = 0 /\ status = "ERROR" => status' = "ERROR")
  <2> SUFFICES ASSUME TypeOK, DoneInv, [Next]_vars, updates = 0, status = "ERROR"
               PROVE  status' = "ERROR"
    OBVIOUS
  <2>1. CASE DeployVnfs
    <3>1. Configured = Vdu
      BY <2>1 DEF DoneInv, DeployVnfs
    <3>2. errored = {}
      BY <3>1, OneAck DEF TypeOK
    <3>3. QED
      BY <2>1, <3>2 DEF DoneInv, DeployVnfs
  <2>2. CASE Next /\ ~DeployVnfs
    BY <2>2 DEF Next, Deploy, Acknowledge, Manager, Environment, LaunchVnfds,
      BootActive, BootError, BootMulti, InvokeVnfManager, CastConfigureVdus,
      WaitError, WaitDone, ResolveDependency, DependencyResolved,
      DeployRaises, AckComplete, AckError, AckErrorStatus, AckConfirmed,
      UpdateService, ManagerInit, ManagerInitEmpty, ManagerServe,
      ManagerConfigure, ManagerUpdate, DriverEnds, ManagerKilled
  <2>3. QED
    BY <2>1, <2>2 DEF vars
<1>2. QED
  BY <1>1, DoneCorrect, TypeCorrect, PTL DEF Spec, ErrorStays

-----------------------------------------------------------------------------
(* Why the deployment does not wait for nothing *)

\* An answer about v is on its way: its configuration is in the file or in a
\* cast, its driver is at work, an ack or an error is in transit, or an ack is
\* about to be counted.
Underway(v) ==
  \/ mgr = "init" /\ v \in fileConf
  \/ \E conf \in confCasts : v \in conf
  \/ running[v] > 0
  \/ ackMsgs[v] > 0
  \/ errMsgs[v] > 0
  \/ \E e \in confirming : e[1] = v

\* While no configuration was lost, a VDU that was handed over is configured,
\* has failed, or will be answered.
Owed ==
  lost = {} => \A v \in confGen : v \in Configured \/ v \in errored \/ Underway(v)

\* What the manager may hold in each of its states.
MgrInv ==
  /\ mgr \in {"off", "init"} => known = {}
  /\ confCasts # {} => mgr = "serving"
  /\ \A v \in Vdu : running[v] > 0 => mgr \in {"starting", "serving"}
  /\ \A v \in Vdu : instances[v] <= 1

\* What each place of the deployment has handed over: all it has launched but
\* the wave at hand, which it hands over as a whole.
PlaceInv ==
  /\ pc \in {"launch", "boot"} =>
       /\ wave \cap confGen = {}
       /\ wave \ todo \subseteq deployed
       /\ deployed \subseteq confGen \cup wave
  /\ pc \in {"launch", "boot", "resolve"} => confGen \subseteq Configured
  /\ pc = "wait" => wave \subseteq confGen /\ confGen \subseteq wave \cup Configured
  /\ pc \in {"wait", "resolve"} => deployed \subseteq confGen

OwedInv == Owed /\ MgrInv /\ PlaceInv

\* The manager holds nothing before it has read its file, or when it is gone.
LEMMA MgrStep ==
  ASSUME TypeOK, MgrInv, [Next]_vars
  PROVE  MgrInv'
<1>1. ASSUME NEW v \in Vdu, LaunchVnfds(v) PROVE MgrInv'
  BY <1>1 DEF TypeOK, MgrInv, LaunchVnfds
<1>2. CASE BootActive
  BY <1>2 DEF TypeOK, MgrInv, BootActive
<1>3. CASE BootError
  BY <1>3 DEF TypeOK, MgrInv, BootError
<1>4. CASE BootMulti
  BY <1>4 DEF TypeOK, MgrInv, BootMulti
<1>5. CASE InvokeVnfManager
  BY <1>5 DEF TypeOK, MgrInv, InvokeVnfManager
<1>6. CASE CastConfigureVdus
  BY <1>6 DEF TypeOK, MgrInv, CastConfigureVdus
<1>7. CASE WaitError
  BY <1>7 DEF TypeOK, MgrInv, WaitError
<1>8. CASE WaitDone
  BY <1>8 DEF TypeOK, MgrInv, WaitDone
<1>9. CASE ResolveDependency
  BY <1>9 DEF TypeOK, MgrInv, ResolveDependency
<1>10. CASE DependencyResolved
  BY <1>10 DEF TypeOK, MgrInv, DependencyResolved
<1>11. CASE DeployVnfs
  BY <1>11 DEF TypeOK, MgrInv, DeployVnfs
<1>12. CASE DeployRaises
  BY <1>12 DEF TypeOK, MgrInv, DeployRaises
<1>13. ASSUME NEW v \in Vdu, AckComplete(v) PROVE MgrInv'
  BY <1>13 DEF TypeOK, MgrInv, AckComplete
<1>14. ASSUME NEW v \in Vdu, AckError(v) PROVE MgrInv'
  BY <1>14 DEF TypeOK, MgrInv, AckError
<1>15. ASSUME NEW v \in Vdu, AckErrorStatus(v) PROVE MgrInv'
  BY <1>15 DEF TypeOK, MgrInv, AckErrorStatus
<1>16. ASSUME NEW e \in confirming, AckConfirmed(e) PROVE MgrInv'
  BY <1>16 DEF TypeOK, MgrInv, AckConfirmed
<1>17. ASSUME NEW v \in Vdu, UpdateService(v) PROVE MgrInv'
  BY <1>17 DEF TypeOK, MgrInv, UpdateService
<1>18. CASE ManagerInit
  BY <1>18 DEF TypeOK, MgrInv, ManagerInit, ConfigureKnown, ConfigureRaises
<1>19. CASE ManagerInitEmpty
  BY <1>19 DEF TypeOK, MgrInv, ManagerInitEmpty
<1>20. CASE ManagerServe
  BY <1>20 DEF TypeOK, MgrInv, ManagerServe
<1>21. ASSUME NEW conf \in confCasts, ManagerConfigure(conf) PROVE MgrInv'
  BY <1>21 DEF TypeOK, MgrInv, ManagerConfigure, ConfigureKnown, ConfigureRaises
<1>22. ASSUME NEW v \in Vdu, ManagerUpdate(v) PROVE MgrInv'
  BY <1>22 DEF TypeOK, MgrInv, ManagerUpdate
<1>23. ASSUME NEW v \in Vdu, DriverEnds(v) PROVE MgrInv'
  BY <1>23 DEF TypeOK, MgrInv, DriverEnds
<1>24. CASE ManagerKilled
  BY <1>24 DEF TypeOK, MgrInv, ManagerKilled
<1>25. CASE UNCHANGED vars
  BY <1>25 DEF TypeOK, MgrInv, vars
<1>26. CASE Deploy
  BY <1>1, <1>2, <1>3, <1>4, <1>5, <1>6, <1>7, <1>8, <1>9, <1>10, <1>11, <1>26
  DEF Deploy
<1>27. CASE Acknowledge
  BY <1>13, <1>14, <1>15, <1>16, <1>27 DEF Acknowledge
<1>28. CASE Manager
  BY <1>18, <1>19, <1>20, <1>21, <1>22, <1>23, <1>28 DEF Manager
<1>29. CASE Environment
  BY <1>12, <1>17, <1>24, <1>29 DEF Environment
<1>30. QED
  BY <1>25, <1>26, <1>27, <1>28, <1>29 DEF Next

\* A wave is handed over as a whole, and once.
LEMMA PlaceStep ==
  ASSUME TypeOK, WaveInv, PlaceInv, [Next]_vars
  PROVE  PlaceInv'
<1>0. Configured \subseteq Configured'
  BY ConfiguredGrows
<1>1. ASSUME NEW v \in Vdu, LaunchVnfds(v) PROVE PlaceInv'
  BY <1>1, <1>0 DEF TypeOK, PlaceInv, LaunchVnfds
<1>2. CASE BootActive
  BY <1>2, <1>0 DEF TypeOK, PlaceInv, BootActive, WaveInv
<1>3. CASE BootError
  BY <1>3, <1>0 DEF TypeOK, PlaceInv, BootError
<1>4. CASE BootMulti
  BY <1>4, <1>0 DEF TypeOK, PlaceInv, BootMulti
<1>5. CASE InvokeVnfManager
  BY <1>5, <1>0 DEF TypeOK, PlaceInv, InvokeVnfManager, NewConf
<1>6. CASE CastConfigureVdus
  BY <1>6, <1>0 DEF TypeOK, PlaceInv, CastConfigureVdus, NewConf
<1>7. CASE WaitError
  BY <1>7, <1>0 DEF TypeOK, PlaceInv, WaitError
<1>8. CASE WaitDone
  BY <1>8, <1>0 DEF TypeOK, PlaceInv, WaitDone
<1>9. CASE ResolveDependency
  BY <1>9, <1>0 DEF TypeOK, PlaceInv, ResolveDependency, Ready
<1>10. CASE DependencyResolved
  BY <1>10, <1>0 DEF TypeOK, PlaceInv, DependencyResolved
<1>11. CASE DeployVnfs
  BY <1>11, <1>0 DEF TypeOK, PlaceInv, DeployVnfs
<1>12. CASE DeployRaises
  BY <1>12, <1>0 DEF TypeOK, PlaceInv, DeployRaises
<1>13. ASSUME NEW v \in Vdu, AckComplete(v) PROVE PlaceInv'
  BY <1>13, <1>0 DEF TypeOK, PlaceInv, AckComplete
<1>14. ASSUME NEW v \in Vdu, AckError(v) PROVE PlaceInv'
  BY <1>14, <1>0 DEF TypeOK, PlaceInv, AckError
<1>15. ASSUME NEW v \in Vdu, AckErrorStatus(v) PROVE PlaceInv'
  BY <1>15, <1>0 DEF TypeOK, PlaceInv, AckErrorStatus
<1>16. ASSUME NEW e \in confirming, AckConfirmed(e) PROVE PlaceInv'
  BY <1>16, <1>0 DEF TypeOK, PlaceInv, AckConfirmed
<1>17. ASSUME NEW v \in Vdu, UpdateService(v) PROVE PlaceInv'
  BY <1>17, <1>0 DEF TypeOK, PlaceInv, UpdateService
<1>18. CASE ManagerInit
  BY <1>18, <1>0 DEF TypeOK, PlaceInv, ManagerInit
<1>19. CASE ManagerInitEmpty
  BY <1>19, <1>0 DEF TypeOK, PlaceInv, ManagerInitEmpty
<1>20. CASE ManagerServe
  BY <1>20, <1>0 DEF TypeOK, PlaceInv, ManagerServe
<1>21. ASSUME NEW conf \in confCasts, ManagerConfigure(conf) PROVE PlaceInv'
  BY <1>21, <1>0 DEF TypeOK, PlaceInv, ManagerConfigure
<1>22. ASSUME NEW v \in Vdu, ManagerUpdate(v) PROVE PlaceInv'
  BY <1>22, <1>0 DEF TypeOK, PlaceInv, ManagerUpdate
<1>23. ASSUME NEW v \in Vdu, DriverEnds(v) PROVE PlaceInv'
  BY <1>23, <1>0 DEF TypeOK, PlaceInv, DriverEnds
<1>24. CASE ManagerKilled
  BY <1>24, <1>0 DEF TypeOK, PlaceInv, ManagerKilled
<1>25. CASE UNCHANGED vars
  BY <1>25, <1>0 DEF TypeOK, PlaceInv, vars
<1>26. CASE Deploy
  BY <1>1, <1>2, <1>3, <1>4, <1>5, <1>6, <1>7, <1>8, <1>9, <1>10, <1>11, <1>26
  DEF Deploy
<1>27. CASE Acknowledge
  BY <1>13, <1>14, <1>15, <1>16, <1>27 DEF Acknowledge
<1>28. CASE Manager
  BY <1>18, <1>19, <1>20, <1>21, <1>22, <1>23, <1>28 DEF Manager
<1>29. CASE Environment
  BY <1>12, <1>17, <1>24, <1>29 DEF Environment
<1>30. QED
  BY <1>25, <1>26, <1>27, <1>28, <1>29 DEF Next

\* An answer moves from one place to the next, and is lost only where lost says so.
LEMMA OwedStep ==
  ASSUME TypeOK, HandInv, MgrInv, PlaceInv, Owed, [Next]_vars
  PROVE  Owed'
<1>. DEFINE OK(v) == v \in Configured \/ v \in errored \/ Underway(v)
<1>0. Configured \subseteq Configured'
  BY ConfiguredGrows
<1>. SUFFICES ASSUME lost' = {}, NEW w \in confGen' PROVE OK(w)'
  BY DEF Owed
<1>00. w \in Vdu /\ lost = {} /\ (w \in confGen => OK(w))
  <2>1. TypeOK'
    BY TypeStep
  <2>2. lost \subseteq lost'
    BY DEF Next, Deploy, Acknowledge, Manager, Environment, LaunchVnfds,
      BootActive, BootError, BootMulti, InvokeVnfManager, CastConfigureVdus,
      WaitError, WaitDone, ResolveDependency, DependencyResolved, DeployVnfs,
      DeployRaises, AckComplete, AckError, AckErrorStatus, AckConfirmed,
      UpdateService, ManagerInit, ManagerInitEmpty, ManagerServe,
      ManagerConfigure, ManagerUpdate, DriverEnds, ManagerKilled, vars
  <2>3. lost = {} /\ w \in Vdu
    BY <2>1, <2>2 DEF TypeOK
  <2>4. QED
    BY <2>3 DEF Owed
<1>1. ASSUME NEW v \in Vdu, LaunchVnfds(v) PROVE OK(w)'
  <2>1. UNCHANGED <<mgr, fileConf, confCasts, running, ackMsgs, errMsgs, confirming, errored, confGen>>
    BY <1>1 DEF LaunchVnfds
  <2>2. QED
    BY <1>0, <1>00, <2>1 DEF Underway
<1>2. CASE BootActive
  <2>1. UNCHANGED <<mgr, fileConf, confCasts, running, ackMsgs, errMsgs, confirming, errored, confGen>>
    BY <1>2 DEF BootActive
  <2>2. QED
    BY <1>0, <1>00, <2>1 DEF Underway
<1>3. CASE BootError
  <2>1. UNCHANGED <<mgr, fileConf, confCasts, running, ackMsgs, errMsgs, confirming, errored, confGen>>
    BY <1>3 DEF BootError
  <2>2. QED
    BY <1>0, <1>00, <2>1 DEF Underway
<1>4. CASE BootMulti
  <2>1. UNCHANGED <<mgr, fileConf, confCasts, running, ackMsgs, errMsgs, confirming, errored, confGen>>
    BY <1>4 DEF BootMulti
  <2>2. QED
    BY <1>0, <1>00, <2>1 DEF Underway
<1>5. CASE InvokeVnfManager
  <2>1. CASE w \in confGen
    <3>1. mgr = "off" /\ confCasts' = confCasts /\ UNCHANGED <<running, ackMsgs, errMsgs, confirming, errored>>
      BY <1>5 DEF InvokeVnfManager
    <3>2. QED
      BY <1>0, <1>00, <2>1, <3>1 DEF Underway
  <2>2. CASE w \notin confGen
    BY <1>5, <2>2 DEF InvokeVnfManager, Underway
  <2>3. QED
    BY <2>1, <2>2
<1>6. CASE CastConfigureVdus
  <2>1. CASE w \in confGen
    <3>1. confCasts \subseteq confCasts' /\ UNCHANGED <<mgr, fileConf, running, ackMsgs, errMsgs, confirming, errored>>
      BY <1>6 DEF CastConfigureVdus
    <3>2. QED
      BY <1>0, <1>00, <2>1, <3>1 DEF Underway
  <2>2. CASE w \notin confGen
    <3>1. wave \subseteq deployed /\ wave \cap confGen = {}
      BY <1>6 DEF CastConfigureVdus, PlaceInv
    <3>2. w \in NewConf
      BY <1>6, <2>2, <3>1 DEF CastConfigureVdus, NewConf
    <3>3. mgr = "serving" /\ NewConf \in confCasts'
      BY <1>6, <3>2 DEF CastConfigureVdus
    <3>4. QED
      BY <3>2, <3>3 DEF Underway
  <2>3. QED
    BY <2>1, <2>2
<1>7. CASE WaitError
  <2>1. UNCHANGED <<mgr, fileConf, confCasts, running, ackMsgs, errMsgs, confirming, errored, confGen>>
    BY <1>7 DEF WaitError
  <2>2. QED
    BY <1>0, <1>00, <2>1 DEF Underway
<1>8. CASE WaitDone
  <2>1. UNCHANGED <<mgr, fileConf, confCasts, running, ackMsgs, errMsgs, confirming, errored, confGen>>
    BY <1>8 DEF WaitDone
  <2>2. QED
    BY <1>0, <1>00, <2>1 DEF Underway
<1>9. CASE ResolveDependency
  <2>1. UNCHANGED <<mgr, fileConf, confCasts, running, ackMsgs, errMsgs, confirming, errored, confGen>>
    BY <1>9 DEF ResolveDependency
  <2>2. QED
    BY <1>0, <1>00, <2>1 DEF Underway
<1>10. CASE DependencyResolved
  <2>1. UNCHANGED <<mgr, fileConf, confCasts, running, ackMsgs, errMsgs, confirming, errored, confGen>>
    BY <1>10 DEF DependencyResolved
  <2>2. QED
    BY <1>0, <1>00, <2>1 DEF Underway
<1>11. CASE DeployVnfs
  <2>1. UNCHANGED <<mgr, fileConf, confCasts, running, ackMsgs, errMsgs, confirming, errored, confGen>>
    BY <1>11 DEF DeployVnfs
  <2>2. QED
    BY <1>0, <1>00, <2>1 DEF Underway
<1>12. CASE DeployRaises
  <2>1. UNCHANGED <<mgr, fileConf, confCasts, running, ackMsgs, errMsgs, confirming, errored, confGen>>
    BY <1>12 DEF DeployRaises
  <2>2. QED
    BY <1>0, <1>00, <2>1 DEF Underway
<1>13. ASSUME NEW v \in Vdu, AckComplete(v) PROVE OK(w)'
  <2>1. UNCHANGED <<mgr, fileConf, confCasts, running, errMsgs, errored, confGen>>
        /\ confirming \subseteq confirming' /\ \A u \in Vdu \ {v} : ackMsgs'[u] = ackMsgs[u]
    BY <1>13 DEF AckComplete, TypeOK
  <2>2. CASE w # v
    BY <1>0, <1>00, <2>1, <2>2 DEF Underway
  <2>3. CASE w = v
    <3>1. instances[v] \in Nat /\ acks[v] \in Nat /\ instances[v] <= 1
      BY DEF TypeOK, MgrInv
    <3>2. instances[v] <= acks[v] + 1
      BY <3>1
    <3>3. <<v, acks[v] + 1>> \in confirming'
      BY <1>13, <3>2 DEF AckComplete
    <3>4. \E e \in confirming' : e[1] = w
      BY <2>3, <3>3
    <3>5. QED
      BY <3>4 DEF Underway
  <2>4. QED
    BY <2>2, <2>3
<1>14. ASSUME NEW v \in Vdu, AckError(v) PROVE OK(w)'
  <2>1. UNCHANGED <<mgr, fileConf, confCasts, running, ackMsgs, confirming, confGen>>
        /\ errored' = errored \cup {v} /\ \A u \in Vdu \ {v} : errMsgs'[u] = errMsgs[u]
    BY <1>14 DEF AckError, TypeOK
  <2>2. QED
    BY <1>0, <1>00, <2>1 DEF Underway
<1>15. ASSUME NEW v \in Vdu, AckErrorStatus(v) PROVE OK(w)'
  <2>1. UNCHANGED <<mgr, fileConf, confCasts, running, ackMsgs, errMsgs, confirming, errored, confGen>>
    BY <1>15 DEF AckErrorStatus
  <2>2. QED
    BY <1>0, <1>00, <2>1 DEF Underway
<1>16. ASSUME NEW e \in confirming, AckConfirmed(e) PROVE OK(w)'
  <2>1. UNCHANGED <<mgr, fileConf, confCasts, running, ackMsgs, errMsgs, errored, confGen>>
        /\ confirming' = confirming \ {e} /\ e \in configured'
    BY <1>16 DEF AckConfirmed
  <2>2. e[1] \in Configured'
    BY <2>1 DEF Configured
  <2>3. QED
    BY <1>0, <1>00, <2>1, <2>2 DEF Underway
<1>17. ASSUME NEW v \in Vdu, UpdateService(v) PROVE OK(w)'
  <2>1. UNCHANGED <<mgr, fileConf, confCasts, running, ackMsgs, errMsgs, confirming, errored, confGen>>
    BY <1>17 DEF UpdateService
  <2>2. QED
    BY <1>0, <1>00, <2>1 DEF Underway
<1>18. CASE ManagerInit
  <2>1. mgr = "init" /\ known = {} /\ ConfigureKnown(fileConf)
        /\ UNCHANGED <<confCasts, errMsgs, confirming, errored, confGen>>
    BY <1>18, <1>00 DEF ManagerInit, MgrInv
  <2>2. \A u \in Vdu : /\ ackMsgs'[u] >= ackMsgs[u] /\ running'[u] >= running[u]
                       /\ u \in fileConf => ackMsgs'[u] > 0 \/ running'[u] > 0
    BY <2>1 DEF ConfigureKnown, TypeOK
  <2>3. ackMsgs[w] \in Nat /\ running[w] \in Nat /\ ackMsgs'[w] \in Nat /\ running'[w] \in Nat
    BY <1>00, TypeStep DEF TypeOK
  <2>4. QED
    BY <1>0, <1>00, <2>1, <2>2, <2>3 DEF Underway
<1>19. CASE ManagerInitEmpty
  <2>1. fileConf = {} /\ UNCHANGED <<fileConf, confCasts, running, ackMsgs, errMsgs, confirming, errored, confGen>>
    BY <1>19 DEF ManagerInitEmpty
  <2>2. QED
    BY <1>0, <1>00, <2>1 DEF Underway
<1>20. CASE ManagerServe
  <2>1. mgr = "starting" /\ UNCHANGED <<fileConf, confCasts, running, ackMsgs, errMsgs, confirming, errored, confGen>>
    BY <1>20 DEF ManagerServe
  <2>2. QED
    BY <1>0, <1>00, <2>1 DEF Underway
<1>21. ASSUME NEW conf \in confCasts, ManagerConfigure(conf) PROVE OK(w)'
  <2>1. ConfigureKnown(conf) /\ confCasts' = confCasts \ {conf}
        /\ UNCHANGED <<mgr, fileConf, errMsgs, confirming, errored, confGen>>
    BY <1>21, <1>00 DEF ManagerConfigure, ConfigureRaises
  <2>2. conf \cap known = {}
    BY DEF HandInv, HandedOverOnce
  <2>3. \A u \in Vdu : /\ ackMsgs'[u] >= ackMsgs[u] /\ running'[u] >= running[u]
                       /\ u \in conf => ackMsgs'[u] > 0 \/ running'[u] > 0
    BY <2>1, <2>2 DEF ConfigureKnown, TypeOK
  <2>4. ackMsgs[w] \in Nat /\ running[w] \in Nat /\ ackMsgs'[w] \in Nat /\ running'[w] \in Nat
    BY <1>00, TypeStep DEF TypeOK
  <2>5. QED
    BY <1>0, <1>00, <2>1, <2>3, <2>4 DEF Underway
<1>22. ASSUME NEW v \in Vdu, ManagerUpdate(v) PROVE OK(w)'
  <2>1. UNCHANGED <<mgr, fileConf, confCasts, errMsgs, confirming, errored, confGen>>
    BY <1>22 DEF ManagerUpdate
  <2>2. ackMsgs[w] \in Nat /\ running[w] \in Nat /\ ackMsgs'[w] \in Nat /\ running'[w] \in Nat
    BY <1>00, TypeStep DEF TypeOK
  <2>3. ackMsgs'[w] >= ackMsgs[w] /\ running'[w] >= running[w]
    BY <1>22, <1>00, <2>2 DEF ManagerUpdate, TypeOK
  <2>4. QED
    BY <1>0, <1>00, <2>1, <2>2, <2>3 DEF Underway
<1>23. ASSUME NEW v \in Vdu, DriverEnds(v) PROVE OK(w)'
  <2>1. UNCHANGED <<mgr, fileConf, confCasts, confirming, errored, confGen>>
    BY <1>23 DEF DriverEnds
  <2>2. /\ ackMsgs[w] \in Nat /\ running[w] \in Nat /\ errMsgs[w] \in Nat
        /\ ackMsgs'[w] \in Nat /\ running'[w] \in Nat /\ errMsgs'[w] \in Nat
    BY <1>00, TypeStep DEF TypeOK
  <2>3. /\ ackMsgs'[w] >= ackMsgs[w] /\ errMsgs'[w] >= errMsgs[w]
        /\ IF w = v THEN ackMsgs'[w] > 0 \/ errMsgs'[w] > 0 ELSE running'[w] = running[w]
    BY <1>23, <1>00, <2>2 DEF DriverEnds, TypeOK
  <2>4. QED
    BY <1>0, <1>00, <2>1, <2>2, <2>3 DEF Underway
<1>24. CASE ManagerKilled
  <2>1. UNCHANGED <<ackMsgs, errMsgs, confirming, errored, confGen>>
    BY <1>24 DEF ManagerKilled
  <2>2. /\ mgr = "init" => fileConf = {}
        /\ UNION confCasts = {} /\ \A u \in Vdu : ~(running[u] > 0)
    BY <1>24 DEF ManagerKilled
  <2>3. QED
    BY <1>0, <1>00, <2>1, <2>2 DEF Underway
<1>25. CASE UNCHANGED vars
  <2>1. UNCHANGED <<mgr, fileConf, confCasts, running, ackMsgs, errMsgs, confirming, errored, confGen>>
    BY <1>25 DEF vars
  <2>2. QED
    BY <1>0, <1>00, <2>1 DEF Underway
<1>26. CASE Deploy
  BY <1>1, <1>2, <1>3, <1>4, <1>5, <1>6, <1>7, <1>8, <1>9, <1>10, <1>11, <1>26
  DEF Deploy
<1>27. CASE Acknowledge
  BY <1>13, <1>14, <1>15, <1>16, <1>27 DEF Acknowledge
<1>28. CASE Manager
  BY <1>18, <1>19, <1>20, <1>21, <1>22, <1>23, <1>28 DEF Manager
<1>29. CASE Environment
  BY <1>12, <1>17, <1>24, <1>29 DEF Environment
<1>30. QED
  BY <1>25, <1>26, <1>27, <1>28, <1>29 DEF Next

\* OwedInv is an invariant of the deployment.
LEMMA OwedCorrect == Spec => [](TypeOK /\ OwedInv)
<1>1. Init => TypeOK /\ WaveInv /\ HandInv /\ OwedInv
  <2>1. Init => HandInv
    BY DEF Init, HandInv, HandedOverOnce
  <2>2. Init => OwedInv
    BY DEF Init, OwedInv, Owed, MgrInv, PlaceInv
  <2>3. QED
    BY <2>1, <2>2, TypeInit, WaveInit
<1>2. TypeOK /\ WaveInv /\ HandInv /\ OwedInv /\ [Next]_vars
        => (TypeOK /\ WaveInv /\ HandInv /\ OwedInv)'
  BY TypeStep, WaveStep, HandStep, MgrStep, PlaceStep, OwedStep DEF OwedInv
<1>3. QED
  BY <1>1, <1>2, PTL DEF Spec

\* The loop of wait_for_acknowledgment waits only for answers that come.
WaitHasAnswer ==
  pc = "wait" /\ lost = {} =>
    \A v \in wave : v \in Configured \/ v \in errored \/ Underway(v)

\* The loop of _resolve_dependency finds a VDU to launch in every round.
RoundHasVdu ==
  pc = "resolve" /\ ~AllConfigured /\ updates = 0 /\ ~Cyclic => Ready # {}

\* The safety half of DeployStops: while the manager has missed no
\* configuration, the greenthread waits (wait_for_acknowledgment) only for
\* VDUs that are configured, have failed or will be answered, updates or not.
THEOREM NeverWaitsForNothing == Spec => []WaitHasAnswer
<1>1. TypeOK /\ OwedInv => WaitHasAnswer
  BY DEF OwedInv, Owed, PlaceInv, WaitHasAnswer
<1>2. QED
  BY <1>1, OwedCorrect, PTL

\* Where every VDU is configured, the lengths agree as well.
LEMMA LengthsNeeded ==
  ASSUME TypeOK, DoneInv, updates = 0, Configured = Vdu
  PROVE  AllConfigured
<1>1. configured \subseteq Vdu \X {1}
  BY OneAck
<1>2. \A v \in Vdu : <<v, 1>> \in configured
  <2>1. TAKE v \in Vdu
  <2>2. PICK e \in configured : v = e[1]
    BY DEF Configured
  <2>3. QED
    BY <1>1, <2>2
<1>. DEFINE f == [v \in Vdu |-> <<v, 1>>]
<1>3. f \in Bijection(Vdu, configured)
  <2>1. f \in [Vdu -> configured]
    BY <1>2
  <2>2. \A v, w \in Vdu : f[v] = f[w] => v = w
    OBVIOUS
  <2>3. \A e \in configured : \E v \in Vdu : f[v] = e
    BY <1>1
  <2>4. QED
    BY <2>1, <2>2, <2>3 DEF Bijection, Injection, Surjection, IsInjective
<1>4. Cardinality(Vdu) = Cardinality(configured)
  BY <1>3, VduAssumption, FS_Bijection DEF ExistsBijection
<1>5. QED
  BY <1>4 DEF AllConfigured

\* Unless the template is cyclic or an update request added acks, every round
\* of _resolve_dependency has a VDU to launch: its loop, which compares two
\* lengths, does not go round and round without one.
THEOREM EveryRoundLaunches == Spec => []RoundHasVdu
<1>1. TypeOK /\ DoneInv => RoundHasVdu
  <2>. SUFFICES ASSUME TypeOK, DoneInv, ~AllConfigured, updates = 0, Ready = {}
                PROVE  Cyclic
    BY DEF RoundHasVdu
  <2>. DEFINE S == Vdu \ Configured
  <2>1. Configured \subseteq Vdu /\ Configured # Vdu
    BY LengthsNeeded DEF Configured, TypeOK
  <2>2. S \in (SUBSET Vdu) \ {{}}
    BY <2>1
  <2>3. ASSUME NEW v \in S PROVE tmpl.from[v] \cap S # {}
    <3>1. ~(tmpl.from[v] \subseteq Configured)
      BY <2>3 DEF Ready
    <3>2. tmpl.from[v] \subseteq Vdu
      BY TemplateAssumption DEF TypeOK, Template
    <3>3. QED
      BY <3>1, <3>2
  <2>4. QED
    BY <2>2, <2>3 DEF Cyclic
<1>2. QED
  BY <1>1, DoneCorrect, TypeCorrect, PTL


-----------------------------------------------------------------------------
(* Why an error is reported *)

\* A VDU that has failed is about to be written to the status, or has been.
ErrorOnItsWay ==
  updates = 0 /\ errored # {} => failing # {} \/ status = "ERROR"

\* The safety half of ErrorReported: between the ack that lists an error and
\* the transaction that writes it (build_acknowledge_list), nothing makes the
\* plugin forget it, and the end of deploy_vnfs does not overwrite it.
THEOREM ErrorsOnTheirWay == Spec => []ErrorOnItsWay
<1>1. Init => ErrorOnItsWay
  BY DEF Init, ErrorOnItsWay
<1>2. TypeOK /\ DoneInv /\ ErrorOnItsWay /\ [Next]_vars => ErrorOnItsWay'
  <2> SUFFICES ASSUME TypeOK, DoneInv, ErrorOnItsWay, [Next]_vars, updates' = 0, errored' # {}
               PROVE  failing' # {} \/ status' = "ERROR"
    BY DEF ErrorOnItsWay
  <2>1. updates = 0
    BY DEF TypeOK, Next, Deploy, Acknowledge, Manager, Environment, LaunchVnfds,
      BootActive, BootError, BootMulti, InvokeVnfManager, CastConfigureVdus,
      WaitError, WaitDone, ResolveDependency, DependencyResolved, DeployVnfs,
      DeployRaises, AckComplete, AckError, AckErrorStatus, AckConfirmed,
      UpdateService, ManagerInit, ManagerInitEmpty, ManagerServe,
      ManagerConfigure, ManagerUpdate, DriverEnds, ManagerKilled, vars
  <2>2. ASSUME NEW v \in Vdu, AckError(v) PROVE failing' # {}
    BY <2>2 DEF AckError
  <2>3. ASSUME NEW v \in Vdu, AckErrorStatus(v) PROVE status' = "ERROR"
    BY <2>3 DEF AckErrorStatus
  <2>4. CASE DeployVnfs
    <3>1. Configured = Vdu /\ errored' = errored
      BY <2>1, <2>4 DEF DoneInv, DeployVnfs
    <3>2. errored = {}
      BY <2>1, <3>1, OneAck DEF TypeOK
    <3>3. QED
      BY <3>1, <3>2
  <2>5. CASE BootError
    BY <2>5 DEF BootError
  <2>6. CASE UNCHANGED <<errored, failing, status>>
    BY <2>1, <2>6 DEF ErrorOnItsWay
  <2>7. UNCHANGED <<errored, failing, status>> \/ DeployVnfs \/ BootError
          \/ \E v \in Vdu : AckError(v) \/ AckErrorStatus(v)
    BY DEF Next, Deploy, Acknowledge, Manager, Environment, LaunchVnfds,
      BootActive, BootMulti, InvokeVnfManager, CastConfigureVdus,
      WaitError, WaitDone, ResolveDependency, DependencyResolved,
      DeployRaises, AckComplete, AckConfirmed,
      UpdateService, ManagerInit, ManagerInitEmpty, ManagerServe,
      ManagerConfigure, ManagerUpdate, DriverEnds, ManagerKilled, vars
  <2>8. QED
    BY <2>2, <2>3, <2>4, <2>5, <2>6, <2>7
<1>3. QED
  BY <1>1, <1>2, DoneCorrect, TypeCorrect, PTL DEF Spec
=============================================================================
