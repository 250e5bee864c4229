--------------------------- MODULE Netconfd_proofs ---------------------------
(***************************************************************************)
(* Proofs about Netconfd, for any sessions, contents, tokens and failures. *)
(* The heart is Settled: whatever ends a trial, startup holds what running *)
(* goes back to.  With it the server implements ConfirmedCommit.           *)
(***************************************************************************)
EXTENDS Netconfd, TLAPS

(***************************************************************************)
(* The parts of a step that several actions share.                         *)

\* A load gives a content of the file or leaves the one there was.
LEMMA LoadedType ==
  ASSUME NEW file \in Content \cup {NoFile}, NEW sid, NEW failed \in BOOLEAN,
         NEW content \in Content
  PROVE  Loaded(file, sid, failed, content) \in Content
BY FilesReal DEF Loaded, LoadOk

\* A load that neither failed nor was refused gives the content of the file.
LEMMA LoadedFile ==
  ASSUME NEW file \in Content, NEW sid, NEW failed \in BOOLEAN, NEW content,
         LoadTried(sid, failed), ~refused', "load" \notin Kinds(failed)
  PROVE  Loaded(file, sid, failed, content) = file
BY FilesReal DEF Loaded, LoadOk, LoadTried, Kinds

LEMMA TrialType ==
  ASSUME NEW s \in Session, NEW p \in PersistId \cup {NoId}
  PROVE  Trial(s, p) \in Trials
BY DEF Trials

\* The types of what a commit changes.
LEMMA ApplyType ==
  ASSUME TypeOK, NEW extended \in BOOLEAN, NEW save \in BOOLEAN,
         NEW saved \in Content, Apply(extended, save, saved)
  PROVE  /\ candidate' \in Content /\ dirty' \in BOOLEAN /\ marks' \in BOOLEAN
         /\ running' \in Content /\ startup' \in Content
         /\ backup' \in Content \cup {NoFile}
         /\ faults' \subseteq FaultKind /\ refused' \in BOOLEAN
<1>1. Applied \in Content
  BY DEF Applied, TypeOK
<1>2. CASE backup' = backup /\ UNCHANGED <<running, store, refused>> /\ startup' = saved /\ Fails({"backup"})
  BY <1>2 DEF TypeOK, store, Fails, FaultKind
<1>3. CASE backup' = IF extended THEN backup ELSE running
  <2>1. backup' \in Content \cup {NoFile}
    BY <1>3 DEF TypeOK
  <2>2. CASE /\ running' = Applied
             /\ startup' = IF save THEN running' ELSE saved
             /\ Refill(running')
             /\ UNCHANGED <<faults, refused>>
    BY <1>1, <2>1, <2>2 DEF TypeOK, Refill
  <2>3. CASE /\ Fails({"callback"})
             /\ startup' = saved
             /\ UNCHANGED <<running, store, refused>>
    BY <2>1, <2>3 DEF TypeOK, store, Fails, FaultKind
  <2>4. ASSUME NEW failed \in BOOLEAN,
               startup' = saved,
               Fails({"rollback"} \cup Kinds(failed)),
               running' = Loaded(backup', cc'.ses, failed, running),
               LoadTried(cc'.ses, failed),
               UNCHANGED store
        PROVE  /\ candidate' \in Content /\ dirty' \in BOOLEAN /\ marks' \in BOOLEAN
               /\ running' \in Content /\ startup' \in Content
               /\ backup' \in Content \cup {NoFile}
               /\ faults' \subseteq FaultKind /\ refused' \in BOOLEAN
    <3>1. running' \in Content
      BY <2>1, <2>4, LoadedType DEF TypeOK
    <3>2. faults' \subseteq FaultKind /\ refused' \in BOOLEAN
      BY <2>4 DEF TypeOK, Fails, Kinds, FaultKind, LoadTried, LoadRefused
    <3>3. QED
      BY <2>1, <2>4, <3>1, <3>2 DEF TypeOK, store
  <2>5. ASSUME NEW failed \in BOOLEAN,
               startup' = saved,
               Fails({"late"} \cup Kinds(failed)),
               running' = Loaded(backup', cc'.ses, failed, Applied),
               LoadTried(cc'.ses, failed),
               candidate' \in {candidate} \cup (IF marks THEN {Empty} ELSE {}),
               marks' = FALSE,
               UNCHANGED dirty
        PROVE  /\ candidate' \in Content /\ dirty' \in BOOLEAN /\ marks' \in BOOLEAN
               /\ running' \in Content /\ startup' \in Content
               /\ backup' \in Content \cup {NoFile}
               /\ faults' \subseteq FaultKind /\ refused' \in BOOLEAN
    <3>1. running' \in Content
      BY <1>1, <2>1, <2>5, LoadedType
    <3>2. faults' \subseteq FaultKind /\ refused' \in BOOLEAN
      BY <2>5 DEF TypeOK, Fails, Kinds, FaultKind, LoadTried, LoadRefused
    <3>3. QED
      BY <2>1, <2>5, <3>1, <3>2, EmptyIsContent DEF TypeOK
  <2>6. QED
    BY <1>2, <1>3, <2>2, <2>3, <2>4, <2>5 DEF Apply
<1>4. QED
  BY <1>2, <1>3 DEF Apply

\* The types of what the end of a trial changes.
LEMMA CancelType ==
  ASSUME TypeOK, Cancel
  PROVE  /\ candidate' \in Content /\ dirty' \in BOOLEAN /\ marks' \in BOOLEAN
         /\ running' \in Content /\ cc' = NoTrial /\ expired' = FALSE
         /\ faults' \subseteq FaultKind /\ refused' \in BOOLEAN
         /\ forgotten' = FALSE
<1>1. PICK failed \in BOOLEAN :
        /\ Fails(Kinds(failed))
        /\ running' = Loaded(backup, NoSession, failed, running)
        /\ IF LoadOk(backup, NoSession, failed) THEN Refill(running') ELSE UNCHANGED store
        /\ LoadTried(NoSession, failed)
  BY DEF Cancel
<1>2. running' \in Content
  BY <1>1, LoadedType DEF TypeOK
<1>3. faults' \subseteq FaultKind /\ refused' \in BOOLEAN
  BY <1>1 DEF TypeOK, Fails, Kinds, FaultKind, LoadTried, LoadRefused
<1>4. candidate' \in Content /\ dirty' \in BOOLEAN /\ marks' \in BOOLEAN
  BY <1>1, <1>2 DEF TypeOK, Refill, store
<1>5. QED
  BY <1>2, <1>3, <1>4 DEF Cancel

\* The types of what the end of a session changes.
LEMMA KillType ==
  ASSUME TypeOK, NEW t \in Session, Kill(t), UNCHANGED <<stop>>, input' \in BOOLEAN
  PROVE  TypeOK'
<1>1. /\ open' \subseteq Session /\ owner' \in [Datastore -> Session \cup {NoSession}]
      /\ startup' \in Content /\ backup' \in Content \cup {NoFile}
  BY DEF TypeOK, Kill, Free, files
<1>2. CASE cc.active /\ cc.ses = t /\ cc.persist = NoId
  <2>1. PICK failed \in BOOLEAN :
          /\ Fails(Kinds(failed))
          /\ running' = Loaded(backup, NoSession, failed, running)
          /\ IF LoadOk(backup, NoSession, failed) \/ owner["candidate"] = t
             THEN Refill(running') ELSE UNCHANGED store
          /\ LoadTried(NoSession, failed)
    BY <1>2 DEF Kill
  <2>2. running' \in Content
    BY <2>1, LoadedType DEF TypeOK
  <2>3. faults' \subseteq FaultKind /\ refused' \in BOOLEAN
    BY <2>1 DEF TypeOK, Fails, Kinds, FaultKind, LoadTried, LoadRefused
  <2>4. candidate' \in Content /\ dirty' \in BOOLEAN /\ marks' \in BOOLEAN
    BY <2>1, <2>2 DEF TypeOK, Refill, store
  <2>5. cc' = NoTrial /\ expired' = FALSE /\ forgotten' = FALSE
    BY <1>2 DEF Kill
  <2>6. QED
    BY <1>1, <2>2, <2>3, <2>4, <2>5 DEF TypeOK
<1>3. CASE ~(cc.active /\ cc.ses = t /\ cc.persist = NoId)
  <2>1. cc' \in Trials \cup {NoTrial}
    BY <1>3 DEF Kill, TypeOK, Trials, Trial, NoTrial
  <2>2. candidate' \in Content /\ dirty' \in BOOLEAN /\ marks' \in BOOLEAN
    BY <1>3 DEF Kill, TypeOK, Refill, store
  <2>3. UNCHANGED <<running, expired, history>>
    BY <1>3 DEF Kill
  <2>4. QED
    BY <1>1, <2>1, <2>2, <2>3 DEF TypeOK, history
<1>4. QED
  BY <1>2, <1>3

(***************************************************************************)
(* Type correctness.                                                       *)

\* The server starts with values of the right types.
LEMMA InitType == Init => TypeOK
BY DEF Init, TypeOK, NoTrial

\* Every step keeps the types.
LEMMA NextType == TypeOK /\ [Next]_vars => TypeOK'
<1> SUFFICES ASSUME TypeOK, [Next]_vars PROVE TypeOK'
  OBVIOUS
<1> USE EmptyIsContent
<1>1. CASE Arrive
  BY <1>1
  DEF TypeOK, Arrive, store, files, history
<1>2. ASSUME NEW s \in Session, NewSession(s) PROVE TypeOK'
  BY <1>2
  DEF TypeOK, NewSession, store, files, history
<1>3. ASSUME NEW s \in Session, NoEffect(s) PROVE TypeOK'
  BY <1>3
  DEF TypeOK, NoEffect, Request, store, files, history
<1>4. ASSUME NEW s \in Session, NEW x \in Content, Edit(s, x) PROVE TypeOK'
  BY <1>4
  DEF TypeOK, Edit, Request, OkToWrite, store, files, history
<1>5. ASSUME NEW s \in Session, CopyRunning(s) PROVE TypeOK'
  BY <1>5
  DEF TypeOK, CopyRunning, Request, OkToWrite, Refill, store, files, history
<1>6. ASSUME NEW s \in Session, DiscardChanges(s) PROVE TypeOK'
  BY <1>6
  DEF TypeOK, DiscardChanges, Request, OkToWrite, Refill, store, files, history
<1>7. ASSUME NEW s \in Session, NEW d \in Datastore, Lock(s, d) PROVE TypeOK'
  BY <1>7
  DEF TypeOK, Lock, Request, store, files, history
<1>8. ASSUME NEW s \in Session, NEW d \in Datastore, Unlock(s, d) PROVE TypeOK'
  BY <1>8
  DEF TypeOK, Unlock, Request, Refill, store, files, history
<1>9. ASSUME NEW s \in Session, CommitPlain(s) PROVE TypeOK'
  <2>1. Apply(FALSE, TRUE, startup) /\ startup \in Content /\ running \in Content
    BY <1>9 DEF CommitPlain, TypeOK
  <2>2. /\ candidate' \in Content /\ dirty' \in BOOLEAN /\ marks' \in BOOLEAN
        /\ running' \in Content /\ startup' \in Content
        /\ backup' \in Content \cup {NoFile}
        /\ faults' \subseteq FaultKind /\ refused' \in BOOLEAN
    BY <2>1, ApplyType
  <2>3. cc' \in Trials \cup {NoTrial} /\ expired' \in BOOLEAN /\ forgotten' \in BOOLEAN
    BY <1>9, TrialType DEF CommitPlain, TypeOK, Request
  <2>4. QED
    BY <1>9, <2>2, <2>3 DEF CommitPlain, TypeOK, Request
<1>10. ASSUME NEW s \in Session, NEW p \in PersistId \cup {NoId}, CommitBegin(s, p) PROVE TypeOK'
  <2>1. Apply(FALSE, FALSE, startup) /\ startup \in Content /\ running \in Content
    BY <1>10 DEF CommitBegin, TypeOK
  <2>2. /\ candidate' \in Content /\ dirty' \in BOOLEAN /\ marks' \in BOOLEAN
        /\ running' \in Content /\ startup' \in Content
        /\ backup' \in Content \cup {NoFile}
        /\ faults' \subseteq FaultKind /\ refused' \in BOOLEAN
    BY <2>1, ApplyType
  <2>3. cc' \in Trials \cup {NoTrial} /\ expired' \in BOOLEAN /\ forgotten' \in BOOLEAN
    BY <1>10, TrialType DEF CommitBegin, TypeOK, Request
  <2>4. QED
    BY <1>10, <2>2, <2>3 DEF CommitBegin, TypeOK, Request
<1>11. ASSUME NEW s \in Session, NEW p \in PersistId \cup {NoId}, NEW q \in PersistId \cup {NoId}, CommitExtend(s, p, q) PROVE TypeOK'
  <2>1. Apply(TRUE, FALSE, startup) /\ startup \in Content /\ running \in Content
    BY <1>11 DEF CommitExtend, TypeOK
  <2>2. /\ candidate' \in Content /\ dirty' \in BOOLEAN /\ marks' \in BOOLEAN
        /\ running' \in Content /\ startup' \in Content
        /\ backup' \in Content \cup {NoFile}
        /\ faults' \subseteq FaultKind /\ refused' \in BOOLEAN
    BY <2>1, ApplyType
  <2>3. cc' \in Trials \cup {NoTrial} /\ expired' \in BOOLEAN /\ forgotten' \in BOOLEAN
    BY <1>11, TrialType DEF CommitExtend, TypeOK, Request
  <2>4. QED
    BY <1>11, <2>2, <2>3 DEF CommitExtend, TypeOK, Request
<1>12. ASSUME NEW s \in Session, NEW p \in PersistId \cup {NoId}, CommitFinish(s, p) PROVE TypeOK'
  <2>1. Apply(FALSE, TRUE, running) /\ startup \in Content /\ running \in Content
    BY <1>12 DEF CommitFinish, TypeOK
  <2>2. /\ candidate' \in Content /\ dirty' \in BOOLEAN /\ marks' \in BOOLEAN
        /\ running' \in Content /\ startup' \in Content
        /\ backup' \in Content \cup {NoFile}
        /\ faults' \subseteq FaultKind /\ refused' \in BOOLEAN
    BY <2>1, ApplyType
  <2>3. cc' \in Trials \cup {NoTrial} /\ expired' \in BOOLEAN /\ forgotten' \in BOOLEAN
    BY <1>12, TrialType DEF CommitFinish, TypeOK, Request
  <2>4. QED
    BY <1>12, <2>2, <2>3 DEF CommitFinish, TypeOK, Request
<1>13. ASSUME NEW s \in Session, NEW p \in PersistId \cup {NoId}, CancelCommit(s, p) PROVE TypeOK'
  BY <1>13, CancelType
  DEF CancelCommit, TypeOK, Request, files
<1>14. ASSUME NEW s \in Session, CloseSession(s) PROVE TypeOK'
  BY <1>14, KillType
  DEF CloseSession, Request
<1>15. ASSUME NEW s \in Session, NEW t \in Session, KillSession(s, t) PROVE TypeOK'
  BY <1>15, KillType
  DEF KillSession, Request
<1>16. ASSUME NEW s \in Session, IdleTimeout(s) PROVE TypeOK'
  BY <1>16, KillType
  DEF IdleTimeout, TypeOK
<1>17. ASSUME NEW s \in Session, BadMessage(s) PROVE TypeOK'
  BY <1>17
  DEF TypeOK, BadMessage, Request, Free, Refill, store, files, history
<1>18. CASE Tick
  BY <1>18
  DEF TypeOK, Tick, store, files, history
<1>19. CASE CcTimeout
  BY <1>19, CancelType
  DEF CcTimeout, TypeOK, files
<1>20. CASE Restart
  BY <1>20
  DEF TypeOK, Restart, Refill, NoTrial, store, files, history
<1>21. CASE UNCHANGED vars
  BY <1>21
  DEF TypeOK, vars
<1>22. QED
  BY <1>1, <1>2, <1>3, <1>4, <1>5, <1>6, <1>7, <1>8, <1>9, <1>10, <1>11, <1>12, <1>13, <1>14, <1>15, <1>16, <1>17, <1>18, <1>19, <1>20, <1>21 DEF Next, ById

\* Every variable always has a value of its type.
THEOREM TypeCorrect == Spec => []TypeOK
<1>1. QED
  BY InitType, NextType, PTL DEF Spec

(***************************************************************************)
(* The parts of the invariant.                                             *)

\* A commit's history: failures are only added.
LEMMA ApplyHistory ==
  ASSUME NEW extended, NEW save, NEW saved, Apply(extended, save, saved)
  PROVE  faults \subseteq faults'
BY DEF Apply, Fails

\* The candidate after a commit that did not fail after its edits.
LEMMA ApplyTakes ==
  ASSUME CommitTakesCandidate, NEW extended, NEW save, NEW saved,
         Apply(extended, save, saved), faults' \cap {"late", "rollback"} = {}
  PROVE  Applied' = candidate'
<1>1. Applied = candidate
  BY ApplyHistory DEF CommitTakesCandidate
<1>2. CASE UNCHANGED <<running, store>>
  BY <1>1, <1>2 DEF Applied, store
<1>3. CASE Refill(running')
  BY <1>3 DEF Refill, Applied
<1>4. QED
  BY <1>2, <1>3 DEF Apply, Fails

\* The session that ends takes its locks with it.
LEMMA KillHolds ==
  ASSUME TypeOK, CommitterLocks, NEW t \in Session, Kill(t)
  PROVE  CommitterLocks'
<1> SUFFICES ASSUME NEW d \in Datastore, cc'.active, owner'[d] # NoSession
             PROVE  owner'[d] = cc'.ses
  BY DEF CommitterLocks
<1>1. owner[d] # t /\ owner'[d] = owner[d] /\ owner[d] # NoSession
  BY SessionsReal DEF Kill, Free
<1>2. cc' = IF cc.ses = t THEN [cc EXCEPT !.ses = NoSession] ELSE cc
  BY DEF Kill, NoTrial
<1>3. cc.active /\ cc.ses = owner[d]
  BY <1>1, <1>2 DEF CommitterLocks, TypeOK, Trials, Trial, NoTrial
<1>4. QED
  BY <1>1, <1>2, <1>3

\* Whoever holds a lock while a trial is pending is its session.
LEMMA NextHolds == TypeOK /\ CommitterLocks /\ [Next]_vars => CommitterLocks'
<1> SUFFICES ASSUME TypeOK, CommitterLocks, [Next]_vars PROVE CommitterLocks'
  OBVIOUS
<1> USE SessionsReal DEF TypeOK, CommitterLocks
<1>1. CASE Arrive
  BY <1>1
  DEF Arrive, store, files, history
<1>2. ASSUME NEW s \in Session, NewSession(s) PROVE CommitterLocks'
  BY <1>2
  DEF NewSession, store, files, history
<1>3. ASSUME NEW s \in Session, NoEffect(s) PROVE CommitterLocks'
  BY <1>3
  DEF NoEffect, Request, store, files, history
<1>4. ASSUME NEW s \in Session, NEW x \in Content, Edit(s, x) PROVE CommitterLocks'
  BY <1>4
  DEF Edit, Request, OkToWrite, store, files, history
<1>5. ASSUME NEW s \in Session, CopyRunning(s) PROVE CommitterLocks'
  BY <1>5
  DEF CopyRunning, Request, OkToWrite, Refill, store, files, history
<1>6. ASSUME NEW s \in Session, DiscardChanges(s) PROVE CommitterLocks'
  BY <1>6
  DEF DiscardChanges, Request, OkToWrite, Refill, store, files, history
<1>7. ASSUME NEW s \in Session, NEW d \in Datastore, Lock(s, d) PROVE CommitterLocks'
  BY <1>7
  DEF Lock, Request, store, files, history
<1>8. ASSUME NEW s \in Session, NEW d \in Datastore, Unlock(s, d) PROVE CommitterLocks'
  BY <1>8
  DEF Unlock, Request, Refill, store, files, history
<1>9. ASSUME NEW s \in Session, CommitPlain(s) PROVE CommitterLocks'
  BY <1>9
  DEF CommitPlain, Request, store, files, history, CommitAllowed, OkToWrite
<1>10. ASSUME NEW s \in Session, NEW p \in PersistId \cup {NoId}, CommitBegin(s, p) PROVE CommitterLocks'
  BY <1>10
  DEF CommitBegin, Request, Trial, store, files, history, CommitAllowed, OkToWrite
<1>11. ASSUME NEW s \in Session, NEW p \in PersistId \cup {NoId}, NEW q \in PersistId \cup {NoId}, CommitExtend(s, p, q) PROVE CommitterLocks'
  BY <1>11
  DEF CommitExtend, Request, Trial, store, files, history, CommitAllowed, OkToWrite
<1>12. ASSUME NEW s \in Session, NEW p \in PersistId \cup {NoId}, CommitFinish(s, p) PROVE CommitterLocks'
  BY <1>12
  DEF CommitFinish, Request, NoTrial, store, files, history
<1>13. ASSUME NEW s \in Session, NEW p \in PersistId \cup {NoId}, CancelCommit(s, p) PROVE CommitterLocks'
  BY <1>13
  DEF CancelCommit, Request, Cancel, NoTrial, Refill, store, files, history
<1>14. ASSUME NEW s \in Session, CloseSession(s) PROVE CommitterLocks'
  BY <1>14, KillHolds DEF CloseSession
<1>15. ASSUME NEW s \in Session, NEW t \in Session, KillSession(s, t) PROVE CommitterLocks'
  BY <1>15, KillHolds DEF KillSession
<1>16. ASSUME NEW s \in Session, IdleTimeout(s) PROVE CommitterLocks'
  BY <1>16, KillHolds DEF IdleTimeout
<1>17. ASSUME NEW s \in Session, BadMessage(s) PROVE CommitterLocks'
  BY <1>17
  DEF BadMessage, Request, Free, Refill, store, files, history
<1>18. CASE Tick
  BY <1>18
  DEF Tick, store, files, history
<1>19. CASE CcTimeout
  BY <1>19
  DEF CcTimeout, Cancel, NoTrial, Refill, store, files, history
<1>20. CASE Restart
  BY <1>20
  DEF Restart, Refill, NoTrial, store, files, history
<1>21. CASE UNCHANGED vars
  BY <1>21
  DEF vars
<1>22. QED
  BY <1>1, <1>2, <1>3, <1>4, <1>5, <1>6, <1>7, <1>8, <1>9, <1>10, <1>11, <1>12, <1>13, <1>14, <1>15, <1>16, <1>17, <1>18, <1>19, <1>20, <1>21 DEF Next, ById

\* A pending trial has its session, or was made to live without.
LEMMA NextHasSession == TypeOK /\ TrialHasSession /\ [Next]_vars => TrialHasSession'
<1> SUFFICES ASSUME TypeOK, TrialHasSession, [Next]_vars PROVE TrialHasSession'
  OBVIOUS
<1> USE SessionsReal DEF TypeOK, TrialHasSession, Trials, Trial, NoTrial
<1>1. CASE Arrive
  BY <1>1
  DEF Arrive, store, files, history
<1>2. ASSUME NEW s \in Session, NewSession(s) PROVE TrialHasSession'
  BY <1>2
  DEF NewSession, store, files, history
<1>3. ASSUME NEW s \in Session, NoEffect(s) PROVE TrialHasSession'
  BY <1>3
  DEF NoEffect, Request, store, files, history
<1>4. ASSUME NEW s \in Session, NEW x \in Content, Edit(s, x) PROVE TrialHasSession'
  BY <1>4
  DEF Edit, Request, OkToWrite, store, files, history
<1>5. ASSUME NEW s \in Session, CopyRunning(s) PROVE TrialHasSession'
  BY <1>5
  DEF CopyRunning, Request, OkToWrite, Refill, store, files, history
<1>6. ASSUME NEW s \in Session, DiscardChanges(s) PROVE TrialHasSession'
  BY <1>6
  DEF DiscardChanges, Request, OkToWrite, Refill, store, files, history
<1>7. ASSUME NEW s \in Session, NEW d \in Datastore, Lock(s, d) PROVE TrialHasSession'
  BY <1>7
  DEF Lock, Request, store, files, history
<1>8. ASSUME NEW s \in Session, NEW d \in Datastore, Unlock(s, d) PROVE TrialHasSession'
  BY <1>8
  DEF Unlock, Request, Refill, store, files, history
<1>9. ASSUME NEW s \in Session, CommitPlain(s) PROVE TrialHasSession'
  BY <1>9
  DEF CommitPlain, Request, store, files, history
<1>10. ASSUME NEW s \in Session, NEW p \in PersistId \cup {NoId}, CommitBegin(s, p) PROVE TrialHasSession'
  BY <1>10
  DEF CommitBegin, Request, Trial, store, files, history
<1>11. ASSUME NEW s \in Session, NEW p \in PersistId \cup {NoId}, NEW q \in PersistId \cup {NoId}, CommitExtend(s, p, q) PROVE TrialHasSession'
  BY <1>11
  DEF CommitExtend, Request, Trial, store, files, history
<1>12. ASSUME NEW s \in Session, NEW p \in PersistId \cup {NoId}, CommitFinish(s, p) PROVE TrialHasSession'
  BY <1>12
  DEF CommitFinish, Request, NoTrial, store, files, history
<1>13. ASSUME NEW s \in Session, NEW p \in PersistId \cup {NoId}, CancelCommit(s, p) PROVE TrialHasSession'
  BY <1>13
  DEF CancelCommit, Request, Cancel, NoTrial, Refill, store, files, history
<1>14. ASSUME NEW s \in Session, CloseSession(s) PROVE TrialHasSession'
  BY <1>14
  DEF CloseSession, Request, Kill, Free, NoTrial, Refill, store, files, history
<1>15. ASSUME NEW s \in Session, NEW t \in Session, KillSession(s, t) PROVE TrialHasSession'
  BY <1>15
  DEF KillSession, Request, Kill, Free, NoTrial, Refill, store, files, history
<1>16. ASSUME NEW s \in Session, IdleTimeout(s) PROVE TrialHasSession'
  BY <1>16
  DEF IdleTimeout, Kill, Free, NoTrial, Refill, store, files, history
<1>17. ASSUME NEW s \in Session, BadMessage(s) PROVE TrialHasSession'
  BY <1>17
  DEF BadMessage, Request, Free, Refill, store, files, history
<1>18. CASE Tick
  BY <1>18
  DEF Tick, store, files, history
<1>19. CASE CcTimeout
  BY <1>19
  DEF CcTimeout, Cancel, NoTrial, Refill, store, files, history
<1>20. CASE Restart
  BY <1>20
  DEF Restart, Refill, NoTrial, store, files, history
<1>21. CASE UNCHANGED vars
  BY <1>21
  DEF vars
<1>22. QED
  BY <1>1, <1>2, <1>3, <1>4, <1>5, <1>6, <1>7, <1>8, <1>9, <1>10, <1>11, <1>12, <1>13, <1>14, <1>15, <1>16, <1>17, <1>18, <1>19, <1>20, <1>21 DEF Next, ById

\* A commit takes the whole candidate.
LEMMA NextTakes == TypeOK /\ CommitTakesCandidate /\ [Next]_vars => CommitTakesCandidate'
<1> SUFFICES ASSUME TypeOK, CommitTakesCandidate, [Next]_vars PROVE CommitTakesCandidate'
  OBVIOUS
<1> USE DEF CommitTakesCandidate
<1>1. CASE Arrive
  BY <1>1
  DEF Applied, Arrive, store, files, history
<1>2. ASSUME NEW s \in Session, NewSession(s) PROVE CommitTakesCandidate'
  BY <1>2
  DEF Applied, NewSession, store, files, history
<1>3. ASSUME NEW s \in Session, NoEffect(s) PROVE CommitTakesCandidate'
  BY <1>3
  DEF Applied, NoEffect, Request, store, files, history
<1>4. ASSUME NEW s \in Session, NEW x \in Content, Edit(s, x) PROVE CommitTakesCandidate'
  BY <1>4
  DEF Applied, Edit, Request, OkToWrite, store, files, history
<1>5. ASSUME NEW s \in Session, CopyRunning(s) PROVE CommitTakesCandidate'
  BY <1>5
  DEF Applied, CopyRunning, Request, OkToWrite, Refill, store, files, history
<1>6. ASSUME NEW s \in Session, DiscardChanges(s) PROVE CommitTakesCandidate'
  BY <1>6
  DEF Applied, DiscardChanges, Request, OkToWrite, Refill, store, files, history
<1>7. ASSUME NEW s \in Session, NEW d \in Datastore, Lock(s, d) PROVE CommitTakesCandidate'
  BY <1>7
  DEF Applied, Lock, Request, store, files, history
<1>8. ASSUME NEW s \in Session, NEW d \in Datastore, Unlock(s, d) PROVE CommitTakesCandidate'
  BY <1>8
  DEF Applied, Unlock, Request, Refill, store, files, history
<1>9. ASSUME NEW s \in Session, CommitPlain(s) PROVE CommitTakesCandidate'
  BY <1>9, ApplyTakes DEF CommitPlain
<1>10. ASSUME NEW s \in Session, NEW p \in PersistId \cup {NoId}, CommitBegin(s, p) PROVE CommitTakesCandidate'
  BY <1>10, ApplyTakes DEF CommitBegin
<1>11. ASSUME NEW s \in Session, NEW p \in PersistId \cup {NoId}, NEW q \in PersistId \cup {NoId}, CommitExtend(s, p, q) PROVE CommitTakesCandidate'
  BY <1>11, ApplyTakes DEF CommitExtend
<1>12. ASSUME NEW s \in Session, NEW p \in PersistId \cup {NoId}, CommitFinish(s, p) PROVE CommitTakesCandidate'
  BY <1>12, ApplyTakes DEF CommitFinish
<1>13. ASSUME NEW s \in Session, NEW p \in PersistId \cup {NoId}, CancelCommit(s, p) PROVE CommitTakesCandidate'
  BY <1>13
  DEF Applied, CancelCommit, Request, Cancel, NoTrial, Refill, store, files, history, Fails, Loaded
<1>14. ASSUME NEW s \in Session, CloseSession(s) PROVE CommitTakesCandidate'
  BY <1>14
  DEF Applied, CloseSession, Request, Kill, Free, NoTrial, Refill, store, files, history, Fails, Loaded
<1>15. ASSUME NEW s \in Session, NEW t \in Session, KillSession(s, t) PROVE CommitTakesCandidate'
  BY <1>15
  DEF Applied, KillSession, Request, Kill, Free, NoTrial, Refill, store, files, history, Fails, Loaded
<1>16. ASSUME NEW s \in Session, IdleTimeout(s) PROVE CommitTakesCandidate'
  BY <1>16
  DEF Applied, IdleTimeout, Kill, Free, NoTrial, Refill, store, files, history, Fails, Loaded
<1>17. ASSUME NEW s \in Session, BadMessage(s) PROVE CommitTakesCandidate'
  BY <1>17
  DEF Applied, BadMessage, Request, Free, Refill, store, files, history
<1>18. CASE Tick
  BY <1>18
  DEF Applied, Tick, store, files, history
<1>19. CASE CcTimeout
  BY <1>19
  DEF Applied, CcTimeout, Cancel, NoTrial, Refill, store, files, history, Fails, Loaded
<1>20. CASE Restart
  BY <1>20
  DEF Applied, Restart, Refill, NoTrial, store, files, history
<1>21. CASE UNCHANGED vars
  BY <1>21
  DEF Applied, vars
<1>22. QED
  BY <1>1, <1>2, <1>3, <1>4, <1>5, <1>6, <1>7, <1>8, <1>9, <1>10, <1>11, <1>12, <1>13, <1>14, <1>15, <1>16, <1>17, <1>18, <1>19, <1>20, <1>21 DEF Next, ById


\* After a commit that leaves the server sound, backup and startup are what
\* the start of the commit has made of them.
LEMMA ApplySound ==
  ASSUME TypeOK, NEW extended, NEW save, NEW saved, Apply(extended, save, saved), Sound'
  PROVE  Sound
<1>1. faults \subseteq faults'
  BY ApplyHistory
<1>2. refused => refused'
  <2>1. ASSUME NEW sid, NEW failed, LoadTried(sid, failed) PROVE refused => refused'
    BY <2>1 DEF LoadTried
  <2>2. QED
    BY <2>1 DEF Apply
<1>3. QED
  BY <1>1, <1>2 DEF Sound

LEMMA ApplySettles ==
  ASSUME TypeOK, NEW extended \in BOOLEAN, NEW save \in BOOLEAN, NEW saved \in Content,
         Apply(extended, save, saved), Sound', extended => backup \in Content
  PROVE  /\ backup' = IF extended THEN backup ELSE running
         /\ \/ startup' = saved /\ running' \in {running, backup'}
            \/ startup' = IF save THEN running' ELSE saved
<1>1. ~Fails({"backup"})
  BY DEF Fails, Sound
<1>2. backup' = IF extended THEN backup ELSE running
  BY <1>1 DEF Apply
<1>3. backup' \in Content
  BY <1>2 DEF TypeOK
<1>4. ASSUME NEW failed \in BOOLEAN, NEW kind, NEW content,
             Fails({kind} \cup Kinds(failed)),
             running' = Loaded(backup', cc'.ses, failed, content),
             LoadTried(cc'.ses, failed)
      PROVE  running' = backup'
  <2>1. "load" \notin Kinds(failed) /\ ~refused'
    BY <1>4 DEF Fails, Sound
  <2>2. QED
    BY <1>3, <1>4, <2>1, LoadedFile
<1>5. QED
  BY <1>1, <1>2, <1>4 DEF Apply

\* What the end of a trial makes of running when the server stays sound.
LEMMA CancelSettles ==
  ASSUME TypeOK, NEW failed \in BOOLEAN, Fails(Kinds(failed)),
         LoadTried(NoSession, failed), Sound', backup \in Content
  PROVE  Sound /\ Loaded(backup, NoSession, failed, running) = backup
<1>1. "load" \notin Kinds(failed) /\ ~refused' /\ Sound
  BY DEF Fails, Sound, LoadTried
<1>2. QED
  BY <1>1, LoadedFile

LEMMA CancelRestores ==
  ASSUME TypeOK, Settled, cc.active, Cancel, Sound'
  PROVE  Sound /\ running' = startup
<1>1. PICK failed \in BOOLEAN :
        /\ Fails(Kinds(failed))
        /\ running' = Loaded(backup, NoSession, failed, running)
        /\ LoadTried(NoSession, failed)
  BY DEF Cancel
<1>2. Sound
  BY <1>1 DEF Fails, Sound, LoadTried
<1>3. startup = backup /\ backup \in Content
  BY <1>2 DEF Settled, TypeOK
<1>4. QED
  BY <1>1, <1>2, <1>3, CancelSettles

\* The end of a session leaves running alone, or ends its trial.
LEMMA KillRestores ==
  ASSUME TypeOK, Settled, NEW t \in Session, Kill(t), Sound'
  PROVE  /\ Sound /\ files' = files
         /\ \/ cc.active /\ ~cc'.active /\ running' = startup
            \/ cc'.active = cc.active /\ running' = running
<1>1. CASE cc.active /\ cc.ses = t /\ cc.persist = NoId
  <2>1. PICK failed \in BOOLEAN :
          /\ Fails(Kinds(failed))
          /\ running' = Loaded(backup, NoSession, failed, running)
          /\ LoadTried(NoSession, failed)
    BY <1>1 DEF Kill
  <2>2. Sound
    BY <2>1 DEF Fails, Sound, LoadTried
  <2>3. startup = backup /\ backup \in Content
    BY <1>1, <2>2 DEF Settled, TypeOK
  <2>4. running' = startup
    BY <2>1, <2>3, CancelSettles
  <2>5. cc' = NoTrial /\ UNCHANGED files
    BY <1>1 DEF Kill
  <2>6. QED
    BY <1>1, <2>2, <2>4, <2>5 DEF NoTrial
<1>2. CASE ~(cc.active /\ cc.ses = t /\ cc.persist = NoId)
  BY <1>2 DEF Kill, Sound, history, files, TypeOK, Trials, Trial, NoTrial
<1>3. QED
  BY <1>1, <1>2

\* startup holds what running goes back to.
LEMMA NextSettled == TypeOK /\ Settled /\ [Next]_vars => Settled'
<1> SUFFICES ASSUME TypeOK, Settled, [Next]_vars, Sound'
             PROVE  startup' = (IF cc'.active THEN backup' ELSE running')
  BY DEF Settled
<1>1. CASE Arrive
  BY <1>1
  DEF Settled, Sound, Arrive, store, files, history
<1>2. ASSUME NEW s \in Session, NewSession(s) PROVE startup' = (IF cc'.active THEN backup' ELSE running')
  BY <1>2
  DEF Settled, Sound, NewSession, store, files, history
<1>3. ASSUME NEW s \in Session, NoEffect(s) PROVE startup' = (IF cc'.active THEN backup' ELSE running')
  BY <1>3
  DEF Settled, Sound, NoEffect, Request, store, files, history
<1>4. ASSUME NEW s \in Session, NEW x \in Content, Edit(s, x) PROVE startup' = (IF cc'.active THEN backup' ELSE running')
  BY <1>4
  DEF Settled, Sound, Edit, Request, OkToWrite, store, files, history
<1>5. ASSUME NEW s \in Session, CopyRunning(s) PROVE startup' = (IF cc'.active THEN backup' ELSE running')
  BY <1>5
  DEF Settled, Sound, CopyRunning, Request, OkToWrite, Refill, store, files, history
<1>6. ASSUME NEW s \in Session, DiscardChanges(s) PROVE startup' = (IF cc'.active THEN backup' ELSE running')
  BY <1>6
  DEF Settled, Sound, DiscardChanges, Request, OkToWrite, Refill, store, files, history
<1>7. ASSUME NEW s \in Session, NEW d \in Datastore, Lock(s, d) PROVE startup' = (IF cc'.active THEN backup' ELSE running')
  BY <1>7
  DEF Settled, Sound, Lock, Request, store, files, history
<1>8. ASSUME NEW s \in Session, NEW d \in Datastore, Unlock(s, d) PROVE startup' = (IF cc'.active THEN backup' ELSE running')
  BY <1>8
  DEF Settled, Sound, Unlock, Request, Refill, store, files, history
<1>9. ASSUME NEW s \in Session, CommitPlain(s) PROVE startup' = (IF cc'.active THEN backup' ELSE running')
  <2>1. Apply(FALSE, TRUE, startup) /\ startup \in Content /\ running \in Content
    BY <1>9 DEF CommitPlain, TypeOK
  <2>2. ~cc.active
    BY <1>9 DEF CommitPlain
  <2>3. Sound
    BY <2>1, ApplySound
  <2>4. /\ backup' = running
        /\ \/ startup' = startup /\ running' \in {running, backup'}
           \/ startup' = running'
    BY <2>1, <2>2, <2>3, ApplySettles DEF Settled
  <2>5. QED
    BY <1>9, <2>2, <2>3, <2>4 DEF CommitPlain, Settled, Trial, NoTrial
<1>10. ASSUME NEW s \in Session, NEW p \in PersistId \cup {NoId}, CommitBegin(s, p) PROVE startup' = (IF cc'.active THEN backup' ELSE running')
  <2>1. Apply(FALSE, FALSE, startup) /\ startup \in Content /\ running \in Content
    BY <1>10 DEF CommitBegin, TypeOK
  <2>2. ~cc.active
    BY <1>10 DEF CommitBegin
  <2>3. Sound
    BY <2>1, ApplySound
  <2>4. /\ backup' = running
        /\ \/ startup' = startup /\ running' \in {running, backup'}
           \/ startup' = startup
    BY <2>1, <2>2, <2>3, ApplySettles DEF Settled
  <2>5. QED
    BY <1>10, <2>2, <2>3, <2>4 DEF CommitBegin, Settled, Trial, NoTrial
<1>11. ASSUME NEW s \in Session, NEW p \in PersistId \cup {NoId}, NEW q \in PersistId \cup {NoId}, CommitExtend(s, p, q) PROVE startup' = (IF cc'.active THEN backup' ELSE running')
  <2>1. Apply(TRUE, FALSE, startup) /\ startup \in Content /\ running \in Content
    BY <1>11 DEF CommitExtend, TypeOK
  <2>2. cc.active
    BY <1>11 DEF CommitExtend
  <2>3. Sound
    BY <2>1, ApplySound
  <2>4. /\ backup' = backup
        /\ \/ startup' = startup /\ running' \in {running, backup'}
           \/ startup' = startup
    BY <2>1, <2>2, <2>3, ApplySettles DEF Settled
  <2>5. QED
    BY <1>11, <2>2, <2>3, <2>4 DEF CommitExtend, Settled, Trial, NoTrial
<1>12. ASSUME NEW s \in Session, NEW p \in PersistId \cup {NoId}, CommitFinish(s, p) PROVE startup' = (IF cc'.active THEN backup' ELSE running')
  <2>1. Apply(FALSE, TRUE, running) /\ startup \in Content /\ running \in Content
    BY <1>12 DEF CommitFinish, TypeOK
  <2>2. cc.active
    BY <1>12 DEF CommitFinish
  <2>3. Sound
    BY <2>1, ApplySound
  <2>4. /\ backup' = running
        /\ \/ startup' = running /\ running' \in {running, backup'}
           \/ startup' = running'
    BY <2>1, <2>2, <2>3, ApplySettles DEF Settled
  <2>5. QED
    BY <1>12, <2>2, <2>3, <2>4 DEF CommitFinish, Settled, Trial, NoTrial
<1>13. ASSUME NEW s \in Session, NEW p \in PersistId \cup {NoId}, CancelCommit(s, p) PROVE startup' = (IF cc'.active THEN backup' ELSE running')
  BY <1>13, CancelRestores DEF CancelCommit, Cancel, NoTrial, files
<1>14. ASSUME NEW s \in Session, CloseSession(s) PROVE startup' = (IF cc'.active THEN backup' ELSE running')
  BY <1>14, KillRestores DEF CloseSession, Settled, files
<1>15. ASSUME NEW s \in Session, NEW t \in Session, KillSession(s, t) PROVE startup' = (IF cc'.active THEN backup' ELSE running')
  BY <1>15, KillRestores DEF KillSession, Settled, files
<1>16. ASSUME NEW s \in Session, IdleTimeout(s) PROVE startup' = (IF cc'.active THEN backup' ELSE running')
  BY <1>16, KillRestores DEF IdleTimeout, Settled, files
<1>17. ASSUME NEW s \in Session, BadMessage(s) PROVE startup' = (IF cc'.active THEN backup' ELSE running')
  BY <1>17
  DEF Settled, Sound, BadMessage, Request, Free, Refill, store, files, history
<1>18. CASE Tick
  BY <1>18
  DEF Settled, Sound, Tick, store, files, history
<1>19. CASE CcTimeout
  BY <1>19, CancelRestores DEF CcTimeout, Cancel, NoTrial, files
<1>20. CASE Restart
  BY <1>20
  DEF Settled, Sound, Restart, Refill, NoTrial, store, files, history
<1>21. CASE UNCHANGED vars
  BY <1>21
  DEF Settled, Sound, vars
<1>22. QED
  BY <1>1, <1>2, <1>3, <1>4, <1>5, <1>6, <1>7, <1>8, <1>9, <1>10, <1>11, <1>12, <1>13, <1>14, <1>15, <1>16, <1>17, <1>18, <1>19, <1>20, <1>21 DEF Next, ById

(***************************************************************************)
(* The inductive invariant.                                                *)

IInv ==
  /\ TypeOK
  /\ CommitterLocks
  /\ TrialHasSession
  /\ CommitTakesCandidate
  /\ Settled

LEMMA InitIInv == Init => IInv
BY InitType
DEF Init, IInv, CommitterLocks, TrialHasSession, CommitTakesCandidate,
    Settled, Sound, Applied, NoTrial

LEMMA Inductive == IInv /\ [Next]_vars => IInv'
BY NextType, NextHolds, NextHasSession, NextTakes, NextSettled
DEF IInv

LEMMA AlwaysIInv == Spec => []IInv
<1>1. QED
  BY InitIInv, Inductive, PTL DEF Spec

\* Locks and trials belong together: while a trial is pending, nobody but its
\* session holds a lock, whatever sessions come and go.
THEOREM LocksOfCommitter == Spec => []CommitterLocks
<1>1. IInv => CommitterLocks
  BY DEF IInv
<1>2. QED
  BY <1>1, AlwaysIInv, PTL

\* A trial that was not forgotten has its session, or is persistent.
THEOREM TrialIsOwned == Spec => []TrialHasSession
<1>1. IInv => TrialHasSession
  BY DEF IInv
<1>2. QED
  BY <1>1, AlwaysIInv, PTL

\* As long as nothing fails behind the final edits or in a rollback, a commit
\* means the whole candidate.
THEOREM CommitIsWhole == Spec => []CommitTakesCandidate
<1>1. IInv => CommitTakesCandidate
  BY DEF IInv
<1>2. QED
  BY <1>1, AlwaysIInv, PTL

\* startup is what running goes back to, and running once nothing is pending.
THEOREM StartupSettles == Spec => []Settled
<1>1. IInv => Settled
  BY DEF IInv
<1>2. QED
  BY <1>1, AlwaysIInv, PTL

(***************************************************************************)
(* The promise of ConfirmedCommit, and the locks.                          *)

\* The types of what the promise is about, before and after a step.
LEMMA StepTypes ==
  ASSUME IInv, [Next]_vars
  PROVE  /\ running \in Content /\ startup \in Content /\ cc.active \in BOOLEAN
         /\ running' \in Content /\ startup' \in Content /\ cc'.active \in BOOLEAN
<1>1. TypeOK /\ TypeOK'
  BY Inductive DEF IInv
<1>2. ASSUME NEW c \in Trials \cup {NoTrial} PROVE c.active \in BOOLEAN
  <2>1. CASE c = NoTrial
    BY <2>1 DEF NoTrial
  <2>2. CASE c \in Trials
    <3>1. PICK s \in Session \cup {NoSession}, p \in PersistId \cup {NoId} :
               c = Trial(s, p)
      BY <2>2 DEF Trials
    <3>2. Trial(s, p).active = TRUE
      BY DEF Trial
    <3>3. QED
      BY <3>1, <3>2
  <2>3. QED
    BY <2>1, <2>2
<1>3. QED
  BY <1>1, <1>2 DEF TypeOK

\* A step after which the server is sound is one of the promise.
LEMMA SoundStep ==
  ASSUME IInv, [Next]_vars, Sound'
  PROVE  [CC!Next]_CC!vars
<1> USE StepTypes
<1>0. TypeOK /\ Settled
  BY DEF IInv
<1>1. CASE Arrive
  BY <1>1
  DEF CC!vars, Sound, Arrive, store, files, history
<1>2. ASSUME NEW s \in Session, NewSession(s) PROVE [CC!Next]_CC!vars
  BY <1>2
  DEF CC!vars, Sound, NewSession, store, files, history
<1>3. ASSUME NEW s \in Session, NoEffect(s) PROVE [CC!Next]_CC!vars
  BY <1>3
  DEF CC!vars, Sound, NoEffect, Request, store, files, history
<1>4. ASSUME NEW s \in Session, NEW x \in Content, Edit(s, x) PROVE [CC!Next]_CC!vars
  BY <1>4
  DEF CC!vars, Sound, Edit, Request, OkToWrite, store, files, history
<1>5. ASSUME NEW s \in Session, CopyRunning(s) PROVE [CC!Next]_CC!vars
  BY <1>5
  DEF CC!vars, Sound, CopyRunning, Request, OkToWrite, Refill, store, files, history
<1>6. ASSUME NEW s \in Session, DiscardChanges(s) PROVE [CC!Next]_CC!vars
  BY <1>6
  DEF CC!vars, Sound, DiscardChanges, Request, OkToWrite, Refill, store, files, history
<1>7. ASSUME NEW s \in Session, NEW d \in Datastore, Lock(s, d) PROVE [CC!Next]_CC!vars
  BY <1>7
  DEF CC!vars, Sound, Lock, Request, store, files, history
<1>8. ASSUME NEW s \in Session, NEW d \in Datastore, Unlock(s, d) PROVE [CC!Next]_CC!vars
  BY <1>8
  DEF CC!vars, Sound, Unlock, Request, Refill, store, files, history
<1>9. ASSUME NEW s \in Session, CommitPlain(s) PROVE [CC!Next]_CC!vars
  <2>1. Apply(FALSE, TRUE, startup)
    BY <1>9 DEF CommitPlain
  <2>2. ~cc.active
    BY <1>9 DEF CommitPlain
  <2>3. Sound
    BY <1>0, <2>1, ApplySound
  <2>4. /\ backup' = running
        /\ \/ startup' = startup /\ running' \in {running, backup'}
           \/ startup' = running'
    BY <1>0, <2>1, <2>2, <2>3, ApplySettles DEF Settled, TypeOK
  <2>5. cc' = cc
    BY <1>9 DEF CommitPlain
  <2>6. CASE startup' = running'
    <3>1. CC!Keep
      BY <2>2, <2>3, <2>5, <2>6 DEF CC!Keep
    <3>2. QED
      BY <2>3, <3>1 DEF CC!Next
  <2>7. CASE startup' = startup /\ running' = running
    BY <2>3, <2>5, <2>7 DEF CC!vars
  <2>8. QED
    BY <2>4, <2>6, <2>7
<1>10. ASSUME NEW s \in Session, NEW p \in PersistId \cup {NoId}, CommitBegin(s, p) PROVE [CC!Next]_CC!vars
  <2>1. Apply(FALSE, FALSE, startup)
    BY <1>10 DEF CommitBegin
  <2>2. ~cc.active
    BY <1>10 DEF CommitBegin
  <2>3. Sound
    BY <1>0, <2>1, ApplySound
  <2>4. /\ backup' = running
        /\ \/ startup' = startup /\ running' \in {running, backup'}
           \/ startup' = startup
    BY <1>0, <2>1, <2>2, <2>3, ApplySettles DEF Settled, TypeOK
  <2>5. CC!Try
    BY <1>10, <2>3, <2>4 DEF CommitBegin, CC!Try, Trial
  <2>6. QED
    BY <2>3, <2>5 DEF CC!Next
<1>11. ASSUME NEW s \in Session, NEW p \in PersistId \cup {NoId}, NEW q \in PersistId \cup {NoId}, CommitExtend(s, p, q) PROVE [CC!Next]_CC!vars
  <2>1. Apply(TRUE, FALSE, startup)
    BY <1>11 DEF CommitExtend
  <2>2. cc.active
    BY <1>11 DEF CommitExtend
  <2>3. Sound
    BY <1>0, <2>1, ApplySound
  <2>4. /\ backup' = backup
        /\ \/ startup' = startup /\ running' \in {running, backup'}
           \/ startup' = startup
    BY <1>0, <2>1, <2>2, <2>3, ApplySettles DEF Settled, TypeOK
  <2>5. CC!Try
    BY <1>11, <2>3, <2>4 DEF CommitExtend, CC!Try, Trial
  <2>6. QED
    BY <2>3, <2>5 DEF CC!Next
<1>12. ASSUME NEW s \in Session, NEW p \in PersistId \cup {NoId}, CommitFinish(s, p) PROVE [CC!Next]_CC!vars
  <2>1. Apply(FALSE, TRUE, running)
    BY <1>12 DEF CommitFinish
  <2>2. cc.active
    BY <1>12 DEF CommitFinish
  <2>3. Sound
    BY <1>0, <2>1, ApplySound
  <2>4. /\ backup' = running
        /\ \/ startup' = running /\ running' \in {running, backup'}
           \/ startup' = running'
    BY <1>0, <2>1, <2>2, <2>3, ApplySettles DEF Settled, TypeOK
  <2>5. startup' = running' /\ ~cc'.active
    BY <1>12, <2>4 DEF CommitFinish, NoTrial
  <2>6. CC!Keep
    BY <2>3, <2>5 DEF CC!Keep
  <2>7. QED
    BY <2>3, <2>6 DEF CC!Next
<1>13. ASSUME NEW s \in Session, NEW p \in PersistId \cup {NoId}, CancelCommit(s, p) PROVE [CC!Next]_CC!vars
  <2>1. cc.active /\ Cancel /\ UNCHANGED files
    BY <1>13 DEF CancelCommit
  <2>2. CC!Revert
    BY <1>0, <2>1, CancelRestores DEF CC!Revert, Cancel, NoTrial, files
  <2>3. QED
    BY <2>2 DEF CC!Next
<1>14. ASSUME NEW s \in Session, CloseSession(s) PROVE [CC!Next]_CC!vars
  <2>1. Kill(s)
    BY <1>14 DEF CloseSession
  <2>2. /\ Sound /\ startup' = startup
        /\ \/ ~cc'.active /\ running' = startup
           \/ cc'.active = cc.active /\ running' = running
    BY <1>0, <2>1, KillRestores DEF files
  <2>3. CASE ~cc'.active /\ running' = startup
    BY <2>2, <2>3 DEF CC!Revert, CC!Next
  <2>4. CASE cc'.active = cc.active /\ running' = running
    BY <2>2, <2>4 DEF CC!vars
  <2>5. QED
    BY <2>2, <2>3, <2>4
<1>15. ASSUME NEW s \in Session, NEW t \in Session, KillSession(s, t) PROVE [CC!Next]_CC!vars
  <2>1. Kill(t)
    BY <1>15 DEF KillSession
  <2>2. /\ Sound /\ startup' = startup
        /\ \/ ~cc'.active /\ running' = startup
           \/ cc'.active = cc.active /\ running' = running
    BY <1>0, <2>1, KillRestores DEF files
  <2>3. CASE ~cc'.active /\ running' = startup
    BY <2>2, <2>3 DEF CC!Revert, CC!Next
  <2>4. CASE cc'.active = cc.active /\ running' = running
    BY <2>2, <2>4 DEF CC!vars
  <2>5. QED
    BY <2>2, <2>3, <2>4
<1>16. ASSUME NEW s \in Session, IdleTimeout(s) PROVE [CC!Next]_CC!vars
  <2>1. Kill(s)
    BY <1>16 DEF IdleTimeout
  <2>2. /\ Sound /\ startup' = startup
        /\ \/ ~cc'.active /\ running' = startup
           \/ cc'.active = cc.active /\ running' = running
    BY <1>0, <2>1, KillRestores DEF files
  <2>3. CASE ~cc'.active /\ running' = startup
    BY <2>2, <2>3 DEF CC!Revert, CC!Next
  <2>4. CASE cc'.active = cc.active /\ running' = running
    BY <2>2, <2>4 DEF CC!vars
  <2>5. QED
    BY <2>2, <2>3, <2>4
<1>17. ASSUME NEW s \in Session, BadMessage(s) PROVE [CC!Next]_CC!vars
  BY <1>17
  DEF CC!vars, Sound, BadMessage, Request, Free, Refill, store, files, history
<1>18. CASE Tick
  BY <1>18
  DEF CC!vars, Sound, Tick, store, files, history
<1>19. CASE CcTimeout
  <2>1. cc.active /\ Cancel /\ UNCHANGED files
    BY <1>19 DEF CcTimeout
  <2>2. CC!Revert
    BY <1>0, <2>1, CancelRestores DEF CC!Revert, Cancel, NoTrial, files
  <2>3. QED
    BY <2>2 DEF CC!Next
<1>20. CASE Restart
  BY <1>20 DEF Restart, files, NoTrial, CC!Next, CC!Revert, Sound
<1>21. CASE UNCHANGED vars
  BY <1>21
  DEF CC!vars, Sound, vars
<1>22. QED
  BY <1>1, <1>2, <1>3, <1>4, <1>5, <1>6, <1>7, <1>8, <1>9, <1>10, <1>11, <1>12, <1>13, <1>14, <1>15, <1>16, <1>17, <1>18, <1>19, <1>20, <1>21 DEF Next, ById

\* The server starts as the promise says.
LEMMA InitPromise == Init => CC!Init
BY DEF Init, CC!Init, Sound, NoTrial

\* Every step is a step of the promise.
LEMMA NextPromise == IInv /\ [Next]_vars => [CC!Next]_CC!vars
<1> SUFFICES ASSUME IInv, [Next]_vars PROVE [CC!Next]_CC!vars
  OBVIOUS
<1>1. CASE Sound'
  BY <1>1, SoundStep
<1>2. CASE ~Sound'
  BY <1>2, StepTypes DEF CC!Next, CC!Break
<1>3. QED
  BY <1>1, <1>2

\* Whatever the sessions, the locks and the timers do, the server implements
\* ConfirmedCommit: an unconfirmed commit is gone after its trial, a confirmed
\* one is saved.
THEOREM Implements == Spec => Promise
<1>1. QED
  BY InitPromise, NextPromise, AlwaysIInv, PTL DEF Spec, Promise, CC!Spec

\* The end of a session changes what it has locked, or ends its trial.
LEMMA KillExcludes ==
  ASSUME TypeOK, NEW t \in Session, Kill(t), NEW e \in Datastore, owner[e] # NoSession,
         (IF e = "candidate" THEN candidate ELSE running)' # (IF e = "candidate" THEN candidate ELSE running)
  PROVE  owner'[e] = NoSession \/ (cc.active /\ ~cc'.active)
BY DEF Kill, Free, NoTrial, store, Datastore

\* A step that changes a locked datastore is its owner's, ends the lock, or
\* ends a trial.
LEMMA NextExcludes ==
  ASSUME TypeOK, [Next]_vars, NEW e \in Datastore, owner[e] # NoSession,
         (IF e = "candidate" THEN candidate ELSE running)' # (IF e = "candidate" THEN candidate ELSE running)
  PROVE  ById(owner[e]) \/ owner'[e] = NoSession \/ (cc.active /\ ~cc'.active)
<1> USE DEF TypeOK, Datastore
<1>1. CASE Arrive
  BY <1>1
  DEF Arrive, store, files, history
<1>2. ASSUME NEW s \in Session, NewSession(s) PROVE ById(owner[e]) \/ owner'[e] = NoSession \/ (cc.active /\ ~cc'.active)
  BY <1>2
  DEF NewSession, store, files, history
<1>3. ASSUME NEW s \in Session, NoEffect(s) PROVE ById(owner[e]) \/ owner'[e] = NoSession \/ (cc.active /\ ~cc'.active)
  BY <1>3
  DEF NoEffect, Request, store, files, history
<1>4. ASSUME NEW s \in Session, NEW x \in Content, Edit(s, x) PROVE ById(owner[e]) \/ owner'[e] = NoSession \/ (cc.active /\ ~cc'.active)
  BY <1>4 DEF Edit, OkToWrite, ById, Request
<1>5. ASSUME NEW s \in Session, CopyRunning(s) PROVE ById(owner[e]) \/ owner'[e] = NoSession \/ (cc.active /\ ~cc'.active)
  BY <1>5 DEF CopyRunning, OkToWrite, ById, Request
<1>6. ASSUME NEW s \in Session, DiscardChanges(s) PROVE ById(owner[e]) \/ owner'[e] = NoSession \/ (cc.active /\ ~cc'.active)
  BY <1>6 DEF DiscardChanges, OkToWrite, ById, Request
<1>7. ASSUME NEW s \in Session, NEW d \in Datastore, Lock(s, d) PROVE ById(owner[e]) \/ owner'[e] = NoSession \/ (cc.active /\ ~cc'.active)
  BY <1>7
  DEF Lock, Request, store, files, history
<1>8. ASSUME NEW s \in Session, NEW d \in Datastore, Unlock(s, d) PROVE ById(owner[e]) \/ owner'[e] = NoSession \/ (cc.active /\ ~cc'.active)
  BY <1>8
  DEF Unlock, Request, Refill, store, files, history
<1>9. ASSUME NEW s \in Session, CommitPlain(s) PROVE ById(owner[e]) \/ owner'[e] = NoSession \/ (cc.active /\ ~cc'.active)
  <2>1. owner[e] = s
    BY <1>9 DEF CommitPlain, CommitAllowed, OkToWrite
  <2>2. QED
    BY <1>9, <2>1 DEF ById
<1>10. ASSUME NEW s \in Session, NEW p \in PersistId \cup {NoId}, CommitBegin(s, p) PROVE ById(owner[e]) \/ owner'[e] = NoSession \/ (cc.active /\ ~cc'.active)
  <2>1. owner[e] = s
    BY <1>10 DEF CommitBegin, CommitAllowed, OkToWrite
  <2>2. QED
    BY <1>10, <2>1 DEF ById
<1>11. ASSUME NEW s \in Session, NEW p \in PersistId \cup {NoId}, NEW q \in PersistId \cup {NoId}, CommitExtend(s, p, q) PROVE ById(owner[e]) \/ owner'[e] = NoSession \/ (cc.active /\ ~cc'.active)
  <2>1. owner[e] = s
    BY <1>11 DEF CommitExtend, CommitAllowed, OkToWrite
  <2>2. QED
    BY <1>11, <2>1 DEF ById
<1>12. ASSUME NEW s \in Session, NEW p \in PersistId \cup {NoId}, CommitFinish(s, p) PROVE ById(owner[e]) \/ owner'[e] = NoSession \/ (cc.active /\ ~cc'.active)
  <2>1. owner[e] = s
    BY <1>12 DEF CommitFinish, CommitAllowed, OkToWrite
  <2>2. QED
    BY <1>12, <2>1 DEF ById
<1>13. ASSUME NEW s \in Session, NEW p \in PersistId \cup {NoId}, CancelCommit(s, p) PROVE ById(owner[e]) \/ owner'[e] = NoSession \/ (cc.active /\ ~cc'.active)
  BY <1>13 DEF CancelCommit, Cancel, NoTrial
<1>14. ASSUME NEW s \in Session, CloseSession(s) PROVE ById(owner[e]) \/ owner'[e] = NoSession \/ (cc.active /\ ~cc'.active)
  <2>1. Kill(s)
    BY <1>14 DEF CloseSession
  <2>2. QED
    BY <2>1, KillExcludes
<1>15. ASSUME NEW s \in Session, NEW t \in Session, KillSession(s, t) PROVE ById(owner[e]) \/ owner'[e] = NoSession \/ (cc.active /\ ~cc'.active)
  <2>1. Kill(t)
    BY <1>15 DEF KillSession
  <2>2. QED
    BY <2>1, KillExcludes
<1>16. ASSUME NEW s \in Session, IdleTimeout(s) PROVE ById(owner[e]) \/ owner'[e] = NoSession \/ (cc.active /\ ~cc'.active)
  <2>1. Kill(s)
    BY <1>16 DEF IdleTimeout
  <2>2. QED
    BY <2>1, KillExcludes
<1>17. ASSUME NEW s \in Session, BadMessage(s) PROVE ById(owner[e]) \/ owner'[e] = NoSession \/ (cc.active /\ ~cc'.active)
  BY <1>17
  DEF BadMessage, Request, Free, Refill, store, files, history
<1>18. CASE Tick
  BY <1>18
  DEF Tick, store, files, history
<1>19. CASE CcTimeout
  BY <1>19 DEF CcTimeout, Cancel, NoTrial
<1>20. CASE Restart
  BY <1>20
  DEF Restart, Refill, NoTrial, store, files, history
<1>21. CASE UNCHANGED vars
  BY <1>21
  DEF vars
<1>22. QED
  BY <1>1, <1>2, <1>3, <1>4, <1>5, <1>6, <1>7, <1>8, <1>9, <1>10, <1>11, <1>12, <1>13, <1>14, <1>15, <1>16, <1>17, <1>18, <1>19, <1>20, <1>21 DEF Next, ById

\* Another session's request changes no locked datastore.
THEOREM Excludes == Spec => LocksExclude
<1>1. IInv /\ [Next]_vars =>
        [\A d \in Datastore :
           LET content == IF d = "candidate" THEN candidate ELSE running
           IN  owner[d] # NoSession /\ content' # content =>
                 \/ ById(owner[d])
                 \/ owner'[d] = NoSession
                 \/ cc.active /\ ~cc'.active]_vars
  BY NextExcludes DEF IInv
<1>2. QED
  BY <1>1, AlwaysIInv, PTL DEF Spec, LocksExclude

=============================================================================
