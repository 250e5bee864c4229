------------------------- MODULE SilTransaction_proofs -------------------------
(***************************************************************************)
(* Proofs about SilTransaction, for any nodes and contents.                *)
(*                                                                         *)
(* The invariant says, phase by phase, how far the tree and the devices    *)
(* have come: TreeInv what running holds, DeviceInv what the SILs have     *)
(* made of it, PendingInv what is left in the candidate.                   *)
(***************************************************************************)
EXTENDS SilTransaction, FiniteSetTheorems, TLAPS

\* The tree has the new nodes where there is an undo record, and the old
\* ones elsewhere; a rollback gives them back one by one.
TreeInv ==
    /\ phase \in {"idle", "apply"} => \A n \in Node : commit_res[n] = "skipped"
    /\ phase \in {"apply", "commit"} =>
         /\ \A n \in undo : running[n] = Goal[n]
         /\ \A n \in Node \ undo : running[n] = old[n]
    /\ phase = "apply" => todo \cap undo = {}
    /\ phase = "apply" => \A n \in undo : staged[n] = running[n]
    /\ phase = "commit" => todo \subseteq undo
    /\ phase = "commit" => \A n \in todo : staged[n] = running[n]
    /\ phase = "rollback" => \A n \in Node \ todo : running[n] = old[n]

\* What a SIL has that has kept to the old or the new node, if it never
\* refused to undo, and whether it has a change at hand.
Before(n) == device[n] \in {old[n], Unknown}

Settled(n) == device[n] \in {running[n], Unknown} /\ staged[n] = Nothing

DeviceInv ==
    \A n \in Node :
      /\ phase \in {"idle", "complete", "load"} => Settled(n)
      /\ phase = "apply" => Before(n) /\ (n \notin undo => staged[n] = Nothing)
      /\ phase = "commit" =>
           IF n \in todo THEN Before(n) /\ commit_res[n] = "skipped"
                         ELSE Settled(n) /\ (n \in undo => commit_res[n] = "ok")
      /\ phase = "rollback" =>
           IF n \notin todo THEN Before(n) /\ staged[n] = Nothing
           ELSE /\ commit_res[n] # "skipped" => staged[n] = Nothing
                /\ commit_res[n] # "ok" => Before(n)

\* What the commit is to make of running.
Committed == [n \in Node |-> IF n \in missed THEN backup[n] ELSE goal[n]]

\* What is left of the candidate once the edits are final: all but the nodes
\* that moved into running, without a mark.
Lost ==
    /\ marked = {}
    /\ \E lost \in SUBSET {n \in Node : n \notin Leaf \/ backup[n] = None} :
         /\ \A n \in Node \ lost :
              Committed[n] = backup[n] \/ (n \in Leaf /\ backup[n] # None)
         /\ candidate = [n \in Node |-> IF n \in lost THEN None ELSE goal[n]]

\* The candidate and its marks are as the commit found them.
Whole(config) ==
    /\ config = backup
    /\ candidate = goal
    /\ missed = {n \in Node \ marked : candidate[n] \notin {None, backup[n]}}

\* The transaction has no business with n.
Passed(n) ==
    IF loading THEN backup[n] = old[n]
    ELSE n \notin marked /\ (candidate[n] = None => old[n] = None)

\* The transaction started either from the running of the backup with a
\* whole candidate, or from what was committed, with the rest of it.
PendingInv ==
    /\ phase \in {"apply", "commit", "rollback"} =>
         IF loading THEN Whole(old) \/ (old = Committed /\ Lost) ELSE Whole(old)
    /\ phase = "complete" => running = Committed /\ Lost
    /\ phase = "load" => Whole(running) \/ (running = Committed /\ Lost)
    /\ phase = "apply" => \A n \in Node \ (undo \cup todo) : Passed(n)
    /\ phase = "commit" => \A n \in Node \ undo : Passed(n)
    /\ phase \in {"apply", "commit"} /\ ~loading =>
         \A n \in undo \cup todo : n \in marked \/ candidate[n] = None

IInv == TypeOK /\ TreeInv /\ DeviceInv /\ PendingInv

\* Type correctness is inductive.
LEMMA TypeNext == TypeOK /\ TreeInv /\ [Next]_vars => TypeOK'
<1>. SUFFICES ASSUME TypeOK, TreeInv, [Next]_vars PROVE TypeOK'
  OBVIOUS
<1>1. CASE Commit
  BY <1>1
  DEF TypeOK, Config, Value, Commit, NewTransaction, CommitDeletes, Forgotten, cand, sil
<1>2. CASE DiscardChanges
  BY <1>2
  DEF TypeOK, Config, Value, DiscardChanges, tree, transaction, sil, history
<1>3. ASSUME NEW m \in Node, NEW x \in Value, Edit(m, x) PROVE TypeOK'
  BY <1>3
  DEF TypeOK, Config, Value, Edit, tree, transaction, sil, history
<1>4. ASSUME NEW m \in Node, ApplyEdit(m) PROVE TypeOK'
  BY <1>4
  DEF TypeOK, Config, Value, ApplyEdit, Goal, cand, history
<1>5. ASSUME NEW m \in Node, CommitEdit(m) PROVE TypeOK'
  <2>1. staged[m] \in Value
    BY <1>5 DEF CommitEdit, TreeInv, TypeOK, Config, history
  <2>2. QED
    BY <1>5, <2>1 DEF CommitEdit, TypeOK, Config, Value, tree, cand, history
<1>6. ASSUME NEW m \in Node, CommitRefused(m) PROVE TypeOK'
  BY <1>6
  DEF TypeOK, Config, Value, CommitRefused, Proceed, tree, cand, history
<1>7. ASSUME NEW m \in Node, RollbackEdit(m) PROVE TypeOK'
  BY <1>7
  DEF TypeOK, Config, Value, RollbackEdit, Undo, Restore, cand, history
<1>8. ASSUME NEW m \in Node, RollbackRefused(m) PROVE TypeOK'
  BY <1>8
  DEF TypeOK, Config, Value, RollbackRefused, Restore, cand, history
<1>9. ASSUME NEW m \in Node, RollbackKills(m) PROVE TypeOK'
  BY <1>9
  DEF TypeOK, Config, Value, RollbackKills, tree, cand, transaction, sil, history
<1>10. CASE ApplyRefused
  BY <1>10
  DEF TypeOK, Config, Value, ApplyRefused, Proceed, tree, cand, sil, history
<1>11. CASE Applied
  BY <1>11
  DEF TypeOK, Config, Value, Applied, Proceed, tree, cand, sil, history
<1>12. CASE Finalize
  BY <1>12
  DEF TypeOK, Config, Value, Finalize, Merged, tree, transaction, sil, history
<1>13. CASE Loaded
  BY <1>13
  DEF TypeOK, Config, Value, Loaded, Reply, cand, sil
<1>14. CASE Complete
  BY <1>14
  DEF TypeOK, Config, Value, Complete, Reply, sil
<1>15. CASE CompleteFails
  BY <1>15
  DEF TypeOK, Config, Value, CompleteFails, tree, cand, transaction, sil, history
<1>16. CASE RolledBack
  BY <1>16
  DEF TypeOK, Config, Value, RolledBack, Reply, cand, sil
<1>17. CASE RollbackFailed
  BY <1>17
  DEF TypeOK, Config, Value, RollbackFailed, tree, cand, transaction, sil, history
<1>18. CASE LoadBackup
  BY <1>18
  DEF TypeOK, Config, Value, LoadBackup, NewTransaction, Differing, cand, sil, history
<1>19. CASE LoadFails
  BY <1>19
  DEF TypeOK, Config, Value, LoadFails, Reply, cand, sil
<1>20. CASE UNCHANGED vars
  BY <1>20
  DEF TypeOK, Config, Value, vars
<1>21. QED
  BY <1>1, <1>2, <1>3, <1>4, <1>5, <1>6, <1>7, <1>8, <1>9, <1>10, <1>11, <1>12,
     <1>13, <1>14, <1>15, <1>16, <1>17, <1>18, <1>19, <1>20
  DEF Next, Client, Server

\* The tree is half new, half old only where the phase says so.
LEMMA TreeNext == TypeOK /\ TreeInv /\ [Next]_vars => TreeInv'
<1>. SUFFICES ASSUME TypeOK, TreeInv, [Next]_vars PROVE TreeInv'
  OBVIOUS
<1>1. CASE Commit
  BY <1>1
  DEF TypeOK, Config, TreeInv, Goal, Commit, NewTransaction, CommitDeletes,
      Forgotten, cand, sil
<1>2. CASE DiscardChanges
  BY <1>2
  DEF TypeOK, Config, TreeInv, Goal, DiscardChanges, tree, transaction, sil, history
<1>3. ASSUME NEW m \in Node, NEW x \in Value, Edit(m, x) PROVE TreeInv'
  BY <1>3
  DEF TypeOK, Config, TreeInv, Goal, Edit, tree, transaction, sil, history
<1>4. ASSUME NEW m \in Node, ApplyEdit(m) PROVE TreeInv'
  BY <1>4
  DEF TypeOK, Config, TreeInv, Goal, ApplyEdit, cand, history
<1>5. ASSUME NEW m \in Node, CommitEdit(m) PROVE TreeInv'
  BY <1>5
  DEF TypeOK, Config, TreeInv, Goal, CommitEdit, tree, cand, history
<1>6. ASSUME NEW m \in Node, CommitRefused(m) PROVE TreeInv'
  BY <1>6
  DEF TypeOK, Config, TreeInv, Goal, CommitRefused, Proceed, tree, cand, history
<1>7. ASSUME NEW m \in Node, RollbackEdit(m) PROVE TreeInv'
  BY <1>7
  DEF TypeOK, Config, TreeInv, Goal, RollbackEdit, Undo, Restore, cand, history
<1>8. ASSUME NEW m \in Node, RollbackRefused(m) PROVE TreeInv'
  BY <1>8
  DEF TypeOK, Config, TreeInv, Goal, RollbackRefused, Restore, cand, history
<1>9. ASSUME NEW m \in Node, RollbackKills(m) PROVE TreeInv'
  BY <1>9
  DEF TypeOK, Config, TreeInv, Goal, RollbackKills, tree, cand, transaction, sil,
      history
<1>10. CASE ApplyRefused
  BY <1>10
  DEF TypeOK, Config, TreeInv, Goal, ApplyRefused, Proceed, tree, cand, sil, history
<1>11. CASE Applied
  BY <1>11
  DEF TypeOK, Config, TreeInv, Goal, Applied, Proceed, tree, cand, sil, history
<1>12. CASE Finalize
  BY <1>12
  DEF TypeOK, Config, TreeInv, Goal, Finalize, Merged, tree, transaction, sil, history
<1>13. CASE Loaded
  BY <1>13
  DEF TypeOK, Config, TreeInv, Goal, Loaded, Reply, cand, sil
<1>14. CASE Complete
  BY <1>14
  DEF TypeOK, Config, TreeInv, Goal, Complete, Reply, sil
<1>15. CASE CompleteFails
  BY <1>15
  DEF TypeOK, Config, TreeInv, Goal, CompleteFails, tree, cand, transaction, sil,
      history
<1>16. CASE RolledBack
  BY <1>16
  DEF TypeOK, Config, TreeInv, Goal, RolledBack, Reply, cand, sil
<1>17. CASE RollbackFailed
  BY <1>17
  DEF TypeOK, Config, TreeInv, Goal, RollbackFailed, tree, cand, transaction, sil,
      history
<1>18. CASE LoadBackup
  BY <1>18
  DEF TypeOK, Config, TreeInv, Goal, LoadBackup, NewTransaction, Differing, cand,
      sil, history
<1>19. CASE LoadFails
  BY <1>19
  DEF TypeOK, Config, TreeInv, Goal, LoadFails, Reply, cand, sil
<1>20. CASE UNCHANGED vars
  BY <1>20
  DEF TypeOK, Config, TreeInv, Goal, vars
<1>21. QED
  BY <1>1, <1>2, <1>3, <1>4, <1>5, <1>6, <1>7, <1>8, <1>9, <1>10, <1>11, <1>12,
     <1>13, <1>14, <1>15, <1>16, <1>17, <1>18, <1>19, <1>20
  DEF Next, Client, Server

\* The devices keep step with the phase.
LEMMA DeviceNext == TypeOK /\ TreeInv /\ DeviceInv /\ [Next]_vars => DeviceInv'
<1>. SUFFICES ASSUME TypeOK, TreeInv, DeviceInv, [Next]_vars PROVE DeviceInv'
  OBVIOUS
<1>1. CASE Commit
  BY <1>1
  DEF TypeOK, Config, TreeInv, DeviceInv, Settled, Before, Commit, NewTransaction,
      CommitDeletes, Forgotten, cand, sil
<1>2. CASE DiscardChanges
  BY <1>2
  DEF TypeOK, Config, TreeInv, DeviceInv, Settled, Before, DiscardChanges, tree,
      transaction, sil, history
<1>3. ASSUME NEW m \in Node, NEW x \in Value, Edit(m, x) PROVE DeviceInv'
  BY <1>3
  DEF TypeOK, Config, TreeInv, DeviceInv, Settled, Before, Edit, tree,
      transaction, sil, history
<1>4. ASSUME NEW m \in Node, ApplyEdit(m) PROVE DeviceInv'
  BY <1>4
  DEF TypeOK, Config, TreeInv, DeviceInv, Settled, Before, ApplyEdit, Goal, cand,
      history
<1>5. ASSUME NEW m \in Node, CommitEdit(m) PROVE DeviceInv'
  BY <1>5
  DEF TypeOK, Config, TreeInv, DeviceInv, Settled, Before, CommitEdit, tree, cand,
      history
<1>6. ASSUME NEW m \in Node, CommitRefused(m) PROVE DeviceInv'
  BY <1>6
  DEF TypeOK, Config, TreeInv, DeviceInv, Settled, Before, CommitRefused, Proceed,
      tree, cand, history
<1>7. ASSUME NEW m \in Node, RollbackEdit(m) PROVE DeviceInv'
  BY <1>7
  DEF TypeOK, Config, TreeInv, DeviceInv, Settled, Before, RollbackEdit, Undo,
      Restore, cand, history
<1>8. ASSUME NEW m \in Node, RollbackRefused(m) PROVE DeviceInv'
  BY <1>8
  DEF TypeOK, Config, TreeInv, DeviceInv, Settled, Before, RollbackRefused,
      Restore, cand, history
<1>9. ASSUME NEW m \in Node, RollbackKills(m) PROVE DeviceInv'
  BY <1>9
  DEF TypeOK, Config, TreeInv, DeviceInv, Settled, Before, RollbackKills, tree,
      cand, transaction, sil, history
<1>10. CASE ApplyRefused
  BY <1>10
  DEF TypeOK, Config, TreeInv, DeviceInv, Settled, Before, ApplyRefused, Proceed,
      tree, cand, sil, history
<1>11. CASE Applied
  BY <1>11
  DEF TypeOK, Config, TreeInv, DeviceInv, Settled, Before, Applied, Proceed, tree,
      cand, sil, history
<1>12. CASE Finalize
  BY <1>12
  DEF TypeOK, Config, TreeInv, DeviceInv, Settled, Before, Finalize, Merged, tree,
      transaction, sil, history
<1>13. CASE Loaded
  BY <1>13
  DEF TypeOK, Config, TreeInv, DeviceInv, Settled, Before, Loaded, Reply, cand, sil
<1>14. CASE Complete
  BY <1>14
  DEF TypeOK, Config, TreeInv, DeviceInv, Settled, Before, Complete, Reply, sil
<1>15. CASE CompleteFails
  BY <1>15
  DEF TypeOK, Config, TreeInv, DeviceInv, Settled, Before, CompleteFails, tree,
      cand, transaction, sil, history
<1>16. CASE RolledBack
  BY <1>16
  DEF TypeOK, Config, TreeInv, DeviceInv, Settled, Before, RolledBack, Reply, cand, sil
<1>17. CASE RollbackFailed
  BY <1>17
  DEF TypeOK, Config, TreeInv, DeviceInv, Settled, Before, RollbackFailed, tree,
      cand, transaction, sil, history
<1>18. CASE LoadBackup
  BY <1>18
  DEF TypeOK, Config, TreeInv, DeviceInv, Settled, Before, LoadBackup,
      NewTransaction, Differing, cand, sil, history
<1>19. CASE LoadFails
  BY <1>19
  DEF TypeOK, Config, TreeInv, DeviceInv, Settled, Before, LoadFails, Reply, cand, sil
<1>20. CASE UNCHANGED vars
  BY <1>20
  DEF TypeOK, Config, TreeInv, DeviceInv, Settled, Before, vars
<1>21. QED
  BY <1>1, <1>2, <1>3, <1>4, <1>5, <1>6, <1>7, <1>8, <1>9, <1>10, <1>11, <1>12,
     <1>13, <1>14, <1>15, <1>16, <1>17, <1>18, <1>19, <1>20
  DEF Next, Client, Server

\* What does not touch the candidate, the backup and the history leaves Lost
\* and Committed alone.
LEMMA LostStays ==
  ASSUME UNCHANGED <<candidate, marked, goal, missed, backup>>
  PROVE  (Lost => Lost') /\ Committed' = Committed
BY DEF Lost, Committed

\* When the edits are final, what moved into running is lost, and no mark is
\* left.
LEMMA FinalizeLost ==
  ASSUME TypeOK, TreeInv, PendingInv, Finalize
  PROVE  running = Committed /\ Lost'
<1>1. /\ phase = "commit" /\ todo = {} /\ ~loading
      /\ UNCHANGED <<backup, goal, missed>>
      /\ candidate' = [n \in Node |->
           IF n \in undo /\ ~Merged(n) THEN None ELSE candidate[n]]
      /\ marked' = marked \ undo
  BY DEF Finalize, history
<1>2. /\ old = backup /\ candidate = goal
      /\ missed = {n \in Node \ marked : candidate[n] \notin {None, backup[n]}}
  BY <1>1 DEF PendingInv, Whole
<1>3. \A n \in Node \ undo :
        n \notin marked /\ (candidate[n] = None => old[n] = None)
  BY <1>1 DEF PendingInv, Passed
<1>4. \A n \in undo : n \in marked \/ candidate[n] = None
  BY <1>1 DEF PendingInv
<1>5. /\ \A n \in undo : running[n] = candidate[n]
      /\ \A n \in Node \ undo : running[n] = old[n]
  BY <1>1 DEF TreeInv, Goal
<1>6. \A n \in Node : n \in undo => n \notin missed
  BY <1>2, <1>4
<1>7. \A n \in Node : running[n] = Committed[n]
  BY <1>2, <1>3, <1>5, <1>6 DEF Committed
<1>8. running = Committed
  BY <1>7 DEF Committed, TypeOK, Config
<1>9. marked' = {}
  BY <1>1, <1>3 DEF TypeOK
<1>10. Lost'
  <2>. DEFINE lost == {n \in undo : ~Merged(n)}
  <2>1. lost \in SUBSET {n \in Node : n \notin Leaf \/ backup'[n] = None}
    BY <1>1, <1>2 DEF Merged, TypeOK
  <2>2. \A n \in Node \ lost :
          Committed'[n] = backup'[n] \/ (n \in Leaf /\ backup'[n] # None)
    <3>1. Committed' = Committed
      BY <1>1 DEF Committed
    <3>2. QED
      BY <1>1, <1>2, <1>5, <1>7, <3>1 DEF Merged
  <2>3. candidate' = [n \in Node |-> IF n \in lost THEN None ELSE goal'[n]]
    BY <1>1, <1>2
  <2>4. QED
    BY <1>9, <2>1, <2>2, <2>3 DEF Lost
<1>11. QED
  BY <1>8, <1>10

\* The candidate is whole until the edits are final.
LEMMA PendingNext == TypeOK /\ TreeInv /\ PendingInv /\ [Next]_vars => PendingInv'
<1>. SUFFICES ASSUME TypeOK, TreeInv, PendingInv, [Next]_vars PROVE PendingInv'
  OBVIOUS
<1>1. CASE Commit
  BY <1>1
  DEF TypeOK, Config, TreeInv, PendingInv, Whole, Passed, Goal, Commit,
      NewTransaction, CommitDeletes, Forgotten, cand, sil
<1>2. CASE DiscardChanges
  BY <1>2
  DEF TypeOK, Config, TreeInv, PendingInv, Whole, Passed, Goal, DiscardChanges,
      tree, transaction, sil, history
<1>3. ASSUME NEW m \in Node, NEW x \in Value, Edit(m, x) PROVE PendingInv'
  BY <1>3
  DEF TypeOK, Config, TreeInv, PendingInv, Whole, Passed, Goal, Edit, tree,
      transaction, sil, history
<1>4. ASSUME NEW m \in Node, ApplyEdit(m) PROVE PendingInv'
  <2>1. (Lost => Lost') /\ Committed' = Committed
    BY <1>4, LostStays DEF ApplyEdit, Goal, cand, history
  <2>2. QED
    BY <1>4, <2>1
    DEF TypeOK, Config, TreeInv, PendingInv, Whole, Passed, Goal, ApplyEdit, cand,
        history
<1>5. ASSUME NEW m \in Node, CommitEdit(m) PROVE PendingInv'
  <2>1. (Lost => Lost') /\ Committed' = Committed
    BY <1>5, LostStays DEF CommitEdit, tree, cand, history
  <2>2. QED
    BY <1>5, <2>1
    DEF TypeOK, Config, TreeInv, PendingInv, Whole, Passed, Goal, CommitEdit,
        tree, cand, history
<1>6. ASSUME NEW m \in Node, CommitRefused(m) PROVE PendingInv'
  <2>1. (Lost => Lost') /\ Committed' = Committed
    BY <1>6, LostStays DEF CommitRefused, Proceed, tree, cand, history
  <2>2. QED
    BY <1>6, <2>1
    DEF TypeOK, Config, TreeInv, PendingInv, Whole, Passed, Goal, CommitRefused,
        Proceed, tree, cand, history
<1>7. ASSUME NEW m \in Node, RollbackEdit(m) PROVE PendingInv'
  <2>1. (Lost => Lost') /\ Committed' = Committed
    BY <1>7, LostStays DEF RollbackEdit, Undo, Restore, cand, history
  <2>2. QED
    BY <1>7, <2>1
    DEF TypeOK, Config, TreeInv, PendingInv, Whole, Passed, Goal, RollbackEdit,
        Undo, Restore, cand, history
<1>8. ASSUME NEW m \in Node, RollbackRefused(m) PROVE PendingInv'
  <2>1. (Lost => Lost') /\ Committed' = Committed
    BY <1>8, LostStays DEF RollbackRefused, Restore, cand, history
  <2>2. QED
    BY <1>8, <2>1
    DEF TypeOK, Config, TreeInv, PendingInv, Whole, Passed, Goal, RollbackRefused,
        Restore, cand, history
<1>9. ASSUME NEW m \in Node, RollbackKills(m) PROVE PendingInv'
  <2>1. (Lost => Lost') /\ Committed' = Committed
    BY <1>9, LostStays DEF RollbackKills, tree, cand, transaction, sil, history
  <2>2. QED
    BY <1>9, <2>1
    DEF TypeOK, Config, TreeInv, PendingInv, Whole, Passed, Goal, RollbackKills,
        tree, cand, transaction, sil, history
<1>10. CASE ApplyRefused
  <2>1. (Lost => Lost') /\ Committed' = Committed
    BY <1>10, LostStays DEF ApplyRefused, Proceed, tree, cand, sil, history
  <2>2. QED
    BY <1>10, <2>1
    DEF TypeOK, Config, TreeInv, PendingInv, Whole, Passed, Goal, ApplyRefused,
        Proceed, tree, cand, sil, history
<1>11. CASE Applied
  <2>1. (Lost => Lost') /\ Committed' = Committed
    BY <1>11, LostStays DEF Applied, Proceed, tree, cand, sil, history
  <2>2. QED
    BY <1>11, <2>1
    DEF TypeOK, Config, TreeInv, PendingInv, Whole, Passed, Goal, Applied,
        Proceed, tree, cand, sil, history
<1>12. CASE Finalize
  <2>1. Committed' = Committed
    BY <1>12 DEF Finalize, Committed, history
  <2>2. QED
    BY <1>12, <2>1, FinalizeLost
    DEF PendingInv, Finalize, tree, transaction
<1>13. CASE Loaded
  BY <1>13
  DEF TypeOK, Config, TreeInv, PendingInv, Whole, Passed, Goal, Loaded, Reply, cand, sil
<1>14. CASE Complete
  BY <1>14
  DEF TypeOK, Config, TreeInv, PendingInv, Whole, Passed, Goal, Complete, Reply, sil
<1>15. CASE CompleteFails
  <2>1. (Lost => Lost') /\ Committed' = Committed
    BY <1>15, LostStays DEF CompleteFails, tree, cand, transaction, sil, history
  <2>2. QED
    BY <1>15, <2>1
    DEF TypeOK, Config, TreeInv, PendingInv, Whole, Passed, Goal, CompleteFails,
        tree, cand, transaction, sil, history
<1>16. CASE RolledBack
  BY <1>16
  DEF TypeOK, Config, TreeInv, PendingInv, Whole, Passed, Goal, RolledBack, Reply,
      cand, sil
<1>17. CASE RollbackFailed
  <2>1. (Lost => Lost') /\ Committed' = Committed
    BY <1>17, LostStays DEF RollbackFailed, tree, cand, transaction, sil, history
  <2>2. QED
    BY <1>17, <2>1
    DEF TypeOK, Config, TreeInv, PendingInv, Whole, Passed, Goal, RollbackFailed,
        tree, cand, transaction, sil, history
<1>18. CASE LoadBackup
  <2>1. (Lost => Lost') /\ Committed' = Committed
    BY <1>18, LostStays DEF LoadBackup, NewTransaction, Differing, cand, sil, history
  <2>2. QED
    BY <1>18, <2>1
    DEF TypeOK, Config, TreeInv, PendingInv, Whole, Passed, Goal, LoadBackup,
        NewTransaction, Differing, cand, sil, history
<1>19. CASE LoadFails
  BY <1>19
  DEF TypeOK, Config, TreeInv, PendingInv, Whole, Passed, Goal, LoadFails, Reply,
      cand, sil
<1>20. CASE UNCHANGED vars
  <2>1. (Lost => Lost') /\ Committed' = Committed
    BY <1>20, LostStays DEF vars
  <2>2. QED
    BY <1>20, <2>1 DEF PendingInv, Whole, Passed, Goal, vars
<1>21. QED
  BY <1>1, <1>2, <1>3, <1>4, <1>5, <1>6, <1>7, <1>8, <1>9, <1>10, <1>11, <1>12,
     <1>13, <1>14, <1>15, <1>16, <1>17, <1>18, <1>19, <1>20
  DEF Next, Client, Server

LEMMA InitIInv == Init => IInv
BY DEF Init, IInv, TypeOK, Config, Value, TreeInv, DeviceInv, Settled, Before,
   PendingInv

LEMMA Inductive == IInv /\ [Next]_vars => IInv'
BY TypeNext, TreeNext, DeviceNext, PendingNext DEF IInv

LEMMA AlwaysIInv == Spec => []IInv
BY InitIInv, Inductive, PTL DEF Spec

\* Every state is well typed.
THEOREM TypeCorrect == Spec => []TypeOK
<1>1. IInv => TypeOK
  BY DEF IInv
<1>2. QED
  BY <1>1, AlwaysIInv, PTL

\* After every transaction, whatever its callbacks answered, running and the
\* devices agree wherever no SIL refused to undo.
THEOREM DevicesSettle == Spec => []DeviceFollows
<1>1. IInv => DeviceFollows
  BY DEF IInv, DeviceInv, Settled, Before, DeviceFollows
<1>2. QED
  BY <1>1, AlwaysIInv, PTL

-------------------------------------------------------------------------------
(* The refinement. *)

LEMMA InitAtomic == Init => Atomic!Init
BY DEF Init, Forgotten, Atomic!Init, Config, Atomic!Config

\* A transaction that ends with an error leaves what it started with, or
\* what a failure after its final edits leaves.
LEMMA ErrorAtomic ==
  ASSUME TypeOK, phase \notin {"idle", "dead"}, Reply("error"),
         UNCHANGED <<running, candidate, marked, backup>>,
         \/ Whole(running)
         \/ running \in {backup, Committed} /\ Lost
  PROVE  Atomic!Next
<1>1. phase' = "idle" /\ answer' = "error"
  BY DEF Reply
<1>2. Forgotten' = {n \in Node \ marked : candidate[n] \notin {None, running[n]}}
  BY DEF Forgotten
<1>3. CASE Whole(running)
  <2>1. Atomic!Kept
    BY <1>1, <1>2, <1>3 DEF Whole, Atomic!Kept
  <2>2. QED
    BY <2>1 DEF Atomic!Next
<1>4. CASE running \in {backup, Committed} /\ Lost
  <2>1. Atomic!Committed = Committed
    BY DEF Atomic!Committed, Committed
  <2>2. PICK lost \in SUBSET {n \in Node : n \notin Leaf \/ backup[n] = None} :
          /\ \A n \in Node \ lost :
               Committed[n] = backup[n] \/ (n \in Leaf /\ backup[n] # None)
          /\ candidate = [n \in Node |-> IF n \in lost THEN None ELSE goal[n]]
    BY <1>4 DEF Lost
  <2>3. Forgotten' = {n \in Node : candidate[n] \notin {None, running[n]}}
    BY <1>2, <1>4 DEF Lost
  <2>4. Atomic!Late
    BY <1>1, <1>4, <2>1, <2>2, <2>3 DEF Atomic!Late
  <2>5. QED
    BY <2>4 DEF Atomic!Next
<1>5. QED
  BY <1>3, <1>4

\* Every step of the server is a step of AtomicCommit, or one its clients do
\* not see.
LEMMA NextAtomic == IInv /\ [Next]_vars => [Atomic!Next]_Atomic!vars
<1>. SUFFICES ASSUME IInv, [Next]_vars PROVE [Atomic!Next]_Atomic!vars
  OBVIOUS
<1>. USE DEF IInv
<1>1. CASE Commit
  BY <1>1
  DEF Atomic!vars, Commit, NewTransaction, cand, sil
<1>2. CASE DiscardChanges
  <2>1. Forgotten' = {n \in Forgotten : candidate'[n] = candidate[n]}
    BY <1>2 DEF DiscardChanges, Forgotten, tree
  <2>2. Atomic!Edit
    BY <1>2, <2>1 DEF DiscardChanges, TypeOK, Config, tree, Atomic!Edit, Atomic!Config
, history
  <2>3. QED
    BY <2>2 DEF Atomic!Next
<1>3. ASSUME NEW m \in Node, NEW x \in Value, Edit(m, x) PROVE [Atomic!Next]_Atomic!vars
  <2>1. phase = "idle" /\ phase' = "idle" /\ candidate' \in Config
    BY <1>3 DEF Edit, TypeOK, Config
  <2>2. Forgotten' = {n \in Forgotten : candidate'[n] = candidate[n]}
    BY <1>3 DEF Edit, Forgotten, TypeOK, Config, tree
  <2>3. Atomic!Edit
    BY <1>3, <2>1, <2>2 DEF Atomic!Edit, Atomic!Config, Config, Edit, tree
  <2>4. QED
    BY <2>3 DEF Atomic!Next
<1>4. ASSUME NEW m \in Node, ApplyEdit(m) PROVE [Atomic!Next]_Atomic!vars
  BY <1>4
  DEF Atomic!vars, ApplyEdit, Goal, cand, history
<1>5. ASSUME NEW m \in Node, CommitEdit(m) PROVE [Atomic!Next]_Atomic!vars
  BY <1>5
  DEF Atomic!vars, CommitEdit, tree, cand, history
<1>6. ASSUME NEW m \in Node, CommitRefused(m) PROVE [Atomic!Next]_Atomic!vars
  BY <1>6
  DEF Atomic!vars, CommitRefused, Proceed, tree, cand, history
<1>7. ASSUME NEW m \in Node, RollbackEdit(m) PROVE [Atomic!Next]_Atomic!vars
  BY <1>7
  DEF Atomic!vars, RollbackEdit, Undo, Restore, cand, history
<1>8. ASSUME NEW m \in Node, RollbackRefused(m) PROVE [Atomic!Next]_Atomic!vars
  BY <1>8
  DEF Atomic!vars, RollbackRefused, Restore, cand, history
<1>9. ASSUME NEW m \in Node, RollbackKills(m) PROVE [Atomic!Next]_Atomic!vars
  BY <1>9
  DEF Atomic!vars, RollbackKills, tree, cand, transaction, sil, history
<1>10. CASE ApplyRefused
  BY <1>10
  DEF Atomic!vars, ApplyRefused, Proceed, tree, cand, sil, history
<1>11. CASE Applied
  BY <1>11
  DEF Atomic!vars, Applied, Proceed, tree, cand, sil, history
<1>12. CASE Finalize
  BY <1>12
  DEF Atomic!vars, Finalize, Merged, tree, transaction, sil, history
<1>13. CASE Loaded
  <2>1. running = backup /\ (Whole(running) \/ Lost)
    BY <1>13 DEF Loaded, TypeOK, Config, TreeInv, PendingInv, Goal, Whole, Passed
  <2>2. QED
    BY <1>13, <2>1, ErrorAtomic DEF Loaded, cand
<1>14. CASE Complete
  <2>1. running = Atomic!Committed
    BY <1>14 DEF Complete, PendingInv, Committed, Atomic!Committed
  <2>2. Forgotten' = {}
    BY <1>14 DEF Complete, Forgotten
  <2>3. Atomic!Taken
    BY <1>14, <2>1, <2>2 DEF Complete, Reply, Atomic!Taken
  <2>4. QED
    BY <2>3 DEF Atomic!Next
<1>15. CASE CompleteFails
  BY <1>15
  DEF Atomic!vars, CompleteFails, tree, cand, transaction, sil, history
<1>16. CASE RolledBack
  <2>1. running = old
    BY <1>16 DEF RolledBack, TypeOK, Config, TreeInv
  <2>2. Whole(running) \/ (running = Committed /\ Lost)
    BY <1>16, <2>1 DEF RolledBack, PendingInv
  <2>3. QED
    BY <1>16, <2>2, ErrorAtomic DEF RolledBack, cand
<1>17. CASE RollbackFailed
  BY <1>17
  DEF Atomic!vars, RollbackFailed, tree, cand, transaction, sil, history
<1>18. CASE LoadBackup
  BY <1>18
  DEF Atomic!vars, LoadBackup, NewTransaction, Differing, cand, sil, history
<1>19. CASE LoadFails
  <2>1. Whole(running) \/ (running = Committed /\ Lost)
    BY <1>19 DEF LoadFails, PendingInv
  <2>2. QED
    BY <1>19, <2>1, ErrorAtomic DEF LoadFails, cand
<1>20. CASE UNCHANGED vars
  BY <1>20
  DEF Atomic!vars, Forgotten, vars
<1>21. QED
  BY <1>1, <1>2, <1>3, <1>4, <1>5, <1>6, <1>7, <1>8, <1>9, <1>10, <1>11, <1>12,
     <1>13, <1>14, <1>15, <1>16, <1>17, <1>18, <1>19, <1>20
  DEF Next, Client, Server

\* Whatever the SILs, the callbacks and the backup do, a client sees of a
\* commit what AtomicCommit allows.
THEOREM Implements == Spec => AllOrNothing
<1>1. QED
  BY InitAtomic, NextAtomic, AlwaysIInv, PTL DEF Spec, AllOrNothing, Atomic!Spec

-------------------------------------------------------------------------------
(* How far a transaction is from its answer. *)

\* A phase is worth more than the ones that may follow it: a transaction that
\* loads the backup has none behind it, the first one may end in such a load.
Rounds ==
    CASE phase = "idle" -> 0
      [] phase = "rollback" -> IF loading THEN 1 ELSE 5
      [] phase = "commit" -> IF loading THEN 2 ELSE 6
      [] phase = "apply" -> IF loading THEN 3 ELSE 7
      [] phase = "load" -> 4
      [] phase = "complete" -> 5
      [] phase = "dead" -> 0

\* A phase looks at each of its nodes once, then at whether it is done.
StepsLeft == Rounds * (Cardinality(Node) + 1) + Cardinality(todo)

Nearer == StepsLeft' \in Nat /\ StepsLeft' < StepsLeft

\* A phase looks at no more nodes than there are.
LEMMA SubsetSize ==
    ASSUME NEW S \in SUBSET Node
    PROVE  /\ IsFiniteSet(S)
           /\ Cardinality(Node) \in Nat
           /\ Cardinality(S) \in 0..Cardinality(Node)
<1>1. IsFiniteSet(S) /\ Cardinality(S) <= Cardinality(Node)
  BY NodesFinite, FS_Subset
<1>2. Cardinality(Node) \in Nat /\ Cardinality(S) \in Nat
  BY <1>1, NodesFinite, FS_CardinalityType
<1>3. QED
  BY <1>1, <1>2

\* A round outweighs whatever is left to do in the next ones.
LEMMA RoundOutweighs ==
    ASSUME NEW a \in Nat, NEW b \in Nat, b < a, NEW size \in Nat,
           NEW c \in Nat, NEW d \in Nat, d < size
    PROVE  b * size + d \in Nat /\ b * size + d < a * size + c
<1>1. PICK k \in Nat : a = b + 1 + k
  <2>1. a - b - 1 \in Nat /\ a = b + 1 + (a - b - 1)
    OBVIOUS
  <2>2. QED
    BY <2>1
<1>2. a * size = b * size + size + k * size
  BY <1>1
<1>3. k * size \in Nat /\ b * size \in Nat
  OBVIOUS
<1>4. QED
  BY <1>2, <1>3

\* A later phase is nearer to the answer, whatever it has to look at.
LEMMA LaterPhase ==
    ASSUME TypeOK, TypeOK', Rounds' < Rounds
    PROVE  Nearer
<1>1. todo \in SUBSET Node /\ todo' \in SUBSET Node
  BY DEF TypeOK
<1>2. /\ Cardinality(Node) + 1 \in Nat /\ Cardinality(todo) \in Nat
      /\ Cardinality(todo') \in Nat /\ Cardinality(todo') < Cardinality(Node) + 1
  BY <1>1, SubsetSize
<1>3. Rounds \in Nat /\ Rounds' \in Nat
  BY DEF Rounds, TypeOK
<1>4. QED
  BY <1>2, <1>3, RoundOutweighs DEF Nearer, StepsLeft

\* So is the same phase with a node less.
LEMMA NodeLess ==
    ASSUME TypeOK, TypeOK', phase' = phase, loading' = loading,
           NEW m \in todo, todo' = todo \ {m}
    PROVE  Nearer
<1>1. Rounds' = Rounds
  BY DEF Rounds
<1>2. todo \in SUBSET Node /\ todo' \in SUBSET Node
  BY DEF TypeOK
<1>3. Cardinality(todo') = Cardinality(todo) - 1
  BY <1>2, SubsetSize, FS_RemoveElement
<1>4. Cardinality(todo') \in Nat /\ Cardinality(todo) \in Nat
  BY <1>2, SubsetSize
<1>5. Rounds * (Cardinality(Node) + 1) \in Nat
  BY <1>2, SubsetSize DEF Rounds, TypeOK
<1>6. QED
  BY <1>1, <1>3, <1>4, <1>5 DEF Nearer, StepsLeft

\* Every step of the server brings the transaction nearer to its answer.
LEMMA ServerNearer == ASSUME TypeOK, TypeOK', Server PROVE Nearer
<1>1. ASSUME NEW m \in Node, ApplyEdit(m) PROVE Nearer
  BY <1>1, NodeLess DEF ApplyEdit
<1>2. ASSUME NEW m \in Node, CommitEdit(m) PROVE Nearer
  BY <1>2, NodeLess DEF CommitEdit
<1>3. ASSUME NEW m \in Node, CommitRefused(m) PROVE Nearer
  <2>1. Rounds' < Rounds
    BY <1>3 DEF CommitRefused, Proceed, Rounds, TypeOK
  <2>2. QED
    BY <2>1, LaterPhase
<1>4. ASSUME NEW m \in Node, RollbackEdit(m) PROVE Nearer
  BY <1>4, NodeLess DEF RollbackEdit
<1>5. ASSUME NEW m \in Node, RollbackRefused(m) PROVE Nearer
  BY <1>5, NodeLess DEF RollbackRefused
<1>6. ASSUME NEW m \in Node, RollbackKills(m) PROVE Nearer
  <2>1. Rounds' < Rounds
    BY <1>6 DEF RollbackKills, transaction, Rounds, TypeOK
  <2>2. QED
    BY <2>1, LaterPhase
<1>7. CASE ApplyRefused
  <2>1. Rounds' < Rounds
    BY <1>7 DEF ApplyRefused, Proceed, Rounds, TypeOK
  <2>2. QED
    BY <2>1, LaterPhase
<1>8. CASE Applied
  <2>1. Rounds' < Rounds
    BY <1>8 DEF Applied, Proceed, Rounds, TypeOK
  <2>2. QED
    BY <2>1, LaterPhase
<1>9. CASE Finalize
  <2>1. Rounds' < Rounds
    BY <1>9 DEF Finalize, transaction, Rounds, TypeOK
  <2>2. QED
    BY <2>1, LaterPhase
<1>10. CASE Loaded
  <2>1. Rounds' < Rounds
    BY <1>10 DEF Loaded, Reply, Rounds, TypeOK
  <2>2. QED
    BY <2>1, LaterPhase
<1>11. CASE Complete
  <2>1. Rounds' < Rounds
    BY <1>11 DEF Complete, Reply, Rounds, TypeOK
  <2>2. QED
    BY <2>1, LaterPhase
<1>12. CASE CompleteFails
  <2>1. Rounds' < Rounds
    BY <1>12 DEF CompleteFails, transaction, Rounds, TypeOK
  <2>2. QED
    BY <2>1, LaterPhase
<1>13. CASE RolledBack
  <2>1. Rounds' < Rounds
    BY <1>13 DEF RolledBack, Reply, Rounds, TypeOK
  <2>2. QED
    BY <2>1, LaterPhase
<1>14. CASE RollbackFailed
  <2>1. Rounds' < Rounds
    BY <1>14 DEF RollbackFailed, transaction, Rounds, TypeOK
  <2>2. QED
    BY <2>1, LaterPhase
<1>15. CASE LoadBackup
  <2>1. Rounds' < Rounds
    BY <1>15 DEF LoadBackup, NewTransaction, Rounds, TypeOK
  <2>2. QED
    BY <2>1, LaterPhase
<1>16. CASE LoadFails
  <2>1. Rounds' < Rounds
    BY <1>16 DEF LoadFails, Reply, Rounds, TypeOK
  <2>2. QED
    BY <2>1, LaterPhase
<1>17. QED
  BY <1>1, <1>2, <1>3, <1>4, <1>5, <1>6, <1>7, <1>8, <1>9, <1>10, <1>11, <1>12,
     <1>13, <1>14, <1>15, <1>16
  DEF Server

\* The safety half of Answered: while a commit is in progress, its steps can
\* only bring it nearer to its answer, so that there is no way round in which
\* an edit, a rollback or a load is tried again, and no request of a client
\* comes between them.
THEOREM CommitTerminates == Spec => [][phase # "idle" => Nearer]_vars
<1>1. IInv /\ IInv' /\ [Next]_vars => [phase # "idle" => Nearer]_vars
  <2>. SUFFICES ASSUME IInv, IInv', Next, phase # "idle" PROVE Nearer
    OBVIOUS
  <2>1. ~Client
    BY DEF Client, Commit, DiscardChanges, Edit
  <2>2. QED
    BY <2>1, ServerNearer DEF Next, IInv
<1>2. QED
  BY <1>1, AlwaysIInv, PTL DEF Spec

================================================================================
