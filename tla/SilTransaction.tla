---------------------------- MODULE SilTransaction ----------------------------
(***************************************************************************)
(* How the netconf server commits the candidate: the transaction with its  *)
(* undo records, and the callbacks of the server instrumentation library   *)
(* (SIL) that carry each edit to the device.                               *)
(*                                                                         *)
(* Every edit is applied to running and announced to its SIL (APPLY), then *)
(* every SIL is asked to COMMIT, and only when all have agreed the edits   *)
(* are final.  A refusal starts the rollback: SILs that had committed are  *)
(* asked to take the edit back as if it were a new one, the others get     *)
(* ROLLBACK, and the tree gets its old nodes whatever they answer.  When a *)
(* SIL refuses that too, or something fails after the edits are final, the *)
(* backup file is loaded as a transaction of its own.                      *)
(*                                                                         *)
(* Netconfd has the outcome of all this as one step of the server.  A node *)
(* is where an edit is applied; it has a SIL of its own.  A leaf that      *)
(* running has too is merged in place and stays in the candidate, any      *)
(* other node moves into running.  A phase of the code takes the undo      *)
(* records in one order, a phase here in any.                              *)
(***************************************************************************)

EXTENDS FiniteSets

CONSTANTS Node,         \* the nodes of the configuration
          Leaf,         \* those that are leafs or leaf-lists
          Content,      \* the contents of nodes
          Schema,       \* which of them the type of a node allows
          None,         \* the value of a node that is not there
          Nothing,      \* a SIL has no change at hand
          Unknown       \* what a SIL has that refused to undo

ASSUME NodesFinite == IsFiniteSet(Node)

ASSUME LeafsAreNodes == Leaf \subseteq Node

ASSUME SchemaOfNodes == Schema \in [Node -> SUBSET Content]

ASSUME NoneIsNoContent == None \notin Content

Value == Content \cup {None}

ASSUME NothingIsNoValue == Nothing \notin Value

ASSUME UnknownIsNoValue == Unknown \notin Value

Config == [Node -> Value]

VARIABLES
    running,        \* the tree of running
    candidate,      \* the tree of the candidate, markers included
    marked,         \* its nodes with VAL_FL_DIRTY
    backup,         \* the file backup-cfg.xml
    phase,          \* idle, or what the transaction is doing, or dead
    loading,        \* the transaction loads the backup
    todo,           \* the nodes this phase has not come to
    undo,           \* the nodes with an undo record
    old,            \* the curnode of the undo records
    commit_res,     \* the answer of a SIL to COMMIT
    rollback_res,   \* the answers to the rollback, for the transaction
    device,         \* what the SILs have made of their nodes
    staged,         \* what a SIL has applied and not settled
    answer,         \* the last answer to a client
    goal,           \* history: the candidate a commit in progress began with
    missed          \* history: what of it this commit does not look at

tree == <<running, old>>
cand == <<candidate, marked>>
transaction == <<loading, todo, undo, commit_res, rollback_res>>
sil == <<device, staged>>
history == <<goal, missed>>
vars == <<running, candidate, marked, backup, phase, loading, todo, undo, old,
          commit_res, rollback_res, device, staged, answer, goal, missed>>

Init ==
    /\ running \in Config
    /\ \A n \in Node : running[n] \in Schema[n] \cup {None}
    /\ candidate = running
    /\ marked = {}
    /\ backup = running
    /\ phase = "idle"
    /\ loading = FALSE
    /\ todo = {}
    /\ undo = {}
    /\ old = running
    /\ commit_res = [n \in Node |-> "skipped"]
    /\ rollback_res = "skipped"
    /\ device = running
    /\ staged = [n \in Node |-> Nothing]
    /\ answer = "none"
    /\ goal = running
    /\ missed = {}

-------------------------------------------------------------------------------
(* The candidate between two commits. *)

\* An edit-config of the candidate; a deleted node leaves no mark.
Edit(n, x) ==
    /\ phase = "idle"
    /\ x \in (Schema[n] \cup {None}) \ {candidate[n]}
    /\ candidate' = [candidate EXCEPT ![n] = x]
    /\ marked' = IF x = None THEN marked \ {n} ELSE marked \cup {n}
    /\ UNCHANGED <<tree, backup, phase, transaction, sil, answer, history>>

DiscardChanges ==
    /\ phase = "idle"
    /\ candidate' = running
    /\ marked' = {}
    /\ UNCHANGED <<tree, backup, phase, transaction, sil, answer, history>>

-------------------------------------------------------------------------------
(* The transaction. *)

\* agt_cfg_new_transaction, and the walk over the nodes it is to change.
NewTransaction(edits, load) ==
    /\ phase' = "apply"
    /\ loading' = load
    /\ todo' = edits
    /\ undo' = {}
    /\ old' = running
    /\ commit_res' = [n \in Node |-> "skipped"]
    /\ rollback_res' = "skipped"

\* The next phase looks at every undo record.
Proceed(next) ==
    /\ phase' = next
    /\ todo' = undo

\* agt_cfg_free_transaction; the client is answered.
Reply(what) ==
    /\ phase' = "idle"
    /\ answer' = what
    /\ loading' = FALSE
    /\ todo' = {}
    /\ undo' = {}
    /\ old' = running
    /\ commit_res' = [n \in Node |-> "skipped"]
    /\ rollback_res' = "skipped"
    /\ goal' = running
    /\ missed' = {}

\* The nodes of running that the candidate lacks.
CommitDeletes == {n \in Node : candidate[n] = None /\ running[n] # None}

\* What the candidate has new without a mark; no commit will find it.
Forgotten == {n \in Node \ marked : candidate[n] \notin {None, running[n]}}

\* commit_invoke writes the backup before it touches running.
Commit ==
    /\ phase = "idle"
    /\ backup' = running
    /\ goal' = candidate
    /\ missed' = Forgotten
    /\ NewTransaction(marked \cup CommitDeletes, FALSE)
    /\ UNCHANGED <<running, cand, sil, answer>>

\* Where the transaction takes its nodes from.
Goal == IF loading THEN backup ELSE candidate

\* The SIL of n accepts the edit, running gets the node.
ApplyEdit(n) ==
    /\ phase = "apply"
    /\ n \in todo
    /\ staged' = [staged EXCEPT ![n] = Goal[n]]
    /\ running' = [running EXCEPT ![n] = Goal[n]]
    /\ undo' = undo \cup {n}
    /\ todo' = todo \ {n}
    /\ UNCHANGED <<cand, backup, phase, loading, old, commit_res, rollback_res,
                   device, answer, history>>

\* Mutant: the edits applied before the refusal are not rolled back.
ApplyRefusedEnds ==
    /\ phase = "apply"
    /\ todo # {}
    /\ Reply("error")
    /\ UNCHANGED <<running, cand, backup, sil>>

\* It refuses: there is no undo record, the rest is not tried.
ApplyRefused ==
    /\ phase = "apply"
    /\ todo # {}
    /\ Proceed("rollback")
    /\ UNCHANGED <<tree, cand, backup, loading, undo, commit_res, rollback_res,
                   sil, answer, history>>

\* All is applied; agt_val_apply_write of a load also checks the new tree.
Applied ==
    /\ phase = "apply"
    /\ todo = {}
    /\ Proceed("commit") \/ (loading /\ Proceed("rollback"))
    /\ UNCHANGED <<tree, cand, backup, loading, undo, commit_res, rollback_res,
                   sil, answer, history>>

CommitEdit(n) ==
    /\ phase = "commit"
    /\ n \in todo
    /\ device' = [device EXCEPT ![n] = staged[n]]
    /\ staged' = [staged EXCEPT ![n] = Nothing]
    /\ commit_res' = [commit_res EXCEPT ![n] = "ok"]
    /\ todo' = todo \ {n}
    /\ UNCHANGED <<tree, cand, backup, phase, loading, undo, rollback_res,
                   answer, history>>

\* A SIL that refuses is taken to need no rollback.
CommitRefused(n) ==
    /\ phase = "commit"
    /\ n \in todo
    /\ staged' = [staged EXCEPT ![n] = Nothing]
    /\ commit_res' = [commit_res EXCEPT ![n] = "refused"]
    /\ Proceed("rollback")
    /\ UNCHANGED <<tree, cand, backup, loading, undo, rollback_res, device,
                   answer, history>>

\* A leaf that was there before has been merged into the old one, and
\* restore_newnode has put the new one back into the candidate at once.
Merged(n) == n \in Leaf /\ old[n] # None

\* Every SIL has agreed, the edits are final: the nodes that moved into
\* running are gone from the candidate, the merged ones have lost their mark.
Finalize ==
    /\ phase = "commit"
    /\ todo = {}
    /\ ~loading
    /\ phase' = "complete"
    /\ candidate' = [n \in Node |->
         IF n \in undo /\ ~Merged(n) THEN None ELSE candidate[n]]
    /\ marked' = marked \ undo
    /\ UNCHANGED <<tree, backup, transaction, sil, answer, history>>

\* The backup is in force again; its commit has failed all the same.
Loaded ==
    /\ phase = "commit"
    /\ todo = {}
    /\ loading
    /\ Reply("error")
    /\ UNCHANGED <<running, cand, backup, sil>>

\* The commit-complete callbacks, the save of startup, the new candidate.
Complete ==
    /\ phase = "complete"
    /\ candidate' = running
    /\ marked' = {}
    /\ Reply("ok")
    /\ UNCHANGED <<running, backup, sil>>

\* A callback or the save fails; rollback_res is still ERR_NCX_SKIPPED.
CompleteFails ==
    /\ phase = "complete"
    /\ phase' = "load"
    /\ UNCHANGED <<tree, cand, backup, transaction, sil, answer, history>>

-------------------------------------------------------------------------------
(* The rollback. *)

\* restore_curnode and restore_newnode: the old node is back, the new one is
\* where its marker was.
Restore(n) == running' = [running EXCEPT ![n] = old[n]]

\* Mutant: a SIL that has committed is only told to roll back.
UndoByRollback(n) ==
    /\ staged' = [staged EXCEPT ![n] = Nothing]
    /\ UNCHANGED device

\* What the SIL of n does when it agrees to undo: reverse_edit has it apply
\* and commit the old node, otherwise it drops what it had applied.
Undo(n) ==
    IF commit_res[n] = "ok" THEN /\ device' = [device EXCEPT ![n] = old[n]]
                                 /\ UNCHANGED staged
                            ELSE /\ staged' = [staged EXCEPT ![n] = Nothing]
                                 /\ UNCHANGED device

RollbackEdit(n) ==
    /\ phase = "rollback"
    /\ n \in todo
    /\ Undo(n)
    /\ Restore(n)
    /\ todo' = todo \ {n}
    /\ UNCHANGED <<cand, backup, phase, loading, undo, old, commit_res,
                   rollback_res, answer, history>>

\* A SIL that was not asked to commit refuses ROLLBACK: the warning about it
\* has the number of the transaction for the first of its names.
\* Undefined: this outcome ends the server before anything is restored,
\* RollbackRefused is the other one.
RollbackKills(n) ==
    /\ phase = "rollback"
    /\ n \in todo
    /\ commit_res[n] = "skipped"
    /\ phase' = "dead"
    /\ UNCHANGED <<tree, cand, backup, transaction, sil, answer, history>>

\* The SIL refuses, and what it has made of the edit is its own affair; one
\* that had refused to commit is not asked.
RollbackRefused(n) ==
    /\ phase = "rollback"
    /\ n \in todo
    /\ commit_res[n] # "refused"
    /\ Restore(n)
    /\ device' = [device EXCEPT ![n] = Unknown]
    /\ staged' = [staged EXCEPT ![n] = Nothing]
    /\ rollback_res' = "failed"
    /\ todo' = todo \ {n}
    /\ UNCHANGED <<cand, backup, phase, loading, undo, old, commit_res, answer,
                   history>>

RolledBack ==
    /\ phase = "rollback"
    /\ todo = {}
    /\ loading \/ rollback_res # "failed"
    /\ Reply("error")
    /\ UNCHANGED <<running, cand, backup, sil>>

RollbackFailed ==
    /\ phase = "rollback"
    /\ todo = {}
    /\ ~loading /\ rollback_res = "failed"
    /\ phase' = "load"
    /\ UNCHANGED <<tree, cand, backup, transaction, sil, answer, history>>

\* agt_apply_this_node: a node is replaced only where the values differ.
Differing == {n \in Node : backup[n] # running[n]}

\* The transaction is freed and the backup loaded by another one.
LoadBackup ==
    /\ phase = "load"
    /\ NewTransaction(Differing, TRUE)
    /\ UNCHANGED <<running, cand, backup, sil, answer, history>>

\* Mutant: a backup that cannot be read is tried again.
LoadTriedAgain ==
    /\ phase = "load"
    /\ phase' = "complete"
    /\ UNCHANGED <<tree, cand, backup, transaction, sil, answer, history>>

\* The file cannot be read or is refused.
LoadFails ==
    /\ phase = "load"
    /\ Reply("error")
    /\ UNCHANGED <<running, cand, backup, sil>>

-------------------------------------------------------------------------------

Client == Commit \/ DiscardChanges \/ (\E n \in Node, x \in Value : Edit(n, x))

Server ==
    \/ \E n \in Node :
         \/ ApplyEdit(n)
         \/ CommitEdit(n)
         \/ CommitRefused(n)
         \/ RollbackEdit(n)
         \/ RollbackRefused(n)
         \/ RollbackKills(n)
    \/ ApplyRefused
    \/ Applied
    \/ Finalize
    \/ Loaded
    \/ Complete
    \/ CompleteFails
    \/ RolledBack
    \/ RollbackFailed
    \/ LoadBackup
    \/ LoadFails

Next == Client \/ Server

Spec == Init /\ [][Next]_vars

FairSpec == Spec /\ WF_vars(Server)
-------------------------------------------------------------------------------
(* Properties. *)

\* Type correctness.
TypeOK ==
    /\ running \in Config
    /\ candidate \in Config
    /\ marked \subseteq Node
    /\ backup \in Config
    /\ phase \in {"idle", "apply", "commit", "complete", "rollback", "load", "dead"}
    /\ loading \in BOOLEAN
    /\ todo \subseteq Node
    /\ undo \subseteq Node
    /\ old \in Config
    /\ commit_res \in [Node -> {"skipped", "ok", "refused"}]
    /\ rollback_res \in {"skipped", "failed"}
    /\ device \in [Node -> Value \cup {Unknown}]
    /\ staged \in [Node -> Value \cup {Nothing}]
    /\ answer \in {"none", "ok", "error"}
    /\ goal \in Config
    /\ missed \subseteq Node

\* Between two transactions the device is what running says and no SIL has
\* anything at hand, except where a SIL refused to undo (agt_val.c:3075-3080:
\* what each record needs depends on how far the commit had come).
DeviceFollows ==
    phase = "idle" =>
        \A n \in Node : device[n] \in {running[n], Unknown} /\ staged[n] = Nothing

\* Whatever the SILs answer, and whatever fails in between, a client sees of
\* a commit what AtomicCommit allows.
Atomic == INSTANCE AtomicCommit WITH
    running <- IF phase = "idle" THEN running ELSE backup,
    candidate <- IF phase = "idle" THEN candidate ELSE goal,
    forgotten <- IF phase = "idle" THEN Forgotten ELSE missed

AllOrNothing == Atomic!Spec

\* Every commit is answered, also when all that is tried to undo it fails;
\* unless the server dies of the warning that a SIL refused ROLLBACK.
Answered == phase # "idle" ~> phase \in {"idle", "dead"}
===============================================================================
