------------------------------- MODULE Netconfd -------------------------------
(***************************************************************************)
(* The configuration of the netconf server that a firewall VM runs: its    *)
(* sessions, the datastores candidate, running and startup, the global     *)
(* locks, and the confirmed commit with its backup file.                   *)
(*                                                                         *)
(* The server is one thread around select.  A message of a session is      *)
(* handled to its end before the next one is read; the timeouts are looked *)
(* at only when select returns without input.  The target of edits is the  *)
(* candidate, and startup mirrors running (the defaults of the server).    *)
(*                                                                         *)
(* A configuration is the content of one top-level container, and an edit  *)
(* gives it a new content.  A request that is refused, or only reads,      *)
(* changes nothing and is NoEffect.                                        *)
(***************************************************************************)
EXTENDS FiniteSets, Naturals

CONSTANTS Session,      \* session ids (agtses); a freed id is used again
          NoSession,    \* sid 0: no session, the server itself
          Content,      \* contents of a configuration
          Empty,        \* the content of a configuration without container
          PersistId,    \* the tokens of persistent confirmed commits
          NoId,         \* no persist or persist-id parameter
          NoFile,       \* backup-cfg.xml does not exist
          MaxFaults     \* bound: kinds of failure between two starts

ASSUME SessionsReal == NoSession \notin Session
ASSUME EmptyIsContent == Empty \in Content
ASSUME IdsReal == NoId \notin PersistId
ASSUME FilesReal == NoFile \notin Content
ASSUME BoundReal == MaxFaults \in Nat

VARIABLES
    open,           \* the sessions that exist
    candidate,      \* the content of the candidate
    dirty,          \* its flag CFG_FL_DIRTY: changed since it was filled
    marks,          \* its nodes have the flags VAL_FL_DIRTY a commit looks for
    running,        \* the content of running
    startup,        \* the file startup-cfg.xml
    backup,         \* the file backup-cfg.xml
    owner,          \* locked_by of candidate and of running
    cc,             \* commit_cb: the confirmed commit in progress
    expired,        \* its timeout has passed
    input,          \* something is to be read when select is called
    stop,           \* --startup-error=stop
    faults,         \* history: what failed since the server started
    refused,        \* history: a backup was not loaded because of a lock
    forgotten       \* history: the trial's session was freed without notice

files == <<startup, backup>>
store == <<candidate, dirty, marks>>
history == <<faults, refused, forgotten>>
vars == <<open, candidate, dirty, marks, running, startup, backup, owner, cc,
          expired, input, stop, faults, refused, forgotten>>

Datastore == {"candidate", "running"}

NoTrial == [active |-> FALSE, ses |-> NoSession, persist |-> NoId]

Trial(s, persist) == [active |-> TRUE, ses |-> s, persist |-> persist]

Trials == {Trial(s, p) : s \in Session \cup {NoSession}, p \in PersistId \cup {NoId}}

\* What can fail: to write the backup, a callback of a commit, its rollback,
\* the end of a commit after its edits are final, and to load the backup.
FaultKind == {"backup", "callback", "rollback", "late", "load"}

Init ==
    /\ open = {}
    /\ running \in Content
    /\ candidate = running
    /\ dirty = FALSE
    /\ marks = FALSE
    /\ startup = running
    /\ backup \in Content \cup {NoFile}
    /\ owner = [d \in Datastore |-> NoSession]
    /\ cc = NoTrial
    /\ expired = FALSE
    /\ input = FALSE
    /\ stop \in BOOLEAN
    /\ faults = {}
    /\ refused = FALSE
    /\ forgotten = FALSE

-------------------------------------------------------------------------------
(* The server loop. *)

Arrive ==
    /\ ~input
    /\ input' = TRUE
    /\ UNCHANGED <<open, store, running, files, owner, cc, expired, stop, history>>

\* A message of session s is read.
Request(s) ==
    /\ s \in open
    /\ input
    /\ input' = FALSE
    /\ UNCHANGED stop

NoEffect(s) ==
    /\ Request(s)
    /\ UNCHANGED <<open, store, running, files, owner, cc, expired, history>>

NewSession(s) ==
    /\ input
    /\ s \notin open
    /\ open' = open \cup {s}
    /\ input' = FALSE
    /\ UNCHANGED <<store, running, files, owner, cc, expired, stop, history>>

-------------------------------------------------------------------------------
(* Faults, and the load of a file into running. *)

\* The failures of this step, as far as the bound allows.
Fails(kinds) ==
    /\ Cardinality(faults \cup kinds) <= MaxFaults
    /\ faults' = faults \cup kinds

\* agt_val_validate_write lets sid 0 write a locked running only because
\* --startup-error=continue ignores its answer.
LoadRefused(sid) == stop /\ owner["running"] \notin {NoSession, sid}

LoadOk(file, sid, failed) == ~failed /\ file # NoFile /\ ~LoadRefused(sid)

\* running after the file is loaded as user sid over content.
Loaded(file, sid, failed, content) ==
    IF LoadOk(file, sid, failed) THEN file ELSE content

\* The history of a load that is tried.
LoadTried(sid, failed) == refused' = (refused \/ (~failed /\ LoadRefused(sid)))

Kinds(failed) == IF failed THEN {"load"} ELSE {}

-------------------------------------------------------------------------------
(* Datastores and locks. *)

OkToWrite(d, s) == owner[d] \in {NoSession, s}

\* candidate := a clone of content, which is running in the next state.
Refill(content) ==
    /\ candidate' = content
    /\ dirty' = FALSE
    /\ marks' = FALSE

Edit(s, x) ==
    /\ Request(s)
    /\ OkToWrite("candidate", s)
    /\ candidate' = x
    /\ dirty' = TRUE
    /\ marks' = TRUE
    /\ UNCHANGED <<open, running, files, owner, cc, expired, history>>

\* copy-config from running to candidate.
CopyRunning(s) ==
    /\ Request(s)
    /\ OkToWrite("candidate", s)
    /\ Refill(running)
    /\ UNCHANGED <<open, running, files, owner, cc, expired, history>>

DiscardChanges(s) ==
    /\ Request(s)
    /\ OkToWrite("candidate", s)
    /\ dirty
    /\ Refill(running)
    /\ UNCHANGED <<open, running, files, owner, cc, expired, history>>

Lock(s, d) ==
    /\ Request(s)
    /\ owner[d] = NoSession
    /\ d = "candidate" => ~dirty
    /\ ~cc.active
    /\ owner' = [owner EXCEPT ![d] = s]
    /\ UNCHANGED <<open, store, running, files, cc, expired, history>>

Unlock(s, d) ==
    /\ Request(s)
    /\ owner[d] = s
    /\ owner' = [owner EXCEPT ![d] = NoSession]
    /\ IF d = "candidate" THEN Refill(running) ELSE UNCHANGED store
    /\ UNCHANGED <<open, running, files, cc, expired, history>>

-------------------------------------------------------------------------------
(* commit *)

\* What a commit puts into running: the marked nodes of the candidate, and
\* every top-level container that the candidate lacks is deleted.
Applied == IF marks \/ candidate = Empty THEN candidate ELSE running

Edits == marks \/ (candidate = Empty /\ running # Empty)

\* Mutant: the locks of running are not looked at.
CommitAllowedUnlocked(s, pid) ==
    /\ pid # NoId => cc.active /\ cc.persist = pid
    /\ OkToWrite("candidate", s)

CommitAllowed(s, pid) ==
    /\ pid # NoId => cc.active /\ cc.persist = pid
    /\ \A d \in Datastore : OkToWrite(d, s)

\* The end of a commit as session s, with the cc that its start has left:
\* saved is the startup by then, extended that the backup is kept, save that
\* startup is written after the commit.
Apply(extended, save, saved) ==
    \/ \* the backup cannot be written
       /\ ~extended
       /\ Fails({"backup"})
       /\ startup' = saved
       /\ UNCHANGED <<running, backup, store, refused>>
    \/ /\ backup' = IF extended THEN backup ELSE running
       /\ \/ \* the commit succeeds
             /\ running' = Applied
             /\ startup' = IF save THEN running' ELSE saved
             /\ Refill(running')
             /\ UNCHANGED <<faults, refused>>
          \/ \* a callback refuses, the edits and the callbacks are undone
             /\ Edits
             /\ Fails({"callback"})
             /\ startup' = saved
             /\ UNCHANGED <<running, store, refused>>
          \/ \* a callback refuses to undo: the backup is loaded as cc_ses_id
             /\ Edits
             /\ startup' = saved
             /\ \E failed \in BOOLEAN :
                  /\ Fails({"rollback"} \cup Kinds(failed))
                  /\ running' = Loaded(backup', cc'.ses, failed, running)
                  /\ LoadTried(cc'.ses, failed)
             /\ UNCHANGED store
          \/ \* what follows the final edits fails: the backup is loaded; the
             \* nodes that moved into running are gone, the others unmarked
             /\ startup' = saved
             /\ \E failed \in BOOLEAN :
                  /\ Fails({"late"} \cup Kinds(failed))
                  /\ running' = Loaded(backup', cc'.ses, failed, Applied)
                  /\ LoadTried(cc'.ses, failed)
             /\ candidate' \in {candidate} \cup (IF marks THEN {Empty} ELSE {})
             /\ marks' = FALSE
             /\ UNCHANGED dirty

\* commit without confirmed while no trial is pending.
CommitPlain(s) ==
    /\ Request(s)
    /\ CommitAllowed(s, NoId)
    /\ ~cc.active
    /\ UNCHANGED cc
    /\ Apply(FALSE, TRUE, startup)
    /\ UNCHANGED <<open, owner, expired, forgotten>>

\* commit confirmed while no trial is pending.
CommitBegin(s, persist) ==
    /\ Request(s)
    /\ CommitAllowed(s, NoId)
    /\ ~cc.active
    /\ cc' = Trial(s, persist)
    /\ expired' = FALSE
    /\ Apply(FALSE, FALSE, startup)
    /\ UNCHANGED <<open, owner, forgotten>>

\* Mutant: an extension writes the backup again.
CommitExtendSaves(s, persist, pid) ==
    /\ Request(s)
    /\ CommitAllowed(s, pid)
    /\ cc.active
    /\ cc.persist = pid
    /\ pid = NoId => cc.ses = s
    /\ cc' = Trial(s, IF persist # NoId THEN persist ELSE cc.persist)
    /\ expired' = FALSE
    /\ forgotten' = FALSE
    /\ Apply(FALSE, FALSE, startup)
    /\ UNCHANGED <<open, owner>>

\* commit confirmed while a trial is pending: it gets a new timer, the
\* session as its owner and perhaps another persist-id.
CommitExtend(s, persist, pid) ==
    /\ Request(s)
    /\ CommitAllowed(s, pid)
    /\ cc.active
    /\ cc.persist = pid
    /\ pid = NoId => cc.ses = s
    /\ cc' = Trial(s, IF persist # NoId THEN persist ELSE cc.persist)
    /\ expired' = FALSE
    /\ forgotten' = FALSE
    /\ Apply(TRUE, FALSE, startup)
    /\ UNCHANGED <<open, owner>>

\* commit without confirmed while a trial is pending: running is saved and
\* the trial is over before the candidate is looked at.
CommitFinish(s, pid) ==
    /\ Request(s)
    /\ CommitAllowed(s, pid)
    /\ cc.active
    /\ pid = NoId => cc.ses = s
    /\ cc' = NoTrial
    /\ expired' = FALSE
    /\ forgotten' = FALSE
    /\ Apply(FALSE, TRUE, running)
    /\ UNCHANGED <<open, owner>>

-------------------------------------------------------------------------------
(* The end of a trial without confirmation. *)

\* Mutant: the candidate is not filled again after the backup is loaded.
CancelKeepsCandidate ==
    /\ \E failed \in BOOLEAN :
         /\ Fails(Kinds(failed))
         /\ running' = Loaded(backup, NoSession, failed, running)
         /\ LoadTried(NoSession, failed)
    /\ UNCHANGED store
    /\ cc' = NoTrial
    /\ expired' = FALSE
    /\ forgotten' = FALSE

\* agt_ncx_cancel_confirmed_commit: the backup is loaded as sid 0; the trial
\* is over even when it is not loaded.
Cancel ==
    /\ \E failed \in BOOLEAN :
         /\ Fails(Kinds(failed))
         /\ running' = Loaded(backup, NoSession, failed, running)
         /\ IF LoadOk(backup, NoSession, failed) THEN Refill(running')
                                                 ELSE UNCHANGED store
         /\ LoadTried(NoSession, failed)
    /\ cc' = NoTrial
    /\ expired' = FALSE
    /\ forgotten' = FALSE

CancelCommit(s, pid) ==
    /\ Request(s)
    /\ cc.active
    /\ OkToWrite("running", s)
    /\ pid = cc.persist
    /\ pid = NoId => cc.ses = s
    /\ Cancel
    /\ UNCHANGED <<open, files, owner>>

Tick ==
    /\ cc.active
    /\ ~expired
    /\ expired' = TRUE
    /\ UNCHANGED <<open, store, running, files, owner, cc, input, stop, history>>

\* Mutant: the timeout of a persistent trial is left to its next session.
CcTimeoutOfSession ==
    /\ ~input
    /\ cc.active
    /\ cc.persist = NoId
    /\ expired
    /\ Cancel
    /\ UNCHANGED <<open, files, owner, input, stop>>

\* agt_ncx_check_cc_timeout, called when select returns without input.
CcTimeout ==
    /\ ~input
    /\ cc.active
    /\ expired
    /\ Cancel
    /\ UNCHANGED <<open, files, owner, input, stop>>

-------------------------------------------------------------------------------
(* The end of a session. *)

\* agt_ses_free_session: the locks are released, and a locked candidate is
\* filled again from running.
Free(t) ==
    /\ open' = open \ {t}
    /\ owner' = [d \in Datastore |-> IF owner[d] = t THEN NoSession ELSE owner[d]]

\* Mutant: the session is freed without a look at the trial.
KillFrees(t) ==
    /\ Free(t)
    /\ IF owner["candidate"] = t THEN Refill(running) ELSE UNCHANGED store
    /\ UNCHANGED <<running, cc, expired, history, files>>

\* agt_ses_kill_session: a trial of the session is cancelled first, a
\* persistent one only loses its session.
Kill(t) ==
    /\ Free(t)
    /\ IF cc.active /\ cc.ses = t /\ cc.persist = NoId
       THEN /\ cc' = NoTrial
            /\ expired' = FALSE
            /\ forgotten' = FALSE
            /\ \E failed \in BOOLEAN :
                 /\ Fails(Kinds(failed))
                 /\ running' = Loaded(backup, NoSession, failed, running)
                 /\ IF LoadOk(backup, NoSession, failed) \/ owner["candidate"] = t
                    THEN Refill(running') ELSE UNCHANGED store
                 /\ LoadTried(NoSession, failed)
       ELSE /\ cc' = IF cc.ses = t THEN [cc EXCEPT !.ses = NoSession] ELSE cc
            /\ IF owner["candidate"] = t THEN Refill(running) ELSE UNCHANGED store
            /\ UNCHANGED <<running, expired, history>>
    /\ UNCHANGED files

\* close-session, or the connection is lost.
CloseSession(s) == Request(s) /\ Kill(s)

KillSession(s, t) ==
    /\ Request(s)
    /\ t \in open \ {s}
    /\ Kill(t)

\* The timeouts idle-timeout and hello-timeout.
IdleTimeout(t) ==
    /\ ~input
    /\ t \in open
    /\ Kill(t)
    /\ UNCHANGED <<input, stop>>

\* agt_top_dispatch_msg frees the session of a message that is no request,
\* and does not look whether a trial is its own.
BadMessage(s) ==
    /\ Request(s)
    /\ Free(s)
    /\ IF owner["candidate"] = s THEN Refill(running) ELSE UNCHANGED store
    /\ forgotten' = (forgotten \/ (cc.active /\ cc.ses = s))
    /\ UNCHANGED <<running, files, cc, expired, faults, refused>>

-------------------------------------------------------------------------------
\* The server ends, by a request or a crash, and starts again.
Restart ==
    /\ open' = {}
    /\ running' = startup
    /\ Refill(startup)
    /\ owner' = [d \in Datastore |-> NoSession]
    /\ cc' = NoTrial
    /\ expired' = FALSE
    /\ input' = FALSE
    /\ faults' = {}
    /\ refused' = FALSE
    /\ forgotten' = FALSE
    /\ UNCHANGED <<files, stop>>

ById(s) ==
    \/ \E x \in Content : Edit(s, x)
    \/ CopyRunning(s)
    \/ DiscardChanges(s)
    \/ \E d \in Datastore : Lock(s, d) \/ Unlock(s, d)
    \/ CommitPlain(s)
    \/ \E p \in PersistId \cup {NoId} :
         \/ CommitBegin(s, p)
         \/ \E q \in PersistId \cup {NoId} : CommitExtend(s, p, q)
         \/ CommitFinish(s, p)
         \/ CancelCommit(s, p)
    \/ CloseSession(s)
    \/ \E t \in Session : KillSession(s, t)
    \/ BadMessage(s)
    \/ NoEffect(s)

Next ==
    \/ Arrive
    \/ \E s \in Session : NewSession(s) \/ ById(s) \/ IdleTimeout(s)
    \/ Tick
    \/ CcTimeout
    \/ Restart

Spec == Init /\ [][Next]_vars

FairSpec == Spec /\ WF_vars(Tick) /\ WF_vars(CcTimeout)
-------------------------------------------------------------------------------
(* Properties. *)

\* Type correctness.
TypeOK ==
    /\ open \subseteq Session
    /\ candidate \in Content
    /\ dirty \in BOOLEAN
    /\ marks \in BOOLEAN
    /\ running \in Content
    /\ startup \in Content
    /\ backup \in Content \cup {NoFile}
    /\ owner \in [Datastore -> Session \cup {NoSession}]
    /\ cc \in Trials \cup {NoTrial}
    /\ expired \in BOOLEAN
    /\ input \in BOOLEAN
    /\ stop \in BOOLEAN
    /\ faults \subseteq FaultKind
    /\ refused \in BOOLEAN
    /\ forgotten \in BOOLEAN

\* No backup has failed: neither its file nor its load.
Sound == faults \cap {"backup", "load"} = {} /\ ~refused

\* Whoever holds a lock while a trial is pending is the session of the trial
\* (agt_ncx.c:1542 refuses new locks, commit asks for both datastores).
CommitterLocks ==
    \A d \in Datastore :
        cc.active /\ owner[d] # NoSession => owner[d] = cc.ses

\* A trial has somebody to end it: its session is open, unless its messages
\* had it freed without agt_ses_kill_session; only a persistent trial lives
\* on without its session.
TrialHasSession ==
    cc.active /\ ~forgotten =>
        \/ cc.ses \in open
        \/ cc.ses = NoSession /\ cc.persist # NoId

\* While nothing failed after final edits or in a rollback, a commit gives
\* running the whole candidate: the flags a commit looks for are on every
\* node that differs from running.
CommitTakesCandidate ==
    faults \cap {"late", "rollback"} = {} => Applied = candidate

\* The backup of a pending trial is what startup holds, and without trial
\* running is what startup holds.
Settled ==
    Sound => startup = (IF cc.active THEN backup ELSE running)

\* The server keeps the promise of ConfirmedCommit.
CC == INSTANCE ConfirmedCommit WITH trial <- cc.active, sound <- Sound

Promise == CC!Spec

\* What changes a locked datastore is a request of the lock's owner, the end
\* of a trial, or a restart: no request of another session.
LocksExclude ==
    [][\A d \in Datastore :
         LET content == IF d = "candidate" THEN candidate ELSE running
         IN  owner[d] # NoSession /\ content' # content =>
               \/ ById(owner[d])
               \/ owner'[d] = NoSession
               \/ cc.active /\ ~cc'.active]_vars

\* Once the clients are silent, every trial ends.
TrialEnds == <>[](~input) => <>[](~cc.active)

===============================================================================
