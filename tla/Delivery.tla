------------------------------ MODULE Delivery ------------------------------
(***************************************************************************)
(* From a change in the Candidate worktree to the user's source repository:*)
(* commands and their validation evidence (runtime/command_service.py,     *)
(* runtime/validation.py), Accept and Discard (runtime/current_changes.py, *)
(* runtime/candidate.py) and the CLI's resume (cli.py).                    *)
(*                                                                         *)
(* A tree is a function from the regions of text that Git merges           *)
(* independently to their contents; a snapshot reads all of it at once.    *)
(* The agent's tools and the RPC methods of one session never overlap      *)
(* (Accept and Discard want an idle supervisor), but the user edits the    *)
(* source, and other programs the worktree, at any time, and the process   *)
(* may crash between any two steps.                                        *)
(***************************************************************************)
EXTENDS Integers, FiniteSets

CONSTANTS
    Units,        \* independently mergeable regions of the files
    Contents,
    InitialTree,  \* the tree of the commit the worktree was created from
    NoLocal,
    FailingAt,    \* steps at which a git call or a file write may fail
    MaxChanges,   \* bound: edits and commands of the agent
    MaxWrites,    \* bound: writes of the user to the source
    MaxForeign,   \* bound: writes of other programs to the worktree
    MaxAccepts,   \* bound: Accepts begun
    MaxCrashes

ASSUME DeliveryAssumption ==
    /\ InitialTree \in [Units -> Contents]
    /\ {MaxChanges, MaxWrites, MaxForeign, MaxAccepts, MaxCrashes} \subseteq Nat

VARIABLES
    source,     \* working tree of the user's repository
    worktree,   \* working tree of the Candidate
    head,       \* commit the worktree is on
    base,       \* base_commit in session.json, with its tree
    commits,    \* commits made so far
    ws,         \* workspace_state
    revision,   \* candidate_revision
    accepted,   \* accepted_candidate_revision
    evidence,   \* validation_completed events
    latest,     \* the one of the latest validation command, if it has one
    pc, local,  \* the operation in progress: next step and locals
    touched,    \* units the user wrote since the baseline last moved
    delivered,  \* candidate tree and baseline of the last Accept that applied
    counts      \* the bounded events so far

repo == <<source, worktree, head, commits>>
log == <<evidence, latest>>
session == <<base, ws, revision, accepted, log>>
history == <<touched, delivered>>
vars == <<repo, session, pc, local, history, counts>>

Trees == [Units -> Contents]

Init ==
    /\ source = InitialTree /\ worktree = InitialTree
    /\ head = 1 /\ commits = 1
    /\ base = [commit |-> 1, tree |-> InitialTree]
    /\ ws = "changes_active"
    /\ revision = 0 /\ accepted = 0
    /\ evidence = {} /\ latest = {}
    /\ pc = "idle" /\ local = NoLocal
    /\ touched = {} /\ delivered = {}
    /\ counts = [changes |-> 0, writes |-> 0, midway |-> 0, taints |-> 0, foreign |-> 0, accepts |-> 0, crashes |-> 0]

Count(what, bound) ==
    /\ counts[what] < bound
    /\ counts' = [counts EXCEPT ![what] = @ + 1]

Return == pc' = "idle" /\ local' = NoLocal
Goto(label) == pc' = label /\ UNCHANGED local

pending == worktree # base.tree

-----------------------------------------------------------------------------
(* The agent: edits and commands *)

\* A committed apply_workspace_edit, with its candidate revision (AtomicEdit).
\* The state is only compared with workspace_tainted and recovery_required.
Edit ==
    /\ pc = "idle"
    /\ ws \notin {"workspace_tainted", "recovery_required"}
    /\ Count("changes", MaxChanges)
    /\ \E u \in Units: \E c \in Contents \ {worktree[u]}:
          worktree' = [worktree EXCEPT ![u] = c]
    /\ revision' = revision + 1
    /\ UNCHANGED <<source, head, commits, base, ws, accepted, log, pc, local, history>>

\* CommandService.prepare: what the approval will be about.
PrepareCommand(purpose) ==
    /\ pc = "idle"
    /\ ws \notin {"workspace_tainted", "recovery_required"}
    /\ Count("changes", MaxChanges)
    /\ local' = [purpose |-> purpose, tree |-> worktree]
    /\ pc' = "approve_command"
    /\ UNCHANGED <<repo, session, history>>

\* run_prepared up to the launch: permissions refused, or the Candidate is not
\* the one that was shown (command_request_stale).
CommandRefused ==
    /\ pc = "approve_command"
    /\ Return
    /\ UNCHANGED <<repo, session, history, counts>>

LaunchCommand ==
    /\ pc = "approve_command"
    /\ IF worktree = local.tree THEN Goto("execute") ELSE Return
    /\ UNCHANGED <<repo, session, history, counts>>

\* The command changes what it likes and exits; its process tree may survive.
\* A command that never started is like one that failed and changed nothing.
Execute ==
    /\ pc = "execute"
    /\ worktree' \in {worktree} \cup
           {[worktree EXCEPT ![u] = c]: u \in Units, c \in Contents}
    /\ \E passed, stopped \in BOOLEAN:
          local' = [purpose |-> local.purpose, tree |-> local.tree,
                    passed |-> passed, stopped |-> stopped]
    /\ pc' = "audit"
    /\ UNCHANGED <<source, head, commits, session, history, counts>>

\* The state the audit leaves: the process tree is not stopped, the second
\* snapshot fails, or the comparison succeeds.
Audit ==
    /\ pc = "audit"
    /\ \/ /\ ~local.stopped
          /\ ws' = "recovery_required"
          /\ UNCHANGED <<revision, local, counts>>
       \/ /\ local.stopped /\ "audit" \in FailingAt
          /\ ws' = "workspace_tainted"
          /\ counts' = [counts EXCEPT !.taints = 1]
          /\ UNCHANGED <<revision, local>>
       \/ /\ local.stopped
          /\ revision' = IF worktree = local.tree THEN revision ELSE revision + 1
          /\ local' = [local EXCEPT !.tree = worktree]
          /\ UNCHANGED <<ws, counts>>
    /\ pc' = "evidence"
    /\ UNCHANGED <<repo, base, accepted, log, history>>

\* command_completed, and validation_completed for a passing validation.
RecordCommand ==
    /\ pc = "evidence"
    /\ IF local.purpose = "validation"
       THEN /\ latest' = IF local.passed /\ local.stopped /\ ws = "changes_active"
                         THEN {[commit |-> base.commit, tree |-> local.tree,
                                revision |-> revision]}
                         ELSE {}
            /\ evidence' = evidence \cup latest'
       ELSE UNCHANGED log
    /\ Return
    /\ UNCHANGED <<repo, base, ws, revision, accepted, history, counts>>
-----------------------------------------------------------------------------
(* Accept *)

\* Mutant: evidence for the baseline counts whatever tree it is about.
ValidatedBaseline(t) == \E e \in evidence: e.commit = base.commit

\* current_validation_evidence for the tree t.
Validated(t) == \E e \in evidence: e.commit = base.commit /\ e.tree = t

begin_accept ==
    /\ pc = "idle"
    /\ ws = "changes_active"
    /\ Count("accepts", MaxAccepts)
    /\ ws' = "accepting"
    /\ Goto("freeze")
    /\ UNCHANGED <<repo, base, revision, accepted, log, history>>

\* The patch was not applied: restore_changes_active.
NotApplied ==
    /\ ws' = "changes_active"
    /\ Return
    /\ UNCHANGED <<repo, base, revision, accepted, log, history, counts>>

\* freeze, first half: identity of the worktree, changes and their evidence.
Freeze ==
    /\ pc = "freeze"
    /\ IF head = base.commit /\ pending /\ Validated(worktree)
       THEN Goto("snapshot") /\ UNCHANGED <<repo, session, history, counts>>
       ELSE NotApplied

\* The second snapshot of the worktree is the one that is delivered.
SnapshotOurs ==
    /\ pc = "snapshot"
    /\ IF pending
       THEN /\ local' = [ours |-> worktree]
            /\ pc' = "merge"
            /\ UNCHANGED <<repo, session, history, counts>>
       ELSE NotApplied

\* Mutant: a conflicting region is resolved for the agent.
ConflictIgnored(ours, theirs) == FALSE

\* git merge-tree --merge-base=base ours theirs.
Conflict(ours, theirs) ==
    \E u \in Units: /\ ours[u] # base.tree[u] /\ theirs[u] # base.tree[u]
                    /\ ours[u] # theirs[u]
Merged(ours, theirs) ==
    [u \in Units |-> IF ours[u] = base.tree[u] THEN theirs[u] ELSE ours[u]]

\* freeze, second half: source snapshot, merge, patch, frozen.json.
MergeSource ==
    /\ pc = "merge"
    /\ IF Conflict(local.ours, source) \/ Merged(local.ours, source) = source
       THEN NotApplied
       ELSE /\ local' = [ours |-> local.ours, snapshot |-> source,
                         merged |-> Merged(local.ours, source)]
            /\ pc' = "review"
            /\ UNCHANGED <<repo, session, history, counts>>

\* apply up to the approval, which the CLI asks for and the product gives.
Review ==
    /\ pc = "review"
    /\ \/ source # local.snapshot /\ NotApplied
       \/ /\ source = local.snapshot
          /\ Goto("approve")
          /\ UNCHANGED <<repo, session, history, counts>>

ApplyRejected ==
    /\ pc = "approve"
    /\ NotApplied

\* The recheck after the approval.
ApplyApproved ==
    /\ pc = "approve"
    /\ IF source = local.snapshot
       THEN Goto("git_apply") /\ UNCHANGED <<repo, session, history, counts>>
       ELSE NotApplied

\* Regions the frozen patch replaces; git apply wants each as in the snapshot.
PatchUnits == {u \in Units: local.merged[u] # local.snapshot[u]}
PatchFits == \A u \in PatchUnits: source[u] = local.snapshot[u]

GitApply ==
    /\ pc = "git_apply"
    /\ IF PatchFits
       THEN /\ source' = [u \in Units |-> IF u \in PatchUnits THEN local.merged[u]
                                          ELSE source[u]]
            /\ Goto("verify")
            /\ UNCHANGED <<worktree, head, commits, session, history, counts>>
       ELSE NotApplied

\* The snapshot after git apply decides between applied and apply_failed.
VerifyApply ==
    /\ pc = "verify"
    /\ IF source = local.merged
       THEN /\ Goto("checkpoint")
            /\ delivered' = {[commit |-> base.commit, tree |-> local.ours]}
            /\ UNCHANGED <<repo, session, touched, counts>>
       ELSE NotApplied

\* _checkpoint: a commit of the merged tree, and the worktree reset to it.
Checkpoint ==
    /\ pc = "checkpoint"
    /\ commits' = commits + 1
    /\ head' = commits + 1
    /\ worktree' = local.merged
    /\ Goto("save")
    /\ UNCHANGED <<source, session, history, counts>>

\* AppliedChangesStore.save and _clear_frozen.
SaveDelivery ==
    /\ pc = "save"
    /\ Goto("finish")
    /\ UNCHANGED <<repo, session, history, counts>>

\* Mutant: session.json keeps the old base_commit.
finish_accept_old_base ==
    /\ pc = "finish"
    /\ accepted' = revision
    /\ ws' = "changes_active"
    /\ touched' = {u \in Units: source[u] # local.merged[u]}
    /\ Return
    /\ UNCHANGED <<repo, base, revision, log, delivered, counts>>

\* The user's writes up to the verification are part of the new baseline.
finish_accept ==
    /\ pc = "finish"
    /\ base' = [commit |-> head, tree |-> local.merged]
    /\ accepted' = revision
    /\ ws' = "changes_active"
    /\ touched' = {u \in Units: source[u] # local.merged[u]}
    /\ Return
    /\ UNCHANGED <<repo, revision, log, delivered, counts>>

-----------------------------------------------------------------------------
(* Discard, failures and restarts *)

begin_discard ==
    /\ pc = "idle"
    /\ ws \in {"changes_active", "workspace_tainted"}
    /\ ws' = "discarding"
    /\ Goto("reset")
    /\ UNCHANGED <<repo, base, revision, accepted, log, history, counts>>

\* git reset --hard and git clean.
ResetWorktree ==
    /\ pc = "reset"
    /\ worktree' = base.tree /\ head' = base.commit
    /\ Goto("verify_reset")
    /\ UNCHANGED <<source, commits, session, history, counts>>

FinishDiscard ==
    /\ pc = "verify_reset"
    /\ IF head = base.commit /\ ~pending
       THEN ws' = "changes_active" /\ accepted' = revision
       ELSE ws' = "recovery_required" /\ UNCHANGED accepted
    /\ Return
    /\ UNCHANGED <<repo, base, revision, log, history, counts>>

\* A git call or a write raises.  The except clause knows that the source was
\* changed only once apply() has returned.
BeforeApplied == {"freeze", "snapshot", "merge", "review", "approve", "git_apply", "verify"}
AfterApplied == {"checkpoint", "save"}

StepFails ==
    /\ pc \in FailingAt
    /\ \/ pc \in BeforeApplied /\ NotApplied
       \/ /\ pc \in AfterApplied \cup {"reset", "verify_reset"}
          /\ ws' = "recovery_required"
          /\ Return
          /\ UNCHANGED <<repo, base, revision, accepted, log, history, counts>>

Crash ==
    /\ pc # "idle"
    /\ Count("crashes", MaxCrashes)
    /\ Return
    /\ UNCHANGED <<repo, session, history>>

\* inspect(allow_source_changes) with _has_resumable_candidate_changes.
Executable == head = base.commit /\ (pending => revision > accepted)

\* Mutant: an interrupted Accept is taken up as active changes.
ResumeAccepting ==
    /\ pc = "idle"
    /\ ws' = CASE ws \in {"discarding", "recovery_required"} -> "recovery_required"
               [] ws = "workspace_tainted" -> ws
               [] OTHER -> IF Executable THEN "changes_active" ELSE "recovery_required"
    /\ UNCHANGED <<repo, base, revision, accepted, log, pc, local, history, counts>>

\* codeagent resume: an interrupted transition becomes recovery_required.
Resume ==
    /\ pc = "idle"
    /\ ws' = CASE ws \in {"accepting", "discarding", "recovery_required"} -> "recovery_required"
               [] ws = "workspace_tainted" -> ws
               [] OTHER -> IF Executable THEN "changes_active" ELSE "recovery_required"
    /\ UNCHANGED <<repo, base, revision, accepted, log, pc, local, history, counts>>

\* The user edits the source, perhaps between Accept's last look at it and its
\* check of the result; another program writes to the worktree.
UserWrites ==
    /\ counts.writes < MaxWrites
    /\ counts' = [counts EXCEPT !.writes = @ + 1,
                                !.midway = IF pc \in {"git_apply", "verify"} THEN @ + 1 ELSE @]
    /\ \E u \in Units: \E c \in Contents \ {source[u]}:
          /\ source' = [source EXCEPT ![u] = c]
          /\ touched' = touched \cup {u}
    /\ UNCHANGED <<worktree, head, commits, session, pc, local, delivered>>

ForeignWrites ==
    /\ Count("foreign", MaxForeign)
    /\ \E u \in Units: \E c \in Contents \ {worktree[u]}:
          worktree' = [worktree EXCEPT ![u] = c]
    /\ UNCHANGED <<source, head, commits, session, pc, local, history>>

Agent == \/ Edit \/ CommandRefused \/ LaunchCommand \/ Execute \/ Audit \/ RecordCommand
         \/ \E purpose \in {"utility", "validation"}: PrepareCommand(purpose)

Accept == \/ begin_accept \/ Freeze \/ SnapshotOurs \/ MergeSource \/ Review
          \/ ApplyRejected \/ ApplyApproved \/ GitApply \/ VerifyApply
          \/ Checkpoint \/ SaveDelivery \/ finish_accept

Discard == begin_discard \/ ResetWorktree \/ FinishDiscard

Next == \/ Agent \/ Accept \/ Discard \/ StepFails \/ Crash \/ Resume
        \/ UserWrites \/ ForeignWrites

Spec == Init /\ [][Next]_vars
-----------------------------------------------------------------------------
(* Properties *)

Labels == {"idle", "approve_command", "execute", "audit", "evidence", "freeze",
           "snapshot", "merge", "review", "approve", "git_apply", "verify",
           "checkpoint", "save", "finish", "reset", "verify_reset"}

\* Every variable has its type, and revisions only name what exists.
TypeOK ==
    /\ source \in Trees /\ worktree \in Trees
    /\ commits \in Nat /\ head \in 1..commits
    /\ base \in [commit: 1..commits, tree: Trees]
    /\ ws \in {"changes_active", "workspace_tainted", "accepting", "discarding",
               "recovery_required"}
    /\ revision \in Nat /\ accepted \in 0..revision
    /\ evidence \subseteq [commit: 1..commits, tree: Trees, revision: 0..revision]
    /\ latest \subseteq evidence
    /\ pc \in Labels
    /\ touched \subseteq Units

\* The Runtime replaces a region of the source only while it still holds the
\* accepted baseline's content: no write of the user is overwritten by Accept,
\* not even one that falls between its last check and git apply.
UserWorkSurvives ==
    [][(pc = "git_apply" /\ pc' = "verify") =>
          \A u \in Units: source'[u] # source[u] => source[u] = base.tree[u]]_vars

\* While the session says changes_active and nothing is in progress, the source
\* differs from the accepted baseline only where the user wrote since: no
\* patch is in the source that the session believes to be still pending
\* (unless the user wrote to it while Accept was applying the patch, or a
\* command whose audit fails hides that a crash interrupted Accept).
SourceFollowsBaseline ==
    (/\ pc = "idle" /\ ws = "changes_active"
     /\ counts.midway = 0 /\ (counts.crashes = 0 \/ counts.taints = 0)) =>
        \A u \in Units \ touched: source[u] = base.tree[u]

\* What an Accept delivers is a tree on which a validation command passed, on
\* the baseline it was delivered against, if only the agent writes to the
\* worktree.
DeliveredWasValidated ==
    counts.foreign = 0 => \A d \in delivered:
        \E e \in evidence: e.commit = d.commit /\ e.tree = d.tree

\* canAcceptChanges of the read model: it compares revisions, not trees.
latest_evidence_is_current == \E e \in latest: e.revision = revision
can_accept == pending /\ ws = "changes_active" /\ latest_evidence_is_current

\* When the product offers Accept, the evidence Accept will look for is there:
\* every path that changes the worktree moves the candidate revision (but for a
\* crash between a command's changes and their audit, and for writes of other
\* programs).
OfferedAcceptIsValidated ==
    (pc = "idle" /\ can_accept /\ counts.crashes = 0 /\ counts.foreign = 0) => Validated(worktree)

\* An idle session in changes_active has its worktree on the baseline that
\* session.json names: Accept and Discard leave commit, tree and record aligned.
BaselineIsCheckedOut ==
    (pc = "idle" /\ ws = "changes_active") => head = base.commit

\* Evidence, offer and delivery are about the same tree: what the read model
\* offers Accept will take, and what Accept delivers a validation has passed on.
DeliversWhatWasValidated ==
    /\ TypeOK
    /\ DeliveredWasValidated
    /\ OfferedAcceptIsValidated
=============================================================================
