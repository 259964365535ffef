--------------------------- MODULE DeliveryProofs ---------------------------
(***************************************************************************)
(* Proofs about Delivery, for any regions, contents, failures, crashes and *)
(* concurrent writes.                                                      *)
(***************************************************************************)
EXTENDS Delivery, TLAPS

(* The user's work survives Accept *)

\* Between the merge and git apply the frozen patch replaces only regions that
\* the source snapshot had in common with the accepted baseline.
PatchOverBaseline ==
    pc \in {"review", "approve", "git_apply"} =>
        \A u \in Units: local.merged[u] # local.snapshot[u]
                            => local.snapshot[u] = base.tree[u]

\* A three-way merge without a conflict changes a region of theirs only where
\* theirs is the merge base.
LEMMA MergeReplacesBaseline ==
    ASSUME NEW ours, NEW theirs, ~Conflict(ours, theirs), NEW u \in Units,
           Merged(ours, theirs)[u] # theirs[u]
    PROVE  theirs[u] = base.tree[u]
BY DEF Conflict, Merged

\* Every step keeps PatchOverBaseline: the patch and the baseline it was merged
\* over only change together with pc.
LEMMA NextPatchOverBaseline ==
    ASSUME PatchOverBaseline, [Next]_vars
    PROVE  PatchOverBaseline'
<1>1. CASE MergeSource
    <2>1. CASE pc' = "idle"
        BY <2>1 DEF PatchOverBaseline
    <2>2. CASE pc' # "idle"
        <3>1. /\ ~Conflict(local.ours, source)
              /\ local' = [ours |-> local.ours, snapshot |-> source,
                           merged |-> Merged(local.ours, source)]
              /\ base' = base
            BY <1>1, <2>2 DEF MergeSource, NotApplied, Return, session
        <3>2. local'.merged = Merged(local.ours, source) /\ local'.snapshot = source
            BY <3>1
        <3> QED BY <3>1, <3>2, MergeReplacesBaseline DEF PatchOverBaseline
    <2> QED BY <2>1, <2>2
<1>2. CASE Agent
    BY <1>2 DEF Agent, Edit, CommandRefused, LaunchCommand, Execute, Audit, RecordCommand,
                PrepareCommand, Return, Goto, PatchOverBaseline
<1>3. CASE Accept /\ ~MergeSource
    BY <1>3 DEF Accept, begin_accept, Freeze, SnapshotOurs, Review, ApplyRejected, ApplyApproved,
                GitApply, VerifyApply, Checkpoint, SaveDelivery, finish_accept, NotApplied,
                Return, Goto, session, PatchOverBaseline
<1>4. CASE Discard
    BY <1>4 DEF Discard, begin_discard, ResetWorktree, FinishDiscard, Return, Goto, PatchOverBaseline
<1>5. CASE StepFails \/ Crash
    BY <1>5 DEF StepFails, Crash, NotApplied, Return, PatchOverBaseline
<1>6. CASE Resume \/ UserWrites \/ ForeignWrites
    BY <1>6 DEF Resume, UserWrites, ForeignWrites, session, PatchOverBaseline
<1>7. CASE UNCHANGED vars
    BY <1>7 DEF vars, session, PatchOverBaseline
<1> QED BY <1>1, <1>2, <1>3, <1>4, <1>5, <1>6, <1>7 DEF Next

\* Only GitApply leaves git_apply for verify, and it checks each region it
\* replaces.
LEMMA ApplyReplacesBaseline ==
    ASSUME PatchOverBaseline, [Next]_vars, pc = "git_apply", pc' = "verify"
    PROVE  \A u \in Units: source'[u] # source[u] => source[u] = base.tree[u]
<1>1. GitApply
    BY DEF Next, Agent, Edit, CommandRefused, LaunchCommand, Execute, Audit, RecordCommand,
           PrepareCommand, Accept, begin_accept, Freeze, SnapshotOurs, MergeSource, Review,
           ApplyRejected, ApplyApproved, VerifyApply, Checkpoint, SaveDelivery, finish_accept,
           Discard, begin_discard, ResetWorktree, FinishDiscard, StepFails, Crash, Resume,
           UserWrites, ForeignWrites, NotApplied, Return, Goto, vars
<1>2. PatchFits /\ source' = [u \in Units |-> IF u \in PatchUnits THEN local.merged[u] ELSE source[u]]
    BY <1>1 DEF GitApply, NotApplied, Return
<1> QED BY <1>2 DEF PatchFits, PatchUnits, PatchOverBaseline

\* Accept overwrites nothing the user wrote, whenever it was written: a region
\* that git apply replaces still has the accepted baseline's content.
THEOREM AcceptKeepsUserWork == Spec => UserWorkSurvives
<1>1. Init => PatchOverBaseline
    BY DEF Init, PatchOverBaseline
<1>2. PatchOverBaseline /\ [Next]_vars => PatchOverBaseline'
    BY NextPatchOverBaseline
<1>3. PatchOverBaseline /\ [Next]_vars =>
        [(pc = "git_apply" /\ pc' = "verify") =>
            \A u \in Units: source'[u] # source[u] => source[u] = base.tree[u]]_vars
    BY ApplyReplacesBaseline
<1> QED BY <1>1, <1>2, <1>3, PTL DEF Spec, UserWorkSurvives

-----------------------------------------------------------------------------
(* The baseline stays checked out *)

\* Until the patch is applied the worktree is on the recorded baseline; from
\* then on the session is in accepting, and a failure cannot leave it active.
HeadFollowsRecord ==
    /\ pc \in BeforeApplied \cup AfterApplied \cup {"finish"} => ws = "accepting"
    /\ pc \in {"reset", "verify_reset"} => ws = "discarding"
    /\ (ws = "changes_active" \/ pc \in BeforeApplied) => head = base.commit

\* Every step keeps it: each way back to changes_active restores, verifies or
\* records the commit the worktree is on.
LEMMA NextHeadFollowsRecord ==
    ASSUME HeadFollowsRecord, [Next]_vars
    PROVE  HeadFollowsRecord'
<1> USE DEF BeforeApplied, AfterApplied
<1>1. CASE Agent
    BY <1>1 DEF Agent, Edit, CommandRefused, LaunchCommand, Execute, Audit, RecordCommand,
                PrepareCommand, Return, Goto, repo, session, HeadFollowsRecord
<1>2. CASE begin_accept \/ Freeze \/ SnapshotOurs \/ MergeSource \/ Review \/ ApplyRejected \/ ApplyApproved
    BY <1>2 DEF begin_accept, Freeze, SnapshotOurs, MergeSource, Review, ApplyRejected, ApplyApproved,
                NotApplied, Return, Goto, repo, session, HeadFollowsRecord
<1>3. CASE GitApply \/ VerifyApply \/ Checkpoint \/ SaveDelivery
    BY <1>3 DEF GitApply, VerifyApply, Checkpoint, SaveDelivery,
                NotApplied, Return, Goto, repo, session, HeadFollowsRecord
<1>4. CASE finish_accept
    BY <1>4 DEF finish_accept, Return, repo, HeadFollowsRecord
<1>5. CASE Discard
    BY <1>5 DEF Discard, begin_discard, ResetWorktree, FinishDiscard, Return, Goto,
                repo, session, HeadFollowsRecord
<1>6. CASE StepFails \/ Crash
    BY <1>6 DEF StepFails, Crash, NotApplied, Return, repo, session, HeadFollowsRecord
<1>7. CASE Resume
    BY <1>7 DEF Resume, Executable, repo, HeadFollowsRecord
<1>8. CASE UserWrites \/ ForeignWrites
    BY <1>8 DEF UserWrites, ForeignWrites, repo, session, HeadFollowsRecord
<1>9. CASE UNCHANGED vars
    BY <1>9 DEF vars, repo, session, HeadFollowsRecord
<1> QED BY <1>1, <1>2, <1>3, <1>4, <1>5, <1>6, <1>7, <1>8, <1>9 DEF Next, Accept

\* Whatever fails, crashes or is resumed, an idle session in changes_active has
\* its worktree on the commit that session.json names as its baseline.
THEOREM ActiveBaselineIsCheckedOut == Spec => []BaselineIsCheckedOut
<1>1. Init => HeadFollowsRecord
    BY DEF Init, HeadFollowsRecord, BeforeApplied, AfterApplied
<1>2. HeadFollowsRecord => BaselineIsCheckedOut
    BY DEF HeadFollowsRecord, BaselineIsCheckedOut
<1> QED BY <1>1, <1>2, NextHeadFollowsRecord, PTL DEF Spec

--------------------------------------------------------------------------------
Counters == {"changes", "writes", "midway", "taints", "foreign", "accepts", "crashes"}

\* The locals of the operation in progress, and the counters.
Typed ==
    /\ TypeOK
    /\ pc \in {"approve_command", "execute", "audit", "evidence"} => local.tree \in Trees
    /\ pc = "audit" => local = [purpose |-> local.purpose, tree |-> local.tree,
                                passed |-> local.passed, stopped |-> local.stopped]
    /\ pc \in {"merge", "review", "approve", "git_apply", "verify", "checkpoint", "save", "finish"}
           => local.ours \in Trees
    /\ pc \in {"review", "approve", "git_apply", "verify", "checkpoint", "save", "finish"}
           => local.snapshot \in Trees /\ local.merged \in Trees
    /\ counts \in [Counters -> Nat]

\* Writing one region of a tree gives a tree (Edit, UserWrites, foreign writes).
LEMMA TreeWritten ==
    ASSUME NEW t \in Trees, NEW u \in Units, NEW c \in Contents
    PROVE  [t EXCEPT ![u] = c] \in Trees
BY DEF Trees

\* git merge-tree gives a tree.
LEMMA MergedType ==
    ASSUME NEW ours \in Trees, NEW theirs \in Trees
    PROVE  Merged(ours, theirs) \in Trees
BY DEF Merged, Trees

\* A counter only goes up.
LEMMA Counted ==
    ASSUME counts \in [Counters -> Nat], NEW what \in Counters, NEW bound, Count(what, bound)
    PROVE  /\ counts' \in [Counters -> Nat]
           /\ counts'[what] = counts[what] + 1
           /\ \A c \in Counters \ {what}: counts'[c] = counts[c]
BY DEF Count

\* A write of the user's is counted, and as `midway` if Accept is applying.
LEMMA WriteCounted ==
    ASSUME counts \in [Counters -> Nat], UserWrites
    PROVE  /\ counts' \in [Counters -> Nat]
           /\ counts'["midway"] >= counts["midway"]
           /\ pc \in {"git_apply", "verify"} => counts'["midway"] > 0
           /\ \A c \in Counters \ {"writes", "midway"}: counts'[c] = counts[c]
<1> DEFINE m == IF pc \in {"git_apply", "verify"} THEN counts["midway"] + 1 ELSE counts["midway"]
<1>1. counts["midway"] \in Nat /\ counts["writes"] \in Nat /\ {"midway", "writes"} \subseteq Counters
    BY DEF Counters
<1>2. counts' = [[counts EXCEPT !["writes"] = counts["writes"] + 1] EXCEPT !["midway"] = m]
    BY <1>1 DEF UserWrites
<1>3. m \in Nat /\ m >= counts["midway"] /\ (pc \in {"git_apply", "verify"} => m > 0)
    BY <1>1
<1> HIDE DEF m
<1> QED BY <1>1, <1>2, <1>3

\* A new session has its types.
LEMMA InitTyped == Init => Typed
<1> SUFFICES ASSUME Init PROVE Typed
    OBVIOUS
<1>1. InitialTree \in Trees
    BY DeliveryAssumption DEF Trees
<1>2. counts \in [Counters -> Nat]
    BY DEF Init, Counters
<1>3. base \in [commit: 1..commits, tree: Trees]
    BY <1>1 DEF Init
<1> QED BY <1>1, <1>2, <1>3 DEF Init, Typed, TypeOK, Labels

\* Every step keeps the types, those of an operation's locals included.
LEMMA NextTyped == Typed /\ [Next]_vars => Typed'
<1> SUFFICES ASSUME Typed, [Next]_vars PROVE Typed'
    OBVIOUS
<1>0. /\ TypeOK /\ counts \in [Counters -> Nat]
      /\ {"changes", "writes", "midway", "taints", "foreign", "accepts", "crashes"} = Counters
    BY DEF Typed, Counters
<1> USE DEF Return, Goto, repo, session, log, history, Labels
<1>1. CASE Edit
    <2>1. worktree' \in Trees
        <3>1. PICK u \in Units, c \in Contents: worktree' = [worktree EXCEPT ![u] = c]
            BY <1>1 DEF Edit
        <3> QED BY <1>0, <3>1, TreeWritten DEF TypeOK
    <2>2. evidence' \subseteq [commit: 1..commits, tree: Trees, revision: 0..revision']
        BY <1>0, <1>1 DEF Edit, TypeOK
    <2>3. counts' \in [Counters -> Nat]
        BY <1>0, <1>1, Counted DEF Edit
    <2> QED BY <1>0, <1>1, <2>1, <2>2, <2>3 DEF Edit, Typed, TypeOK
<1>2. ASSUME NEW purpose \in {"utility", "validation"}, PrepareCommand(purpose) PROVE Typed'
    <2>1. counts' \in [Counters -> Nat]
        BY <1>0, <1>2, Counted DEF PrepareCommand
    <2> QED BY <1>0, <1>2, <2>1 DEF PrepareCommand, Typed, TypeOK
<1>3. CASE CommandRefused \/ LaunchCommand
    BY <1>0, <1>3 DEF CommandRefused, LaunchCommand, Typed, TypeOK
<1>4. CASE Execute
    <2>1. worktree' \in Trees /\ local'.tree \in Trees
        BY <1>0, <1>4, TreeWritten DEF Execute, Typed, TypeOK
    <2> QED BY <1>0, <1>4, <2>1 DEF Execute, Typed, TypeOK
<1>5. CASE Audit
    <2>1. local' = local \/ (local' = [local EXCEPT !.tree = worktree])
        BY <1>5 DEF Audit
    <2>2. local'.tree \in Trees
        BY <1>0, <1>5, <2>1 DEF Audit, Typed, TypeOK
    <2>3. revision' \in Nat /\ revision' >= revision /\ counts' \in [Counters -> Nat]
        BY <1>0, <1>5 DEF Audit, TypeOK
    <2>4. evidence' \subseteq [commit: 1..commits, tree: Trees, revision: 0..revision']
        BY <1>0, <1>5, <2>3 DEF Audit, TypeOK
    <2> QED BY <1>0, <1>5, <2>2, <2>3, <2>4 DEF Audit, Typed, TypeOK
<1>6. CASE RecordCommand
    <2>1. [commit |-> base.commit, tree |-> local.tree, revision |-> revision]
             \in [commit: 1..commits, tree: Trees, revision: 0..revision]
        BY <1>0, <1>6 DEF RecordCommand, Typed, TypeOK
    <2>2. /\ evidence' \subseteq [commit: 1..commits, tree: Trees, revision: 0..revision]
          /\ latest' \subseteq evidence'
        BY <1>0, <1>6, <2>1 DEF RecordCommand, TypeOK
    <2> QED BY <1>0, <1>6, <2>2 DEF RecordCommand, Typed, TypeOK
<1>7. CASE begin_accept
    <2>1. counts' \in [Counters -> Nat]
        BY <1>0, <1>7, Counted DEF begin_accept
    <2> QED BY <1>0, <1>7, <2>1 DEF begin_accept, Typed, TypeOK
<1>8. CASE NotApplied
    BY <1>0, <1>8 DEF NotApplied, Typed, TypeOK
<1>9. CASE Freeze \/ Review \/ ApplyRejected \/ ApplyApproved \/ VerifyApply \/ SaveDelivery
    BY <1>0, <1>8, <1>9 DEF Freeze, Review, ApplyRejected, ApplyApproved, VerifyApply, SaveDelivery, Typed, TypeOK
<1>10. CASE SnapshotOurs
    BY <1>0, <1>8, <1>10 DEF SnapshotOurs, Typed, TypeOK
<1>11. CASE MergeSource
    <2>1. CASE NotApplied
        BY <1>8, <2>1
    <2>2. CASE ~NotApplied
        <3>1. local'.ours \in Trees /\ local'.snapshot \in Trees /\ local'.merged \in Trees
            BY <1>0, <1>11, <2>2, MergedType DEF MergeSource, Typed, TypeOK
        <3> QED BY <1>0, <1>11, <2>2, <3>1 DEF MergeSource, Typed, TypeOK
    <2> QED BY <2>1, <2>2
<1>12. CASE GitApply
    <2>1. source' \in Trees \/ NotApplied
        BY <1>0, <1>12 DEF GitApply, Typed, TypeOK, Trees
    <2> QED BY <1>0, <1>8, <1>12, <2>1 DEF GitApply, Typed, TypeOK
<1>13. CASE Checkpoint
    <2>1. /\ commits' \in Nat /\ head' \in 1..commits' /\ base.commit \in 1..commits' /\ base' = base
          /\ base' \in [commit: 1..commits', tree: Trees]
        BY <1>0, <1>13 DEF Checkpoint, TypeOK
    <2>2. evidence' \subseteq [commit: 1..commits', tree: Trees, revision: 0..revision']
        BY <1>0, <1>13 DEF Checkpoint, TypeOK
    <2> QED BY <1>0, <1>13, <2>1, <2>2 DEF Checkpoint, Typed, TypeOK
<1>14. CASE finish_accept
    <2>1. base' \in [commit: 1..commits, tree: Trees]
        BY <1>0, <1>14 DEF finish_accept, Typed, TypeOK
    <2> QED BY <1>0, <1>14, <2>1 DEF finish_accept, Typed, TypeOK
<1>15. CASE begin_discard
    BY <1>0, <1>15 DEF begin_discard, Typed, TypeOK
<1>16. CASE ResetWorktree
    BY <1>0, <1>16 DEF ResetWorktree, Typed, TypeOK
<1>17. CASE FinishDiscard
    BY <1>0, <1>17 DEF FinishDiscard, Typed, TypeOK
<1>18. CASE StepFails
    BY <1>0, <1>8, <1>18 DEF StepFails, Typed, TypeOK
<1>19. CASE Crash
    <2>1. counts' \in [Counters -> Nat]
        BY <1>0, <1>19, Counted DEF Crash
    <2> QED BY <1>0, <1>19, <2>1 DEF Crash, Typed, TypeOK
<1>20. CASE Resume
    BY <1>0, <1>20 DEF Resume, Typed, TypeOK
<1>21. CASE UserWrites
    <2>1. counts' \in [Counters -> Nat]
        BY <1>0, <1>21, WriteCounted
    <2>2. source' \in Trees /\ touched' \subseteq Units
        <3>1. PICK u \in Units, c \in Contents: source' = [source EXCEPT ![u] = c] /\ touched' = touched \cup {u}
            BY <1>21 DEF UserWrites
        <3> QED BY <1>0, <3>1, TreeWritten DEF TypeOK
    <2> QED BY <1>0, <1>21, <2>1, <2>2 DEF UserWrites, Typed, TypeOK
<1>22. CASE ForeignWrites
    <2>1. counts' \in [Counters -> Nat]
        BY <1>0, <1>22, Counted DEF ForeignWrites
    <2>2. worktree' \in Trees
        <3>1. PICK u \in Units, c \in Contents: worktree' = [worktree EXCEPT ![u] = c]
            BY <1>22 DEF ForeignWrites
        <3> QED BY <1>0, <3>1, TreeWritten DEF TypeOK
    <2> QED BY <1>0, <1>22, <2>1, <2>2 DEF ForeignWrites, Typed, TypeOK
<1>23. CASE UNCHANGED vars
    BY <1>0, <1>23 DEF vars, Typed, TypeOK
<1> QED BY <1>1, <1>2, <1>3, <1>4, <1>5, <1>6, <1>7, <1>9, <1>10, <1>11, <1>12, <1>13, <1>14, <1>15,
           <1>16, <1>17, <1>18, <1>19, <1>20, <1>21, <1>22, <1>23 DEF Next, Agent, Accept, Discard

-----------------------------------------------------------------------------
(* What Accept delivers was validated *)

NoForeign == counts["foreign"] = 0
NoCrash == counts["crashes"] = 0

\* From the evidence check on, the tree that will be delivered has evidence on
\* the baseline, if no other program writes to the worktree.
EvidenceCarried ==
    /\ (NoForeign /\ pc = "snapshot") => Validated(worktree)
    /\ (NoForeign /\ pc \in {"merge", "review", "approve", "git_apply", "verify"})
           => Validated(local.ours)
    /\ DeliveredWasValidated

\* The tree a command or the revision is about: until the audit the worktree as
\* it was shown.
Described == IF pc = "audit" THEN local.tree ELSE worktree

\* The latest evidence, when it carries the current revision, is about the tree
\* that is in the worktree (or was, before the running command).
OfferCarried ==
    NoForeign =>
        /\ pc = "execute" => worktree = local.tree
        /\ (pc = "evidence" /\ local.stopped /\ ws = "changes_active") => local.tree = worktree
        /\ pc \in {"save", "finish"} => worktree = local.merged
        /\ (NoCrash /\ ws \in {"changes_active", "accepting"} /\ pc \notin {"save", "finish"}) =>
               \A e \in latest: (e.revision = revision /\ Described # base.tree) =>
                   e.commit = base.commit /\ e.tree = Described

\* Counters never go back to zero.
LEMMA CountersGrow ==
    ASSUME Typed, [Next]_vars
    PROVE  /\ NoForeign' => NoForeign
           /\ NoCrash' => NoCrash
           /\ ForeignWrites => ~NoForeign'
           /\ Crash => ~NoCrash'
<1>0. counts \in [Counters -> Nat] /\ {"foreign", "crashes", "changes", "accepts", "taints"} \subseteq Counters
    BY DEF Typed, Counters
<1>1. /\ counts["foreign"] \in Nat /\ counts["crashes"] \in Nat
    BY <1>0
<1>2. ASSUME NEW what \in {"changes", "accepts", "foreign", "crashes"}, NEW bound, Count(what, bound)
      PROVE  /\ counts'[what] = counts[what] + 1
             /\ \A c \in Counters \ {what}: counts'[c] = counts[c]
    BY <1>0, <1>2, Counted
<1>3. CASE Edit \/ begin_accept \/ \E purpose \in {"utility", "validation"}: PrepareCommand(purpose)
    <2>1. Count("changes", MaxChanges) \/ Count("accepts", MaxAccepts)
        BY <1>3 DEF Edit, begin_accept, PrepareCommand
    <2>2. counts'["foreign"] = counts["foreign"] /\ counts'["crashes"] = counts["crashes"]
        BY <1>0, <1>2, <2>1
    <2>3. ~ForeignWrites /\ ~Crash
        BY <1>0, <1>1, <1>2, <2>2 DEF ForeignWrites, Crash
    <2> QED BY <2>2, <2>3 DEF NoForeign, NoCrash
<1>4. CASE ForeignWrites
    <2>1. counts'["foreign"] = counts["foreign"] + 1 /\ counts'["crashes"] = counts["crashes"]
        BY <1>0, <1>2, <1>4 DEF ForeignWrites
    <2>2. ~Crash
        BY <1>0, <1>1, <1>2, <2>1 DEF Crash
    <2> QED BY <1>1, <2>1, <2>2 DEF NoForeign, NoCrash
<1>5. CASE Crash
    <2>1. counts'["crashes"] = counts["crashes"] + 1 /\ counts'["foreign"] = counts["foreign"]
        BY <1>0, <1>2, <1>5 DEF Crash
    <2>2. ~ForeignWrites
        BY <1>0, <1>1, <1>2, <2>1 DEF ForeignWrites
    <2> QED BY <1>1, <2>1, <2>2 DEF NoForeign, NoCrash
<1>6. CASE counts'["foreign"] = counts["foreign"] /\ counts'["crashes"] = counts["crashes"]
    <2>1. ~ForeignWrites /\ ~Crash
        BY <1>0, <1>1, <1>2, <1>6 DEF ForeignWrites, Crash
    <2> QED BY <1>6, <2>1 DEF NoForeign, NoCrash
<1>7. CASE Audit
    BY <1>0, <1>6, <1>7 DEF Audit
<1>8. CASE UserWrites
    BY <1>0, <1>6, <1>8, WriteCounted
<1>9. CASE counts' = counts
    BY <1>6, <1>9
<1> QED BY <1>3, <1>4, <1>5, <1>7, <1>8, <1>9
        DEF Next, Agent, CommandRefused, LaunchCommand, Execute, RecordCommand,
            Accept, Freeze, SnapshotOurs, MergeSource, Review, ApplyRejected, ApplyApproved,
            GitApply, VerifyApply, Checkpoint, SaveDelivery, finish_accept, NotApplied,
            Discard, begin_discard, ResetWorktree, FinishDiscard, StepFails, Resume, vars

\* Every step keeps validation with the trees it is about.
LEMMA NextEvidenceCarried ==
    ASSUME Typed, EvidenceCarried, [Next]_vars
    PROVE  EvidenceCarried'
<1>0. NoForeign' => NoForeign
    BY CountersGrow
<1>1. evidence \subseteq evidence'
    BY DEF Next, Agent, Edit, PrepareCommand, CommandRefused, LaunchCommand, Execute, Audit, RecordCommand,
           Accept, begin_accept, Freeze, SnapshotOurs, MergeSource, Review, ApplyRejected, ApplyApproved,
           GitApply, VerifyApply, Checkpoint, SaveDelivery, finish_accept, NotApplied,
           Discard, begin_discard, ResetWorktree, FinishDiscard, StepFails, Crash, Resume,
           UserWrites, ForeignWrites, session, log, vars
<1>2. ASSUME delivered' = delivered PROVE DeliveredWasValidated'
    BY <1>0, <1>1, <1>2 DEF EvidenceCarried, DeliveredWasValidated, NoForeign
<1>3. ASSUME delivered' = delivered,
             pc' \notin {"snapshot", "merge", "review", "approve", "git_apply", "verify"}
      PROVE  EvidenceCarried'
    BY <1>2, <1>3 DEF EvidenceCarried
<1>4. ASSUME delivered' = delivered, base' = base, local' = local, worktree' = worktree, pc' = pc
      PROVE  EvidenceCarried'
    BY <1>0, <1>1, <1>2, <1>4 DEF EvidenceCarried, Validated
<1>5. CASE Agent \/ begin_accept \/ Checkpoint \/ SaveDelivery \/ finish_accept \/ Discard \/ Crash
    BY <1>3, <1>5 DEF Agent, Edit, PrepareCommand, CommandRefused, LaunchCommand, Execute, Audit, RecordCommand,
           begin_accept, Checkpoint, SaveDelivery, finish_accept,
           Discard, begin_discard, ResetWorktree, FinishDiscard, Crash, Return, Goto, history
<1>6. CASE NotApplied
    BY <1>3, <1>6 DEF NotApplied, Return, history
<1>7. CASE StepFails
    BY <1>3, <1>6, <1>7 DEF StepFails, Return, history
<1>8. CASE Resume \/ UserWrites
    BY <1>4, <1>8 DEF Resume, UserWrites, session, repo, history
<1>9. CASE UNCHANGED vars
    BY <1>4, <1>9 DEF vars, session, repo, history
<1>10. CASE ForeignWrites
    <2>1. ~NoForeign' /\ delivered' = delivered
        BY <1>10, CountersGrow DEF ForeignWrites, history
    <2> QED BY <1>2, <2>1 DEF EvidenceCarried
<1>11. CASE Freeze /\ ~NotApplied
    <2>1. /\ Validated(worktree) /\ pc' = "snapshot" /\ UNCHANGED <<worktree, base, evidence, delivered>>
        BY <1>11 DEF Freeze, Goto, repo, session, log, history
    <2>2. Validated(worktree)'
        BY <2>1 DEF Validated
    <2> QED BY <1>2, <2>1, <2>2 DEF EvidenceCarried
<1>12. CASE SnapshotOurs /\ ~NotApplied
    <2>1. /\ pc = "snapshot" /\ local'.ours = worktree /\ pc' = "merge"
          /\ UNCHANGED <<worktree, base, evidence, delivered>>
        BY <1>12 DEF SnapshotOurs, repo, session, log, history
    <2>2. NoForeign' => Validated(local.ours)'
        BY <1>0, <2>1 DEF EvidenceCarried, Validated
    <2> QED BY <1>2, <2>1, <2>2 DEF EvidenceCarried
<1>13. CASE (MergeSource \/ Review \/ ApplyApproved \/ GitApply) /\ ~NotApplied
    <2>1. /\ pc \in {"merge", "review", "approve", "git_apply"} /\ local'.ours = local.ours
          /\ pc' \in {"review", "approve", "git_apply", "verify"}
          /\ UNCHANGED <<base, evidence, delivered>>
        BY <1>13 DEF MergeSource, Review, ApplyApproved, GitApply, Goto, repo, session, log, history
    <2>2. NoForeign' => Validated(local.ours)'
        BY <1>0, <2>1 DEF EvidenceCarried, Validated
    <2> QED BY <1>2, <2>1, <2>2 DEF EvidenceCarried
<1>14. CASE VerifyApply /\ ~NotApplied
    <2>1. /\ pc = "verify" /\ pc' = "checkpoint" /\ UNCHANGED <<base, evidence, counts>>
          /\ delivered' = {[commit |-> base.commit, tree |-> local.ours]}
        BY <1>14 DEF VerifyApply, Goto, session, log
    <2>2. NoForeign => \E e \in evidence: e.commit = base.commit /\ e.tree = local.ours
        BY <2>1 DEF EvidenceCarried, Validated
    <2>3. DeliveredWasValidated'
        BY <2>1, <2>2 DEF DeliveredWasValidated, NoForeign
    <2> QED BY <2>1, <2>3 DEF EvidenceCarried
<1> QED BY <1>5, <1>6, <1>7, <1>8, <1>9, <1>10, <1>11, <1>12, <1>13, <1>14
        DEF Next, Accept, ApplyRejected

\* Every step keeps the latest evidence and the revision about one tree.
LEMMA NextOfferCarried ==
    ASSUME Typed, HeadFollowsRecord, OfferCarried, [Next]_vars
    PROVE  OfferCarried'
<1>0. /\ NoForeign' => NoForeign
      /\ NoCrash' => NoCrash
    BY CountersGrow
<1> SUFFICES ASSUME NoForeign', NoForeign PROVE OfferCarried'
    BY <1>0 DEF OfferCarried
<1>1. /\ \A e \in latest: e.revision \in Nat /\ e.revision <= revision
      /\ revision \in Nat
      /\ ws \in {"changes_active", "workspace_tainted", "accepting", "discarding", "recovery_required"}
    BY DEF Typed, TypeOK
<1>2. ASSUME pc' \notin {"execute", "audit", "evidence", "save", "finish"}, pc \notin {"audit", "save", "finish"},
             ws' \in {"changes_active", "accepting"} => ws \in {"changes_active", "accepting"},
             UNCHANGED <<worktree, base, revision, latest>>
      PROVE  OfferCarried'
    <2>1. Described' = Described
        BY <1>2 DEF Described
    <2> QED BY <1>0, <1>2, <2>1 DEF OfferCarried
<1>3. CASE Edit
    <2>1. /\ revision' = revision + 1 /\ latest' = latest /\ pc' = "idle"
        BY <1>3 DEF Edit, log
    <2>2. \A e \in latest': e.revision # revision'
        BY <1>1, <2>1
    <2> QED BY <2>1, <2>2 DEF OfferCarried
<1>4. CASE CommandRefused \/ begin_accept \/ \E purpose \in {"utility", "validation"}: PrepareCommand(purpose)
    BY <1>2, <1>4 DEF CommandRefused, begin_accept, PrepareCommand, Return, Goto, repo, session, log
<1>5. CASE LaunchCommand
    <2>1. pc = "approve_command" /\ UNCHANGED <<worktree, base, revision, latest, ws>>
        BY <1>5 DEF LaunchCommand, repo, session, log
    <2>2. CASE worktree = local.tree
        <3>1. pc' = "execute" /\ local' = local
            BY <1>5, <2>2 DEF LaunchCommand, Goto
        <3>2. Described' = Described
            BY <2>1, <3>1 DEF Described
        <3> QED BY <1>0, <2>1, <2>2, <3>1, <3>2 DEF OfferCarried
    <2>3. CASE worktree # local.tree
        BY <1>2, <1>5, <2>1, <2>3 DEF LaunchCommand, Return
    <2> QED BY <2>2, <2>3
<1>6. CASE Execute
    <2>1. /\ pc = "execute" /\ pc' = "audit" /\ local'.tree = local.tree
          /\ UNCHANGED <<base, revision, latest, ws>>
        BY <1>6 DEF Execute, session, log
    <2>2. Described' = Described
        BY <2>1 DEF Described, OfferCarried
    <2> QED BY <1>0, <2>1, <2>2 DEF OfferCarried
<1>7. CASE Audit
    <2>1. pc = "audit" /\ pc' = "evidence" /\ UNCHANGED <<worktree, base, latest>>
        BY <1>7 DEF Audit, repo, log
    <2>2. CASE ws' = "recovery_required" \/ ws' = "workspace_tainted"
        BY <2>1, <2>2 DEF OfferCarried
    <2>3. CASE /\ revision' = (IF worktree = local.tree THEN revision ELSE revision + 1)
               /\ local' = [local EXCEPT !.tree = worktree] /\ ws' = ws
        <3>1. local'.tree = worktree
            BY <2>1, <2>3 DEF Typed
        <3>2. \A e \in latest: e.revision = revision' => worktree = local.tree /\ e.revision = revision
            BY <1>1, <2>3
        <3> QED BY <1>0, <2>1, <2>3, <3>1, <3>2 DEF OfferCarried, Described
    <2> QED BY <1>7, <2>2, <2>3 DEF Audit
<1>8. CASE RecordCommand
    <2>1. pc = "evidence" /\ pc' = "idle" /\ UNCHANGED <<worktree, base, revision, ws>>
        BY <1>8 DEF RecordCommand, Return, repo
    <2>2. \/ latest' = latest \/ latest' = {}
          \/ /\ local.stopped /\ ws = "changes_active"
             /\ latest' = {[commit |-> base.commit, tree |-> local.tree, revision |-> revision]}
        BY <1>8 DEF RecordCommand, log
    <2>3. Described' = worktree /\ Described = worktree
        BY <2>1 DEF Described
    <2> QED BY <1>0, <2>1, <2>2, <2>3 DEF OfferCarried
<1>9. CASE NotApplied /\ pc \in BeforeApplied
    BY <1>2, <1>9 DEF NotApplied, Return, repo, log, HeadFollowsRecord, BeforeApplied
<1>10. CASE Freeze \/ SnapshotOurs \/ MergeSource \/ Review \/ ApplyRejected \/ ApplyApproved \/ GitApply \/ VerifyApply
    BY <1>2, <1>9, <1>10 DEF Freeze, SnapshotOurs, MergeSource, Review, ApplyRejected, ApplyApproved, GitApply,
                             VerifyApply, Goto, repo, session, log, BeforeApplied
<1>11. CASE Checkpoint \/ SaveDelivery
    BY <1>11 DEF Checkpoint, SaveDelivery, Goto, repo, OfferCarried
<1>12. CASE finish_accept
    <2>1. worktree' = base'.tree /\ pc' = "idle"
        BY <1>12 DEF finish_accept, Return, repo, OfferCarried
    <2> QED BY <2>1 DEF OfferCarried, Described
<1>13. CASE begin_discard \/ ResetWorktree
    <2>1. ws' = "discarding" /\ pc' \in {"reset", "verify_reset"}
        BY <1>13 DEF begin_discard, ResetWorktree, Goto, session, HeadFollowsRecord
    <2> QED BY <2>1 DEF OfferCarried
<1>14. CASE FinishDiscard
    <2>1. pc' = "idle" /\ (ws' = "recovery_required" \/ worktree' = base'.tree)
        BY <1>14 DEF FinishDiscard, Return, repo, pending
    <2> QED BY <2>1 DEF OfferCarried, Described
<1>15. CASE StepFails
    <2>1. \/ NotApplied /\ pc \in BeforeApplied
          \/ ws' = "recovery_required" /\ pc' = "idle"
        BY <1>15 DEF StepFails, Return
    <2> QED BY <1>9, <2>1 DEF OfferCarried
<1>16. CASE Crash
    <2>1. ~NoCrash' /\ pc' = "idle"
        BY <1>16, CountersGrow DEF Crash, Return
    <2> QED BY <2>1 DEF OfferCarried
<1>17. CASE Resume
    BY <1>1, <1>2, <1>17 DEF Resume, repo, log
<1>18. ~ForeignWrites
    BY CountersGrow
<1>19. CASE UserWrites \/ UNCHANGED vars
    <2>1. UNCHANGED <<pc, local, worktree, base, revision, latest, ws>>
        BY <1>19 DEF UserWrites, vars, repo, session, log
    <2>2. Described' = Described
        BY <2>1 DEF Described
    <2> QED BY <1>0, <2>1, <2>2 DEF OfferCarried
<1> QED BY <1>3, <1>4, <1>5, <1>6, <1>7, <1>8, <1>10, <1>11, <1>12, <1>13, <1>14, <1>15, <1>16, <1>17,
           <1>18, <1>19 DEF Next, Agent, Accept, Discard

\* Evidence, offer and delivery are about one tree: whatever fails or crashes,
\* an Accept delivers a tree that a validation command passed on against the
\* baseline it was delivered to, and what the read model offers by comparing
\* revisions Accept will find validated by comparing trees.
THEOREM DeliveredIsValidated == Spec => []DeliversWhatWasValidated
<1>1. Init => HeadFollowsRecord
    BY DEF Init, HeadFollowsRecord, BeforeApplied, AfterApplied
<1>2. Init => EvidenceCarried /\ OfferCarried
    BY DEF Init, EvidenceCarried, DeliveredWasValidated, OfferCarried
<1>3. Typed /\ EvidenceCarried /\ OfferCarried => DeliversWhatWasValidated
    <2> SUFFICES ASSUME Typed, EvidenceCarried, OfferCarried,
                        pc = "idle", can_accept, counts.crashes = 0, counts.foreign = 0
                 PROVE  Validated(worktree)
        BY DEF Typed, EvidenceCarried, DeliversWhatWasValidated, OfferedAcceptIsValidated
    <2>1. PICK e \in latest: e.revision = revision
        BY DEF can_accept, latest_evidence_is_current
    <2>2. e \in evidence
        BY DEF Typed, TypeOK
    <2>3. NoForeign /\ NoCrash /\ Described = worktree /\ ws = "changes_active" /\ worktree # base.tree
        BY DEF NoForeign, NoCrash, Described, can_accept, pending
    <2>4. e.commit = base.commit /\ e.tree = worktree
        BY <2>1, <2>3 DEF OfferCarried
    <2> QED BY <2>2, <2>4 DEF Validated
<1> QED BY <1>1, <1>2, <1>3, InitTyped, NextTyped, NextHeadFollowsRecord, NextEvidenceCarried,
           NextOfferCarried, PTL DEF Spec

-----------------------------------------------------------------------------
(* The source follows the baseline *)

\* Outside the regions the user wrote to, the source is as the baseline.
SourceAsBase == \A u \in Units \ touched: source[u] = base.tree[u]

\* What SourceFollowsBaseline excludes: writes into a running git apply, and an
\* interrupted Accept hidden by a failed audit.
Undisturbed == counts["midway"] = 0 /\ (NoCrash \/ counts["taints"] = 0)

\* The session says where the source is: off the baseline only while Accept is
\* past git apply, or was interrupted there; then it stays in accepting until
\* resume asks for recovery, unless an audit fails in between.
SourcePlaced ==
    /\ NoCrash => (pc \in {"idle", "approve_command", "execute", "audit", "evidence"}
                       => ws \notin {"accepting", "discarding"})
    /\ pc \in {"approve_command", "execute", "audit"} => ws # "recovery_required"
    /\ counts["taints"] = 0 => ws # "workspace_tainted"
    /\ Undisturbed =>
          /\ (ws \in {"changes_active", "workspace_tainted", "discarding"}
                 \/ pc \in BeforeApplied \ {"verify"}) => SourceAsBase
          /\ pc = "git_apply" => source = local.snapshot
          /\ pc = "verify" => source = local.merged

\* The counters behind Undisturbed never go back either.
LEMMA DisturbancesGrow ==
    ASSUME Typed, [Next]_vars
    PROVE  /\ counts'["midway"] = 0 => counts["midway"] = 0
           /\ counts'["taints"] = 0 => counts["taints"] = 0
           /\ Undisturbed' => Undisturbed
<1>0. /\ counts \in [Counters -> Nat] /\ {"foreign", "crashes", "changes", "accepts", "taints", "midway"} \subseteq Counters
      /\ "taints" \notin {"writes", "midway"}
      /\ counts["midway"] \in Nat /\ counts["taints"] \in Nat
    BY DEF Typed, Counters
<1>1. /\ counts'["midway"] = 0 => counts["midway"] = 0
      /\ counts'["taints"] = 0 => counts["taints"] = 0
    <2>1. ASSUME NEW what \in {"changes", "accepts", "foreign", "crashes"}, NEW bound, Count(what, bound)
          PROVE  counts'["midway"] = counts["midway"] /\ counts'["taints"] = counts["taints"]
        BY <1>0, <2>1, Counted
    <2>2. CASE Edit \/ begin_accept \/ ForeignWrites \/ Crash \/ \E purpose \in {"utility", "validation"}: PrepareCommand(purpose)
        BY <2>1, <2>2 DEF Edit, begin_accept, ForeignWrites, Crash, PrepareCommand
    <2>3. CASE Audit
        BY <1>0, <2>3 DEF Audit
    <2>4. CASE UserWrites
        BY <1>0, <2>4, WriteCounted
    <2>5. CASE counts' = counts
        BY <2>5
    <2> QED BY <2>2, <2>3, <2>4, <2>5
        DEF Next, Agent, CommandRefused, LaunchCommand, Execute, RecordCommand,
            Accept, Freeze, SnapshotOurs, MergeSource, Review, ApplyRejected, ApplyApproved,
            GitApply, VerifyApply, Checkpoint, SaveDelivery, finish_accept, NotApplied,
            Discard, begin_discard, ResetWorktree, FinishDiscard, StepFails, Resume, vars
<1> QED BY <1>1, CountersGrow DEF Undisturbed

\* Every step keeps the source where the session's state says it is, as
\* long as the snapshot after `git apply` can be taken.
LEMMA NextSourcePlaced ==
    ASSUME "verify" \notin FailingAt, Typed, HeadFollowsRecord, SourcePlaced, [Next]_vars
    PROVE  SourcePlaced'
<1>0. /\ NoCrash' => NoCrash
      /\ counts'["taints"] = 0 => counts["taints"] = 0
      /\ Undisturbed' => Undisturbed
    BY CountersGrow, DisturbancesGrow
<1>1. ws \in {"changes_active", "workspace_tainted", "accepting", "discarding", "recovery_required"}
    BY DEF Typed, TypeOK
<1> USE DEF BeforeApplied
<1>2. ASSUME pc' \notin {"git_apply", "verify"}, pc # "verify", UNCHANGED <<source, base, touched, ws>>,
             pc' \in BeforeApplied => pc \in BeforeApplied,
             pc' \in {"idle", "approve_command", "execute", "audit", "evidence"} =>
                 pc \in {"idle", "approve_command", "execute", "audit", "evidence"},
             pc' \in {"approve_command", "execute", "audit"} =>
                 pc \in {"approve_command", "execute", "audit"} \/ ws # "recovery_required"
      PROVE  SourcePlaced'
    BY <1>0, <1>2 DEF SourcePlaced, SourceAsBase
<1>3. CASE Edit \/ CommandRefused \/ LaunchCommand \/ Execute \/ RecordCommand
           \/ \E purpose \in {"utility", "validation"}: PrepareCommand(purpose)
    BY <1>2, <1>3 DEF Edit, CommandRefused, LaunchCommand, Execute, RecordCommand, PrepareCommand,
                      Return, Goto, repo, session, history
<1>4. CASE Audit
    <2>1. /\ pc = "audit" /\ pc' = "evidence" /\ UNCHANGED <<source, base, touched>>
          /\ \/ ws' = "recovery_required"
             \/ ws' = "workspace_tainted" /\ counts' = [counts EXCEPT !.taints = 1]
             \/ ws' = ws
        BY <1>4 DEF Audit, repo, history
    <2>2. CASE ws' = "recovery_required"
        BY <1>0, <2>1, <2>2 DEF SourcePlaced
    <2>3. CASE ws' = "workspace_tainted" /\ counts' = [counts EXCEPT !.taints = 1]
        <3>1. counts'["taints"] = 1 /\ counts'["crashes"] = counts["crashes"]
            BY <2>3 DEF Typed, Counters
        <3>2. Undisturbed' => NoCrash /\ SourceAsBase
            BY <1>0, <1>1, <2>1, <3>1 DEF SourcePlaced, Undisturbed, NoCrash, HeadFollowsRecord
        <3> QED BY <1>0, <2>1, <2>3, <3>1, <3>2 DEF SourcePlaced, SourceAsBase
    <2>4. CASE ws' = ws
        BY <1>2, <2>1, <2>4
    <2> QED BY <2>1, <2>2, <2>3, <2>4
<1>5. CASE begin_accept
    <2>1. /\ pc = "idle" /\ ws = "changes_active" /\ ws' = "accepting" /\ pc' = "freeze"
          /\ UNCHANGED <<source, base, touched>>
        BY <1>5 DEF begin_accept, Goto, repo, history
    <2> QED BY <1>0, <2>1 DEF SourcePlaced, SourceAsBase
<1>6. CASE NotApplied /\ pc \in BeforeApplied \ {"verify"}
    <2>1. pc' = "idle" /\ ws' = "changes_active" /\ UNCHANGED <<source, base, touched>>
        BY <1>6 DEF NotApplied, Return, repo, history
    <2> QED BY <1>0, <1>6, <2>1 DEF SourcePlaced, SourceAsBase
<1>7. CASE (Freeze \/ SnapshotOurs \/ MergeSource \/ Review) /\ ~NotApplied
    BY <1>2, <1>7 DEF Freeze, SnapshotOurs, MergeSource, Review, Goto, repo, session, history
<1>8. CASE (Freeze \/ SnapshotOurs \/ MergeSource \/ Review \/ ApplyRejected \/ ApplyApproved \/ GitApply) /\ NotApplied
    BY <1>6, <1>8 DEF Freeze, SnapshotOurs, MergeSource, Review, ApplyRejected, ApplyApproved, GitApply
<1>9. CASE ApplyApproved /\ ~NotApplied
    <2>1. /\ pc = "approve" /\ source = local.snapshot /\ pc' = "git_apply"
          /\ UNCHANGED <<local, source, base, touched, ws>>
        BY <1>9 DEF ApplyApproved, Goto, repo, session, history
    <2> QED BY <1>0, <2>1 DEF SourcePlaced, SourceAsBase
<1>10. CASE GitApply /\ ~NotApplied
    <2>1. /\ pc = "git_apply" /\ pc' = "verify" /\ UNCHANGED <<local, base, touched, ws>>
          /\ source' = [u \in Units |-> IF u \in PatchUnits THEN local.merged[u] ELSE source[u]]
        BY <1>10 DEF GitApply, Goto, session, history
    <2>2. Undisturbed' => source' = local.merged
        <3> SUFFICES ASSUME Undisturbed' PROVE source' = local.merged
            OBVIOUS
        <3>1. source = local.snapshot /\ local.merged \in [Units -> Contents]
            BY <1>0, <2>1 DEF SourcePlaced, Typed, Trees
        <3>2. \A u \in Units: source'[u] = local.merged[u]
            BY <2>1, <3>1 DEF PatchUnits
        <3> QED BY <2>1, <3>1, <3>2
    <2>3. ws' = "accepting"
        BY <2>1 DEF HeadFollowsRecord
    <2> QED BY <1>0, <2>1, <2>2, <2>3 DEF SourcePlaced
<1>11. CASE VerifyApply
    <2>1. pc = "verify" /\ ws = "accepting" /\ counts' = counts
        BY <1>11 DEF VerifyApply, NotApplied, HeadFollowsRecord
    <2>2. CASE source = local.merged
        <3>1. pc' = "checkpoint" /\ ws' = ws
            BY <1>11, <2>2 DEF VerifyApply, Goto, session
        <3> QED BY <2>1, <3>1 DEF SourcePlaced
    <2>3. CASE source # local.merged
        <3>1. pc' = "idle" /\ ws' = "changes_active"
            BY <1>11, <2>3 DEF VerifyApply, NotApplied, Return
        <3>2. ~Undisturbed'
            BY <1>0, <2>1, <2>3 DEF SourcePlaced
        <3> QED BY <3>1, <3>2 DEF SourcePlaced
    <2> QED BY <2>2, <2>3
<1>12. CASE Checkpoint \/ SaveDelivery
    <2>1. pc' \in {"save", "finish"} /\ ws' = "accepting"
        BY <1>12 DEF Checkpoint, SaveDelivery, Goto, session, HeadFollowsRecord, AfterApplied
    <2> QED BY <2>1 DEF SourcePlaced
<1>13. CASE finish_accept
    <2>1. /\ pc' = "idle" /\ ws' = "changes_active" /\ base'.tree = local.merged /\ source' = source
          /\ touched' = {u \in Units: source[u] # local.merged[u]}
        BY <1>13 DEF finish_accept, Return, repo
    <2>2. SourceAsBase'
        BY <2>1 DEF SourceAsBase
    <2> QED BY <2>1, <2>2 DEF SourcePlaced
<1>14. CASE begin_discard
    <2>1. /\ pc' = "reset" /\ ws' = "discarding" /\ ws \in {"changes_active", "workspace_tainted"}
          /\ UNCHANGED <<source, base, touched>>
        BY <1>14 DEF begin_discard, Goto, repo, history
    <2> QED BY <1>0, <2>1 DEF SourcePlaced, SourceAsBase
<1>15. CASE ResetWorktree
    BY <1>2, <1>15 DEF ResetWorktree, Goto, session, history
<1>16. CASE FinishDiscard
    <2>1. /\ pc = "verify_reset" /\ ws = "discarding" /\ pc' = "idle"
          /\ ws' \in {"changes_active", "recovery_required"} /\ UNCHANGED <<source, base, touched>>
        BY <1>16 DEF FinishDiscard, Return, repo, history, HeadFollowsRecord
    <2> QED BY <1>0, <2>1 DEF SourcePlaced, SourceAsBase
<1>17. CASE StepFails
    <2>1. \/ NotApplied /\ pc \in BeforeApplied \ {"verify"}
          \/ ws' = "recovery_required" /\ pc' = "idle"
        BY <1>17 DEF StepFails, Return
    <2>2. CASE ws' = "recovery_required" /\ pc' = "idle"
        BY <2>2 DEF SourcePlaced
    <2> QED BY <1>6, <2>1, <2>2
<1>18. CASE Crash
    <2>1. ~NoCrash' /\ pc' = "idle" /\ UNCHANGED <<source, base, touched, ws>>
        BY <1>18, CountersGrow DEF Crash, Return, repo, session, history
    <2> QED BY <1>0, <2>1 DEF SourcePlaced, SourceAsBase
<1>19. CASE Resume
    <2>1. /\ pc = "idle" /\ pc' = "idle" /\ UNCHANGED <<source, base, touched>>
          /\ ws' = ws \/ ws' = "recovery_required"
        BY <1>1, <1>19 DEF Resume, repo, history
    <2>2. CASE ws' = ws
        BY <1>2, <2>1, <2>2
    <2>3. CASE ws' = "recovery_required"
        BY <2>1, <2>3 DEF SourcePlaced
    <2> QED BY <2>1, <2>2, <2>3
<1>20. CASE UserWrites
    <2>1. UNCHANGED <<base, ws, pc, local>>
        BY <1>20 DEF UserWrites, session
    <2>2. PICK u \in Units, c \in Contents: source' = [source EXCEPT ![u] = c] /\ touched' = touched \cup {u}
        BY <1>20 DEF UserWrites
    <2>3. SourceAsBase => SourceAsBase'
        BY <2>1, <2>2 DEF SourceAsBase, Typed, TypeOK, Trees
    <2>4. pc \in {"git_apply", "verify"} => ~Undisturbed'
        BY <1>20, WriteCounted DEF Typed, Undisturbed
    <2> QED BY <1>0, <2>1, <2>3, <2>4 DEF SourcePlaced
<1>21. CASE ForeignWrites \/ UNCHANGED vars
    <2>1. UNCHANGED <<source, base, touched, ws, pc, local>>
        BY <1>21 DEF ForeignWrites, vars, repo, session, history
    <2> QED BY <1>0, <2>1 DEF SourcePlaced, SourceAsBase
<1> QED BY <1>3, <1>4, <1>5, <1>7, <1>8, <1>9, <1>10, <1>11, <1>12, <1>13, <1>14, <1>15, <1>16, <1>17,
           <1>18, <1>19, <1>20, <1>21 DEF Next, Agent, Accept, Discard, ApplyRejected

\* As long as the snapshot that follows git apply can be taken, a session that
\* says changes_active has no patch in the source that it believes to be still
\* pending: whatever else fails, crashes or is resumed, the source differs from
\* the recorded baseline only where the user wrote since.
THEOREM SourceStaysWithBaseline ==
    ASSUME "verify" \notin FailingAt
    PROVE  Spec => []SourceFollowsBaseline
<1>1. Init => HeadFollowsRecord
    BY DEF Init, HeadFollowsRecord, BeforeApplied, AfterApplied
<1>2. Init => SourcePlaced
    BY DEF Init, SourcePlaced, SourceAsBase, BeforeApplied
<1>3. SourcePlaced => SourceFollowsBaseline
    BY DEF SourcePlaced, SourceFollowsBaseline, SourceAsBase, Undisturbed, NoCrash
<1>4. Typed /\ HeadFollowsRecord /\ SourcePlaced /\ [Next]_vars => SourcePlaced'
    BY NextSourcePlaced
<1> QED BY <1>1, <1>2, <1>3, <1>4, InitTyped, NextTyped, NextHeadFollowsRecord, PTL DEF Spec
================================================================================
