------------------------------- MODULE Lifecycle -------------------------------
(***************************************************************************)
(* The workspace of a Session from source_only to recovery_required, over  *)
(* the processes that open it one after the other: the terminal (cli.py:   *)
(* start, resume, ask and the interactive loop), a job of the product      *)
(* (product/execution.py) and the commands that settle the changes         *)
(* (runtime/current_changes.py).  It has the upgrade to a Git worktree     *)
(* (runtime/runner.py, workspace/git_worktree.py), the states of           *)
(* session/store.py and what resume makes of what a crash left behind.     *)
(*                                                                         *)
(* Edits, commands and deliveries are the steps this module needs of them: *)
(* AtomicEdit, Commands and Delivery have their detail.  Of the two        *)
(* revisions only their order matters, candidate_revision >                *)
(* accepted_candidate_revision, kept as meta.ahead.                        *)
(***************************************************************************)
EXTENDS Integers, FiniteSets

CONSTANTS
    MaxHead,        \* bound: commits the user adds to the source
    MaxCrashes,     \* bound: crashes
    MaxUserSteps,   \* bound: what the user does to source and worktree
    MaxTurns        \* bound: user messages

ASSUME BoundsAssumption == {MaxHead, MaxCrashes, MaxUserSteps, MaxTurns} \subseteq Nat

VARIABLES
    meta,       \* session.json: workspace_state, workspace_kind, base_commit, revisions
    tree,       \* the worktree directory and Git's record of it
    source,     \* the source repository: HEAD and whether it is dirty
    txn,        \* the journal of an edit transaction, with its pre-image
    turn,       \* the last user turn, as the events tell it
    proc,       \* the process that has the Session open
    reasked,    \* history: shapes of refusals on record when the model's request was put again
    spent       \* history: counters behind the bounds

vars == <<meta, tree, source, txn, turn, proc, reasked, spent>>

Transitional == {"preparing_workspace", "accepting", "discarding"}
States == {"source_only", "changes_active", "workspace_tainted", "recovery_required"} \cup Transitional
Checkpoint == -1                    \* a commit made by Accept
Commits == {Checkpoint} \cup 0..MaxHead

\* No process; and a directory that is not there.
Closed == [front |-> "none", exec |-> FALSE, dynamic |-> FALSE, refused |-> FALSE,
           pc |-> "none", within |-> "none"]
NoTree == [there |-> FALSE, reg |-> FALSE, locked |-> FALSE, head |-> 0,
           missing |-> FALSE, edited |-> FALSE]
NoTxn == [state |-> "none", before |-> FALSE]
Unfinished == txn.state \in {"prepared", "committing"}
SourceMeta == [state |-> "source_only", isolated |-> FALSE, base |-> 0, ahead |-> FALSE]

\* `git status` in the worktree prints something.
Dirty(t) == t.missing \/ t.edited

Mark(s) == meta' = [meta EXCEPT !.state = s]
Go(p) == proc' = [proc EXCEPT !.pc = p]

\* What session.json, the directory, the journal, a turn and a process can be.
Metas == [state : States, isolated : BOOLEAN, base : Commits, ahead : BOOLEAN]
Worktrees == [there : BOOLEAN, reg : BOOLEAN, locked : BOOLEAN, head : Commits,
              missing : BOOLEAN, edited : BOOLEAN]
Journals == [state : {"none", "prepared", "committing", "committed", "broken"}, before : BOOLEAN]
UserTurns == [open : BOOLEAN, waiting : BOOLEAN, refusals : SUBSET {"reason", "plain"}]
Places == {"none", "idle", "slice", "asking", "preparing", "created", "edit",
           "editing", "counted", "command", "accepting", "discarding"}
Processes == [front : {"none", "cli", "ask", "product", "settle"}, exec : BOOLEAN,
              dynamic : BOOLEAN, refused : BOOLEAN, pc : Places, within : {"none", "slice", "idle"}]
Tallies == [crashes : 0..MaxCrashes, user : 0..MaxUserSteps, turns : 0..MaxTurns]

LifecycleTypeOK ==
    /\ meta \in Metas /\ tree \in Worktrees /\ txn \in Journals
    /\ source \in [head : 0..MaxHead, dirty : BOOLEAN]
    /\ turn \in UserTurns /\ proc \in Processes
    /\ reasked \subseteq {"reason", "plain"}
    /\ spent \in Tallies

--------------------------------------------------------------------------------
(* Opening the Session                                                     *)

\* build_agent_runner: the protected tools are the real ones, the ones that
\* ask for a worktree first, or absent.
Runner(front, m, allowed, p) ==
    LET execution == m.isolated /\ allowed
    IN  [front |-> front, exec |-> execution,
         dynamic |-> ~execution /\ m.state = "source_only",
         refused |-> FALSE, pc |-> p, within |-> "none"]

\* Mutant: only a committed transaction is looked at.
MutRecovered(fails) ==
    [txn |-> IF txn.state = "committed" THEN NoTxn ELSE txn, tree |-> tree]

\* AtomicEditService.ensure_recovered: the pre-image of an unfinished edit is
\* written back, whatever the files are now; `fails` when it cannot be.
Recovered(fails) ==
    IF fails \/ txn.state = "broken"
    THEN [txn |-> [txn EXCEPT !.state = "broken"], tree |-> tree]
    ELSE IF Unfinished
    THEN [txn |-> NoTxn, tree |-> [tree EXCEPT !.edited = tree.there /\ txn.before]]
    ELSE [txn |-> IF txn.state = "committed" THEN NoTxn ELSE txn, tree |-> tree]

\* Mutant: _has_resumable_candidate_changes looks at the files only.
MutResumable(m, t) == Dirty(t)

\* _has_resumable_candidate_changes
Resumable(m, t) == m.ahead /\ Dirty(t)

\* GitWorktreeManager.inspect with allow_source_changes, as resume calls it.
Inspect(m, t, broken) ==
    IF broken THEN "recovery_required"
    ELSE IF ~(m.isolated /\ t.there /\ t.reg) THEN "missing"
    ELSE IF t.head # m.base THEN "stale"
    ELSE IF ~Dirty(t) THEN "ready"
    ELSE IF Resumable(m, t) THEN "candidate_changes" ELSE "worktree_dirty"
Executable(report) == report \in {"ready", "candidate_changes"}

\* resume: a transition that was under way makes the Session unusable.
Interrupted(m) ==
    IF m.state \in Transitional THEN [m EXCEPT !.state = "recovery_required"] ELSE m

\* resume: the state after the inspection.
Verdict(m, broken, good) ==
    [m EXCEPT !.state = IF broken \/ m.state = "recovery_required" THEN "recovery_required"
                        ELSE IF m.state = "workspace_tainted" THEN m.state
                        ELSE IF good THEN "changes_active" ELSE "recovery_required"]

\* `resume`.  With a removed worktree and undelivered changes `git status`
\* has no directory to run in: the command ends with the exception, and only
\* what was written before it remains.
Resume ==
    /\ proc = Closed
    /\ \E fails \in BOOLEAN :
        LET m0 == Interrupted(meta)
            settled == m0.state \notin {"changes_active", "workspace_tainted", "recovery_required"}
            r == Recovered(fails)
            broken == r.txn.state = "broken"
            good == Executable(Inspect(m0, r.tree, broken))
            m1 == IF settled THEN m0 ELSE Verdict(m0, broken, good)
        IN  /\ fails => Unfinished
            /\ IF ~settled /\ ~broken /\ m0.isolated /\ m0.ahead /\ ~r.tree.there
               THEN /\ meta' = m0 /\ txn' = r.txn /\ tree' = r.tree /\ proc' = Closed
               ELSE /\ meta' = m1
                    /\ txn' = IF settled THEN txn ELSE r.txn
                    /\ tree' = IF settled THEN tree ELSE r.tree
                    /\ proc' = Runner("cli", m1, settled \/ (good /\ m1.state = "changes_active"), "idle")
    /\ UNCHANGED <<source, turn, reasked, spent>>

\* _run_slice: a refusal of this turn, recognised by its reason (the terminal
\* writes it) or by its kind (nothing writes it).
RefusalOnRecord(t) == "reason" \in t.refusals

\* _run_slice from its start: without budget the turn waits.
Slice(p, t) == [p EXCEPT !.pc = "slice", !.refused = RefusalOnRecord(t)]
NewTurn == [open |-> TRUE, waiting |-> FALSE, refusals |-> {}]

\* ExecutionSupervisor.start: a message when the turn is closed, a
\* continuation when it is open and not waiting, or an increased budget.
ProductStart ==
    /\ proc = Closed
    /\ LET p == Runner("product", meta, meta.state = "changes_active", "slice")
       IN  \/ /\ ~turn.open /\ spent.turns < MaxTurns
              /\ turn' = NewTurn /\ proc' = Slice(p, NewTurn)
              /\ spent' = [spent EXCEPT !.turns = @ + 1]
           \/ /\ turn.open
              /\ turn.waiting => meta.state \in {"source_only", "changes_active"}
              /\ turn' = [turn EXCEPT !.waiting = FALSE] /\ proc' = Slice(p, turn)
              /\ spent' = spent
    /\ UNCHANGED <<meta, tree, source, txn, reasked>>

\* ExecutionSupervisor.stop without a job.
ProductStopIdle ==
    /\ proc = Closed /\ turn.open
    /\ turn' = [turn EXCEPT !.open = FALSE, !.waiting = FALSE]
    /\ UNCHANGED <<meta, tree, source, txn, proc, reasked, spent>>

--------------------------------------------------------------------------------
(* The interactive loop                                                    *)

AtPrompt == proc.front = "cli" /\ proc.pc = "idle"

Message ==
    /\ AtPrompt /\ ~turn.open /\ spent.turns < MaxTurns
    /\ turn' = NewTurn /\ proc' = Slice(proc, NewTurn)
    /\ spent' = [spent EXCEPT !.turns = @ + 1]
    /\ UNCHANGED <<meta, tree, source, txn, reasked>>

\* /stop
Stop ==
    /\ AtPrompt /\ turn.open
    /\ turn' = [turn EXCEPT !.open = FALSE, !.waiting = FALSE]
    /\ UNCHANGED <<meta, tree, source, txn, proc, reasked, spent>>

\* /budget: increase_turn_budget, then continue_turn.
Budget ==
    /\ AtPrompt /\ turn.open /\ turn.waiting
    /\ meta.state \in {"source_only", "changes_active"}
    /\ turn' = [turn EXCEPT !.waiting = FALSE] /\ proc' = Slice(proc, turn)
    /\ UNCHANGED <<meta, tree, source, txn, reasked, spent>>

\* /continue: a turn that waits for budget keeps waiting.
Continue ==
    /\ AtPrompt /\ turn.open /\ ~turn.waiting
    /\ proc' = Slice(proc, turn)
    /\ UNCHANGED <<meta, tree, source, txn, turn, reasked, spent>>

\* /exit, or the end of the input.
Exit ==
    /\ AtPrompt /\ proc' = Closed
    /\ UNCHANGED <<meta, tree, source, txn, turn, reasked, spent>>

--------------------------------------------------------------------------------
(* A slice                                                                 *)

\* Back from a tool call to the slice or to the prompt it came from.
Back(p) == [p EXCEPT !.pc = p.within, !.within = "none"]

\* The end of a turn: a job ends with it, `ask` too, the terminal prompts.
EndOfRun(p) == IF p.front = "cli" THEN [p EXCEPT !.pc = "idle"] ELSE Closed

FinalAnswer ==
    /\ proc.pc = "slice"
    /\ turn' = [turn EXCEPT !.open = FALSE] /\ proc' = EndOfRun(proc)
    /\ UNCHANGED <<meta, tree, source, txn, reasked, spent>>

\* The slice is used up: every front goes on with continue_turn.
SliceExhausted ==
    /\ proc.pc = "slice"
    /\ proc' = Slice(proc, turn)
    /\ UNCHANGED <<meta, tree, source, txn, turn, reasked, spent>>

\* _wait_for_budget
BudgetExhausted ==
    /\ proc.pc = "slice"
    /\ turn' = [turn EXCEPT !.waiting = TRUE] /\ proc' = EndOfRun(proc)
    /\ UNCHANGED <<meta, tree, source, txn, reasked, spent>>

\* _handle_tool_call of apply_workspace_edit or run_command, by the model or
\* with /call at the prompt (handle_manual_call).  DefaultPolicy allows both
\* tools; without them the call is denied and nothing happens.  The services
\* refuse in a tainted or doubtful workspace, the upgrade in a doubtful one and
\* after a refusal in this slice.
Protected(tool) ==
    /\ proc.pc = "slice" \/ AtPrompt
    /\ LET here == [proc EXCEPT !.within = proc.pc]
       IN  \/ /\ proc.exec /\ meta.state = "changes_active"
              /\ proc' = [here EXCEPT !.pc = tool]
              /\ UNCHANGED reasked
           \/ /\ ~proc.exec /\ proc.dynamic
              /\ meta.state # "recovery_required" /\ ~proc.refused
              /\ proc' = [here EXCEPT !.pc = "asking"]
              /\ reasked' = IF proc.pc = "slice" THEN reasked \cup turn.refusals ELSE reasked
    /\ UNCHANGED <<meta, tree, source, txn, turn, spent>>

\* _upgrade_and_dispatch when the user says no.
Refuse(p) == Back([p EXCEPT !.refused = TRUE])

\* request_workspace_upgrade answered no, or by AutoApprovalGate, or by a
\* terminal that is not interactive.  The supervisor's decision names neither
\* kind nor reason.  Without a user turn the event belongs to none.
Refused ==
    /\ proc.pc = "asking"
    /\ proc' = Refuse(proc)
    /\ turn' = [turn EXCEPT !.refusals = @ \cup {IF proc.front = "product" THEN "plain" ELSE "reason"}]
    /\ UNCHANGED <<meta, tree, source, txn, reasked, spent>>

\* begin_workspace_upgrade
Approved ==
    /\ proc.pc = "asking" /\ proc.front # "ask" /\ meta.state = "source_only"
    /\ Mark("preparing_workspace") /\ Go("preparing")
    /\ UNCHANGED <<tree, source, txn, turn, reasked, spent>>

\* cancel_workspace_upgrade
Cancelled(m) == [SourceMeta EXCEPT !.ahead = m.ahead]

\* What `git worktree add` can do: finish, fail and clean up, or be killed by
\* the timeout, which leaves Git's lock and a checkout its child may finish.
Added(t, head) ==
    {[NoTree EXCEPT !.there = TRUE, !.reg = TRUE, !.head = head],
     t,
     [NoTree EXCEPT !.there = TRUE, !.reg = TRUE, !.head = head, !.locked = TRUE, !.missing = TRUE]}

\* GitWorktreeManager.create (and recover, when the directory exists).  A
\* locked directory defeats the rollback and stays.
CreateWorktree ==
    /\ proc.pc = "preparing"
    /\ \E t \in (IF source.dirty \/ tree.there \/ tree.reg THEN {tree} ELSE Added(tree, source.head)) :
        /\ tree' = t
        /\ IF ~source.dirty /\ t.there /\ t.head = source.head /\ (t = tree \/ ~t.locked)
           THEN Go("created") /\ UNCHANGED meta
           ELSE proc' = Back(proc) /\ meta' = Cancelled(meta)
    /\ UNCHANGED <<source, txn, turn, reasked, spent>>

\* _build_active_bundle and activate_workspace; then the call itself.
Activate(tool) ==
    /\ proc.pc = "created"
    /\ meta' = [meta EXCEPT !.state = "changes_active", !.isolated = TRUE, !.base = tree.head]
    /\ proc' = [proc EXCEPT !.exec = TRUE, !.dynamic = FALSE, !.pc = tool]
    /\ UNCHANGED <<tree, source, txn, turn, reasked, spent>>

\* `git worktree remove --force`
Removed(t) == NoTree

\* The bundle or the activation fails: discard, then cancel_workspace_upgrade;
\* a directory that cannot be removed makes the Session unusable.
RollBack ==
    /\ proc.pc = "created"
    /\ \/ /\ ~tree.locked
          /\ tree' = Removed(tree) /\ meta' = Cancelled(meta)
       \/ tree' = tree /\ Mark("recovery_required")
    /\ proc' = Back(proc)
    /\ UNCHANGED <<source, txn, turn, reasked, spent>>

--------------------------------------------------------------------------------
(* Work in the worktree                                                    *)

\* apply_workspace_edit: first ensure_recovered, which may give up.
EditStarts ==
    /\ proc.pc = "edit"
    /\ \E fails \in BOOLEAN :
        LET r == Recovered(fails)
        IN  /\ fails => Unfinished
            /\ txn' = r.txn /\ tree' = r.tree
            /\ IF fails THEN Mark("recovery_required") ELSE UNCHANGED meta
            /\ proc' = IF r.txn.state = "broken" THEN Back(proc) ELSE [proc EXCEPT !.pc = "editing"]
    /\ UNCHANGED <<source, turn, reasked, spent>>

\* commit: the journal, the files, the revision, the end of the transaction.
EditPrepared ==
    /\ proc.pc = "editing" /\ txn.state = "none"
    /\ txn' = [state |-> "prepared", before |-> tree.edited]
    /\ UNCHANGED <<meta, tree, source, turn, proc, reasked, spent>>
EditWrites ==
    /\ proc.pc = "editing" /\ txn.state = "prepared"
    /\ txn' = [txn EXCEPT !.state = "committing"] /\ tree' = [tree EXCEPT !.edited = TRUE]
    /\ UNCHANGED <<meta, source, turn, proc, reasked, spent>>
EditCounted ==
    /\ proc.pc = "editing" /\ txn.state = "committing"
    /\ meta' = [meta EXCEPT !.ahead = TRUE] /\ Go("counted")
    /\ UNCHANGED <<tree, source, txn, turn, reasked, spent>>
EditCommitted ==
    /\ proc.pc = "counted" /\ txn.state = "committing"
    /\ txn' = [txn EXCEPT !.state = "committed"]
    /\ UNCHANGED <<meta, tree, source, turn, proc, reasked, spent>>
\* The event and the removal of the journal.
EditEnds ==
    /\ proc.pc = "counted" /\ txn.state = "committed"
    /\ txn' = NoTxn /\ proc' = Back(proc)
    /\ UNCHANGED <<meta, tree, source, turn, reasked, spent>>
\* The call is rejected, or the transaction fails: rolled back, or not.
EditFails ==
    /\ proc.pc = "editing"
    /\ \/ /\ tree' = Recovered(FALSE).tree /\ txn' = NoTxn /\ UNCHANGED meta
       \/ /\ txn.state # "none" /\ txn' = [txn EXCEPT !.state = "broken"]
          /\ Mark("recovery_required") /\ UNCHANGED tree
    /\ proc' = Back(proc)
    /\ UNCHANGED <<source, turn, reasked, spent>>

\* The payload changes files while it runs.
CommandWrites ==
    /\ proc.pc = "command" /\ ~tree.edited
    /\ tree' = [tree EXCEPT !.edited = TRUE]
    /\ UNCHANGED <<meta, source, txn, turn, proc, reasked, spent>>

\* CommandService.run_prepared after the payload: the audit counts a change;
\* without an audit the workspace is tainted, with processes left it is in doubt.
CommandEnds ==
    /\ proc.pc = "command"
    /\ \/ meta' = [meta EXCEPT !.ahead = @ \/ tree.edited]
       \/ Mark("workspace_tainted")
       \/ Mark("recovery_required")
    /\ proc' = Back(proc)
    /\ UNCHANGED <<tree, source, txn, turn, reasked, spent>>

--------------------------------------------------------------------------------
(* Settling the changes                                                    *)

\* begin_resolution, for accept-changes and discard-changes or their requests.
BeginSettle ==
    /\ proc = Closed
    /\ \/ /\ meta.state = "changes_active"
          /\ Mark("accepting")
          /\ proc' = [Closed EXCEPT !.front = "settle", !.pc = "accepting"]
       \/ /\ meta.state \in {"changes_active", "workspace_tainted"}
          /\ Mark("discarding")
          /\ proc' = [Closed EXCEPT !.front = "settle", !.pc = "discarding"]
    /\ UNCHANGED <<tree, source, txn, turn, reasked, spent>>

\* CurrentChangesService.accept: refused or failed before the source changed;
\* applied with its checkpoint; applied and then failed.
AcceptEnds ==
    /\ proc.pc = "accepting"
    /\ \/ /\ Mark(IF tree.there THEN "changes_active" ELSE "recovery_required")
          /\ UNCHANGED tree
       \/ /\ tree.there
          /\ tree' = [tree EXCEPT !.head = Checkpoint, !.missing = FALSE, !.edited = FALSE]
          /\ meta' = [meta EXCEPT !.state = "changes_active", !.base = Checkpoint, !.ahead = FALSE]
       \/ /\ tree.there
          /\ Mark("recovery_required")
          /\ tree' \in {tree, [tree EXCEPT !.head = Checkpoint, !.missing = FALSE, !.edited = FALSE]}
    /\ proc' = Closed
    /\ UNCHANGED <<source, txn, turn, reasked, spent>>

\* CurrentChangesService.discard: reset, clean and the proof, or doubt.
DiscardEnds ==
    /\ proc.pc = "discarding"
    /\ LET reset == [tree EXCEPT !.head = meta.base, !.missing = FALSE, !.edited = FALSE]
       IN  \/ /\ tree.there
              /\ tree' = reset
              /\ meta' = [meta EXCEPT !.state = "changes_active", !.ahead = FALSE]
           \/ /\ Mark("recovery_required")
              /\ tree' \in IF tree.there THEN {tree, reset} ELSE {tree}
    /\ proc' = Closed
    /\ UNCHANGED <<source, txn, turn, reasked, spent>>

--------------------------------------------------------------------------------
(* The environment                                                         *)

\* The process dies; in `git worktree add` it leaves what a killed one leaves.
Crash ==
    /\ proc # Closed /\ spent.crashes < MaxCrashes
    /\ spent' = [spent EXCEPT !.crashes = @ + 1]
    /\ proc' = Closed
    /\ tree' \in IF proc.pc = "preparing" /\ ~source.dirty /\ ~tree.there /\ ~tree.reg
                 THEN Added(tree, source.head) ELSE {tree}
    /\ UNCHANGED <<meta, source, txn, turn, reasked>>

\* The child of a killed `git worktree add` finishes the checkout.
CheckoutCompletes ==
    /\ tree.there /\ tree.locked /\ tree.missing
    /\ tree' = [tree EXCEPT !.missing = FALSE]
    /\ UNCHANGED <<meta, source, txn, turn, proc, reasked, spent>>

\* The user commits, changes or cleans the source, edits or deletes the worktree.
User ==
    /\ spent.user < MaxUserSteps
    /\ spent' = [spent EXCEPT !.user = @ + 1]
    /\ \/ /\ source.head < MaxHead
          /\ source' = [source EXCEPT !.head = @ + 1]
          /\ UNCHANGED tree
       \/ source' = [source EXCEPT !.dirty = ~@] /\ UNCHANGED tree
       \/ /\ tree.there /\ proc = Closed
          /\ tree' \in {[tree EXCEPT !.edited = TRUE],
                        [NoTree EXCEPT !.reg = TRUE, !.locked = tree.locked]}
          /\ UNCHANGED source
    /\ UNCHANGED <<meta, txn, turn, proc, reasked>>

\* A Session made by `start`, by `ask` or by the product.
LifecycleInit ==
    /\ meta = SourceMeta /\ tree = NoTree /\ source = [head |-> 0, dirty |-> FALSE]
    /\ txn = NoTxn /\ reasked = {}
    /\ \E front \in {"cli", "ask", "product"} :
        /\ proc = CASE front = "cli" -> Runner("cli", SourceMeta, TRUE, "idle")
                    [] front = "ask" -> Runner("ask", SourceMeta, TRUE, "slice")
                    [] front = "product" -> Closed
        /\ turn = [NewTurn EXCEPT !.open = (front = "ask")]
    /\ spent = [crashes |-> 0, user |-> 0, turns |-> 0]

LifecycleNext ==
    \/ Resume \/ ProductStart \/ ProductStopIdle
    \/ Message \/ Stop \/ Budget \/ Continue \/ Exit
    \/ FinalAnswer \/ SliceExhausted \/ BudgetExhausted
    \/ \E tool \in {"edit", "command"} : Protected(tool) \/ Activate(tool)
    \/ Refused \/ Approved \/ CreateWorktree \/ RollBack
    \/ EditStarts \/ EditPrepared \/ EditWrites \/ EditCounted \/ EditCommitted
    \/ EditEnds \/ EditFails
    \/ CommandWrites \/ CommandEnds
    \/ BeginSettle \/ AcceptEnds \/ DiscardEnds
    \/ Crash \/ CheckoutCompletes \/ User

LifecycleSpec == LifecycleInit /\ [][LifecycleNext]_vars

--------------------------------------------------------------------------------
(* Properties                                                              *)

\* A user who refused the worktree in the terminal is not asked again by the
\* model in the same turn, over slices, crashes and resumed processes, once
\* the refusal is in the log (runner.py _run_slice rebuilds it).
TerminalRefusalHolds == "reason" \notin reasked

\* ARCHITECTURE.md: a refusal does not make the same upgrade request pop up
\* again.  Violated: the product's decision event has neither the kind nor the
\* reason _run_slice looks for, so the next slice asks again.
RefusalHolds == reasked = {}

\* resume opens a worktree for work only when what differs from the accepted
\* baseline is accounted for by a candidate revision: not what a crash left
\* uncounted, not the user's edits, not half a checkout.
WorkResumesOnCountedChanges ==
    [][proc = Closed /\ proc'.front = "cli" /\ proc'.exec /\ Dirty(tree')
        => meta'.ahead /\ tree'.head = meta'.base]_vars

\* Nothing the Runtime does itself takes a Session out of recovery_required.
RecoveryIsFinal == [][meta.state = "recovery_required" => meta'.state = "recovery_required"]_vars

\* A Session without a worktree left none behind: a failed upgrade removes
\* what it made, except what a killed `git worktree add` holds locked.
NoWorktreeIsForgotten ==
    meta.state = "source_only" /\ tree.there => tree.locked

\* In the terminal nobody works on half an edit: resume rolled it back or
\* closed the Session, and an edit that failed was rolled back.
PromptHasNoHalfEdit == AtPrompt /\ proc.exec => ~Unfinished

\* At the prompt no transition is under way: an upgrade or a settlement cut
\* off by a crash was recognised by resume, one that failed was undone.
PromptHasNoTransition == AtPrompt => meta.state \notin Transitional

\* A finished upgrade, in whatever process and after whatever attempts, leaves
\* the protected tools working on the recorded worktree: a process that may
\* execute never has a Session whose metadata still points at the source.
ExecutorsHaveAWorktree ==
    proc.exec => meta.isolated /\ meta.state \notin {"source_only", "preparing_workspace"}

\* Whoever works on a Session finds it settled, whatever process left it before:
\* no half edit, no transition under way, a worktree for those who may execute,
\* and none that the Session does not know of.
SessionIsSettled ==
    /\ LifecycleTypeOK
    /\ PromptHasNoHalfEdit
    /\ PromptHasNoTransition
    /\ ExecutorsHaveAWorktree
    /\ NoWorktreeIsForgotten

\* Opening a Session once more undoes no decision: not the user's refusal in the
\* terminal, not the verdict recovery_required, and changes that no revision
\* counts do not become work in progress.
DecisionsHold ==
    /\ []TerminalRefusalHolds
    /\ WorkResumesOnCountedChanges
    /\ RecoveryIsFinal
================================================================================
