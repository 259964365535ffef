----------------------------- MODULE AtomicEdit -----------------------------
(***************************************************************************)
(* AtomicEditService (codeagent/runtime/atomic_edit.py): a multi-file text *)
(* edit of the Candidate worktree, made recoverable by a transaction       *)
(* directory.  Every change on disk is one step: the transaction files,    *)
(* each file of the worktree, each entry that shutil.rmtree deletes (in    *)
(* whatever order the directory yields them).  The process may crash, and  *)
(* a write may fail, between any two; another process may write to the     *)
(* worktree.                                                               *)
(***************************************************************************)
EXTENDS Integers, FiniteSets

CONSTANTS
    Paths,         \* numbers: the sort order of the paths
    Contents,      \* file contents, Absent included
    Absent,
    NoTx, NoPlan,
    MaxEdits,      \* bound: transactions begun
    MaxCrashes,    \* bound: crashes of the process
    MaxErrors,     \* bound: failing file operations
    MaxForeign     \* bound: writes by another process

\* An EditPlan: what its paths hold before and after the edit.
Plans == UNION {[before: [S -> Contents], after: [S -> Contents]]:
                   S \in (SUBSET Paths) \ {{}}}

\* The transaction directory: the state in transaction.json, and which of its
\* files are there.
Entries == {"transaction.json", "plan.json", "backup", "receipt.json"}

Transactions ==
    [id: 1..MaxEdits, plan: Plans, entries: SUBSET Entries,
     state: {"none", "prepared", "committing", "committed", "recovery_required"}]

ASSUME EditAssumption ==
    /\ Paths \subseteq Nat /\ IsFiniteSet(Paths)
    /\ Absent \in Contents
    /\ {MaxEdits, MaxCrashes, MaxErrors, MaxForeign} \subseteq Nat
    /\ NoTx \notin Transactions /\ NoPlan \notin Plans

VARIABLES
    files,      \* the worktree
    tx,         \* the transaction directory, or NoTx
    plan,       \* the EditPlan in memory, or NoPlan
    pc,         \* what the service does next
    todo,       \* paths still to be written or restored
    ws,         \* workspace_state in session.json
    revision,   \* candidate_revision in session.json
    logged,     \* transactions with an edit_transaction event, with repetitions
    edits,      \* transactions so far
    based,      \* the revision the last committed transaction took (history)
    crashes, errors, writes

disk == <<files, tx, ws, revision, logged, based>>
bounds == <<crashes, errors, writes>>
vars == <<disk, plan, pc, todo, edits, bounds>>

-----------------------------------------------------------------------------
(* The transaction directory *)

\* _state: None when transaction.json is not there.
State == IF tx = NoTx THEN "none"
         ELSE IF "transaction.json" \in tx.entries THEN tx.state ELSE "none"

\* Is p the last, the first of these paths in sort order?
Last(p, S) == p \in S /\ \A q \in S: q <= p
First(p, S) == p \in S /\ \A q \in S: p <= q

Init ==
    /\ files \in [Paths -> Contents]
    /\ tx = NoTx /\ plan = NoPlan
    /\ pc = "idle" /\ todo = {}
    /\ ws = "changes_active"
    /\ revision = 0
    /\ logged = [n \in 1..MaxEdits |-> 0]
    /\ edits = 0 /\ based = 0
    /\ crashes = 0 /\ errors = 0 /\ writes = 0

Return == pc' = "idle" /\ plan' = NoPlan /\ todo' = {}

\* The rollback cannot be confirmed: first the transaction says so ...
GiveUp ==
    /\ tx' = [tx EXCEPT !.state = "recovery_required",
                        !.entries = @ \cup {"transaction.json"}]
    /\ pc' = "give_up" /\ plan' = NoPlan /\ todo' = {}

\* ... then session.json, and the call fails.
MarkRecoveryRequired ==
    /\ pc = "give_up"
    /\ ws' = "recovery_required"
    /\ Return
    /\ UNCHANGED <<files, tx, revision, logged, based, edits, bounds>>

-----------------------------------------------------------------------------
(* ensure_recovered *)

\* apply_workspace_edit: refused in recovery_required, else recovery first.
apply_workspace_edit ==
    /\ pc = "idle"
    /\ ws # "recovery_required"
    /\ pc' = "recover"
    /\ UNCHANGED <<disk, plan, todo, edits, bounds>>

\* Mutant: an interrupted commit is passed over.
RecoverNothingOfCommitting ==
    /\ pc = "recover" /\ State \in {"none", "committing"}
    /\ tx' = NoTx
    /\ pc' = "prepare"
    /\ UNCHANGED <<files, ws, revision, logged, based, plan, todo, edits, bounds>>

\* Nothing to recover; a directory without a state is passed over for good.
RecoverNothing ==
    /\ pc = "recover" /\ State = "none"
    /\ tx' = NoTx
    /\ pc' = "prepare"
    /\ UNCHANGED <<files, ws, revision, logged, based, plan, todo, edits, bounds>>

\* Mutant: recovery is tried again for ever.
RecoverRetried ==
    /\ pc = "recover"
    /\ \/ State = "recovery_required"
       \/ State = "committed" /\ "receipt.json" \notin tx.entries
    /\ UNCHANGED vars

\* A transaction in recovery_required, or a committed one without its receipt,
\* makes every edit fail.
RecoverRefused ==
    /\ pc = "recover"
    /\ \/ State = "recovery_required"
       \/ State = "committed" /\ "receipt.json" \notin tx.entries
    /\ Return
    /\ UNCHANGED <<disk, edits, bounds>>

\* Mutant: the event is not repaired.
RecoverCommittedSilently ==
    /\ pc = "recover" /\ State = "committed" /\ "receipt.json" \in tx.entries
    /\ pc' = "remove_recovered"
    /\ UNCHANGED <<disk, plan, todo, edits, bounds>>

\* _repair_event, then the directory goes.
RecoverCommitted ==
    /\ pc = "recover" /\ State = "committed" /\ "receipt.json" \in tx.entries
    /\ logged' = IF logged[tx.id] > 0 THEN logged ELSE [logged EXCEPT ![tx.id] = 1]
    /\ pc' = "remove_recovered"
    /\ UNCHANGED <<files, tx, ws, revision, based, plan, todo, edits, bounds>>

\* _load_plan: plan.json, and from backup the content of paths that existed.
Loadable ==
    /\ "plan.json" \in tx.entries
    /\ \/ "backup" \in tx.entries
       \/ \A p \in DOMAIN tx.plan.before: tx.plan.before[p] = Absent

RecoverInterrupted ==
    /\ pc = "recover" /\ State \in {"prepared", "committing"}
    /\ IF Loadable
       THEN /\ plan' = tx.plan
            /\ todo' = DOMAIN tx.plan.before
            /\ pc' = "restore_recovered"
            /\ UNCHANGED tx
       ELSE GiveUp
    /\ UNCHANGED <<files, ws, revision, logged, based, edits, bounds>>

-----------------------------------------------------------------------------
(* prepare and commit *)

\* The plan of a set of operations: the paths whose content changes.
prepare ==
    /\ pc = "prepare" /\ edits < MaxEdits
    /\ \E S \in (SUBSET Paths) \ {{}}: \E after \in [S -> Contents]:
          /\ \A p \in S: after[p] # files[p]
          /\ plan' = [before |-> [p \in S |-> files[p]], after |-> after]
    /\ edits' = edits + 1
    /\ pc' = "begin"
    /\ UNCHANGED <<disk, todo, bounds>>

\* The operations are rejected (arguments, hashes, conflicts, limits).
PrepareRejected ==
    /\ pc = "prepare"
    /\ Return
    /\ UNCHANGED <<disk, edits, bounds>>

\* tx_dir with plan.json and backup, then transaction.json.
MakeDirectory ==
    /\ pc = "begin"
    /\ tx' = [id |-> edits, state |-> "none", plan |-> plan,
              entries |-> {"plan.json", "backup"}]
    /\ pc' = "mark_prepared"
    /\ UNCHANGED <<files, ws, revision, logged, based, plan, todo, edits, bounds>>

MarkPrepared ==
    /\ pc = "mark_prepared"
    /\ tx' = [tx EXCEPT !.state = "prepared", !.entries = @ \cup {"transaction.json"}]
    /\ pc' = "revalidate"
    /\ UNCHANGED <<files, ws, revision, logged, based, plan, todo, edits, bounds>>

Unchanged == \A p \in DOMAIN plan.before: files[p] = plan.before[p]

\* _revalidate: a path that changed since prepare is an edit_conflict, which
\* the except clause handles like any failure: by restoring plan.before.
Revalidate ==
    /\ pc = "revalidate"
    /\ IF Unchanged THEN pc' = "mark_committing" /\ todo' = todo
       ELSE pc' = "restore" /\ todo' = DOMAIN plan.before
    /\ UNCHANGED <<disk, plan, edits, bounds>>

MarkCommitting ==
    /\ pc = "mark_committing"
    /\ tx' = [tx EXCEPT !.state = "committing"]
    /\ todo' = DOMAIN plan.after
    /\ pc' = "write"
    /\ UNCHANGED <<files, ws, revision, logged, based, plan, edits, bounds>>

\* One file of plan.after, in sort order.
WriteFile ==
    /\ pc = "write"
    /\ \E p \in todo:
          /\ First(p, todo)
          /\ files' = [files EXCEPT ![p] = plan.after[p]]
          /\ todo' = todo \ {p}
    /\ UNCHANGED <<tx, ws, revision, logged, based, plan, pc, edits, bounds>>

\* _verify_after
Verify ==
    /\ pc = "write" /\ todo = {}
    /\ IF \A p \in DOMAIN plan.after: files[p] = plan.after[p]
       THEN pc' = "revision" /\ todo' = todo
       ELSE pc' = "restore" /\ todo' = DOMAIN plan.before
    /\ UNCHANGED <<disk, plan, edits, bounds>>

NextRevision ==
    /\ pc = "revision"
    /\ revision' = revision + 1
    /\ pc' = "receipt"
    /\ UNCHANGED <<files, tx, ws, logged, based, plan, todo, edits, bounds>>

WriteReceipt ==
    /\ pc = "receipt"
    /\ tx' = [tx EXCEPT !.entries = @ \cup {"receipt.json"}]
    /\ pc' = "mark_committed"
    /\ UNCHANGED <<files, ws, revision, logged, based, plan, todo, edits, bounds>>

\* The commit point.
MarkCommitted ==
    /\ pc = "mark_committed"
    /\ tx' = [tx EXCEPT !.state = "committed"]
    /\ based' = revision
    /\ pc' = "event"
    /\ UNCHANGED <<files, ws, revision, logged, plan, todo, edits, bounds>>

AppendEvent ==
    /\ pc = "event"
    /\ logged' = [logged EXCEPT ![tx.id] = @ + 1]
    /\ pc' = "remove_committed"
    /\ UNCHANGED <<files, tx, ws, revision, based, plan, todo, edits, bounds>>

-----------------------------------------------------------------------------
(* _restore and rmtree, after a failure and in recovery *)

RestoreFile ==
    /\ pc \in {"restore", "restore_recovered"}
    /\ \E p \in todo:
          /\ Last(p, todo)
          /\ files' = [files EXCEPT ![p] = plan.before[p]]
          /\ todo' = todo \ {p}
    /\ UNCHANGED <<tx, ws, revision, logged, based, plan, pc, edits, bounds>>

\* The final check of _restore.
Restored ==
    /\ pc \in {"restore", "restore_recovered"} /\ todo = {}
    /\ IF Unchanged
       THEN /\ pc' = IF pc = "restore" THEN "remove" ELSE "remove_recovered"
            /\ UNCHANGED <<tx, plan, todo>>
       ELSE GiveUp
    /\ UNCHANGED <<files, ws, revision, logged, based, edits, bounds>>

Removing == pc \in {"remove", "remove_recovered", "remove_committed"}

rmtree ==
    /\ Removing /\ tx.entries # {}
    /\ \E e \in tx.entries: tx' = [tx EXCEPT !.entries = @ \ {e}]
    /\ UNCHANGED <<files, ws, revision, logged, based, plan, pc, todo, edits, bounds>>

Removed ==
    /\ Removing /\ tx.entries = {}
    /\ tx' = NoTx
    /\ IF pc = "remove_recovered"
       THEN pc' = "prepare" /\ plan' = NoPlan /\ UNCHANGED todo
       ELSE Return
    /\ UNCHANGED <<files, ws, revision, logged, based, edits, bounds>>

-----------------------------------------------------------------------------
(* Faults *)

\* A failing file operation: rolled back before the commit point, fatal in the
\* rollback itself, and left for recovery after it.
OperationFails ==
    /\ errors < MaxErrors
    /\ errors' = errors + 1
    /\ \/ /\ pc \in {"begin", "mark_prepared"}
          /\ Return /\ UNCHANGED tx
       \/ /\ pc \in {"revalidate", "mark_committing", "write"}
          /\ pc' = "restore" /\ todo' = DOMAIN plan.before
          /\ UNCHANGED <<tx, plan>>
       \/ /\ \/ pc \in {"restore", "restore_recovered", "remove"}
             \/ pc = "remove_recovered" /\ tx.state # "committed"
          /\ GiveUp
       \/ /\ \/ pc \in {"revision", "receipt", "mark_committed", "event", "remove_committed"}
             \/ pc = "remove_recovered" /\ tx.state = "committed"
          /\ Return /\ UNCHANGED tx
    /\ UNCHANGED <<files, ws, revision, logged, based, edits, crashes, writes>>

Crash ==
    /\ crashes < MaxCrashes /\ pc # "idle"
    /\ crashes' = crashes + 1
    /\ Return
    /\ UNCHANGED <<disk, edits, errors, writes>>

\* An editor or a background process writes a file of the worktree.
ForeignWrite ==
    /\ writes < MaxForeign
    /\ writes' = writes + 1
    /\ \E p \in Paths: \E c \in Contents \ {files[p]}:
          files' = [files EXCEPT ![p] = c]
    /\ UNCHANGED <<tx, ws, revision, logged, based, plan, pc, todo, edits, crashes, errors>>

Service ==
    \/ RecoverNothing \/ RecoverRefused \/ RecoverCommitted \/ RecoverInterrupted
    \/ prepare \/ PrepareRejected \/ MakeDirectory \/ MarkPrepared \/ Revalidate
    \/ MarkCommitting \/ WriteFile \/ Verify \/ NextRevision \/ WriteReceipt
    \/ MarkCommitted \/ MarkRecoveryRequired \/ AppendEvent \/ RestoreFile \/ Restored \/ rmtree \/ Removed

Next == apply_workspace_edit \/ Service \/ OperationFails \/ Crash \/ ForeignWrite

Spec == Init /\ [][Next]_vars /\ WF_vars(Service)
-----------------------------------------------------------------------------
(* Properties *)

Labels == {"idle", "recover", "prepare", "begin", "mark_prepared", "revalidate",
           "mark_committing", "write", "revision", "receipt", "mark_committed",
           "event", "give_up", "restore", "restore_recovered", "remove", "remove_recovered",
           "remove_committed"}

\* Every variable has its type, and work is left only over the plan's paths.
TypeOK ==
    /\ files \in [Paths -> Contents]
    /\ tx \in Transactions \cup {NoTx}
    /\ plan \in Plans \cup {NoPlan}
    /\ pc \in Labels
    /\ todo \subseteq Paths
    /\ todo # {} => plan # NoPlan /\ todo \subseteq DOMAIN plan.before
    /\ ws \in {"changes_active", "recovery_required"}
    /\ revision \in Nat /\ based \in 0..revision
    /\ logged \in [1..MaxEdits -> Nat]
    /\ edits \in 0..MaxEdits

\* A transaction whose fate is open: recovery would undo it.
InDoubt == State \in {"prepared", "committing", "recovery_required"}

\* The files as recovery would leave them.
content ==
    [p \in Paths |-> IF InDoubt /\ p \in DOMAIN tx.plan.before
                     THEN tx.plan.before[p] ELSE files[p]]

Atomic == INSTANCE AtomicStore
    WITH content <- content, revision <- revision, based <- based, alone <- (writes = 0)

\* Across crashes and failing writes at every point, recovery included, the
\* files change by whole transactions, each under a fresh candidate revision,
\* as long as no other process writes to the worktree.
ImplementsAtomicStore == Atomic!Spec

\* One edit_transaction event per transaction at most, and none for one that
\* recovery would still undo.
EventOnlyForCommitted ==
    /\ \A n \in DOMAIN logged: logged[n] <= 1
    /\ InDoubt => logged[tx.id] = 0

\* A committed transaction is forgotten only after its event was written,
\* by commit itself or by _repair_event after a crash.
CommitIsLogged ==
    [][(tx # NoTx /\ tx' = NoTx /\ tx.state = "committed") => logged[tx.id] = 1]_vars

\* No call hangs, whatever fails.
EditReturns == (pc # "idle") ~> (pc = "idle")

\* The log and the files agree about edits, across crashes and repairs: every
\* committed transaction has one edit_transaction event before it is forgotten,
\* and no other transaction has one (commit, _repair_event).
EventsFollowCommits == [](TypeOK /\ EventOnlyForCommitted) /\ CommitIsLogged
=============================================================================
