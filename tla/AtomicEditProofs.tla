-------------------------- MODULE AtomicEditProofs --------------------------
(***************************************************************************)
(* Proofs about AtomicEdit for every set of paths and contents and every   *)
(* number of edits, crashes, failing operations and foreign writes.  The   *)
(* invariant says for each point of the service what the transaction       *)
(* directory, the files and the log hold there.                            *)
(***************************************************************************)
EXTENDS AtomicEdit, TLAPS

\* The points where the EditPlan is in use, and where transaction.json exists.
Planned == {"begin", "mark_prepared", "revalidate", "mark_committing", "write", "revision",
            "receipt", "mark_committed", "restore", "restore_recovered"}
Marked == {"revalidate", "mark_committing", "write", "revision", "receipt", "mark_committed",
           "event", "restore", "restore_recovered", "give_up"}

\* The directory and the plan, by what the service does next.
DirectoryFits ==
    /\ pc \in {"prepare", "begin"} => tx = NoTx
    /\ pc \notin {"idle", "recover", "prepare", "begin"} => tx # NoTx
    /\ pc \in Planned => plan \in Plans
    /\ pc \in Planned \ {"begin"} => tx.plan = plan
    /\ pc \notin {"write", "restore", "restore_recovered"} => todo = {}
    /\ pc = "mark_prepared" => tx.state = "none"
    /\ pc \in {"revalidate", "mark_committing"} => tx.state = "prepared"
    /\ pc \in {"write", "revision", "receipt", "mark_committed"} => tx.state = "committing"
    /\ pc \in {"event", "remove_committed"} => tx.state = "committed"
    /\ pc \in {"restore", "restore_recovered", "remove"} =>
          tx.state \in {"prepared", "committing"}
    /\ pc = "remove_recovered" => tx.state \in {"prepared", "committing", "committed"}
    /\ pc = "give_up" => tx.state = "recovery_required"
    /\ pc \in Marked => "transaction.json" \in tx.entries

\* A plan changes every path it names.
PlanChanges(pl) == \A p \in DOMAIN pl.before: pl.after[p] # pl.before[p]

PlansChange ==
    /\ pc \in Planned => PlanChanges(plan)
    /\ tx # NoTx => PlanChanges(tx.plan)

\* As long as nobody else writes: what the files hold at the points where the
\* transaction begins to count, is verified, and ceases to count.
FilesFit ==
    writes = 0 =>
       /\ pc \in {"begin", "mark_prepared"} =>
             \A p \in DOMAIN plan.before: files[p] = plan.before[p]
       /\ pc \in {"revision", "receipt", "mark_committed"} =>
             \A p \in DOMAIN plan.before: files[p] = plan.after[p]
       /\ (pc \in {"remove", "remove_recovered"} /\ tx.state # "committed") =>
             \A p \in DOMAIN tx.plan.before: files[p] = tx.plan.before[p]

\* The number of a transaction about to commit is fresh.
RevisionIsFresh == pc \in {"receipt", "mark_committed"} => based < revision

\* The log has no event of a transaction that is not committed, and has it
\* before a committed one loses its transaction.json.
LogFits ==
    /\ \A n \in 1..MaxEdits: logged[n] <= 1 /\ (n > edits => logged[n] = 0)
    /\ pc = "begin" => edits > 0 /\ logged[edits] = 0
    /\ tx # NoTx => tx.id <= edits
    /\ (tx # NoTx /\ tx.state # "committed") => logged[tx.id] = 0
    /\ pc = "event" => logged[tx.id] = 0
    /\ pc = "remove_committed" => logged[tx.id] = 1
    /\ (pc = "remove_recovered" /\ tx.state = "committed") => logged[tx.id] = 1
    /\ (tx # NoTx /\ tx.state = "committed" /\ "transaction.json" \notin tx.entries) =>
          logged[tx.id] = 1

Inv == /\ TypeOK /\ writes \in Nat
       /\ DirectoryFits /\ PlansChange /\ FilesFit /\ RevisionIsFresh /\ LogFits
-----------------------------------------------------------------------------
(* Plans, directories and what a reader of whole transactions sees *)

\* Both sides of a plan are about the same paths.
LEMMA PlanTypes ==
    ASSUME NEW x \in Plans
    PROVE  /\ DOMAIN x.after = DOMAIN x.before
           /\ DOMAIN x.before \in (SUBSET Paths) \ {{}}
           /\ x.before \in [DOMAIN x.before -> Contents]
           /\ x.after \in [DOMAIN x.before -> Contents]
<1>1. PICK S \in (SUBSET Paths) \ {{}}: x \in [before: [S -> Contents], after: [S -> Contents]]
  BY DEF Plans
<1>2. x.before \in [S -> Contents] /\ x.after \in [S -> Contents]
  BY <1>1
<1>3. DOMAIN x.before = S /\ DOMAIN x.after = S
  BY <1>2
<1> QED
  BY <1>1, <1>2, <1>3

\* What a transaction directory holds.
LEMMA TxTypes ==
    ASSUME NEW t \in Transactions
    PROVE  /\ t.plan \in Plans /\ t.entries \subseteq Entries /\ t.id \in 1..MaxEdits
           /\ t.state \in {"none", "prepared", "committing", "committed", "recovery_required"}
           /\ t # NoTx
  BY EditAssumption DEF Transactions

TxStates == {"none", "prepared", "committing", "committed", "recovery_required"}

\* Writing a file of the directory, or deleting one, leaves a directory.
LEMMA TxEntries ==
    ASSUME NEW t \in Transactions, NEW E \in SUBSET Entries, NEW u, u = [t EXCEPT !.entries = E]
    PROVE  /\ u \in Transactions /\ u # NoTx
           /\ u.entries = E /\ u.state = t.state /\ u.plan = t.plan /\ u.id = t.id
<1>1. Transactions = [id: 1..MaxEdits, plan: Plans, entries: SUBSET Entries, state: TxStates]
  BY DEF Transactions, TxStates
<1> QED
  BY <1>1, EditAssumption

\* Writing transaction.json leaves a directory.
LEMMA TxState ==
    ASSUME NEW t \in Transactions, NEW s \in TxStates, NEW u, u = [t EXCEPT !.state = s]
    PROVE  /\ u \in Transactions /\ u # NoTx
           /\ u.entries = t.entries /\ u.state = s /\ u.plan = t.plan /\ u.id = t.id
<1>1. Transactions = [id: 1..MaxEdits, plan: Plans, entries: SUBSET Entries, state: TxStates]
  BY DEF Transactions, TxStates
<1> QED
  BY <1>1, EditAssumption

\* Both at once.
LEMMA TxRewritten ==
    ASSUME tx \in Transactions, NEW E \in SUBSET Entries, NEW s \in TxStates,
           tx' = [tx EXCEPT !.state = s, !.entries = E]
    PROVE  /\ tx' \in Transactions /\ tx' # NoTx
           /\ tx'.entries = E /\ tx'.state = s /\ tx'.plan = tx.plan /\ tx'.id = tx.id
<1>1. Transactions = [id: 1..MaxEdits, plan: Plans, entries: SUBSET Entries, state: TxStates]
  BY DEF Transactions, TxStates
<1>2. PICK v: v = [tx EXCEPT !.state = s]
  OBVIOUS
<1>3. v \in Transactions /\ v.state = s /\ v.plan = tx.plan /\ v.id = tx.id
  BY <1>2, TxState
<1>4. tx' = [v EXCEPT !.entries = E]
  BY <1>2 DEF Transactions
<1>5. /\ tx' \in Transactions /\ tx' # NoTx /\ tx'.entries = E /\ tx'.state = v.state
      /\ tx'.plan = v.plan /\ tx'.id = v.id
  BY <1>1, <1>3, <1>4, EditAssumption
<1> QED
  BY <1>3, <1>5

\* What a reader of whole transactions sees is a content for every path.
LEMMA ContentTyped ==
    ASSUME TypeOK
    PROVE  content \in [Paths -> Contents]
<1>1. files \in [Paths -> Contents]
  BY DEF TypeOK
<1>2. ASSUME InDoubt
      PROVE  \A p \in Paths: p \in DOMAIN tx.plan.before => tx.plan.before[p] \in Contents
  <2>1. tx \in Transactions
    BY <1>2 DEF InDoubt, State, TypeOK
  <2>2. tx.plan \in Plans
    BY <2>1, TxTypes
  <2> QED
    BY <2>2, PlanTypes
<1> QED
  BY <1>1, <1>2 DEF content

\* The same of the state after a step.
LEMMA ContentTypedNext ==
    ASSUME TypeOK'
    PROVE  content' \in [Paths -> Contents]
<1>1. files' \in [Paths -> Contents]
  BY DEF TypeOK
<1>2. ASSUME InDoubt'
      PROVE  \A p \in Paths: p \in DOMAIN tx'.plan.before => tx'.plan.before[p] \in Contents
  <2>1. tx' \in Transactions
    BY <1>2 DEF InDoubt, State, TypeOK
  <2>2. tx'.plan \in Plans
    BY <2>1, TxTypes
  <2> QED
    BY <2>2, PlanTypes
<1> QED
  BY <1>1, <1>2 DEF content

\* The content does not change when neither the files do nor what recovery
\* would undo.
LEMMA SameContent ==
    ASSUME files' = files, InDoubt' <=> InDoubt, InDoubt => tx'.plan = tx.plan
    PROVE  content' = content
<1>1. CASE InDoubt
  BY <1>1 DEF content
<1>2. CASE ~InDoubt
  BY <1>2 DEF content
<1> QED
  BY <1>1, <1>2

\* A step of the abstract store, or none.
AtomicStep == [Atomic!Next]_<<content, revision, based, (writes = 0)>>

\* A step that the abstract store does not see.
LEMMA NoAtomicStep ==
    ASSUME content' = content, revision' = revision, based' = based, writes' = writes
    PROVE  AtomicStep
  BY DEF AtomicStep

\* Once somebody else has written, nothing is promised.
LEMMA ForeignStep ==
    ASSUME TypeOK', writes' \in Nat, writes' # 0
    PROVE  AtomicStep
<1>1. content' \in [Paths -> Contents]
  BY ContentTypedNext
<1>2. (writes' = 0) = FALSE
  OBVIOUS
<1>3. revision' \in Nat /\ based' \in Nat
  BY DEF TypeOK
<1> QED
  BY <1>1, <1>2, <1>3 DEF AtomicStep, Atomic!Next, Atomic!Foreign

-----------------------------------------------------------------------------
(* Steps that leave the disk alone *)

\* The types in the form that the steps below need.
LEMMA Facts ==
    ASSUME Inv
    PROVE  /\ tx # NoTx => tx \in Transactions
           /\ edits \in Nat /\ MaxEdits \in Nat /\ revision \in Nat /\ based \in Nat
           /\ based <= revision
           /\ \A n \in 1..MaxEdits: logged[n] \in Nat
  BY EditAssumption DEF Inv, TypeOK

\* The abstract store does not see what happens in memory.
LEMMA MemoryIsUnseen ==
    ASSUME UNCHANGED <<files, tx, revision, based, writes>>
    PROVE  AtomicStep
<1>1. content' = content
  BY DEF content, InDoubt, State
<1> QED
  BY <1>1, NoAtomicStep

\* The call returns, or the process dies, with the disk as it is.
LEMMA ReturnKeepsInv ==
    ASSUME Inv, Return, UNCHANGED <<files, tx, revision, based, logged, edits, writes>>,
           ws' \in {"changes_active", "recovery_required"}
    PROVE  Inv' /\ AtomicStep
<1>1. pc' = "idle" /\ plan' = NoPlan /\ todo' = {}
  BY DEF Return
<1>2. TypeOK' /\ writes' \in Nat
  BY <1>1 DEF Inv, TypeOK, Labels
<1>3. DirectoryFits' /\ RevisionIsFresh' /\ FilesFit'
  BY <1>1 DEF DirectoryFits, RevisionIsFresh, FilesFit, Planned, Marked
<1>4. PlansChange'
  BY <1>1 DEF Inv, PlansChange, Planned, PlanChanges
<1>5. LogFits'
  BY <1>1 DEF Inv, LogFits
<1> QED
  BY <1>2, <1>3, <1>4, <1>5, MemoryIsUnseen DEF Inv

\* apply_workspace_edit is called.
LEMMA CallKeepsInv ==
    ASSUME Inv, apply_workspace_edit
    PROVE  Inv' /\ AtomicStep
<1>1. /\ pc = "idle" /\ pc' = "recover"
      /\ UNCHANGED <<files, tx, ws, revision, logged, based, plan, todo, edits, writes>>
  BY DEF apply_workspace_edit, disk, bounds
<1>2. TypeOK' /\ writes' \in Nat
  BY <1>1 DEF Inv, TypeOK, Labels
<1>3. DirectoryFits' /\ RevisionIsFresh' /\ FilesFit'
  BY <1>1 DEF Inv, DirectoryFits, RevisionIsFresh, FilesFit, Planned, Marked
<1>4. PlansChange'
  BY <1>1 DEF Inv, PlansChange, Planned, PlanChanges
<1>5. LogFits'
  BY <1>1 DEF Inv, LogFits
<1> QED
  BY <1>1, <1>2, <1>3, <1>4, <1>5, MemoryIsUnseen DEF Inv

\* prepare reads the files and plans to change every one it names.
LEMMA PrepareKeepsInv ==
    ASSUME Inv, prepare
    PROVE  Inv' /\ AtomicStep
<1>1. /\ pc = "prepare" /\ pc' = "begin" /\ edits < MaxEdits /\ edits' = edits + 1
      /\ UNCHANGED <<files, tx, ws, revision, logged, based, todo, writes>>
  BY DEF prepare, disk, bounds
<1>2. PICK S \in (SUBSET Paths) \ {{}}: \E after \in [S -> Contents]:
         /\ \A p \in S: after[p] # files[p]
         /\ plan' = [before |-> [p \in S |-> files[p]], after |-> after]
  BY DEF prepare
<1>3. PICK after \in [S -> Contents]:
         /\ \A p \in S: after[p] # files[p]
         /\ plan' = [before |-> [p \in S |-> files[p]], after |-> after]
  BY <1>2
<1>4. /\ plan'.before = [p \in S |-> files[p]] /\ plan'.after = after
      /\ DOMAIN plan'.before = S
  BY <1>3
<1>5. [p \in S |-> files[p]] \in [S -> Contents]
  BY DEF Inv, TypeOK
<1>6. plan' \in [before: [S -> Contents], after: [S -> Contents]]
  BY <1>3, <1>5
<1>7. plan' \in Plans
  BY <1>6 DEF Plans
<1>8. PlanChanges(plan)' /\ \A p \in DOMAIN plan'.before: files'[p] = plan'.before[p]
  BY <1>1, <1>3, <1>4 DEF PlanChanges
<1>9. tx = NoTx /\ todo = {}
  BY <1>1 DEF Inv, DirectoryFits
<1>10. edits' \in 0..MaxEdits
  BY <1>1, Facts DEF Inv, TypeOK
<1>11. TypeOK' /\ writes' \in Nat
  BY <1>1, <1>7, <1>9, <1>10 DEF Inv, TypeOK, Labels
<1>12. DirectoryFits'
  BY <1>1, <1>7, <1>9 DEF DirectoryFits, Planned, Marked
<1>13. PlansChange'
  BY <1>1, <1>8, <1>9 DEF PlansChange
<1>14. FilesFit' /\ RevisionIsFresh'
  BY <1>1, <1>8 DEF FilesFit, RevisionIsFresh
<1>15. LogFits'
  BY <1>1, <1>9, Facts DEF Inv, LogFits
<1> QED
  BY <1>1, <1>11, <1>12, <1>13, <1>14, <1>15, MemoryIsUnseen DEF Inv

\* _revalidate and _verify_after go on, or a failure begins the rollback.
LEMMA RollbackKeepsInv ==
    ASSUME Inv, pc \in {"revalidate", "mark_committing", "write"},
           pc' = "restore", todo' = DOMAIN plan.before,
           UNCHANGED <<files, tx, ws, revision, logged, based, plan, edits, writes>>
    PROVE  Inv' /\ AtomicStep
<1>1. plan \in Plans /\ tx.plan = plan /\ tx # NoTx
  BY DEF Inv, DirectoryFits, Planned
<1>2. todo' \subseteq Paths /\ plan # NoPlan
  BY <1>1, PlanTypes, EditAssumption
<1>3. TypeOK' /\ writes' \in Nat
  BY <1>2 DEF Inv, TypeOK, Labels
<1>4. DirectoryFits'
  BY <1>1 DEF Inv, DirectoryFits, Planned, Marked
<1>5. PlansChange'
  BY DEF Inv, PlansChange, Planned, PlanChanges
<1>6. FilesFit' /\ RevisionIsFresh'
  BY DEF FilesFit, RevisionIsFresh
<1>7. LogFits'
  BY DEF Inv, LogFits
<1> QED
  BY <1>3, <1>4, <1>5, <1>6, <1>7, MemoryIsUnseen DEF Inv

\* _revalidate compares the files with the plan.
LEMMA RevalidateKeepsInv ==
    ASSUME Inv, Revalidate
    PROVE  Inv' /\ AtomicStep
<1>1. /\ pc = "revalidate"
      /\ UNCHANGED <<files, tx, ws, revision, logged, based, plan, edits, writes>>
  BY DEF Revalidate, disk, bounds
<1>2. CASE ~Unchanged
  BY <1>1, <1>2, RollbackKeepsInv DEF Revalidate
<1>3. CASE Unchanged
  <2>1. pc' = "mark_committing" /\ todo' = todo
    BY <1>3 DEF Revalidate
  <2>2. TypeOK' /\ writes' \in Nat
    BY <1>1, <2>1 DEF Inv, TypeOK, Labels
  <2>3. DirectoryFits'
    BY <1>1, <2>1 DEF Inv, DirectoryFits, Planned, Marked
  <2>4. PlansChange' /\ FilesFit' /\ RevisionIsFresh'
    BY <1>1, <2>1 DEF Inv, PlansChange, Planned, PlanChanges, FilesFit, RevisionIsFresh
  <2>5. LogFits'
    BY <1>1, <2>1 DEF Inv, LogFits
  <2> QED
    BY <1>1, <2>2, <2>3, <2>4, <2>5, MemoryIsUnseen DEF Inv
<1> QED
  BY <1>2, <1>3

\* _verify_after compares the files with what was to be written.
LEMMA VerifyKeepsInv ==
    ASSUME Inv, Verify
    PROVE  Inv' /\ AtomicStep
<1>1. /\ pc = "write" /\ todo = {}
      /\ UNCHANGED <<files, tx, ws, revision, logged, based, plan, edits, writes>>
  BY DEF Verify, disk, bounds
<1>2. plan \in Plans
  BY <1>1 DEF Inv, DirectoryFits, Planned
<1>3. CASE ~(\A p \in DOMAIN plan.after: files[p] = plan.after[p])
  BY <1>1, <1>3, RollbackKeepsInv DEF Verify
<1>4. CASE \A p \in DOMAIN plan.after: files[p] = plan.after[p]
  <2>1. pc' = "revision" /\ todo' = todo
    BY <1>4 DEF Verify
  <2>2. TypeOK' /\ writes' \in Nat
    BY <1>1, <2>1 DEF Inv, TypeOK, Labels
  <2>3. DirectoryFits'
    BY <1>1, <2>1 DEF Inv, DirectoryFits, Planned, Marked
  <2>4. FilesFit'
    BY <1>1, <1>2, <1>4, <2>1, PlanTypes DEF FilesFit
  <2>5. PlansChange' /\ RevisionIsFresh'
    BY <1>1, <2>1 DEF Inv, PlansChange, Planned, PlanChanges, RevisionIsFresh
  <2>6. LogFits'
    BY <1>1, <2>1 DEF Inv, LogFits
  <2> QED
    BY <1>1, <2>2, <2>3, <2>4, <2>5, <2>6, MemoryIsUnseen DEF Inv
<1> QED
  BY <1>3, <1>4

-----------------------------------------------------------------------------
(* Steps that write the transaction directory *)

\* The directory begins or ceases to be in doubt over files that hold what was
\* there before: nobody sees a difference.
LEMMA DoubtIsUnseen ==
    ASSUME TypeOK, TypeOK', writes \in Nat, tx # NoTx, tx' # NoTx, tx'.plan = tx.plan,
           UNCHANGED <<files, revision, based, writes>>,
           \/ InDoubt /\ InDoubt'
           \/ writes = 0 => \A p \in DOMAIN tx.plan.before: files[p] = tx.plan.before[p]
    PROVE  AtomicStep
<1>1. CASE writes # 0
  BY <1>1, ForeignStep
<1>2. CASE writes = 0
  <2>1. content' = content
    BY <1>2 DEF content
  <2> QED
    BY <2>1, NoAtomicStep
<1> QED
  BY <1>1, <1>2

\* A transaction that cannot be rolled back stays in doubt.
LEMMA GiveUpKeepsInv ==
    ASSUME Inv, GiveUp, tx # NoTx, tx.state # "committed",
           UNCHANGED <<files, ws, revision, logged, based, edits, writes>>,
           \/ InDoubt
           \/ writes = 0 => \A p \in DOMAIN tx.plan.before: files[p] = tx.plan.before[p]
    PROVE  Inv' /\ AtomicStep
<1> DEFINE E == tx.entries \cup {"transaction.json"}
<1>1. tx \in Transactions
  BY Facts
<1>2. E \in SUBSET Entries /\ "recovery_required" \in TxStates /\ "transaction.json" \in E
  BY <1>1, TxTypes DEF Entries, TxStates
<1>3. /\ tx' = [tx EXCEPT !.state = "recovery_required", !.entries = E]
      /\ pc' = "give_up" /\ plan' = NoPlan /\ todo' = {}
  BY DEF GiveUp
<1> HIDE DEF E
<1>4. /\ tx' \in Transactions /\ tx' # NoTx /\ tx'.entries = E
      /\ tx'.state = "recovery_required" /\ tx'.plan = tx.plan /\ tx'.id = tx.id
  BY <1>1, <1>2, <1>3, TxRewritten
<1>5. TypeOK' /\ writes' \in Nat
  BY <1>3, <1>4 DEF Inv, TypeOK, Labels
<1>6. DirectoryFits'
  BY <1>2, <1>3, <1>4 DEF DirectoryFits, Planned, Marked
<1>7. PlansChange' /\ FilesFit' /\ RevisionIsFresh'
  BY <1>3, <1>4 DEF Inv, PlansChange, Planned, PlanChanges, FilesFit, RevisionIsFresh
<1>8. LogFits'
  BY <1>3, <1>4 DEF Inv, LogFits
<1>9. InDoubt'
  BY <1>2, <1>4 DEF InDoubt, State
<1>10. AtomicStep
  BY <1>4, <1>5, <1>9, DoubtIsUnseen DEF Inv
<1> QED
  BY <1>5, <1>6, <1>7, <1>8, <1>10 DEF Inv

\* ensure_recovered finds no transaction, or one that never began.
LEMMA RecoverNothingKeepsInv ==
    ASSUME Inv, RecoverNothing
    PROVE  Inv' /\ AtomicStep
<1>1. /\ pc = "recover" /\ State = "none" /\ tx' = NoTx /\ pc' = "prepare"
      /\ UNCHANGED <<files, ws, revision, logged, based, plan, todo, edits, writes>>
  BY DEF RecoverNothing, bounds
<1>2. TypeOK' /\ writes' \in Nat
  BY <1>1 DEF Inv, TypeOK, Labels
<1>3. DirectoryFits' /\ PlansChange' /\ FilesFit' /\ RevisionIsFresh'
  BY <1>1 DEF Inv, DirectoryFits, PlansChange, FilesFit, RevisionIsFresh, Planned, Marked
<1>4. LogFits'
  BY <1>1 DEF Inv, LogFits
<1>5. ~InDoubt /\ ~InDoubt'
  BY <1>1 DEF InDoubt, State
<1>6. AtomicStep
  BY <1>1, <1>5, SameContent, NoAtomicStep
<1> QED
  BY <1>2, <1>3, <1>4, <1>6 DEF Inv

\* ensure_recovered appends the event that a crash kept back.
LEMMA RecoverCommittedKeepsInv ==
    ASSUME Inv, RecoverCommitted
    PROVE  Inv' /\ AtomicStep
<1>1. /\ pc = "recover" /\ State = "committed" /\ pc' = "remove_recovered"
      /\ logged' = (IF logged[tx.id] > 0 THEN logged ELSE [logged EXCEPT ![tx.id] = 1])
      /\ UNCHANGED <<files, tx, ws, revision, based, plan, todo, edits, writes>>
  BY DEF RecoverCommitted, bounds
<1>2. tx # NoTx /\ tx.state = "committed" /\ "transaction.json" \in tx.entries
  BY <1>1 DEF State
<1>3. tx.id \in 1..MaxEdits
  BY <1>2, Facts, TxTypes
<1>4. logged \in [1..MaxEdits -> Nat]
  BY DEF Inv, TypeOK
<1>5. /\ logged' \in [1..MaxEdits -> Nat] /\ logged'[tx.id] = 1
      /\ \A n \in 1..MaxEdits: n # tx.id => logged'[n] = logged[n]
  BY <1>1, <1>3, <1>4 DEF Inv, LogFits
<1>6. TypeOK' /\ writes' \in Nat
  BY <1>1, <1>5 DEF Inv, TypeOK, Labels
<1>7. DirectoryFits' /\ RevisionIsFresh'
  BY <1>1, <1>2 DEF Inv, DirectoryFits, RevisionIsFresh, Planned, Marked
<1>8. PlansChange' /\ FilesFit'
  BY <1>1, <1>2 DEF Inv, PlansChange, FilesFit, Planned, PlanChanges
<1>9. LogFits'
  BY <1>1, <1>2, <1>3, <1>5, Facts DEF Inv, LogFits
<1> QED
  BY <1>1, <1>6, <1>7, <1>8, <1>9, MemoryIsUnseen DEF Inv

\* ensure_recovered begins to roll back, or gives up without plan and backup.
LEMMA RecoverInterruptedKeepsInv ==
    ASSUME Inv, RecoverInterrupted
    PROVE  Inv' /\ AtomicStep
<1>1. /\ pc = "recover" /\ State \in {"prepared", "committing"}
      /\ UNCHANGED <<files, ws, revision, logged, based, edits, writes>>
  BY DEF RecoverInterrupted, bounds
<1>2. /\ tx # NoTx /\ tx.state \in {"prepared", "committing"}
      /\ "transaction.json" \in tx.entries
  BY <1>1 DEF State
<1>3. tx \in Transactions /\ tx.plan \in Plans
  BY <1>2, Facts, TxTypes
<1>4. CASE Loadable
  <2>1. /\ plan' = tx.plan /\ todo' = DOMAIN tx.plan.before
        /\ pc' = "restore_recovered" /\ tx' = tx
    BY <1>4 DEF RecoverInterrupted
  <2>2. todo' \subseteq Paths /\ plan' # NoPlan
    BY <1>3, <2>1, PlanTypes, EditAssumption
  <2>3. TypeOK' /\ writes' \in Nat
    BY <1>1, <1>3, <2>1, <2>2 DEF Inv, TypeOK, Labels
  <2>4. DirectoryFits'
    BY <1>2, <1>3, <2>1 DEF DirectoryFits, Planned, Marked
  <2>5. PlansChange'
    BY <1>2, <2>1 DEF Inv, PlansChange, PlanChanges
  <2>6. FilesFit' /\ RevisionIsFresh'
    BY <2>1 DEF FilesFit, RevisionIsFresh
  <2>7. LogFits'
    BY <1>1, <2>1 DEF Inv, LogFits
  <2> QED
    BY <1>1, <2>1, <2>3, <2>4, <2>5, <2>6, <2>7, MemoryIsUnseen DEF Inv
<1>5. CASE ~Loadable
  <2>1. GiveUp
    BY <1>5 DEF RecoverInterrupted
  <2>2. InDoubt
    BY <1>1 DEF InDoubt
  <2> QED
    BY <1>1, <1>2, <2>1, <2>2, GiveUpKeepsInv
<1> QED
  BY <1>4, <1>5

\* The directory with plan and backup.
LEMMA MakeDirectoryKeepsInv ==
    ASSUME Inv, MakeDirectory
    PROVE  Inv' /\ AtomicStep
<1>1. /\ pc = "begin" /\ pc' = "mark_prepared"
      /\ tx' = [id |-> edits, state |-> "none", plan |-> plan,
                entries |-> {"plan.json", "backup"}]
      /\ UNCHANGED <<files, ws, revision, logged, based, plan, todo, edits, writes>>
  BY DEF MakeDirectory, bounds
<1>2. plan \in Plans /\ tx = NoTx /\ edits \in 1..MaxEdits
  BY <1>1 DEF Inv, DirectoryFits, Planned, LogFits, TypeOK
<1>3. {"plan.json", "backup"} \in SUBSET Entries
  BY DEF Entries
<1>4. /\ tx' \in Transactions /\ tx'.id = edits /\ tx'.state = "none" /\ tx'.plan = plan
      /\ tx'.entries = {"plan.json", "backup"}
  BY <1>1, <1>2, <1>3 DEF Transactions
<1>5. tx' # NoTx
  BY <1>4, TxTypes
<1>6. TypeOK' /\ writes' \in Nat
  BY <1>1, <1>4 DEF Inv, TypeOK, Labels
<1>7. DirectoryFits'
  BY <1>1, <1>2, <1>4, <1>5 DEF Inv, DirectoryFits, Planned, Marked
<1>8. PlansChange' /\ RevisionIsFresh'
  BY <1>1, <1>4 DEF Inv, PlansChange, RevisionIsFresh, Planned, PlanChanges
<1>9. FilesFit'
  BY <1>1 DEF Inv, FilesFit
<1>10. LogFits'
  BY <1>1, <1>2, <1>4, Facts DEF Inv, LogFits
<1>11. ~InDoubt /\ ~InDoubt'
  BY <1>2, <1>4 DEF InDoubt, State
<1>12. AtomicStep
  BY <1>1, <1>11, SameContent, NoAtomicStep
<1> QED
  BY <1>6, <1>7, <1>8, <1>9, <1>10, <1>12 DEF Inv

\* From here recovery would restore what still is there.
LEMMA MarkPreparedKeepsInv ==
    ASSUME Inv, MarkPrepared
    PROVE  Inv' /\ AtomicStep
<1> DEFINE E == tx.entries \cup {"transaction.json"}
<1>1. /\ pc = "mark_prepared" /\ pc' = "revalidate"
      /\ tx' = [tx EXCEPT !.state = "prepared", !.entries = E]
      /\ UNCHANGED <<files, ws, revision, logged, based, plan, todo, edits, writes>>
  BY DEF MarkPrepared, bounds
<1>2. tx # NoTx /\ tx.state = "none" /\ tx.plan = plan
  BY <1>1 DEF Inv, DirectoryFits, Planned
<1>3. tx \in Transactions
  BY <1>2, Facts
<1>4. E \in SUBSET Entries /\ "prepared" \in TxStates /\ "transaction.json" \in E
  BY <1>3, TxTypes DEF Entries, TxStates
<1> HIDE DEF E
<1>5. /\ tx' \in Transactions /\ tx' # NoTx /\ tx'.entries = E
      /\ tx'.state = "prepared" /\ tx'.plan = tx.plan /\ tx'.id = tx.id
  BY <1>1, <1>3, <1>4, TxRewritten
<1>6. TypeOK' /\ writes' \in Nat
  BY <1>1, <1>5 DEF Inv, TypeOK, Labels
<1>7. DirectoryFits'
  BY <1>1, <1>2, <1>4, <1>5 DEF Inv, DirectoryFits, Planned, Marked
<1>8. PlansChange' /\ RevisionIsFresh' /\ FilesFit'
  BY <1>1, <1>2, <1>5 DEF Inv, PlansChange, RevisionIsFresh, Planned, PlanChanges, FilesFit
<1>9. LogFits'
  BY <1>1, <1>2, <1>5 DEF Inv, LogFits
<1>10. writes = 0 => \A p \in DOMAIN tx.plan.before: files[p] = tx.plan.before[p]
  BY <1>1, <1>2 DEF Inv, FilesFit
<1>11. AtomicStep
  BY <1>1, <1>2, <1>5, <1>6, <1>10, DoubtIsUnseen DEF Inv
<1> QED
  BY <1>6, <1>7, <1>8, <1>9, <1>11 DEF Inv

\* The files are about to be written.
LEMMA MarkCommittingKeepsInv ==
    ASSUME Inv, MarkCommitting
    PROVE  Inv' /\ AtomicStep
<1>1. /\ pc = "mark_committing" /\ pc' = "write" /\ todo' = DOMAIN plan.after
      /\ tx' = [tx EXCEPT !.state = "committing"]
      /\ UNCHANGED <<files, ws, revision, logged, based, plan, edits, writes>>
  BY DEF MarkCommitting, bounds
<1>2. /\ tx # NoTx /\ tx.state = "prepared" /\ tx.plan = plan /\ plan \in Plans
      /\ "transaction.json" \in tx.entries
  BY <1>1 DEF Inv, DirectoryFits, Planned, Marked
<1>3. tx \in Transactions
  BY <1>2, Facts
<1>4. "committing" \in TxStates
  BY DEF TxStates
<1>5. /\ tx' \in Transactions /\ tx' # NoTx /\ tx'.entries = tx.entries
      /\ tx'.state = "committing" /\ tx'.plan = tx.plan /\ tx'.id = tx.id
  BY <1>1, <1>3, <1>4, TxState
<1>6. todo' \subseteq Paths /\ todo' = DOMAIN plan.before /\ plan # NoPlan
  BY <1>1, <1>2, PlanTypes, EditAssumption
<1>7. TypeOK' /\ writes' \in Nat
  BY <1>1, <1>5, <1>6 DEF Inv, TypeOK, Labels
<1>8. DirectoryFits'
  BY <1>1, <1>2, <1>5 DEF Inv, DirectoryFits, Planned, Marked
<1>9. PlansChange' /\ RevisionIsFresh' /\ FilesFit'
  BY <1>1, <1>2, <1>5 DEF Inv, PlansChange, RevisionIsFresh, Planned, PlanChanges, FilesFit
<1>10. LogFits'
  BY <1>1, <1>2, <1>5 DEF Inv, LogFits
<1>11. InDoubt /\ InDoubt'
  BY <1>2, <1>5 DEF InDoubt, State
<1>12. AtomicStep
  BY <1>1, <1>2, <1>5, <1>7, <1>11, DoubtIsUnseen DEF Inv
<1> QED
  BY <1>7, <1>8, <1>9, <1>10, <1>12 DEF Inv

\* next_candidate_revision takes a number no commit has used.
LEMMA NextRevisionKeepsInv ==
    ASSUME Inv, NextRevision
    PROVE  Inv' /\ AtomicStep
<1>1. /\ pc = "revision" /\ pc' = "receipt" /\ revision' = revision + 1
      /\ UNCHANGED <<files, tx, ws, logged, based, plan, todo, edits, writes>>
  BY DEF NextRevision, bounds
<1>2. revision' \in Nat /\ based' \in 0..revision' /\ based' < revision'
  BY <1>1, Facts DEF Inv, TypeOK
<1>3. TypeOK' /\ writes' \in Nat
  BY <1>1, <1>2 DEF Inv, TypeOK, Labels
<1>4. DirectoryFits'
  BY <1>1 DEF Inv, DirectoryFits, Planned, Marked
<1>5. PlansChange' /\ RevisionIsFresh' /\ FilesFit'
  BY <1>1, <1>2 DEF Inv, PlansChange, RevisionIsFresh, Planned, PlanChanges, FilesFit
<1>6. LogFits'
  BY <1>1 DEF Inv, LogFits
<1>7. content' = content
  BY <1>1 DEF content, InDoubt, State
<1>8. AtomicStep
  BY <1>1, <1>7 DEF AtomicStep, Atomic!Next, Atomic!NextRevision
<1> QED
  BY <1>3, <1>4, <1>5, <1>6, <1>8 DEF Inv

\* The receipt does not decide anything.
LEMMA WriteReceiptKeepsInv ==
    ASSUME Inv, WriteReceipt
    PROVE  Inv' /\ AtomicStep
<1> DEFINE E == tx.entries \cup {"receipt.json"}
<1>1. /\ pc = "receipt" /\ pc' = "mark_committed" /\ tx' = [tx EXCEPT !.entries = E]
      /\ UNCHANGED <<files, ws, revision, logged, based, plan, todo, edits, writes>>
  BY DEF WriteReceipt, bounds
<1>2. /\ tx # NoTx /\ tx.state = "committing" /\ tx.plan = plan
      /\ "transaction.json" \in tx.entries
  BY <1>1 DEF Inv, DirectoryFits, Planned, Marked
<1>3. tx \in Transactions
  BY <1>2, Facts
<1>4. E \in SUBSET Entries /\ "transaction.json" \in E
  BY <1>2, <1>3, TxTypes DEF Entries
<1> HIDE DEF E
<1>5. /\ tx' \in Transactions /\ tx' # NoTx /\ tx'.entries = E
      /\ tx'.state = tx.state /\ tx'.plan = tx.plan /\ tx'.id = tx.id
  BY <1>1, <1>3, <1>4, TxEntries
<1>6. TypeOK' /\ writes' \in Nat
  BY <1>1, <1>5 DEF Inv, TypeOK, Labels
<1>7. DirectoryFits'
  BY <1>1, <1>2, <1>4, <1>5 DEF Inv, DirectoryFits, Planned, Marked
<1>8. PlansChange' /\ RevisionIsFresh' /\ FilesFit'
  BY <1>1, <1>2, <1>5 DEF Inv, PlansChange, RevisionIsFresh, Planned, PlanChanges, FilesFit
<1>9. LogFits'
  BY <1>1, <1>2, <1>5 DEF Inv, LogFits
<1>10. InDoubt /\ InDoubt'
  BY <1>2, <1>4, <1>5 DEF InDoubt, State
<1>11. AtomicStep
  BY <1>1, <1>2, <1>5, <1>6, <1>10, DoubtIsUnseen DEF Inv
<1> QED
  BY <1>6, <1>7, <1>8, <1>9, <1>11 DEF Inv

\* The commit point is the abstract transaction.
LEMMA MarkCommittedKeepsInv ==
    ASSUME Inv, MarkCommitted
    PROVE  Inv' /\ AtomicStep
<1>1. /\ pc = "mark_committed" /\ pc' = "event" /\ tx' = [tx EXCEPT !.state = "committed"]
      /\ based' = revision
      /\ UNCHANGED <<files, ws, revision, logged, plan, todo, edits, writes>>
  BY DEF MarkCommitted, bounds
<1>2. /\ tx # NoTx /\ tx.state = "committing" /\ tx.plan = plan /\ plan \in Plans
      /\ "transaction.json" \in tx.entries
  BY <1>1 DEF Inv, DirectoryFits, Planned, Marked
<1>3. tx \in Transactions /\ "committed" \in TxStates
  BY <1>2, Facts DEF TxStates
<1>4. /\ tx' \in Transactions /\ tx' # NoTx /\ tx'.entries = tx.entries
      /\ tx'.state = "committed" /\ tx'.plan = tx.plan /\ tx'.id = tx.id
  BY <1>1, <1>3, TxState
<1>5. based' \in 0..revision'
  BY <1>1, Facts
<1>6. TypeOK' /\ writes' \in Nat
  BY <1>1, <1>4, <1>5 DEF Inv, TypeOK, Labels
<1>7. DirectoryFits'
  BY <1>1, <1>2, <1>4 DEF Inv, DirectoryFits, Planned, Marked
<1>8. PlansChange' /\ RevisionIsFresh' /\ FilesFit'
  BY <1>1, <1>2, <1>4 DEF Inv, PlansChange, RevisionIsFresh, Planned, PlanChanges, FilesFit
<1>9. LogFits'
  BY <1>1, <1>2, <1>4 DEF Inv, LogFits
<1>10. CASE writes # 0
  <2>1. writes' # 0
    BY <1>1, <1>10
  <2> QED
    BY <1>6, <1>7, <1>8, <1>9, <2>1, ForeignStep DEF Inv
<1>11. CASE writes = 0
  <2> DEFINE S == DOMAIN plan.before
  <2>1. S \in SUBSET Paths /\ S # {} /\ plan.after \in [S -> Contents]
    BY <1>2, PlanTypes
  <2>2. InDoubt /\ ~InDoubt'
    BY <1>2, <1>4 DEF InDoubt, State
  <2>3. \A p \in S: files[p] = plan.after[p] /\ plan.after[p] # plan.before[p]
    BY <1>1, <1>11 DEF Inv, FilesFit, PlansChange, Planned, PlanChanges
  <2>4. /\ \A p \in Paths: p \in S => content[p] = plan.before[p]
        /\ \A p \in Paths: p \notin S => content[p] = files[p]
    BY <1>2, <2>2 DEF content
  <2>5. content' = [p \in Paths |-> files[p]]
    BY <1>1, <2>2 DEF content
  <2>6. content' = [p \in Paths |-> IF p \in S THEN plan.after[p] ELSE content[p]]
    BY <2>3, <2>4, <2>5
  <2>7. \A p \in S: plan.after[p] # content[p]
    BY <2>1, <2>3, <2>4
  <2>8. revision > based
    BY <1>1, Facts DEF Inv, RevisionIsFresh
  <2> HIDE DEF S
  <2>9. Atomic!Commit(S, plan.after)
    BY <1>1, <2>1, <2>6, <2>7, <2>8 DEF Atomic!Commit
  <2>10. AtomicStep
    BY <2>1, <2>9 DEF AtomicStep, Atomic!Next
  <2> QED
    BY <1>6, <1>7, <1>8, <1>9, <2>10 DEF Inv
<1> QED
  BY <1>10, <1>11

\* The event of a committed transaction, which has none yet.
LEMMA AppendEventKeepsInv ==
    ASSUME Inv, AppendEvent
    PROVE  Inv' /\ AtomicStep
<1>1. /\ pc = "event" /\ pc' = "remove_committed"
      /\ logged' = [logged EXCEPT ![tx.id] = @ + 1]
      /\ UNCHANGED <<files, tx, ws, revision, based, plan, todo, edits, writes>>
  BY DEF AppendEvent, bounds
<1>2. tx # NoTx /\ tx.state = "committed" /\ logged[tx.id] = 0
  BY <1>1 DEF Inv, DirectoryFits, LogFits
<1>3. tx.id \in 1..MaxEdits
  BY <1>2, Facts, TxTypes
<1>4. logged \in [1..MaxEdits -> Nat]
  BY DEF Inv, TypeOK
<1>5. /\ logged' \in [1..MaxEdits -> Nat] /\ logged'[tx.id] = 1
      /\ \A n \in 1..MaxEdits: n # tx.id => logged'[n] = logged[n]
  BY <1>1, <1>2, <1>3, <1>4
<1>6. TypeOK' /\ writes' \in Nat
  BY <1>1, <1>5 DEF Inv, TypeOK, Labels
<1>7. DirectoryFits' /\ RevisionIsFresh'
  BY <1>1, <1>2 DEF Inv, DirectoryFits, RevisionIsFresh, Planned, Marked
<1>8. PlansChange' /\ FilesFit'
  BY <1>1, <1>2 DEF Inv, PlansChange, FilesFit, Planned, PlanChanges
<1>9. LogFits'
  BY <1>1, <1>2, <1>3, <1>5, Facts DEF Inv, LogFits
<1> QED
  BY <1>1, <1>6, <1>7, <1>8, <1>9, MemoryIsUnseen DEF Inv

-----------------------------------------------------------------------------
(* Steps that write the files *)

\* A file of the transaction is written while its fate is open.
LEMMA FileWriteKeepsInv ==
    ASSUME Inv, pc \in {"write", "restore", "restore_recovered"},
           NEW p \in todo, NEW c \in Contents, files' = [files EXCEPT ![p] = c],
           todo' = todo \ {p},
           UNCHANGED <<tx, ws, revision, logged, based, plan, pc, edits, writes>>
    PROVE  Inv' /\ AtomicStep
<1>1. /\ tx # NoTx /\ tx.plan = plan /\ plan \in Plans
      /\ tx.state \in {"prepared", "committing"} /\ "transaction.json" \in tx.entries
  BY DEF Inv, DirectoryFits, Planned, Marked
<1>2. files \in [Paths -> Contents] /\ p \in DOMAIN plan.before /\ p \in Paths
  BY DEF Inv, TypeOK
<1>3. files' \in [Paths -> Contents] /\ \A q \in Paths: q # p => files'[q] = files[q]
  BY <1>2
<1>4. TypeOK' /\ writes' \in Nat
  BY <1>3 DEF Inv, TypeOK
<1>5. DirectoryFits'
  BY DEF Inv, DirectoryFits
<1>6. PlansChange' /\ FilesFit' /\ RevisionIsFresh'
  BY DEF Inv, PlansChange, PlanChanges, FilesFit, RevisionIsFresh
<1>7. LogFits'
  BY DEF Inv, LogFits
<1>8. InDoubt /\ InDoubt'
  BY <1>1 DEF InDoubt, State
<1>9. content' = content
  BY <1>1, <1>2, <1>3, <1>8 DEF content
<1> QED
  BY <1>4, <1>5, <1>6, <1>7, <1>9, NoAtomicStep DEF Inv

\* A file is written or restored while the transaction is in doubt.
LEMMA FileStepsKeepInv ==
    ASSUME Inv, WriteFile \/ RestoreFile
    PROVE  Inv' /\ AtomicStep
<1>1. pc \in {"write", "restore", "restore_recovered"}
  BY DEF WriteFile, RestoreFile
<1>2. plan \in Plans /\ todo \subseteq DOMAIN plan.before
  BY <1>1 DEF Inv, DirectoryFits, Planned, TypeOK
<1>3. \A p \in todo: plan.before[p] \in Contents /\ plan.after[p] \in Contents
  BY <1>2, PlanTypes
<1>4. UNCHANGED <<tx, ws, revision, logged, based, plan, pc, edits, writes>>
  BY DEF WriteFile, RestoreFile, bounds
<1>5. CASE WriteFile
  <2>1. PICK p \in todo: files' = [files EXCEPT ![p] = plan.after[p]] /\ todo' = todo \ {p}
    BY <1>5 DEF WriteFile
  <2> QED
    BY <1>1, <1>3, <1>4, <2>1, FileWriteKeepsInv
<1>6. CASE RestoreFile
  <2>1. PICK p \in todo: files' = [files EXCEPT ![p] = plan.before[p]] /\ todo' = todo \ {p}
    BY <1>6 DEF RestoreFile
  <2> QED
    BY <1>1, <1>3, <1>4, <2>1, FileWriteKeepsInv
<1> QED
  BY <1>5, <1>6

\* Another program writes.
LEMMA ForeignWriteKeepsInv ==
    ASSUME Inv, ForeignWrite
    PROVE  Inv' /\ AtomicStep
<1>1. /\ writes' = writes + 1
      /\ UNCHANGED <<tx, ws, revision, logged, based, plan, pc, todo, edits>>
  BY DEF ForeignWrite
<1>2. PICK p \in Paths, c \in Contents: files' = [files EXCEPT ![p] = c]
  BY DEF ForeignWrite
<1>3. files' \in [Paths -> Contents]
  BY <1>2 DEF Inv, TypeOK
<1>4. writes' \in Nat /\ writes' # 0
  BY <1>1 DEF Inv
<1>5. TypeOK'
  BY <1>1, <1>3 DEF Inv, TypeOK
<1>6. DirectoryFits' /\ PlansChange' /\ RevisionIsFresh' /\ FilesFit'
  BY <1>1, <1>4 DEF Inv, DirectoryFits, PlansChange, PlanChanges, RevisionIsFresh, FilesFit
<1>7. LogFits'
  BY <1>1 DEF Inv, LogFits
<1> QED
  BY <1>4, <1>5, <1>6, <1>7, ForeignStep DEF Inv

-----------------------------------------------------------------------------
(* The end of a transaction, and faults *)

\* All files are as before the transaction, or it stays in doubt.
LEMMA RestoredKeepsInv ==
    ASSUME Inv, Restored
    PROVE  Inv' /\ AtomicStep
<1>1. /\ pc \in {"restore", "restore_recovered"} /\ todo = {}
      /\ UNCHANGED <<files, ws, revision, logged, based, edits, writes>>
  BY DEF Restored, bounds
<1>2. /\ tx # NoTx /\ tx.plan = plan /\ plan \in Plans
      /\ tx.state \in {"prepared", "committing"} /\ "transaction.json" \in tx.entries
  BY <1>1 DEF Inv, DirectoryFits, Planned, Marked
<1>3. CASE Unchanged
  <2>1. /\ pc' \in {"remove", "remove_recovered"} /\ UNCHANGED <<tx, plan, todo>>
    BY <1>1, <1>3 DEF Restored
  <2>2. TypeOK' /\ writes' \in Nat
    BY <1>1, <2>1 DEF Inv, TypeOK, Labels
  <2>3. DirectoryFits'
    BY <1>1, <1>2, <2>1 DEF DirectoryFits, Planned, Marked
  <2>4. FilesFit'
    BY <1>1, <1>2, <1>3, <2>1 DEF FilesFit, Unchanged
  <2>5. PlansChange' /\ RevisionIsFresh'
    BY <1>1, <2>1 DEF Inv, PlansChange, PlanChanges, RevisionIsFresh, Planned
  <2>6. LogFits'
    BY <1>1, <1>2, <2>1 DEF Inv, LogFits
  <2> QED
    BY <1>1, <2>1, <2>2, <2>3, <2>4, <2>5, <2>6, MemoryIsUnseen DEF Inv
<1>4. CASE ~Unchanged
  <2>1. GiveUp
    BY <1>4 DEF Restored
  <2>2. InDoubt
    BY <1>2 DEF InDoubt, State
  <2> QED
    BY <1>1, <1>2, <2>1, <2>2, GiveUpKeepsInv
<1> QED
  BY <1>3, <1>4

\* The directory is deleted entry by entry, transaction.json whenever it comes.
LEMMA RmtreeKeepsInv ==
    ASSUME Inv, rmtree
    PROVE  Inv' /\ AtomicStep
<1>1. /\ pc \in {"remove", "remove_recovered", "remove_committed"}
      /\ UNCHANGED <<files, ws, revision, logged, based, plan, pc, todo, edits, writes>>
  BY DEF rmtree, Removing, bounds
<1>2. PICK e \in tx.entries: tx' = [tx EXCEPT !.entries = @ \ {e}]
  BY DEF rmtree
<1>3. tx # NoTx
  BY <1>1 DEF Inv, DirectoryFits
<1>4. tx \in Transactions
  BY <1>3, Facts
<1>5. tx.entries \ {e} \in SUBSET Entries
  BY <1>4, TxTypes
<1>6. /\ tx' \in Transactions /\ tx' # NoTx /\ tx'.entries = tx.entries \ {e}
      /\ tx'.state = tx.state /\ tx'.plan = tx.plan /\ tx'.id = tx.id
  BY <1>2, <1>4, <1>5, TxEntries, SMTT(40)
<1>7. TypeOK' /\ writes' \in Nat
  BY <1>1, <1>6 DEF Inv, TypeOK
<1>8. DirectoryFits' /\ RevisionIsFresh'
  BY <1>1, <1>6 DEF Inv, DirectoryFits, RevisionIsFresh, Planned, Marked
<1>9. PlansChange' /\ FilesFit'
  BY <1>1, <1>3, <1>6 DEF Inv, PlansChange, PlanChanges, FilesFit, Planned
<1>10. LogFits'
  BY <1>1, <1>3, <1>6 DEF Inv, LogFits, DirectoryFits
<1>11. CASE tx.state = "committed"
  <2>1. ~InDoubt /\ ~InDoubt'
    BY <1>3, <1>6, <1>11 DEF InDoubt, State
  <2> QED
    BY <1>1, <1>7, <1>8, <1>9, <1>10, <2>1, SameContent, NoAtomicStep DEF Inv
<1>12. CASE tx.state # "committed"
  <2>1. writes = 0 => \A p \in DOMAIN tx.plan.before: files[p] = tx.plan.before[p]
    BY <1>1, <1>12 DEF Inv, FilesFit, DirectoryFits
  <2>2. AtomicStep
    BY <1>1, <1>3, <1>6, <1>7, <2>1, DoubtIsUnseen DEF Inv
  <2> QED
    BY <1>7, <1>8, <1>9, <1>10, <2>2 DEF Inv
<1> QED
  BY <1>11, <1>12

\* The empty directory is removed.
LEMMA RemovedKeepsInv ==
    ASSUME Inv, Removed
    PROVE  Inv' /\ AtomicStep
<1>1. /\ pc \in {"remove", "remove_recovered", "remove_committed"} /\ tx.entries = {}
      /\ tx' = NoTx /\ plan' = NoPlan /\ pc' \in {"prepare", "idle"}
      /\ todo' = todo \/ todo' = {}
      /\ UNCHANGED <<files, ws, revision, logged, based, edits, writes>>
  BY DEF Removed, Removing, Return, bounds
<1>2. tx # NoTx /\ todo' = {}
  BY <1>1 DEF Inv, DirectoryFits
<1>3. TypeOK' /\ writes' \in Nat
  BY <1>1, <1>2 DEF Inv, TypeOK, Labels
<1>4. DirectoryFits' /\ PlansChange' /\ FilesFit' /\ RevisionIsFresh'
  BY <1>1, <1>2 DEF DirectoryFits, PlansChange, FilesFit, RevisionIsFresh, Planned, Marked
<1>5. LogFits'
  BY <1>1 DEF Inv, LogFits
<1>6. ~InDoubt /\ ~InDoubt'
  BY <1>1, <1>2 DEF InDoubt, State
<1>7. AtomicStep
  BY <1>1, <1>6, SameContent, NoAtomicStep
<1> QED
  BY <1>3, <1>4, <1>5, <1>7 DEF Inv

\* The steps that only end the call, and the crash.
LEMMA ReturnsKeepInv ==
    ASSUME Inv, RecoverRefused \/ PrepareRejected \/ MarkRecoveryRequired \/ Crash
    PROVE  Inv' /\ AtomicStep
<1>1. ws \in {"changes_active", "recovery_required"}
  BY DEF Inv, TypeOK
<1>2. /\ Return /\ UNCHANGED <<files, tx, revision, based, logged, edits, writes>>
      /\ ws' \in {ws, "recovery_required"}
  BY DEF RecoverRefused, PrepareRejected, MarkRecoveryRequired, Crash, disk, bounds
<1> QED
  BY <1>1, <1>2, ReturnKeepsInv

\* A failing operation, by where it fails.
LEMMA OperationFailsKeepsInv ==
    ASSUME Inv, OperationFails
    PROVE  Inv' /\ AtomicStep
<1>1. UNCHANGED <<files, ws, revision, logged, based, edits, writes>>
  BY DEF OperationFails
<1>2. ws \in {"changes_active", "recovery_required"}
  BY DEF Inv, TypeOK
<1>3. CASE Return /\ UNCHANGED tx
  BY <1>1, <1>2, <1>3, ReturnKeepsInv
<1>4. CASE /\ pc \in {"revalidate", "mark_committing", "write"}
           /\ pc' = "restore" /\ todo' = DOMAIN plan.before
           /\ UNCHANGED <<tx, plan>>
  BY <1>1, <1>4, RollbackKeepsInv
<1>5. CASE /\ \/ pc \in {"restore", "restore_recovered", "remove"}
              \/ pc = "remove_recovered" /\ tx.state # "committed"
           /\ GiveUp
  <2>1. tx # NoTx /\ tx.state # "committed"
    BY <1>5 DEF Inv, DirectoryFits
  <2>2. CASE pc \in {"restore", "restore_recovered"}
    <3>1. InDoubt
      BY <2>1, <2>2 DEF Inv, DirectoryFits, Marked, InDoubt, State
    <3> QED
      BY <1>1, <1>5, <2>1, <3>1, GiveUpKeepsInv
  <2>3. CASE pc \in {"remove", "remove_recovered"}
    <3>1. writes = 0 => \A p \in DOMAIN tx.plan.before: files[p] = tx.plan.before[p]
      BY <2>1, <2>3 DEF Inv, FilesFit
    <3> QED
      BY <1>1, <1>5, <2>1, <3>1, GiveUpKeepsInv
  <2> QED
    BY <1>5, <2>2, <2>3
<1> QED
  BY <1>3, <1>4, <1>5 DEF OperationFails

-----------------------------------------------------------------------------
(* The theorems *)

\* A new worktree satisfies the invariant.
LEMMA InitInv == Init => Inv
<1> SUFFICES ASSUME Init PROVE Inv
  OBVIOUS
<1>1. TypeOK /\ writes \in Nat
  BY EditAssumption DEF Init, TypeOK, Labels
<1>2. DirectoryFits /\ PlansChange /\ FilesFit /\ RevisionIsFresh
  BY DEF Init, DirectoryFits, PlansChange, FilesFit, RevisionIsFresh, Planned, Marked
<1>3. LogFits
  BY DEF Init, LogFits
<1> QED
  BY <1>1, <1>2, <1>3 DEF Inv

\* Every step keeps the invariant and is a step of the abstract store.
LEMMA StepInv == Inv /\ [Next]_vars => Inv' /\ AtomicStep
<1> SUFFICES ASSUME Inv, [Next]_vars PROVE Inv' /\ AtomicStep
  OBVIOUS
<1>1. CASE apply_workspace_edit
  BY <1>1, CallKeepsInv
<1>2. CASE RecoverNothing \/ RecoverCommitted \/ RecoverInterrupted
  BY <1>2, RecoverNothingKeepsInv, RecoverCommittedKeepsInv, RecoverInterruptedKeepsInv
<1>3. CASE prepare \/ MakeDirectory \/ MarkPrepared \/ Revalidate \/ MarkCommitting
  BY <1>3, PrepareKeepsInv, MakeDirectoryKeepsInv, MarkPreparedKeepsInv, RevalidateKeepsInv,
     MarkCommittingKeepsInv
<1>4. CASE WriteFile \/ RestoreFile \/ Verify \/ NextRevision \/ WriteReceipt
  BY <1>4, FileStepsKeepInv, VerifyKeepsInv, NextRevisionKeepsInv, WriteReceiptKeepsInv
<1>5. CASE MarkCommitted \/ AppendEvent \/ Restored \/ rmtree \/ Removed
  BY <1>5, MarkCommittedKeepsInv, AppendEventKeepsInv, RestoredKeepsInv, RmtreeKeepsInv,
     RemovedKeepsInv
<1>6. CASE RecoverRefused \/ PrepareRejected \/ MarkRecoveryRequired \/ Crash
  BY <1>6, ReturnsKeepInv
<1>7. CASE OperationFails \/ ForeignWrite
  BY <1>7, OperationFailsKeepsInv, ForeignWriteKeepsInv
<1>8. CASE UNCHANGED vars
  <2>1. UNCHANGED <<files, tx, ws, revision, logged, based, plan, pc, todo, edits, writes>>
    BY <1>8 DEF vars, disk, bounds
  <2>2. TypeOK' /\ writes' \in Nat
    BY <2>1 DEF Inv, TypeOK
  <2>3. DirectoryFits' /\ PlansChange' /\ FilesFit' /\ RevisionIsFresh'
    BY <2>1 DEF Inv, DirectoryFits, PlansChange, PlanChanges, FilesFit, RevisionIsFresh
  <2>4. LogFits'
    BY <2>1 DEF Inv, LogFits
  <2> QED
    BY <2>1, <2>2, <2>3, <2>4, MemoryIsUnseen DEF Inv
<1> QED
  BY <1>1, <1>2, <1>3, <1>4, <1>5, <1>6, <1>7, <1>8 DEF Next, Service

\* The invariant always holds.
LEMMA InvHolds == Spec => []Inv
<1>1. Inv /\ [Next]_vars => Inv'
  BY StepInv
<1> QED
  BY <1>1, InitInv, PTL DEF Spec

\* A committed transaction is forgotten by rmtree and by recovery only after its
\* event: whoever forgets it finds the event in the log.
LEMMA ForgottenIsLogged ==
    ASSUME Inv, [Next]_vars, tx # NoTx, tx' = NoTx, tx.state = "committed"
    PROVE  logged[tx.id] = 1
<1>1. tx \in Transactions
  BY Facts
<1>2. ASSUME NEW E, tx' = [tx EXCEPT !.entries = E], E \in SUBSET Entries PROVE FALSE
  BY <1>1, <1>2, TxEntries
<1>3. ASSUME NEW s \in TxStates, tx' = [tx EXCEPT !.state = s] PROVE FALSE
  BY <1>1, <1>3, TxState
<1>4. ~GiveUp
  <2>1. SUFFICES ASSUME GiveUp PROVE FALSE
    OBVIOUS
  <2> DEFINE E == tx.entries \cup {"transaction.json"}
  <2>2. E \in SUBSET Entries /\ "recovery_required" \in TxStates
    BY <1>1, TxTypes DEF Entries, TxStates
  <2>3. tx' = [tx EXCEPT !.state = "recovery_required", !.entries = E]
    BY <2>1 DEF GiveUp
  <2> HIDE DEF E
  <2> QED
    BY <1>1, <2>2, <2>3, TxRewritten
<1>5. CASE RecoverNothing
  <2>1. "transaction.json" \notin tx.entries
    BY <1>5 DEF RecoverNothing, State
  <2> QED
    BY <2>1 DEF Inv, LogFits
<1>6. CASE Removed
  BY <1>6 DEF Removed, Removing, Inv, LogFits, DirectoryFits
<1>7. ~(RecoverInterrupted \/ Restored)
  BY <1>4 DEF RecoverInterrupted, Restored
<1>8. ~OperationFails
  BY <1>4 DEF OperationFails
<1>9. ~(MakeDirectory \/ MarkPrepared)
  BY DEF MakeDirectory, MarkPrepared, Inv, DirectoryFits
<1>10. ~(MarkCommitting \/ WriteReceipt)
  BY DEF MarkCommitting, WriteReceipt, Inv, DirectoryFits
<1>11. ~MarkCommitted
  BY DEF MarkCommitted, Inv, DirectoryFits
<1>12. ~rmtree
  <2>1. ASSUME NEW e \in tx.entries, tx' = [tx EXCEPT !.entries = @ \ {e}] PROVE FALSE
    <3>1. tx.entries \ {e} \in SUBSET Entries
      BY <1>1, TxTypes
    <3> QED
      BY <1>2, <2>1, <3>1
  <2> QED
    BY <2>1 DEF rmtree
<1>13. ~(apply_workspace_edit \/ RecoverRefused \/ RecoverCommitted \/ prepare
         \/ PrepareRejected \/ Revalidate \/ WriteFile \/ Verify \/ NextRevision
         \/ MarkRecoveryRequired \/ AppendEvent \/ RestoreFile \/ Crash \/ ForeignWrite)
  BY DEF apply_workspace_edit, RecoverRefused, RecoverCommitted, prepare, PrepareRejected,
     Revalidate, WriteFile, Verify, NextRevision, MarkRecoveryRequired, AppendEvent,
     RestoreFile, Crash, ForeignWrite, disk
<1>14. ~UNCHANGED vars
  BY DEF vars, disk
<1> QED
  BY <1>5, <1>6, <1>7, <1>8, <1>9, <1>10, <1>11, <1>12, <1>13, <1>14 DEF Next, Service

\* For every number of edits, crashes, failures and foreign writes: each
\* committed transaction has its one edit_transaction event before it is
\* forgotten, and no other transaction has one (commit, _repair_event).
THEOREM EventsMatchCommits == Spec => EventsFollowCommits
<1>1. Inv => TypeOK /\ EventOnlyForCommitted
  <2> SUFFICES ASSUME Inv PROVE TypeOK /\ EventOnlyForCommitted
    OBVIOUS
  <2>1. \A n \in DOMAIN logged: logged[n] <= 1
    BY DEF Inv, LogFits, TypeOK
  <2>2. InDoubt => tx # NoTx /\ tx.state # "committed"
    BY DEF InDoubt, State
  <2> QED
    BY <2>1, <2>2 DEF Inv, LogFits, EventOnlyForCommitted
<1>2. Inv /\ [Next]_vars =>
         [(tx # NoTx /\ tx' = NoTx /\ tx.state = "committed") => logged[tx.id] = 1]_vars
  BY ForgottenIsLogged
<1> QED
  BY <1>1, <1>2, InvHolds, PTL DEF Spec, EventsFollowCommits, CommitIsLogged

\* The first state is one of the abstract store.
LEMMA InitAtomic == Init => Atomic!Init
<1> SUFFICES ASSUME Init PROVE Atomic!Init
  OBVIOUS
<1>1. TypeOK
  BY InitInv DEF Inv
<1>2. content \in [Paths -> Contents]
  BY <1>1, ContentTyped
<1>3. revision = 0 /\ based = 0 /\ writes = 0
  BY DEF Init
<1> QED
  BY <1>2, <1>3 DEF Atomic!Init

\* apply_workspace_edit implements the atomic store: over any paths and
\* contents, with crashes and failing operations at every point, the files as
\* recovery would leave them change only by whole transactions with a fresh
\* revision each, until another process writes to them.
THEOREM EditsAreAtomic == Spec => ImplementsAtomicStore
<1>1. Inv /\ [Next]_vars => [Atomic!Next]_<<content, revision, based, (writes = 0)>>
  BY StepInv DEF AtomicStep
<1> QED
  BY <1>1, InitAtomic, InvHolds, PTL DEF Spec, ImplementsAtomicStore, Atomic!Spec
=============================================================================
