----------------------------- MODULE AtomicStore ----------------------------
(***************************************************************************)
(* What apply_workspace_edit promises: the Candidate's files change by     *)
(* whole transactions.  A transaction replaces the content of its paths    *)
(* in one step and is numbered by a fresh candidate revision; a            *)
(* transaction that fails, or is cut off by a crash, leaves no trace in    *)
(* the files.  It is a promise about files that nobody else writes.        *)
(***************************************************************************)
EXTENDS Integers

CONSTANTS Paths, Contents

VARIABLES
    content,    \* the files as a reader of whole transactions sees them
    revision,   \* the candidate revision
    based,      \* the revision of the last transaction
    alone       \* nobody else has written to the files

Init ==
    /\ content \in [Paths -> Contents]
    /\ revision = 0 /\ based = 0 /\ alone = TRUE

\* One transaction over the paths S.
Commit(S, new) ==
    /\ S # {}
    /\ content' = [p \in Paths |-> IF p \in S THEN new[p] ELSE content[p]]
    /\ \A p \in S: new[p] # content[p]
    /\ revision > based /\ based' = revision
    /\ UNCHANGED <<revision, alone>>

\* The number is taken before the files change, and may go to waste.
NextRevision ==
    /\ revision' = revision + 1
    /\ UNCHANGED <<content, based, alone>>

\* After a write of somebody else the files may be anything.
Foreign ==
    /\ alone' = FALSE
    /\ content' \in [Paths -> Contents]
    /\ revision' \in Nat /\ based' \in Nat

Next ==
    \/ \E S \in SUBSET Paths: \E new \in [S -> Contents]: Commit(S, new)
    \/ NextRevision
    \/ Foreign

Spec == Init /\ [][Next]_<<content, revision, based, alone>>
=============================================================================
