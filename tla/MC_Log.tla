--------------------------------- MODULE MC_Log ---------------------------------
EXTENDS SessionStore, History, Batch

\* The event log under threads that append to it, the readers of a whole session's log, and the
\* batch that reckons with what such logs say: a behaviour exercises one of them, the others stay
\* as they begin.
VARIABLE side

\* Threads that all make the same calls are interchangeable.
ThreadSymmetry == Permutations(Threads)

\* A small session: every kind of response, two calls in one step.
edit == [tool |-> "apply_workspace_edit", purpose |-> "utility", asks |-> FALSE]
command == [tool |-> "run_command", purpose |-> "utility", asks |-> TRUE]
check == [tool |-> "run_command", purpose |-> "validation", asks |-> FALSE]
TheResponses == {<<check>>, <<command, check>>, <<edit>>}
TheKinds == {"final", "truncated", "malformed"}

\* Five candidates of two repositories; two tasks are wanted, one per repository.
MCTier == [c \in Candidates |-> CASE c \in {"e1", "e2"} -> "easy"
                                  [] c \in {"m1", "m2"} -> "medium"
                                  [] OTHER -> "hard"]
MCRepo == [c \in Candidates |-> IF c \in {"e1", "m1", "h1"} THEN "r1" ELSE "r2"]
MCShuffle == [s \in Seeds |->
                IF s = 1 THEN [easy |-> <<"e1", "e2">>, medium |-> <<"m1", "m2">>, hard |-> <<"h1">>]
                         ELSE [easy |-> <<"e2", "e1">>, medium |-> <<"m2", "m1">>, hard |-> <<"h1">>]]

\* Bound: the batch is explored from the selections an undisturbed generation
\* gives; what faults do to the generator is explored without a batch after it.
BatchAfterCleanGeneration ==
    manifest # None => spentGen.runs = 1 /\ spentGen.failures = 0 /\ spentGen.moves = 0

LogInit == /\ Init /\ HistoryInit /\ BenchmarkInit
           /\ side \in {"store", "history", "benchmark"}
LogNext == \/ side = "store" /\ Next /\ UNCHANGED <<historyVars, benchVars, side>>
           \/ side = "history" /\ HistoryNext /\ UNCHANGED <<vars, benchVars, side>>
           \/ side = "benchmark" /\ BenchmarkNext /\ UNCHANGED <<vars, historyVars, side>>
LogSpec == LogInit /\ [][LogNext]_<<vars, historyVars, benchVars, side>>
=================================================================================
