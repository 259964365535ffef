--------------------------------- MODULE Batch ---------------------------------
(***************************************************************************)
(* The benchmark batch (src/codeagent/benchmark/batch.py), the single-task *)
(* harness it calls (swebench_harness.py) and the accounting of usage and  *)
(* cost (accounting.py), on top of the selection that module Selection     *)
(* generates.  The batch runs the tasks serially and keeps everything in   *)
(* files: the run manifest, a state per task, an artifact per failed       *)
(* attempt, the summary.  A run may fail or be killed anywhere and is      *)
(* resumed from the files.  Costs are in units of one request.             *)
(***************************************************************************)
EXTENDS Selection, Functions, FiniteSetsExt

CONSTANTS
    Budget, Minimum,    \* cost_budget_cny and minimum_remaining_cost_cny
    MaxRequests,        \* bound: model requests of one attempt
    MaxBatchRuns,       \* bound: starts of the batch
    MaxLosses           \* bound: tasks whose artifacts disappear

VARIABLES
    manifest,   \* run-manifest.json: the selection it belongs to
    taskState,  \* task-state.json of every task
    attempts,   \* attempts/NNNN.json: the failed attempts
    evidence,   \* tasks whose prediction, trajectory and events files exist
    summary,    \* batch-summary.json
    run,        \* memory of the batch process
    ledger,     \* history: what every attempt really cost and how it ended
    spent       \* history: counters behind the bounds

batchVars == <<manifest, taskState, attempts, evidence, summary, run, ledger, spent>>
benchVars == <<selVars, batchVars>>

--------------------------------------------------------------------------------
(* Usage and cost                                                          *)

\* Requests made, requests whose usage the provider returned, their cost
\* (None: no such field), and whether every request is covered.
Usage(n, k, c, cov) == [requests |-> n, known |-> k, total |-> c, coverage |-> cov]

ZeroUsage == Usage(0, 0, 0, "complete")

Coverage(n, k) == CASE n = 0 \/ k = 0 -> "unavailable"
                    [] n > 0 /\ k = n -> "complete"
                    [] OTHER -> "partial"

\* aggregate_usage over the requests of one session; every known request costs 1.
AggregateUsage(n, k) == Usage(n, k, IF k = 0 THEN None ELSE k, Coverage(n, k))

\* _usage_from_events: no request at all is a zero, not an unknown.
UsageFromEvents(n, k) == IF n = 0 THEN ZeroUsage ELSE AggregateUsage(n, k)

\* calculate_cost: a total only when nothing is missing.
Cost(u) == IF u.coverage = "complete" /\ u.total # None
           THEN [complete |-> TRUE, total |-> u.total]
           ELSE [complete |-> FALSE, total |-> None]

SumOf(S, f(_)) == FoldSet(LAMBDA x, acc : f(x) + acc, 0, S)

\* _aggregate_entry_usage over a set of entries (scored tasks, failed attempts).
EntryUsage(E) ==
    LET n == SumOf(E, LAMBDA e : e.usage.requests)
        k == SumOf(E, LAMBDA e : e.usage.known)
    IN  IF E # {} /\ \A e \in E : e.usage.requests = 0 /\ e.usage.coverage = "complete"
        THEN ZeroUsage
        ELSE Usage(n, k,
                   IF E = {} \/ \E e \in E : e.usage.total = None THEN None
                   ELSE SumOf(E, LAMBDA e : e.usage.total),
                   Coverage(n, k))

\* _cost_guard: may the next task start?
CostGuard(scored, failed) ==
    LET all == scored \cup failed
    IN  IF \E e \in all : ~Cost(e.usage).complete THEN "cost_accounting_incomplete"
        ELSE IF Budget - SumOf(all, LAMBDA e : e.usage.total) >= Minimum
             THEN "within_budget" ELSE "remaining_cost_below_threshold"

--------------------------------------------------------------------------------
(* Files                                                                   *)

TaskIds == [i \in DOMAIN selection |-> selection[i].id]
Tasks == ToSet(TaskIds)
Entry(t, n, u, outcome) == [task |-> t, attempt |-> n, usage |-> u, outcome |-> outcome]

Scored == {"resolved", "unresolved", "budget_exhausted", "output_truncated"}

\* What the files hold: an entry of a scored or failed attempt, the state of a
\* task, the manifest.  A file that is not there is None.
Usages == [requests : Nat, known : Nat, total : Nat \cup {None},
           coverage : {"complete", "partial", "unavailable"}]
Entries == [task : Candidates, attempt : Nat, usage : Usages,
            outcome : Scored \cup {"provider_error", "infra_error"}]
TaskStates == [attempt : Nat, status : {"running", "failed", "completed"},
               phase : {"agent", "grader", "completed"}, result : Entries \cup {None}]
Manifests == [selection : Seq([id : Candidates, source : Nat]), sources : SUBSET Candidates,
              finished : BOOLEAN]
ASSUME NoneIsNoFile == None \notin TaskStates /\ None \notin Manifests

\* Mutant: a task that did not run out of anything is not reused.
MutLoadComplete(t) ==
    /\ taskState[t] # None
    /\ taskState[t].status = "completed"
    /\ taskState[t].result.outcome \in {"resolved", "unresolved"}
    /\ t \in evidence

\* _load_complete: completed, with a scored outcome and all its artifacts.
LoadComplete(t) ==
    /\ taskState[t] # None
    /\ taskState[t].status = "completed"
    /\ taskState[t].result.outcome \in Scored
    /\ t \in evidence

\* _next_attempt: one more than the attempt the task's state names.
NextAttempt(t) == IF taskState[t] = None THEN 1 ELSE taskState[t].attempt + 1

State(n, status, phase, result) ==
    [attempt |-> n, status |-> status, phase |-> phase, result |-> result]

\* _write_summary and _outcome_counts.
Summary(completed, failed, states, finished, reason) ==
    LET scored == ToSet(completed)
        done   == {e.task : e \in scored}
        broken == {t \in Tasks \ done : states[t] # None /\ states[t].status = "failed"}
    IN  [finished |-> finished, reason |-> reason,
         tasks |-> completed,
         cost |-> Cost(EntryUsage(scored \cup failed)),
         retries |-> Cardinality(failed),
         failed |-> Cardinality(broken),
         notStarted |-> Len(selection) - Cardinality(done) - Cardinality(broken)]

--------------------------------------------------------------------------------
(* The batch                                                               *)

RunOff == [pc |-> "off", i |-> 1, completed |-> <<>>, attempt |-> 0, requests |-> 0,
           known |-> 0, agent |-> None, outcome |-> None]
Current == TaskIds[run.i]
Open(l) == l.fate = "open"
Close(fate) == {IF Open(l) THEN [l EXCEPT !.fate = fate] ELSE l : l \in ledger}

BatchInit ==
    /\ manifest = None
    /\ taskState = [c \in Candidates |-> None]
    /\ attempts = {}
    /\ evidence = {}
    /\ summary = None
    /\ run = RunOff
    /\ ledger = {}
    /\ spent = [runs |-> 0, losses |-> 0]

\* _validate_resume: selection, configuration, commit, guard and prices are those
\* of the manifest; the selection stands for all of them.
ValidateResume == manifest # None => manifest.selection = selection

\* run() up to the loop: a manifest of another selection refuses the resume.
BatchStart ==
    /\ run.pc = "off"
    /\ spent.runs < MaxBatchRuns
    /\ SelectionLoads(selection)
    /\ ValidateResume
    /\ manifest' = IF manifest = None
                   THEN [selection |-> selection, sources |-> {}, finished |-> FALSE]
                   ELSE manifest
    /\ run' = [RunOff EXCEPT !.pc = "task"]
    /\ spent' = [spent EXCEPT !.runs = @ + 1]
    /\ UNCHANGED <<taskState, attempts, evidence, summary, ledger>>

AtTask == run.pc = "task" /\ run.i <= Len(selection)

\* A finished task of an earlier start: its result is counted, not repeated.
ReuseTask ==
    /\ AtTask
    /\ LoadComplete(Current)
    /\ run' = [run EXCEPT !.i = @ + 1, !.completed = Append(@, taskState[Current].result)]
    /\ UNCHANGED <<manifest, taskState, attempts, evidence, summary, ledger, spent>>

Verdict == CostGuard(ToSet(run.completed), attempts)

\* The guard ends the run before the task is started.
GuardStops ==
    /\ AtTask
    /\ ~LoadComplete(Current)
    /\ Verdict # "within_budget"
    /\ summary' = Summary(run.completed, attempts, taskState, FALSE, Verdict)
    /\ run' = RunOff
    /\ UNCHANGED <<manifest, taskState, attempts, evidence, ledger, spent>>

StartTask ==
    /\ AtTask
    /\ ~LoadComplete(Current)
    /\ Verdict = "within_budget"
    /\ LET n == NextAttempt(Current) IN
        /\ taskState' = [taskState EXCEPT ![Current] = State(n, "running", "agent", None)]
        /\ run' = [run EXCEPT !.pc = "agent", !.attempt = n, !.requests = 0, !.known = 0]
        /\ ledger' = ledger \cup
             {[task |-> Current, attempt |-> n, requests |-> 0, known |-> 0, fate |-> "open"]}
    /\ summary' = Summary(run.completed, attempts, taskState', FALSE, None)
    /\ UNCHANGED <<manifest, attempts, evidence, spent>>

\* A model request of the agent; the provider may leave its usage out.
AgentRequest(known) ==
    /\ run.pc = "agent"
    /\ run.requests < MaxRequests
    /\ LET k == IF known THEN 1 ELSE 0 IN
        /\ run' = [run EXCEPT !.requests = @ + 1, !.known = @ + k]
        /\ ledger' = {IF Open(l) THEN [l EXCEPT !.requests = @ + 1, !.known = @ + k] ELSE l
                        : l \in ledger}
    /\ UNCHANGED <<manifest, taskState, attempts, evidence, summary, spent>>

\* "budget" stands for model_step_budget_exhausted and context_budget_exceeded;
\* the latter may come before the first request.
AgentStatus == {"completed", "budget", "output_truncated"}

\* The turn ends; the patch is exported and the grader phase is announced.
AgentEnds(status) ==
    /\ run.pc = "agent"
    /\ status # "budget" => run.requests > 0
    /\ run' = [run EXCEPT !.pc = "grader", !.agent = status]
    /\ taskState' = [taskState EXCEPT ![Current].phase = "grader"]
    /\ summary' = Summary(run.completed, attempts, taskState', FALSE, None)
    /\ UNCHANGED <<manifest, attempts, evidence, ledger, spent>>

\* _completed_outcome over the grader's answer.
CompletedOutcome(agent, oracle) ==
    CASE oracle = "resolved" -> "resolved"
      [] oracle # "resolved" /\ agent = "budget" -> "budget_exhausted"
      [] oracle # "resolved" /\ agent = "output_truncated" -> "output_truncated"
      [] oracle = "unresolved" /\ agent = "completed" -> "unresolved"
      [] OTHER -> "infra_error"

\* _outcome_from_batch_report: here unresolved and an empty patch go before
\* infrastructure; an instance in no group is an invalid report.
OutcomeFromReport(groups) ==
    CASE "resolved" \in groups -> "resolved"
      [] "resolved" \notin groups /\ groups \cap {"unresolved", "empty_patch"} # {} -> "unresolved"
      [] OTHER -> "failed"

\* SWEbenchCLIGrader.grade.
Oracle(answer) ==
    IF answer.process = "report" THEN OutcomeFromReport(answer.groups) ELSE "failed"

Result(outcome) ==
    Entry(Current, run.attempt, AggregateUsage(run.requests, run.known), outcome)

\* The grader answered and the worktree is gone: _finish_task, the manifest, and
\* the task's state. An infrastructure failure of the grader ends the run.
Grade(answer) ==
    /\ run.pc = "grader"
    /\ LET outcome == CompletedOutcome(run.agent, Oracle(answer))
           broken  == outcome = "infra_error" IN
        /\ manifest' = [manifest EXCEPT !.sources = @ \cup {Current}]
        /\ taskState' = [taskState EXCEPT ![Current] =
                State(run.attempt, IF broken THEN "failed" ELSE "completed", "completed",
                      Result(outcome))]
        /\ evidence' = evidence \cup {Current}
        /\ ledger' = Close(IF broken THEN "grader" ELSE "scored")
        /\ summary' = IF broken
                      THEN Summary(run.completed, attempts, taskState', FALSE, "infra_error")
                      ELSE summary
        /\ run' = IF broken THEN RunOff ELSE [run EXCEPT !.pc = "scored", !.outcome = outcome]
    /\ UNCHANGED <<attempts, spent>>

\* After the state is on disk: the entry is appended and the summary written.
CountTask ==
    /\ run.pc = "scored"
    /\ run' = [run EXCEPT !.pc = "task", !.i = @ + 1, !.outcome = None, !.agent = None,
                          !.completed = Append(@, Result(run.outcome))]
    /\ summary' = Summary(run'.completed, attempts, taskState, FALSE, None)
    /\ UNCHANGED <<manifest, taskState, attempts, evidence, ledger, spent>>

\* _exception_outcome: errors of the provider's library, and all others.
ExceptionOutcomes == {"provider_error", "infra_error"}

\* Anything in the harness raises (source, provider, worktree, grading set-up):
\* _finish_failed_attempt writes the attempt's artifact.
HarnessRaises(outcome) ==
    /\ run.pc \in {"agent", "grader"}
    /\ outcome = "provider_error" => run.pc = "agent"
    /\ attempts' = attempts \cup
         {Entry(Current, run.attempt, UsageFromEvents(run.requests, run.known), outcome)}
    /\ ledger' = Close("failed")
    /\ run' = [run EXCEPT !.pc = "raised", !.outcome = outcome]
    /\ UNCHANGED <<manifest, taskState, evidence, summary, spent>>

\* ... then the state and the summary, and the exception leaves run().
RaiseOut ==
    /\ run.pc = "raised"
    /\ taskState' = [taskState EXCEPT ![Current] =
            State(run.attempt, "failed", "completed", None)]
    /\ summary' = Summary(run.completed, attempts, taskState', FALSE, run.outcome)
    /\ run' = RunOff
    /\ UNCHANGED <<manifest, attempts, evidence, ledger, spent>>

\* All tasks are scored: the manifest and the summary say so.
FinishBatch ==
    /\ run.pc = "task" /\ run.i > Len(selection)
    /\ manifest' = [manifest EXCEPT !.finished = TRUE]
    /\ summary' = Summary(run.completed, attempts, taskState, TRUE, None)
    /\ run' = RunOff
    /\ UNCHANGED <<taskState, attempts, evidence, ledger, spent>>

\* The process is killed; the files stay as the last write left them.
BatchCrash ==
    /\ run.pc # "off"
    /\ run' = RunOff
    /\ ledger' = Close("killed")
    /\ UNCHANGED <<manifest, taskState, attempts, evidence, summary, spent>>

\* A prediction, trajectory or events file of a finished task disappears.
LoseArtifacts(t) ==
    /\ spent.losses < MaxLosses
    /\ run.pc = "off"
    /\ t \in evidence
    /\ evidence' = evidence \ {t}
    /\ ledger' = {IF l.task = t /\ l.fate = "scored" THEN [l EXCEPT !.fate = "lost"] ELSE l
                    : l \in ledger}
    /\ spent' = [spent EXCEPT !.losses = @ + 1]
    /\ UNCHANGED <<manifest, taskState, attempts, summary, run>>

BatchNext ==
    \/ BatchStart \/ ReuseTask \/ GuardStops \/ StartTask
    \/ \E known \in BOOLEAN : AgentRequest(known)
    \/ \E status \in AgentStatus : AgentEnds(status)
    \/ \E answer \in GraderAnswers : Grade(answer)
    \/ CountTask
    \/ \E outcome \in ExceptionOutcomes : HarnessRaises(outcome)
    \/ RaiseOut \/ FinishBatch \/ BatchCrash
    \/ \E t \in Candidates : LoseArtifacts(t)

BenchmarkInit == SelInit /\ BatchInit

\* The generator and the batch are separate processes; the batch reads the
\* selection file when it starts, and nobody regenerates it under a live batch.
BenchmarkNext ==
    \/ SelNext /\ run.pc = "off" /\ manifest = None /\ UNCHANGED batchVars
    \/ BatchNext /\ gen.pc = "idle" /\ UNCHANGED selVars

BenchmarkSpec == BenchmarkInit /\ [][BenchmarkNext]_benchVars

--------------------------------------------------------------------------------
(* Properties                                                              *)

\* Every file and every variable of the two processes has its shape.
BenchmarkTypeOK ==
    /\ gen.pc \in {"idle", "scan", "preflight", "report"}
    /\ run.pc \in {"off", "task", "agent", "grader", "scored", "raised"}
    /\ evidence \subseteq Candidates
    /\ \A a \in attempts : a.task \in Candidates /\ a.attempt \in Nat
    /\ \A c \in Candidates : taskState[c] # None =>
          /\ taskState[c].status \in {"running", "failed", "completed"}
          /\ taskState[c].status = "completed" =>
                taskState[c].result # None /\ taskState[c].result.outcome \in Scored
    /\ summary # None => summary.notStarted \in 0..Len(selection)

\* Two attempts of a task never share a number, so that no artifact is written
\* over an earlier one: the number is in the state file before the attempt runs,
\* and survives a kill at any later write (run, _next_attempt).
AttemptNumbersAreUnique ==
    \A l, m \in ledger : l.task = m.task /\ l.attempt = m.attempt => l = m

\* The artifacts of failed attempts are an account: none is ever lost or changed.
AttemptsAreKept == [][attempts \subseteq attempts']_attempts

Counted == {l \in ledger : l.fate \in {"scored", "failed"}}
Before(l) == \E i \in 1..(run.i - 1) : TaskIds[i] = l.task

\* What the tasks before the present one and all failed attempts really cost.
Charged == {l \in Counted : l.fate = "failed" \/ Before(l)}

\* A task starts only while every request of the failed attempts and of the
\* scored attempts of the tasks before it, of this and of every earlier start of
\* the batch, was reported (_cost_guard, _load_failed_attempts).
SpendingIsKnown ==
    (run.pc = "agent" /\ run.requests = 0) => \A l \in Charged : l.requests = l.known

\* ... and only while what they cost leaves Minimum of the budget.
KnownSpendingIsGuarded ==
    /\ SpendingIsKnown
    /\ (run.pc = "agent" /\ run.requests = 0) =>
          SumOf(Charged, LAMBDA l : l.known) <= Budget - Minimum

\* A finished summary lists every task of the selection once, in its order.
SummaryListsTheTasks ==
    (summary # None /\ summary.finished) =>
        [i \in DOMAIN summary.tasks |-> summary.tasks[i].task] = TaskIds

\* ... and a cost it calls complete is what all scored and failed attempts cost.
FinishedSummaryIsExact ==
    /\ SummaryListsTheTasks
    /\ (summary # None /\ summary.finished /\ summary.cost.complete /\ spent.losses = 0) =>
          /\ \A l \in Counted : l.requests = l.known
          /\ summary.cost.total = SumOf(Counted, LAMBDA l : l.known)

\* A scored task is never run again while its artifacts exist, however often
\* the batch is resumed.
ScoredIsFinal ==
    [][\A t \in evidence :
          taskState[t].status = "completed" => taskState'[t] = taskState[t]]_taskState

\* The summary never takes back a completed task, unless its artifacts are gone:
\* a resumed run has loaded the earlier results before it writes a summary.
CompletedNeverShrinks ==
    [][(summary # None /\ spent.losses = 0) =>
          Len(summary'.tasks) >= Len(summary.tasks)]_summary

\* A batch that was killed, failed and resumed keeps every attempt and score,
\* starts no task beyond the money it knows to be spent, and sums up exactly.
ResumedBatchIsExact ==
    /\ [](/\ BenchmarkTypeOK
          /\ AttemptNumbersAreUnique
          /\ KnownSpendingIsGuarded
          /\ FinishedSummaryIsExact)
    /\ AttemptsAreKept
    /\ ScoredIsFinal
    /\ CompletedNeverShrinks
================================================================================
