----------------------------- MODULE Execution ------------------------------
(***************************************************************************)
(* Execution of user turns in one session of the product process:          *)
(* the ExecutionSupervisor (codeagent/product/execution.py), which the     *)
(* single RPC thread calls to start, continue, stop and approve, and the   *)
(* worker thread of the active job, which runs AgentRunner's slices        *)
(* (codeagent/runtime/runner.py) under the turn budget                     *)
(* (codeagent/runtime/turn_budget.py).                                     *)
(*                                                                         *)
(* The turn is kept as the projection of its events that the code computes *)
(* again and again (current_turn_budget and the helpers of the runner).    *)
(* Supervisor methods run under the supervisor lock and are one step; the  *)
(* worker is interruptible wherever it calls the model, a tool or the      *)
(* approval gate, or looks at the stop flag.  The process may crash at any *)
(* of these points: job, approval and worker vanish, the events stay.      *)
(***************************************************************************)
EXTENDS Integers, FiniteSets

CONSTANTS
    SliceSteps,         \* max_steps_per_turn: model steps of one slice
    TurnSteps,          \* max_model_steps_per_user_turn: budget of a new turn
    BudgetCap,          \* MAX_USER_TURN_BUDGET
    MaxTruncations,     \* MAX_CONSECUTIVE_OUTPUT_TRUNCATIONS
    MaxRepairs,         \* protocol failures tolerated in a slice
    MaxCondenserCalls,  \* MAX_CONDENSER_CALLS_PER_MODEL_STEP
    Fingerprints,       \* (tool, raw arguments) pairs of malformed calls
    NoFingerprint,
    NoRecord, NoApproval,
    MaxCalls,           \* bound: tool calls in one response
    MaxJobs,            \* bound: jobs started, idle stops included
    MaxCrashes,         \* bound: crashes of the process
    ToolsMayRaise       \* a tool handler may let an exception escape

\* What the supervisor keeps of a job and of a request for approval.
Records == [job: 1..MaxJobs, state: {"running", "awaiting_approval", "stopping"},
            stop: BOOLEAN, pending: BOOLEAN]
Approvals == [job: 1..MaxJobs, kind: {"workspace_upgrade", "command_permissions"},
              decision: {"none", "allow", "deny"}]

ASSUME ExecutionAssumption ==
    /\ {SliceSteps, TurnSteps, BudgetCap, MaxTruncations, MaxRepairs,
        MaxCondenserCalls, MaxCalls, MaxJobs, MaxCrashes} \subseteq Nat
    /\ SliceSteps > 0 /\ TurnSteps > 0 /\ MaxTruncations > 0
    /\ NoFingerprint \notin Fingerprints
    /\ NoRecord \notin Records /\ NoApproval \notin Approvals
    /\ ToolsMayRaise \in BOOLEAN

VARIABLES
    turn,      \* what the events of the latest turn say
    open,      \* calls of its last tool step without tool_result/tool_denied
    poisoned,  \* a turn was closed over such calls: project_events raises
    ws,        \* workspace_state in session.json
    record,    \* the session's ExecutionRecord, or NoRecord
    approval,  \* the PendingApproval of the job, or NoApproval
    w,         \* the worker thread of the job: program counter and locals
    jobs,      \* jobs so far
    stops,     \* jobs with an execution_stop_requested event
    acks,      \* jobs with an execution_stop_acknowledged event
    late,      \* calls begun after the job's Stop: main model, condenser, tool
    crashes

vars == <<turn, open, poisoned, ws, record, approval, w, jobs, stops, acks,
          late, crashes>>

-----------------------------------------------------------------------------
(* The projection of a turn *)

\* used, limit: current_turn_budget.  endings: assistant_message and
\* turn_terminated events.  noticed: the limit of the last
\* turn_budget_exhausted.  tail: type and length of the run of equal model
\* steps at the end.  decisions: approval_decision payloads.
NewTurn == [used |-> 0, limit |-> TurnSteps, endings |-> 0, reason |-> "open",
            noticed |-> 0, tail |-> [type |-> "none", n |-> 0],
            decisions |-> {}]

\* Before the first user_message there is no turn, and nothing to continue.
NoTurn == [NewTurn EXCEPT !.endings = 1, !.reason = "none"]

closed == turn.endings > 0
waiting == ~closed /\ turn.used >= turn.limit

\* Append a model step event.
Longer(tail, type) == IF tail.type = type THEN [tail EXCEPT !.n = @ + 1]
                      ELSE [type |-> type, n |-> 1]

WithStep(tn, type) == [tn EXCEPT !.used = @ + 1, !.tail = Longer(@, type)]

\* Append the event that ends the turn.
WithEnd(tn, reason) == [tn EXCEPT !.endings = @ + 1, !.reason = reason]

\* _wait_for_budget: turn_budget_exhausted, once per limit.
WithNotice(tn) == [tn EXCEPT !.noticed = tn.limit]

UpgradeRefused(tn) ==
    \E d \in tn.decisions: ~d.allowed /\ d.kind = "workspace_upgrade"

-----------------------------------------------------------------------------
(* The worker's locals *)

\* left: iterations of the slice; limit: budget.limit read at its start;
\* failures, previous: protocol_failures and previous_failure; refused:
\* _workspace_upgrade_denied_this_turn; calls: tool calls of the response
\* still to handle; condensed: condenser calls for this step; upgrade: the
\* registered protected tools are the ones of _register_upgrade_tools.
NoWorker == [pc |-> "none", message |-> FALSE, left |-> 0, limit |-> 0,
             failures |-> 0, previous |-> NoFingerprint, refused |-> FALSE,
             calls |-> 0, condensed |-> 0, upgrade |-> FALSE]

At(label) == w.pc = label
Goto(label) == w' = [w EXCEPT !.pc = label]

stopping == record.stop

NothingLate == [main |-> 0, condenser |-> 0, tool |-> 0]

\* A call of this kind begins.
Begin(kind) == late' = IF stopping THEN [late EXCEPT ![kind] = @ + 1] ELSE late

Init ==
    /\ turn = NoTurn
    /\ open = 0 /\ poisoned = FALSE
    /\ ws = "source_only"
    /\ record = NoRecord /\ approval = NoApproval
    /\ w = NoWorker
    /\ jobs = 0 /\ stops = {} /\ acks = {}
    /\ late = NothingLate
    /\ crashes = 0

session == <<turn, open, poisoned, ws>>
supervisor == <<record, approval, jobs, stops, acks>>

\* Ending a turn over unanswered calls makes every later projection raise
\* ContextNotReady.
End(tn, reason) ==
    /\ turn' = WithEnd(tn, reason)
    /\ poisoned' = (poisoned \/ open > 0)
    /\ UNCHANGED <<open, ws>>

-----------------------------------------------------------------------------
(* Supervisor methods, called by the RPC thread *)

Launch(message) ==
    /\ jobs < MaxJobs
    /\ jobs' = jobs + 1
    /\ record' = [job |-> jobs + 1, state |-> "running", stop |-> FALSE,
                  pending |-> FALSE]
    /\ w' = [NoWorker EXCEPT !.pc = "start", !.message = message]
    /\ late' = NothingLate
    /\ UNCHANGED <<approval, stops, acks, crashes>>

\* session/run
StartMessage ==
    /\ record = NoRecord
    /\ closed
    /\ Launch(TRUE)
    /\ UNCHANGED session

\* session/continue
StartContinuation ==
    /\ record = NoRecord
    /\ ~closed /\ ~waiting
    /\ Launch(FALSE)
    /\ UNCHANGED session

\* session/increaseBudget: increase_turn_budget, then a continuation.
StartWithIncrease ==
    /\ record = NoRecord
    /\ ws \in {"source_only", "changes_active"}
    /\ waiting
    /\ \E new \in (turn.limit + 1)..BudgetCap: turn' = [turn EXCEPT !.limit = new]
    /\ Launch(FALSE)
    /\ UNCHANGED <<open, poisoned, ws>>

\* stop() without a job: the turn is ended at once.
StopIdle ==
    /\ record = NoRecord
    /\ ~closed
    /\ jobs < MaxJobs
    /\ jobs' = jobs + 1
    /\ stops' = stops \cup {jobs + 1}
    /\ acks' = acks \cup {jobs + 1}
    /\ End(turn, "user_stop")
    /\ UNCHANGED <<record, approval, w, late, crashes>>

\* stop() with a job: flag, event (once), a pending approval is refused.
StopActive ==
    /\ record # NoRecord
    /\ record' = [record EXCEPT !.stop = TRUE, !.state = "stopping"]
    /\ stops' = stops \cup {record.job}
    /\ approval' = IF record.pending THEN [approval EXCEPT !.decision = "deny"]
                   ELSE approval
    /\ UNCHANGED <<session, w, jobs, acks, late, crashes>>

resolve_approval ==
    /\ record # NoRecord
    /\ approval # NoApproval /\ approval.job = record.job
    /\ ~stopping
    /\ \E d \in {"allow", "deny"}: approval' = [approval EXCEPT !.decision = d]
    /\ UNCHANGED <<session, record, w, jobs, stops, acks, late, crashes>>

-----------------------------------------------------------------------------
(* The worker: AgentRunner *)

\* Mutant: the calls that were not executed stay without an outcome.
TerminateStoppedOverCalls ==
    /\ turn' = WithEnd(turn, "user_stop")
    /\ poisoned' = (poisoned \/ open > 0)
    /\ Goto("finally")
    /\ UNCHANGED <<open, ws, supervisor, late, crashes>>

\* _terminate_stopped: unanswered calls are denied, then the turn ends.
TerminateStopped ==
    /\ open' = 0
    /\ turn' = WithEnd(turn, "user_stop")
    /\ Goto("finally")
    /\ UNCHANGED <<poisoned, ws, supervisor, late, crashes>>

\* build_agent_runner, then run_turn appends the user_message ...
run_turn ==
    /\ At("start") /\ w.message
    /\ turn' = NewTurn
    /\ open' = 0
    /\ w' = [w EXCEPT !.pc = "slice", !.upgrade = (ws = "source_only")]
    /\ UNCHANGED <<poisoned, ws, supervisor, late, crashes>>

\* ... and continue_turn wants a turn that is not closed.
continue_turn ==
    /\ At("start") /\ ~w.message
    /\ w' = [w EXCEPT !.pc = IF closed THEN "except" ELSE "slice",
                      !.upgrade = (ws = "source_only")]
    /\ UNCHANGED <<session, supervisor, late, crashes>>

MinOf(a, b) == IF a < b THEN a ELSE b

\* Mutant: a slice is not cut to what is left of the budget.
BeginFullSlice ==
    /\ At("slice")
    /\ \/ stopping /\ TerminateStopped
       \/ /\ ~stopping
          /\ IF turn.used >= turn.limit
             THEN turn' = WithNotice(turn) /\ Goto("finally")
             ELSE /\ turn' = turn
                  /\ w' = [w EXCEPT
                            !.pc = "loop", !.refused = UpgradeRefused(turn),
                            !.limit = turn.limit, !.left = SliceSteps,
                            !.failures = 0, !.previous = NoFingerprint]
          /\ UNCHANGED <<open, poisoned, ws, supervisor, late, crashes>>

\* The part of _run_slice before its loop.
BeginSlice ==
    /\ At("slice")
    /\ \/ stopping /\ TerminateStopped
       \/ /\ ~stopping
          /\ IF turn.used >= turn.limit
             THEN turn' = WithNotice(turn) /\ Goto("finally")
             ELSE /\ turn' = turn
                  /\ w' = [w EXCEPT
                            !.pc = "loop", !.refused = UpgradeRefused(turn),
                            !.limit = turn.limit,
                            !.left = MinOf(SliceSteps, turn.limit - turn.used),
                            !.failures = 0, !.previous = NoFingerprint]
          /\ UNCHANGED <<open, poisoned, ws, supervisor, late, crashes>>

\* The head of the loop, with the stop check before the context is prepared.
Iterate ==
    /\ At("loop") /\ w.left > 0
    /\ \/ stopping /\ TerminateStopped
       \/ /\ ~stopping
          /\ w' = [w EXCEPT !.pc = "prepare", !.left = @ - 1, !.condensed = 0]
          /\ UNCHANGED <<session, supervisor, late, crashes>>

\* The loop is over: wait for budget, or execution_slice_exhausted and the
\* supervisor continues the same turn with the next slice.
EndSlice ==
    /\ At("loop") /\ w.left = 0
    /\ IF turn.used >= w.limit
       THEN turn' = WithNotice(turn) /\ Goto("finally")
       ELSE turn' = turn /\ Goto("slice")
    /\ UNCHANGED <<open, poisoned, ws, supervisor, late, crashes>>

\* _prepare_context calls the condenser model; the stop flag is not looked at.
CallCondenser ==
    /\ At("prepare") /\ open = 0 /\ ~poisoned
    /\ w.condensed < MaxCondenserCalls
    /\ w' = [w EXCEPT !.pc = "condense", !.condensed = @ + 1]
    /\ Begin("condenser")
    /\ UNCHANGED <<session, supervisor, crashes>>

CondenserReturns ==
    /\ At("condense")
    /\ Goto("prepare")
    /\ UNCHANGED <<session, supervisor, late, crashes>>

\* The context is ready: last stop check, then model.complete.
CallModel ==
    /\ At("prepare") /\ open = 0 /\ ~poisoned
    /\ \/ stopping /\ TerminateStopped
       \/ /\ ~stopping
          /\ Goto("model")
          /\ Begin("main")
          /\ UNCHANGED <<session, supervisor, crashes>>

\* _terminate_context_budget
ContextExceeded ==
    /\ At("prepare") /\ open = 0 /\ ~poisoned
    /\ End(turn, "context_budget_exceeded")
    /\ Goto("finally")
    /\ UNCHANGED <<supervisor, late, crashes>>

\* project_events raises ContextNotReady on a history with an open tool step.
ContextNotReady ==
    /\ At("prepare") /\ (open > 0 \/ poisoned)
    /\ Goto("except")
    /\ UNCHANGED <<session, supervisor, late, crashes>>

ModelRaises ==
    /\ At("model")
    /\ Goto("except")
    /\ UNCHANGED <<session, supervisor, late, crashes>>

\* MalformedToolArgumentsError: repaired a few times, the same arguments twice
\* end the turn with an assistant_message of the Runtime.
ModelMalformed(f) ==
    /\ At("model")
    /\ LET failed == WithStep(turn, "protocol_error")
       IN  IF w.failures + 1 > MaxRepairs \/ f = w.previous
           THEN /\ turn' = WithEnd([failed EXCEPT !.used = @ + 1], "protocol")
                /\ Goto("finally")
           ELSE /\ turn' = failed
                /\ w' = [w EXCEPT !.pc = "loop", !.failures = @ + 1,
                                  !.previous = f]
    /\ UNCHANGED <<open, poisoned, ws, supervisor, late, crashes>>

\* _record_output_truncation: the budget comes first, then the streak.
RecordTruncation ==
    LET truncated == WithStep(turn, "truncated")
    IN  IF truncated.used >= w.limit
        THEN turn' = WithNotice(truncated) /\ Goto("finally")
        ELSE IF truncated.tail.n >= MaxTruncations
        THEN turn' = WithEnd(truncated, "output_truncated") /\ Goto("finally")
        ELSE /\ turn' = truncated
             /\ w' = [w EXCEPT !.pc = "loop", !.failures = 0,
                               !.previous = NoFingerprint]

\* Malformed arguments of a truncated response: recorded without stop check.
ModelMalformedTruncated ==
    /\ At("model")
    /\ RecordTruncation
    /\ UNCHANGED <<open, poisoned, ws, supervisor, late, crashes>>

\* A response is looked at only if the job was not stopped meanwhile.
ModelStopped ==
    /\ At("model") /\ stopping
    /\ TerminateStopped

ModelTruncated ==
    /\ At("model") /\ ~stopping
    /\ RecordTruncation
    /\ UNCHANGED <<open, poisoned, ws, supervisor, late, crashes>>

ModelFinal ==
    /\ At("model") /\ ~stopping
    /\ End(WithStep(turn, "message"), "final")
    /\ Goto("finally")
    /\ UNCHANGED <<supervisor, late, crashes>>

ModelCalls ==
    /\ At("model") /\ ~stopping
    /\ turn' = WithStep(turn, "tool_calls")
    /\ \E n \in 1..MaxCalls:
          /\ open' = n
          /\ w' = [w EXCEPT !.pc = "tool", !.calls = n]
    /\ UNCHANGED <<poisoned, ws, supervisor, late, crashes>>
-----------------------------------------------------------------------------
(* Tool calls *)

\* Mutant: the calls of a response are handled without looking at the flag.
HandleToolCallUnchecked ==
    /\ At("tool") /\ w.calls > 0
    /\ Goto("handler")
    /\ Begin("tool")
    /\ UNCHANGED <<session, supervisor, crashes>>

\* The loop over response.tool_calls: stop check, then _handle_tool_call.
HandleToolCall ==
    /\ At("tool") /\ w.calls > 0
    /\ \/ stopping /\ TerminateStopped
       \/ /\ ~stopping
          /\ Goto("handler")
          /\ Begin("tool")
          /\ UNCHANGED <<session, supervisor, crashes>>

CallsDone ==
    /\ At("tool") /\ w.calls = 0
    /\ Goto("loop")
    /\ UNCHANGED <<session, supervisor, late, crashes>>

\* The call gets its tool_result or tool_denied; the stop flag is looked at
\* again before the loop goes on.
Answer(worker) ==
    IF stopping
    THEN /\ open' = 0
         /\ turn' = WithEnd(turn, "user_stop")
         /\ w' = [worker EXCEPT !.pc = "finally", !.calls = @ - 1]
    ELSE /\ open' = open - 1
         /\ turn' = turn
         /\ w' = [worker EXCEPT !.pc = "tool", !.calls = @ - 1]

\* A tool that needs no approval, or whose approval was given: it returns a
\* result, successful or not.  A command whose process tree cannot be stopped
\* leaves the workspace in recovery_required.
ToolReturns ==
    /\ At("handler")
    /\ Answer(w)
    /\ ws' \in {ws} \cup (IF ws = "changes_active" THEN {"recovery_required"} ELSE {})
    /\ UNCHANGED <<poisoned, supervisor, late, crashes>>

ToolRaises ==
    /\ At("handler") /\ ToolsMayRaise
    /\ Goto("except")
    /\ UNCHANGED <<session, supervisor, late, crashes>>

\* await_approval, first half: refused at once when the job is stopping.
AwaitApproval(kind) ==
    \/ /\ stopping
       /\ Answer([w EXCEPT !.refused = (@ \/ kind = "workspace_upgrade")])
       /\ UNCHANGED <<poisoned, ws, supervisor, late, crashes>>
    \/ /\ ~stopping
       /\ record' = [record EXCEPT !.state = "awaiting_approval", !.pending = TRUE]
       /\ approval' = [job |-> record.job, kind |-> kind, decision |-> "none"]
       /\ Goto("await")
       /\ UNCHANGED <<session, jobs, stops, acks, late, crashes>>

\* A protected tool in a source_only session asks for the worktree
\* (_upgrade_and_dispatch), unless that was refused before in this turn.
RequestUpgrade ==
    /\ At("handler") /\ w.upgrade /\ ws # "recovery_required"
    /\ ~w.refused
    /\ AwaitApproval("workspace_upgrade")

\* A command that needs permissions asks for them (CommandService).
RequestPermissions ==
    /\ At("handler") /\ ws = "changes_active"
    /\ AwaitApproval("command_permissions")

\* The payload of the approval_decision event: ids, allowed and aborted.  It
\* names neither the kind of the request nor a reason.
approval_decision(allowed) == [allowed |-> allowed, kind |-> "none"]

\* await_approval, second half: a decision or a Stop ends the wait.
ApprovalDecided ==
    /\ At("await")
    /\ approval.decision # "none" \/ stopping
    /\ LET allowed == approval.decision = "allow" /\ ~stopping
           upgrade == approval.kind = "workspace_upgrade"
           decided == [turn EXCEPT
                         !.decisions = @ \cup {approval_decision(allowed)}]
       IN  /\ record' = [record EXCEPT !.pending = FALSE,
                          !.state = IF stopping THEN "stopping" ELSE "running"]
           /\ turn' = decided
           /\ w' = [w EXCEPT !.pc = IF ~allowed THEN "refused"
                                    ELSE IF upgrade THEN "upgrade" ELSE "handler",
                             !.refused = (@ \/ (upgrade /\ ~allowed))]
    /\ approval' = NoApproval
    /\ UNCHANGED <<open, poisoned, ws, jobs, stops, acks, late, crashes>>

\* The tool reports the refusal as its result.
ToolRefused ==
    /\ At("refused")
    /\ Answer(w)
    /\ UNCHANGED <<poisoned, ws, supervisor, late, crashes>>

\* begin_workspace_upgrade
BeginUpgrade ==
    /\ At("upgrade")
    /\ ws' = "preparing_workspace"
    /\ Goto("upgrading")
    /\ UNCHANGED <<turn, open, poisoned, supervisor, late, crashes>>

\* The worktree exists and its services are built: activate_workspace, and the
\* tool is dispatched to its real handler.
UpgradeSucceeds ==
    /\ At("upgrading")
    /\ ws' = "changes_active"
    /\ w' = [w EXCEPT !.pc = "handler", !.upgrade = FALSE]
    /\ UNCHANGED <<turn, open, poisoned, supervisor, late, crashes>>

\* Creation failed: rolled back to source_only, or not even that.
UpgradeFails ==
    /\ At("upgrading")
    /\ ws' \in {"source_only", "recovery_required"}
    /\ Answer(w)
    /\ UNCHANGED <<poisoned, supervisor, late, crashes>>

-----------------------------------------------------------------------------
(* The end of the job: ExecutionSupervisor._run *)

\* except: a turn that is still open is ended with runtime_error.
RuntimeError ==
    /\ At("except")
    /\ IF closed THEN UNCHANGED session ELSE End(turn, "runtime_error")
    /\ Goto("finally")
    /\ UNCHANGED <<supervisor, late, crashes>>

\* Mutant: a Stop that arrives after the runner has returned is ignored.
FinishIgnoringStop ==
    /\ At("finally")
    /\ UNCHANGED session
    /\ acks' = IF stopping THEN acks \cup {record.job} ELSE acks
    /\ record' = NoRecord
    /\ w' = NoWorker
    /\ UNCHANGED <<approval, jobs, stops, late, crashes>>

\* finally, under the supervisor lock: the last look at the stop flag, the
\* acknowledgement and the removal of the job are one step.
Finish ==
    /\ At("finally")
    /\ IF stopping /\ ~closed THEN End(turn, "user_stop") ELSE UNCHANGED session
    /\ acks' = IF stopping THEN acks \cup {record.job} ELSE acks
    /\ record' = NoRecord
    /\ w' = NoWorker
    /\ UNCHANGED <<approval, jobs, stops, late, crashes>>

\* The process dies.  Only the session's files survive.
Crash ==
    /\ crashes < MaxCrashes
    /\ crashes' = crashes + 1
    /\ record' = NoRecord /\ approval' = NoApproval /\ w' = NoWorker
    /\ UNCHANGED <<session, jobs, stops, acks, late>>

Rpc == StartMessage \/ StartContinuation \/ StartWithIncrease \/ StopIdle
       \/ StopActive \/ resolve_approval

ModelStep == \/ ModelRaises \/ ModelMalformedTruncated \/ ModelStopped
             \/ ModelTruncated \/ ModelFinal \/ ModelCalls
             \/ \E f \in Fingerprints: ModelMalformed(f)

ToolStep == \/ HandleToolCall \/ CallsDone \/ ToolReturns \/ ToolRaises
            \/ RequestUpgrade \/ RequestPermissions \/ ApprovalDecided
            \/ ToolRefused \/ BeginUpgrade \/ UpgradeSucceeds \/ UpgradeFails

Worker == \/ run_turn \/ continue_turn \/ BeginSlice \/ Iterate \/ EndSlice
          \/ CallCondenser \/ CondenserReturns \/ CallModel \/ ContextExceeded
          \/ ContextNotReady \/ ModelStep \/ ToolStep \/ RuntimeError \/ Finish

Next == Rpc \/ Worker \/ Crash

\* The worker thread runs on: model requests and commands have timeouts, and
\* nothing else it does can block but the wait for an approval.  The user and
\* crashes are not fair.
Spec == Init /\ [][Next]_vars /\ WF_vars(Worker)
-----------------------------------------------------------------------------
(* Properties *)

Labels == {"none", "start", "slice", "loop", "prepare", "condense", "model",
           "tool", "handler", "await", "refused", "upgrade", "upgrading",
           "except", "finally"}

Tails == [type: {"none", "tool_calls", "message", "protocol_error", "truncated"},
          n: Nat]

Reasons == {"none", "open", "final", "protocol", "user_stop", "runtime_error",
            "context_budget_exceeded", "output_truncated"}

Decisions == [allowed: BOOLEAN, kind: {"none", "workspace_upgrade"}]

Turns == [used: Nat, limit: Nat, endings: Nat, reason: Reasons, noticed: Nat,
          tail: Tails, decisions: SUBSET Decisions]

Workers == [pc: Labels, message: BOOLEAN, left: Nat, limit: Nat, failures: Nat,
            previous: Fingerprints \cup {NoFingerprint}, refused: BOOLEAN,
            calls: 0..MaxCalls, condensed: 0..MaxCondenserCalls, upgrade: BOOLEAN]

\* Every variable has its type, and a worker exists exactly while the
\* supervisor has a record of its job.
TypeOK ==
    /\ turn \in Turns
    /\ open \in 0..MaxCalls
    /\ poisoned \in BOOLEAN
    /\ ws \in {"source_only", "preparing_workspace", "changes_active", "recovery_required"}
    /\ record \in {NoRecord} \cup Records
    /\ approval \in {NoApproval} \cup Approvals
    /\ w \in Workers
    /\ (record = NoRecord) <=> At("none")
    /\ jobs \in 0..MaxJobs
    /\ stops \subseteq 1..jobs /\ acks \subseteq 1..jobs
    /\ late \in [main: Nat, condenser: Nat, tool: Nat]
    /\ crashes \in 0..MaxCrashes

\* A turn is ended by one event, although the runner, the supervisor's except
\* and finally clauses and the idle Stop all may end it.
TurnEndsOnce == turn.endings <= 1

\* Nothing is added to a turn after the event that ended it: the next change
\* of the projection is a new user_message.
NothingAfterEnd == [][(closed /\ turn' # turn) => turn' = NewTurn]_vars

\* Slices, protocol repairs, truncations, crashes and continuations together
\* never record more model steps than the limit; only the Runtime's own closing
\* assistant_message after protocol failures may come on top.
UsedWithinLimit ==
    turn.used <= IF turn.reason = "protocol" THEN turn.limit + 1 ELSE turn.limit

\* When the job is gone and the turn waits for budget, turn_budget_exhausted
\* was recorded for the current limit, whichever of the three places in the
\* runner noticed it.
BudgetWaitIsNoticed ==
    (record = NoRecord /\ waiting /\ crashes = 0) => turn.noticed = turn.limit

\* Every execution_stop_requested is answered by an acknowledgement before its
\* job is removed: a Stop that arrives while the job ends is not lost.
StopsAreAcknowledged ==
    crashes = 0 =>
        \A j \in stops \ acks: record # NoRecord /\ record.job = j /\ record.stop

\* The pending approval is the one the worker of the current job waits for: a
\* decision can never reach another job or a later request.
ApprovalIsAwaited ==
    /\ approval # NoApproval =>
          record # NoRecord /\ record.pending /\ approval.job = record.job
    /\ (record # NoRecord /\ record.pending) <=> At("await")
    /\ At("await") => approval # NoApproval

\* After a Stop no main model call and no tool call begins, and the condenser
\* is called at most as often as one model step allows.
StopBoundsCalls ==
    /\ late.main = 0 /\ late.tool = 0
    /\ late.condenser <= MaxCondenserCalls

\* What runner.py:596 and execution.py:140 say: calls that were not executed are
\* closed too, so that a later turn can be built on the history (project_events
\* raises once a turn was ended over calls without an outcome).
ConversationSurvives == ~poisoned

\* The history stays one a later turn can be built on, whether a turn ends by
\* itself or by a Stop at any moment: calls stay open only after a crash, or
\* where an exception ends the turn (_terminate_turn, the except clause).
OnlyErrorsLeaveCallsOpen ==
    [][(poisoned' /\ ~poisoned /\ crashes = 0) => turn'.reason = "runtime_error"]_vars

\* A Stop ends the job and its turn, wherever the worker was, the wait for an
\* approval included; only a crash of the process comes before it.
StopEndsTheTurn ==
    (record # NoRecord /\ record.stop) ~> (record = NoRecord /\ (closed \/ crashes > 0))

\* A job never hangs or runs on for ever: it ends or waits for the user.
JobSettles == (record # NoRecord) ~> (record = NoRecord \/ At("await"))

\* What the user says reaches the job it was said to, and no other: a Stop at
\* any moment is acknowledged and keeps calls from beginning, a decision is
\* applied only while its own request waits (stop, resolve_approval, _run).
ControlReachesItsJob ==
    /\ TypeOK
    /\ StopsAreAcknowledged
    /\ StopBoundsCalls
    /\ ApprovalIsAwaited

\* Slices, repairs, truncations, continuations and crashes together never use
\* more than the budget, and a turn that waits for more says so
\* (current_turn_budget, _run_slice).
TurnKeepsItsBudget == UsedWithinLimit /\ BudgetWaitIsNoticed

\* Whoever ends a turn (runner, except clause, finally clause, idle Stop), it
\* ends once, is left alone afterwards, and only an error leaves calls open.
TurnEndsForGood == []TurnEndsOnce /\ NothingAfterEnd /\ OnlyErrorsLeaveCallsOpen

\* Every job ends or waits for the user, and a Stop ends it and its turn.
JobsEnd == StopEndsTheTurn /\ JobSettles
=============================================================================
