------------------------------ MODULE History ------------------------------
(***************************************************************************)
(* The event log of a session and the programs that read it.  The writer   *)
(* appends the events of runner.py, command_service.py and execution.py in *)
(* the order the code appends them: a model request, its tool calls, the   *)
(* commands and edits they run, a Stop, an approval, a runtime error, and  *)
(* a crash of the Runtime between any two appends.                         *)
(*                                                                         *)
(* The readers are folds over the log: the product timeline                *)
(* (read_model.timeline_turns), the validation summary, the trajectory of  *)
(* a benchmark (trajectory.analyze_trajectory), the report of interrupted  *)
(* control and the paged session/events call.  They were written           *)
(* separately and read the same events; the properties say that what they  *)
(* show is what happened, and that they do not contradict one another.     *)
(*                                                                         *)
(* Slices of a turn and the increase of its budget are in Execution; here  *)
(* a turn that has used StepLimit steps waits until it is stopped.         *)
(***************************************************************************)
EXTENDS Naturals, Sequences, FiniteSets, TLC, SequencesExt

CONSTANTS
    StepLimit,        \* max_model_steps_per_user_turn
    MaxTurns,         \* bound: user messages
    MaxCalls,         \* bound: tool calls in the whole session
    MaxLog,           \* bound: no new message, request or Stop from this length on
    MaxDeaths,       \* bound: deaths of the Runtime
    MaxCondensations, \* bound: calls of the condenser
    MaxTruncations,   \* MAX_CONSECUTIVE_OUTPUT_TRUNCATIONS
    PageSize,         \* the limit of session/events
    Responses,        \* the replies the model may give, a set of sequences of
                      \* [tool, purpose, asks], and the plain kinds below
    Kinds             \* subset of {"final", "truncated", "malformed"}

VARIABLES
    log,         \* events.jsonl; an event's seq is its place
    turn,        \* number of user messages; the turn_id of a new event
    phase,       \* "idle", "loop", "responded", "tools"
    reply,       \* the response being recorded
    queue,       \* tool calls of the response not yet finished
    stage,       \* how far the first of them is
    revision,    \* candidate_revision of the metadata
    recovering,  \* truncation_messages is not empty
    malformed,   \* previous_failure is set in this slice
    job,         \* number of the running or last job
    stopping,    \* record.stop_requested
    deaths,
    ended        \* ghost: call -> how it really ended

historyVars == <<log, turn, phase, reply, queue, stage, revision, recovering, malformed,
          job, stopping, deaths, ended>>

---------------------------------------------------------------------------
(* The log.                                                                *)

Ev(type, fields) == fields @@ [type |-> type, turn |-> turn]

Nothing == [none |-> TRUE]

StepTypes == {"assistant_tool_calls", "assistant_message", "model_protocol_error",
              "model_output_truncated"}

\* FoldLeft over a log, as a recursive function.
FoldLog(op(_, _), base, l) ==
    LET f[i \in 0..Len(l)] == IF i = 0 THEN base ELSE op(f[i - 1], l[i]) IN f[Len(l)]

OfType(l, types) == SelectSeq(l, LAMBDA e : e.type \in types)

OfTurn(l) == SelectSeq(l, LAMBDA e : e.turn = turn)

StepsUsed == Len(OfType(OfTurn(log), StepTypes))

Closed(l) == turn = 0 \/ OfType(OfTurn(l), {"assistant_message", "turn_terminated"}) # <<>>

Declared(l) == UNION {Range(e.calls) : e \in Range(OfType(l, {"assistant_tool_calls"}))}

Finished(l) == {e.call : e \in Range(OfType(l, {"tool_result", "tool_denied"}))}

\* Projection refuses a log with a call that has no outcome.
OpenStep == \E c \in Declared(log) : c.id \notin Finished(log)

LatestStepIs(type) ==
    LET steps == OfType(OfTurn(log), StepTypes)
    IN steps # <<>> /\ Last(steps).type = type

ConsecutiveTruncations ==
    LET steps == OfType(OfTurn(log), StepTypes)
        other == {i \in DOMAIN steps : steps[i].type # "model_output_truncated"}
    IN Len(steps) - (IF other = {} THEN 0 ELSE CHOOSE i \in other : \A j \in other : j <= i)

---------------------------------------------------------------------------
(* The writer.                                                             *)

HistoryInit ==
    /\ log = <<>> /\ turn = 0 /\ phase = "idle" /\ reply = Nothing /\ queue = <<>>
    /\ stage = "none" /\ revision = 0 /\ recovering = FALSE /\ malformed = FALSE /\ job = 0
    /\ stopping = FALSE /\ deaths = 0 /\ ended = <<>>

\* The job ends: a Stop that was requested terminates an open turn and is
\* acknowledged in the same critical section.
JobEnds(events) ==
    LET l == log \o events
        stop == (IF Closed(l) THEN <<>> ELSE <<Ev("turn_terminated", [reason |-> "user_stop"])>>)
                \o <<Ev("execution_stop_acknowledged", [job |-> job])>>
    IN /\ log' = IF stopping THEN l \o stop ELSE l
       /\ phase' = "idle" /\ reply' = Nothing /\ queue' = <<>> /\ stage' = "none"
       /\ stopping' = FALSE
       /\ UNCHANGED <<turn, revision, recovering, malformed, job, deaths>>

Ask ==
    /\ phase = "idle" /\ Closed(log) /\ turn < MaxTurns /\ Len(log) < MaxLog
    /\ turn' = turn + 1 /\ job' = job + 1
    /\ log' = Append(log, [type |-> "user_message", turn |-> turn + 1])
    /\ phase' = "loop" /\ recovering' = FALSE /\ malformed' = FALSE
    /\ UNCHANGED <<reply, queue, stage, revision, stopping, deaths, ended>>

Continue ==
    /\ phase = "idle" /\ ~Closed(log) /\ StepsUsed < StepLimit
    /\ phase' = "loop" /\ job' = job + 1
    /\ recovering' = LatestStepIs("model_output_truncated") /\ malformed' = FALSE
    /\ UNCHANGED <<log, turn, reply, queue, stage, revision, stopping, deaths, ended>>

\* _terminate_stopped: every unfinished call of the turn is denied first.
TerminateStopped ==
    LET open == SelectSeq(FlattenSeq([i \in DOMAIN OfType(OfTurn(log), {"assistant_tool_calls"}) |->
                              OfType(OfTurn(log), {"assistant_tool_calls"})[i].calls]),
                          LAMBDA c : c.id \notin Finished(log))
    IN /\ JobEnds([i \in DOMAIN open |-> Ev("tool_denied", [call |-> open[i].id])]
                  \o <<Ev("turn_terminated", [reason |-> "user_stop"])>>)
       /\ ended' = [c \in {open[i].id : i \in DOMAIN open} |-> "denied"] @@ ended

\* The checks of the cancellation callback.
Cancelled ==
    /\ stopping
    /\ \/ phase = "loop"
       \/ phase = "responded" /\ reply.kind # "malformed"
       \/ phase = "tools" /\ stage = "none"
    /\ TerminateStopped

\* The main request.  Its usage is recorded before the response is looked at.
Request(kind, calls) ==
    /\ phase = "loop" /\ ~stopping /\ ~OpenStep /\ StepsUsed < StepLimit /\ Len(log) < MaxLog
    /\ reply' = [kind |-> kind, calls |-> calls, use |-> Len(log) + 1]
    /\ log' = Append(log, Ev("model_usage", [purpose |-> "main_agent",
                   finish |-> CASE kind = "truncated" -> "length" [] kind = "final" -> "stop" [] OTHER -> "tool_calls",
                   effort |-> IF recovering THEN "low" ELSE "high", est |-> Len(log) + 1]))
    /\ phase' = "responded"
    /\ UNCHANGED <<turn, queue, stage, revision, recovering, malformed, job, stopping, deaths, ended>>

Respond ==
    \/ \E k \in Kinds : Request(k, <<>>)
    \/ \E shape \in Responses :
           LET base == Cardinality(Declared(log)) IN
           /\ base + Len(shape) <= MaxCalls
           /\ Request("tools", [i \in DOMAIN shape |-> [id |-> base + i] @@ shape[i]])

\* A condensation before the main request: usage, attempt and, when the
\* summary is valid, context_condensed, appended together.
Condense ==
    /\ phase = "loop" /\ ~stopping /\ ~OpenStep /\ Len(log) < MaxLog
    /\ Len(OfType(log, {"context_condensation_attempt"})) < MaxCondensations
    /\ \E valid \in BOOLEAN :
         log' = log \o <<Ev("model_usage", [purpose |-> "context_condenser"]),
                         Ev("context_condensation_attempt", [valid |-> valid])>>
                    \o IF valid THEN <<Ev("context_condensed", [at |-> Len(log) + 3])>> ELSE <<>>
    /\ UNCHANGED <<turn, phase, reply, queue, stage, revision, recovering, malformed, job, stopping,
                   deaths, ended>>

BackToLoop(events) ==
    /\ log' = log \o events /\ phase' = "loop" /\ reply' = Nothing
    /\ UNCHANGED <<turn, queue, stage, revision, job, stopping, deaths, ended>>

WaitForBudget(events) ==
    JobEnds(events \o <<Ev("turn_budget_exhausted", <<>>)>>) /\ UNCHANGED ended

RecordTruncation ==
    /\ phase = "responded" /\ reply.kind = "truncated" /\ ~stopping
    /\ LET event == <<Ev("model_output_truncated", [use |-> reply.use])>> IN
       IF StepsUsed + 1 >= StepLimit THEN WaitForBudget(event)
       ELSE IF ConsecutiveTruncations + 1 < MaxTruncations
       THEN BackToLoop(event) /\ recovering' = TRUE /\ malformed' = FALSE
       ELSE /\ JobEnds(event \o <<Ev("turn_terminated", [reason |-> "output_truncated"])>>)
            /\ UNCHANGED ended

\* The same malformed arguments twice in a slice, well-formed responses in
\* between or not, end the turn with a message no request produced.
RecordMalformed ==
    /\ phase = "responded" /\ reply.kind = "malformed"
    /\ LET event == <<Ev("model_protocol_error", [use |-> reply.use])>> IN
       \E same \in {FALSE} \cup {malformed} :
         IF same THEN JobEnds(event \o <<Ev("assistant_message", [use |-> 0])>>) /\ UNCHANGED ended
         ELSE IF StepsUsed + 1 >= StepLimit THEN WaitForBudget(event)
         ELSE BackToLoop(event) /\ malformed' = TRUE /\ UNCHANGED recovering

RecordFinal ==
    /\ phase = "responded" /\ reply.kind = "final" /\ ~stopping
    /\ JobEnds(<<Ev("assistant_message", [use |-> reply.use])>>)
    /\ UNCHANGED ended

RecordCalls ==
    /\ phase = "responded" /\ reply.kind = "tools" /\ ~stopping
    /\ log' = Append(log, Ev("assistant_tool_calls", [calls |-> reply.calls, use |-> reply.use]))
    /\ phase' = "tools" /\ queue' = reply.calls /\ recovering' = FALSE /\ reply' = Nothing
    /\ UNCHANGED <<turn, stage, revision, malformed, job, stopping, deaths, ended>>

---------------------------------------------------------------------------
(* One tool call, append by append.                                        *)

CallAtHand == Head(queue)

AppendAt(from, to, events) ==
    /\ phase = "tools" /\ queue # <<>> /\ stage = from
    /\ log' = log \o events /\ stage' = to
    /\ UNCHANGED <<turn, phase, reply, queue, recovering, malformed, job, stopping, deaths>>

CallRequested ==
    /\ ~stopping
    /\ AppendAt("none", "requested", <<Ev("tool_requested", [call |-> CallAtHand.id])>>)
    /\ UNCHANGED <<revision, ended>>

\* The last append of a call; the loop goes on to the next call or request.
CallEnds(from, event, how) ==
    /\ phase = "tools" /\ queue # <<>> /\ stage \in from
    /\ log' = Append(log, event) /\ stage' = "none" /\ queue' = Tail(queue)
    /\ ended' = (CallAtHand.id :> how) @@ ended
    /\ UNCHANGED <<turn, phase, reply, revision, recovering, malformed, job, stopping, deaths>>

\* The last call was handled: the next request, or the end of the budget.
StepEnds ==
    /\ phase = "tools" /\ queue = <<>> /\ ~stopping
    /\ IF StepsUsed >= StepLimit THEN WaitForBudget(<<>>)
       ELSE BackToLoop(<<>>) /\ UNCHANGED <<recovering, malformed>>

\* Unknown tool, policy, or a refused approval of the call.
ToolDenied == CallEnds({"requested"}, Ev("tool_denied", [call |-> CallAtHand.id]), "denied")

ToolResult(from, ok) ==
    CallEnds(from, Ev("tool_result", [call |-> CallAtHand.id, tool |-> CallAtHand.tool, ok |-> ok,
                                      purpose |-> CallAtHand.purpose]),
             IF ok THEN "succeeded" ELSE "failed")

\* A handler that refuses its arguments, or a read.
PlainResult == \E ok \in BOOLEAN : (CallAtHand.tool # "read_file" => ~ok) /\ ToolResult({"requested"}, ok)

\* apply_workspace_edit: next_candidate_revision, then the event.
EditCommitted ==
    /\ CallAtHand.tool = "apply_workspace_edit"
    /\ AppendAt("requested", "edited", <<Ev("edit_transaction", [rev |-> revision + 1])>>)
    /\ revision' = revision + 1 /\ UNCHANGED ended

EditResult == ToolResult({"edited"}, TRUE)

\* run_command: a call that declares permissions asks for them first.
CommandRequested ==
    /\ CallAtHand.tool = "run_command"
    /\ AppendAt("requested", "command", <<Ev("command_requested", <<>>)>>)
    /\ UNCHANGED <<revision, ended>>

ApprovalRequested ==
    /\ CallAtHand.asks /\ ~stopping
    /\ AppendAt("command", "asking", <<Ev("approval_requested", [approval |-> Len(log) + 1])>>)
    /\ UNCHANGED <<revision, ended>>


ApprovalDecision ==
    \E allowed \in {TRUE, FALSE} :
      /\ stopping => ~allowed
      /\ AppendAt("asking", IF allowed THEN "granted" ELSE "refused",
                  <<Ev("approval_decision", [approval |-> Last(OfType(log, {"approval_requested"})).approval])>>)
      /\ UNCHANGED <<revision, ended>>

\* Refused, or stopped before it could ask.
CommandRefused ==
    ToolResult(IF CallAtHand.asks /\ stopping THEN {"refused", "command"} ELSE {"refused"}, FALSE)

\* The command ran.  A failing one and a changing one both happen.
CommandCompleted ==
    /\ stage = IF CallAtHand.asks THEN "granted" ELSE "command"
    /\ \E passed \in BOOLEAN, changed \in BOOLEAN :
       LET after == revision + IF changed THEN 1 ELSE 0 IN
       /\ AppendAt(stage, IF ~passed THEN "failed"
                          ELSE IF CallAtHand.purpose = "validation" THEN "evidence" ELSE "passed",
                   <<Ev("command_completed", [exec |-> CallAtHand.id, purpose |-> CallAtHand.purpose,
                        passed |-> passed, before |-> revision, after |-> after])>>)
       /\ revision' = after
    /\ UNCHANGED ended

ValidationCompleted ==
    /\ AppendAt("evidence", "passed", <<Ev("validation_completed", [exec |-> CallAtHand.id, rev |-> revision])>>)
    /\ UNCHANGED <<revision, ended>>

CommandResult == \/ ToolResult({"passed"}, TRUE)
                 \/ ToolResult({"failed"}, FALSE)

---------------------------------------------------------------------------
(* Stops, failures and crashes.                                            *)

Stop ==
    /\ phase # "idle" /\ ~stopping /\ Len(log) < MaxLog
    /\ stopping' = TRUE
    /\ log' = Append(log, Ev("execution_stop_requested", [job |-> job]))
    /\ UNCHANGED <<turn, phase, reply, queue, stage, revision, recovering, malformed, job, deaths, ended>>

\* supervisor.stop with no job: the turn ends here and no call is denied.
StopIdle ==
    /\ phase = "idle" /\ ~Closed(log)
    /\ log' = log \o <<Ev("execution_stop_requested", [job |-> job + 1]),
                       Ev("turn_terminated", [reason |-> "user_stop"]),
                       Ev("execution_stop_acknowledged", [job |-> job + 1])>>
    /\ job' = job + 1
    /\ UNCHANGED <<turn, phase, reply, queue, stage, revision, recovering, malformed, stopping, deaths, ended>>

\* The model client or a tool raises, or the projection of a log with an
\* open step does.
RuntimeFails ==
    /\ phase = "loop" \/ (phase = "tools" /\ stage \in {"requested", "command", "granted"})
    /\ JobEnds(<<Ev("turn_terminated", [reason |-> "runtime_error"])>>)
    /\ UNCHANGED ended

\* next_candidate_revision writes the metadata before the event is appended,
\* so the last revision may be in no event.
RuntimeDies ==
    /\ phase # "idle" /\ deaths < MaxDeaths
    /\ deaths' = deaths + 1
    /\ revision' \in {revision, revision + IF stage \in {"requested", "command", "granted"} THEN 1 ELSE 0}
    /\ phase' = "idle" /\ reply' = Nothing /\ queue' = <<>> /\ stage' = "none" /\ stopping' = FALSE
    /\ UNCHANGED <<log, turn, recovering, malformed, job, ended>>

---------------------------------------------------------------------------
(* read_model.timeline_turns.                                              *)

NewTimelineTurn(t) ==
    [turn |-> t, tools |-> <<>>, groups |-> 0, validation |-> Nothing, truncations |-> <<>>,
     waitingTruncation |-> FALSE, summaries |-> <<>>, waitingSummary |-> FALSE,
     effort |-> "none", failures |-> 0, closed |-> FALSE]

SetStatus(tools, which, status) == [i \in DOMAIN tools |-> IF which[i] THEN [tools[i] EXCEPT !.status = status] ELSE tools[i]]


\* Mutant: a completed command is given to every command of the turn.
EveryTool(tools, name) == [i \in DOMAIN tools |-> tools[i].tool = name]

\* _latest_tool: the last declared call of that name, whichever ran.
LatestTool(tools, name) ==
    [i \in DOMAIN tools |-> /\ tools[i].tool = name
                            /\ \A j \in DOMAIN tools : j > i => tools[j].tool # name]

OfCall(tools, id) == [i \in DOMAIN tools |-> tools[i].id = id]

TimelineCalls(t, e) ==
    [t EXCEPT !.groups = @ + 1,
              !.tools = @ \o [i \in DOMAIN e.calls |->
                  [id |-> e.calls[i].id, tool |-> e.calls[i].tool, status |-> "running", group |-> t.groups + 1]]]

TimelineOutcome(t, e) ==
    [t EXCEPT !.tools = SetStatus(@, OfCall(@, e.call),
         IF e.type = "tool_denied" THEN "denied" ELSE IF e.ok THEN "succeeded" ELSE "failed")]


\* Mutant: a new validation command keeps what was said of the last one.
CommandKeepsEvidence(t, e) ==
    [t EXCEPT !.tools = SetStatus(@, LatestTool(@, "run_command"), IF e.passed THEN "succeeded" ELSE "failed"),
              !.validation = IF e.purpose # "validation" THEN @
                             ELSE [status |-> IF e.passed THEN "passed" ELSE "failed",
                                   applies |-> @ # Nothing /\ @.applies]]

TimelineCommand(t, e) ==
    [t EXCEPT !.tools = SetStatus(@, LatestTool(@, "run_command"), IF e.passed THEN "succeeded" ELSE "failed"),
              !.validation = IF e.purpose = "validation"
                             THEN [status |-> IF e.passed THEN "passed" ELSE "failed", applies |-> FALSE] ELSE @]

TimelineEvidence(t, e, rev) ==
    [t EXCEPT !.validation = [status |-> IF @ = Nothing THEN "passed" ELSE @.status, applies |-> e.rev = rev]]


TimelineUsage(t, e) ==
    IF e.purpose = "context_condenser" THEN t
    ELSE [t EXCEPT
        !.summaries = IF t.waitingSummary THEN [@ EXCEPT ![Len(@)].rebuilt = e.est] ELSE @,
        !.truncations = IF t.waitingTruncation
                        THEN [@ EXCEPT ![Len(@)].to = e.effort, ![Len(@)].finish = e.finish] ELSE @,
        !.waitingSummary = FALSE, !.waitingTruncation = FALSE, !.effort = e.effort]

TimelineCondensed(t, e) ==
    [t EXCEPT !.summaries = Append(@, [retries |-> t.failures, rebuilt |-> 0]),
              !.waitingSummary = TRUE, !.failures = 0]

TimelineTruncated(t, e) ==
    [t EXCEPT !.truncations = Append(@, [from |-> t.effort, to |-> "none", finish |-> "none"]),
              !.waitingTruncation = TRUE]


TimelineTerminated(t, e) ==
    [t EXCEPT !.closed = TRUE,
              !.tools = IF e.reason \in {"user_stop", "cancelled"}
                        THEN SetStatus(@, [i \in DOMAIN @ |-> @[i].status = "running"], "cancelled") ELSE @]

TimelineEvent(t, e, rev) ==
    CASE e.type = "assistant_tool_calls" -> TimelineCalls(t, e)
      [] e.type \in {"tool_result", "tool_denied"} -> TimelineOutcome(t, e)
      [] e.type = "command_completed" -> TimelineCommand(t, e)
      [] e.type = "validation_completed" -> TimelineEvidence(t, e, rev)
      [] e.type = "model_usage" -> TimelineUsage(t, e)
      [] e.type = "context_condensation_attempt" /\ ~e.valid -> [t EXCEPT !.failures = @ + 1]
      [] e.type = "context_condensed" -> TimelineCondensed(t, e)
      [] e.type = "model_output_truncated" -> TimelineTruncated(t, e)
      [] e.type = "assistant_message" -> [t EXCEPT !.closed = TRUE]
      [] e.type = "turn_terminated" -> TimelineTerminated(t, e)
      [] OTHER -> t

timeline_turns(l, rev) ==
    LET read(turns, e) ==
          IF e.type = "user_message" THEN Append(turns, NewTimelineTurn(e.turn))
          ELSE IF turns = <<>> THEN turns
          ELSE [turns EXCEPT ![Len(turns)] = TimelineEvent(@, e, rev)]
    IN FoldLog(read, <<>>, l)

\* The status of an activity group: the worst of its calls.
GroupStatus(tools, g) ==
    LET shown == {tools[i].status : i \in {j \in DOMAIN tools : tools[j].group = g}}
    IN CASE "failed" \in shown -> "failed" [] "denied" \in shown -> "denied"
         [] "cancelled" \in shown -> "cancelled" [] "running" \in shown -> "running"
         [] OTHER -> "succeeded"

validation_summary(l, rev) ==
    LET commands == SelectSeq(l, LAMBDA e : e.type = "command_completed" /\ e.purpose = "validation")
        latest == Last(commands)
        evidence == SelectSeq(l, LAMBDA e : e.type = "validation_completed" /\ e.exec = latest.exec)
    IN IF commands = <<>> THEN Nothing
       ELSE [status |-> IF latest.passed THEN "passed" ELSE "failed",
             applies |-> evidence # <<>> /\ Last(evidence).rev = rev]

---------------------------------------------------------------------------
(* trajectory.analyze_trajectory.                                          *)

NewTrajectory == [step |-> 0, callStep |-> <<>>, edits |-> <<>>, revision |-> 0, pending |-> <<>>,
                  usage |-> <<>>, validations |-> <<>>, successes |-> {}]

EventStep(t, call) == IF call \in DOMAIN t.callStep THEN t.callStep[call] ELSE t.step


TrajectoryStep(t, e) ==
    LET n == t.step + 1 IN
    [t EXCEPT !.step = n,
              !.usage = IF t.pending # <<>> THEN (n :> Head(t.pending)) @@ @ ELSE @,
              !.pending = IF @ # <<>> THEN Tail(@) ELSE @,
              !.callStep = IF e.type = "assistant_tool_calls"
                           THEN [c \in {e.calls[i].id : i \in DOMAIN e.calls} |-> n] @@ @ ELSE @]

TrajectoryResult(t, e) ==
    IF e.tool # "run_command" \/ e.purpose # "validation" THEN t
    ELSE [t EXCEPT !.validations = Append(@, EventStep(t, e.call)),
                   !.successes = IF e.ok THEN @ \cup {EventStep(t, e.call)} ELSE @]

\* Neither event names its call, so the step is the current one.
TrajectoryEdit(t, e) ==
    IF e.rev > t.revision THEN [t EXCEPT !.revision = e.rev, !.edits = Append(@, t.step)] ELSE t


TrajectoryCommand(t, e) ==
    IF e.after > e.before
    THEN [t EXCEPT !.revision = IF e.after > @ THEN e.after ELSE @, !.edits = Append(@, t.step)] ELSE t

analyze_trajectory(l) ==
    LET read(t, e) ==
          CASE e.type = "model_usage" /\ e.purpose = "main_agent" -> [t EXCEPT !.pending = Append(@, e.est)]
            [] e.type \in StepTypes -> TrajectoryStep(t, e)
            [] e.type = "tool_result" -> TrajectoryResult(t, e)
            [] e.type = "edit_transaction" -> TrajectoryEdit(t, e)
            [] e.type = "command_completed" -> TrajectoryCommand(t, e)
            [] e.type = "validation_completed" -> [t EXCEPT !.successes = @ \cup {t.step}]
            [] OTHER -> t
    IN FoldLog(read, NewTrajectory, l)

MainUsage(e) == e.type = "model_usage" /\ e.purpose = "main_agent"

\* _truncation_recovery: the main requests before and after each truncation.
truncation_recovery(l) ==
    LET at == SelectSeq([i \in DOMAIN l |-> i], LAMBDA i : l[i].type = "model_output_truncated")
        before(i) == SelectSeq(SubSeq(l, 1, i - 1), MainUsage)
        after(i) == SelectSeq(SubSeq(l, i + 1, Len(l)), MainUsage)
    IN [k \in DOMAIN at |->
          [from |-> Last(before(at[k])).effort,
           to |-> IF after(at[k]) = <<>> THEN "none" ELSE Head(after(at[k])).effort,
           finish |-> IF after(at[k]) = <<>> THEN "none" ELSE Head(after(at[k])).finish]]

\* _condensation_detail: the main request that followed each summary.
condensation_detail(l) ==
    LET summaries == OfType(l, {"context_condensed"})
        next(s) == SelectSeq(SubSeq(l, s.at + 1, Len(l)), MainUsage)
    IN [k \in DOMAIN summaries |->
          IF next(summaries[k]) = <<>> THEN 0 ELSE Head(next(summaries[k])).est]

---------------------------------------------------------------------------
(* ProductService._interrupted_control and get_events.                     *)

Ids(l, type, field) == {e[field] : e \in Range(OfType(l, {type}))}

interrupted_control(l) ==
    IF Ids(l, "approval_requested", "approval") \ Ids(l, "approval_decision", "approval") # {}
    THEN "approval"
    ELSE IF Ids(l, "execution_stop_requested", "job") \ Ids(l, "execution_stop_acknowledged", "job") # {}
    THEN "stop" ELSE "none"


get_events(l, after, limit) ==
    LET events == SubSeq(l, after + 1, Len(l))
        first == SubSeq(events, 1, IF Len(events) < limit THEN Len(events) ELSE limit)
    IN [events |-> first, lastSeq |-> after + Len(first), hasMore |-> Len(events) > Len(first)]

\* A client that reads pages until it has them all.
ReadAll(l, from) ==
    LET read(client, n) ==
          LET answer == get_events(l, client.after, PageSize)
          IN IF n > 1 /\ ~client.more THEN client
             ELSE [after |-> answer.lastSeq, seen |-> client.seen \o answer.events, more |-> answer.hasMore]
    IN FoldLog(read, from, [i \in 1..Len(l) |-> i])

---------------------------------------------------------------------------
ToolCall ==
    /\ queue # <<>>
    /\ \/ CallRequested \/ ToolDenied \/ PlainResult \/ EditCommitted \/ EditResult
       \/ CommandRequested \/ ApprovalRequested \/ ApprovalDecision \/ CommandRefused
       \/ CommandCompleted \/ ValidationCompleted \/ CommandResult

HistoryNext ==
    \/ Ask \/ Continue \/ Cancelled \/ Respond \/ Condense
    \/ RecordTruncation \/ RecordMalformed \/ RecordFinal \/ RecordCalls
    \/ StepEnds \/ ToolCall \/ Stop \/ StopIdle \/ RuntimeFails \/ RuntimeDies

---------------------------------------------------------------------------
(* Properties.                                                             *)

Timeline == timeline_turns(log, revision)

Trajectory == analyze_trajectory(log)

\* Every variable has its type; the log grows by one turn at a time.
HistoryTypeOK ==
    /\ turn \in 0..MaxTurns /\ revision \in 0..MaxCalls /\ deaths \in 0..MaxDeaths
    /\ phase \in {"idle", "loop", "responded", "tools"} /\ {recovering, malformed, stopping} \subseteq BOOLEAN
    /\ stage \in {"none", "requested", "edited", "command", "asking", "granted", "refused", "evidence", "passed", "failed"}
    /\ \A i \in DOMAIN log : log[i].turn \in 1..turn
    /\ DOMAIN ended \subseteq {c.id : c \in Declared(log)}
    /\ queue # <<>> => phase = "tools"

\* A call whose outcome is in the log is shown with that outcome and no
\* later event of another call changes it, although command_completed names
\* no call and is given to the last declared command of the turn
\* (read_model._latest_tool); a group with a failed call is shown as failed.
CallsAreShownAsTheyEnded ==
    LET turns == Timeline IN
    \A i \in DOMAIN turns : LET tools == turns[i].tools IN
      \A k \in DOMAIN tools :
         tools[k].id \in DOMAIN ended =>
            /\ tools[k].status = ended[tools[k].id]
            /\ ended[tools[k].id] = "failed" => GroupStatus(tools, tools[k].group) = "failed"

\* When a job has ended its turn by an answer or a Stop, and the Runtime has
\* not died in that turn, the timeline shows no call of it as still running.
NothingLooksRunningAfterAStop ==
    LET turns == Timeline IN
    \A i \in DOMAIN turns :
       /\ turns[i].closed
       /\ ~\E k \in DOMAIN log : /\ log[k].turn = turns[i].turn /\ log[k].type = "turn_terminated"
                                 /\ log[k].reason = "runtime_error"
       => \A k \in DOMAIN turns[i].tools : turns[i].tools[k].status # "running"

\* The validation the timeline shows for the last turn that ran one and the
\* validation summary Accept is offered from never disagree, in whichever
\* place between the appends of a command they are read.
ValidationViewsAgree ==
    LET shown == SelectSeq(Timeline, LAMBDA t : t.validation # Nothing)
        summary == validation_summary(log, revision)
    IN IF shown = <<>> THEN summary = Nothing ELSE Last(shown).validation = summary

\* In a session of one turn, as the benchmark runs them, the timeline and the
\* trajectory tell the same truncation recoveries and the same size of the
\* request after each summary, though one folds forward and the other searches.
ReadersAgree ==
    turn = 1 => LET first == Timeline[1] IN
       /\ first.truncations = truncation_recovery(log)
       /\ [k \in DOMAIN first.summaries |-> first.summaries[k].rebuilt] = condensation_detail(log)

\* In a session of one turn whose Runtime did not die the trajectory charges
\* every step the usage of its own request: usages are matched to steps by
\* order alone, and a Stop or a repeated malformed call leaves one without
\* the other.
UsageIsPaired ==
    turn = 1 /\ deaths = 0 =>
       LET steps == OfType(log, StepTypes)
           usage == Trajectory.usage
       IN \A n \in DOMAIN steps :
            IF steps[n].use = 0 THEN n \notin DOMAIN usage
            ELSE n \in DOMAIN usage /\ usage[n] = steps[n].use

\* In a session of one turn and one call per step whose Runtime did not die,
\* the trajectory reports an edit after the last successful validation exactly
\* when the evidence of that validation is no longer about the candidate: it
\* compares steps, the product compares revisions.
EditAfterValidationIsSeen ==
    LET t == Trajectory
        evidence == OfType(log, {"validation_completed"})
    IN /\ turn = 1 /\ deaths = 0 /\ evidence # <<>>
       /\ \A e \in Range(OfType(log, {"assistant_tool_calls"})) : Len(e.calls) = 1
       => ((\E k \in DOMAIN t.edits : \A v \in t.successes : t.edits[k] > v)
             <=> Last(evidence).rev # revision)

\* After a restart the product reports an approval or a Stop that the dead
\* Runtime left unanswered, and it reports nothing when no Runtime died.
InterruptionsAreReported ==
    phase = "idle" =>
       /\ deaths = 0 => interrupted_control(log) = "none"
       /\ interrupted_control(log) = "none" =>
             \A i \in DOMAIN log :
                /\ log[i].type = "approval_requested" =>
                      \E j \in DOMAIN log : j > i /\ log[j].type = "approval_decision"
                                             /\ log[j].approval = log[i].approval
                /\ log[i].type = "execution_stop_requested" =>
                      \E j \in DOMAIN log : j > i /\ log[j].type = "execution_stop_acknowledged"
                                             /\ log[j].job = log[i].job

\* A client that reads all pages of session/events, then reads on after more
\* events were appended, has the whole log, each event once and in order.
PagesTellTheWholeLog ==
    LET some == SubSeq(log, 1, Len(log) \div 2)
        first == ReadAll(some, [after |-> 0, seen |-> <<>>, more |-> FALSE])
    IN ReadAll(log, first).seen = log

\* What the product shows of a session is what happened in it, after Stops,
\* errors and a death of the Runtime too, and its pages leave nothing out.
ShownAsItHappened ==
    /\ HistoryTypeOK
    /\ CallsAreShownAsTheyEnded
    /\ NothingLooksRunningAfterAStop
    /\ InterruptionsAreReported
    /\ PagesTellTheWholeLog

\* Programs that were written apart draw the same conclusions from one log:
\* timeline, validation summary and trajectory.
ViewsAgree ==
    /\ ReadersAgree
    /\ ValidationViewsAgree
    /\ UsageIsPaired
    /\ EditAfterValidationIsSeen
=============================================================================
