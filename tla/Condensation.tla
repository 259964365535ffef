---------------------------- MODULE Condensation ----------------------------
(***************************************************************************)
(* What the model is shown of a session: the projection of events.jsonl    *)
(* onto indivisible atoms (codeagent/context/projector.py), the chain of   *)
(* rolling summaries and the plan of the next one (context/builder.py),    *)
(* and the loop that calls the condenser until the request fits            *)
(* (AgentRunner._prepare_context, runtime/runner.py).  Another thread      *)
(* appends events of its own while the condenser is at work.               *)
(*                                                                         *)
(* An event is numbered by its position (LockedNumbersArePositions of      *)
(* SessionStoreProofs).  Token estimates are additive here: every event    *)
(* and every summary has a size.                                           *)
(***************************************************************************)
EXTENDS Integers, FiniteSets, Sequences, SequencesExt

CONSTANTS
    Sizes,            \* sizes of messages and tool results
    SummarySizes,     \* sizes of condenser output
    MaxCalls,         \* tool calls of one response (a bound)
    Instructions,     \* size of system messages, snapshot and tool schemas
    MemoryFrame,      \* size of the frame around a summary
    caps,             \* ModelCapabilities
    MAX_CONDENSER_CALLS, MAX_SOFT_CONDENSER_CALLS,
    MaxSources,       \* bound: events the context is made of
    MaxForeign        \* bound: events of the other thread

ASSUME CapsAssumption ==
    /\ Sizes \subseteq Nat \ {0} /\ SummarySizes \subseteq Nat \ {0}
    /\ {Instructions, MemoryFrame, MaxCalls, MaxSources, MaxForeign,
        MAX_CONDENSER_CALLS, MAX_SOFT_CONDENSER_CALLS} \subseteq Nat
    /\ caps \in [usable_input_budget: Nat, condenser_usable_input_budget: Nat,
                 max_events: Nat, target_events: Nat,
                 soft_percent: 0..100, target_percent: 0..100,
                 summary_max_tokens: Nat, progress_percent: 0..100]

VARIABLES
    atoms,     \* ContextProjection.atoms: the conversation in events.jsonl
    event_seq, \* the number of the last event
    condensed, \* the context_condensed events, oldest first
    pc,        \* idle, build, send, inflight, ready, exceeded, tools
    l,         \* the locals of _prepare_context
    plan,      \* the CondensationPlan at hand, or NoPlan
    request,   \* the prepared context, or NoRequest
    foreign    \* events the other thread appended

events == <<atoms, event_seq, condensed>>
contextVars == <<events, pc, l, plan, request, foreign>>

NoEvent == 0                       \* no event has number 0
NoPlan == [id |-> <<NoEvent>>]
NoRequest == [covered |-> <<>>]

-----------------------------------------------------------------------------
(* The projection: items and atoms *)

CCES == {"user_message", "assistant_tool_calls", "tool_result",
         "assistant_message", "turn_terminated"}

\* The items of an atom are known by their event numbers; sizes are theirs.
Atom(type, seq, size) ==
    [type |-> type, items |-> <<seq>>, sizes |-> <<size>>, calls |-> 0, reasoning |-> FALSE]

\* The event after derived ones is an item of the conversation.
AppendAtom(derived, atom) ==
    /\ event_seq' = event_seq + derived + 1
    /\ atoms' = Append(atoms, [atom EXCEPT !.items = <<event_seq'>>])
    /\ UNCHANGED condensed

\* A tool_result or tool_denied joins the atom of its step.
AppendOutcome(size) ==
    /\ event_seq' = event_seq + 1
    /\ LET step == Last(atoms) IN
       atoms' = [atoms EXCEPT ![Len(atoms)] =
                    [step EXCEPT !.items = Append(step.items, event_seq'),
                                 !.sizes = Append(step.sizes, size)]]
    /\ UNCHANGED condensed

\* Events that never enter the conversation.
AppendDerived(n) == event_seq' = event_seq + n /\ UNCHANGED <<atoms, condensed>>

Items(some) == FlattenSeq([n \in DOMAIN some |-> some[n].items])

\* A step is closed when every call has its outcome.
Closed(atom) == atom.type = "assistant_tool_calls" => atom.calls = Len(atom.items) - 1

\* The latest user_message: Current Task Anchor.
IsMessage(atom) == atom.type = "user_message"
AnchorAt == SelectLastInSeq(atoms, IsMessage)
Anchor == IF AnchorAt = 0 THEN NoEvent ELSE atoms[AnchorAt].items[1]

\* _mandatory_atom: the latest step of the turn, if it has reasoning.
IsStep(atom) == atom.type = "assistant_tool_calls"
MandatoryAt ==
    LET latest == SelectLastInSeq(atoms, IsStep)
    IN IF AnchorAt # 0 /\ latest > AnchorAt /\ atoms[latest].reasoning THEN latest ELSE 0

-----------------------------------------------------------------------------
(* The chain of rolling summaries *)

\* The number of items of the first n atoms.
Consumed(n) == Len(Items(SubSeq(atoms, 1, n)))

Frontiers == {Consumed(n): n \in DOMAIN atoms}

\* Does a context_condensed event go on from prior, the items that its
\* predecessor covers?
Continues(e, prior) ==
    LET reach == Len(prior) + Len(e.ids) IN
    /\ e.ids # <<>>
    /\ e.ids = SubSeq(Items(atoms), Len(prior) + 1, reach)
    /\ reach \in Frontiers
    /\ e.count = reach
    /\ e.size <= caps.summary_max_tokens

\* _valid_summary_chain: what the first n summaries cover, <<>> for those
\* that are not valid.  A summary with an invalid predecessor is invalid.
ValidChain ==
    LET chain[n \in 0..Len(condensed)] ==
            IF n = 0 THEN <<>>
            ELSE LET e == condensed[n]
                     before == chain[n - 1]
                     at == {k \in 1..(n - 1): condensed[k].seq = e.previous /\ before[k] # <<>>}
                     prior == IF e.previous = NoEvent THEN <<>> ELSE before[CHOOSE k \in at: TRUE]
                 IN Append(before,
                           IF (e.previous = NoEvent \/ at # {}) /\ Continues(e, prior)
                           THEN prior \o e.ids ELSE <<>>)
    IN chain[Len(condensed)]

\* The valid summary of chain that covers most, the latest of those.
Best(chain) ==
    LET valid == {n \in DOMAIN chain: chain[n] # <<>>}
    IN IF valid = {} THEN 0
       ELSE CHOOSE n \in valid: \A k \in valid:
                \/ Len(chain[k]) < Len(chain[n])
                \/ Len(chain[k]) = Len(chain[n]) /\ k <= n

\* select_rolling_summary; build drops it if it covers the mandatory atom.
RollingSummary ==
    LET chain == ValidChain
        best == Best(chain)
        before == Consumed(MandatoryAt - 1)
    IN IF best # 0 /\ MandatoryAt # 0 /\ Len(chain[best]) > before THEN 0 ELSE best

Covered(summary) == IF summary = 0 THEN <<>> ELSE ValidChain[summary]

\* _atoms_after_coverage: everything if the summary ends within an atom.
AtomsAfterCoverage(count) ==
    LET reached == {n \in DOMAIN atoms: Consumed(n) = count}
    IN IF reached # {} THEN SubSeq(atoms, (CHOOSE n \in reached: TRUE) + 1, Len(atoms))
       ELSE IF count > Len(Items(atoms)) THEN <<>> ELSE atoms

-----------------------------------------------------------------------------
(* Rendering and token estimates *)

SumOf(seq) ==
    LET sum[n \in 0..Len(seq)] == IF n = 0 THEN 0 ELSE sum[n - 1] + seq[n]
    IN sum[Len(seq)]

\* Reasoning is sent back for the mandatory atom only.
AtomTokens(a) ==
    SumOf(a.sizes) + (IF MandatoryAt # 0 /\ a = atoms[MandatoryAt] THEN 1 ELSE 0)

\* _render_history leaves the anchor to its own place in the request.
Rendered(some) ==
    LET anchor == {n \in DOMAIN some: some[n].items[1] = Anchor}
    IN IF anchor = {} THEN some ELSE RemoveAt(some, CHOOSE n \in anchor: TRUE)

HistoryTokens(some) ==
    LET shown == Rendered(some) IN SumOf([n \in DOMAIN shown |-> AtomTokens(shown[n])])

MemoryTokens(summary) == IF summary = 0 THEN 0 ELSE MemoryFrame + condensed[summary].size

\* Mutant: an atom counts as one message.
MessageCountOfAtom(a) == 1

\* _render_atom_message_count: a step renders one message per item.
MessageCount(a) == IF IsStep(a) THEN Len(a.items) ELSE 1

\* _split_history: the messages before and after the anchor, each known by
\* the event it renders.
SplitHistory(some) ==
    LET shown == Rendered(some)
        messages == Items(shown)
        anchor == Anchor
        pre == SumOf([n \in DOMAIN shown |->
                        IF Last(shown[n].items) < anchor THEN MessageCount(shown[n]) ELSE 0])
    IN IF anchor = NoEvent THEN <<messages, <<>>>>
       ELSE <<SubSeq(messages, 1, pre), SubSeq(messages, pre + 1, Len(messages))>>

CondenserTokens(some, summary) ==
    1 + (IF summary = 0 THEN 0 ELSE condensed[summary].size)
      + SumOf([n \in DOMAIN some |-> SumOf(some[n].sizes)])

-----------------------------------------------------------------------------
(* ContextManager.build *)

\* The shortest prefix of eligible that Enough holds of, all if none does.
Shortest(eligible, Enough(_)) ==
    LET good == {n \in DOMAIN eligible: Enough(n)}
    IN IF good = {} THEN Len(eligible) ELSE CHOOSE n \in good: \A k \in good: n <= k

AtLeast(x, y) == IF x >= y THEN x ELSE y

\* _desired_atom_count: enough to reach the targets that were exceeded.
DesiredAtomCount(uncovered, eligible, target, events_trigger, token_trigger) ==
    LET need == AtLeast(1, Len(Items(uncovered)) - caps.target_events)
        eventCut == Shortest(eligible, LAMBDA n: Len(Items(SubSeq(eligible, 1, n))) >= need)
        reserve == caps.summary_max_tokens + MemoryFrame
        tokenCut == Shortest(eligible, LAMBDA n:
            reserve + HistoryTokens(SubSeq(uncovered, n + 1, Len(uncovered))) <= target)
    IN AtLeast(IF events_trigger THEN eventCut ELSE 0, IF token_trigger THEN tokenCut ELSE 0)

\* _largest_fitting_condenser_prefix.
LargestFittingPrefix(some, summary) ==
    LET fits == {n \in DOMAIN some: CondenserTokens(SubSeq(some, 1, n), summary)
                                        <= caps.condenser_usable_input_budget}
    IN IF fits = {} THEN <<>>
       ELSE SubSeq(some, 1, CHOOSE n \in fits: \A k \in fits: k <= n)

\* The figures of the BudgetReport, with the summary and the raw tail.
ReportOn(summary, uncovered) ==
    LET anchor == IF AnchorAt = 0 THEN 0 ELSE atoms[AnchorAt].sizes[1]
        fixed == Instructions + anchor
        history == MemoryTokens(summary) + HistoryTokens(uncovered)
        available == caps.usable_input_budget - fixed
    IN [summary |-> summary, uncovered |-> uncovered,
        fixed |-> fixed, history |-> history, total |-> fixed + history,
        soft_limit |-> AtLeast(0, (caps.soft_percent * available) \div 100),
        target |-> AtLeast(0, (caps.target_percent * available) \div 100)]

ReportWith(summary) == ReportOn(summary, AtomsAfterCoverage(Len(Covered(summary))))
Report == ReportWith(RollingSummary)

\* The request that ReadyContext carries, by the events it shows.
Messages(r) ==
    [covered |-> Covered(r.summary), pre |-> SplitHistory(r.uncovered)[1],
     anchor |-> Anchor, post |-> SplitHistory(r.uncovered)[2]]

NoTrigger(triggers, suppress) == triggers = {} \/ (suppress /\ "hard" \notin triggers)

\* What build returns: a request, a plan, or that the budget is exceeded.
Ready(r) == [kind |-> "ready", report |-> r]
Exceeded(r) == [kind |-> "exceeded", report |-> r]

\* The atoms to condense next, and where the log stood when they were chosen.
CondensationPlan(r, fitting, hard) ==
    [id |-> <<r.summary, Items(fitting), event_seq>>,
     previous |-> IF r.summary = 0 THEN NoEvent ELSE condensed[r.summary].seq,
     previous_count |-> Len(Covered(r.summary)),
     ids |-> Items(fitting), atoms |-> Len(fitting),
     expected |-> event_seq, hard |-> hard]

Hard(r) == r.total > caps.usable_input_budget

Triggers(r) ==
    (IF Len(Items(r.uncovered)) > caps.max_events THEN {"events"} ELSE {})
    \cup (IF r.history > r.soft_limit THEN {"tokens"} ELSE {})
    \cup (IF Hard(r) THEN {"hard"} ELSE {})

\* The uncovered atoms before the mandatory one.
Eligible(r) ==
    LET mandatory == {n \in DOMAIN r.uncovered:
                        MandatoryAt # 0 /\ r.uncovered[n] = atoms[MandatoryAt]}
    IN IF mandatory = {} THEN r.uncovered
       ELSE SubSeq(r.uncovered, 1, (CHOOSE n \in mandatory: TRUE) - 1)

CappedAt(wanted, max_atoms) ==
    IF max_atoms = NoEvent \/ wanted <= max_atoms THEN wanted ELSE max_atoms

Desired(r, eligible, triggers, max_atoms) ==
    SubSeq(eligible, 1, CappedAt(DesiredAtomCount(r.uncovered, eligible, r.target,
        "events" \in triggers, triggers \cap {"tokens", "hard"} # {}), max_atoms))

\* The plan for the desired atoms that fit the condenser.  Without one the
\* request goes out as it is, or cannot.
PlanFor(r, desired, fitting) ==
    LET tooLittle == 100 * Len(Items(desired))
                        < caps.progress_percent * AtLeast(1, Len(Items(r.uncovered)))
    IN IF desired = <<>> \/ (~Hard(r) /\ tooLittle) \/ fitting = <<>>
       THEN IF Hard(r) THEN Exceeded(r) ELSE Ready(r)
       ELSE [kind |-> "required", report |-> r, plan |-> CondensationPlan(r, fitting, Hard(r))]

PlanDesired(r, desired) == PlanFor(r, desired, LargestFittingPrefix(desired, r.summary))

BuildFrom(r, triggers, suppress, max_atoms) ==
    IF r.fixed >= caps.usable_input_budget THEN Exceeded(r)
    ELSE IF NoTrigger(triggers, suppress) THEN Ready(r)
    ELSE PlanDesired(r, Desired(r, Eligible(r), triggers, max_atoms))

BuildOn(r, suppress, max_atoms) == BuildFrom(r, Triggers(r), suppress, max_atoms)
Build(suppress, max_atoms) == BuildOn(Report, suppress, max_atoms)

-----------------------------------------------------------------------------
(* AgentRunner._prepare_context and _call_condenser *)

FreshLocals ==
    [calls |-> 0, soft_calls |-> 0, suppress_soft |-> FALSE, plan_max_atoms |-> NoEvent,
     consecutive_invalid |-> 0, request_failures |-> {}, retry_plan |-> NoPlan,
     valid_before |-> NoEvent, passes |-> 0]

ContextInit ==
    /\ atoms = <<>> /\ event_seq = 0 /\ condensed = <<>>
    /\ pc = "idle" /\ l = FreshLocals
    /\ plan = NoPlan /\ request = NoRequest
    /\ foreign = 0

NextPass == [l EXCEPT !.passes = @ + 1]

Refuse == pc' = "exceeded" /\ plan' = NoPlan /\ l' = NextPass

\* The soft trigger is ignored from here on.
AgainWithoutSoft ==
    /\ l' = [NextPass EXCEPT !.suppress_soft = TRUE, !.valid_before = NoEvent]
    /\ UNCHANGED <<pc, plan>>

\* The plan of this pass, or the one that is to be tried again.
ChosenPlan(result) ==
    [(IF l.retry_plan # NoPlan THEN l.retry_plan ELSE result.plan)
        EXCEPT !.expected = result.plan.expected]

\* What _prepare_context does with the outcome of build.
GoOnWith(result) ==
    CASE result.kind = "ready" ->
            /\ pc' = "ready" /\ request' = Messages(result.report)
            /\ l' = NextPass /\ UNCHANGED plan
      [] result.kind = "exceeded" -> Refuse /\ UNCHANGED request
      [] result.kind = "required" ->
            /\ UNCHANGED request
            /\ IF \/ l.valid_before # NoEvent /\ result.report.total >= l.valid_before
                  \/ l.calls >= MAX_CONDENSER_CALLS
               THEN Refuse
               ELSE IF ~result.plan.hard /\ l.soft_calls >= MAX_SOFT_CONDENSER_CALLS
               THEN AgainWithoutSoft
               ELSE /\ plan' = ChosenPlan(result)
                    /\ l' = [NextPass EXCEPT !.retry_plan = NoPlan,
                                            !.valid_before = result.report.total]
                    /\ pc' = "send"

\* One pass of the loop, up to the call of the condenser.
Prepare ==
    /\ pc = "build"
    /\ \A n \in DOMAIN atoms: Closed(atoms[n])     \* else ContextNotReady
    /\ GoOnWith(Build(l.suppress_soft, l.plan_max_atoms))
    /\ UNCHANGED <<events, foreign>>

\* The plan adopts the frontier of the moment and the request goes out.
SendCondenser ==
    /\ pc = "send"
    /\ plan' = [plan EXCEPT !.expected = event_seq]
    /\ l' = [l EXCEPT !.calls = @ + 1,
                      !.soft_calls = @ + (IF plan.hard THEN 0 ELSE 1)]
    /\ pc' = "inflight"
    /\ UNCHANGED <<events, request, foreign>>

\* The provider raised: once more with the same plan if the request cannot do
\* without, otherwise on without it.
CondenserFails ==
    /\ pc = "inflight"
    /\ AppendDerived(2)              \* model_usage, context_condensation_attempt
    /\ IF ~plan.hard
       THEN /\ l' = [l EXCEPT !.suppress_soft = TRUE, !.valid_before = NoEvent]
            /\ pc' = "build"
       ELSE IF plan.id \notin l.request_failures /\ l.calls < MAX_CONDENSER_CALLS
       THEN /\ l' = [l EXCEPT !.request_failures = @ \cup {plan.id}, !.valid_before = NoEvent,
                              !.retry_plan = [plan EXCEPT !.expected = event_seq']]
            /\ pc' = "build"
       ELSE pc' = "exceeded" /\ UNCHANGED l
    /\ plan' = NoPlan
    /\ UNCHANGED <<request, foreign>>

GivesUp(invalid) == invalid >= 2

\* An unusable summary, or one whose frontier has moved: fewer atoms next
\* time, or the same again if only the frontier was stale.
InvalidCompletion(stale) ==
    /\ AppendDerived(2)              \* model_usage, context_condensation_attempt
    /\ LET invalid == l.consecutive_invalid + 1
           m == [l EXCEPT !.consecutive_invalid = invalid, !.valid_before = NoEvent]
       IN IF ~plan.hard
          THEN /\ l' = [m EXCEPT !.suppress_soft = TRUE] /\ pc' = "build"
          ELSE IF GivesUp(invalid) \/ (~stale /\ plan.atoms = 1)
          THEN pc' = "exceeded" /\ UNCHANGED l
          ELSE /\ l' = [m EXCEPT !.plan_max_atoms = IF stale THEN NoEvent ELSE plan.atoms - 1]
               /\ pc' = "build"

CondenserUnusable ==
    /\ pc = "inflight"
    /\ InvalidCompletion(FALSE)
    /\ plan' = NoPlan
    /\ UNCHANGED <<request, foreign>>

CondenserStale ==
    /\ pc = "inflight"
    /\ plan.expected # event_seq
    /\ InvalidCompletion(TRUE)
    /\ plan' = NoPlan
    /\ UNCHANGED <<request, foreign>>

\* Mutant: the count is that of the new events.
CondensedAlone(size) ==
    [seq |-> event_seq + 3, size |-> size, previous |-> plan.previous,
     ids |-> plan.ids, count |-> Len(plan.ids)]

\* The context_condensed event of a plan.
Condensed(size) ==
    [seq |-> event_seq + 3, size |-> size, previous |-> plan.previous,
     ids |-> plan.ids, count |-> plan.previous_count + Len(plan.ids)]

\* _invalid_summary_reason, of which only the size is kept.
UsableSummary(size) == size <= caps.summary_max_tokens

CondenserSucceeds(size) ==
    /\ pc = "inflight"
    /\ UsableSummary(size)
    /\ plan.expected = event_seq
    /\ event_seq' = event_seq + 3
    /\ condensed' = Append(condensed, Condensed(size))
    /\ UNCHANGED atoms
    /\ l' = [l EXCEPT !.consecutive_invalid = 0, !.plan_max_atoms = NoEvent]
    /\ pc' = "build"
    /\ plan' = NoPlan
    /\ UNCHANGED <<request, foreign>>

-----------------------------------------------------------------------------
(* The turn around it *)

Room(n) == Len(Items(atoms)) + n <= MaxSources

UserMessage(size) ==
    /\ pc = "idle" /\ Room(1)
    /\ AppendAtom(0, Atom("user_message", NoEvent, size))
    /\ pc' = "build" /\ l' = FreshLocals
    /\ UNCHANGED <<plan, request, foreign>>

\* The main model asks for n tools.
ToolCalls(n, reasoning) ==
    /\ pc = "ready" /\ Room(n + 1)
    /\ AppendAtom(1, [Atom("assistant_tool_calls", NoEvent, 1) EXCEPT
                            !.calls = n, !.reasoning = reasoning])
    /\ pc' = "tools" /\ request' = NoRequest
    /\ UNCHANGED <<l, plan, foreign>>

ToolOutcome(size) ==
    /\ pc = "tools"
    /\ AppendOutcome(size)
    /\ pc' = IF Closed(Last(atoms')) THEN "build" ELSE "tools"
    /\ l' = FreshLocals
    /\ UNCHANGED <<plan, request, foreign>>

FinalMessage ==
    /\ pc = "ready"
    /\ AppendAtom(1, Atom("assistant_message", NoEvent, 1))
    /\ pc' = "idle" /\ request' = NoRequest
    /\ UNCHANGED <<l, plan, foreign>>

\* _terminate_context_budget.
TerminateContextBudget ==
    /\ pc = "exceeded"
    /\ AppendAtom(0, Atom("turn_terminated", NoEvent, 1))
    /\ pc' = "idle"
    /\ UNCHANGED <<l, plan, request, foreign>>

\* A Stop request or an approval decision of the RPC thread.
ForeignEvent ==
    /\ pc \in {"build", "send", "inflight"}
    /\ foreign < MaxForeign
    /\ foreign' = foreign + 1
    /\ AppendDerived(1)
    /\ UNCHANGED <<pc, l, plan, request>>

Condense ==
    \/ Prepare \/ SendCondenser
    \/ CondenserFails \/ CondenserUnusable \/ CondenserStale
    \/ \E size \in SummarySizes: CondenserSucceeds(size)

ContextNext ==
    \/ Condense
    \/ \E size \in Sizes: UserMessage(size) \/ ToolOutcome(size)
    \/ \E n \in 1..MaxCalls, reasoning \in BOOLEAN: ToolCalls(n, reasoning)
    \/ FinalMessage \/ TerminateContextBudget
    \/ ForeignEvent

ContextSpec == ContextInit /\ [][ContextNext]_contextVars

-----------------------------------------------------------------------------
(* Properties *)

ContextTypeOK ==
    /\ atoms \in Seq([type: CCES, items: Seq(Nat), sizes: Seq(Nat),
                      calls: 0..MaxCalls, reasoning: BOOLEAN])
    /\ event_seq \in Nat
    /\ condensed \in Seq([seq: Nat, size: SummarySizes, previous: Nat,
                          ids: Seq(Nat), count: Nat])
    /\ pc \in {"idle", "build", "send", "inflight", "ready", "exceeded", "tools"}
    /\ l.calls \in 0..MAX_CONDENSER_CALLS
    /\ l.soft_calls \in 0..MAX_SOFT_CONDENSER_CALLS
    /\ l.plan_max_atoms \in 0..Len(atoms)
    /\ l.consecutive_invalid \in 0..1
    /\ foreign \in 0..MaxForeign
    /\ (plan # NoPlan) = (pc \in {"send", "inflight"})

\* What the model is shown accounts for the whole conversation: the summary
\* covers a prefix of whole atoms, every later item is there once and in
\* order, the current task stands at its own place and the mandatory atom is
\* not condensed (ContextManager.build).
RequestTellsEverything ==
    pc = "ready" =>
        LET task == IF request.anchor \in ToSet(request.covered) THEN <<>> ELSE <<request.anchor>>
        IN /\ request.covered \o request.pre \o task \o request.post = Items(atoms)
           /\ Len(request.covered) \in {0} \cup Frontiers
           /\ MandatoryAt # 0 =>
                atoms[MandatoryAt].items[1] \notin ToSet(request.covered)

\* The size of what a request really shows.
ShownTokens ==
    LET items == Items(atoms)
        sizes == FlattenSeq([n \in DOMAIN atoms |-> atoms[n].sizes])
        shown == ToSet(request.pre) \cup ToSet(request.post) \cup {request.anchor}
    IN Instructions
        + SumOf([n \in DOMAIN items |-> IF items[n] \in shown THEN sizes[n] ELSE 0])
        + (IF MandatoryAt # 0 THEN 1 ELSE 0)
        + (IF request.covered # <<>> THEN MemoryFrame + Last(condensed).size ELSE 0)

\* A request that is sent fits the input budget of the model, summary, task
\* and mandatory reasoning included (build, _prepare_context).
RequestFits == pc = "ready" => ShownTokens <= caps.usable_input_budget

\* Every summary that was written is found valid when it is read back, and
\* goes on where its predecessor ended: retries, smaller plans and events
\* of other threads leave neither gap nor overlap in the chain
\* (_call_condenser against _valid_summary_chain).
SummariesFormAChain ==
    LET chain == ValidChain IN
    \A n \in DOMAIN chain: /\ chain[n] # <<>>
                           /\ n > 1 => IsStrictPrefix(chain[n - 1], chain[n])

\* What has been condensed stays condensed: the summary in use is always the
\* latest one, so that neither an older one nor the raw history of a mandatory
\* atom comes back (select_rolling_summary, build).
LatestSummaryIsUsed == RollingSummary = Len(condensed)

\* The loop ends whatever the condenser answers: each pass but the last two
\* called it, and calls are limited (_prepare_context).
PreparationIsBounded == l.passes <= MAX_CONDENSER_CALLS + 2

\* A request that is sent tells the whole conversation, once and in order, and
\* fits; and the loop that prepares it ends.
PreparationIsSound ==
    /\ ContextTypeOK
    /\ RequestTellsEverything
    /\ RequestFits
    /\ PreparationIsBounded

\* Summaries cover the conversation without gap and overlap through retries and
\* stale frontiers, and the latest one is in use.
SummariesAreChained == SummariesFormAChain /\ LatestSummaryIsUsed
=============================================================================
