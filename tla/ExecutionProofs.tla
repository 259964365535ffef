-------------------------- MODULE ExecutionProofs ---------------------------
(***************************************************************************)
(* Proofs about Execution for every budget, number of jobs, of calls and   *)
(* of crashes.  The invariants tie the worker's program counter and its    *)
(* locals to the turn in the event log and to the supervisor's record.     *)
(***************************************************************************)
EXTENDS Execution, TLAPS

\* The worker is in a model step, or handles the calls of a response.
InStep == {"prepare", "condense", "model"}
InTools == {"tool", "handler", "await", "refused", "upgrade", "upgrading"}
InSlice == {"loop"} \cup InStep \cup InTools

\* Out of budget, and the log says so.
Noticed == turn.used >= turn.limit /\ turn.noticed = turn.limit

\* The turn is open while the runner works on it; what is left of the slice
\* fits into what is left of the budget; a turn that is left open waits.
TurnFits ==
    /\ TurnEndsOnce
    /\ UsedWithinLimit
    /\ ~closed => turn.reason = "open"
    /\ w.pc \in {"slice"} \cup InSlice => ~closed
    /\ w.pc \in InSlice =>
          w.limit = turn.limit /\ turn.used + w.left <= turn.limit
    /\ w.pc \in InStep => turn.used + w.left < turn.limit
    /\ (At("finally") /\ ~closed) => Noticed
    /\ (At("none") /\ ~closed /\ crashes = 0) => Noticed

\* The calls without an outcome are the ones the worker still has to handle.
CallsFit ==
    /\ w.pc \in InTools => open = w.calls
    /\ w.pc \in InTools \ {"tool"} => w.calls > 0
    /\ w.pc = "model" => open = 0
    /\ (crashes = 0 /\ ~closed /\ w.pc \notin InTools \cup {"except"}) => open = 0

\* The record is the one of the latest job, and every condenser call that began
\* after its Stop belongs to the step the worker was in.
RecordFits ==
    record # NoRecord =>
       /\ record.job <= jobs
       /\ late.condenser <= w.condensed
       /\ ~record.stop => late.condenser = 0

\* An approval exists exactly while the worker waits for it.
NoStrayApproval == ~At("await") => approval = NoApproval

\* The supervisor's part of the invariant, and all of it.
Control == ControlReachesItsJob /\ RecordFits /\ NoStrayApproval

Inv == Control /\ TurnFits /\ CallsFit
-----------------------------------------------------------------------------
(* The projection of a turn *)

StepTypes == {"tool_calls", "message", "protocol_error", "truncated"}

\* A model step adds one to what is used and leaves the rest alone.
LEMMA StepOfTurn ==
    ASSUME NEW tn \in Turns, NEW type \in StepTypes
    PROVE  /\ WithStep(tn, type) \in Turns
           /\ WithStep(tn, type).used = tn.used + 1
           /\ WithStep(tn, type).limit = tn.limit
           /\ WithStep(tn, type).endings = tn.endings
           /\ WithStep(tn, type).reason = tn.reason
<1>1. tn.tail \in Tails
  BY DEF Turns
<1>2. Longer(tn.tail, type) \in Tails
  BY <1>1 DEF Longer, Tails, StepTypes
<1>3. WithStep(tn, type) \in Turns
  <2>1. [tn EXCEPT !.used = @ + 1] \in Turns
    BY DEF Turns
  <2>2. \A t \in Turns: [t EXCEPT !.tail = Longer(tn.tail, type)] \in Turns
    BY <1>2 DEF Turns
  <2>3. WithStep(tn, type)
           = [[tn EXCEPT !.used = @ + 1] EXCEPT !.tail = Longer(tn.tail, type)]
    BY DEF WithStep, Turns
  <2> QED
    BY <2>1, <2>2, <2>3
<1> QED
  BY <1>3 DEF WithStep, Turns

\* The end of a turn is one more ending and its reason.
LEMMA EndOfTurn ==
    ASSUME NEW tn \in Turns, NEW reason \in Reasons
    PROVE  /\ WithEnd(tn, reason) \in Turns
           /\ WithEnd(tn, reason).used = tn.used
           /\ WithEnd(tn, reason).limit = tn.limit
           /\ WithEnd(tn, reason).endings = tn.endings + 1
           /\ WithEnd(tn, reason).reason = reason
<1>1. WithEnd(tn, reason) \in Turns
  <2>1. [tn EXCEPT !.endings = @ + 1] \in Turns
    BY DEF Turns
  <2>2. \A t \in Turns: [t EXCEPT !.reason = reason] \in Turns
    BY DEF Turns
  <2>3. WithEnd(tn, reason) = [[tn EXCEPT !.endings = @ + 1] EXCEPT !.reason = reason]
    BY DEF WithEnd, Turns
  <2> QED
    BY <2>1, <2>2, <2>3
<1> QED
  BY <1>1 DEF Turns, WithEnd

\* The notice changes nothing but the limit that was noticed.
LEMMA NoticeOfTurn ==
    ASSUME NEW tn \in Turns
    PROVE  /\ WithNotice(tn) \in Turns
           /\ WithNotice(tn).used = tn.used
           /\ WithNotice(tn).limit = tn.limit
           /\ WithNotice(tn).endings = tn.endings
           /\ WithNotice(tn).reason = tn.reason
           /\ WithNotice(tn).noticed = tn.limit
  BY DEF Turns, WithNotice

\* A new turn has used nothing.
LEMMA FirstTurns ==
    /\ NewTurn \in Turns /\ NewTurn.used = 0 /\ NewTurn.limit = TurnSteps
    /\ NewTurn.endings = 0 /\ NewTurn.reason = "open"
    /\ NoTurn \in Turns /\ NoTurn.used = 0 /\ NoTurn.limit = TurnSteps
    /\ NoTurn.endings = 1 /\ NoTurn.reason = "none"
<1>1. NewTurn.tail \in Tails /\ NewTurn.reason \in Reasons
  BY DEF NewTurn, Tails, Reasons
<1>2. NewTurn \in Turns
  BY <1>1, ExecutionAssumption DEF NewTurn, Turns
<1>3. /\ NewTurn.used = 0 /\ NewTurn.limit = TurnSteps
      /\ NewTurn.endings = 0 /\ NewTurn.reason = "open"
  BY DEF NewTurn
<1> HIDE DEF NewTurn
<1>4. [NewTurn EXCEPT !.endings = 1] \in Turns
  BY <1>2 DEF Turns
<1>5. \A t \in Turns: [t EXCEPT !.reason = "none"] \in Turns
  BY DEF Turns, Reasons
<1>6. NoTurn = [[NewTurn EXCEPT !.endings = 1] EXCEPT !.reason = "none"]
  BY <1>2 DEF NoTurn, Turns
<1> QED
  BY <1>2, <1>3, <1>4, <1>5, <1>6 DEF Turns

-----------------------------------------------------------------------------
(* What most steps of the worker have in common *)

\* A worker stays one when its locals are assigned.
LEMMA WorkerUpdates ==
    ASSUME NEW x \in Workers
    PROVE  /\ \A v \in Labels: [x EXCEPT !.pc = v] \in Workers
           /\ \A v \in Nat: [x EXCEPT !.left = v] \in Workers
           /\ \A v \in Nat: [x EXCEPT !.limit = v] \in Workers
           /\ \A v \in Nat: [x EXCEPT !.failures = v] \in Workers
           /\ \A v \in Fingerprints \cup {NoFingerprint}:
                 [x EXCEPT !.previous = v] \in Workers
           /\ \A v \in BOOLEAN: [x EXCEPT !.refused = v] \in Workers
           /\ \A v \in 0..MaxCalls: [x EXCEPT !.calls = v] \in Workers
           /\ \A v \in 0..MaxCondenserCalls: [x EXCEPT !.condensed = v] \in Workers
           /\ \A v \in BOOLEAN: [x EXCEPT !.upgrade = v] \in Workers
           /\ \A v \in BOOLEAN: [x EXCEPT !.message = v] \in Workers
  BY DEF Workers

\* Moving the worker's program counter leaves its locals alone.
LEMMA LabelUpdates ==
    ASSUME w \in Workers, NEW label \in Labels, w' = [w EXCEPT !.pc = label]
    PROVE  /\ w' \in Workers /\ w'.pc = label /\ w'.left = w.left /\ w'.limit = w.limit
           /\ w'.calls = w.calls /\ w'.condensed = w.condensed /\ w'.failures = w.failures
           /\ w'.previous = w.previous /\ w'.upgrade = w.upgrade /\ w'.refused = w.refused
<1>1. w' \in Workers
  BY WorkerUpdates
<1> QED
  BY <1>1 DEF Workers

Workspaces == {"source_only", "preparing_workspace", "changes_active", "recovery_required"}

SessionTyped ==
    turn \in Turns /\ open \in 0..MaxCalls /\ poisoned \in BOOLEAN /\ ws \in Workspaces

\* A step of the worker that changes neither the supervisor's state nor begins
\* a call, and does not stand at the gate before or after.
QuietStep ==
    /\ UNCHANGED <<supervisor, late, crashes>>
    /\ w.pc \notin {"none", "await"} /\ w' \in Workers
    /\ w'.pc \notin {"none", "await"}
    /\ w'.condensed >= w.condensed \/ ~record.stop

\* A step of the worker that touches neither record nor approval keeps what
\* the supervisor knows.
LEMMA QuietStepsKeepControl ==
    ASSUME Control, QuietStep, SessionTyped'
    PROVE  Control'
<1>1. record # NoRecord /\ record \in Records /\ w \in Workers
  BY DEF Control, ControlReachesItsJob, TypeOK, QuietStep, At
<1>2. UNCHANGED <<record, approval, jobs, stops, acks, late, crashes>>
  BY DEF QuietStep, supervisor
<1>3. TypeOK'
  BY <1>1, <1>2 DEF Control, ControlReachesItsJob, TypeOK, QuietStep, SessionTyped, At, Workspaces
<1>4. (StopsAreAcknowledged /\ StopBoundsCalls /\ ApprovalIsAwaited)'
  BY <1>1, <1>2 DEF Control, ControlReachesItsJob, QuietStep, StopsAreAcknowledged,
     StopBoundsCalls, ApprovalIsAwaited, At
<1>5. RecordFits'
  <2>1. w.condensed \in Nat /\ w'.condensed \in Nat /\ late.condenser \in Nat
    BY <1>1, ExecutionAssumption DEF QuietStep, Workers, Control, ControlReachesItsJob, TypeOK
  <2> QED
    BY <1>1, <1>2, <2>1 DEF Control, RecordFits, QuietStep
<1>6. NoStrayApproval'
  BY <1>2 DEF Control, NoStrayApproval, QuietStep, At
<1> QED
  BY <1>3, <1>4, <1>5, <1>6 DEF Control, ControlReachesItsJob

\* Ending an open turn, whatever it had used, leaves nothing to ask of it.
LEMMA EndedTurnFits ==
    ASSUME NEW tn \in Turns, NEW reason \in Reasons,
           tn.endings = 0,
           tn.used <= IF reason = "protocol" THEN tn.limit + 1 ELSE tn.limit,
           turn' = WithEnd(tn, reason), w' \in Workers, w'.pc = "finally"
    PROVE  (TurnFits /\ CallsFit)'
<1>1. turn'.endings = 1 /\ turn'.reason = reason /\ turn'.used = tn.used
      /\ turn'.limit = tn.limit
  BY EndOfTurn DEF Turns
<1>2. closed'
  BY <1>1 DEF closed
<1> QED
  BY <1>1, <1>2 DEF TurnFits, CallsFit, TurnEndsOnce, UsedWithinLimit, At, InSlice, InStep, InTools

\* The types of what the steps compute with.
LEMMA Facts ==
    ASSUME Inv
    PROVE  /\ SessionTyped /\ w \in Workers /\ w.pc \in Labels
           /\ turn.used \in Nat /\ turn.limit \in Nat /\ turn.endings \in Nat
           /\ w.left \in Nat /\ w.limit \in Nat /\ w.calls \in 0..MaxCalls
           /\ w.condensed \in 0..MaxCondenserCalls /\ w.failures \in Nat
           /\ MaxCalls \in Nat /\ MaxCondenserCalls \in Nat
           /\ w.pc # "none" <=> record # NoRecord
           /\ record # NoRecord => record \in Records
           /\ closed <=> turn.endings # 0
<1>1. TypeOK
  BY DEF Inv, Control, ControlReachesItsJob
<1>2. turn \in Turns /\ w \in Workers
  BY <1>1 DEF TypeOK
<1>3. /\ turn.used \in Nat /\ turn.limit \in Nat /\ turn.endings \in Nat
  BY <1>2 DEF Turns
<1>4. /\ w.left \in Nat /\ w.limit \in Nat /\ w.calls \in 0..MaxCalls
      /\ w.condensed \in 0..MaxCondenserCalls /\ w.pc \in Labels /\ w.failures \in Nat
  BY <1>2 DEF Workers
<1> QED
  BY <1>1, <1>2, <1>3, <1>4, ExecutionAssumption DEF TypeOK, SessionTyped, Workspaces, At, closed

\* A quiet step that ends the open turn.
LEMMA EndingKeepsInv ==
    ASSUME Inv, NEW tn \in Turns, NEW reason \in Reasons,
           tn.endings = 0,
           tn.used <= IF reason = "protocol" THEN tn.limit + 1 ELSE tn.limit,
           turn' = WithEnd(tn, reason), QuietStep, w'.pc = "finally",
           open' \in 0..MaxCalls, poisoned' \in BOOLEAN, ws' \in Workspaces
    PROVE  Inv'
<1>1. turn' \in Turns
  BY EndOfTurn
<1>2. Control'
  BY <1>1, QuietStepsKeepControl DEF Inv, SessionTyped
<1>3. (TurnFits /\ CallsFit)'
  BY EndedTurnFits DEF QuietStep
<1> QED
  BY <1>2, <1>3 DEF Inv

\* _terminate_stopped, wherever the runner calls it.
LEMMA TerminateStoppedKeepsInv ==
    ASSUME Inv, TerminateStopped, w.pc \in {"slice"} \cup InSlice, w.pc # "await"
    PROVE  Inv'
<1>1. turn \in Turns /\ turn.endings = 0 /\ turn.used <= turn.limit
  BY Facts DEF Inv, TurnFits, UsedWithinLimit, closed, SessionTyped
<1>2. w' \in Workers /\ w'.pc = "finally" /\ w'.condensed = w.condensed
  BY Facts, LabelUpdates DEF TerminateStopped, Goto, Labels
<1>3. QuietStep
  BY <1>2, Facts DEF TerminateStopped, QuietStep, InSlice, InStep, InTools
<1>4. turn' = WithEnd(turn, "user_stop") /\ open' = 0 /\ UNCHANGED <<poisoned, ws>>
  BY DEF TerminateStopped
<1>5. "user_stop" \in Reasons
  BY DEF Reasons
<1> HIDE DEF TerminateStopped
<1> QED
  BY <1>1, <1>2, <1>3, <1>4, <1>5, Facts, EndingKeepsInv DEF SessionTyped

\* A quiet step that leaves turn, calls and workspace alone.
LEMMA MovingKeepsInv ==
    ASSUME Inv, QuietStep, UNCHANGED session, TurnFits', CallsFit'
    PROVE  Inv'
<1>1. SessionTyped'
  BY Facts DEF session, SessionTyped
<1> QED
  BY <1>1, QuietStepsKeepControl DEF Inv

-----------------------------------------------------------------------------
(* One lemma per step of the worker *)

\* run_turn opens a new turn.
LEMMA RunTurnKeepsInv ==
    ASSUME Inv, run_turn
    PROVE  Inv'
<1>1. /\ w' \in Workers /\ w'.pc = "slice" /\ w'.condensed = w.condensed
  <2>1. w' = [w EXCEPT !.pc = "slice", !.upgrade = (ws = "source_only")]
    BY DEF run_turn
  <2>2. [w EXCEPT !.pc = "slice"] \in Workers
    BY Facts, WorkerUpdates DEF Labels
  <2>3. w' \in Workers
    BY <2>1, <2>2, WorkerUpdates
  <2> QED
    BY <2>1, <2>3, Facts DEF Workers
<1>2. QuietStep
  BY <1>1, Facts DEF run_turn, QuietStep, At
<1>3. turn' = NewTurn /\ open' = 0 /\ UNCHANGED <<poisoned, ws>>
  BY DEF run_turn
<1>4. SessionTyped'
  BY <1>3, Facts, FirstTurns DEF SessionTyped
<1>5. Control'
  BY <1>2, <1>4, QuietStepsKeepControl DEF Inv
<1>6. turn'.used = 0 /\ turn'.limit \in Nat /\ turn'.endings = 0 /\ turn'.reason = "open"
  BY <1>3, FirstTurns, ExecutionAssumption
<1>7. TurnFits' /\ CallsFit'
  BY <1>1, <1>3, <1>6 DEF TurnFits, CallsFit, TurnEndsOnce, UsedWithinLimit, closed, At, InSlice,
     InStep, InTools
<1> QED
  BY <1>5, <1>7 DEF Inv

\* continue_turn goes on with an open one.
LEMMA ContinueTurnKeepsInv ==
    ASSUME Inv, continue_turn
    PROVE  Inv'
<1>1. /\ w' \in Workers /\ w'.pc = (IF closed THEN "except" ELSE "slice")
      /\ w'.condensed = w.condensed
  <2> DEFINE label == IF closed THEN "except" ELSE "slice"
  <2>1. w' = [w EXCEPT !.pc = label, !.upgrade = (ws = "source_only")]
    BY DEF continue_turn
  <2>2. label \in Labels
    BY DEF Labels
  <2> HIDE DEF label
  <2>3. [w EXCEPT !.pc = label] \in Workers
    BY <2>2, Facts, WorkerUpdates
  <2>4. w' \in Workers
    BY <2>1, <2>3, WorkerUpdates
  <2>5. w'.pc = label /\ w'.condensed = w.condensed
    BY <2>1, <2>4, Facts DEF Workers
  <2> QED
    BY <2>4, <2>5 DEF label
<1>2. QuietStep
  BY <1>1, Facts DEF continue_turn, QuietStep, At
<1>3. UNCHANGED session /\ UNCHANGED crashes /\ w.pc = "start"
  BY DEF continue_turn, At
<1>4. TurnFits' /\ CallsFit'
  BY <1>1, <1>3 DEF Inv, TurnFits, CallsFit, TurnEndsOnce, UsedWithinLimit, closed, At, InSlice,
     InStep, InTools, session
<1> QED
  BY <1>2, <1>3, <1>4, MovingKeepsInv

\* _wait_for_budget: the open turn is left with its notice.
LEMMA WaitingKeepsInv ==
    ASSUME Inv, NEW tn \in Turns, tn.used = tn.limit, tn.endings = 0, tn.reason = "open",
           turn' = WithNotice(tn), QuietStep, w'.pc = "finally",
           UNCHANGED <<open, poisoned, ws>>, crashes = 0 => open = 0
    PROVE  Inv'
<1>1. /\ turn' \in Turns /\ turn'.used = tn.used /\ turn'.limit = tn.limit
      /\ turn'.endings = 0 /\ turn'.reason = "open" /\ turn'.noticed = tn.limit
      /\ tn.limit \in Nat
  BY NoticeOfTurn DEF Turns
<1>2. SessionTyped'
  BY <1>1, Facts DEF SessionTyped
<1>3. Control'
  BY <1>2, QuietStepsKeepControl DEF Inv
<1>4. TurnFits' /\ CallsFit'
  BY <1>1 DEF TurnFits, CallsFit, TurnEndsOnce, UsedWithinLimit, closed, At, InSlice, InStep,
     InTools, Noticed, QuietStep
<1> QED
  BY <1>3, <1>4 DEF Inv

\* _run_slice begins: it reads what is left of the budget, or waits for more.
LEMMA BeginSliceKeepsInv ==
    ASSUME Inv, BeginSlice
    PROVE  Inv'
<1>1. CASE stopping /\ TerminateStopped
  BY <1>1, TerminateStoppedKeepsInv DEF BeginSlice, At
<1>2. CASE ~stopping /\ ~(stopping /\ TerminateStopped)
  <2>1. /\ At("slice") /\ turn.endings = 0 /\ turn.reason = "open"
        /\ turn.used <= turn.limit /\ (crashes = 0 => open = 0)
    BY Facts DEF BeginSlice, Inv, TurnFits, CallsFit, UsedWithinLimit, At, InTools, closed
  <2>2. UNCHANGED <<open, poisoned, ws, supervisor, late, crashes>>
    BY <1>2 DEF BeginSlice
  <2>3. CASE turn.used >= turn.limit
    <3>1. turn' = WithNotice(turn) /\ Goto("finally")
      BY <1>2, <2>3 DEF BeginSlice
    <3>2. w' \in Workers /\ w'.pc = "finally" /\ w'.condensed = w.condensed
      BY <3>1, Facts, LabelUpdates DEF Goto, Labels
    <3>3. QuietStep
      BY <2>1, <2>2, <3>2, Facts DEF QuietStep, At
    <3> QED
      BY <2>1, <2>2, <2>3, <3>1, <3>2, <3>3, Facts, WaitingKeepsInv DEF SessionTyped
  <2>4. CASE ~(turn.used >= turn.limit)
    <3> DEFINE left == MinOf(SliceSteps, turn.limit - turn.used)
    <3>1. left \in Nat /\ left <= turn.limit - turn.used
      BY <2>1, Facts, ExecutionAssumption DEF MinOf
    <3>2. /\ turn' = turn
          /\ w' = [w EXCEPT !.pc = "loop", !.refused = UpgradeRefused(turn),
                            !.limit = turn.limit, !.left = left,
                            !.failures = 0, !.previous = NoFingerprint]
      BY <1>2, <2>4 DEF BeginSlice
    <3> HIDE DEF left
    <3>3. UpgradeRefused(turn) \in BOOLEAN
      BY DEF UpgradeRefused
    <3>4. /\ w' \in Workers /\ w'.pc = "loop" /\ w'.limit = turn.limit /\ w'.left = left
          /\ w'.condensed = w.condensed
      <4>1. [w EXCEPT !.pc = "loop"] \in Workers
        BY Facts, WorkerUpdates DEF Labels
      <4>2. [w EXCEPT !.pc = "loop", !.refused = UpgradeRefused(turn)] \in Workers
        BY <4>1, <3>3, WorkerUpdates
      <4>3. [w EXCEPT !.pc = "loop", !.refused = UpgradeRefused(turn),
                      !.limit = turn.limit] \in Workers
        BY <4>2, Facts, WorkerUpdates
      <4>4. [w EXCEPT !.pc = "loop", !.refused = UpgradeRefused(turn),
                      !.limit = turn.limit, !.left = left] \in Workers
        BY <4>3, <3>1, WorkerUpdates
      <4>5. [w EXCEPT !.pc = "loop", !.refused = UpgradeRefused(turn),
                      !.limit = turn.limit, !.left = left, !.failures = 0] \in Workers
        BY <4>4, WorkerUpdates
      <4>6. w' \in Workers
        BY <4>5, <3>2, WorkerUpdates
      <4> QED
        BY <4>6, <3>2, Facts DEF Workers
    <3>5. QuietStep
      BY <2>1, <2>2, <3>4, Facts DEF QuietStep, At
    <3>6. TurnFits' /\ CallsFit'
      BY <2>1, <2>2, <3>1, <3>2, <3>4, Facts DEF Inv, TurnFits, CallsFit, TurnEndsOnce,
         UsedWithinLimit, closed, At, InSlice, InStep, InTools
    <3>7. UNCHANGED session
      BY <2>2, <3>2 DEF session
    <3> QED
      BY <3>5, <3>6, <3>7, MovingKeepsInv
  <2> QED
    BY <2>3, <2>4
<1> QED
  BY <1>1, <1>2 DEF BeginSlice

\* The next iteration of the slice.
LEMMA IterateKeepsInv ==
    ASSUME Inv, Iterate
    PROVE  Inv'
<1>1. CASE stopping /\ TerminateStopped
  BY <1>1, TerminateStoppedKeepsInv DEF Iterate, At, InSlice
<1>2. CASE ~stopping /\ ~(stopping /\ TerminateStopped)
  <2>1. /\ w.pc = "loop" /\ w.left > 0 /\ UNCHANGED session
        /\ UNCHANGED <<supervisor, late, crashes>>
        /\ w' = [w EXCEPT !.pc = "prepare", !.left = @ - 1, !.condensed = 0]
    BY <1>2 DEF Iterate, At
  <2>2. [w EXCEPT !.pc = "prepare"] \in Workers
    BY Facts, WorkerUpdates DEF Labels
  <2>3. w.left - 1 \in Nat /\ 0 \in 0..MaxCondenserCalls
    BY <2>1, Facts
  <2>4. [w EXCEPT !.pc = "prepare", !.left = @ - 1] \in Workers
    BY <2>2, <2>3, WorkerUpdates
  <2>5. w' \in Workers
    BY <2>1, <2>3, <2>4, WorkerUpdates
  <2>6. w'.pc = "prepare" /\ w'.left = w.left - 1 /\ w'.limit = w.limit
    BY <2>1, <2>5, Facts DEF Workers
  <2>7. QuietStep
    BY <1>2, <2>1, <2>5, <2>6 DEF QuietStep, stopping
  <2>8. TurnFits' /\ CallsFit'
    BY <2>1, <2>6, Facts DEF Inv, TurnFits, CallsFit, TurnEndsOnce, UsedWithinLimit, closed, At,
       InSlice, InStep, InTools, session
  <2> QED
    BY <2>1, <2>7, <2>8, MovingKeepsInv
<1> QED
  BY <1>1, <1>2 DEF Iterate

\* The slice is used up, and with it perhaps the budget.
LEMMA EndSliceKeepsInv ==
    ASSUME Inv, EndSlice
    PROVE  Inv'
<1>1. /\ w.pc = "loop" /\ w.left = 0 /\ UNCHANGED <<open, poisoned, ws>>
      /\ UNCHANGED <<supervisor, late, crashes>>
  BY DEF EndSlice, At
<1>2. /\ turn.endings = 0 /\ turn.reason = "open" /\ w.limit = turn.limit
      /\ turn.used <= turn.limit /\ (crashes = 0 => open = 0)
  BY <1>1, Facts DEF Inv, TurnFits, CallsFit, InSlice, InTools, closed
<1>3. CASE turn.used >= w.limit
  <2>1. turn' = WithNotice(turn) /\ Goto("finally")
    BY <1>3 DEF EndSlice
  <2>2. w' \in Workers /\ w'.pc = "finally" /\ w'.condensed = w.condensed
    BY <2>1, Facts, LabelUpdates DEF Goto, Labels
  <2>3. QuietStep
    BY <1>1, <2>2, Facts DEF QuietStep
  <2> QED
    BY <1>1, <1>2, <1>3, <2>1, <2>2, <2>3, Facts, WaitingKeepsInv DEF SessionTyped
<1>4. CASE ~(turn.used >= w.limit)
  <2>1. turn' = turn /\ Goto("slice")
    BY <1>4 DEF EndSlice
  <2>2. w' \in Workers /\ w'.pc = "slice" /\ w'.condensed = w.condensed
    BY <2>1, Facts, LabelUpdates DEF Goto, Labels
  <2>3. QuietStep
    BY <1>1, <2>2, Facts DEF QuietStep
  <2>4. TurnFits' /\ CallsFit'
    BY <1>1, <1>2, <2>1, <2>2, Facts DEF Inv, TurnFits, CallsFit, TurnEndsOnce, UsedWithinLimit,
       closed, At, InSlice, InStep, InTools
  <2> QED
    BY <1>1, <2>1, <2>3, <2>4, MovingKeepsInv DEF session
<1> QED
  BY <1>3, <1>4

\* _prepare_context calls the condenser, which the stop flag does not prevent.
LEMMA CallCondenserKeepsInv ==
    ASSUME Inv, CallCondenser
    PROVE  Inv'
<1>1. /\ w.pc = "prepare" /\ open = 0 /\ w.condensed < MaxCondenserCalls
      /\ w' = [w EXCEPT !.pc = "condense", !.condensed = @ + 1]
      /\ late' = IF record.stop THEN [late EXCEPT !["condenser"] = @ + 1] ELSE late
      /\ UNCHANGED session /\ UNCHANGED <<record, approval, jobs, stops, acks, crashes>>
  BY DEF CallCondenser, At, Begin, stopping, supervisor
<1>2. w.condensed + 1 \in 0..MaxCondenserCalls
  BY <1>1, Facts
<1>3. [w EXCEPT !.pc = "condense"] \in Workers
  BY Facts, WorkerUpdates DEF Labels
<1>4. w' \in Workers
  BY <1>1, <1>2, <1>3, WorkerUpdates
<1>5. /\ w'.pc = "condense" /\ w'.condensed = w.condensed + 1
      /\ w'.left = w.left /\ w'.limit = w.limit
  BY <1>1, <1>4, Facts DEF Workers
<1>6. record # NoRecord /\ record \in Records /\ record.stop \in BOOLEAN
  BY <1>1, Facts DEF Records
<1>7. late \in [main: Nat, condenser: Nat, tool: Nat]
  BY DEF Inv, Control, ControlReachesItsJob, TypeOK
<1>8. /\ late' \in [main: Nat, condenser: Nat, tool: Nat]
      /\ late'.main = 0 /\ late'.tool = 0
      /\ late'.condenser = IF record.stop THEN late.condenser + 1 ELSE late.condenser
  BY <1>1, <1>7 DEF Inv, Control, ControlReachesItsJob, StopBoundsCalls
<1>9. TypeOK'
  BY <1>1, <1>4, <1>5, <1>6, <1>8 DEF Inv, Control, ControlReachesItsJob, TypeOK, At, session
<1>10. (StopsAreAcknowledged /\ ApprovalIsAwaited)' /\ NoStrayApproval'
  BY <1>1, <1>5, <1>6 DEF Inv, Control, ControlReachesItsJob, StopsAreAcknowledged,
     ApprovalIsAwaited, At, NoStrayApproval
<1>11. RecordFits'
  BY <1>1, <1>5, <1>6, <1>7, <1>8, Facts DEF Inv, Control, RecordFits
<1>12. StopBoundsCalls'
  BY <1>1, <1>2, <1>5, <1>6, <1>8, <1>11, Facts DEF StopBoundsCalls, RecordFits
<1>13. TurnFits' /\ CallsFit'
  BY <1>1, <1>5 DEF Inv, TurnFits, CallsFit, TurnEndsOnce, UsedWithinLimit, closed, At, InSlice,
     InStep, InTools, session
<1> QED
  BY <1>9, <1>10, <1>11, <1>12, <1>13 DEF Inv, Control, ControlReachesItsJob

\* The steps between prepare, condense and model, and out of them by an error.
LEMMA StepMovesKeepInv ==
    ASSUME Inv, NEW label \in {"prepare", "model", "except"}, w.pc \in InStep,
           label = "model" => open = 0,
           Goto(label), UNCHANGED session, UNCHANGED <<supervisor, late, crashes>>
    PROVE  Inv'
<1>1. /\ w' \in Workers /\ w'.pc = label /\ w'.condensed = w.condensed
      /\ w'.left = w.left /\ w'.limit = w.limit
  BY Facts, LabelUpdates DEF Goto, Labels
<1>2. QuietStep
  BY <1>1, Facts DEF QuietStep, InStep
<1>3. TurnFits'
  BY <1>1 DEF Inv, TurnFits, TurnEndsOnce, UsedWithinLimit, closed, At, InSlice, InStep,
     InTools, session
<1>4. CallsFit'
  BY <1>1 DEF Inv, CallsFit, closed, InStep, InTools, session
<1> QED
  BY <1>2, <1>3, <1>4, MovingKeepsInv

\* The other ways on from _prepare_context.
LEMMA PrepareKeepsInv ==
    ASSUME Inv, CondenserReturns \/ CallModel \/ ContextNotReady \/ ModelRaises
    PROVE  Inv'
<1>1. CASE CondenserReturns
  BY <1>1, StepMovesKeepInv DEF CondenserReturns, At, InStep
<1>2. CASE CallModel
  <2>1. CASE stopping /\ TerminateStopped
    BY <1>2, <2>1, TerminateStoppedKeepsInv DEF CallModel, At, InSlice, InStep
  <2>2. CASE ~stopping /\ ~(stopping /\ TerminateStopped)
    BY <1>2, <2>2, StepMovesKeepInv DEF CallModel, At, InStep, Begin
  <2> QED
    BY <1>2, <2>1, <2>2 DEF CallModel
<1>3. CASE ContextNotReady
  BY <1>3, StepMovesKeepInv DEF ContextNotReady, At, InStep
<1>4. CASE ModelRaises
  BY <1>4, StepMovesKeepInv DEF ModelRaises, At, InStep
<1> QED
  BY <1>1, <1>2, <1>3, <1>4

\* The request cannot be made to fit: the turn ends.
LEMMA ContextExceededKeepsInv ==
    ASSUME Inv, ContextExceeded
    PROVE  Inv'
<1>1. /\ w.pc = "prepare" /\ turn' = WithEnd(turn, "context_budget_exceeded")
      /\ poisoned' = (poisoned \/ open > 0) /\ UNCHANGED <<open, ws>>
      /\ Goto("finally") /\ UNCHANGED <<supervisor, late, crashes>>
  BY DEF ContextExceeded, At, End
<1>2. w' \in Workers /\ w'.pc = "finally" /\ w'.condensed = w.condensed
  BY <1>1, Facts, LabelUpdates DEF Goto, Labels
<1>3. QuietStep
  BY <1>1, <1>2, Facts DEF QuietStep
<1>4. turn \in Turns /\ turn.endings = 0 /\ turn.used <= turn.limit
  BY <1>1, Facts DEF Inv, TurnFits, closed, SessionTyped, InSlice, InStep
<1>5. "context_budget_exceeded" \in Reasons
  BY DEF Reasons
<1> QED
  BY <1>1, <1>2, <1>3, <1>4, <1>5, Facts, EndingKeepsInv DEF SessionTyped

\* What a response finds: an open turn with room for one more step.
LEMMA AtModel ==
    ASSUME Inv, w.pc = "model"
    PROVE  /\ turn \in Turns /\ turn.endings = 0 /\ turn.reason = "open"
           /\ turn.used + w.left < turn.limit /\ w.limit = turn.limit /\ open = 0
           /\ turn.used \in Nat /\ turn.limit \in Nat /\ w.left \in Nat
  BY Facts DEF Inv, TurnFits, CallsFit, closed, SessionTyped, InSlice, InStep

\* A response is recorded and the slice goes on.
LEMMA RecordedStepKeepsInv ==
    ASSUME Inv, w.pc = "model", NEW type \in StepTypes, turn' = WithStep(turn, type),
           QuietStep, w'.left = w.left, w'.limit = w.limit, UNCHANGED <<poisoned, ws>>,
           \/ w'.pc = "loop" /\ open' = 0
           \/ w'.pc = "tool" /\ open' = w'.calls
    PROVE  Inv'
<1>1. /\ turn' \in Turns /\ turn'.used = turn.used + 1 /\ turn'.limit = turn.limit
      /\ turn'.endings = 0 /\ turn'.reason = "open"
  BY AtModel, StepOfTurn
<1>2. w'.calls \in 0..MaxCalls
  BY DEF QuietStep, Workers
<1>3. SessionTyped'
  BY <1>1, <1>2, Facts DEF SessionTyped
<1>4. Control'
  BY <1>3, QuietStepsKeepControl DEF Inv
<1>5. TurnFits' /\ CallsFit'
  BY <1>1, AtModel DEF TurnFits, CallsFit, TurnEndsOnce, UsedWithinLimit, closed, At, InSlice,
     InStep, InTools
<1> QED
  BY <1>4, <1>5 DEF Inv

\* A malformed answer is repaired, waits for budget, or ends the turn.
LEMMA ModelMalformedKeepsInv ==
    ASSUME Inv, NEW f \in Fingerprints, ModelMalformed(f)
    PROVE  Inv'
<1> DEFINE failed == WithStep(turn, "protocol_error")
<1> DEFINE said == [failed EXCEPT !.used = @ + 1]
<1>1. /\ w.pc = "model" /\ UNCHANGED <<open, poisoned, ws>>
      /\ UNCHANGED <<supervisor, late, crashes>>
      /\ \/ turn' = WithEnd(said, "protocol") /\ Goto("finally")
         \/ /\ turn' = failed
            /\ w' = [w EXCEPT !.pc = "loop", !.failures = @ + 1, !.previous = f]
  BY DEF ModelMalformed, At
<1>2. "protocol_error" \in StepTypes /\ "protocol" \in Reasons
  BY DEF StepTypes, Reasons
<1>3. /\ failed \in Turns /\ failed.used = turn.used + 1 /\ failed.limit = turn.limit
      /\ failed.endings = 0
  BY <1>1, <1>2, AtModel, StepOfTurn
<1> HIDE DEF failed
<1>4. /\ said \in Turns /\ said.used = turn.used + 2 /\ said.limit = turn.limit
      /\ said.endings = 0
  BY <1>1, <1>3, AtModel DEF Turns
<1> HIDE DEF said
<1>5. CASE turn' = WithEnd(said, "protocol") /\ Goto("finally")
  <2>1. w' \in Workers /\ w'.pc = "finally" /\ w'.condensed = w.condensed
    BY <1>5, Facts, LabelUpdates DEF Goto, Labels
  <2>2. QuietStep
    BY <1>1, <2>1, Facts DEF QuietStep
  <2>3. said.used <= said.limit + 1
    BY <1>1, <1>4, AtModel
  <2> QED
    BY <1>1, <1>2, <1>4, <1>5, <2>1, <2>2, <2>3, Facts, EndingKeepsInv DEF SessionTyped
<1>6. CASE /\ turn' = failed
           /\ w' = [w EXCEPT !.pc = "loop", !.failures = @ + 1, !.previous = f]
  <2>1. [w EXCEPT !.pc = "loop"] \in Workers
    BY Facts, WorkerUpdates DEF Labels
  <2>2. w.failures + 1 \in Nat
    BY Facts
  <2>3. [w EXCEPT !.pc = "loop", !.failures = @ + 1] \in Workers
    BY <2>1, <2>2, WorkerUpdates
  <2>4. w' \in Workers
    BY <1>6, <2>3, WorkerUpdates
  <2>5. /\ w'.pc = "loop" /\ w'.condensed = w.condensed /\ w'.left = w.left
        /\ w'.limit = w.limit
    BY <1>6, <2>4, Facts DEF Workers
  <2>6. QuietStep
    BY <1>1, <2>4, <2>5, Facts DEF QuietStep
  <2> QED
    BY <1>1, <1>2, <1>6, <2>5, <2>6, AtModel, RecordedStepKeepsInv DEF failed
<1> QED
  BY <1>1, <1>5, <1>6

\* A truncated answer is asked for again, waits for budget, or ends the turn.
LEMMA TruncationKeepsInv ==
    ASSUME Inv, w.pc = "model", RecordTruncation, UNCHANGED <<open, poisoned, ws>>,
           UNCHANGED <<supervisor, late, crashes>>
    PROVE  Inv'
<1> DEFINE truncated == WithStep(turn, "truncated")
<1>1. \/ turn' = WithNotice(truncated) /\ Goto("finally") /\ truncated.used >= w.limit
      \/ turn' = WithEnd(truncated, "output_truncated") /\ Goto("finally")
      \/ /\ turn' = truncated
         /\ w' = [w EXCEPT !.pc = "loop", !.failures = 0, !.previous = NoFingerprint]
  BY DEF RecordTruncation
<1>2. "truncated" \in StepTypes /\ "output_truncated" \in Reasons
  BY DEF StepTypes, Reasons
<1>3. /\ truncated \in Turns /\ truncated.used = turn.used + 1 /\ truncated.limit = turn.limit
      /\ truncated.endings = 0 /\ truncated.reason = "open"
  BY <1>2, AtModel, StepOfTurn
<1>4. truncated.used <= truncated.limit
  BY <1>3, AtModel
<1> HIDE DEF truncated
<1>5. CASE Goto("finally")
  <2>1. w' \in Workers /\ w'.pc = "finally" /\ w'.condensed = w.condensed
    BY <1>5, Facts, LabelUpdates DEF Goto, Labels
  <2>2. QuietStep
    BY <2>1, Facts DEF QuietStep
  <2>3. CASE turn' = WithNotice(truncated) /\ truncated.used >= w.limit
    <3>1. truncated.used = truncated.limit
      BY <1>3, <2>3, AtModel
    <3> QED
      BY <1>3, <2>1, <2>2, <2>3, <3>1, AtModel, WaitingKeepsInv
  <2>4. CASE turn' = WithEnd(truncated, "output_truncated")
    BY <1>2, <1>3, <1>4, <2>1, <2>2, <2>4, Facts, EndingKeepsInv DEF SessionTyped
  <2>5. ~(turn' = truncated /\ w' = [w EXCEPT !.pc = "loop", !.failures = 0, !.previous = NoFingerprint])
    BY <2>1, Facts DEF Workers
  <2> QED
    BY <1>1, <2>3, <2>4, <2>5
<1>6. CASE /\ turn' = truncated
           /\ w' = [w EXCEPT !.pc = "loop", !.failures = 0, !.previous = NoFingerprint]
  <2>1. [w EXCEPT !.pc = "loop"] \in Workers
    BY Facts, WorkerUpdates DEF Labels
  <2>2. [w EXCEPT !.pc = "loop", !.failures = 0] \in Workers
    BY <2>1, WorkerUpdates
  <2>3. w' \in Workers
    BY <1>6, <2>2, WorkerUpdates
  <2>4. /\ w'.pc = "loop" /\ w'.condensed = w.condensed /\ w'.left = w.left
        /\ w'.limit = w.limit
    BY <1>6, <2>3, Facts DEF Workers
  <2>5. QuietStep
    BY <2>3, <2>4, Facts DEF QuietStep
  <2> QED
    BY <1>2, <1>6, <2>4, <2>5, AtModel, RecordedStepKeepsInv DEF truncated
<1> QED
  BY <1>1, <1>5, <1>6

\* The final answer ends the turn.
LEMMA ModelFinalKeepsInv ==
    ASSUME Inv, ModelFinal
    PROVE  Inv'
<1> DEFINE said == WithStep(turn, "message")
<1>1. /\ w.pc = "model" /\ turn' = WithEnd(said, "final")
      /\ poisoned' = (poisoned \/ open > 0) /\ UNCHANGED <<open, ws>>
      /\ Goto("finally") /\ UNCHANGED <<supervisor, late, crashes>>
  BY DEF ModelFinal, At, End
<1>2. "message" \in StepTypes /\ "final" \in Reasons
  BY DEF StepTypes, Reasons
<1>3. /\ said \in Turns /\ said.used = turn.used + 1 /\ said.limit = turn.limit
      /\ said.endings = 0
  BY <1>1, <1>2, AtModel, StepOfTurn
<1>4. said.used <= said.limit
  BY <1>1, <1>3, AtModel
<1> HIDE DEF said
<1>5. w' \in Workers /\ w'.pc = "finally" /\ w'.condensed = w.condensed
  BY <1>1, Facts, LabelUpdates DEF Goto, Labels
<1>6. QuietStep
  BY <1>1, <1>5, Facts DEF QuietStep
<1> QED
  BY <1>1, <1>2, <1>3, <1>4, <1>5, <1>6, Facts, EndingKeepsInv DEF SessionTyped

\* An answer with tool calls opens them.
LEMMA ModelCallsKeepsInv ==
    ASSUME Inv, ModelCalls
    PROVE  Inv'
<1>1. PICK n \in 1..MaxCalls:
         open' = n /\ w' = [w EXCEPT !.pc = "tool", !.calls = n]
  BY DEF ModelCalls
<1>2. /\ w.pc = "model" /\ turn' = WithStep(turn, "tool_calls")
      /\ UNCHANGED <<poisoned, ws>> /\ UNCHANGED <<supervisor, late, crashes>>
  BY DEF ModelCalls, At
<1>3. [w EXCEPT !.pc = "tool"] \in Workers
  BY Facts, WorkerUpdates DEF Labels
<1>4. n \in 0..MaxCalls
  BY Facts
<1>5. w' \in Workers
  BY <1>1, <1>3, <1>4, WorkerUpdates
<1>6. /\ w'.pc = "tool" /\ w'.condensed = w.condensed /\ w'.left = w.left
      /\ w'.limit = w.limit /\ w'.calls = n
  BY <1>1, <1>5, Facts DEF Workers
<1>7. QuietStep
  BY <1>2, <1>5, <1>6, Facts DEF QuietStep
<1>8. "tool_calls" \in StepTypes
  BY DEF StepTypes
<1> QED
  BY <1>1, <1>2, <1>6, <1>7, <1>8, RecordedStepKeepsInv

\* Every step in which a model request returns.
LEMMA ModelStepKeepsInv ==
    ASSUME Inv, ModelStep
    PROVE  Inv'
<1>1. CASE ModelRaises
  BY <1>1, PrepareKeepsInv
<1>2. CASE ModelMalformedTruncated
  BY <1>2, TruncationKeepsInv DEF ModelMalformedTruncated, At
<1>3. CASE ModelStopped
  BY <1>3, TerminateStoppedKeepsInv DEF ModelStopped, At, InSlice, InStep
<1>4. CASE ModelTruncated
  BY <1>4, TruncationKeepsInv DEF ModelTruncated, At
<1>5. CASE ModelFinal
  BY <1>5, ModelFinalKeepsInv
<1>6. CASE ModelCalls
  BY <1>6, ModelCallsKeepsInv
<1>7. CASE \E f \in Fingerprints: ModelMalformed(f)
  BY <1>7, ModelMalformedKeepsInv
<1> QED
  BY <1>1, <1>2, <1>3, <1>4, <1>5, <1>6, <1>7 DEF ModelStep

\* A quiet step in the handling of one call, or out of it by an exception.
LEMMA ToolMoveKeepsInv ==
    ASSUME Inv, QuietStep, w.pc \in InTools, w.calls > 0,
           w'.pc \in {"handler", "upgrading", "except"},
           w'.calls = w.calls, w'.left = w.left, w'.limit = w.limit,
           UNCHANGED <<turn, open, poisoned>>, ws' \in Workspaces
    PROVE  Inv'
<1>1. Control'
  BY Facts, QuietStepsKeepControl DEF Inv, SessionTyped
<1>2. TurnFits'
  BY DEF Inv, TurnFits, TurnEndsOnce, UsedWithinLimit, closed, At, InSlice, InStep, InTools
<1>3. CallsFit'
  BY DEF Inv, CallsFit, closed, InTools
<1> QED
  BY <1>1, <1>2, <1>3 DEF Inv

\* The outcome of a call.
LEMMA AnswerKeepsInv ==
    ASSUME Inv, NEW x \in Workers, Answer(x), w.pc \in InTools \ {"tool", "await"},
           x.calls = w.calls, x.left = w.left, x.limit = w.limit, x.condensed = w.condensed,
           UNCHANGED <<supervisor, late, crashes>>, UNCHANGED poisoned, ws' \in Workspaces
    PROVE  Inv'
<1>1. /\ w.calls > 0 /\ open = w.calls /\ turn \in Turns /\ turn.endings = 0
      /\ turn.used + w.left <= turn.limit /\ w.limit = turn.limit
      /\ turn.used <= turn.limit /\ w.calls - 1 \in 0..MaxCalls
  BY Facts DEF Inv, TurnFits, CallsFit, closed, SessionTyped, InSlice
<1>2. CASE stopping
  <2>1. /\ open' = 0 /\ turn' = WithEnd(turn, "user_stop")
        /\ w' = [x EXCEPT !.pc = "finally", !.calls = @ - 1]
    BY <1>2 DEF Answer
  <2>2. [x EXCEPT !.pc = "finally"] \in Workers
    BY WorkerUpdates DEF Labels
  <2>3. w' \in Workers
    BY <1>1, <2>1, <2>2, WorkerUpdates
  <2>4. w'.pc = "finally" /\ w'.condensed = w.condensed
    BY <2>1, <2>3 DEF Workers
  <2>5. QuietStep
    BY <2>3, <2>4, Facts DEF QuietStep, InTools
  <2>6. "user_stop" \in Reasons
    BY DEF Reasons
  <2> QED
    BY <1>1, <2>1, <2>4, <2>5, <2>6, Facts, EndingKeepsInv DEF SessionTyped
<1>3. CASE ~stopping
  <2>1. /\ open' = open - 1 /\ turn' = turn
        /\ w' = [x EXCEPT !.pc = "tool", !.calls = @ - 1]
    BY <1>3 DEF Answer
  <2>2. [x EXCEPT !.pc = "tool"] \in Workers
    BY WorkerUpdates DEF Labels
  <2>3. w' \in Workers
    BY <1>1, <2>1, <2>2, WorkerUpdates
  <2>4. /\ w'.pc = "tool" /\ w'.condensed = w.condensed /\ w'.calls = w.calls - 1
        /\ w'.left = w.left /\ w'.limit = w.limit
    BY <2>1, <2>3 DEF Workers
  <2>5. QuietStep
    BY <2>3, <2>4, Facts DEF QuietStep, InTools
  <2>6. SessionTyped'
    BY <1>1, <2>1, Facts DEF SessionTyped
  <2>7. Control'
    BY <2>5, <2>6, QuietStepsKeepControl DEF Inv
  <2>8. TurnFits'
    BY <2>1, <2>4 DEF Inv, TurnFits, TurnEndsOnce, UsedWithinLimit, closed, At, InSlice, InStep,
       InTools
  <2>9. CallsFit'
    BY <1>1, <2>1, <2>4 DEF Inv, CallsFit, closed, InTools
  <2> QED
    BY <2>7, <2>8, <2>9 DEF Inv
<1> QED
  BY <1>2, <1>3

\* _handle_tool_call begins, unless the turn is being stopped.
LEMMA HandleToolCallKeepsInv ==
    ASSUME Inv, HandleToolCall
    PROVE  Inv'
<1>1. w.pc = "tool" /\ w.calls > 0
  BY DEF HandleToolCall, At
<1>2. CASE stopping /\ TerminateStopped
  BY <1>1, <1>2, TerminateStoppedKeepsInv DEF InSlice, InTools
<1>3. CASE ~stopping /\ ~(stopping /\ TerminateStopped)
  <2>1. Goto("handler") /\ UNCHANGED session /\ UNCHANGED <<supervisor, late, crashes>>
    BY <1>3 DEF HandleToolCall, Begin
  <2>2. /\ w' \in Workers /\ w'.pc = "handler" /\ w'.condensed = w.condensed
        /\ w'.left = w.left /\ w'.limit = w.limit /\ w'.calls = w.calls
    BY <2>1, Facts, LabelUpdates DEF Goto, Labels
  <2>3. QuietStep
    BY <1>1, <2>1, <2>2, Facts DEF QuietStep
  <2> QED
    BY <1>1, <2>1, <2>2, <2>3, Facts, ToolMoveKeepsInv DEF session, SessionTyped, InTools
<1> QED
  BY <1>2, <1>3 DEF HandleToolCall

\* All calls of the answer have their outcome.
LEMMA CallsDoneKeepsInv ==
    ASSUME Inv, CallsDone
    PROVE  Inv'
<1>1. /\ w.pc = "tool" /\ w.calls = 0 /\ Goto("loop") /\ UNCHANGED session
      /\ UNCHANGED <<supervisor, late, crashes>>
  BY DEF CallsDone, At
<1>2. /\ w' \in Workers /\ w'.pc = "loop" /\ w'.condensed = w.condensed
      /\ w'.left = w.left /\ w'.limit = w.limit
  BY <1>1, Facts, LabelUpdates DEF Goto, Labels
<1>3. QuietStep
  BY <1>1, <1>2, Facts DEF QuietStep
<1>4. TurnFits'
  BY <1>1, <1>2 DEF Inv, TurnFits, TurnEndsOnce, UsedWithinLimit, closed, At, InSlice, InStep,
     InTools, session
<1>5. CallsFit'
  BY <1>1, <1>2 DEF Inv, CallsFit, closed, InTools, session
<1> QED
  BY <1>1, <1>3, <1>4, <1>5, MovingKeepsInv

\* A call ends with its result, a refusal or an exception.
LEMMA ToolEndsKeepInv ==
    ASSUME Inv, ToolReturns \/ ToolRefused \/ UpgradeFails \/ ToolRaises
    PROVE  Inv'
<1>1. w \in Workers /\ ws \in Workspaces
  BY Facts DEF SessionTyped
<1>2. CASE ToolReturns
  <2>1. ws' \in Workspaces
    BY <1>1, <1>2 DEF ToolReturns, Workspaces
  <2> QED
    BY <1>1, <1>2, <2>1, AnswerKeepsInv DEF ToolReturns, At, InTools
<1>3. CASE ToolRefused
  BY <1>1, <1>3, AnswerKeepsInv DEF ToolRefused, At, InTools
<1>4. CASE UpgradeFails
  <2>1. ws' \in Workspaces
    BY <1>4 DEF UpgradeFails, Workspaces
  <2> QED
    BY <1>1, <1>4, <2>1, AnswerKeepsInv DEF UpgradeFails, At, InTools
<1>5. CASE ToolRaises
  <2>1. /\ w.pc = "handler" /\ Goto("except") /\ UNCHANGED session
        /\ UNCHANGED <<supervisor, late, crashes>>
    BY <1>5 DEF ToolRaises, At
  <2>2. /\ w' \in Workers /\ w'.pc = "except" /\ w'.condensed = w.condensed
        /\ w'.left = w.left /\ w'.limit = w.limit /\ w'.calls = w.calls
    BY <2>1, Facts, LabelUpdates DEF Goto, Labels
  <2>3. QuietStep
    BY <2>1, <2>2, Facts DEF QuietStep
  <2>4. w.calls > 0
    BY <2>1 DEF Inv, CallsFit, InTools
  <2> QED
    BY <1>1, <2>1, <2>2, <2>3, <2>4, ToolMoveKeepsInv DEF session, InTools
<1> QED
  BY <1>2, <1>3, <1>4, <1>5

\* The upgrade to a worktree, once it is approved.
LEMMA UpgradeKeepsInv ==
    ASSUME Inv, BeginUpgrade \/ UpgradeSucceeds
    PROVE  Inv'
<1>1. w \in Workers
  BY Facts
<1>2. /\ w.pc \in {"upgrade", "upgrading"} /\ w'.pc \in {"upgrading", "handler"}
      /\ w' \in Workers /\ w'.condensed = w.condensed
      /\ w'.left = w.left /\ w'.limit = w.limit /\ w'.calls = w.calls
  <2>1. CASE BeginUpgrade
    BY <1>1, <2>1, LabelUpdates DEF BeginUpgrade, Goto, Labels, At
  <2>2. CASE UpgradeSucceeds
    <3>1. w.pc = "upgrading" /\ w' = [w EXCEPT !.pc = "handler", !.upgrade = FALSE]
      BY <2>2 DEF UpgradeSucceeds, At
    <3>2. [w EXCEPT !.pc = "handler"] \in Workers
      BY <1>1, WorkerUpdates DEF Labels
    <3>3. w' \in Workers
      BY <3>1, <3>2, WorkerUpdates
    <3> QED
      BY <1>1, <3>1, <3>3 DEF Workers
  <2> QED
    BY <2>1, <2>2
<1>3. /\ UNCHANGED <<turn, open, poisoned>> /\ UNCHANGED <<supervisor, late, crashes>>
      /\ ws' \in Workspaces
  BY DEF BeginUpgrade, UpgradeSucceeds, Workspaces
<1>4. QuietStep
  BY <1>2, <1>3, Facts DEF QuietStep
<1>5. w.calls > 0
  BY <1>2 DEF Inv, CallsFit, InTools
<1> QED
  BY <1>2, <1>3, <1>4, <1>5, ToolMoveKeepsInv DEF InTools

\* The gate opens a request for the job, unless the job is stopping.
LEMMA AwaitApprovalKeepsInv ==
    ASSUME Inv, NEW kind \in {"workspace_upgrade", "command_permissions"},
           w.pc = "handler", AwaitApproval(kind)
    PROVE  Inv'
<1>1. record # NoRecord /\ record \in Records /\ w \in Workers
  BY Facts
<1>2. CASE stopping
  <2> DEFINE x == [w EXCEPT !.refused = (@ \/ kind = "workspace_upgrade")]
  <2>1. (w.refused \/ kind = "workspace_upgrade") \in BOOLEAN
    OBVIOUS
  <2>2. x \in Workers
    BY <1>1, <2>1, WorkerUpdates
  <2>3. /\ x.calls = w.calls /\ x.left = w.left /\ x.limit = w.limit
        /\ x.condensed = w.condensed
    BY <1>1, <2>2 DEF Workers
  <2>4. Answer(x) /\ UNCHANGED <<poisoned, ws>> /\ UNCHANGED <<supervisor, late, crashes>>
    BY <1>2 DEF AwaitApproval
  <2> HIDE DEF x
  <2> QED
    BY <2>2, <2>3, <2>4, Facts, AnswerKeepsInv DEF SessionTyped, InTools
<1>3. CASE ~stopping
  <2>1. /\ record' = [record EXCEPT !.state = "awaiting_approval", !.pending = TRUE]
        /\ approval' = [job |-> record.job, kind |-> kind, decision |-> "none"]
        /\ w' = [w EXCEPT !.pc = "await"]
        /\ UNCHANGED session /\ UNCHANGED <<jobs, stops, acks, late, crashes>>
    BY <1>3 DEF AwaitApproval, Goto
  <2>2. /\ w' \in Workers /\ w'.pc = "await" /\ w'.condensed = w.condensed
        /\ w'.left = w.left /\ w'.limit = w.limit /\ w'.calls = w.calls
    BY <1>1, <2>1, LabelUpdates DEF Labels
  <2>3. record' \in Records
    <3>1. [record EXCEPT !.state = "awaiting_approval"] \in Records
      BY <1>1 DEF Records
    <3>2. \A r \in Records: [r EXCEPT !.pending = TRUE] \in Records
      BY DEF Records
    <3> QED
      BY <2>1, <3>1, <3>2
  <2>4. /\ record'.job = record.job /\ record'.stop = record.stop /\ record'.pending
    BY <1>1, <2>1 DEF Records
  <2>5. approval' \in Approvals /\ approval'.job = record.job
    BY <1>1, <2>1 DEF Approvals, Records
  <2>6. record' # NoRecord /\ approval' # NoApproval
    BY <2>3, <2>5, ExecutionAssumption
  <2>7. TypeOK'
    BY <2>1, <2>2, <2>3, <2>5, <2>6 DEF Inv, Control, ControlReachesItsJob, TypeOK, At, session
  <2>8. (StopsAreAcknowledged /\ StopBoundsCalls)'
    BY <1>1, <2>1, <2>4, <2>6 DEF Inv, Control, ControlReachesItsJob, StopsAreAcknowledged,
       StopBoundsCalls
  <2>9. ApprovalIsAwaited' /\ NoStrayApproval'
    BY <2>2, <2>4, <2>5, <2>6 DEF ApprovalIsAwaited, NoStrayApproval, At
  <2>10. RecordFits'
    BY <1>1, <2>1, <2>2, <2>4 DEF Inv, Control, RecordFits
  <2>11. TurnFits'
    BY <2>1, <2>2 DEF Inv, TurnFits, TurnEndsOnce, UsedWithinLimit, closed, At, InSlice, InStep,
       InTools, session
  <2>12. CallsFit'
    BY <2>1, <2>2 DEF Inv, CallsFit, closed, InTools, session
  <2> QED
    BY <2>7, <2>8, <2>9, <2>10, <2>11, <2>12 DEF Inv, Control, ControlReachesItsJob
<1> QED
  BY <1>2, <1>3

\* The wait ends, and with it the request.
LEMMA ApprovalDecidedKeepsInv ==
    ASSUME Inv, ApprovalDecided
    PROVE  Inv'
<1> DEFINE allowed == approval.decision = "allow" /\ ~stopping
<1> DEFINE upgrade == approval.kind = "workspace_upgrade"
<1> DEFINE label == IF ~allowed THEN "refused" ELSE IF upgrade THEN "upgrade" ELSE "handler"
<1> DEFINE state == IF stopping THEN "stopping" ELSE "running"
<1> DEFINE refused == w.refused \/ (upgrade /\ ~allowed)
<1>1. /\ w.pc = "await"
      /\ record' = [record EXCEPT !.pending = FALSE, !.state = state]
      /\ turn' = [turn EXCEPT !.decisions = @ \cup {approval_decision(allowed)}]
      /\ w' = [w EXCEPT !.pc = label, !.refused = refused]
      /\ approval' = NoApproval
      /\ UNCHANGED <<open, poisoned, ws, jobs, stops, acks, late, crashes>>
  BY DEF ApprovalDecided, At
<1>2. record # NoRecord /\ record \in Records /\ w \in Workers /\ turn \in Turns
  BY <1>1, Facts DEF SessionTyped
<1>3. /\ label \in {"refused", "upgrade", "handler"} /\ refused \in BOOLEAN
      /\ state \in {"running", "stopping"} /\ allowed \in BOOLEAN
  OBVIOUS
<1> HIDE DEF label, state, allowed, refused
<1>4. w' \in Workers
  <2>1. [w EXCEPT !.pc = label] \in Workers
    BY <1>2, <1>3, WorkerUpdates DEF Labels
  <2> QED
    BY <1>1, <1>3, <2>1, WorkerUpdates
<1>5. /\ w'.pc = label /\ w'.condensed = w.condensed
      /\ w'.left = w.left /\ w'.limit = w.limit /\ w'.calls = w.calls
  BY <1>1, <1>2, <1>4 DEF Workers
<1>6. record' \in Records
  <2>1. [record EXCEPT !.pending = FALSE] \in Records
    BY <1>2 DEF Records
  <2>2. \A r \in Records: [r EXCEPT !.state = state] \in Records
    BY <1>3 DEF Records
  <2> QED
    BY <1>1, <2>1, <2>2
<1>7. record'.job = record.job /\ record'.stop = record.stop /\ ~record'.pending
  BY <1>1, <1>2 DEF Records
<1>8. record' # NoRecord
  BY <1>6, ExecutionAssumption
<1>9. approval_decision(allowed) \in Decisions
  BY <1>3 DEF approval_decision, Decisions
<1>10. /\ turn' \in Turns /\ turn'.used = turn.used /\ turn'.limit = turn.limit
       /\ turn'.endings = turn.endings /\ turn'.reason = turn.reason
       /\ turn'.noticed = turn.noticed
  BY <1>1, <1>2, <1>9 DEF Turns
<1>11. TypeOK'
  BY <1>1, <1>3, <1>4, <1>5, <1>6, <1>8, <1>10 DEF Inv, Control, ControlReachesItsJob, TypeOK, At
<1>12. (StopsAreAcknowledged /\ StopBoundsCalls)'
  BY <1>1, <1>2, <1>7, <1>8 DEF Inv, Control, ControlReachesItsJob, StopsAreAcknowledged,
     StopBoundsCalls
<1>13. ApprovalIsAwaited' /\ NoStrayApproval'
  BY <1>1, <1>3, <1>5, <1>7 DEF ApprovalIsAwaited, NoStrayApproval, At
<1>14. RecordFits'
  BY <1>1, <1>2, <1>5, <1>7 DEF Inv, Control, RecordFits
<1>15. TurnFits'
  BY <1>1, <1>3, <1>5, <1>10 DEF Inv, TurnFits, TurnEndsOnce, UsedWithinLimit, closed, At,
     InSlice, InStep, InTools
<1>16. CallsFit'
  BY <1>1, <1>3, <1>5, <1>10 DEF Inv, CallsFit, closed, InTools
<1> QED
  BY <1>11, <1>12, <1>13, <1>14, <1>15, <1>16 DEF Inv, Control, ControlReachesItsJob

\* Every step of a tool call.
LEMMA ToolStepKeepsInv ==
    ASSUME Inv, ToolStep
    PROVE  Inv'
<1>1. CASE RequestUpgrade
  BY <1>1, AwaitApprovalKeepsInv DEF RequestUpgrade, At
<1>2. CASE RequestPermissions
  BY <1>2, AwaitApprovalKeepsInv DEF RequestPermissions, At
<1> QED
  BY <1>1, <1>2, HandleToolCallKeepsInv, CallsDoneKeepsInv, ToolEndsKeepInv, UpgradeKeepsInv,
     ApprovalDecidedKeepsInv DEF ToolStep

\* An exception of the worker ends the turn, if that can still be recorded.
LEMMA RuntimeErrorKeepsInv ==
    ASSUME Inv, RuntimeError
    PROVE  Inv'
<1>1. /\ w.pc = "except" /\ Goto("finally") /\ UNCHANGED <<supervisor, late, crashes>>
  BY DEF RuntimeError, At
<1>2. /\ w' \in Workers /\ w'.pc = "finally" /\ w'.condensed = w.condensed
  BY <1>1, Facts, LabelUpdates DEF Goto, Labels
<1>3. QuietStep
  BY <1>1, <1>2, Facts DEF QuietStep
<1>4. CASE closed
  <2>1. UNCHANGED session
    BY <1>4 DEF RuntimeError
  <2>2. TurnFits' /\ CallsFit'
    BY <1>2, <1>4, <2>1 DEF Inv, TurnFits, CallsFit, TurnEndsOnce, UsedWithinLimit, closed, At,
       InSlice, InStep, InTools, session
  <2> QED
    BY <1>3, <2>1, <2>2, MovingKeepsInv
<1>5. CASE ~closed
  <2>1. /\ turn' = WithEnd(turn, "runtime_error")
        /\ poisoned' = (poisoned \/ open > 0) /\ UNCHANGED <<open, ws>>
    BY <1>5 DEF RuntimeError, End
  <2>2. turn \in Turns /\ turn.endings = 0 /\ turn.used <= turn.limit
    BY <1>5, Facts DEF Inv, TurnFits, UsedWithinLimit, SessionTyped
  <2>3. "runtime_error" \in Reasons
    BY DEF Reasons
  <2> QED
    BY <1>2, <1>3, <2>1, <2>2, <2>3, Facts, EndingKeepsInv DEF SessionTyped
<1> QED
  BY <1>4, <1>5

\* No worker is a worker that has done nothing.
LEMMA NoWorkerTyped ==
    NoWorker \in Workers /\ NoWorker.pc = "none" /\ NoWorker.condensed = 0
<1>1. NoWorker \in Workers
  BY ExecutionAssumption DEF NoWorker, Workers, Labels
<1> QED
  BY <1>1 DEF NoWorker, Workers

\* Without a job the supervisor has nothing to keep but the numbers.
LEMMA IdleControl ==
    ASSUME SessionTyped', record' = NoRecord, approval' = NoApproval, w' = NoWorker,
           jobs' \in 0..MaxJobs, stops' \subseteq 1..jobs', acks' \subseteq 1..jobs',
           crashes' \in 0..MaxCrashes, crashes' = 0 => stops' \subseteq acks',
           late' \in [main: Nat, condenser: Nat, tool: Nat], StopBoundsCalls'
    PROVE  Control'
<1>1. TypeOK'
  BY NoWorkerTyped DEF TypeOK, SessionTyped, Workspaces, At
<1>2. (StopsAreAcknowledged /\ ApprovalIsAwaited)' /\ NoStrayApproval'
  BY NoWorkerTyped DEF StopsAreAcknowledged, ApprovalIsAwaited, NoStrayApproval, At
<1>3. RecordFits'
  BY DEF RecordFits
<1> QED
  BY <1>1, <1>2, <1>3 DEF Control, ControlReachesItsJob

\* finally: the job goes, its Stop is acknowledged, its open turn ended.
LEMMA FinishKeepsInv ==
    ASSUME Inv, Finish
    PROVE  Inv'
<1>1. /\ w.pc = "finally" /\ acks' = (IF record.stop THEN acks \cup {record.job} ELSE acks)
      /\ record' = NoRecord /\ w' = NoWorker
      /\ UNCHANGED <<approval, jobs, stops, late, crashes>>
  BY DEF Finish, At, stopping
<1>2. record # NoRecord /\ record \in Records /\ record.job \in 1..jobs
  BY <1>1, Facts DEF Inv, Control, RecordFits, Records
<1>3. TypeOK /\ StopsAreAcknowledged /\ StopBoundsCalls
  BY DEF Inv, Control, ControlReachesItsJob
<1>4. /\ approval' = NoApproval /\ acks' \subseteq 1..jobs'
      /\ (crashes' = 0 => stops' \subseteq acks')
  BY <1>1, <1>2, <1>3 DEF TypeOK, StopsAreAcknowledged, Inv, Control, NoStrayApproval, At
<1>5. StopBoundsCalls'
  BY <1>1, <1>3 DEF StopBoundsCalls
<1>6. CASE stopping /\ ~closed
  <2>1. /\ turn' = WithEnd(turn, "user_stop")
        /\ poisoned' = (poisoned \/ open > 0) /\ UNCHANGED <<open, ws>>
    BY <1>6 DEF Finish, End
  <2>2. turn \in Turns /\ turn.endings = 0 /\ turn.used <= turn.limit
    BY <1>6, Facts DEF Inv, TurnFits, UsedWithinLimit, SessionTyped
  <2>3. "user_stop" \in Reasons
    BY DEF Reasons
  <2>4. /\ turn' \in Turns /\ turn'.endings = 1 /\ turn'.used = turn.used
        /\ turn'.limit = turn.limit /\ turn'.reason = "user_stop"
    BY <2>1, <2>2, <2>3, EndOfTurn
  <2>5. SessionTyped'
    BY <2>1, <2>4, Facts DEF SessionTyped
  <2>6. Control'
    BY <1>1, <1>3, <1>4, <1>5, <2>5, IdleControl DEF TypeOK
  <2>7. TurnFits' /\ CallsFit'
    BY <1>1, <2>2, <2>4, NoWorkerTyped DEF TurnFits, CallsFit, TurnEndsOnce, UsedWithinLimit,
       closed, At, InSlice, InStep, InTools
  <2> QED
    BY <2>6, <2>7 DEF Inv
<1>7. CASE ~(stopping /\ ~closed)
  <2>1. UNCHANGED session
    BY <1>7 DEF Finish
  <2>2. SessionTyped'
    BY <2>1, Facts DEF SessionTyped, session
  <2>3. Control'
    BY <1>1, <1>3, <1>4, <1>5, <2>2, IdleControl DEF TypeOK
  <2>4. TurnFits'
    BY <1>1, <2>1, NoWorkerTyped DEF Inv, TurnFits, TurnEndsOnce, UsedWithinLimit, closed, At,
       InSlice, InStep, InTools, session, Noticed
  <2>5. CallsFit'
    BY <1>1, <2>1, NoWorkerTyped DEF Inv, CallsFit, closed, InTools, session
  <2> QED
    BY <2>3, <2>4, <2>5 DEF Inv
<1> QED
  BY <1>6, <1>7

\* The process dies: record, approval and worker are gone, the log stays.
LEMMA CrashKeepsInv ==
    ASSUME Inv, Crash
    PROVE  Inv'
<1>1. /\ crashes < MaxCrashes /\ crashes' = crashes + 1 /\ record' = NoRecord
      /\ approval' = NoApproval /\ w' = NoWorker /\ UNCHANGED session
      /\ UNCHANGED <<jobs, stops, acks, late>>
  BY DEF Crash
<1>2. TypeOK /\ StopBoundsCalls
  BY DEF Inv, Control, ControlReachesItsJob
<1>3. crashes' \in 0..MaxCrashes /\ crashes' # 0
  BY <1>1, <1>2, ExecutionAssumption DEF TypeOK
<1>4. SessionTyped'
  BY <1>1, Facts DEF SessionTyped, session
<1>5. StopBoundsCalls'
  BY <1>1, <1>2 DEF StopBoundsCalls
<1>6. Control'
  BY <1>1, <1>2, <1>3, <1>4, <1>5, IdleControl DEF TypeOK
<1>7. TurnFits'
  BY <1>1, <1>3, NoWorkerTyped DEF Inv, TurnFits, TurnEndsOnce, UsedWithinLimit, closed, At,
     InSlice, InStep, InTools, session
<1>8. CallsFit'
  BY <1>1, <1>3, NoWorkerTyped DEF CallsFit, InTools
<1> QED
  BY <1>6, <1>7, <1>8 DEF Inv

\* A job starts from a state without one.
LEMMA LaunchKeepsInv ==
    ASSUME Inv, record = NoRecord, NEW message \in BOOLEAN, Launch(message),
           UNCHANGED <<open, poisoned, ws>>, turn' \in Turns,
           turn'.endings = turn.endings, turn'.reason = turn.reason,
           turn'.used = turn.used, turn'.limit >= turn.limit
    PROVE  Inv'
<1>1. /\ jobs < MaxJobs /\ jobs' = jobs + 1
      /\ record' = [job |-> jobs + 1, state |-> "running", stop |-> FALSE, pending |-> FALSE]
      /\ w' = [NoWorker EXCEPT !.pc = "start", !.message = message]
      /\ late' = NothingLate /\ UNCHANGED <<approval, stops, acks, crashes>>
  BY DEF Launch
<1>2. TypeOK /\ StopsAreAcknowledged
  BY DEF Inv, Control, ControlReachesItsJob
<1>3. jobs' \in 0..MaxJobs /\ jobs + 1 \in 1..MaxJobs
  BY <1>1, <1>2, ExecutionAssumption DEF TypeOK
<1>4. record' \in Records /\ record'.job = jobs' /\ ~record'.stop /\ ~record'.pending
  BY <1>1, <1>3 DEF Records
<1>5. record' # NoRecord
  BY <1>4, ExecutionAssumption
<1>6. [NoWorker EXCEPT !.pc = "start"] \in Workers
  BY NoWorkerTyped, WorkerUpdates DEF Labels
<1>7. w' \in Workers
  BY <1>1, <1>6, WorkerUpdates
<1>8. w'.pc = "start" /\ w'.condensed = 0
  BY <1>1, <1>7, NoWorkerTyped DEF Workers
<1>9. /\ late' \in [main: Nat, condenser: Nat, tool: Nat]
      /\ late'.main = 0 /\ late'.condenser = 0 /\ late'.tool = 0
  BY <1>1 DEF NothingLate
<1>10. stops' \subseteq 1..jobs' /\ acks' \subseteq 1..jobs'
  BY <1>1, <1>2, <1>3 DEF TypeOK
<1>11. w.pc = "none" /\ approval' = NoApproval
  BY <1>1, Facts DEF Inv, Control, NoStrayApproval, At
<1>12. TypeOK'
  BY <1>1, <1>2, <1>3, <1>4, <1>5, <1>7, <1>8, <1>9, <1>10, <1>11 DEF TypeOK, At
<1>13. StopsAreAcknowledged'
  BY <1>1, <1>2 DEF StopsAreAcknowledged
<1>14. StopBoundsCalls' /\ RecordFits'
  BY <1>3, <1>4, <1>8, <1>9, ExecutionAssumption DEF StopBoundsCalls, RecordFits
<1>15. ApprovalIsAwaited' /\ NoStrayApproval'
  BY <1>4, <1>8, <1>11 DEF ApprovalIsAwaited, NoStrayApproval, At
<1>16. turn'.limit \in Nat
  BY DEF Turns
<1>17. TurnFits'
  BY <1>8, <1>16, Facts DEF Inv, TurnFits, TurnEndsOnce, UsedWithinLimit, closed, At, InSlice,
     InStep, InTools
<1>18. CallsFit'
  BY <1>1, <1>8, <1>11 DEF Inv, CallsFit, closed, InTools
<1> QED
  BY <1>12, <1>13, <1>14, <1>15, <1>17, <1>18 DEF Inv, Control, ControlReachesItsJob

\* start, for a message, a continuation or more budget.
LEMMA StartsKeepInv ==
    ASSUME Inv, StartMessage \/ StartContinuation \/ StartWithIncrease
    PROVE  Inv'
<1>1. turn \in Turns
  BY Facts DEF SessionTyped
<1>2. CASE StartMessage
  <2>1. Launch(TRUE) /\ record = NoRecord /\ UNCHANGED <<turn, open, poisoned, ws>>
    BY <1>2 DEF StartMessage, session
  <2>2. turn'.limit >= turn.limit
    BY <2>1, Facts
  <2> QED
    BY <1>1, <2>1, <2>2, LaunchKeepsInv
<1>3. CASE StartContinuation
  <2>1. Launch(FALSE) /\ record = NoRecord /\ UNCHANGED <<turn, open, poisoned, ws>>
    BY <1>3 DEF StartContinuation, session
  <2>2. turn'.limit >= turn.limit
    BY <2>1, Facts
  <2> QED
    BY <1>1, <2>1, <2>2, LaunchKeepsInv
<1>4. CASE StartWithIncrease
  <2>1. PICK new \in (turn.limit + 1)..BudgetCap: turn' = [turn EXCEPT !.limit = new]
    BY <1>4 DEF StartWithIncrease
  <2>2. new \in Nat /\ new > turn.limit
    BY Facts, ExecutionAssumption
  <2>3. /\ turn' \in Turns /\ turn'.endings = turn.endings /\ turn'.reason = turn.reason
        /\ turn'.used = turn.used /\ turn'.limit = new
    BY <1>1, <2>1, <2>2 DEF Turns
  <2>4. Launch(FALSE) /\ record = NoRecord /\ UNCHANGED <<open, poisoned, ws>>
    BY <1>4 DEF StartWithIncrease
  <2>5. turn'.limit >= turn.limit
    BY <2>2, <2>3, Facts
  <2> QED
    BY <2>3, <2>4, <2>5, LaunchKeepsInv
<1> QED
  BY <1>2, <1>3, <1>4

\* stop without a job ends the turn itself.
LEMMA StopIdleKeepsInv ==
    ASSUME Inv, StopIdle
    PROVE  Inv'
<1>1. /\ record = NoRecord /\ ~closed /\ jobs < MaxJobs /\ jobs' = jobs + 1
      /\ stops' = stops \cup {jobs + 1} /\ acks' = acks \cup {jobs + 1}
      /\ turn' = WithEnd(turn, "user_stop")
      /\ poisoned' = (poisoned \/ open > 0) /\ UNCHANGED <<open, ws>>
      /\ UNCHANGED <<record, approval, w, late, crashes>>
  BY DEF StopIdle, End
<1>2. TypeOK /\ StopsAreAcknowledged /\ StopBoundsCalls /\ ApprovalIsAwaited
  BY DEF Inv, Control, ControlReachesItsJob
<1>3. turn \in Turns /\ turn.endings = 0 /\ turn.used <= turn.limit /\ w.pc = "none"
  BY <1>1, Facts DEF Inv, TurnFits, UsedWithinLimit, SessionTyped
<1>4. "user_stop" \in Reasons
  BY DEF Reasons
<1>5. /\ turn' \in Turns /\ turn'.endings = 1 /\ turn'.used = turn.used
      /\ turn'.limit = turn.limit /\ turn'.reason = "user_stop"
  BY <1>1, <1>3, <1>4, EndOfTurn
<1>6. jobs' \in 0..MaxJobs /\ stops' \subseteq 1..jobs' /\ acks' \subseteq 1..jobs'
  BY <1>1, <1>2, ExecutionAssumption DEF TypeOK
<1>7. TypeOK'
  BY <1>1, <1>2, <1>5, <1>6 DEF TypeOK, At
<1>8. (StopsAreAcknowledged /\ StopBoundsCalls /\ ApprovalIsAwaited)'
  BY <1>1, <1>2 DEF StopsAreAcknowledged, StopBoundsCalls, ApprovalIsAwaited, At
<1>9. RecordFits' /\ NoStrayApproval'
  BY <1>1 DEF RecordFits, NoStrayApproval, At, Inv, Control
<1>10. TurnFits' /\ CallsFit'
  BY <1>1, <1>3, <1>5 DEF TurnFits, CallsFit, TurnEndsOnce, UsedWithinLimit,
     closed, At, InSlice, InStep, InTools
<1> QED
  BY <1>7, <1>8, <1>9, <1>10 DEF Inv, Control, ControlReachesItsJob

\* stop with a job sets the flag and denies a pending approval.
LEMMA StopActiveKeepsInv ==
    ASSUME Inv, StopActive
    PROVE  Inv'
<1>1. /\ record # NoRecord
      /\ record' = [record EXCEPT !.stop = TRUE, !.state = "stopping"]
      /\ stops' = stops \cup {record.job}
      /\ approval' = (IF record.pending THEN [approval EXCEPT !.decision = "deny"]
                      ELSE approval)
      /\ UNCHANGED session /\ UNCHANGED <<w, jobs, acks, late, crashes>>
  BY DEF StopActive
<1>2. TypeOK /\ StopsAreAcknowledged /\ StopBoundsCalls /\ ApprovalIsAwaited
  BY DEF Inv, Control, ControlReachesItsJob
<1>3. record \in Records /\ record.job \in 1..jobs
  BY <1>1, Facts DEF Inv, Control, RecordFits, Records
<1>4. record' \in Records
  <2>1. [record EXCEPT !.stop = TRUE] \in Records
    BY <1>3 DEF Records
  <2>2. \A r \in Records: [r EXCEPT !.state = "stopping"] \in Records
    BY DEF Records
  <2> QED
    BY <1>1, <2>1, <2>2
<1>5. record'.job = record.job /\ record'.stop /\ record'.pending = record.pending
  BY <1>1, <1>3 DEF Records
<1>6. record' # NoRecord
  BY <1>4, ExecutionAssumption
<1>7. /\ approval' \in {NoApproval} \cup Approvals
      /\ approval # NoApproval => approval' # NoApproval /\ approval'.job = approval.job
      /\ approval = NoApproval => approval' = NoApproval
  <2>1. CASE record.pending
    <3>1. approval \in Approvals
      BY <1>1, <1>2, <2>1 DEF ApprovalIsAwaited, TypeOK
    <3>2. approval' \in Approvals /\ approval'.job = approval.job
      BY <1>1, <2>1, <3>1 DEF Approvals
    <3> QED
      BY <3>1, <3>2, ExecutionAssumption
  <2>2. CASE ~record.pending
    BY <1>1, <1>2, <2>2 DEF TypeOK
  <2> QED
    BY <2>1, <2>2
<1>8. TypeOK'
  BY <1>1, <1>2, <1>3, <1>4, <1>6, <1>7 DEF TypeOK, At, session
<1>9. StopsAreAcknowledged' /\ StopBoundsCalls'
  BY <1>1, <1>2, <1>5, <1>6 DEF StopsAreAcknowledged, StopBoundsCalls
<1>10. ApprovalIsAwaited' /\ NoStrayApproval'
  BY <1>1, <1>2, <1>5, <1>6, <1>7 DEF ApprovalIsAwaited, At, Inv, Control, NoStrayApproval
<1>11. RecordFits'
  BY <1>1, <1>5 DEF Inv, Control, RecordFits
<1>12. TurnFits' /\ CallsFit'
  BY <1>1 DEF Inv, TurnFits, CallsFit, TurnEndsOnce, UsedWithinLimit, closed, At, session, Noticed
<1> QED
  BY <1>8, <1>9, <1>10, <1>11, <1>12 DEF Inv, Control, ControlReachesItsJob

\* resolve_approval decides the pending approval.
LEMMA ResolveKeepsInv ==
    ASSUME Inv, resolve_approval
    PROVE  Inv'
<1>1. PICK d \in {"allow", "deny"}: approval' = [approval EXCEPT !.decision = d]
  BY DEF resolve_approval
<1>2. /\ record # NoRecord /\ approval # NoApproval
      /\ UNCHANGED session /\ UNCHANGED <<record, w, jobs, stops, acks, late, crashes>>
  BY DEF resolve_approval
<1>3. TypeOK /\ StopsAreAcknowledged /\ StopBoundsCalls /\ ApprovalIsAwaited
  BY DEF Inv, Control, ControlReachesItsJob
<1>4. approval \in Approvals
  BY <1>2, <1>3 DEF TypeOK
<1>5. approval' \in Approvals /\ approval'.job = approval.job
  BY <1>1, <1>4 DEF Approvals
<1>6. approval' # NoApproval
  BY <1>5, ExecutionAssumption
<1>7. TypeOK'
  BY <1>2, <1>3, <1>5 DEF TypeOK, At, session
<1>8. StopsAreAcknowledged' /\ StopBoundsCalls'
  BY <1>2, <1>3 DEF StopsAreAcknowledged, StopBoundsCalls
<1>9. ApprovalIsAwaited' /\ NoStrayApproval'
  BY <1>2, <1>3, <1>5, <1>6 DEF ApprovalIsAwaited, At, Inv, Control, NoStrayApproval
<1>10. RecordFits'
  BY <1>2 DEF Inv, Control, RecordFits
<1>11. TurnFits' /\ CallsFit'
  BY <1>2 DEF Inv, TurnFits, CallsFit, TurnEndsOnce, UsedWithinLimit, closed, At, session, Noticed
<1> QED
  BY <1>7, <1>8, <1>9, <1>10, <1>11 DEF Inv, Control, ControlReachesItsJob

-----------------------------------------------------------------------------
(* The theorems *)

\* A new session satisfies the invariant.
LEMMA InitInv == Init => Inv
<1> SUFFICES ASSUME Init PROVE Inv
  OBVIOUS
<1> USE DEF Init
<1>1. late \in [main: Nat, condenser: Nat, tool: Nat]
      /\ late.main = 0 /\ late.condenser = 0 /\ late.tool = 0
  BY DEF NothingLate
<1>2. jobs \in 0..MaxJobs /\ crashes \in 0..MaxCrashes /\ open \in 0..MaxCalls
  BY ExecutionAssumption
<1>3. TypeOK
  BY <1>1, <1>2, NoWorkerTyped, FirstTurns DEF TypeOK, At
<1>4. StopsAreAcknowledged /\ StopBoundsCalls /\ ApprovalIsAwaited
  BY <1>1, NoWorkerTyped, ExecutionAssumption DEF StopsAreAcknowledged, StopBoundsCalls,
     ApprovalIsAwaited, At
<1>5. RecordFits /\ NoStrayApproval
  BY DEF RecordFits, NoStrayApproval
<1>6. TurnFits /\ CallsFit
  BY NoWorkerTyped, FirstTurns, ExecutionAssumption DEF TurnFits, CallsFit, TurnEndsOnce,
     UsedWithinLimit, closed, At, InSlice, InStep, InTools
<1> QED
  BY <1>3, <1>4, <1>5, <1>6 DEF Inv, Control, ControlReachesItsJob

\* Every step keeps the invariant.
LEMMA StepInv == Inv /\ [Next]_vars => Inv'
<1> SUFFICES ASSUME Inv, [Next]_vars PROVE Inv'
  OBVIOUS
<1>1. CASE Rpc
  BY <1>1, StartsKeepInv, StopIdleKeepsInv, StopActiveKeepsInv, ResolveKeepsInv DEF Rpc
<1>2. CASE Worker
  BY <1>2, RunTurnKeepsInv, ContinueTurnKeepsInv, BeginSliceKeepsInv, IterateKeepsInv,
     EndSliceKeepsInv, CallCondenserKeepsInv, PrepareKeepsInv, ContextExceededKeepsInv,
     ModelStepKeepsInv, ToolStepKeepsInv, RuntimeErrorKeepsInv, FinishKeepsInv DEF Worker
<1>3. CASE Crash
  BY <1>3, CrashKeepsInv
<1>4. CASE UNCHANGED vars
  <2> USE <1>4 DEF vars
  <2>1. ControlReachesItsJob'
    BY DEF Inv, Control, ControlReachesItsJob, TypeOK, At, StopsAreAcknowledged, StopBoundsCalls,
       ApprovalIsAwaited
  <2>2. RecordFits' /\ NoStrayApproval'
    BY DEF Inv, Control, RecordFits, NoStrayApproval, At
  <2>3. TurnFits' /\ CallsFit'
    BY DEF Inv, TurnFits, CallsFit, TurnEndsOnce, UsedWithinLimit, closed, At, Noticed
  <2> QED
    BY <2>1, <2>2, <2>3 DEF Inv, Control
<1> QED
  BY <1>1, <1>2, <1>3, <1>4 DEF Next

\* The invariant always holds.
LEMMA InvHolds == Spec => []Inv
  BY InitInv, StepInv, PTL DEF Spec

\* For every number of jobs, calls and crashes: a Stop is acknowledged by the
\* job it was meant for and keeps model and tool calls from beginning, and a
\* decision reaches the request it was made for (stop, await_approval,
\* resolve_approval, _run).
THEOREM ControlIsExact == Spec => []ControlReachesItsJob
<1>1. Inv => ControlReachesItsJob
  BY DEF Inv, Control
<1> QED
  BY <1>1, InvHolds, PTL

\* For every slice length, budget and number of repairs: no turn uses more than
\* its budget, and one that is left waiting for more has its notice
\* (_run_slice, _record_output_truncation, increase_turn_budget).
THEOREM BudgetsAreKept == Spec => []TurnKeepsItsBudget
<1>1. Inv => TurnKeepsItsBudget
  BY Facts DEF Inv, TurnFits, TurnKeepsItsBudget, BudgetWaitIsNoticed, waiting, Noticed, At
<1> QED
  BY <1>1, InvHolds, PTL

\* An ended turn changes only by the next user_message.
LEMMA EndedTurnsStay ==
    ASSUME Inv, Next, closed, turn' # turn
    PROVE  turn' = NewTurn
<1>1. w.pc \notin {"slice"} \cup InSlice
  BY DEF Inv, TurnFits
<1>2. CASE Rpc
  BY <1>2 DEF Rpc, StartMessage, StartContinuation, StartWithIncrease, StopIdle, StopActive,
     resolve_approval, waiting, session
<1>3. CASE run_turn
  BY <1>3 DEF run_turn
<1>4. CASE continue_turn \/ RuntimeError \/ Finish \/ Crash
  BY <1>4 DEF continue_turn, RuntimeError, Finish, Crash, session
<1>5. ~(BeginSlice \/ Iterate \/ EndSlice \/ CallCondenser \/ CondenserReturns \/ CallModel
        \/ ContextExceeded \/ ContextNotReady)
  BY <1>1 DEF BeginSlice, Iterate, EndSlice, CallCondenser, CondenserReturns, CallModel,
     ContextExceeded, ContextNotReady, At, InSlice, InStep
<1>6. ~ModelStep
  BY <1>1 DEF ModelStep, ModelRaises, ModelMalformedTruncated, ModelStopped, ModelTruncated,
     ModelFinal, ModelCalls, ModelMalformed, At, InSlice, InStep
<1>7. ~ToolStep
  BY <1>1 DEF ToolStep, HandleToolCall, CallsDone, ToolReturns, ToolRaises, RequestUpgrade,
     RequestPermissions, ApprovalDecided, ToolRefused, BeginUpgrade, UpgradeSucceeds,
     UpgradeFails, At, InSlice, InTools
<1> QED
  BY <1>2, <1>3, <1>4, <1>5, <1>6, <1>7 DEF Next, Worker

\* A turn is ended over open calls only by the except clause.
LEMMA OnlyErrorsPoison ==
    ASSUME Inv, Next, crashes = 0, poisoned', ~poisoned
    PROVE  turn'.reason = "runtime_error"
<1>1. turn \in Turns /\ "runtime_error" \in Reasons
  BY Facts DEF SessionTyped, Reasons
<1>2. (~closed /\ w.pc \in {"none", "finally"}) => open = 0
  BY DEF Inv, CallsFit, InTools
<1>3. w.pc = "model" => open = 0
  BY DEF Inv, CallsFit
<1>4. CASE RuntimeError
  <2>1. turn' = WithEnd(turn, "runtime_error")
    BY <1>4 DEF RuntimeError, End, session
  <2> QED
    BY <1>1, <2>1, EndOfTurn
<1>5. ~(open = 0 /\ poisoned' = (poisoned \/ open > 0))
  <2>1. open = 0 => ~(open > 0)
    OBVIOUS
  <2> QED
    BY <2>1, Zenon
<1>6. ~(StopIdle \/ Finish)
  <2>1. CASE StopIdle
    <3>1. record = NoRecord /\ ~closed /\ poisoned' = (poisoned \/ open > 0)
      BY <2>1, Zenon DEF StopIdle, End
    <3>2. w.pc = "none"
      BY <3>1, Facts
    <3> QED
      BY <1>2, <1>5, <3>1, <3>2, Zenon
  <2>2. CASE Finish
    <3>1. CASE stopping /\ ~closed
      <4>1. w.pc = "finally" /\ poisoned' = (poisoned \/ open > 0)
        BY <2>2, <3>1, Zenon DEF Finish, At, End
      <4> QED
        BY <1>2, <1>5, <3>1, <4>1, Zenon
    <3>2. CASE ~(stopping /\ ~closed)
      BY <2>2, <3>2 DEF Finish, session
    <3> QED
      BY <3>1, <3>2
  <2> QED
    BY <2>1, <2>2
<1>7. ~ContextExceeded
  <2>1. SUFFICES ASSUME ContextExceeded PROVE FALSE
    OBVIOUS
  <2>2. open = 0 /\ poisoned' = (poisoned \/ open > 0)
    BY <2>1, Zenon DEF ContextExceeded, End
  <2> QED
    BY <1>5, <2>2, Zenon
<1>8. ~ModelFinal
  <2>1. SUFFICES ASSUME ModelFinal PROVE FALSE
    OBVIOUS
  <2>2. w.pc = "model" /\ poisoned' = (poisoned \/ open > 0)
    BY <2>1, Zenon DEF ModelFinal, At, End
  <2> QED
    BY <1>3, <1>5, <2>2, Zenon
<1>9. ~(StartMessage \/ StartContinuation \/ StartWithIncrease \/ StopActive \/ resolve_approval
        \/ Crash)
  BY DEF StartMessage, StartContinuation, StartWithIncrease, StopActive, resolve_approval, Crash,
     session
<1>10. ~(run_turn \/ continue_turn \/ BeginSlice \/ Iterate \/ EndSlice \/ CallCondenser
         \/ CondenserReturns \/ CallModel \/ ContextNotReady)
  BY DEF run_turn, continue_turn, BeginSlice, Iterate, EndSlice, CallCondenser,
     CondenserReturns, CallModel, ContextNotReady, TerminateStopped, session
<1>11. ~(ModelRaises \/ ModelMalformedTruncated \/ ModelStopped \/ ModelTruncated \/ ModelCalls
         \/ \E f \in Fingerprints: ModelMalformed(f))
  BY DEF ModelRaises, ModelMalformedTruncated, ModelStopped, ModelTruncated, ModelCalls,
     ModelMalformed, TerminateStopped, session
<1>12. ~ToolStep
  BY DEF ToolStep, HandleToolCall, CallsDone, ToolReturns, ToolRaises, RequestUpgrade,
     RequestPermissions, ApprovalDecided, ToolRefused, BeginUpgrade, UpgradeSucceeds,
     UpgradeFails, TerminateStopped, AwaitApproval, session
<1> QED
  BY <1>4, <1>6, <1>7, <1>8, <1>9, <1>10, <1>11, <1>12 DEF Next, Rpc, Worker, ModelStep

\* Runner, except clause, finally clause and idle Stop together end a turn once
\* and for good, and but for crashes only the except clause leaves calls open.
THEOREM TurnsEndForGood == Spec => TurnEndsForGood
<1>1. Inv => TurnEndsOnce
  BY DEF Inv, TurnFits
<1>2. Inv /\ [Next]_vars => [(closed /\ turn' # turn) => turn' = NewTurn]_vars
  BY EndedTurnsStay
<1>3. Inv /\ [Next]_vars =>
         [(poisoned' /\ ~poisoned /\ crashes = 0) => turn'.reason = "runtime_error"]_vars
  BY OnlyErrorsPoison
<1> QED
  BY <1>1, <1>2, <1>3, InvHolds, PTL DEF Spec, TurnEndsForGood, NothingAfterEnd,
     OnlyErrorsLeaveCallsOpen
=============================================================================
