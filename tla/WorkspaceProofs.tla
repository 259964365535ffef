--------------------------- MODULE WorkspaceProofs ---------------------------
(***************************************************************************)
(* Proofs about the workspace of a session.  Its lifecycle, for any number *)
(* of crashes, turns, commits in the source and steps of the user's; and   *)
(* the commands that run in its worktree, for every layout of the host,    *)
(* every set of requests and every order of grants, outside changes and    *)
(* crashes: what run_prepared starts is what was approved, and what it     *)
(* records is true.                                                        *)
(***************************************************************************)
EXTENDS Lifecycle, Commands, NaturalsInduction, WellFoundedInduction, TLAPS

-----------------------------------------------------------------------------
(* The lifecycle of a session *)


\* A session that has no worktree yet has nothing of one: a process that fails
\* to make one takes back what it recorded, and edits need a worktree.
NothingBeforeActivation ==
    meta.state \in {"source_only", "preparing_workspace"} => ~meta.isolated /\ txn.state = "none"

\* Where the process is says what session.json records, because no other
\* process has the session open.
PlaceFitsState ==
    /\ proc.pc \in {"preparing", "created"} => meta.state = "preparing_workspace"
    /\ proc.pc \in {"edit", "editing", "counted", "command"} => meta.state = "changes_active"
    /\ proc.pc \in {"accepting", "discarding"} => meta.state = proc.pc
    /\ proc.front = "cli" /\ proc.pc \notin {"preparing", "created"}
           => meta.state \notin Transitional

\* Who may execute has a worktree and, in the terminal, no half edit but its
\* own; who asks for a worktree may not.
ExecutorFits ==
    /\ ExecutorsHaveAWorktree
    /\ proc.pc \in {"asking", "preparing", "created"} => ~proc.exec
    /\ proc.front = "cli" /\ proc.exec /\ proc.pc \notin {"editing", "counted"} => ~Unfinished

\* A directory nobody knows of is a locked one, also just before it is made.
DirectoryKnown ==
    meta.state = "source_only" \/ proc.pc = "preparing" => (tree.there => tree.locked)

\* A slice knows the refusals of its turn.
SliceKnows ==
    proc.pc = "slice" \/ proc.within = "slice" => (RefusalOnRecord(turn) => proc.refused)

Inv ==
    /\ LifecycleTypeOK
    /\ NothingBeforeActivation /\ PlaceFitsState /\ ExecutorFits
    /\ DirectoryKnown /\ TerminalRefusalHolds /\ SliceKnows
-----------------------------------------------------------------------------
(* Updates of the records *)

\* The process moves on.
LEMMA Moved ==
    ASSUME proc \in Processes, NEW place \in Places, Go(place)
    PROVE  /\ proc' \in Processes /\ proc'.pc = place /\ proc'.front = proc.front
           /\ proc'.exec = proc.exec /\ proc'.refused = proc.refused /\ proc'.within = proc.within
  BY DEF Go, Processes

\* The process returns from a tool call.
LEMMA WentBack ==
    ASSUME NEW p \in Processes, NEW q, q = Back(p)
    PROVE  /\ q \in Processes /\ q.pc = p.within /\ q.within = "none"
           /\ q.front = p.front /\ q.exec = p.exec /\ q.refused = p.refused
<1>1. PICK r: r = [p EXCEPT !.pc = p.within]
  OBVIOUS
<1>2. p.within \in Places /\ p.within \in {"none", "slice", "idle"}
  BY DEF Processes, Places
<1>3. /\ r \in Processes /\ r.pc = p.within /\ r.front = p.front /\ r.exec = p.exec
      /\ r.refused = p.refused
  BY <1>1, <1>2 DEF Processes
<1>4. q = [r EXCEPT !.within = "none"]
  BY <1>1 DEF Back, Processes
<1>5. /\ q \in Processes /\ q.pc = r.pc /\ q.within = "none" /\ q.front = r.front
      /\ q.exec = r.exec /\ q.refused = r.refused
  BY <1>3, <1>4 DEF Processes
<1> QED
  BY <1>3, <1>5

\* The process begins a slice of turn t.
LEMMA SliceBegun ==
    ASSUME NEW p \in Processes, NEW t \in UserTurns, NEW q, q = Slice(p, t)
    PROVE  /\ q \in Processes /\ q.pc = "slice" /\ q.within = p.within
           /\ q.front = p.front /\ q.exec = p.exec /\ q.refused = RefusalOnRecord(t)
<1>1. PICK r: r = [p EXCEPT !.pc = "slice"]
  OBVIOUS
<1>2. r \in Processes /\ r.pc = "slice" /\ r.front = p.front /\ r.exec = p.exec /\ r.within = p.within
  BY <1>1 DEF Processes, Places
<1>3. q = [r EXCEPT !.refused = RefusalOnRecord(t)]
  BY <1>1 DEF Slice, Processes
<1>4. RefusalOnRecord(t) \in BOOLEAN
  BY DEF RefusalOnRecord
<1> HIDE DEF RefusalOnRecord
<1>5. /\ q \in Processes /\ q.pc = r.pc /\ q.within = r.within /\ q.front = r.front
      /\ q.exec = r.exec /\ q.refused = RefusalOnRecord(t)
  BY <1>2, <1>3, <1>4 DEF Processes
<1> QED
  BY <1>2, <1>5

\* session.json gets another workspace_state.
LEMMA Marked ==
    ASSUME meta \in Metas, NEW s \in States, Mark(s)
    PROVE  /\ meta' \in Metas /\ meta'.state = s /\ meta'.isolated = meta.isolated
           /\ meta'.base = meta.base /\ meta'.ahead = meta.ahead
  BY DEF Mark, Metas

\* A runner that was built for a session.
LEMMA Built ==
    ASSUME NEW front \in {"cli", "ask", "product"}, NEW m, NEW allowed, NEW place \in Places,
           NEW p, p = Runner(front, m, allowed, place)
    PROVE  /\ p \in Processes /\ p.front = front /\ p.pc = place /\ p.within = "none"
           /\ p.exec => m.isolated /\ allowed
<1>1. PICK e \in BOOLEAN: e = (m.isolated /\ allowed)
  OBVIOUS
<1>2. PICK d \in BOOLEAN: d = (~e /\ m.state = "source_only")
  OBVIOUS
<1>3. p = [front |-> front, exec |-> e, dynamic |-> d, refused |-> FALSE, pc |-> place,
           within |-> "none"]
  BY <1>1, <1>2 DEF Runner
<1>4. p \in Processes /\ p.front = front /\ p.pc = place /\ p.within = "none" /\ p.exec = e
  BY <1>3 DEF Processes
<1> QED
  BY <1>1, <1>4

\* What is closed, not there or new is what its type says.
LEMMA Constant ==
    /\ Closed \in Processes /\ Closed.front = "none" /\ Closed.exec = FALSE
    /\ Closed.pc = "none" /\ Closed.within = "none"
    /\ NoTree \in Worktrees /\ NoTree.there = FALSE
    /\ NoTxn \in Journals /\ NoTxn.state = "none"
    /\ NewTurn \in UserTurns /\ NewTurn.refusals = {}
    /\ SourceMeta \in Metas /\ SourceMeta.state = "source_only" /\ SourceMeta.isolated = FALSE
<1>1. 0 \in Commits
  BY BoundsAssumption DEF Commits
<1> QED
  BY <1>1 DEF Closed, NoTree, NoTxn, NewTurn, SourceMeta, Processes, Worktrees, Journals, UserTurns,
     Metas, Places, States, Transitional

-----------------------------------------------------------------------------
(* Steps that leave the workspace alone *)

\* What the steps below need of the types.
LEMMA Facts ==
    ASSUME Inv
    PROVE  /\ meta \in Metas /\ tree \in Worktrees /\ txn \in Journals
           /\ turn \in UserTurns /\ proc \in Processes
           /\ proc.exec \in BOOLEAN /\ proc.refused \in BOOLEAN
           /\ meta.isolated \in BOOLEAN /\ meta.ahead \in BOOLEAN /\ meta.state \in States
           /\ tree.there \in BOOLEAN /\ tree.locked \in BOOLEAN /\ tree.edited \in BOOLEAN
<1>1. /\ meta \in Metas /\ tree \in Worktrees /\ txn \in Journals
      /\ turn \in UserTurns /\ proc \in Processes
  BY DEF Inv, LifecycleTypeOK
<1> QED
  BY <1>1 DEF Metas, Worktrees, Processes

\* A process that stays between the prompt, the slice and the question whether
\* to make a worktree, or ends.
Talk ==
    /\ UNCHANGED <<meta, tree, source, txn>>
    /\ \/ proc' = Closed
       \/ /\ proc.front = proc'.front /\ proc'.exec = proc.exec
          /\ proc.pc \in {"idle", "slice", "asking"}
          /\ proc'.pc \in {"none", "idle", "slice", "asking"} /\ (proc'.pc = "asking" => ~proc.exec)
       \/ /\ proc'.front = "product" /\ proc'.pc = "slice"
          /\ proc'.exec => meta.isolated /\ meta.state = "changes_active"

\* Such steps keep the invariant.
LEMMA TalkKeepsInv ==
    ASSUME Inv, Talk, proc' \in Processes, turn' \in UserTurns, spent' \in Tallies,
           reasked' \in SUBSET {"reason", "plain"}, TerminalRefusalHolds', SliceKnows'
    PROVE  Inv'
<1>1. LifecycleTypeOK'
  BY DEF Inv, LifecycleTypeOK, Talk
<1>2. NothingBeforeActivation' /\ DirectoryKnown'
  BY Constant DEF Inv, NothingBeforeActivation, DirectoryKnown, Talk
<1>3. PlaceFitsState'
  BY Constant DEF Inv, PlaceFitsState, Talk
<1>4. ExecutorFits'
  BY Constant DEF Inv, ExecutorFits, ExecutorsHaveAWorktree, Unfinished, Talk
<1> QED
  BY <1>1, <1>2, <1>3, <1>4 DEF Inv

\* The user's turn is opened, closed, or waits.
LEMMA TurnUpdates ==
    ASSUME turn \in UserTurns
    PROVE  /\ \A b \in BOOLEAN: /\ [turn EXCEPT !.open = b] \in UserTurns
                                /\ [turn EXCEPT !.open = b].refusals = turn.refusals
                                /\ [turn EXCEPT !.waiting = b] \in UserTurns
                                /\ [turn EXCEPT !.waiting = b].refusals = turn.refusals
           /\ [turn EXCEPT !.open = FALSE, !.waiting = FALSE] \in UserTurns
           /\ [turn EXCEPT !.open = FALSE, !.waiting = FALSE].refusals = turn.refusals
<1>1. \A b \in BOOLEAN: /\ [turn EXCEPT !.open = b] \in UserTurns
                        /\ [turn EXCEPT !.open = b].refusals = turn.refusals
                        /\ [turn EXCEPT !.waiting = b] \in UserTurns
                        /\ [turn EXCEPT !.waiting = b].refusals = turn.refusals
  BY DEF UserTurns
<1>2. PICK t: t = [turn EXCEPT !.open = FALSE]
  OBVIOUS
<1>3. t \in UserTurns /\ t.refusals = turn.refusals
  BY <1>1, <1>2
<1>4. [turn EXCEPT !.open = FALSE, !.waiting = FALSE] = [t EXCEPT !.waiting = FALSE]
  BY <1>2 DEF UserTurns
<1>5. [t EXCEPT !.waiting = FALSE] \in UserTurns /\ [t EXCEPT !.waiting = FALSE].refusals = t.refusals
  BY <1>3 DEF UserTurns
<1> QED
  BY <1>1, <1>3, <1>4, <1>5

\* A turn more is counted.
LEMMA TurnCounted ==
    ASSUME Inv, spent.turns < MaxTurns, spent' = [spent EXCEPT !.turns = @ + 1]
    PROVE  spent' \in Tallies
<1>1. spent \in Tallies
  BY DEF Inv, LifecycleTypeOK
<1>2. spent.turns + 1 \in 0..MaxTurns
  BY <1>1, BoundsAssumption DEF Tallies
<1> QED
  BY <1>1, <1>2 DEF Tallies

\* /stop, or Stop of the product without a job.
LEMMA StopsKeepInv ==
    ASSUME Inv, Stop \/ ProductStopIdle
    PROVE  Inv'
<1>1. /\ turn' = [turn EXCEPT !.open = FALSE, !.waiting = FALSE]
      /\ UNCHANGED <<meta, tree, source, txn, proc, reasked, spent>>
      /\ proc = Closed \/ proc.pc = "idle"
  BY DEF Stop, ProductStopIdle, AtPrompt
<1>2. turn' \in UserTurns /\ turn'.refusals = turn.refusals
  BY <1>1, Facts, TurnUpdates
<1>3. TerminalRefusalHolds' /\ SliceKnows'
  BY <1>1, <1>2 DEF Inv, TerminalRefusalHolds, SliceKnows, RefusalOnRecord
<1>4. Talk
  BY <1>1 DEF Talk
<1>5. proc' \in Processes /\ spent' \in Tallies /\ reasked' \in SUBSET {"reason", "plain"}
  BY <1>1 DEF Inv, LifecycleTypeOK
<1> QED
  BY <1>2, <1>3, <1>4, <1>5, TalkKeepsInv

\* A slice begins where the process is at the prompt or in a slice.
LEMMA SlicesKeepInv ==
    ASSUME Inv, proc.pc \in {"idle", "slice"}, turn' \in UserTurns, spent' \in Tallies,
           UNCHANGED <<meta, tree, source, txn, reasked>>,
           NEW t \in UserTurns, proc' = Slice(proc, t), t.refusals = turn'.refusals
    PROVE  Inv'
<1>1. /\ proc' \in Processes /\ proc'.pc = "slice" /\ proc'.front = proc.front
      /\ proc'.exec = proc.exec /\ proc'.refused = RefusalOnRecord(t)
  BY Facts, SliceBegun
<1>2. TerminalRefusalHolds' /\ reasked' \in SUBSET {"reason", "plain"}
  BY DEF Inv, TerminalRefusalHolds, LifecycleTypeOK
<1>3. SliceKnows'
  BY <1>1 DEF SliceKnows, RefusalOnRecord
<1>4. Talk
  BY <1>1 DEF Talk
<1> QED
  BY <1>1, <1>2, <1>3, <1>4, TalkKeepsInv

\* The user's messages and commands that begin a slice, and the next slice.
LEMMA BeginningsKeepInv ==
    ASSUME Inv, Message \/ Budget \/ Continue \/ SliceExhausted
    PROVE  Inv'
<1>1. spent \in Tallies /\ turn \in UserTurns
  BY Facts DEF Inv, LifecycleTypeOK
<1>2. CASE Message
  <2>1. spent' \in Tallies
    BY <1>2, TurnCounted DEF Message
  <2> QED
    BY <1>2, <2>1, SlicesKeepInv, Constant DEF Message, AtPrompt
<1>3. CASE Budget
  <2>1. turn' \in UserTurns /\ turn'.refusals = turn.refusals
    BY <1>1, <1>3, TurnUpdates DEF Budget
  <2> QED
    BY <1>1, <1>3, <2>1, SlicesKeepInv DEF Budget, AtPrompt
<1>4. CASE Continue \/ SliceExhausted
  BY <1>1, <1>4, SlicesKeepInv DEF Continue, SliceExhausted, AtPrompt
<1> QED
  BY <1>2, <1>3, <1>4

\* /exit and the ends of a run.
LEMMA EndsKeepInv ==
    ASSUME Inv, Exit \/ FinalAnswer \/ BudgetExhausted
    PROVE  Inv'
<1>1. /\ turn' \in UserTurns /\ turn'.refusals = turn.refusals
      /\ UNCHANGED <<meta, tree, source, txn, reasked, spent>>
  BY Facts, TurnUpdates DEF Exit, FinalAnswer, BudgetExhausted
<1>2. /\ proc' \in Processes
      /\ \/ proc' = Closed
         \/ /\ proc' = [proc EXCEPT !.pc = "idle"] /\ proc.pc = "slice"
            /\ proc'.pc = "idle" /\ proc'.front = proc.front /\ proc'.exec = proc.exec
            /\ proc'.within = proc.within /\ proc'.refused = proc.refused
  <2>1. CASE proc' = Closed
    BY <2>1, Constant
  <2>2. CASE proc' = [proc EXCEPT !.pc = "idle"] /\ proc.pc = "slice"
    BY <2>2, Facts, Moved DEF Go, Places
  <2> QED
    BY <2>1, <2>2 DEF Exit, FinalAnswer, BudgetExhausted, EndOfRun
<1>3. TerminalRefusalHolds' /\ reasked' \in SUBSET {"reason", "plain"} /\ spent' \in Tallies
  BY <1>1 DEF Inv, TerminalRefusalHolds, LifecycleTypeOK
<1>4. SliceKnows'
  BY <1>1, <1>2, Constant DEF Inv, SliceKnows, RefusalOnRecord
<1>5. Talk
  BY <1>1, <1>2 DEF Talk
<1> QED
  BY <1>1, <1>2, <1>3, <1>4, <1>5, TalkKeepsInv

\* ExecutionSupervisor.start
LEMMA ProductStartKeepsInv ==
    ASSUME Inv, ProductStart
    PROVE  Inv'
<1> DEFINE allowed == (meta.state = "changes_active")
<1>1. PICK p: p = Runner("product", meta, allowed, "slice")
  OBVIOUS
<1>2. PICK t \in UserTurns: proc' = Slice(p, t) /\ t.refusals = turn'.refusals
  BY <1>1, Facts, TurnUpdates, Constant DEF ProductStart
<1>3. turn' \in UserTurns /\ spent' \in Tallies
  <2>1. turn \in UserTurns /\ spent \in Tallies
    BY Facts DEF Inv, LifecycleTypeOK
  <2> QED
    BY <2>1, TurnUpdates, TurnCounted, Constant DEF ProductStart
<1>4. "slice" \in Places /\ (allowed => meta.state = "changes_active")
  BY DEF Places
<1> HIDE DEF allowed
<1>5. p \in Processes /\ p.front = "product" /\ (p.exec => meta.isolated /\ allowed)
  BY <1>1, <1>4, Facts, Built
<1>6. /\ proc' \in Processes /\ proc'.pc = "slice" /\ proc'.front = "product"
      /\ proc'.exec = p.exec /\ proc'.refused = RefusalOnRecord(t)
  BY <1>2, <1>5, SliceBegun
<1>7. UNCHANGED <<meta, tree, source, txn, reasked>>
  BY DEF ProductStart
<1>8. TerminalRefusalHolds' /\ reasked' \in SUBSET {"reason", "plain"}
  BY <1>7 DEF Inv, TerminalRefusalHolds, LifecycleTypeOK
<1>9. SliceKnows'
  BY <1>2, <1>6 DEF SliceKnows, RefusalOnRecord
<1>10. Talk
  BY <1>4, <1>5, <1>6, <1>7 DEF Talk
<1> QED
  BY <1>3, <1>6, <1>8, <1>9, <1>10, TalkKeepsInv

\* _handle_tool_call of a protected tool.
LEMMA ProtectedKeepsInv ==
    ASSUME Inv, NEW tool \in {"edit", "command"}, Protected(tool)
    PROVE  Inv'
<1>1. /\ proc.pc = "slice" \/ AtPrompt
      /\ UNCHANGED <<meta, tree, source, txn, turn, spent>>
  BY DEF Protected
<1>2. proc.pc \in {"idle", "slice"}
  BY <1>1 DEF AtPrompt
<1>3. PICK here: here = [proc EXCEPT !.within = proc.pc]
  OBVIOUS
<1>4. /\ here \in Processes /\ here.within = proc.pc /\ here.front = proc.front
      /\ here.exec = proc.exec /\ here.refused = proc.refused
  BY <1>2, <1>3, Facts DEF Processes
<1>5. turn' \in UserTurns /\ spent' \in Tallies
  BY <1>1 DEF Inv, LifecycleTypeOK
<1>6. CASE /\ proc.exec /\ meta.state = "changes_active"
           /\ proc' = [here EXCEPT !.pc = tool] /\ UNCHANGED reasked
  <2>1. /\ proc' \in Processes /\ proc'.pc = tool /\ proc'.within = proc.pc
        /\ proc'.front = proc.front /\ proc'.exec = proc.exec /\ proc'.refused = proc.refused
    BY <1>4, <1>6 DEF Processes, Places
  <2>2. LifecycleTypeOK'
    BY <1>1, <1>6, <2>1 DEF Inv, LifecycleTypeOK
  <2>3. NothingBeforeActivation' /\ PlaceFitsState' /\ DirectoryKnown'
    BY <1>1, <1>6, <2>1 DEF Inv, NothingBeforeActivation, PlaceFitsState, DirectoryKnown, Transitional
  <2>4. ExecutorFits'
    BY <1>1, <1>2, <2>1 DEF Inv, ExecutorFits, ExecutorsHaveAWorktree, Unfinished
  <2>5. TerminalRefusalHolds' /\ SliceKnows'
    BY <1>1, <1>6, <2>1 DEF Inv, TerminalRefusalHolds, SliceKnows
  <2> QED
    BY <2>2, <2>3, <2>4, <2>5 DEF Inv
<1>7. CASE /\ ~proc.exec /\ ~proc.refused /\ proc' = [here EXCEPT !.pc = "asking"]
           /\ reasked' = IF proc.pc = "slice" THEN reasked \cup turn.refusals ELSE reasked
  <2>1. /\ proc' \in Processes /\ proc'.pc = "asking" /\ proc'.within = proc.pc
        /\ proc'.front = proc.front /\ proc'.exec = proc.exec /\ proc'.refused = proc.refused
    BY <1>4, <1>7 DEF Processes, Places
  <2>2. proc.pc = "slice" => "reason" \notin turn.refusals
    BY <1>7 DEF Inv, SliceKnows, RefusalOnRecord
  <2>3. turn.refusals \in SUBSET {"reason", "plain"} /\ reasked \in SUBSET {"reason", "plain"}
    BY Facts DEF UserTurns, Inv, LifecycleTypeOK
  <2>4. TerminalRefusalHolds' /\ reasked' \in SUBSET {"reason", "plain"}
    BY <1>7, <2>2, <2>3 DEF Inv, TerminalRefusalHolds
  <2>5. SliceKnows'
    BY <1>1, <2>1 DEF Inv, SliceKnows
  <2>6. Talk
    BY <1>1, <1>2, <1>7, <2>1 DEF Talk
  <2> QED
    BY <1>5, <2>1, <2>4, <2>5, <2>6, TalkKeepsInv
<1> QED
  BY <1>3, <1>6, <1>7 DEF Protected

\* The user says no: the refusal is in the log, and the slice knows it.
LEMMA RefusedKeepsInv ==
    ASSUME Inv, Refused
    PROVE  Inv'
<1>1. PICK p: p = [proc EXCEPT !.refused = TRUE]
  OBVIOUS
<1>2. /\ p \in Processes /\ p.refused = TRUE /\ p.front = proc.front /\ p.exec = proc.exec
      /\ p.within = proc.within
  BY <1>1, Facts DEF Processes
<1>3. proc' = Back(p) /\ proc.pc = "asking" /\ UNCHANGED <<meta, tree, source, txn, reasked, spent>>
  BY <1>1 DEF Refused, Refuse
<1>4. /\ proc' \in Processes /\ proc'.pc = p.within /\ proc'.within = "none"
      /\ proc'.front = proc.front /\ proc'.exec = proc.exec /\ proc'.refused = TRUE
  BY <1>2, <1>3, WentBack
<1>5. turn' \in UserTurns
  <2>1. PICK how \in {"reason", "plain"}: turn' = [turn EXCEPT !.refusals = @ \cup {how}]
    BY DEF Refused
  <2> QED
    BY <2>1, Facts DEF UserTurns
<1>6. TerminalRefusalHolds' /\ reasked' \in SUBSET {"reason", "plain"} /\ spent' \in Tallies
  BY <1>3 DEF Inv, TerminalRefusalHolds, LifecycleTypeOK
<1>7. SliceKnows'
  BY <1>4 DEF SliceKnows
<1>8. proc.within \in {"slice", "idle", "none"}
  BY Facts DEF Processes
<1>9. Talk
  BY <1>2, <1>3, <1>4, <1>8 DEF Talk
<1> QED
  BY <1>4, <1>5, <1>6, <1>7, <1>9, TalkKeepsInv

-----------------------------------------------------------------------------
(* The upgrade to a worktree *)

\* begin_workspace_upgrade
LEMMA ApprovedKeepsInv ==
    ASSUME Inv, Approved
    PROVE  Inv'
<1>1. /\ proc.pc = "asking" /\ meta.state = "source_only"
      /\ Mark("preparing_workspace") /\ Go("preparing")
      /\ UNCHANGED <<tree, source, txn, turn, reasked, spent>>
  BY DEF Approved
<1>2. /\ meta' \in Metas /\ meta'.state = "preparing_workspace" /\ meta'.isolated = meta.isolated
  BY <1>1, Facts, Marked DEF States, Transitional
<1>3. /\ proc' \in Processes /\ proc'.pc = "preparing" /\ proc'.front = proc.front
      /\ proc'.exec = proc.exec /\ proc'.refused = proc.refused /\ proc'.within = proc.within
  BY <1>1, Facts, Moved DEF Places
<1>4. LifecycleTypeOK'
  BY <1>1, <1>2, <1>3 DEF Inv, LifecycleTypeOK
<1>5. NothingBeforeActivation' /\ PlaceFitsState' /\ DirectoryKnown'
  BY <1>1, <1>2, <1>3 DEF Inv, NothingBeforeActivation, PlaceFitsState, DirectoryKnown
<1>6. ExecutorFits'
  BY <1>1, <1>2, <1>3 DEF Inv, ExecutorFits, ExecutorsHaveAWorktree, Unfinished
<1>7. TerminalRefusalHolds' /\ SliceKnows'
  BY <1>1, <1>3 DEF Inv, TerminalRefusalHolds, SliceKnows
<1> QED
  BY <1>4, <1>5, <1>6, <1>7 DEF Inv

\* cancel_workspace_upgrade
LEMMA CancelledMeta ==
    ASSUME NEW m \in Metas, NEW n, n = Cancelled(m)
    PROVE  n \in Metas /\ n.state = "source_only" /\ n.isolated = FALSE
  BY Constant DEF Cancelled, Metas

\* The upgrade is given up: the call returns, the session is as before.
LEMMA CancellingKeepsInv ==
    ASSUME Inv, proc.pc \in {"preparing", "created"}, proc' = Back(proc), meta' = Cancelled(meta),
           tree' \in Worktrees, tree'.there => tree'.locked,
           UNCHANGED <<source, txn, turn, reasked, spent>>
    PROVE  Inv'
<1>1. /\ proc' \in Processes /\ proc'.pc = proc.within /\ proc'.within = "none"
      /\ proc'.front = proc.front /\ proc'.exec = proc.exec /\ proc'.refused = proc.refused
  BY Facts, WentBack
<1>2. meta' \in Metas /\ meta'.state = "source_only" /\ meta'.isolated = FALSE
  BY Facts, CancelledMeta
<1>3. proc'.pc \in {"none", "slice", "idle"}
  BY <1>1, Facts DEF Processes
<1>4. ~proc.exec /\ txn.state = "none"
  BY DEF Inv, ExecutorFits, NothingBeforeActivation, PlaceFitsState
<1>5. LifecycleTypeOK'
  BY <1>1, <1>2 DEF Inv, LifecycleTypeOK
<1>6. NothingBeforeActivation' /\ PlaceFitsState' /\ DirectoryKnown'
  BY <1>2, <1>3, <1>4 DEF NothingBeforeActivation, PlaceFitsState, DirectoryKnown, Transitional
<1>7. ExecutorFits'
  BY <1>1, <1>4 DEF ExecutorFits, ExecutorsHaveAWorktree
<1>8. TerminalRefusalHolds' /\ SliceKnows'
  BY <1>1 DEF Inv, TerminalRefusalHolds, SliceKnows
<1> QED
  BY <1>5, <1>6, <1>7, <1>8 DEF Inv

\* What `git worktree add` leaves is a directory, or what was there.
LEMMA AddedTrees ==
    ASSUME Inv, NEW t \in Added(tree, source.head)
    PROVE  t \in Worktrees /\ (t # tree => t.there /\ t.head = source.head)
<1>1. source.head \in Commits
  BY DEF Inv, LifecycleTypeOK, Commits
<1>2. CASE t = tree
  BY <1>2, Facts
<1>3. CASE t = [NoTree EXCEPT !.there = TRUE, !.reg = TRUE, !.head = source.head]
  <2>1. t = [there |-> TRUE, reg |-> TRUE, locked |-> FALSE, head |-> source.head,
             missing |-> FALSE, edited |-> FALSE]
    BY <1>3 DEF NoTree
  <2> QED
    BY <1>1, <2>1 DEF Worktrees
<1>4. CASE t = [NoTree EXCEPT !.there = TRUE, !.reg = TRUE, !.head = source.head,
                              !.locked = TRUE, !.missing = TRUE]
  <2>1. t = [there |-> TRUE, reg |-> TRUE, locked |-> TRUE, head |-> source.head,
             missing |-> TRUE, edited |-> FALSE]
    BY <1>4 DEF NoTree
  <2> QED
    BY <1>1, <2>1 DEF Worktrees
<1> QED
  BY <1>2, <1>3, <1>4 DEF Added

\* GitWorktreeManager.create
LEMMA CreateWorktreeKeepsInv ==
    ASSUME Inv, CreateWorktree
    PROVE  Inv'
<1>1. proc.pc = "preparing" /\ UNCHANGED <<source, txn, turn, reasked, spent>>
  BY DEF CreateWorktree
<1>2. PICK t \in (IF source.dirty \/ tree.there \/ tree.reg THEN {tree} ELSE Added(tree, source.head)) :
        /\ tree' = t
        /\ IF ~source.dirty /\ t.there /\ t.head = source.head /\ (t = tree \/ ~t.locked)
           THEN Go("created") /\ UNCHANGED meta
           ELSE proc' = Back(proc) /\ meta' = Cancelled(meta)
  BY DEF CreateWorktree
<1>3. t \in Worktrees /\ (t # tree => ~source.dirty /\ t.there /\ t.head = source.head)
  BY <1>2, Facts, AddedTrees
<1>4. tree.there => tree.locked
  BY <1>1 DEF Inv, DirectoryKnown
<1>5. CASE proc' = Back(proc) /\ meta' = Cancelled(meta) /\ (t # tree => t.locked)
  BY <1>1, <1>2, <1>3, <1>4, <1>5, CancellingKeepsInv
<1>6. CASE Go("created") /\ UNCHANGED meta
  <2>1. /\ proc' \in Processes /\ proc'.pc = "created" /\ proc'.front = proc.front
        /\ proc'.exec = proc.exec /\ proc'.refused = proc.refused /\ proc'.within = proc.within
    BY <1>6, Facts, Moved DEF Places
  <2>2. meta.state = "preparing_workspace"
    BY <1>1 DEF Inv, PlaceFitsState
  <2>3. LifecycleTypeOK'
    BY <1>1, <1>2, <1>3, <1>6, <2>1 DEF Inv, LifecycleTypeOK
  <2>4. NothingBeforeActivation' /\ PlaceFitsState' /\ DirectoryKnown'
    BY <1>1, <1>6, <2>1, <2>2 DEF Inv, NothingBeforeActivation, PlaceFitsState, DirectoryKnown
  <2>5. ExecutorFits'
    BY <1>1, <1>6, <2>1 DEF Inv, ExecutorFits, ExecutorsHaveAWorktree
  <2>6. TerminalRefusalHolds' /\ SliceKnows'
    BY <1>1, <2>1 DEF Inv, TerminalRefusalHolds, SliceKnows
  <2> QED
    BY <2>3, <2>4, <2>5, <2>6 DEF Inv
<1> QED
  BY <1>2, <1>3, <1>5, <1>6

\* _build_active_bundle and activate_workspace
LEMMA ActivateKeepsInv ==
    ASSUME Inv, NEW tool \in {"edit", "command"}, Activate(tool)
    PROVE  Inv'
<1>1. proc.pc = "created" /\ UNCHANGED <<tree, source, txn, turn, reasked, spent>>
  BY DEF Activate
<1>2. meta' \in Metas /\ meta'.state = "changes_active" /\ meta'.isolated = TRUE
  <2>1. meta' = [meta EXCEPT !.state = "changes_active", !.isolated = TRUE, !.base = tree.head]
    BY DEF Activate
  <2>2. meta' = [state |-> "changes_active", isolated |-> TRUE, base |-> tree.head, ahead |-> meta.ahead]
    BY <2>1, Facts DEF Metas
  <2>3. tree.head \in Commits /\ meta.ahead \in BOOLEAN
    BY Facts DEF Worktrees
  <2> QED
    BY <2>2, <2>3 DEF Metas, States
<1>3. /\ proc' \in Processes /\ proc'.pc = tool /\ proc'.front = proc.front
      /\ proc'.exec = TRUE /\ proc'.refused = proc.refused /\ proc'.within = proc.within
  <2>1. proc' = [proc EXCEPT !.exec = TRUE, !.dynamic = FALSE, !.pc = tool]
    BY DEF Activate
  <2>2. proc' = [front |-> proc.front, exec |-> TRUE, dynamic |-> FALSE, refused |-> proc.refused,
                 pc |-> tool, within |-> proc.within]
    BY <2>1, Facts DEF Processes
  <2>3. /\ proc.front \in {"none", "cli", "ask", "product", "settle"} /\ proc.refused \in BOOLEAN
        /\ proc.within \in {"none", "slice", "idle"} /\ tool \in Places
    BY Facts DEF Processes, Places
  <2> QED
    BY <2>2, <2>3 DEF Processes
<1>4. txn.state = "none"
  BY <1>1 DEF Inv, PlaceFitsState, NothingBeforeActivation
<1>5. LifecycleTypeOK'
  BY <1>1, <1>2, <1>3 DEF Inv, LifecycleTypeOK
<1>6. NothingBeforeActivation' /\ PlaceFitsState' /\ DirectoryKnown'
  BY <1>2, <1>3 DEF NothingBeforeActivation, PlaceFitsState, DirectoryKnown, Transitional
<1>7. ExecutorFits'
  BY <1>1, <1>2, <1>3, <1>4 DEF ExecutorFits, ExecutorsHaveAWorktree, Unfinished
<1>8. TerminalRefusalHolds' /\ SliceKnows'
  BY <1>1, <1>3 DEF Inv, TerminalRefusalHolds, SliceKnows
<1> QED
  BY <1>5, <1>6, <1>7, <1>8 DEF Inv

\* A call returns while the session is, or becomes, neither a transition nor one
\* without a worktree.
LEMMA ReturnKeepsInv ==
    ASSUME Inv, proc.pc \in {"created", "edit", "editing", "counted", "command"}, proc' = Back(proc),
           meta' \in Metas, meta'.isolated = meta.isolated,
           meta'.state \in {"changes_active", "workspace_tainted", "recovery_required"},
           tree' \in Worktrees, txn' \in Journals,
           proc.front = "cli" /\ proc.exec => ~Unfinished',
           UNCHANGED <<source, turn, reasked, spent>>
    PROVE  Inv'
<1>1. /\ proc' \in Processes /\ proc'.pc = proc.within /\ proc'.within = "none"
      /\ proc'.front = proc.front /\ proc'.exec = proc.exec /\ proc'.refused = proc.refused
  BY Facts, WentBack
<1>2. proc'.pc \in {"none", "slice", "idle"}
  BY <1>1, Facts DEF Processes
<1>3. LifecycleTypeOK'
  BY <1>1 DEF Inv, LifecycleTypeOK
<1>4. NothingBeforeActivation' /\ PlaceFitsState' /\ DirectoryKnown'
  BY <1>2 DEF NothingBeforeActivation, PlaceFitsState, DirectoryKnown, Transitional
<1>5. ExecutorFits'
  BY <1>1, <1>2 DEF Inv, ExecutorFits, ExecutorsHaveAWorktree
<1>6. TerminalRefusalHolds' /\ SliceKnows'
  BY <1>1 DEF Inv, TerminalRefusalHolds, SliceKnows
<1> QED
  BY <1>3, <1>4, <1>5, <1>6 DEF Inv

\* The upgrade fails after the worktree was made.
LEMMA RollBackKeepsInv ==
    ASSUME Inv, RollBack
    PROVE  Inv'
<1>1. proc.pc = "created" /\ proc' = Back(proc) /\ UNCHANGED <<source, txn, turn, reasked, spent>>
  BY DEF RollBack
<1>2. CASE tree' = Removed(tree) /\ meta' = Cancelled(meta)
  BY <1>1, <1>2, Constant, CancellingKeepsInv DEF Removed
<1>3. CASE tree' = tree /\ Mark("recovery_required")
  <2>1. meta' \in Metas /\ meta'.state = "recovery_required" /\ meta'.isolated = meta.isolated
    BY <1>3, Facts, Marked DEF States
  <2>2. ~Unfinished'
    BY <1>1 DEF Inv, PlaceFitsState, NothingBeforeActivation, Unfinished
  <2> QED
    BY <1>1, <1>3, <2>1, <2>2, Facts, ReturnKeepsInv
<1> QED
  BY <1>2, <1>3 DEF RollBack

-----------------------------------------------------------------------------
(* Work in the worktree *)

\* ensure_recovered settles the journal and changes nothing of the directory
\* but its content.
LEMMA RecoveredTypes ==
    ASSUME Inv, NEW fails \in BOOLEAN, NEW r, r = Recovered(fails)
    PROVE  /\ r.txn \in Journals /\ r.tree \in Worktrees
           /\ r.txn.state \in {"none", "broken"} /\ (fails => r.txn.state = "broken")
           /\ r.tree.there = tree.there /\ r.tree.locked = tree.locked
<1>1. [txn EXCEPT !.state = "broken"] \in Journals /\ [txn EXCEPT !.state = "broken"].state = "broken"
  BY Facts DEF Journals
<1>2. PICK e \in BOOLEAN: e = (tree.there /\ txn.before)
  OBVIOUS
<1>3. /\ [tree EXCEPT !.edited = e] \in Worktrees
      /\ [tree EXCEPT !.edited = e].there = tree.there /\ [tree EXCEPT !.edited = e].locked = tree.locked
  BY Facts DEF Worktrees
<1>4. txn.state \in {"none", "prepared", "committing", "committed", "broken"}
  BY Facts DEF Journals
<1>5. CASE fails \/ txn.state = "broken"
  <2>1. r = [txn |-> [txn EXCEPT !.state = "broken"], tree |-> tree]
    BY <1>5 DEF Recovered
  <2>2. r.txn = [txn EXCEPT !.state = "broken"] /\ r.tree = tree
    BY <2>1
  <2>3. r.txn \in Journals /\ r.txn.state = "broken"
    BY <1>1, <2>2
  <2> QED
    BY <2>2, <2>3, Facts
<1>6. CASE ~fails /\ Unfinished
  <2>1. r = [txn |-> NoTxn, tree |-> [tree EXCEPT !.edited = e]]
    BY <1>2, <1>6 DEF Recovered, Unfinished
  <2>2. r.txn = NoTxn /\ r.tree = [tree EXCEPT !.edited = e]
    BY <2>1
  <2>3. /\ r.tree \in Worktrees /\ r.tree.there = tree.there /\ r.tree.locked = tree.locked
    BY <1>3, <2>2
  <2> QED
    BY <1>6, <2>2, <2>3, Constant
<1>7. CASE ~(fails \/ txn.state = "broken") /\ ~Unfinished
  <2>1. r = [txn |-> IF txn.state = "committed" THEN NoTxn ELSE txn, tree |-> tree]
    BY <1>7 DEF Recovered
  <2> QED
    BY <1>4, <1>7, <2>1, Facts, Constant DEF Unfinished
<1> QED
  BY <1>5, <1>6, <1>7

\* A step within an edit or a command.
LEMMA WorkKeepsInv ==
    ASSUME Inv, proc.pc \in {"edit", "editing", "counted", "command"},
           proc' \in Processes, meta' \in Metas, tree' \in Worktrees, txn' \in Journals,
           proc'.front = proc.front, proc'.exec = proc.exec, proc'.refused = proc.refused,
           proc'.within = proc.within,
           proc'.pc \in {"editing", "counted"} \/ (proc'.pc = "command" /\ txn' = txn /\ proc' = proc),
           meta'.state = meta.state, meta'.isolated = meta.isolated,
           UNCHANGED <<source, turn, reasked, spent>>
    PROVE  Inv'
<1>1. meta.state = "changes_active"
  BY DEF Inv, PlaceFitsState
<1>2. LifecycleTypeOK'
  BY DEF Inv, LifecycleTypeOK
<1>3. NothingBeforeActivation' /\ PlaceFitsState' /\ DirectoryKnown'
  BY <1>1 DEF NothingBeforeActivation, PlaceFitsState, DirectoryKnown, Transitional
<1>4. ExecutorFits'
  BY DEF Inv, ExecutorFits, ExecutorsHaveAWorktree, Unfinished
<1>5. TerminalRefusalHolds' /\ SliceKnows'
  BY DEF Inv, TerminalRefusalHolds, SliceKnows
<1> QED
  BY <1>2, <1>3, <1>4, <1>5 DEF Inv

\* The journal of an edit, its files, its revision.
LEMMA EditStepsKeepInv ==
    ASSUME Inv, EditPrepared \/ EditWrites \/ EditCounted \/ EditCommitted \/ CommandWrites
    PROVE  Inv'
<1>1. /\ proc.pc \in {"editing", "counted", "command"} /\ UNCHANGED <<source, turn, reasked, spent>>
      /\ proc.pc = "command" => txn' = txn /\ proc' = proc
  BY DEF EditPrepared, EditWrites, EditCounted, EditCommitted, CommandWrites
<1>2. txn' \in Journals
  <2>1. CASE EditPrepared
    <3>1. txn' = [state |-> "prepared", before |-> tree.edited]
      BY <2>1 DEF EditPrepared
    <3>2. tree.edited \in BOOLEAN
      BY Facts
    <3> QED
      BY <3>1, <3>2 DEF Journals
  <2>2. CASE \E s \in {"committing", "committed"}: txn' = [txn EXCEPT !.state = s]
    BY <2>2, Facts DEF Journals
  <2>3. CASE txn' = txn
    BY <2>3, Facts
  <2> QED
    BY <2>1, <2>2, <2>3 DEF EditWrites, EditCounted, EditCommitted, CommandWrites
<1>3. tree' \in Worktrees
  <2>1. CASE tree' = [tree EXCEPT !.edited = TRUE]
    BY <2>1, Facts DEF Worktrees
  <2>2. CASE tree' = tree
    BY <2>2, Facts
  <2> QED
    BY <2>1, <2>2 DEF EditPrepared, EditWrites, EditCounted, EditCommitted, CommandWrites
<1>4. meta' \in Metas /\ meta'.state = meta.state /\ meta'.isolated = meta.isolated
  <2>1. CASE meta' = [meta EXCEPT !.ahead = TRUE]
    BY <2>1, Facts DEF Metas
  <2>2. CASE meta' = meta
    BY <2>2, Facts
  <2> QED
    BY <2>1, <2>2 DEF EditPrepared, EditWrites, EditCounted, EditCommitted, CommandWrites
<1>5. /\ proc' \in Processes /\ proc'.front = proc.front /\ proc'.exec = proc.exec
      /\ proc'.refused = proc.refused /\ proc'.within = proc.within
      /\ proc'.pc = "counted" \/ proc'.pc = proc.pc
  <2>1. CASE Go("counted")
    BY <2>1, Facts, Moved DEF Places
  <2>2. CASE proc' = proc
    BY <2>2, Facts
  <2> QED
    BY <2>1, <2>2 DEF EditPrepared, EditWrites, EditCounted, EditCommitted, CommandWrites
<1> QED
  BY <1>1, <1>2, <1>3, <1>4, <1>5, WorkKeepsInv

\* apply_workspace_edit begins with ensure_recovered.
LEMMA EditStartsKeepsInv ==
    ASSUME Inv, EditStarts
    PROVE  Inv'
<1>1. proc.pc = "edit" /\ UNCHANGED <<source, turn, reasked, spent>>
  BY DEF EditStarts
<1>2. PICK fails \in BOOLEAN:
        /\ txn' = Recovered(fails).txn /\ tree' = Recovered(fails).tree
        /\ IF fails THEN Mark("recovery_required") ELSE UNCHANGED meta
        /\ proc' = IF Recovered(fails).txn.state = "broken" THEN Back(proc)
                   ELSE [proc EXCEPT !.pc = "editing"]
  BY DEF EditStarts
<1>3. /\ txn' \in Journals /\ tree' \in Worktrees /\ txn'.state \in {"none", "broken"}
      /\ fails => txn'.state = "broken"
  BY <1>2, RecoveredTypes
<1>4. /\ meta' \in Metas /\ meta'.isolated = meta.isolated
      /\ meta'.state = IF fails THEN "recovery_required" ELSE meta.state
  <2>1. CASE Mark("recovery_required") /\ fails
    BY <2>1, Facts, Marked DEF States
  <2>2. CASE ~fails /\ meta' = meta
    BY <2>2, Facts
  <2> QED
    BY <1>2, <2>1, <2>2
<1>5. meta.state = "changes_active"
  BY <1>1 DEF Inv, PlaceFitsState
<1>6. CASE txn'.state = "broken"
  <2>1. proc' = Back(proc) /\ ~Unfinished'
    BY <1>2, <1>6 DEF Unfinished
  <2> QED
    BY <1>1, <1>3, <1>4, <1>5, <2>1, ReturnKeepsInv
<1>7. CASE txn'.state # "broken"
  <2>1. proc' = [proc EXCEPT !.pc = "editing"] /\ ~fails
    BY <1>2, <1>3, <1>7
  <2>2. /\ proc' \in Processes /\ proc'.pc = "editing" /\ proc'.front = proc.front
        /\ proc'.exec = proc.exec /\ proc'.refused = proc.refused /\ proc'.within = proc.within
    BY <2>1, Facts, Moved DEF Go, Places
  <2> QED
    BY <1>1, <1>3, <1>4, <2>1, <2>2, WorkKeepsInv
<1> QED
  BY <1>6, <1>7

\* The edit or the command ends.
LEMMA WorkEndsKeepInv ==
    ASSUME Inv, EditEnds \/ EditFails \/ CommandEnds
    PROVE  Inv'
<1>1. /\ proc.pc \in {"editing", "counted", "command"} /\ proc' = Back(proc)
      /\ UNCHANGED <<source, turn, reasked, spent>>
  BY DEF EditEnds, EditFails, CommandEnds
<1>2. meta.state = "changes_active"
  BY <1>1 DEF Inv, PlaceFitsState
<1>3. /\ meta' \in Metas /\ meta'.isolated = meta.isolated
      /\ meta'.state \in {"changes_active", "workspace_tainted", "recovery_required"}
  <2>1. CASE \E s \in {"workspace_tainted", "recovery_required"}: Mark(s)
    BY <2>1, Facts, Marked DEF States
  <2>2. CASE \E b \in BOOLEAN: meta' = [meta EXCEPT !.ahead = b]
    BY <1>2, <2>2, Facts DEF Metas
  <2>3. CASE meta' = meta
    BY <1>2, <2>3, Facts
  <2>4. CASE CommandEnds /\ meta' = [meta EXCEPT !.ahead = @ \/ tree.edited]
    BY <2>2, <2>4, Zenon
  <2> QED
    BY <2>1, <2>3, <2>4 DEF EditEnds, EditFails, CommandEnds
<1>4. txn' \in Journals /\ tree' \in Worktrees
  <2>1. Recovered(FALSE).tree \in Worktrees
    BY RecoveredTypes
  <2>2. [txn EXCEPT !.state = "broken"] \in Journals
    BY Facts DEF Journals
  <2> QED
    BY <2>1, <2>2, Facts, Constant DEF EditEnds, EditFails, CommandEnds
<1>5. proc.front = "cli" /\ proc.exec => ~Unfinished'
  <2>1. CASE txn' = NoTxn
    BY <2>1, Constant DEF Unfinished
  <2>2. CASE txn' = [txn EXCEPT !.state = "broken"]
    <3>1. txn'.state = "broken"
      BY <2>2, Facts DEF Journals
    <3> QED
      BY <3>1 DEF Unfinished
  <2>3. CASE proc.pc = "command" /\ txn' = txn
    BY <2>3 DEF Inv, ExecutorFits, Unfinished
  <2> QED
    BY <2>1, <2>2, <2>3 DEF EditEnds, EditFails, CommandEnds
<1> QED
  BY <1>1, <1>3, <1>4, <1>5, ReturnKeepsInv

-----------------------------------------------------------------------------
(* Opening and settling *)

\* A session is open with nothing under way: in the terminal, or not at all.
LEMMA OpenedKeepsInv ==
    ASSUME Inv, meta' \in Metas, tree' \in Worktrees, txn' \in Journals, proc' \in Processes,
           meta'.state \in {"source_only", "changes_active", "workspace_tainted", "recovery_required"},
           meta'.state = "source_only"
               => /\ meta.state = "source_only" /\ meta'.isolated = meta.isolated
                  /\ UNCHANGED <<tree, txn>>,
           proc'.pc \in {"none", "idle"}, proc'.within = "none",
           proc'.exec => /\ meta'.isolated /\ meta'.state = "changes_active"
                         /\ txn'.state \in {"none", "broken"},
           UNCHANGED <<source, turn, reasked, spent>>
    PROVE  Inv'
<1>1. LifecycleTypeOK'
  BY DEF Inv, LifecycleTypeOK
<1>2. NothingBeforeActivation' /\ DirectoryKnown'
  BY DEF Inv, NothingBeforeActivation, DirectoryKnown
<1>3. PlaceFitsState'
  BY DEF PlaceFitsState, Transitional
<1>4. ExecutorFits'
  BY DEF ExecutorFits, ExecutorsHaveAWorktree, Unfinished
<1>5. TerminalRefusalHolds' /\ SliceKnows'
  BY DEF Inv, TerminalRefusalHolds, SliceKnows
<1> QED
  BY <1>1, <1>2, <1>3, <1>4, <1>5 DEF Inv

\* What resume makes of session.json before it looks at the worktree.
LEMMA InterruptedMeta ==
    ASSUME Inv, NEW m, m = Interrupted(meta)
    PROVE  /\ m \in Metas /\ m.isolated = meta.isolated /\ m.base = meta.base /\ m.ahead = meta.ahead
           /\ m.state \in {"source_only", "changes_active", "workspace_tainted", "recovery_required"}
           /\ m.state = "source_only" => meta.state = "source_only"
<1>1. CASE meta.state \in Transitional
  <2>1. m = [meta EXCEPT !.state = "recovery_required"]
    BY <1>1 DEF Interrupted
  <2> QED
    BY <2>1, Facts DEF Metas, States
<1>2. CASE meta.state \notin Transitional
  <2>1. m = meta
    BY <1>2 DEF Interrupted
  <2> QED
    BY <1>2, <2>1, Facts DEF States
<1> QED
  BY <1>1, <1>2

\* What resume makes of it after the inspection.
LEMMA VerdictMeta ==
    ASSUME NEW m \in Metas, NEW broken, NEW good, NEW n, n = Verdict(m, broken, good)
    PROVE  /\ n \in Metas /\ n.isolated = m.isolated /\ n.base = m.base /\ n.ahead = m.ahead
           /\ n.state \in {"changes_active", "workspace_tainted", "recovery_required"}
           /\ n.state = "changes_active" => ~broken /\ good
           /\ m.state = "recovery_required" => n.state = "recovery_required"
<1> DEFINE s == IF broken \/ m.state = "recovery_required" THEN "recovery_required"
                ELSE IF m.state = "workspace_tainted" THEN m.state
                ELSE IF good THEN "changes_active" ELSE "recovery_required"
<1>1. /\ s \in {"changes_active", "workspace_tainted", "recovery_required"}
      /\ s = "changes_active" => ~broken /\ good
      /\ m.state = "recovery_required" => s = "recovery_required"
  OBVIOUS
<1>2. n = [m EXCEPT !.state = s]
  BY DEF Verdict
<1> HIDE DEF s
<1>3. s \in States
  BY <1>1 DEF States
<1>4. n \in Metas /\ n.state = s /\ n.isolated = m.isolated /\ n.base = m.base /\ n.ahead = m.ahead
  BY <1>2, <1>3 DEF Metas
<1> QED
  BY <1>1, <1>4

\* What `resume` does to a session: work goes on only over counted changes.
ResumesOnCountedChanges ==
    proc'.exec => (Dirty(tree') => meta'.ahead /\ tree'.head = meta'.base)

\* resume
LEMMA ResumeKeepsInv ==
    ASSUME Inv, Resume
    PROVE  /\ Inv' /\ ResumesOnCountedChanges
           /\ meta.state = "recovery_required" => meta'.state = "recovery_required"
<1>1. PICK m0: m0 = Interrupted(meta)
  OBVIOUS
<1>2. /\ m0 \in Metas /\ m0.isolated = meta.isolated
      /\ m0.state \in {"source_only", "changes_active", "workspace_tainted", "recovery_required"}
      /\ m0.state = "source_only" => meta.state = "source_only"
  BY <1>1, InterruptedMeta
<1>3. meta.state = "recovery_required" => m0.state = "recovery_required"
  BY <1>1 DEF Interrupted, Transitional
<1>4. PICK fails \in BOOLEAN:
        LET settled == m0.state \notin {"changes_active", "workspace_tainted", "recovery_required"}
            r == Recovered(fails)
            broken == r.txn.state = "broken"
            good == Executable(Inspect(m0, r.tree, broken))
            m1 == IF settled THEN m0 ELSE Verdict(m0, broken, good)
        IN  IF ~settled /\ ~broken /\ m0.isolated /\ m0.ahead /\ ~r.tree.there
            THEN /\ meta' = m0 /\ txn' = r.txn /\ tree' = r.tree /\ proc' = Closed
            ELSE /\ meta' = m1
                 /\ txn' = IF settled THEN txn ELSE r.txn
                 /\ tree' = IF settled THEN tree ELSE r.tree
                 /\ proc' = Runner("cli", m1, settled \/ (good /\ m1.state = "changes_active"), "idle")
  BY <1>1 DEF Resume
<1>5. PICK r: r = Recovered(fails)
  OBVIOUS
<1>6. r.txn \in Journals /\ r.tree \in Worktrees /\ r.txn.state \in {"none", "broken"}
  BY <1>5, RecoveredTypes
<1>7. UNCHANGED <<source, turn, reasked, spent>>
  BY DEF Resume
<1> DEFINE broken == r.txn.state = "broken"
           good == Executable(Inspect(m0, r.tree, broken))
           allowed == good /\ meta'.state = "changes_active"
           always == TRUE
<1>8. \/ /\ m0.state = "source_only" /\ meta' = m0 /\ txn' = txn /\ tree' = tree
         /\ proc' = Runner("cli", m0, always, "idle")
      \/ /\ m0.state # "source_only" /\ meta' = m0 /\ txn' = r.txn /\ tree' = r.tree
         /\ proc' = Closed
      \/ /\ m0.state # "source_only" /\ txn' = r.txn /\ tree' = r.tree
         /\ meta' = Verdict(m0, broken, good) /\ proc' = Runner("cli", meta', allowed, "idle")
  BY <1>2, <1>4, <1>5
<1>9. /\ good /\ ~broken => (Dirty(r.tree) => m0.ahead /\ r.tree.head = m0.base)
      /\ allowed => good /\ meta'.state = "changes_active"
      /\ ~broken => r.txn.state = "none"
  BY <1>6 DEF Executable, Inspect, Resumable
<1> HIDE DEF broken, good, allowed, always
<1>10. "idle" \in Places
  BY DEF Places
<1>11. CASE /\ m0.state = "source_only" /\ meta' = m0 /\ txn' = txn /\ tree' = tree
            /\ proc' = Runner("cli", m0, always, "idle")
  <2>1. ~m0.isolated
    BY <1>2, <1>11 DEF Inv, NothingBeforeActivation
  <2>2. /\ proc' \in Processes /\ proc'.pc = "idle" /\ proc'.within = "none"
        /\ proc'.exec => m0.isolated
    BY <1>10, <1>11, Built
  <2>3. Inv'
    BY <1>2, <1>7, <1>11, <2>1, <2>2, Facts, OpenedKeepsInv
  <2> QED
    BY <1>3, <1>11, <2>1, <2>2, <2>3 DEF ResumesOnCountedChanges
<1>12. CASE /\ m0.state # "source_only" /\ meta' = m0 /\ txn' = r.txn /\ tree' = r.tree
            /\ proc' = Closed
  <2>1. Inv'
    BY <1>2, <1>6, <1>7, <1>12, Constant, OpenedKeepsInv
  <2> QED
    BY <1>3, <1>12, <2>1, Constant DEF ResumesOnCountedChanges
<1>13. CASE /\ m0.state # "source_only" /\ txn' = r.txn /\ tree' = r.tree
            /\ meta' = Verdict(m0, broken, good) /\ proc' = Runner("cli", meta', allowed, "idle")
  <2>1. /\ meta' \in Metas /\ meta'.isolated = m0.isolated
        /\ meta'.base = m0.base /\ meta'.ahead = m0.ahead
        /\ meta'.state \in {"changes_active", "workspace_tainted", "recovery_required"}
        /\ meta'.state = "changes_active" => ~broken /\ good
        /\ m0.state = "recovery_required" => meta'.state = "recovery_required"
    BY <1>2, <1>13, VerdictMeta
  <2>2. /\ proc' \in Processes /\ proc'.pc = "idle" /\ proc'.within = "none"
        /\ proc'.exec => meta'.isolated /\ allowed
    BY <1>10, <1>13, Built
  <2>3. Inv'
    BY <1>2, <1>6, <1>7, <1>9, <1>13, <2>1, <2>2, OpenedKeepsInv
  <2>4. ResumesOnCountedChanges
    BY <1>9, <1>13, <2>1, <2>2 DEF ResumesOnCountedChanges
  <2> QED
    BY <1>3, <2>1, <2>3, <2>4
<1> QED
  BY <1>8, <1>11, <1>12, <1>13

\* begin_resolution
LEMMA BeginSettleKeepsInv ==
    ASSUME Inv, BeginSettle
    PROVE  Inv'
<1>1. PICK what \in {"accepting", "discarding"}:
        /\ meta.state \in {"changes_active", "workspace_tainted"} /\ Mark(what)
        /\ proc' = [Closed EXCEPT !.front = "settle", !.pc = what]
        /\ UNCHANGED <<tree, source, txn, turn, reasked, spent>>
  BY DEF BeginSettle
<1>2. /\ meta' \in Metas /\ meta'.state = what /\ meta'.isolated = meta.isolated
  BY <1>1, Facts, Marked DEF States, Transitional
<1>3. /\ proc' \in Processes /\ proc'.pc = what /\ proc'.front = "settle" /\ ~proc'.exec
      /\ proc'.within = "none"
  <2>1. proc' = [front |-> "settle", exec |-> FALSE, dynamic |-> FALSE, refused |-> FALSE,
                 pc |-> what, within |-> "none"]
    BY <1>1 DEF Closed
  <2> QED
    BY <2>1 DEF Processes, Places
<1>4. LifecycleTypeOK'
  BY <1>1, <1>2, <1>3 DEF Inv, LifecycleTypeOK
<1>5. NothingBeforeActivation' /\ PlaceFitsState' /\ DirectoryKnown'
  BY <1>2, <1>3 DEF NothingBeforeActivation, PlaceFitsState, DirectoryKnown
<1>6. ExecutorFits'
  BY <1>3 DEF ExecutorFits, ExecutorsHaveAWorktree
<1>7. TerminalRefusalHolds' /\ SliceKnows'
  BY <1>1, <1>3 DEF Inv, TerminalRefusalHolds, SliceKnows
<1> QED
  BY <1>4, <1>5, <1>6, <1>7 DEF Inv

\* A worktree on another commit, without changes.
LEMMA ResetTree ==
    ASSUME NEW h \in Commits, tree \in Worktrees
    PROVE  [tree EXCEPT !.head = h, !.missing = FALSE, !.edited = FALSE] \in Worktrees
<1>1. PICK t: t = [tree EXCEPT !.head = h]
  OBVIOUS
<1>2. PICK u: u = [t EXCEPT !.missing = FALSE]
  OBVIOUS
<1>3. t \in Worktrees
  BY <1>1 DEF Worktrees
<1>4. u \in Worktrees
  BY <1>2, <1>3 DEF Worktrees
<1>5. [u EXCEPT !.edited = FALSE] \in Worktrees
  BY <1>4 DEF Worktrees
<1>6. [tree EXCEPT !.head = h, !.missing = FALSE, !.edited = FALSE] = [u EXCEPT !.edited = FALSE]
  BY <1>1, <1>2 DEF Worktrees
<1> QED
  BY <1>5, <1>6

\* Accept and Discard end.
LEMMA SettlementsKeepInv ==
    ASSUME Inv, AcceptEnds \/ DiscardEnds
    PROVE  Inv'
<1>1. /\ proc.pc \in {"accepting", "discarding"} /\ proc' = Closed
      /\ UNCHANGED <<source, txn, turn, reasked, spent>>
  BY DEF AcceptEnds, DiscardEnds
<1>2. /\ [tree EXCEPT !.head = Checkpoint, !.missing = FALSE, !.edited = FALSE] \in Worktrees
      /\ [tree EXCEPT !.head = meta.base, !.missing = FALSE, !.edited = FALSE] \in Worktrees
  <2>1. Checkpoint \in Commits /\ meta.base \in Commits
    BY Facts DEF Commits, Metas
  <2> QED
    BY <2>1, Facts, ResetTree
<1>3. tree' \in Worktrees
  BY <1>2, Facts DEF AcceptEnds, DiscardEnds
<1>4. meta' \in Metas /\ meta'.state \in {"changes_active", "recovery_required"}
  <2>1. CASE \E s \in {"changes_active", "recovery_required"}: Mark(s)
    BY <2>1, Facts, Marked DEF States
  <2>2. CASE meta' = [meta EXCEPT !.state = "changes_active", !.base = Checkpoint, !.ahead = FALSE]
    <3>1. meta' = [state |-> "changes_active", isolated |-> meta.isolated, base |-> Checkpoint,
                   ahead |-> FALSE]
      BY <2>2, Facts DEF Metas
    <3>2. meta.isolated \in BOOLEAN /\ Checkpoint \in Commits
      BY Facts DEF Commits
    <3> QED
      BY <3>1, <3>2 DEF Metas, States
  <2>3. CASE meta' = [meta EXCEPT !.state = "changes_active", !.ahead = FALSE]
    <3>1. meta' = [state |-> "changes_active", isolated |-> meta.isolated, base |-> meta.base,
                   ahead |-> FALSE]
      BY <2>3, Facts DEF Metas
    <3>2. meta.isolated \in BOOLEAN /\ meta.base \in Commits
      BY Facts DEF Metas
    <3> QED
      BY <3>1, <3>2 DEF Metas, States
  <2> QED
    BY <2>1, <2>2, <2>3 DEF AcceptEnds, DiscardEnds
<1> QED
  BY <1>1, <1>3, <1>4, Facts, Constant, OpenedKeepsInv

-----------------------------------------------------------------------------
(* The environment *)

\* The process dies; what it recorded stays.
LEMMA CrashKeepsInv ==
    ASSUME Inv, Crash
    PROVE  Inv'
<1>1. /\ proc' = Closed /\ UNCHANGED <<meta, source, txn, turn, reasked>>
      /\ spent.crashes < MaxCrashes /\ spent' = [spent EXCEPT !.crashes = @ + 1]
  BY DEF Crash
<1>2. spent' \in Tallies
  <2>1. spent \in Tallies
    BY DEF Inv, LifecycleTypeOK
  <2>2. spent.crashes + 1 \in 0..MaxCrashes
    BY <1>1, <2>1, BoundsAssumption DEF Tallies
  <2> QED
    BY <1>1, <2>1, <2>2 DEF Tallies
<1>3. tree' \in Worktrees /\ (proc.pc # "preparing" => tree' = tree)
  BY Facts, AddedTrees DEF Crash
<1>4. LifecycleTypeOK'
  BY <1>1, <1>2, <1>3, Constant DEF Inv, LifecycleTypeOK
<1>5. NothingBeforeActivation' /\ PlaceFitsState' /\ DirectoryKnown'
  BY <1>1, <1>3, Constant DEF Inv, NothingBeforeActivation, PlaceFitsState, DirectoryKnown
<1>6. ExecutorFits'
  BY <1>1, Constant DEF ExecutorFits, ExecutorsHaveAWorktree
<1>7. TerminalRefusalHolds' /\ SliceKnows'
  BY <1>1, Constant DEF Inv, TerminalRefusalHolds, SliceKnows
<1> QED
  BY <1>4, <1>5, <1>6, <1>7 DEF Inv

\* The user, and a checkout that goes on by itself.
LEMMA OutsidersKeepInv ==
    ASSUME Inv, User \/ CheckoutCompletes
    PROVE  Inv'
<1>1. UNCHANGED <<meta, txn, turn, proc, reasked>>
  BY DEF User, CheckoutCompletes
<1>2. spent' \in Tallies
  <2>1. spent \in Tallies
    BY DEF Inv, LifecycleTypeOK
  <2>2. CASE spent.user < MaxUserSteps /\ spent' = [spent EXCEPT !.user = @ + 1]
    <3>1. spent.user + 1 \in 0..MaxUserSteps
      BY <2>1, <2>2, BoundsAssumption DEF Tallies
    <3> QED
      BY <2>1, <2>2, <3>1 DEF Tallies
  <2> QED
    BY <2>1, <2>2 DEF User, CheckoutCompletes
<1>3. source' \in [head : 0..MaxHead, dirty : BOOLEAN]
  <2>1. source \in [head : 0..MaxHead, dirty : BOOLEAN]
    BY DEF Inv, LifecycleTypeOK
  <2>2. CASE source.head < MaxHead /\ source' = [source EXCEPT !.head = @ + 1]
    <3>1. source.head + 1 \in 0..MaxHead
      BY <2>1, <2>2, BoundsAssumption
    <3> QED
      BY <2>1, <2>2, <3>1
  <2>3. CASE source' = [source EXCEPT !.dirty = ~@]
    BY <2>1, <2>3
  <2> QED
    BY <2>1, <2>2, <2>3 DEF User, CheckoutCompletes
<1>4. tree' \in Worktrees /\ (tree'.there => tree.there /\ tree'.locked = tree.locked)
  <2>1. CASE tree' = [tree EXCEPT !.missing = FALSE] \/ tree' = [tree EXCEPT !.edited = TRUE]
    BY <2>1, Facts DEF Worktrees
  <2>2. CASE tree' = [NoTree EXCEPT !.reg = TRUE, !.locked = tree.locked]
    <3>1. tree' = [there |-> FALSE, reg |-> TRUE, locked |-> tree.locked, head |-> 0,
                   missing |-> FALSE, edited |-> FALSE]
      BY <2>2 DEF NoTree
    <3>2. 0 \in Commits /\ tree.locked \in BOOLEAN
      BY Facts, BoundsAssumption DEF Commits
    <3> QED
      BY <3>1, <3>2 DEF Worktrees
  <2>3. CASE tree' = tree
    BY <2>3, Facts
  <2> QED
    BY <2>1, <2>2, <2>3 DEF User, CheckoutCompletes
<1>5. LifecycleTypeOK'
  BY <1>1, <1>2, <1>3, <1>4 DEF Inv, LifecycleTypeOK
<1>6. NothingBeforeActivation' /\ PlaceFitsState' /\ DirectoryKnown'
  BY <1>1, <1>4 DEF Inv, NothingBeforeActivation, PlaceFitsState, DirectoryKnown
<1>7. ExecutorFits'
  BY <1>1 DEF Inv, ExecutorFits, ExecutorsHaveAWorktree, Unfinished
<1>8. TerminalRefusalHolds' /\ SliceKnows'
  BY <1>1 DEF Inv, TerminalRefusalHolds, SliceKnows
<1> QED
  BY <1>5, <1>6, <1>7, <1>8 DEF Inv

-----------------------------------------------------------------------------
(* The theorems *)

\* A Session just made satisfies the invariant.
LEMMA InitInv == LifecycleInit => Inv
<1> SUFFICES ASSUME LifecycleInit PROVE Inv
  OBVIOUS
<1> DEFINE always == TRUE
<1>1. PICK front \in {"cli", "ask", "product"} :
        /\ proc = CASE front = "cli" -> Runner("cli", SourceMeta, always, "idle")
                    [] front = "ask" -> Runner("ask", SourceMeta, always, "slice")
                    [] front = "product" -> Closed
        /\ turn = [NewTurn EXCEPT !.open = (front = "ask")]
  BY DEF LifecycleInit
<1>2. \/ proc = Runner("cli", SourceMeta, always, "idle")
      \/ proc = Runner("ask", SourceMeta, always, "slice")
      \/ proc = Closed
  BY <1>1
<1> HIDE DEF always
<1>3. /\ meta = SourceMeta /\ tree = NoTree /\ txn = NoTxn /\ reasked = {}
      /\ source = [head |-> 0, dirty |-> FALSE] /\ spent = [crashes |-> 0, user |-> 0, turns |-> 0]
  BY DEF LifecycleInit
<1>4. turn \in UserTurns /\ turn.refusals = {}
  BY <1>1, Constant DEF UserTurns
<1>5. proc \in Processes /\ ~proc.exec /\ proc.pc \in {"none", "idle", "slice"} /\ proc.within = "none"
  <2>1. "idle" \in Places /\ "slice" \in Places
    BY DEF Places
  <2> QED
    BY <1>2, <2>1, Built, Constant
<1>6. 0 \in 0..MaxHead /\ 0 \in 0..MaxCrashes /\ 0 \in 0..MaxUserSteps /\ 0 \in 0..MaxTurns
  BY BoundsAssumption
<1>7. LifecycleTypeOK
  BY <1>3, <1>4, <1>5, <1>6, Constant DEF LifecycleTypeOK, Tallies
<1>8. NothingBeforeActivation /\ PlaceFitsState /\ DirectoryKnown
  BY <1>3, <1>5, Constant DEF NothingBeforeActivation, PlaceFitsState, DirectoryKnown, Transitional
<1>9. ExecutorFits
  BY <1>5 DEF ExecutorFits, ExecutorsHaveAWorktree
<1>10. TerminalRefusalHolds /\ SliceKnows
  BY <1>3, <1>4 DEF TerminalRefusalHolds, SliceKnows, RefusalOnRecord
<1> QED
  BY <1>7, <1>8, <1>9, <1>10 DEF Inv

\* Every step keeps the invariant.
LEMMA StepInv == Inv /\ [LifecycleNext]_vars => Inv'
<1> SUFFICES ASSUME Inv, [LifecycleNext]_vars PROVE Inv'
  OBVIOUS
<1>1. CASE UNCHANGED vars
  <2>1. UNCHANGED <<meta, tree, source, txn, turn, proc, reasked, spent>>
    BY <1>1 DEF vars
  <2>2. LifecycleTypeOK' /\ NothingBeforeActivation' /\ PlaceFitsState' /\ DirectoryKnown'
    BY <2>1 DEF Inv, LifecycleTypeOK, NothingBeforeActivation, PlaceFitsState, DirectoryKnown
  <2>3. ExecutorFits' /\ TerminalRefusalHolds' /\ SliceKnows'
    BY <2>1 DEF Inv, ExecutorFits, ExecutorsHaveAWorktree, Unfinished, TerminalRefusalHolds, SliceKnows
  <2> QED
    BY <2>2, <2>3 DEF Inv
<1>2. CASE \E tool \in {"edit", "command"} : Protected(tool) \/ Activate(tool)
  BY <1>2, ProtectedKeepsInv, ActivateKeepsInv
<1>3. CASE Resume \/ ProductStart \/ ProductStopIdle \/ Message \/ Stop \/ Budget \/ Continue
           \/ Exit \/ FinalAnswer \/ SliceExhausted \/ BudgetExhausted
  BY <1>3, ResumeKeepsInv, ProductStartKeepsInv, StopsKeepInv, BeginningsKeepInv, EndsKeepInv
<1>4. CASE Refused \/ Approved \/ CreateWorktree \/ RollBack
  BY <1>4, RefusedKeepsInv, ApprovedKeepsInv, CreateWorktreeKeepsInv, RollBackKeepsInv
<1>5. CASE \/ EditStarts \/ EditPrepared \/ EditWrites \/ EditCounted \/ EditCommitted
           \/ EditEnds \/ EditFails \/ CommandWrites \/ CommandEnds
  BY <1>5, EditStartsKeepsInv, EditStepsKeepInv, WorkEndsKeepInv
<1>6. CASE \/ BeginSettle \/ AcceptEnds \/ DiscardEnds \/ Crash \/ CheckoutCompletes \/ User
  BY <1>6, BeginSettleKeepsInv, SettlementsKeepInv, CrashKeepsInv, OutsidersKeepInv
<1> QED
  BY <1>1, <1>2, <1>3, <1>4, <1>5, <1>6 DEF LifecycleNext

\* The invariant always holds.
LEMMA InvHolds == LifecycleSpec => []Inv
  BY InitInv, StepInv, PTL DEF LifecycleSpec

\* Whoever works on a Session finds it settled, over any number of processes,
\* crashes and steps of the user's: no half edit and no transition at the prompt,
\* a worktree for those who may execute, none that nobody knows of (SessionIsSettled).
THEOREM SessionsAreSettled == LifecycleSpec => []SessionIsSettled
<1>1. Inv => SessionIsSettled
  <2> SUFFICES ASSUME Inv PROVE SessionIsSettled
    OBVIOUS
  <2>1. PromptHasNoHalfEdit
    BY DEF Inv, ExecutorFits, PromptHasNoHalfEdit, AtPrompt
  <2>2. PromptHasNoTransition
    BY DEF Inv, PlaceFitsState, PromptHasNoTransition, AtPrompt
  <2>3. NoWorktreeIsForgotten
    BY DEF Inv, DirectoryKnown, NoWorktreeIsForgotten
  <2> QED
    BY <2>1, <2>2, <2>3 DEF Inv, ExecutorFits, SessionIsSettled
<1> QED
  BY <1>1, InvHolds, PTL

\* Only resume opens a Session in the terminal, and it looks at the changes.
LEMMA ResumeCounts ==
    ASSUME Inv, [LifecycleNext]_vars,
           proc = Closed, proc'.front = "cli", proc'.exec, Dirty(tree')
    PROVE  meta'.ahead /\ tree'.head = meta'.base
<1>1. CASE Resume
  BY <1>1, ResumeKeepsInv DEF ResumesOnCountedChanges
<1>2. proc.pc = "none" /\ proc.front = "none"
  BY Constant
<1>3. CASE UNCHANGED proc
  BY <1>2, <1>3
<1>4. ~ProductStart
  <2>1. SUFFICES ASSUME ProductStart PROVE FALSE
    OBVIOUS
  <2> DEFINE allowed == (meta.state = "changes_active")
  <2>2. PICK p: p = Runner("product", meta, allowed, "slice")
    OBVIOUS
  <2>3. PICK t \in UserTurns: proc' = Slice(p, t)
    BY <2>1, <2>2, Facts, Constant DEF ProductStart
  <2>4. "slice" \in Places
    BY DEF Places
  <2> HIDE DEF allowed
  <2>5. p \in Processes /\ p.front = "product"
    BY <2>2, <2>4, Built
  <2> QED
    BY <2>3, <2>5, SliceBegun
<1>5. CASE BeginSettle
  <2>1. proc'.front = "settle"
    BY <1>5 DEF BeginSettle, Closed
  <2> QED
    BY <2>1
<1> QED
  BY <1>1, <1>2, <1>3, <1>4, <1>5
     DEF LifecycleNext, vars, ProductStopIdle, Message, Stop, Budget, Continue, Exit, FinalAnswer,
         SliceExhausted, BudgetExhausted, Protected, Activate, Refused, Approved, CreateWorktree,
         RollBack, EditStarts, EditPrepared, EditWrites, EditCounted, EditCommitted, EditEnds,
         EditFails, CommandWrites, CommandEnds, AcceptEnds, DiscardEnds, Crash, CheckoutCompletes,
         User, AtPrompt

\* A process that changes session.json has put the Session in a state of its own
\* before, or found it in one that is not recovery_required.
LEMMA VerdictStays ==
    ASSUME Inv, [LifecycleNext]_vars, meta.state = "recovery_required"
    PROVE  meta'.state = "recovery_required"
<1>1. CASE Resume
  BY <1>1, ResumeKeepsInv
<1>2. proc.pc \notin {"preparing", "created", "edit", "editing", "counted", "command", "accepting",
                      "discarding"}
  BY DEF Inv, PlaceFitsState
<1>3. CASE UNCHANGED meta
  BY <1>3
<1> QED
  BY <1>1, <1>2, <1>3
     DEF LifecycleNext, vars, ProductStart, ProductStopIdle, Message, Stop, Budget, Continue, Exit,
         FinalAnswer, SliceExhausted, BudgetExhausted, Protected, Activate, Refused, Approved,
         CreateWorktree, RollBack, EditStarts, EditPrepared, EditWrites, EditCounted, EditCommitted,
         EditEnds, EditFails, CommandWrites, CommandEnds, BeginSettle, AcceptEnds, DiscardEnds,
         Crash, CheckoutCompletes, User

\* Opening a Session once more undoes no decision (DecisionsHold): not the user's
\* refusal in the terminal, not recovery_required, and uncounted changes do not
\* become work in progress.
THEOREM DecisionsAreKept == LifecycleSpec => DecisionsHold
<1>1. Inv => TerminalRefusalHolds
  BY DEF Inv
<1>2. Inv /\ [LifecycleNext]_vars =>
        [proc = Closed /\ proc'.front = "cli" /\ proc'.exec /\ Dirty(tree')
            => meta'.ahead /\ tree'.head = meta'.base]_vars
  BY ResumeCounts
<1>3. Inv /\ [LifecycleNext]_vars =>
        [meta.state = "recovery_required" => meta'.state = "recovery_required"]_vars
  BY VerdictStays
<1>4. LifecycleSpec => WorkResumesOnCountedChanges
  BY <1>2, InvHolds, PTL DEF LifecycleSpec, WorkResumesOnCountedChanges
<1>5. LifecycleSpec => RecoveryIsFinal
  BY <1>3, InvHolds, PTL DEF LifecycleSpec, RecoveryIsFinal
<1>6. LifecycleSpec => []TerminalRefusalHolds
  BY <1>1, InvHolds, PTL
<1> QED
  BY <1>4, <1>5, <1>6 DEF DecisionsHold

--------------------------------------------------------------------------------
(* The inductive invariant                                                 *)

Queries == {q \in [req : PermissionRequests, path : Paths \cup {None}, ident : Identities \cup {None}] :
               IF q.req.capability = "network" THEN q.path = None
               ELSE q.path \in Paths /\ q.ident \in Identities}
SavedGrants == {g \in [capability : {"read", "write", "network"}, path : Paths \cup {None},
                       ident : Identities \cup {None}, exec : Nat] :
                   g.capability # "network" => g.path \in Paths /\ g.ident \in Identities}
Approvals == [exec : Nat, q : Queries]
Trees == [Files -> Contents]
Policies == [reads : SUBSET Paths, writes : SUBSET Paths, network : BOOLEAN]
Statuses == {"completed", "sandbox_unavailable", "sandbox_setup_failed", "spawn_failed", "execution_timed_out"}
Results == [status : Statuses, exit : {0, 1, None}, started : BOOLEAN, stopped : BOOLEAN]
Purposes == {"utility", "validation"}
WorkspaceStates == {"changes_active", "workspace_tainted", "recovery_required"}
Completions == [exec : Nat, purpose : Purposes, res : Results, before : Trees, after : Trees,
                changes : SUBSET Files, revision : Nat, state : WorkspaceStates]

\* A call at each of its phases.
Asking == [phase : {"waiting", "granted"}, exec : Nat, qs : SUBSET Queries, asks : SUBSET Queries,
           purpose : Purposes, before : Trees, revision : Nat]
Launching == [phase : {"launch"}, exec : Nat, qs : SUBSET Queries, purpose : Purposes, before : Trees,
              revision : Nat, policy : Policies]
Joining == [phase : {"joining"}, exec : Nat, purpose : Purposes, before : Trees, revision : Nat]
Finished == [phase : {"ended"}, exec : Nat, purpose : Purposes, before : Trees, revision : Nat, res : Results]

\* The types of the state.
CommandsTyped ==
    /\ backend \in {"bwrap", "docker"}
    /\ fs \in [Paths -> {None} \cup Identities] /\ fs[<<>>] # None
    /\ cand \in Trees
    /\ grants \subseteq SavedGrants
    /\ wstate \in WorkspaceStates /\ revision \in Nat
    /\ cmd \in {NoCommand} \cup Asking \cup Launching \cup Joining \cup Finished
    /\ records \in Seq(Completions)
    /\ evidence \subseteq [exec : Nat, tree : Trees]
    /\ approved \subseteq Approvals
    /\ counted \in [commands : 0..MaxCommands, disturbances : Nat]

\* The calls have numbers of their own: what is on record, and the call at hand.
Underway == IF cmd.phase = "idle" THEN {} ELSE {counted.commands}
Past == (1..counted.commands) \ Underway
CallsAreNumbered ==
    /\ cmd.phase # "idle" => cmd.exec = counted.commands /\ counted.commands \in 1..MaxCommands
    /\ \A i \in DOMAIN records : records[i].exec \in Past
    /\ \A e \in evidence : e.exec \in Past
    /\ crashed \subseteq Past
    /\ dirs \subseteq Past \cup (IF cmd.phase \in {"launch", "joining", "ended"} THEN Underway ELSE {})
    /\ live \subseteq Past \cup (IF cmd.phase \in {"joining", "ended"} THEN Underway ELSE {})
    /\ \A g \in grants : g.exec \in 1..counted.commands
    /\ Len(records) <= counted.commands - (IF cmd.phase = "idle" THEN 0 ELSE 1)
    /\ revision <= Len(records)

\* A call is only in progress in a session that takes commands.
CallsNeedTrust == cmd.phase # "idle" => wstate = "changes_active"

\* The user said yes to this capability on p, for the session.
ForTheSession(capability, p) ==
    \E a \in approved : /\ a.q.req.capability = capability /\ a.q.req.scope = "session"
                        /\ capability = "network" \/ Inside(p, a.q.path)

\* Without an answer for this call: allowed by the policy or by the session.
Allowed(capability, p) ==
    CASE capability = "network" -> ForTheSession("network", None)
      [] capability = "write" -> Inside(p, Candidate) \/ Inside(p, Cache) \/ ForTheSession("write", p)
      [] OTHER -> TRUE

\* What a write may never touch, and nothing may that is denied.
Permissible(capability, p) ==
    /\ capability = "write" => ~Overlap(p, Source) /\ \A g \in GitPaths : ~Overlap(p, g)
    /\ capability # "network" => \A d \in HardDeny : fs[d] # None => ~Overlap(p, d)

GrantsAreSound ==
    \A g \in grants : Permissible(g.capability, g.path) /\ Allowed(g.capability, g.path)

\* Every request of the call may be granted, and needs no answer or has asked for
\* one; after the answer it is on record.
CallIsSound ==
    /\ cmd.phase \in {"waiting", "granted"} =>
           /\ cmd.asks \subseteq cmd.qs
           /\ \A q \in cmd.qs : Permissible(q.req.capability, q.path)
           /\ \A q \in cmd.qs \ cmd.asks : Allowed(q.req.capability, q.path)
    /\ cmd.phase = "granted" => \A q \in cmd.asks : [exec |-> cmd.exec, q |-> q] \in approved

\* The same of what the started command is given.
PolicyIsSound ==
    cmd.phase = "launch" =>
        /\ cmd.policy.network => UserAllowed("network", None)
        /\ \A p \in cmd.policy.writes :
              /\ Permissible("write", p)
              /\ Inside(p, Candidate) \/ Inside(p, Cache) \/ UserAllowed("write", p)
        /\ \A p \in cmd.policy.reads : Permissible("read", p)

\* What was approved for the session is saved with the call, unless the Runtime died in it.
ApprovalsAreSaved ==
    \A a \in approved : a.q.req.scope = "session" /\ a.exec \notin crashed =>
        \/ Grant(a.q, a.exec) \in grants
        \/ cmd.phase = "granted" /\ a.exec = cmd.exec /\ a.q \in cmd.qs

\* What is still running at the end of a call is not reported as a success.
StragglersAreReported ==
    cmd.phase = "ended" /\ cmd.exec \in live =>
        /\ cmd.res.status # "completed"
        /\ \/ cmd.res.started /\ ~cmd.res.stopped
           \/ backend = "docker" /\ cmd.res.status = "sandbox_setup_failed"

RevisionsGrow == \A i \in DOMAIN records : records[i].revision <= revision

\* The diagnostics of every recorded call, whatever is in progress.
DiagnosticsAreKept ==
    /\ cmd.phase \in {"launch", "joining", "ended"} => cmd.exec \in dirs
    /\ dirs \subseteq crashed \cup {records[i].exec : i \in DOMAIN records} \cup Underway
    /\ \A i \in DOMAIN records :
          LET r == records[i]
          IN  r.exec \in dirs <=> ~(r.res.status = "completed" /\ r.res.exit = 0
                                    /\ r.state = "changes_active")

CommandsInv ==
    /\ CommandsTyped /\ CallsAreNumbered /\ CallsNeedTrust
    /\ GrantsAreSound /\ CallIsSound /\ PolicyIsSound
    /\ LaunchedAsShown /\ ApprovalsAreSaved /\ ApprovedIsNotAskedAgain
    /\ StragglersAreReported /\ StragglersCloseTheSession
    /\ EvidenceIsOfACompletedRun /\ RevisionsGrow /\ AuditFindsEveryChange
    /\ DiagnosticsAreKept

--------------------------------------------------------------------------------
(* Paths                                                                   *)

\* A nonempty set of numbers up to n has a greatest one, and Max is that one.
LEMMA MaxOfBounded ==
    ASSUME NEW n \in Nat, NEW S \in SUBSET (0..n), S # {}
    PROVE  Max(S) \in S /\ \A i \in S : i <= Max(S)
<1> DEFINE T == {n - i : i \in S}
<1>1. T \subseteq Nat
    OBVIOUS
<1>2. T # {}
    <2>1. PICK i \in S : TRUE
        OBVIOUS
    <2>2. n - i \in T
        BY <2>1
    <2> QED BY <2>2
<1>3. PICK t \in T : \A y \in T : ~ (<<y, t>> \in OpToRel(<, Nat))
    BY <1>1, <1>2, WFMin, NatLessThanWellFounded
<1>4. \A y \in T : ~ (y < t)
    BY <1>1, <1>3 DEF OpToRel
<1>5. n - t \in S /\ \A i \in S : (n - t) >= i
    BY <1>4
<1>6. Max(S) \in S /\ \A i \in S : Max(S) >= i
    BY <1>5 DEF Max
<1> QED BY <1>6

\* Paths are sequences of names, closed under prefixes.
LEMMA PathFacts ==
    ASSUME NEW p \in Paths
    PROVE  /\ p \in Seq(Names) /\ Len(p) \in Nat /\ p # None
           /\ \A i \in 0..Len(p) : SubSeq(p, 1, i) \in Paths /\ SubSeq(p, 1, i) = [j \in 1..i |-> p[j]]
BY PathsAssumption

\* The root is a path.
LEMMA RootIsAPath == <<>> \in Paths
<1>1. Candidate \in Paths
    BY PathsAssumption
<1>2. SubSeq(Candidate, 1, 0) \in Paths /\ SubSeq(Candidate, 1, 0) = <<>>
    BY <1>1, PathFacts
<1> QED BY <1>2

\* _inside, name by name.
LEMMA InsideByNames ==
    ASSUME NEW p \in Paths, NEW q \in Paths
    PROVE  Inside(p, q) <=> Len(q) <= Len(p) /\ \A i \in 1..Len(q) : p[i] = q[i]
<1>1. /\ p \in Seq(Names) /\ q \in Seq(Names) /\ Len(p) \in Nat /\ Len(q) \in Nat
    BY PathFacts
<1>2. SubSeq(q, 1, Len(q)) = [j \in 1..Len(q) |-> q[j]]
    BY <1>1, PathFacts
<1>3. ASSUME Len(q) <= Len(p)
      PROVE  SubSeq(p, 1, Len(q)) = [j \in 1..Len(q) |-> p[j]]
    BY <1>1, <1>3, PathFacts
<1>4. ASSUME Len(q) <= Len(p)
      PROVE  SubSeq(q, 1, Len(q)) = SubSeq(p, 1, Len(q)) <=> \A i \in 1..Len(q) : p[i] = q[i]
    BY <1>2, <1>3, <1>4
<1> QED BY <1>4 DEF Inside, IsPrefix

\* Two paths with the same names are the same path.
LEMMA SamePath ==
    ASSUME NEW p \in Paths, NEW q \in Paths, Inside(p, q), Len(p) <= Len(q)
    PROVE  p = q
<1>1. /\ p \in Seq(Names) /\ q \in Seq(Names) /\ Len(p) \in Nat /\ Len(q) \in Nat
    BY PathFacts
<1>2. Len(q) = Len(p) /\ \A i \in 1..Len(q) : p[i] = q[i]
    BY <1>1, InsideByNames
<1> QED BY <1>1, <1>2

\* A path is inside itself.
LEMMA InsideItself ==
    ASSUME NEW p \in Paths
    PROVE  Inside(p, p)
BY PathFacts, InsideByNames

\* _inside is transitive.
LEMMA InsideTransitive ==
    ASSUME NEW p \in Paths, NEW q \in Paths, NEW r \in Paths, Inside(p, q), Inside(q, r)
    PROVE  Inside(p, r)
<1>1. Len(p) \in Nat /\ Len(q) \in Nat /\ Len(r) \in Nat
    BY PathFacts
<1>2. /\ Len(q) <= Len(p) /\ \A i \in 1..Len(q) : p[i] = q[i]
      /\ Len(r) <= Len(q) /\ \A i \in 1..Len(r) : q[i] = r[i]
    BY InsideByNames
<1>3. Len(r) <= Len(p) /\ \A i \in 1..Len(r) : p[i] = r[i]
    BY <1>1, <1>2
<1> QED BY <1>3, InsideByNames

\* Of two directories over one path one holds the other.
LEMMA InsideBoth ==
    ASSUME NEW p \in Paths, NEW q \in Paths, NEW r \in Paths, Inside(p, q), Inside(p, r)
    PROVE  IF Len(q) <= Len(r) THEN Inside(r, q) ELSE Inside(q, r)
<1>1. Len(p) \in Nat /\ Len(q) \in Nat /\ Len(r) \in Nat
    BY PathFacts
<1>2. /\ \A i \in 1..Len(q) : p[i] = q[i]
      /\ \A i \in 1..Len(r) : p[i] = r[i]
    BY InsideByNames
<1>3. CASE Len(q) <= Len(r)
    <2>1. \A i \in 1..Len(q) : r[i] = q[i]
        BY <1>1, <1>2, <1>3
    <2> QED BY <1>3, <2>1, InsideByNames
<1>4. CASE Len(r) < Len(q)
    <2>1. \A i \in 1..Len(r) : q[i] = r[i]
        BY <1>1, <1>2, <1>4
    <2> QED BY <1>1, <1>4, <2>1, InsideByNames
<1> QED BY <1>1, <1>3, <1>4

\* What is below a path that is apart from r is apart from r.
LEMMA ApartBelow ==
    ASSUME NEW p \in Paths, NEW q \in Paths, NEW r \in Paths, Inside(p, q), ~Overlap(q, r)
    PROVE  ~Overlap(p, r)
<1>1. ~Inside(p, r)
    BY InsideBoth DEF Overlap
<1>2. ~Inside(r, p)
    BY InsideTransitive DEF Overlap
<1> QED BY <1>1, <1>2 DEF Overlap

\* What is not in the source and apart from its Git directory is apart from the source.
LEMMA ApartFromTheSource ==
    ASSUME NEW p \in Paths, ~Inside(p, Source), \A g \in GitPaths : ~Overlap(p, g)
    PROVE  ~Overlap(p, Source)
<1>1. PICK g \in GitPaths : Inside(g, Source)
    BY LayoutAssumption
<1>2. g \in Paths /\ Source \in Paths
    BY PathsAssumption
<1>3. ~Inside(Source, p)
    BY <1>1, <1>2, InsideTransitive DEF Overlap
<1> QED BY <1>3 DEF Overlap

\* Path.resolve finds the longest part of a path that is there.
LEMMA ExistingIsLongest ==
    ASSUME NEW f \in [Paths -> {None} \cup Identities], f[<<>>] # None, NEW p \in Paths
    PROVE  /\ Existing(f, p) \in Paths /\ Inside(p, Existing(f, p)) /\ f[Existing(f, p)] # None
           /\ \A r \in Paths : Inside(p, r) /\ Inside(r, Existing(f, p)) /\ r # Existing(f, p) => f[r] = None
<1> DEFINE up == {i \in 0..Len(p) : f[SubSeq(p, 1, i)] # None}
           m == Max(up)
           e == SubSeq(p, 1, m)
<1>1. Len(p) \in Nat /\ p \in Seq(Names)
    BY PathFacts
<1>2. up \in SUBSET (0..Len(p)) /\ up # {}
    <2>1. SubSeq(p, 1, 0) = <<>>
        BY <1>1, PathFacts
    <2>2. f[SubSeq(p, 1, 0)] # None
        BY <2>1
    <2>3. 0 \in up
        BY ONLY <1>1, <2>2
    <2> QED BY <2>3
<1>3. m \in up /\ \A i \in up : i <= m
    BY <1>1, <1>2, MaxOfBounded
<1>4. m \in 0..Len(p) /\ f[e] # None /\ Existing(f, p) = e
    BY <1>3 DEF Existing
<1> HIDE DEF m
<1>5. e \in Paths /\ e = [j \in 1..m |-> p[j]] /\ Len(e) = m
    <2>1. e \in Paths /\ e = [j \in 1..m |-> p[j]]
        BY <1>4, PathFacts
    <2>2. Len([j \in 1..m |-> p[j]]) = m
        BY <1>1, <1>4
    <2> QED BY <2>1, <2>2
<1> HIDE DEF e
<1>6. Inside(p, e)
    <2>1. Len(e) <= Len(p) /\ \A i \in 1..Len(e) : p[i] = e[i]
        BY <1>1, <1>4, <1>5
    <2> QED BY <1>5, <2>1, InsideByNames
<1>7. ASSUME NEW r \in Paths, Inside(p, r), Inside(r, e), r # e
      PROVE  f[r] = None
    <2>1. Len(r) \in Nat /\ r \in Seq(Names) /\ Len(r) <= Len(p) /\ \A i \in 1..Len(r) : p[i] = r[i]
        BY <1>7, PathFacts, InsideByNames
    <2>2. ~(Len(r) <= m)
        BY <1>5, <1>7, SamePath
    <2>3. r = SubSeq(p, 1, Len(r))
        BY <1>1, <2>1, PathFacts
    <2>4. Len(r) \notin up
        BY <1>3, <1>4, <2>1, <2>2
    <2>5. f[SubSeq(p, 1, Len(r))] = None
        BY ONLY <1>1, <2>1, <2>4
    <2> QED BY <2>3, <2>5
<1> QED BY <1>4, <1>5, <1>6, <1>7

\* A request that is parsed names an object that is there and is not denied.
LEMMA ParsedRequest ==
    ASSUME NEW f \in [Paths -> {None} \cup Identities], f[<<>>] # None,
           NEW r \in PermissionRequests, Parse(f, r) # None
    PROVE  /\ Parse(f, r) \in Queries /\ Parse(f, r).req = r
           /\ r.capability # "network" =>
                 \A d \in HardDeny : f[d] # None => ~Overlap(Parse(f, r).path, d)
<1>1. r.capability \in {"read", "write", "network"} /\ (r.capability # "network" => r.resource \in Paths)
    BY DEF PermissionRequests
<1>2. CASE r.capability = "network"
    <2>1. Parse(f, r) = [req |-> r, path |-> None, ident |-> None]
        BY <1>2 DEF Parse
    <2> QED BY <1>2, <2>1 DEF Queries
<1>3. CASE r.capability # "network"
    <2> DEFINE p == Existing(f, r.resource)
    <2>1. p \in Paths /\ f[p] # None
        BY <1>1, <1>3, ExistingIsLongest
    <2>2. /\ Parse(f, r) = [req |-> r, path |-> p, ident |-> f[p]]
          /\ ~ \E d \in HardDeny : f[d] # None /\ Overlap(p, d)
        BY <1>3 DEF Parse
    <2>3. f[p] \in Identities
        BY <2>1
    <2> HIDE DEF p
    <2>4. Parse(f, r) \in Queries
        BY <1>3, <2>1, <2>2, <2>3 DEF Queries
    <2> QED BY <2>2, <2>4
<1> QED BY <1>2, <1>3

--------------------------------------------------------------------------------
(* Types                                                                   *)

\* The phase of a call tells its fields.
LEMMA PhaseTells ==
    ASSUME CommandsTyped
    PROVE  /\ cmd.phase \in {"idle", "waiting", "granted", "launch", "joining", "ended"}
           /\ cmd.phase = "idle" => cmd = NoCommand
           /\ cmd.phase \in {"waiting", "granted"} => cmd \in Asking
           /\ cmd.phase = "launch" => cmd \in Launching
           /\ cmd.phase = "joining" => cmd \in Joining
           /\ cmd.phase = "ended" => cmd \in Finished
BY DEF CommandsTyped, NoCommand, Asking, Launching, Joining, Finished

\* What is written is a tree of files again.
LEMMA WrittenTree ==
    ASSUME cand \in Trees, NEW e \in Writes
    PROVE  Written(e) \in Trees
<1>1. e = None \/ (e \in Effects /\ e # None)
    BY FilesAssumption DEF Writes
<1>2. CASE e \in Effects /\ e # None
    <2>1. e[1] \in Files /\ e[2] \in Contents
        BY <1>2, FilesAssumption DEF Contents
    <2> QED BY <1>2, <2>1 DEF Written, Trees
<1> QED BY <1>1, <1>2 DEF Written

\* A command gives new stamps to what it writes and leaves the rest.
LEMMA RunsTyped ==
    ASSUME CommandsTyped, cmd.phase = "launch", NEW e \in Writes, Runs(e)
    PROVE  /\ cand' \in Trees
           /\ fs' \in [Paths -> {None} \cup Identities]
           /\ \A p \in Paths : fs[p] # None => fs'[p] # None
           /\ \A p \in Paths : fs[p] = None => fs'[p] = None
<1>1. cmd.policy.writes \subseteq Paths /\ fs \in [Paths -> {None} \cup Identities] /\ cand \in Trees
    BY PhaseTells DEF CommandsTyped, Launching, Policies
<1>2. counted.commands \in Nat
    BY CommandBounds DEF CommandsTyped
<1>3. ASSUME NEW p \in Paths, fs[p] # None
      PROVE  fs'[p] \in Identities
    <2>1. fs[p] \in Identities
        BY <1>1, <1>3
    <2>2. [fs[p] EXCEPT !.stamp = counted.commands] \in Identities
        BY <1>2, <2>1 DEF Identities
    <2> QED BY <1>3, <2>1, <2>2 DEF Runs
<1>4. \A p \in Paths : fs[p] = None => fs'[p] = None
    BY DEF Runs
<1>5. fs' \in [Paths -> {None} \cup Identities]
    <2>1. fs' = [p \in Paths |-> fs'[p]]
        BY DEF Runs
    <2>2. \A p \in Paths : fs'[p] \in {None} \cup Identities
        BY <1>3, <1>4
    <2> QED BY <2>1, <2>2
<1>6. cand' \in Trees
    BY <1>1, WrittenTree DEF Runs
<1> QED BY <1>3, <1>4, <1>5, <1>6, FsAssumption

\* SandboxPolicy.grant of a parsed request.
LEMMA GrantTyped ==
    ASSUME NEW q \in Queries, NEW n \in Nat
    PROVE  Grant(q, n) \in SavedGrants
<1>1. /\ q.req.capability \in {"read", "write", "network"} /\ q.path \in Paths \cup {None}
      /\ q.ident \in Identities \cup {None}
      /\ q.req.capability # "network" => q.path \in Paths /\ q.ident \in Identities
    BY DEF Queries, PermissionRequests
<1> QED BY <1>1 DEF Grant, SavedGrants

\* What SandboxPolicy.effective makes of typed grants.
LEMMA EffectiveTyped ==
    ASSUME NEW S \in SUBSET SavedGrants, NEW T \in SUBSET SavedGrants
    PROVE  /\ Effective(S, T) \in Policies
           /\ Effective(S, T).network => \E g \in S \cup T : g.capability = "network"
           /\ \A p \in Effective(S, T).writes : \E g \in S \cup T : g.capability = "write" /\ g.path = p
           /\ \A p \in Effective(S, T).reads : \E g \in S \cup T : g.capability = "read" /\ g.path = p
<1>1. \A g \in S \cup T : g.capability \in {"read", "write"} => g.path \in Paths
    BY DEF SavedGrants
<1> QED BY <1>1 DEF Effective, Policies

\* A call that ends keeps what it was submitted with.
LEMMA EndedTyped ==
    ASSUME cmd \in Launching \cup Joining, NEW res \in Results, Ended(res)
    PROVE  cmd' \in Finished
BY DEF Ended, Launching, Joining, Finished

\* Submit, with the requests it takes.
LEMMA SubmitTyped ==
    ASSUME CommandsTyped, NEW rs \in Requests, NEW purpose \in Purposes, Submit(rs, purpose)
    PROVE  /\ cmd' \in Asking /\ counted' \in [commands : 0..MaxCommands, disturbances : Nat]
           /\ counted'.commands = counted.commands + 1
           /\ cmd'.exec = counted'.commands /\ counted'.commands \in 1..MaxCommands
           /\ cmd'.qs = {Parse(fs, r) : r \in rs}
           /\ cmd'.asks = {q \in cmd'.qs : Evaluate(q) = "ask"}
           /\ cmd'.phase = IF cmd'.asks = {} THEN "granted" ELSE "waiting"
           /\ \A q \in cmd'.qs : q # None /\ Evaluate(q) # "deny"
<1> DEFINE qs == {Parse(fs, r) : r \in rs}
           asks == {q \in qs : Evaluate(q) = "ask"}
<1>1. /\ cmd' = [phase |-> IF asks = {} THEN "granted" ELSE "waiting", exec |-> counted.commands + 1, qs |-> qs,
                 asks |-> asks, purpose |-> purpose, before |-> cand, revision |-> revision]
      /\ counted' = [counted EXCEPT !.commands = counted.commands + 1]
      /\ counted.commands < MaxCommands /\ None \notin qs /\ \A q \in qs : Evaluate(q) # "deny"
    BY DEF Submit
<1>2. qs \in SUBSET Queries
    <2> SUFFICES ASSUME NEW r \in rs
                 PROVE  Parse(fs, r) \in Queries
        OBVIOUS
    <2>1. Parse(fs, r) # None /\ r \in PermissionRequests
        BY <1>1, RequestsAssumption
    <2> QED BY <2>1, ParsedRequest DEF CommandsTyped
<1>3. asks \in SUBSET Queries
    BY <1>2
<1>4. cand \in Trees /\ revision \in Nat /\ counted \in [commands : 0..MaxCommands, disturbances : Nat]
    BY DEF CommandsTyped
<1> HIDE DEF qs, asks
<1>5. cmd' \in Asking
    BY <1>1, <1>2, <1>3, <1>4, CommandBounds DEF Asking
<1>6. counted' \in [commands : 0..MaxCommands, disturbances : Nat] /\ counted'.commands = counted.commands + 1
      /\ counted'.commands \in 1..MaxCommands
    BY <1>1, <1>4, CommandBounds
<1>7. cmd'.qs = qs /\ cmd'.asks = asks /\ cmd'.phase = IF asks = {} THEN "granted" ELSE "waiting"
    BY <1>1
<1> QED BY <1>1, <1>5, <1>6, <1>7 DEF qs, asks

\* Proceed, with the policy it makes.
LEMMA ProceedTyped ==
    ASSUME CommandsTyped, Proceed
    PROVE  LET saved == grants \cup {Grant(q, cmd.exec) : q \in SessionGrants}
               once  == {Grant(q, cmd.exec) : q \in {p \in cmd.qs : p.req.scope = "once"}}
           IN  /\ cmd \in Asking /\ cmd.phase = "granted"
               /\ saved \subseteq SavedGrants /\ once \subseteq SavedGrants
               /\ grants' = saved
               /\ \/ cmd' = NoCommand /\ UNCHANGED dirs
                  \/ /\ StillCurrent /\ cmd' \in Launching /\ dirs' = dirs \cup {cmd.exec}
                     /\ cmd'.exec = cmd.exec /\ cmd'.qs = cmd.qs /\ cmd'.before = cmd.before
                     /\ cmd'.policy = Effective(saved, once)
<1> DEFINE saved == grants \cup {Grant(q, cmd.exec) : q \in SessionGrants}
           once  == {Grant(q, cmd.exec) : q \in {p \in cmd.qs : p.req.scope = "once"}}
<1>1. cmd.phase = "granted" /\ cmd \in Asking /\ cmd.exec \in Nat /\ cmd.qs \subseteq Queries
    BY PhaseTells DEF Proceed, Asking
<1>2. grants \subseteq SavedGrants
    BY DEF CommandsTyped
<1>3. saved \in SUBSET SavedGrants /\ once \in SUBSET SavedGrants
    BY <1>1, <1>2, GrantTyped DEF SessionGrants
<1>4. Effective(saved, once) \in Policies
    BY <1>3, EffectiveTyped
<1>5. /\ grants' = saved
      /\ IF StillCurrent
         THEN /\ cmd' = [phase |-> "launch", exec |-> cmd.exec, qs |-> cmd.qs,
                         purpose |-> cmd.purpose, before |-> cmd.before,
                         revision |-> cmd.revision, policy |-> Effective(saved, once)]
              /\ dirs' = dirs \cup {cmd.exec}
         ELSE cmd' = NoCommand /\ UNCHANGED dirs
    BY DEF Proceed
<1> HIDE DEF saved, once
<1>6. CASE StillCurrent
    <2>1. cmd' \in Launching
        BY <1>1, <1>4, <1>5, <1>6 DEF Asking, Launching
    <2> QED BY <1>1, <1>3, <1>5, <1>6, <2>1 DEF saved, once
<1>7. CASE ~StillCurrent
    BY <1>1, <1>3, <1>5, <1>7 DEF saved, once
<1> QED BY <1>6, <1>7

\* A timeout of bwrap whose processes could not be stopped.
LEMMA JoiningTyped ==
    ASSUME cmd \in Launching,
           cmd' = [phase |-> "joining", exec |-> cmd.exec, purpose |-> cmd.purpose,
                   before |-> cmd.before, revision |-> cmd.revision]
    PROVE  cmd' \in Joining
BY DEF Launching, Joining

\* Record, with the completion it appends.
LEMMA RecordTyped ==
    ASSUME CommandsTyped, NEW ok \in BOOLEAN, Record(ok)
    PROVE  /\ cmd \in Finished /\ cmd.phase = "ended" /\ cmd' = NoCommand
           /\ wstate' \in WorkspaceStates
           /\ wstate' \in {wstate, "workspace_tainted", "recovery_required"}
           /\ cmd.res.started /\ ~cmd.res.stopped => wstate' = "recovery_required"
           /\ revision' \in {revision, revision + 1}
           /\ \E r \in Completions :
                 /\ records' = Append(records, r)
                 /\ r.exec = cmd.exec /\ r.purpose = cmd.purpose /\ r.res = cmd.res
                 /\ r.before = cmd.before /\ r.state = wstate' /\ r.revision = revision'
                 /\ \/ r.after = r.before /\ r.changes = {}
                    \/ r.after = cand /\ r.changes = CompareWorkspace(r.before, r.after)
                 /\ r.changes # {} => revision' = revision + 1
                 /\ evidence' \subseteq evidence \cup {[exec |-> cmd.exec, tree |-> r.after]}
           /\ evidence' # evidence => cmd.purpose = "validation" /\ ValidEvidence(wstate')
           /\ dirs' = IF KeepsDiagnostics(wstate') THEN dirs ELSE dirs \ {cmd.exec}
<1> DEFINE audited == ok /\ Auditable(cand)
           state == AfterAudit(audited)
           looked == cmd.res.started /\ cmd.res.stopped /\ audited
           changes == IF looked THEN CompareWorkspace(cmd.before, cand) ELSE {}
           after == IF looked THEN cand ELSE cmd.before
           r == [exec |-> cmd.exec, purpose |-> cmd.purpose, res |-> cmd.res, before |-> cmd.before,
                 after |-> after, changes |-> changes, revision |-> revision', state |-> state]
<1>1. /\ cmd.phase = "ended" /\ wstate' = state /\ revision' = NextRevision(changes)
      /\ records' = Append(records, r) /\ cmd' = NoCommand
      /\ evidence' = IF cmd.purpose = "validation" /\ ValidEvidence(state)
                     THEN evidence \cup {[exec |-> cmd.exec, tree |-> after]} ELSE evidence
      /\ dirs' = IF KeepsDiagnostics(state) THEN dirs ELSE dirs \ {cmd.exec}
    BY DEF Record
<1>2. cmd \in Finished
    BY <1>1, PhaseTells
<1>3. /\ cmd.exec \in Nat /\ cmd.purpose \in Purposes /\ cmd.res \in Results /\ cmd.before \in Trees
      /\ cand \in Trees /\ wstate \in WorkspaceStates /\ revision \in Nat
    BY <1>2 DEF Finished, CommandsTyped
<1>4. /\ state \in WorkspaceStates /\ state \in {wstate, "workspace_tainted", "recovery_required"}
      /\ cmd.res.started /\ ~cmd.res.stopped => state = "recovery_required"
    BY <1>3 DEF AfterAudit, WorkspaceStates
<1>5. changes \in SUBSET Files /\ after \in Trees
    BY <1>3 DEF CompareWorkspace, Changed
<1>6. \/ after = cmd.before /\ changes = {}
      \/ after = cand /\ changes = CompareWorkspace(cmd.before, after)
    OBVIOUS
<1> HIDE DEF changes, after, state, looked
<1>7. revision' \in {revision, revision + 1} /\ (changes # {} => revision' = revision + 1) /\ revision' \in Nat
    BY <1>1, <1>3 DEF NextRevision
<1>8. r \in Completions
    BY <1>3, <1>4, <1>5, <1>7 DEF Completions
<1>9. evidence' \subseteq evidence \cup {[exec |-> cmd.exec, tree |-> r.after]}
    BY <1>1
<1>10. \E c \in Completions :
           /\ records' = Append(records, c)
           /\ c.exec = cmd.exec /\ c.purpose = cmd.purpose /\ c.res = cmd.res
           /\ c.before = cmd.before /\ c.state = wstate' /\ c.revision = revision'
           /\ \/ c.after = c.before /\ c.changes = {}
              \/ c.after = cand /\ c.changes = CompareWorkspace(c.before, c.after)
           /\ c.changes # {} => revision' = revision + 1
           /\ evidence' \subseteq evidence \cup {[exec |-> cmd.exec, tree |-> c.after]}
    <2> WITNESS r \in Completions
    <2> QED BY <1>1, <1>6, <1>7, <1>9
<1> QED BY <1>1, <1>2, <1>4, <1>7, <1>10

\* Every step keeps the types.
LEMMA TypedNext ==
    ASSUME CommandsTyped, [CommandsNext]_commandVars
    PROVE  CommandsTyped'
<1> USE FsAssumption, RootIsAPath
<1>1. ASSUME NEW rs \in Requests, NEW purpose \in Purposes, Submit(rs, purpose)
      PROVE  CommandsTyped'
    BY <1>1, SubmitTyped DEF CommandsTyped, Submit
<1>2. CASE Approve
    <2>1. cmd \in Asking /\ cmd.phase = "waiting"
        BY <1>2, PhaseTells DEF Approve
    <2>2. cmd' \in Asking /\ approved' \subseteq Approvals
        BY <1>2, <2>1 DEF Approve, Asking, Approvals, CommandsTyped
    <2> QED BY <1>2, <2>2 DEF Approve, CommandsTyped
<1>3. CASE RefuseCommand
    BY <1>3 DEF RefuseCommand, CommandsTyped
<1>4. CASE Proceed
    <2>1. grants' \subseteq SavedGrants /\ cmd' \in {NoCommand} \cup Launching
        BY <1>4, ProceedTyped
    <2> QED BY <1>4, <2>1 DEF Proceed, CommandsTyped
<1>5. ASSUME NEW s, BwrapFails(s)
      PROVE  CommandsTyped'
    <2>1. Result(s, None, FALSE, TRUE) \in Results
        BY <1>5 DEF BwrapFails, Result, Results, Statuses
    <2>2. cmd' \in Finished
        BY <1>5, <2>1, PhaseTells, EndedTyped DEF BwrapFails
    <2> QED BY <1>5, <2>2 DEF BwrapFails, CommandsTyped
<1>6. ASSUME NEW e \in Writes, NEW exit \in {0, 1}, NEW marker \in BOOLEAN, BwrapCompletes(e, exit, marker)
      PROVE  CommandsTyped'
    <2>1. \E res \in Results : Ended(res)
        BY <1>6 DEF BwrapCompletes, Result, Results, Statuses
    <2>2. cmd' \in Finished /\ Runs(e) /\ cmd.phase = "launch"
        BY <1>6, <2>1, PhaseTells, EndedTyped DEF BwrapCompletes
    <2> QED BY <1>6, <2>2, RunsTyped DEF BwrapCompletes, CommandsTyped
<1>7. ASSUME NEW e \in Writes, NEW stopped \in BOOLEAN, BwrapTimesOut(e, stopped)
      PROVE  CommandsTyped'
    <2>1. cmd.phase = "launch" /\ Runs(e) /\ cmd \in Launching
        BY <1>7, PhaseTells DEF BwrapTimesOut
    <2>2. Result("execution_timed_out", None, TRUE, TRUE) \in Results
        BY DEF Result, Results, Statuses
    <2>3. cmd' \in Finished \cup Joining
        BY <1>7, <2>1, <2>2, EndedTyped, JoiningTyped DEF BwrapTimesOut
    <2> QED BY <1>7, <2>1, <2>3, RunsTyped DEF BwrapTimesOut, CommandsTyped
<1>8. CASE OutputEnds
    <2>1. Result("execution_timed_out", None, TRUE, FALSE) \in Results
        BY DEF Result, Results, Statuses
    <2>2. cmd' \in Finished
        BY <1>8, <2>1, PhaseTells, EndedTyped DEF OutputEnds
    <2> QED BY <1>8, <2>2 DEF OutputEnds, CommandsTyped
<1>9. CASE DockerFails
    <2>1. Result("sandbox_setup_failed", None, FALSE, TRUE) \in Results
        BY DEF Result, Results, Statuses
    <2>2. cmd' \in Finished
        BY <1>9, <2>1, PhaseTells, EndedTyped DEF DockerFails
    <2> QED BY <1>9, <2>2 DEF DockerFails, CommandsTyped
<1>10. ASSUME NEW e \in Writes, NEW exit \in {0, 1, None}, NEW marker \in BOOLEAN, NEW removed \in BOOLEAN,
              DockerCompletes(e, exit, marker, removed)
       PROVE  CommandsTyped'
    <2>1. \E res \in Results : Ended(res)
        BY <1>10 DEF DockerCompletes, Result, Results, Statuses
    <2>2. cmd' \in Finished /\ Runs(e) /\ cmd.phase = "launch"
        BY <1>10, <2>1, PhaseTells, EndedTyped DEF DockerCompletes
    <2> QED BY <1>10, <2>2, RunsTyped DEF DockerCompletes, CommandsTyped
<1>11. ASSUME NEW e \in Writes, NEW killed \in BOOLEAN, NEW client \in BOOLEAN, NEW removed \in BOOLEAN,
              DockerTimesOut(e, killed, client, removed)
       PROVE  CommandsTyped'
    <2>1. \E res \in Results : Ended(res)
        BY <1>11 DEF DockerTimesOut, Result, Results, Statuses
    <2>2. cmd' \in Finished /\ Runs(e) /\ cmd.phase = "launch"
        BY <1>11, <2>1, PhaseTells, EndedTyped DEF DockerTimesOut
    <2> QED BY <1>11, <2>2, RunsTyped DEF DockerTimesOut, CommandsTyped
<1>12. ASSUME NEW ok \in BOOLEAN, Record(ok)
       PROVE  CommandsTyped'
    <2>1. PICK r \in Completions : /\ records' = Append(records, r)
                                   /\ evidence' \subseteq evidence \cup {[exec |-> cmd.exec, tree |-> r.after]}
        BY <1>12, RecordTyped
    <2>2. cmd.exec \in Nat /\ r.after \in Trees
        BY <1>12, RecordTyped DEF Finished, Completions
    <2>3. records' \in Seq(Completions) /\ evidence' \subseteq [exec : Nat, tree : Trees]
        BY <2>1, <2>2 DEF CommandsTyped
    <2>4. revision' \in Nat /\ wstate' \in WorkspaceStates /\ cmd' = NoCommand
        BY <1>12, RecordTyped DEF CommandsTyped
    <2> QED BY <1>12, <2>3, <2>4 DEF Record, CommandsTyped
<1>13. ASSUME NEW p \in Paths, NEW new \in Objects, OutsideObject(p, new)
       PROVE  CommandsTyped'
    <2>1. new \in {None} \cup Identities
        BY CommandBounds DEF Objects, Identities
    <2>2. fs' \in [Paths -> {None} \cup Identities]
        BY <1>13, <2>1 DEF OutsideObject, CommandsTyped
    <2>3. ~Inside(<<>>, p)
        <3>1. p # <<>>
            BY <1>13 DEF OutsideObject
        <3>2. Len(<<>>) = 0 /\ Len(p) \in Nat
            BY PathFacts
        <3> QED BY <3>1, <3>2, SamePath, InsideByNames
    <2>4. fs'[<<>>] # None
        BY <1>13, <2>3 DEF OutsideObject, CommandsTyped
    <2> QED BY <1>13, <2>2, <2>4 DEF OutsideObject, CommandsTyped
<1>14. ASSUME NEW e \in Effects, OutsideEdit(e) \/ StragglerWrites(e)
       PROVE  CommandsTyped'
    <2>1. cand' \in Trees
        BY <1>14, WrittenTree DEF OutsideEdit, StragglerWrites, CommandsTyped, Writes
    <2> QED BY <1>14, <2>1 DEF OutsideEdit, StragglerWrites, CommandsTyped
<1>15. ASSUME NEW e \in Writes, CommandCrash(e)
       PROVE  CommandsTyped'
    <2>1. cand' \in Trees
        BY <1>15, WrittenTree DEF CommandCrash, CommandsTyped
    <2> QED BY <1>15, <2>1 DEF CommandCrash, CommandsTyped
<1>16. CASE UNCHANGED commandVars
    BY <1>16 DEF commandVars, CommandsTyped
<1> QED BY <1>1, <1>2, <1>3, <1>4, <1>5, <1>6, <1>7, <1>8, <1>9, <1>10, <1>11, <1>12, <1>13, <1>14, <1>15, <1>16
        DEF CommandsNext, Purposes

--------------------------------------------------------------------------------
(* The steps, as the rest of the invariant sees them                       *)

\* A step of one of the executors, up to the end of the command.
Executes ==
    /\ cmd.phase \in {"launch", "joining"} /\ cmd' \in Joining \cup Finished
    /\ cmd'.exec = cmd.exec /\ cmd'.before = cmd.before
    /\ live' \in {live, live \cup {cmd.exec}}
    /\ \A d \in HardDeny : fs'[d] # None => fs[d] # None
    /\ cmd'.phase = "ended" /\ cmd.phase = "launch" /\ cmd.exec \in live' \ live =>
           /\ cmd'.res.status # "completed"
           /\ \/ cmd'.res.started /\ ~cmd'.res.stopped
              \/ backend = "docker" /\ cmd'.res.status = "sandbox_setup_failed"
    /\ cmd'.phase = "ended" /\ cmd.phase = "joining" =>
           cmd'.res.status # "completed" /\ cmd'.res.started /\ ~cmd'.res.stopped
    /\ UNCHANGED <<backend, grants, wstate, revision, records, evidence, dirs, approved, crashed, counted>>

\* A change from outside, of a process that was not stopped, or none.
Disturbs ==
    /\ cmd.phase = "launch" => UNCHANGED <<fs, cand>>
    /\ \A d \in HardDeny : fs'[d] # None => fs[d] # None
    /\ counted'.commands = counted.commands
    /\ UNCHANGED <<backend, grants, wstate, revision, cmd, records, evidence, dirs, live, approved, crashed>>

\* The end of the Runtime in a call.
Dies ==
    /\ cmd.phase # "idle" /\ cmd' = NoCommand
    /\ crashed' = crashed \cup {cmd.exec}
    /\ live' \in {live, live \cup {cmd.exec}}
    /\ counted'.commands = counted.commands
    /\ UNCHANGED <<backend, fs, grants, wstate, revision, records, evidence, dirs, approved>>

\* An executor that ends the command.
LEMMA EndingExecutes ==
    ASSUME CommandsTyped, cmd.phase \in {"launch", "joining"}, NEW res \in Results, Ended(res),
           \A d \in HardDeny : fs'[d] # None => fs[d] # None,
           live' \in {live, live \cup {cmd.exec}},
           live' # live =>
               /\ res.status # "completed"
               /\ \/ res.started /\ ~res.stopped
                  \/ backend = "docker" /\ res.status = "sandbox_setup_failed",
           cmd.phase = "joining" => res.status # "completed" /\ res.started /\ ~res.stopped,
           UNCHANGED <<backend, grants, wstate, revision, records, evidence, dirs, approved, crashed, counted>>
    PROVE  Executes
<1>1. cmd \in Launching \cup Joining
    BY PhaseTells
<1>2. cmd' \in Finished
    BY <1>1, EndedTyped
<1>3. cmd'.exec = cmd.exec /\ cmd'.before = cmd.before /\ cmd'.res = res
    BY DEF Ended
<1> QED BY <1>2, <1>3 DEF Executes

\* Every step is one of these.
LEMMA Steps ==
    ASSUME CommandsTyped, [CommandsNext]_commandVars
    PROVE  \/ \E rs \in Requests, purpose \in Purposes : Submit(rs, purpose)
           \/ Approve \/ RefuseCommand \/ Proceed
           \/ Executes
           \/ \E ok \in BOOLEAN : Record(ok)
           \/ Disturbs \/ Dies
<1>1. HardDeny \subseteq Paths
    BY PathsAssumption
<1>2. ASSUME NEW s, BwrapFails(s)
      PROVE  Executes
    <2>1. Result(s, None, FALSE, TRUE) \in Results
        BY <1>2 DEF BwrapFails, Result, Results, Statuses
    <2> QED BY <1>2, <2>1, EndingExecutes DEF BwrapFails
<1>3. ASSUME NEW e \in Writes, NEW exit \in {0, 1}, NEW marker \in BOOLEAN, BwrapCompletes(e, exit, marker)
      PROVE  Executes
    <2>1. PICK res \in Results : Ended(res)
        BY <1>3 DEF BwrapCompletes, Result, Results, Statuses
    <2>2. \A d \in HardDeny : fs'[d] # None => fs[d] # None
        BY <1>1, <1>3, RunsTyped DEF BwrapCompletes
    <2> QED BY <1>3, <2>1, <2>2, EndingExecutes DEF BwrapCompletes
<1>4. ASSUME NEW e \in Writes, NEW stopped \in BOOLEAN, BwrapTimesOut(e, stopped)
      PROVE  Executes
    <2>1. /\ cmd.phase = "launch" /\ cmd \in Launching
          /\ UNCHANGED <<backend, grants, wstate, revision, records, evidence, dirs, approved, crashed, counted>>
        BY <1>4, PhaseTells DEF BwrapTimesOut
    <2>2. \A d \in HardDeny : fs'[d] # None => fs[d] # None
        BY <1>1, <1>4, RunsTyped DEF BwrapTimesOut
    <2>3. CASE stopped
        <3>1. Result("execution_timed_out", None, TRUE, TRUE) \in Results
            BY DEF Result, Results, Statuses
        <3> QED BY <1>4, <2>1, <2>2, <2>3, <3>1, EndingExecutes DEF BwrapTimesOut
    <2>4. CASE ~stopped
        <3>1. /\ cmd' = [phase |-> "joining", exec |-> cmd.exec, purpose |-> cmd.purpose,
                         before |-> cmd.before, revision |-> cmd.revision]
              /\ live' = live \cup {cmd.exec}
            BY <1>4, <2>4 DEF BwrapTimesOut
        <3>2. cmd' \in Joining
            BY <2>1, <3>1, JoiningTyped
        <3> QED BY <2>1, <2>2, <3>1, <3>2 DEF Executes
    <2> QED BY <2>3, <2>4
<1>5. CASE OutputEnds
    <2>1. Result("execution_timed_out", None, TRUE, FALSE) \in Results
        BY DEF Result, Results, Statuses
    <2>2. Result("execution_timed_out", None, TRUE, FALSE).status # "completed"
          /\ Result("execution_timed_out", None, TRUE, FALSE).started
          /\ ~Result("execution_timed_out", None, TRUE, FALSE).stopped
        BY DEF Result
    <2> QED BY <1>5, <2>1, <2>2, EndingExecutes DEF OutputEnds
<1>6. CASE DockerFails
    <2>1. Result("sandbox_setup_failed", None, FALSE, TRUE) \in Results
        BY DEF Result, Results, Statuses
    <2> QED BY <1>6, <2>1, EndingExecutes DEF DockerFails
<1>7. ASSUME NEW e \in Writes, NEW exit \in {0, 1, None}, NEW marker \in BOOLEAN, NEW removed \in BOOLEAN,
             DockerCompletes(e, exit, marker, removed)
      PROVE  Executes
    <2>1. PICK res \in Results : Ended(res)
        BY <1>7 DEF DockerCompletes, Result, Results, Statuses
    <2>2. \A d \in HardDeny : fs'[d] # None => fs[d] # None
        BY <1>1, <1>7, RunsTyped DEF DockerCompletes
    <2> QED BY <1>7, <2>1, <2>2, EndingExecutes DEF DockerCompletes
<1>8. ASSUME NEW e \in Writes, NEW killed \in BOOLEAN, NEW client \in BOOLEAN, NEW removed \in BOOLEAN,
             DockerTimesOut(e, killed, client, removed)
      PROVE  Executes
    <2> DEFINE res == Result(IF removed THEN "execution_timed_out" ELSE "sandbox_setup_failed", None, TRUE,
                             killed \/ client)
    <2>1. res \in Results /\ Ended(res) /\ res.status # "completed"
          /\ (~removed => res.status = "sandbox_setup_failed")
        BY <1>8 DEF DockerTimesOut, Result, Results, Statuses
    <2>2. \A d \in HardDeny : fs'[d] # None => fs[d] # None
        BY <1>1, <1>8, RunsTyped DEF DockerTimesOut
    <2>3. /\ backend = "docker" /\ cmd.phase = "launch"
          /\ live' = live \cup (IF killed \/ removed THEN {} ELSE {cmd.exec})
          /\ UNCHANGED <<backend, grants, wstate, revision, records, evidence, dirs, approved, crashed, counted>>
        BY <1>8 DEF DockerTimesOut
    <2>4. live' \in {live, live \cup {cmd.exec}} /\ (live' # live => ~removed)
        BY <2>3
    <2> HIDE DEF res
    <2> QED BY <2>1, <2>2, <2>3, <2>4, EndingExecutes
<1>9. ASSUME NEW p \in Paths, NEW new \in Objects, OutsideObject(p, new)
      PROVE  Disturbs
    <2>1. \A d \in HardDeny : fs'[d] # None => fs[d] # None
        BY <1>1, <1>9 DEF OutsideObject
    <2> QED BY <1>9, <2>1 DEF OutsideObject, Disturbs, CommandsTyped
<1>10. ASSUME NEW e \in Effects, OutsideEdit(e) \/ StragglerWrites(e)
       PROVE  Disturbs
    BY <1>10 DEF OutsideEdit, StragglerWrites, Disturbs, CommandsTyped
<1>11. ASSUME NEW e \in Writes, CommandCrash(e)
       PROVE  Dies
    BY <1>11 DEF CommandCrash, Dies, CommandsTyped
<1>12. CASE UNCHANGED commandVars
    BY <1>12 DEF commandVars, Disturbs
<1> QED BY <1>2, <1>3, <1>4, <1>5, <1>6, <1>7, <1>8, <1>9, <1>10, <1>11, <1>12 DEF CommandsNext, Purposes

--------------------------------------------------------------------------------
(* The numbers of the calls                                                *)

\* Every step keeps the numbering, and no call is in progress in a session in doubt.
LEMMA NumberedNext ==
    ASSUME CommandsTyped, CommandsTyped', CallsAreNumbered, CallsNeedTrust, [CommandsNext]_commandVars
    PROVE  CallsAreNumbered' /\ CallsNeedTrust'
<1> counted.commands \in 0..MaxCommands /\ MaxCommands \in Nat /\ records \in Seq(Completions) /\ revision \in Nat
    BY CommandBounds DEF CommandsTyped
<1> DEFINE n == counted.commands
<1>1. ASSUME NEW rs \in Requests, NEW purpose \in Purposes, Submit(rs, purpose)
      PROVE  CallsAreNumbered' /\ CallsNeedTrust'
    <2>1. /\ cmd.phase = "idle" /\ wstate \notin {"recovery_required", "workspace_tainted"}
          /\ UNCHANGED <<wstate, grants, records, evidence, dirs, live, crashed, revision>>
        BY <1>1 DEF Submit, SessionTakesCommands
    <2>2. /\ cmd'.exec = counted'.commands /\ counted'.commands = n + 1 /\ n + 1 \in 1..MaxCommands
          /\ cmd'.phase \in {"waiting", "granted"}
        BY <1>1, SubmitTyped
    <2>3. Past = 1..n /\ Past' = 1..n
        BY <2>1, <2>2 DEF Past, Underway
    <2>4. wstate = "changes_active"
        BY <2>1 DEF CommandsTyped, WorkspaceStates
    <2>5. CallsAreNumbered'
        BY <2>1, <2>2, <2>3 DEF CallsAreNumbered
    <2> QED BY <2>1, <2>4, <2>5 DEF CallsNeedTrust
<1>2. CASE Approve
    <2>1. /\ cmd.phase = "waiting" /\ cmd'.phase = "granted" /\ cmd'.exec = cmd.exec
          /\ UNCHANGED <<wstate, grants, records, evidence, dirs, live, crashed, revision, counted>>
        BY <1>2, PhaseTells DEF Approve, Asking
    <2> QED BY <2>1 DEF CallsAreNumbered, CallsNeedTrust, Past, Underway
<1>3. CASE RefuseCommand
    <2>1. /\ cmd.phase = "waiting" /\ cmd'.phase = "idle"
          /\ UNCHANGED <<wstate, grants, records, evidence, dirs, live, crashed, revision, counted>>
        BY <1>3 DEF RefuseCommand, NoCommand
    <2> QED BY <2>1 DEF CallsAreNumbered, CallsNeedTrust, Past, Underway
<1>4. CASE Proceed
    <2>1. /\ cmd.phase = "granted"
          /\ UNCHANGED <<wstate, records, evidence, live, crashed, revision, counted>>
        BY <1>4 DEF Proceed
    <2>2. \A g \in grants' : g \in grants \/ g.exec = cmd.exec
        BY <1>4, ProceedTyped DEF Grant
    <2>3. \/ cmd'.phase = "idle" /\ dirs' = dirs
          \/ cmd'.phase = "launch" /\ cmd'.exec = cmd.exec /\ dirs' = dirs \cup {cmd.exec}
        BY <1>4, ProceedTyped DEF NoCommand, Launching
    <2>4. cmd.exec = n /\ n \in 1..MaxCommands
        BY <2>1 DEF CallsAreNumbered
    <2>5. CASE cmd'.phase = "idle" /\ dirs' = dirs
        BY <2>1, <2>2, <2>4, <2>5 DEF CallsAreNumbered, CallsNeedTrust, Past, Underway
    <2>6. CASE cmd'.phase = "launch" /\ cmd'.exec = cmd.exec /\ dirs' = dirs \cup {cmd.exec}
        <3>1. /\ Past' = Past /\ Underway' = {n} /\ counted'.commands = n
              /\ cmd'.phase # "idle" /\ cmd.phase # "idle"
            BY <2>1, <2>6 DEF Past, Underway
        <3>2. live' \subseteq Past' /\ dirs' \subseteq Past' \cup {n} /\ crashed' \subseteq Past'
            BY <2>1, <2>4, <2>6, <3>1 DEF CallsAreNumbered
        <3>3. /\ \A i \in DOMAIN records' : records'[i].exec \in Past'
              /\ \A e \in evidence' : e.exec \in Past'
              /\ \A g \in grants' : g.exec \in 1..n
              /\ Len(records') <= n - 1 /\ revision' <= Len(records')
            BY <2>1, <2>2, <2>4, <3>1 DEF CallsAreNumbered
        <3>4. CallsAreNumbered'
            BY <2>4, <2>6, <3>1, <3>2, <3>3 DEF CallsAreNumbered
        <3> QED BY <2>1, <3>1, <3>4 DEF CallsNeedTrust
    <2> QED BY <2>3, <2>5, <2>6
<1>5. CASE Executes
    <2>1. /\ cmd.phase \in {"launch", "joining"} /\ cmd'.phase \in {"joining", "ended"} /\ cmd'.exec = cmd.exec
          /\ live' \subseteq live \cup {cmd.exec}
          /\ UNCHANGED <<wstate, grants, records, evidence, dirs, crashed, revision, counted>>
        BY <1>5 DEF Executes, Joining, Finished
    <2>2. /\ cmd.exec = n /\ n \in 1..MaxCommands /\ counted'.commands = n
          /\ Past' = Past /\ Underway = {n} /\ Underway' = {n} /\ cmd'.phase # "idle" /\ cmd.phase # "idle"
        BY <2>1 DEF CallsAreNumbered, Past, Underway
    <2>3. live' \subseteq Past' \cup {n} /\ dirs' \subseteq Past' \cup {n} /\ crashed' \subseteq Past'
        BY <2>1, <2>2 DEF CallsAreNumbered
    <2>4. /\ \A i \in DOMAIN records' : records'[i].exec \in Past'
          /\ \A e \in evidence' : e.exec \in Past'
          /\ \A g \in grants' : g.exec \in 1..n
          /\ Len(records') <= n - 1 /\ revision' <= Len(records')
        BY <2>1, <2>2 DEF CallsAreNumbered
    <2>5. CallsAreNumbered'
        BY <2>1, <2>2, <2>3, <2>4 DEF CallsAreNumbered
    <2> QED BY <2>1, <2>2, <2>5 DEF CallsNeedTrust
<1>6. ASSUME NEW ok \in BOOLEAN, Record(ok)
      PROVE  CallsAreNumbered' /\ CallsNeedTrust'
    <2>1. /\ cmd.phase = "ended" /\ cmd'.phase = "idle" /\ dirs' \subseteq dirs
          /\ revision' \in {revision, revision + 1}
          /\ UNCHANGED <<grants, live, crashed, counted>>
        BY <1>6, RecordTyped DEF Record, NoCommand
    <2>2. PICK r \in Completions :
              /\ records' = Append(records, r) /\ r.exec = cmd.exec
              /\ evidence' \subseteq evidence \cup {[exec |-> cmd.exec, tree |-> r.after]}
        BY <1>6, RecordTyped
    <2>3. cmd.exec = n /\ n \in 1..MaxCommands /\ Past = (1..n) \ {n} /\ Past' = 1..n
        BY <2>1 DEF CallsAreNumbered, Past, Underway
    <2>4. Len(records') = Len(records) + 1 /\ DOMAIN records' = 1..(Len(records) + 1)
        BY <2>2
    <2>5. \A i \in DOMAIN records' : records'[i].exec \in Past'
        <3> TAKE i \in DOMAIN records'
        <3>1. CASE i \in 1..Len(records)
            BY <2>2, <2>3, <3>1 DEF CallsAreNumbered
        <3>2. CASE i = Len(records) + 1
            BY <2>2, <2>3, <3>2
        <3> QED BY <2>4, <3>1, <3>2
    <2>6. \A e \in evidence' : e.exec \in Past'
        BY <2>2, <2>3 DEF CallsAreNumbered
    <2>7. /\ crashed' \subseteq Past' /\ dirs' \subseteq Past' /\ live' \subseteq Past'
          /\ \A g \in grants' : g.exec \in 1..n
        BY <2>1, <2>3 DEF CallsAreNumbered, Underway
    <2>8. Len(records') <= n /\ revision' <= Len(records')
        BY <2>1, <2>4 DEF CallsAreNumbered
    <2> QED BY <2>1, <2>5, <2>6, <2>7, <2>8 DEF CallsAreNumbered, CallsNeedTrust
<1>7. CASE Disturbs
    BY <1>7 DEF Disturbs, CallsAreNumbered, CallsNeedTrust, Past, Underway
<1>8. CASE Dies
    <2>1. /\ cmd.phase # "idle" /\ cmd'.phase = "idle" /\ crashed' = crashed \cup {cmd.exec}
          /\ live' \subseteq live \cup {cmd.exec} /\ counted'.commands = n
          /\ UNCHANGED <<wstate, grants, records, evidence, dirs, revision>>
        BY <1>8 DEF Dies, NoCommand
    <2>2. cmd.exec = n /\ n \in 1..MaxCommands /\ Past = (1..n) \ {n} /\ Past' = 1..n
        BY <2>1 DEF CallsAreNumbered, Past, Underway
    <2>3. live' \subseteq Past' /\ dirs' \subseteq Past' /\ crashed' \subseteq Past'
        <3>1. Underway = {n}
            BY <2>1 DEF Underway
        <3>2. live \subseteq Past \cup {n} /\ dirs \subseteq Past \cup {n} /\ crashed \subseteq Past
            BY <3>1 DEF CallsAreNumbered
        <3>3. Past \cup {n} = Past'
            BY <2>2
        <3> QED BY ONLY <2>1, <2>2, <3>2, <3>3
    <2>4. /\ \A i \in DOMAIN records' : records'[i].exec \in Past'
          /\ \A e \in evidence' : e.exec \in Past'
          /\ \A g \in grants' : g.exec \in 1..n
          /\ Len(records') <= n /\ revision' <= Len(records')
        BY <2>1, <2>2 DEF CallsAreNumbered
    <2>5. CallsAreNumbered'
        BY <2>1, <2>3, <2>4 DEF CallsAreNumbered
    <2> QED BY <2>1, <2>5 DEF CallsNeedTrust
<1> QED BY <1>1, <1>2, <1>3, <1>4, <1>5, <1>6, <1>7, <1>8, Steps

--------------------------------------------------------------------------------
(* Grants                                                                  *)

\* What the policy answers for a request that is not denied.
LEMMA EvaluateIsSound ==
    ASSUME CommandsTyped, GrantsAreSound, NEW q \in Queries,
           q.req.capability # "network" => \A d \in HardDeny : fs[d] # None => ~Overlap(q.path, d),
           Evaluate(q) # "deny"
    PROVE  /\ Permissible(q.req.capability, q.path)
           /\ Evaluate(q) # "ask" => Allowed(q.req.capability, q.path)
<1>1. /\ q.req.capability \in {"read", "write", "network"}
      /\ q.req.capability # "network" => q.path \in Paths
      /\ q.req.capability = "network" => q.path = None
      /\ {Candidate, Source, Cache} \cup GitPaths \cup HardDeny \subseteq Paths /\ None \notin Paths
    BY PathsAssumption DEF Queries, PermissionRequests
<1>2. CASE q.req.capability = "network"
    <2>1. Permissible(q.req.capability, q.path)
        BY <1>2 DEF Permissible
    <2>2. ASSUME Evaluate(q) # "ask"
          PROVE  Allowed(q.req.capability, q.path)
        <3>1. Covered(q)
            BY <1>2, <2>2 DEF Evaluate
        <3>2. PICK g \in grants : g.capability = "network"
            BY <1>1, <1>2, <3>1 DEF Covered
        <3>3. Allowed(g.capability, g.path)
            BY DEF GrantsAreSound
        <3> QED BY <1>2, <3>2, <3>3 DEF Allowed
    <2> QED BY <2>1, <2>2
<1>3. CASE q.req.capability = "read"
    BY <1>3 DEF Permissible, Allowed
<1>4. CASE q.req.capability = "write" /\ Covered(q)
    <2>1. PICK g \in grants : g.capability = "write" /\ Inside(q.path, g.path)
        BY <1>4 DEF Covered
    <2>2. g.path \in Paths /\ Permissible("write", g.path) /\ Allowed("write", g.path)
        BY <2>1 DEF GrantsAreSound, CommandsTyped, SavedGrants
    <2>3. ~Overlap(q.path, Source) /\ \A x \in GitPaths : ~Overlap(q.path, x)
        BY <1>1, <1>4, <2>1, <2>2, ApartBelow DEF Permissible
    <2>4. \/ Inside(q.path, Candidate) \/ Inside(q.path, Cache)
          \/ ForTheSession("write", q.path)
        <3>1. CASE Inside(g.path, Candidate) \/ Inside(g.path, Cache)
            BY <1>1, <1>4, <2>1, <2>2, <3>1, InsideTransitive
        <3>2. CASE ForTheSession("write", g.path)
            <4>1. PICK a \in approved : /\ a.q.req.capability = "write" /\ a.q.req.scope = "session"
                                        /\ Inside(g.path, a.q.path)
                BY <3>2 DEF ForTheSession
            <4>2. a.q.path \in Paths
                BY <4>1 DEF CommandsTyped, Approvals, Queries
            <4>3. Inside(q.path, a.q.path)
                BY <1>1, <1>4, <2>1, <2>2, <4>1, <4>2, InsideTransitive
            <4> QED BY <4>1, <4>3 DEF ForTheSession
        <3> QED BY <2>2, <3>1, <3>2 DEF Allowed
    <2> QED BY <1>4, <2>3, <2>4 DEF Permissible, Allowed
<1>5. CASE q.req.capability = "write" /\ ~Covered(q)
    <2>1. ~Inside(q.path, Source) /\ \A g \in GitPaths : ~Overlap(q.path, g)
        BY <1>5 DEF Evaluate
    <2>2. ~Overlap(q.path, Source)
        BY <1>1, <1>5, <2>1, ApartFromTheSource
    <2>3. Evaluate(q) # "ask" => Inside(q.path, Candidate) \/ Inside(q.path, Cache)
        BY <1>5 DEF Evaluate
    <2> QED BY <1>5, <2>1, <2>2, <2>3 DEF Permissible, Allowed
<1> QED BY <1>1, <1>2, <1>3, <1>4, <1>5

\* What was allowed stays allowed while approvals are only added and denied paths only vanish.
LEMMA AllowedStays ==
    ASSUME approved \subseteq approved', \A d \in HardDeny : fs'[d] # None => fs[d] # None,
           NEW c, NEW p
    PROVE  /\ Permissible(c, p) => Permissible(c, p)'
           /\ Allowed(c, p) => Allowed(c, p)'
<1>1. Permissible(c, p) => Permissible(c, p)'
    BY DEF Permissible
<1>2. ForTheSession("network", None) => ForTheSession("network", None)'
    BY DEF ForTheSession
<1>3. ForTheSession("write", p) => ForTheSession("write", p)'
    BY DEF ForTheSession
<1> QED BY <1>1, <1>2, <1>3 DEF Allowed

\* Approvals are only ever added, and a denied path does not appear.
LEMMA ApprovalsOnlyGrow ==
    ASSUME CommandsTyped, [CommandsNext]_commandVars
    PROVE  approved \subseteq approved' /\ \A d \in HardDeny : fs'[d] # None => fs[d] # None
<1>1. ASSUME NEW rs \in Requests, NEW purpose \in Purposes, Submit(rs, purpose)
      PROVE  UNCHANGED <<approved, fs>>
    BY <1>1 DEF Submit
<1>2. ASSUME Approve \/ RefuseCommand \/ Proceed
      PROVE  approved \subseteq approved' /\ UNCHANGED fs
    BY <1>2 DEF Approve, RefuseCommand, Proceed
<1>3. ASSUME NEW ok \in BOOLEAN, Record(ok)
      PROVE  UNCHANGED <<approved, fs>>
    BY <1>3 DEF Record
<1> QED BY <1>1, <1>2, <1>3, Steps DEF Executes, Disturbs, Dies

\* Every step keeps what is granted, asked for and given to commands within the policy.
LEMMA GrantsNext ==
    ASSUME CommandsTyped, CommandsTyped', CallsAreNumbered, GrantsAreSound, CallIsSound, PolicyIsSound,
           [CommandsNext]_commandVars
    PROVE  GrantsAreSound' /\ CallIsSound' /\ PolicyIsSound'
<1>1. approved \subseteq approved' /\ \A d \in HardDeny : fs'[d] # None => fs[d] # None
    BY ApprovalsOnlyGrow
<1>2. \A c, p : (Permissible(c, p) => Permissible(c, p)') /\ (Allowed(c, p) => Allowed(c, p)')
    BY <1>1, AllowedStays
<1>3. ASSUME grants' = grants
      PROVE  GrantsAreSound'
    BY <1>2, <1>3 DEF GrantsAreSound
<1>4. ASSUME NEW rs \in Requests, NEW purpose \in Purposes, Submit(rs, purpose)
      PROVE  GrantsAreSound' /\ CallIsSound' /\ PolicyIsSound'
    <2>1. UNCHANGED <<fs, grants, approved>>
        BY <1>4 DEF Submit
    <2>2. /\ cmd'.qs = {Parse(fs, r) : r \in rs} /\ cmd'.asks = {q \in cmd'.qs : Evaluate(q) = "ask"}
          /\ cmd'.phase = IF cmd'.asks = {} THEN "granted" ELSE "waiting"
          /\ \A q \in cmd'.qs : q # None /\ Evaluate(q) # "deny"
        BY <1>4, SubmitTyped
    <2>3. ASSUME NEW q \in cmd'.qs
          PROVE  /\ Permissible(q.req.capability, q.path)
                 /\ Evaluate(q) # "ask" => Allowed(q.req.capability, q.path)
        <3>1. PICK r \in rs : q = Parse(fs, r)
            BY <2>2, <2>3
        <3>2. r \in PermissionRequests /\ Parse(fs, r) # None /\ Evaluate(q) # "deny"
            BY <2>2, <3>1, RequestsAssumption
        <3>3. /\ q \in Queries
              /\ q.req.capability # "network" => \A d \in HardDeny : fs[d] # None => ~Overlap(q.path, d)
            BY <3>1, <3>2, ParsedRequest DEF CommandsTyped
        <3> QED BY <3>2, <3>3, EvaluateIsSound
    <2>4. CallIsSound'
        BY <1>2, <2>2, <2>3 DEF CallIsSound
    <2>5. PolicyIsSound'
        BY <2>2 DEF PolicyIsSound
    <2> QED BY <1>3, <2>1, <2>4, <2>5
<1>5. CASE Approve
    <2>1. /\ cmd.phase = "waiting" /\ cmd'.phase = "granted" /\ cmd'.asks = cmd.asks /\ cmd'.qs = cmd.qs
          /\ cmd'.exec = cmd.exec /\ grants' = grants
          /\ approved' = approved \cup {[exec |-> cmd.exec, q |-> q] : q \in cmd.asks}
        BY <1>5, PhaseTells DEF Approve, Asking
    <2>2. CallIsSound'
        BY <1>2, <2>1 DEF CallIsSound
    <2> QED BY <1>3, <2>1, <2>2 DEF PolicyIsSound
<1>6. CASE RefuseCommand
    BY <1>3, <1>6 DEF RefuseCommand, NoCommand, CallIsSound, PolicyIsSound
<1>7. CASE Proceed
    <2> DEFINE saved == grants \cup {Grant(q, cmd.exec) : q \in SessionGrants}
               once  == {Grant(q, cmd.exec) : q \in {p \in cmd.qs : p.req.scope = "once"}}
    <2>1. /\ cmd \in Asking /\ cmd.phase = "granted" /\ UNCHANGED <<approved, fs>>
          /\ saved \in SUBSET SavedGrants /\ once \in SUBSET SavedGrants /\ grants' = saved
          /\ \/ cmd' = NoCommand
             \/ /\ cmd' \in Launching /\ cmd'.exec = cmd.exec
                /\ cmd'.policy = Effective(saved, once)
        BY <1>7, ProceedTyped DEF Proceed
    <2>2. ASSUME NEW q \in cmd.qs
          PROVE  /\ q \in Queries /\ Permissible(q.req.capability, q.path)
                 /\ \/ Allowed(q.req.capability, q.path)
                    \/ [exec |-> cmd.exec, q |-> q] \in approved
        BY <2>1 DEF CallIsSound, Asking
    <2>3. ASSUME NEW q \in SessionGrants
          PROVE  Allowed(q.req.capability, q.path) /\ Permissible(q.req.capability, q.path)
        <3>1. q \in cmd.qs /\ q.req.scope = "session"
            BY DEF SessionGrants
        <3>2. ASSUME [exec |-> cmd.exec, q |-> q] \in approved
              PROVE  Allowed(q.req.capability, q.path)
            <4>1. q.req.capability \in {"read", "write", "network"}
                  /\ (q.req.capability # "network" => q.path \in Paths)
                BY <2>2, <3>1 DEF Queries, PermissionRequests
            <4>2. q.req.capability # "network" => Inside(q.path, q.path)
                BY <4>1, InsideItself
            <4>3. q.req.capability = "network" => ForTheSession("network", None)
                BY <3>1, <3>2 DEF ForTheSession
            <4>4. q.req.capability = "write" => ForTheSession("write", q.path)
                BY <3>1, <3>2, <4>2 DEF ForTheSession
            <4> QED BY <4>1, <4>3, <4>4 DEF Allowed
        <3> QED BY <2>2, <3>1, <3>2
    <2>4. GrantsAreSound'
        <3> SUFFICES ASSUME NEW g \in saved
                     PROVE  Permissible(g.capability, g.path) /\ Allowed(g.capability, g.path)
            BY <1>2, <2>1 DEF GrantsAreSound
        <3>1. CASE g \in grants
            BY <3>1 DEF GrantsAreSound
        <3>2. ASSUME NEW q \in SessionGrants, g = Grant(q, cmd.exec)
              PROVE  Permissible(g.capability, g.path) /\ Allowed(g.capability, g.path)
            <4>1. g.capability = q.req.capability /\ g.path = q.path
                BY <3>2 DEF Grant
            <4> QED BY <2>3, <4>1
        <3> QED BY <3>1, <3>2
    <2>5. CallIsSound'
        BY <2>1 DEF CallIsSound, NoCommand, Launching
    <2>6. CASE cmd' = NoCommand
        BY <2>4, <2>5, <2>6 DEF PolicyIsSound, NoCommand
    <2>7. CASE cmd' \in Launching /\ cmd'.exec = cmd.exec /\ cmd'.policy = Effective(saved, once)
        <3>1. ASSUME NEW g \in saved \cup once
              PROVE  /\ Permissible(g.capability, g.path)
                     /\ \/ Allowed(g.capability, g.path)
                        \/ \E q \in cmd.qs : /\ [exec |-> cmd.exec, q |-> q] \in approved
                                             /\ q.req.capability = g.capability /\ q.path = g.path
            <4>1. CASE g \in grants
                BY <4>1 DEF GrantsAreSound
            <4>2. ASSUME NEW q \in cmd.qs, g = Grant(q, cmd.exec)
                  PROVE  /\ Permissible(g.capability, g.path)
                         /\ \/ Allowed(g.capability, g.path)
                            \/ [exec |-> cmd.exec, q |-> q] \in approved
                  /\ q.req.capability = g.capability /\ q.path = g.path
                <5>1. g.capability = q.req.capability /\ g.path = q.path
                    BY <4>2 DEF Grant
                <5> QED BY <2>2, <5>1
            <4>3. \/ g \in grants \/ \E q \in cmd.qs : g = Grant(q, cmd.exec)
                BY DEF SessionGrants
            <4> QED BY <4>1, <4>2, <4>3
        <3>2. ASSUME NEW g \in saved \cup once, g.capability = "write"
              PROVE  (Inside(g.path, Candidate) \/ Inside(g.path, Cache) \/ UserAllowed("write", g.path))'
            <4>1. g.path \in Paths
                BY <2>1, <3>2 DEF SavedGrants
            <4>2. CASE Allowed(g.capability, g.path)
                <5>1. \/ Inside(g.path, Candidate) \/ Inside(g.path, Cache)
                      \/ \E a \in approved : /\ a.q.req.capability = "write" /\ a.q.req.scope = "session"
                                             /\ Inside(g.path, a.q.path)
                    BY <3>2, <4>2 DEF Allowed, ForTheSession
                <5> QED BY <2>1, <5>1 DEF UserAllowed
            <4>3. ASSUME NEW q \in cmd.qs, [exec |-> cmd.exec, q |-> q] \in approved,
                         q.req.capability = g.capability, q.path = g.path
                  PROVE  UserAllowed("write", g.path)'
                <5>1. Inside(g.path, g.path)
                    BY <4>1, InsideItself
                <5> QED BY <2>1, <2>7, <3>2, <4>3, <5>1 DEF UserAllowed
            <4> QED BY <3>1, <4>2, <4>3
        <3>3. ASSUME NEW g \in saved \cup once, g.capability = "network"
              PROVE  UserAllowed("network", None)'
            <4>1. CASE Allowed(g.capability, g.path)
                <5>1. \E a \in approved : a.q.req.capability = "network" /\ a.q.req.scope = "session"
                    BY <3>3, <4>1 DEF Allowed, ForTheSession
                <5> QED BY <2>1, <5>1 DEF UserAllowed
            <4>2. ASSUME NEW q \in cmd.qs, [exec |-> cmd.exec, q |-> q] \in approved,
                         q.req.capability = g.capability
                  PROVE  UserAllowed("network", None)'
                BY <2>1, <2>7, <3>3, <4>2 DEF UserAllowed
            <4> QED BY <3>1, <4>1, <4>2
        <3> HIDE DEF saved, once
        <3>4. /\ cmd'.policy.network => \E g \in saved \cup once : g.capability = "network"
              /\ \A p \in cmd'.policy.writes : \E g \in saved \cup once : g.capability = "write" /\ g.path = p
              /\ \A p \in cmd'.policy.reads : \E g \in saved \cup once : g.capability = "read" /\ g.path = p
            <4> DEFINE ep == Effective(saved, once)
            <4>1. /\ ep.network => \E g \in saved \cup once : g.capability = "network"
                  /\ \A p \in ep.writes : \E g \in saved \cup once : g.capability = "write" /\ g.path = p
                  /\ \A p \in ep.reads : \E g \in saved \cup once : g.capability = "read" /\ g.path = p
                BY DEF Effective
            <4>2. cmd'.policy = ep
                BY <2>7
            <4> HIDE DEF ep
            <4> QED BY ONLY <4>1, <4>2
        <3>5. PolicyIsSound'
            <4>1. ASSUME NEW p \in cmd'.policy.writes
                  PROVE  (Permissible("write", p) /\ (Inside(p, Candidate) \/ Inside(p, Cache) \/ UserAllowed("write", p)))'
                BY <1>2, <3>1, <3>2, <3>4
            <4>2. ASSUME NEW p \in cmd'.policy.reads
                  PROVE  Permissible("read", p)'
                BY <1>2, <3>1, <3>4
            <4> QED BY <3>3, <3>4, <4>1, <4>2 DEF PolicyIsSound
        <3> QED BY <2>4, <2>5, <3>5
    <2> QED BY <2>1, <2>6, <2>7
<1>8. CASE Executes
    <2>1. grants' = grants /\ cmd'.phase \in {"joining", "ended"}
        BY <1>8 DEF Executes, Joining, Finished
    <2> QED BY <1>3, <2>1 DEF CallIsSound, PolicyIsSound
<1>9. ASSUME NEW ok \in BOOLEAN, Record(ok)
      PROVE  GrantsAreSound' /\ CallIsSound' /\ PolicyIsSound'
    BY <1>3, <1>9 DEF Record, NoCommand, CallIsSound, PolicyIsSound
<1>10. CASE Disturbs
    <2>1. UNCHANGED <<grants, cmd, approved>>
        BY <1>10 DEF Disturbs
    <2>2. CallIsSound'
        BY <1>2, <2>1 DEF CallIsSound
    <2>3. PolicyIsSound'
        BY <1>2, <2>1 DEF PolicyIsSound, UserAllowed
    <2> QED BY <1>3, <2>1, <2>2, <2>3
<1>11. CASE Dies
    BY <1>3, <1>11 DEF Dies, NoCommand, CallIsSound, PolicyIsSound
<1> QED BY <1>4, <1>5, <1>6, <1>7, <1>8, <1>9, <1>10, <1>11, Steps

--------------------------------------------------------------------------------
(* The recheck, and approvals for the session                              *)

\* Every step keeps a started command on what it was shown for.
LEMMA LaunchedNext ==
    ASSUME CommandsTyped, CommandsTyped', LaunchedAsShown, [CommandsNext]_commandVars
    PROVE  LaunchedAsShown'
<1>1. ASSUME NEW rs \in Requests, NEW purpose \in Purposes, Submit(rs, purpose)
      PROVE  cmd'.phase # "launch"
    BY <1>1, SubmitTyped
<1>2. ASSUME Approve \/ RefuseCommand \/ Executes \/ Dies
      PROVE  cmd'.phase # "launch"
    BY <1>2, PhaseTells DEF Approve, RefuseCommand, Executes, Dies, NoCommand, Joining, Finished, Asking
<1>3. ASSUME NEW ok \in BOOLEAN, Record(ok)
      PROVE  cmd'.phase # "launch"
    BY <1>3 DEF Record, NoCommand
<1>4. CASE Proceed
    <2>1. CASE cmd' = NoCommand
        BY <2>1 DEF NoCommand, LaunchedAsShown
    <2>2. CASE cmd' # NoCommand
        <3>1. /\ StillCurrent /\ cmd'.qs = cmd.qs /\ cmd'.before = cmd.before /\ UNCHANGED <<fs, cand>>
              /\ cmd.qs \subseteq Queries
            BY <1>4, <2>2, ProceedTyped DEF Proceed, Asking
        <3>2. cand = cmd.before
            BY <3>1 DEF StillCurrent
        <3>3. ASSUME NEW q \in cmd.qs, q.path # None
              PROVE  /\ fs[q.path] = q.ident
                     /\ \A p \in Paths : Inside(q.req.resource, p) /\ Inside(p, q.path) /\ p # q.path
                                             => fs[p] = None
            <4>1. q.req.resource \in Paths
                BY <3>1, <3>3 DEF Queries, PermissionRequests
            <4>2. Existing(fs, q.req.resource) = q.path /\ fs[q.path] = q.ident
                BY <3>1, <3>3 DEF StillCurrent, SameObject
            <4>3. fs \in [Paths -> {None} \cup Identities] /\ fs[<<>>] # None
                BY DEF CommandsTyped
            <4>4. \A r \in Paths : Inside(q.req.resource, r) /\ Inside(r, Existing(fs, q.req.resource))
                                       /\ r # Existing(fs, q.req.resource) => fs[r] = None
                BY <4>1, <4>3, ExistingIsLongest
            <4> QED BY <4>2, <4>4
        <3> QED BY <3>1, <3>2, <3>3 DEF LaunchedAsShown
    <2> QED BY <2>1, <2>2
<1>5. CASE Disturbs
    BY <1>5 DEF Disturbs, LaunchedAsShown
<1> QED BY <1>1, <1>2, <1>3, <1>4, <1>5, Steps DEF LaunchedAsShown

\* A request that a saved grant of the session names again is covered, unless the object is another.
LEMMA SavedIsCovered ==
    ASSUME NEW q \in Queries, NEW b \in Queries, NEW n, Grant(b, n) \in grants,
           b.req.capability = q.req.capability, b.path = q.path,
           q.path # None => b.ident.inode = q.ident.inode
    PROVE  Covered(q)
<1> DEFINE g == Grant(b, n)
<1>1. g.capability = q.req.capability /\ g.path = q.path /\ g.ident = b.ident /\ g \in grants
    BY DEF Grant
<1>2. q.req.capability = "network" \/ (q.path \in Paths /\ q.path # None)
    BY PathsAssumption DEF Queries
<1>3. CASE q.req.capability = "network"
    BY <1>1, <1>3 DEF Covered
<1>4. CASE q.path \in Paths /\ q.path # None
    <2>1. Inside(q.path, g.path)
        BY <1>1, <1>4, InsideItself
    <2> HIDE DEF g
    <2> QED BY <1>1, <1>4, <2>1 DEF Covered
<1> QED BY <1>2, <1>3, <1>4

\* Every step saves what was approved for the session, and asks for nothing twice.
LEMMA ApprovalsNext ==
    ASSUME CommandsTyped, CommandsTyped', CallIsSound, ApprovalsAreSaved, ApprovedIsNotAskedAgain,
           [CommandsNext]_commandVars
    PROVE  ApprovalsAreSaved' /\ ApprovedIsNotAskedAgain'
<1>1. ASSUME NEW rs \in Requests, NEW purpose \in Purposes, Submit(rs, purpose)
      PROVE  ApprovalsAreSaved' /\ ApprovedIsNotAskedAgain'
    <2>1. cmd.phase = "idle" /\ UNCHANGED <<grants, approved, crashed>>
        BY <1>1 DEF Submit
    <2>2. cmd'.asks = {q \in cmd'.qs : Evaluate(q) = "ask"} /\ cmd'.asks \subseteq Queries
        BY <1>1, SubmitTyped DEF Asking
    <2>3. \A a \in approved : a.q.req.scope = "session" /\ a.exec \notin crashed => Grant(a.q, a.exec) \in grants
        BY <2>1 DEF ApprovalsAreSaved
    <2>4. ASSUME NEW q \in cmd'.asks, NEW a \in approved,
                 a.q.req.scope = "session", a.q.req.capability = q.req.capability, a.q.path = q.path,
                 a.exec \notin crashed
          PROVE  q.path # None /\ a.q.ident.inode # q.ident.inode
        <3>1. ~Covered(q)
            BY <2>2, <2>4 DEF Evaluate
        <3>2. a.q \in Queries /\ q \in Queries
            BY <2>2, <2>4 DEF CommandsTyped, Approvals
        <3>3. Grant(a.q, a.exec) \in grants
            BY <2>3, <2>4
        <3>4. ~(q.path # None => a.q.ident.inode = q.ident.inode)
            BY <2>4, <3>1, <3>2, <3>3, SavedIsCovered
        <3> QED BY <3>4
    <2> QED BY <2>1, <2>3, <2>4 DEF ApprovalsAreSaved, ApprovedIsNotAskedAgain
<1>2. CASE Approve
    <2>1. /\ cmd.phase = "waiting" /\ cmd'.phase = "granted" /\ cmd'.exec = cmd.exec /\ cmd'.qs = cmd.qs
          /\ approved' = approved \cup {[exec |-> cmd.exec, q |-> q] : q \in cmd.asks}
          /\ UNCHANGED <<grants, crashed>>
        BY <1>2, PhaseTells DEF Approve, Asking
    <2>2. cmd.asks \subseteq cmd.qs
        BY <2>1 DEF CallIsSound
    <2>3. ASSUME NEW a \in approved', a.q.req.scope = "session", a.exec \notin crashed'
          PROVE  Grant(a.q, a.exec) \in grants' \/ (cmd'.phase = "granted" /\ a.exec = cmd'.exec /\ a.q \in cmd'.qs)
        <3>1. CASE a \in approved
            BY <2>1, <2>3, <3>1 DEF ApprovalsAreSaved
        <3>2. CASE \E q \in cmd.asks : a = [exec |-> cmd.exec, q |-> q]
            BY <2>1, <2>2, <3>2
        <3> QED BY <2>1, <3>1, <3>2
    <2> QED BY <2>1, <2>3 DEF ApprovalsAreSaved, ApprovedIsNotAskedAgain
<1>3. CASE RefuseCommand
    BY <1>3 DEF RefuseCommand, NoCommand, ApprovalsAreSaved, ApprovedIsNotAskedAgain
<1>4. CASE Proceed
    <2>1. /\ cmd.phase = "granted" /\ cmd'.phase \in {"idle", "launch"} /\ UNCHANGED <<approved, crashed>>
          /\ grants' = grants \cup {Grant(q, cmd.exec) : q \in SessionGrants}
        BY <1>4, ProceedTyped DEF Proceed, NoCommand, Launching
    <2>2. ASSUME NEW a \in approved, a.q.req.scope = "session", a.exec \notin crashed
          PROVE  Grant(a.q, a.exec) \in grants'
        BY <2>1, <2>2 DEF ApprovalsAreSaved, SessionGrants
    <2> QED BY <2>1, <2>2 DEF ApprovalsAreSaved, ApprovedIsNotAskedAgain
<1>5. CASE Executes
    <2>1. cmd.phase \in {"launch", "joining"} /\ cmd'.phase \in {"joining", "ended"} /\ UNCHANGED <<grants, approved, crashed>>
        BY <1>5 DEF Executes, Joining, Finished
    <2> QED BY <2>1 DEF ApprovalsAreSaved, ApprovedIsNotAskedAgain
<1>6. ASSUME NEW ok \in BOOLEAN, Record(ok)
      PROVE  ApprovalsAreSaved' /\ ApprovedIsNotAskedAgain'
    <2>1. cmd.phase = "ended" /\ cmd'.phase = "idle" /\ UNCHANGED <<grants, approved, crashed>>
        BY <1>6 DEF Record, NoCommand
    <2> QED BY <2>1 DEF ApprovalsAreSaved, ApprovedIsNotAskedAgain
<1>7. CASE Disturbs
    BY <1>7 DEF Disturbs, ApprovalsAreSaved, ApprovedIsNotAskedAgain
<1>8. CASE Dies
    <2>1. cmd'.phase = "idle" /\ crashed' = crashed \cup {cmd.exec} /\ UNCHANGED <<grants, approved>>
        BY <1>8 DEF Dies, NoCommand
    <2> QED BY <2>1 DEF ApprovalsAreSaved, ApprovedIsNotAskedAgain
<1> QED BY <1>1, <1>2, <1>3, <1>4, <1>5, <1>6, <1>7, <1>8, Steps

--------------------------------------------------------------------------------
(* Processes that were not stopped                                         *)

\* Every step reports what is left running, and closes the session to it.
LEMMA StragglersNext ==
    ASSUME CommandsTyped, CommandsTyped', CallsAreNumbered, CallsAreNumbered', CallsNeedTrust,
           StragglersAreReported, StragglersCloseTheSession, [CommandsNext]_commandVars
    PROVE  StragglersAreReported' /\ StragglersCloseTheSession'
<1> records \in Seq(Completions)
    BY DEF CommandsTyped
\* A step that leaves the call, the records and the processes as they are, or opens a call.
<1>1. ASSUME UNCHANGED <<backend, wstate, records, live, crashed>>,
             cmd'.phase # "ended",
             cmd.phase = "idle" \/ cmd.exec \notin live \/ (cmd'.phase # "idle" /\ cmd'.exec = cmd.exec)
      PROVE  StragglersAreReported' /\ StragglersCloseTheSession'
    BY <1>1 DEF StragglersAreReported, StragglersCloseTheSession
<1>2. ASSUME NEW rs \in Requests, NEW purpose \in Purposes, Submit(rs, purpose)
      PROVE  StragglersAreReported' /\ StragglersCloseTheSession'
    <2>1. cmd.phase = "idle" /\ UNCHANGED <<backend, wstate, records, live, crashed>>
        BY <1>2 DEF Submit
    <2>2. cmd'.phase # "ended"
        BY <1>2, SubmitTyped
    <2> QED BY <1>1, <2>1, <2>2
<1>3. ASSUME cmd.phase \in {"waiting", "granted", "launch"}
      PROVE  cmd.exec \notin live
    BY <1>3 DEF CallsAreNumbered, Past, Underway
<1>4. CASE Approve \/ RefuseCommand
    <2>1. /\ cmd.phase = "waiting" /\ cmd'.phase # "ended"
          /\ UNCHANGED <<backend, wstate, records, live, crashed>>
        BY <1>4, PhaseTells DEF Approve, RefuseCommand, NoCommand, Asking
    <2> QED BY <1>1, <1>3, <2>1
<1>5. CASE Proceed
    <2>1. /\ cmd.phase = "granted" /\ cmd'.phase # "ended"
          /\ UNCHANGED <<backend, wstate, records, live, crashed>>
        BY <1>5, ProceedTyped DEF Proceed, NoCommand, Launching
    <2> QED BY <1>1, <1>3, <2>1
<1>6. CASE Executes
    <2>1. /\ cmd'.exec = cmd.exec /\ cmd'.phase \in {"joining", "ended"} /\ cmd.phase \in {"launch", "joining"}
          /\ live' \in {live, live \cup {cmd.exec}} /\ UNCHANGED <<backend, wstate, records, crashed>>
        BY <1>6 DEF Executes, Joining, Finished
    <2>2. StragglersAreReported'
        BY <1>3, <1>6, <2>1 DEF Executes, StragglersAreReported
    <2>3. StragglersCloseTheSession'
        BY <2>1 DEF StragglersCloseTheSession
    <2> QED BY <2>2, <2>3
<1>7. ASSUME NEW ok \in BOOLEAN, Record(ok)
      PROVE  StragglersAreReported' /\ StragglersCloseTheSession'
    <2>1. /\ cmd.phase = "ended" /\ cmd'.phase = "idle" /\ UNCHANGED <<backend, live, crashed>>
          /\ cmd.res.started /\ ~cmd.res.stopped => wstate' = "recovery_required"
        BY <1>7, RecordTyped DEF Record, NoCommand
    <2>2. PICK r \in Completions : records' = Append(records, r) /\ r.exec = cmd.exec /\ r.res = cmd.res
        BY <1>7, RecordTyped
    <2>3. /\ \A i \in DOMAIN records : i \in DOMAIN records' /\ records'[i] = records[i]
          /\ Len(records) + 1 \in DOMAIN records' /\ records'[Len(records) + 1] = r
        BY <2>2
    <2>4. ASSUME NEW e \in live
          PROVE  \/ e \in crashed \/ wstate' = "recovery_required"
                 \/ backend = "docker" /\ \E i \in DOMAIN records' :
                        records'[i].exec = e /\ records'[i].res.status = "sandbox_setup_failed"
        <3>1. CASE e = cmd.exec
            <4>1. \/ cmd.res.started /\ ~cmd.res.stopped
                  \/ backend = "docker" /\ cmd.res.status = "sandbox_setup_failed"
                BY <2>1, <3>1 DEF StragglersAreReported
            <4> QED BY <2>1, <2>2, <2>3, <3>1, <4>1
        <3>2. CASE e # cmd.exec
            <4>1. wstate # "recovery_required"
                BY <2>1 DEF CallsNeedTrust
            <4>2. \/ e \in crashed
                  \/ backend = "docker" /\ \E i \in DOMAIN records :
                         records[i].exec = e /\ records[i].res.status = "sandbox_setup_failed"
                BY <3>2, <4>1 DEF StragglersCloseTheSession
            <4> QED BY <2>3, <4>2
        <3> QED BY <3>1, <3>2
    <2> QED BY <2>1, <2>4 DEF StragglersAreReported, StragglersCloseTheSession
<1>8. CASE Disturbs
    BY <1>8 DEF Disturbs, StragglersAreReported, StragglersCloseTheSession
<1>9. CASE Dies
    <2>1. /\ cmd'.phase = "idle" /\ crashed' = crashed \cup {cmd.exec}
          /\ live' \in {live, live \cup {cmd.exec}} /\ UNCHANGED <<backend, wstate, records>>
        BY <1>9 DEF Dies, NoCommand
    <2> QED BY <2>1 DEF StragglersAreReported, StragglersCloseTheSession
<1> QED BY <1>2, <1>4, <1>5, <1>6, <1>7, <1>8, <1>9, Steps

--------------------------------------------------------------------------------
(* Evidence, revisions and diagnostics                                     *)

\* compare_workspace lists every file whose content is another one, unless git quotes its name.
LEMMA ComparedFiles ==
    ASSUME NEW old \in Trees, NEW new \in Trees, NEW f \in Files \ Quoted,
           (IF old[f] = None THEN None ELSE old[f].data) # (IF new[f] = None THEN None ELSE new[f].data)
    PROVE  f \in CompareWorkspace(old, new)
<1>1. old[f] \in Contents /\ new[f] \in Contents
    BY DEF Trees
<1>2. /\ old[f] # None => old[f].data # "<missing>"
      /\ new[f] # None => new[f].data # "<missing>"
    BY <1>1, FilesAssumption
<1>3. Fingerprint(old, f) # Fingerprint(new, f)
    BY <1>2 DEF Fingerprint
<1>4. old[f] # new[f]
    OBVIOUS
<1>5. f \in Changed(old) \cup Changed(new)
    BY <1>4 DEF Changed
<1> QED BY <1>3, <1>5 DEF CompareWorkspace

\* The records of finished calls are not touched by what is not Record.
LEMMA OnlyRecordWrites ==
    ASSUME CommandsTyped, [CommandsNext]_commandVars
    PROVE  (\E ok \in BOOLEAN : Record(ok)) \/ UNCHANGED <<records, evidence, revision>>
<1>1. ASSUME NEW rs \in Requests, NEW purpose \in Purposes, Submit(rs, purpose)
      PROVE  UNCHANGED <<records, evidence, revision>>
    BY <1>1 DEF Submit
<1> QED BY <1>1, Steps DEF Approve, RefuseCommand, Proceed, Executes, Disturbs, Dies

\* Every step keeps the evidence true.
LEMMA EvidenceNext ==
    ASSUME CommandsTyped, CommandsTyped', CallsAreNumbered, StragglersAreReported,
           EvidenceIsOfACompletedRun, [CommandsNext]_commandVars
    PROVE  EvidenceIsOfACompletedRun'
<1> records \in Seq(Completions)
    BY DEF CommandsTyped
<1>1. ASSUME UNCHANGED <<records, evidence>>, live' \subseteq live \cup Underway, crashed' \subseteq crashed \cup Underway
      PROVE  EvidenceIsOfACompletedRun'
    <2>1. \A e \in evidence : e.exec \notin Underway
        BY DEF CallsAreNumbered, Past
    <2> QED BY <1>1, <2>1 DEF EvidenceIsOfACompletedRun
<1>2. cmd.phase # "idle" => Underway = {cmd.exec}
    BY DEF CallsAreNumbered, Underway
<1>3. ASSUME NEW rs \in Requests, NEW purpose \in Purposes, Submit(rs, purpose)
      PROVE  EvidenceIsOfACompletedRun'
    BY <1>1, <1>3 DEF Submit
<1>4. CASE Approve \/ RefuseCommand \/ Proceed
    BY <1>1, <1>4 DEF Approve, RefuseCommand, Proceed
<1>5. CASE Executes
    BY <1>1, <1>2, <1>5 DEF Executes
<1>6. CASE Disturbs
    BY <1>1, <1>6 DEF Disturbs
<1>7. CASE Dies
    BY <1>1, <1>2, <1>7 DEF Dies
<1>8. ASSUME NEW ok \in BOOLEAN, Record(ok)
      PROVE  EvidenceIsOfACompletedRun'
    <2>1. cmd.phase = "ended" /\ UNCHANGED <<live, crashed>>
        BY <1>8 DEF Record
    <2>2. PICK r \in Completions :
              /\ records' = Append(records, r)
              /\ r.exec = cmd.exec /\ r.purpose = cmd.purpose /\ r.res = cmd.res /\ r.state = wstate'
              /\ evidence' \subseteq evidence \cup {[exec |-> cmd.exec, tree |-> r.after]}
        BY <1>8, RecordTyped
    <2>3. /\ \A i \in DOMAIN records : i \in DOMAIN records' /\ records'[i] = records[i]
          /\ Len(records) + 1 \in DOMAIN records' /\ records'[Len(records) + 1] = r
        BY <2>2
    <2>4. ASSUME NEW e \in evidence
          PROVE  e.exec \notin live' /\ e.exec \notin crashed' /\
                 \E i \in DOMAIN records' :
                    /\ records'[i].exec = e.exec /\ records'[i].purpose = "validation" /\ records'[i].res.started
                    /\ records'[i].res.exit = 0 /\ records'[i].state = "changes_active" /\ e.tree = records'[i].after
        BY <2>1, <2>3 DEF EvidenceIsOfACompletedRun
    <2>5. ASSUME NEW e \in evidence', e \notin evidence
          PROVE  e.exec \notin live' /\ e.exec \notin crashed' /\
                 \E i \in DOMAIN records' :
                    /\ records'[i].exec = e.exec /\ records'[i].purpose = "validation" /\ records'[i].res.started
                    /\ records'[i].res.exit = 0 /\ records'[i].state = "changes_active" /\ e.tree = records'[i].after
        <3>1. e.exec = cmd.exec /\ e.tree = r.after
            BY <2>2, <2>5
        <3>2. cmd.purpose = "validation" /\ ValidEvidence(wstate')
            BY <1>8, <2>5, RecordTyped
        <3>3. cmd.exec \notin live
            BY <2>1, <3>2 DEF StragglersAreReported, ValidEvidence
        <3>4. cmd.exec \notin crashed
            BY <1>2, <2>1 DEF CallsAreNumbered, Past
        <3> QED BY <2>1, <2>2, <2>3, <3>1, <3>2, <3>3, <3>4 DEF ValidEvidence
    <2> QED BY <2>4, <2>5 DEF EvidenceIsOfACompletedRun
<1> QED BY <1>3, <1>4, <1>5, <1>6, <1>7, <1>8, Steps

\* Every step finds what a command changed, and spends a new revision on it.
LEMMA AuditNext ==
    ASSUME CommandsTyped, CommandsTyped', RevisionsGrow, AuditFindsEveryChange, [CommandsNext]_commandVars
    PROVE  RevisionsGrow' /\ AuditFindsEveryChange'
<1> records \in Seq(Completions) /\ revision \in Nat
    BY DEF CommandsTyped
<1>1. CASE UNCHANGED <<records, evidence, revision>>
    BY <1>1 DEF RevisionsGrow, AuditFindsEveryChange
<1>2. ASSUME NEW ok \in BOOLEAN, Record(ok)
      PROVE  RevisionsGrow' /\ AuditFindsEveryChange'
    <2>1. PICK r \in Completions :
              /\ records' = Append(records, r) /\ r.revision = revision'
              /\ \/ r.after = r.before /\ r.changes = {}
                 \/ r.changes = CompareWorkspace(r.before, r.after)
              /\ r.changes # {} => revision' = revision + 1
        BY <1>2, RecordTyped
    <2>2. revision' \in {revision, revision + 1}
        BY <1>2, RecordTyped
    <2>3. DOMAIN records' = 1..(Len(records) + 1) /\ DOMAIN records = 1..Len(records)
          /\ (\A i \in 1..Len(records) : records'[i] = records[i]) /\ records'[Len(records) + 1] = r
          /\ Len(records) \in Nat
        BY <2>1
    <2>4. \A i \in 1..Len(records) : records[i].revision \in Nat /\ records[i].revision <= revision
        <3>1. \A i \in 1..Len(records) : records[i] \in Completions
            BY <2>3
        <3> QED BY <2>3, <3>1 DEF RevisionsGrow, Completions
    <2>5. RevisionsGrow'
        <3> SUFFICES ASSUME NEW i \in DOMAIN records'
                     PROVE  records'[i].revision <= revision'
            BY DEF RevisionsGrow
        <3>1. CASE i \in 1..Len(records)
            BY <2>2, <2>3, <2>4, <3>1
        <3>2. CASE i = Len(records) + 1
            BY <2>1, <2>2, <2>3, <3>2
        <3> QED BY <2>3, <3>1, <3>2
    <2> DEFINE data(t, f) == IF t[f] = None THEN None ELSE t[f].data
               moved(c) == {f \in Files \ Quoted : data(c.before, f) # data(c.after, f)}
    <2>6. ASSUME NEW i \in 1..Len(records)
          PROVE  /\ moved(records[i]) \subseteq records[i].changes
                 /\ moved(records[i]) # {} => \A j \in 1..(i - 1) : records[j].revision < records[i].revision
        BY <2>3 DEF AuditFindsEveryChange
    <2>7. moved(r) \subseteq r.changes
        <3>1. r.before \in Trees /\ r.after \in Trees
            BY DEF Completions
        <3> QED BY <2>1, <3>1, ComparedFiles
    <2>8. moved(r) # {} => \A j \in 1..Len(records) : records[j].revision < r.revision
        BY <2>1, <2>4, <2>7
    <2> HIDE DEF moved, data
    <2>9. ASSUME NEW i \in DOMAIN records'
          PROVE  /\ moved(records'[i]) \subseteq records'[i].changes
                 /\ moved(records'[i]) # {} => \A j \in 1..(i - 1) : records'[j].revision < records'[i].revision
        <3>1. CASE i \in 1..Len(records)
            <4>1. \A j \in 1..(i - 1) : records'[j] = records[j]
                BY <2>3, <3>1
            <4> QED BY <2>3, <2>6, <3>1, <4>1
        <3>2. CASE i = Len(records) + 1
            BY <2>3, <2>7, <2>8, <3>2
        <3> QED BY <2>3, <3>1, <3>2
    <2>10. AuditFindsEveryChange'
        BY <2>9 DEF AuditFindsEveryChange, moved, data
    <2> QED BY <2>5, <2>10
<1> QED BY <1>1, <1>2, OnlyRecordWrites

\* Every step keeps the diagnostics of what did not succeed, and only those.
LEMMA DiagnosticsNext ==
    ASSUME CommandsTyped, CommandsTyped', CallsAreNumbered, CallsAreNumbered', DiagnosticsAreKept,
           [CommandsNext]_commandVars
    PROVE  DiagnosticsAreKept'
<1> records \in Seq(Completions)
    BY DEF CommandsTyped
<1> DEFINE Failed(r) == ~(r.res.status = "completed" /\ r.res.exit = 0 /\ r.state = "changes_active")
           Recorded == {records[i].exec : i \in DOMAIN records}
<1>1. /\ cmd.phase # "idle" => Underway = {cmd.exec}
      /\ \A i \in DOMAIN records : records[i].exec \notin Underway
      /\ \A i \in DOMAIN records : records[i].exec \in dirs <=> Failed(records[i])
      /\ dirs \subseteq crashed \cup Recorded \cup Underway
      /\ cmd'.phase # "idle" => Underway' = {cmd'.exec}
    BY DEF CallsAreNumbered, DiagnosticsAreKept, Past, Underway
<1>2. ASSUME NEW rs \in Requests, NEW purpose \in Purposes, Submit(rs, purpose)
      PROVE  DiagnosticsAreKept'
    <2>1. cmd.phase = "idle" /\ UNCHANGED <<records, dirs, crashed>>
        BY <1>2 DEF Submit
    <2>2. cmd'.phase \in {"waiting", "granted"}
        BY <1>2, SubmitTyped
    <2> QED BY <2>1, <2>2 DEF DiagnosticsAreKept, Underway
<1>3. ASSUME cmd.phase \in {"waiting", "granted"}
      PROVE  cmd.exec \notin dirs
    BY <1>3 DEF CallsAreNumbered, Past, Underway
<1>4. CASE Approve \/ RefuseCommand
    <2>1. /\ cmd.phase = "waiting" /\ cmd'.phase \in {"idle", "granted"} /\ UNCHANGED <<records, dirs, crashed>>
        BY <1>4, PhaseTells DEF Approve, RefuseCommand, NoCommand, Asking
    <2>2. dirs \subseteq crashed \cup Recorded
        BY <1>1, <1>3, <2>1
    <2> QED BY <2>1, <2>2 DEF DiagnosticsAreKept
<1>5. CASE Proceed
    <2>1. /\ cmd.phase = "granted" /\ UNCHANGED <<records, crashed>>
          /\ \/ cmd'.phase = "idle" /\ dirs' = dirs
             \/ cmd'.phase = "launch" /\ cmd'.exec = cmd.exec /\ dirs' = dirs \cup {cmd.exec}
        BY <1>5, ProceedTyped DEF Proceed, NoCommand, Launching
    <2>2. dirs \subseteq crashed \cup Recorded
        BY <1>1, <1>3, <2>1
    <2>3. \A i \in DOMAIN records : records[i].exec # cmd.exec
        BY <1>1, <2>1
    <2> QED BY <1>1, <2>1, <2>2, <2>3 DEF DiagnosticsAreKept
<1>6. CASE Executes
    <2>1. /\ cmd.phase \in {"launch", "joining"} /\ cmd'.exec = cmd.exec /\ cmd'.phase \in {"joining", "ended"}
          /\ UNCHANGED <<records, dirs, crashed>>
        BY <1>6 DEF Executes, Joining, Finished
    <2>2. Underway' = Underway
        BY <1>1, <2>1
    <2> QED BY <2>1, <2>2 DEF DiagnosticsAreKept
<1>7. ASSUME NEW ok \in BOOLEAN, Record(ok)
      PROVE  DiagnosticsAreKept'
    <2>1. /\ cmd.phase = "ended" /\ cmd'.phase = "idle" /\ UNCHANGED crashed
          /\ dirs' = IF KeepsDiagnostics(wstate') THEN dirs ELSE dirs \ {cmd.exec}
        BY <1>7, RecordTyped DEF Record, NoCommand
    <2>2. PICK r \in Completions :
              /\ records' = Append(records, r) /\ r.exec = cmd.exec /\ r.res = cmd.res /\ r.state = wstate'
        BY <1>7, RecordTyped
    <2>3. /\ DOMAIN records' = 1..(Len(records) + 1) /\ DOMAIN records = 1..Len(records)
          /\ \A i \in DOMAIN records : records'[i] = records[i]
          /\ records'[Len(records) + 1] = r /\ Len(records) \in Nat
        BY <2>2
    <2>4. KeepsDiagnostics(wstate') <=> Failed(r)
        BY <2>2 DEF KeepsDiagnostics
    <2>5. cmd.exec \in dirs /\ cmd.exec \in Underway
        BY <1>1, <2>1 DEF DiagnosticsAreKept
    <2>6. ASSUME NEW i \in DOMAIN records'
          PROVE  records'[i].exec \in dirs' <=> Failed(records'[i])
        <3>1. CASE i \in DOMAIN records
            <4>1. records[i].exec # cmd.exec
                BY <1>1, <2>5, <3>1
            <4>2. records[i].exec \in dirs' <=> records[i].exec \in dirs
                BY <2>1, <4>1
            <4> QED BY <1>1, <2>3, <3>1, <4>2
        <3>2. CASE i = Len(records) + 1
            <4>1. records'[i] = r
                BY <2>3, <3>2
            <4> QED BY <2>1, <2>2, <2>4, <2>5, <4>1
        <3> QED BY <2>3, <3>1, <3>2
    <2>7. dirs' \subseteq crashed' \cup {records'[i].exec : i \in DOMAIN records'} \cup Underway'
        <3> SUFFICES ASSUME NEW d \in dirs', d \notin crashed
                     PROVE  \E i \in DOMAIN records' : records'[i].exec = d
            BY <2>1
        <3>1. d \in dirs
            BY <2>1
        <3>2. CASE d = cmd.exec
            <4>1. Len(records) + 1 \in DOMAIN records' /\ records'[Len(records) + 1].exec = d
                BY <2>2, <2>3, <3>2
            <4> QED BY <4>1
        <3>3. CASE d # cmd.exec
            <4>1. PICK i \in DOMAIN records : records[i].exec = d
                BY <1>1, <2>1, <3>1, <3>3
            <4>2. i \in DOMAIN records' /\ records'[i].exec = d
                BY <2>3, <4>1
            <4> QED BY <4>2
        <3> QED BY <3>2, <3>3
    <2> QED BY <2>1, <2>6, <2>7 DEF DiagnosticsAreKept
<1>8. CASE Disturbs
    <2>1. UNCHANGED <<records, dirs, crashed, cmd>> /\ counted'.commands = counted.commands
        BY <1>8 DEF Disturbs
    <2> QED BY <2>1 DEF DiagnosticsAreKept, Underway
<1>9. CASE Dies
    <2>1. /\ cmd'.phase = "idle" /\ crashed' = crashed \cup {cmd.exec} /\ cmd.phase # "idle"
          /\ UNCHANGED <<records, dirs>>
        BY <1>9 DEF Dies, NoCommand
    <2> QED BY <1>1, <2>1 DEF DiagnosticsAreKept
<1> QED BY <1>2, <1>4, <1>5, <1>6, <1>7, <1>8, <1>9, Steps

--------------------------------------------------------------------------------
(* The reach of a started command                                          *)

\* A directory that the command is given to write is the Candidate's, the cache's or allowed, and
\* so is everything in it.
LEMMA WritableBelow ==
    ASSUME CommandsTyped, PolicyIsSound, cmd.phase = "launch",
           NEW d \in cmd.policy.writes \cup {Candidate, Cache}, NEW p \in Paths, Inside(p, d)
    PROVE  Inside(p, Candidate) \/ Inside(p, Cache) \/ UserAllowed("write", p)
<1>1. Candidate \in Paths /\ Cache \in Paths
    BY PathsAssumption
<1>2. CASE d \in {Candidate, Cache}
    BY <1>2
<1>3. CASE d \in cmd.policy.writes
    <2>1. d \in Paths
        BY <1>3, PhaseTells DEF Launching, Policies
    <2>2. Inside(d, Candidate) \/ Inside(d, Cache) \/ UserAllowed("write", d)
        BY <1>3 DEF PolicyIsSound
    <2>3. CASE Inside(d, Candidate) \/ Inside(d, Cache)
        BY <1>1, <2>1, <2>3, InsideTransitive
    <2>4. CASE UserAllowed("write", d)
        <3>1. PICK a \in approved : /\ a.q.req.capability = "write" /\ Inside(d, a.q.path)
                                    /\ a.exec = cmd.exec \/ a.q.req.scope = "session"
            BY <2>1, <2>4, PathFacts DEF UserAllowed
        <3>2. a.q.path \in Paths
            BY <3>1 DEF CommandsTyped, Approvals, Queries
        <3>3. Inside(p, a.q.path)
            BY <2>1, <3>1, <3>2, InsideTransitive
        <3> QED BY <3>1, <3>3 DEF UserAllowed
    <2> QED BY <2>2, <2>3, <2>4
<1> QED BY <1>2, <1>3

\* MountPlan.build: the last layer over a path decides.
LEMMA BwrapLayers ==
    ASSUME CommandsTyped, NEW policy \in Policies, NEW p \in Paths
    PROVE  /\ BwrapAccess(policy, p) = "rw" =>
                 /\ ~Inside(p, Source) /\ \A g \in GitPaths : ~Inside(p, g)
                 /\ \E d \in policy.writes \cup {Candidate, Cache} : Inside(p, d)
           /\ (\E d \in HardDeny : fs[d] # None /\ Inside(p, d)) => BwrapAccess(policy, p) = "mask"
<1> DEFINE plan == MountPlan(policy)
           over == {i \in DOMAIN plan : \E d \in plan[i].at : Inside(p, d)}
           top == Max(over)
<1>1. /\ DOMAIN plan = 1..6
      /\ plan[1] = [mode |-> "ro", at |-> {<<>>}] /\ plan[2] = [mode |-> "private", at |-> {Tmp}]
      /\ plan[3] = [mode |-> "rw", at |-> policy.writes \cup {Candidate, Cache}]
      /\ plan[4] = [mode |-> "ro", at |-> {Source}] /\ plan[5] = [mode |-> "ro", at |-> GitPaths]
      /\ plan[6] = [mode |-> "mask", at |-> {d \in HardDeny : fs[d] # None}]
    BY DEF MountPlan
<1>2. BwrapAccess(policy, p) = plan[top].mode
    BY DEF BwrapAccess
<1> HIDE DEF plan
<1>3. Inside(p, <<>>)
    BY RootIsAPath, InsideByNames, PathFacts
<1>4. /\ 1 \in over /\ over \in SUBSET (0..6) /\ over \subseteq 1..6
      /\ 3 \in over <=> \E d \in policy.writes \cup {Candidate, Cache} : Inside(p, d)
      /\ 4 \in over <=> Inside(p, Source)
      /\ 5 \in over <=> \E g \in GitPaths : Inside(p, g)
      /\ 6 \in over <=> \E d \in HardDeny : fs[d] # None /\ Inside(p, d)
    BY <1>1, <1>3
<1> HIDE DEF over
<1>5. top \in over /\ \A i \in over : i <= top
    BY <1>4, MaxOfBounded
<1> HIDE DEF top
<1>6. plan[top].mode = "rw" => top = 3
    <2>1. top \in 1..6
        BY <1>4, <1>5
    <2> QED BY <1>1, <2>1
<1>7. ASSUME top = 3
      PROVE  4 \notin over /\ 5 \notin over /\ 3 \in over
    BY <1>5, <1>7
<1>8. ASSUME 6 \in over
      PROVE  top = 6
    BY <1>4, <1>5, <1>8
<1> QED BY <1>1, <1>2, <1>4, <1>6, <1>7, <1>8

\* _deduplicate_mounts: the deepest mount over a path decides.
LEMMA DockerLayers ==
    ASSUME CommandsTyped, PolicyIsSound, cmd.phase = "launch", NEW p \in Paths
    PROVE  /\ DockerAccess(cmd.policy, p) = "rw" =>
                 /\ ~Inside(p, Source) /\ \A g \in GitPaths : ~Inside(p, g)
                 /\ \E d \in cmd.policy.writes \cup {Candidate, Cache} : Inside(p, d)
           /\ (\E d \in HardDeny : fs[d] # None /\ Inside(p, d)) => DockerAccess(cmd.policy, p) = "absent"
<1> DEFINE W == cmd.policy.writes
           R == cmd.policy.reads
           mounts == DockerMounts(cmd.policy)
           over == {m \in mounts : Inside(p, m[1])}
           deep == {m \in over : \A n \in over : Len(n[1]) <= Len(m[1])}
<1>1. /\ W \subseteq Paths /\ R \subseteq Paths /\ Candidate \in Paths /\ Cache \in Paths /\ Source \in Paths
      /\ GitPaths \subseteq Paths /\ HardDeny \subseteq Paths
    BY PhaseTells, PathsAssumption DEF Launching, Policies
<1>2. \A m \in mounts : /\ m[1] \in W \cup R \cup {Candidate, Cache} \cup GitPaths
                        /\ m[2] = "rw" => m[1] \in W \cup {Candidate, Cache}
    BY DEF DockerMounts
<1>3. \A g \in GitPaths : <<g, "ro">> \in mounts
    BY DEF DockerMounts
<1>4. /\ DockerAccess(cmd.policy, p) = "rw" => \E m \in deep : m[2] = "rw"
      /\ over = {} => DockerAccess(cmd.policy, p) = "absent"
    BY DEF DockerAccess
<1> HIDE DEF mounts
\* What is mounted for writing is apart from the source and not below Git metadata.
<1>5. ASSUME NEW d \in W \cup {Candidate, Cache}
      PROVE  d \in Paths /\ ~Overlap(d, Source) /\ \A g \in GitPaths : ~Inside(d, g)
    BY <1>1, LayoutAssumption DEF PolicyIsSound, Permissible, Overlap
\* Nothing that is mounted has to do with what is denied.
<1>6. ASSUME NEW d \in W \cup R \cup {Candidate, Cache} \cup GitPaths, NEW h \in HardDeny, fs[h] # None
      PROVE  d \in Paths /\ ~Overlap(d, h)
    BY <1>1, <1>6, LayoutAssumption DEF PolicyIsSound, Permissible
<1>7. ASSUME NEW m \in deep, m[2] = "rw"
      PROVE  /\ ~Inside(p, Source) /\ \A g \in GitPaths : ~Inside(p, g)
             /\ \E d \in W \cup {Candidate, Cache} : Inside(p, d)
    <2>1. m \in mounts /\ Inside(p, m[1]) /\ \A n \in over : Len(n[1]) <= Len(m[1])
        OBVIOUS
    <2>2. m[1] \in W \cup {Candidate, Cache}
        BY <1>2, <1>7, <2>1
    <2>3. ~Inside(p, Source)
        BY <1>1, <1>5, <2>1, <2>2, ApartBelow DEF Overlap
    <2>4. ASSUME NEW g \in GitPaths, Inside(p, g)
          PROVE  FALSE
        <3> DEFINE n == <<g, "ro">>
        <3>1. n \in over /\ n[1] = g
            BY <1>3, <2>4
        <3>2. Len(g) <= Len(m[1])
            BY <2>1, <3>1
        <3>3. m[1] \in Paths /\ g \in Paths
            BY <1>1, <1>5, <2>2
        <3>4. Inside(m[1], g)
            BY <2>1, <2>4, <3>2, <3>3, InsideBoth
        <3> QED BY <1>5, <2>2, <3>4
    <2> QED BY <2>1, <2>2, <2>3, <2>4
<1>8. ASSUME NEW h \in HardDeny, fs[h] # None, Inside(p, h)
      PROVE  over = {}
    <2> SUFFICES ASSUME NEW m \in mounts, Inside(p, m[1])
                 PROVE  FALSE
        OBVIOUS
    <2>1. m[1] \in Paths /\ ~Overlap(m[1], h)
        BY <1>2, <1>6, <1>8
    <2>2. ~Overlap(p, h)
        BY <1>1, <2>1, ApartBelow
    <2> QED BY <1>8, <2>2 DEF Overlap
<1> QED BY <1>4, <1>7, <1>8

\* A started command reaches what was approved, and nothing that is denied, on either backend.
LEMMA ReachIsSound ==
    ASSUME CommandsTyped, PolicyIsSound
    PROVE  ReachIsWhatWasApproved
<1> SUFFICES ASSUME cmd.phase = "launch"
             PROVE  /\ cmd.policy.network => UserAllowed("network", None)
                    /\ \A p \in Paths : Access(cmd.policy, p) = "rw" =>
                          /\ ~Inside(p, Source) /\ \A g \in GitPaths : ~Inside(p, g)
                          /\ Inside(p, Candidate) \/ Inside(p, Cache) \/ UserAllowed("write", p)
                    /\ \A p \in Paths, d \in HardDeny :
                          fs[d] # None /\ Inside(p, d) => Access(cmd.policy, p) \in {"mask", "absent"}
    BY DEF ReachIsWhatWasApproved
<1>1. cmd.policy \in Policies /\ (cmd.policy.network => UserAllowed("network", None))
    BY PhaseTells DEF Launching, PolicyIsSound
<1>2. ASSUME NEW p \in Paths
      PROVE  /\ Access(cmd.policy, p) = "rw" =>
                   /\ ~Inside(p, Source) /\ \A g \in GitPaths : ~Inside(p, g)
                   /\ \E d \in cmd.policy.writes \cup {Candidate, Cache} : Inside(p, d)
             /\ (\E d \in HardDeny : fs[d] # None /\ Inside(p, d)) => Access(cmd.policy, p) \in {"mask", "absent"}
    <2>1. CASE backend = "bwrap"
        <3>1. Access(cmd.policy, p) = BwrapAccess(cmd.policy, p)
            BY <2>1 DEF Access
        <3> QED BY <1>1, <3>1, BwrapLayers
    <2>2. CASE backend # "bwrap"
        <3>1. Access(cmd.policy, p) = DockerAccess(cmd.policy, p)
            BY <2>2 DEF Access
        <3> QED BY <3>1, DockerLayers
    <2> QED BY <2>1, <2>2
<1> QED BY <1>1, <1>2, WritableBelow

--------------------------------------------------------------------------------
(* The theorems                                                            *)

\* A session starts with nothing granted and nothing run.
LEMMA CommandsStart ==
    ASSUME CommandsInit
    PROVE  CommandsInv
<1>1. /\ backend \in {"bwrap", "docker"} /\ fs = InitialFs /\ cand = BaseTree
      /\ grants = {} /\ wstate = "changes_active" /\ revision = 0
      /\ cmd.phase = "idle" /\ cmd = NoCommand /\ records = <<>> /\ evidence = {} /\ dirs = {} /\ live = {}
      /\ approved = {} /\ crashed = {} /\ counted = [commands |-> 0, disturbances |-> 0]
    BY DEF CommandsInit, NoCommand
<1>2. CommandsTyped
    BY <1>1, FsAssumption, FilesAssumption, CommandBounds DEF CommandsTyped, Trees, WorkspaceStates
<1>3. CallsAreNumbered
    BY <1>1 DEF CallsAreNumbered, Past, Underway
<1>4. /\ CallsNeedTrust /\ GrantsAreSound /\ CallIsSound /\ PolicyIsSound /\ LaunchedAsShown
      /\ ApprovalsAreSaved /\ ApprovedIsNotAskedAgain /\ StragglersAreReported /\ StragglersCloseTheSession
      /\ EvidenceIsOfACompletedRun
    BY <1>1 DEF CallsNeedTrust, GrantsAreSound, CallIsSound, PolicyIsSound, LaunchedAsShown, ApprovalsAreSaved,
        ApprovedIsNotAskedAgain, StragglersAreReported, StragglersCloseTheSession, EvidenceIsOfACompletedRun
<1>5. RevisionsGrow /\ AuditFindsEveryChange /\ DiagnosticsAreKept
    BY <1>1 DEF RevisionsGrow, AuditFindsEveryChange, DiagnosticsAreKept
<1> QED BY <1>2, <1>3, <1>4, <1>5 DEF CommandsInv

\* The inductive step.
LEMMA CommandsStep ==
    ASSUME CommandsInv, [CommandsNext]_commandVars
    PROVE  CommandsInv'
<1>1. CommandsTyped'
    BY TypedNext DEF CommandsInv
<1>2. CallsAreNumbered' /\ CallsNeedTrust'
    BY <1>1, NumberedNext DEF CommandsInv
<1>3. GrantsAreSound' /\ CallIsSound' /\ PolicyIsSound'
    BY <1>1, GrantsNext DEF CommandsInv
<1>4. LaunchedAsShown'
    BY <1>1, LaunchedNext DEF CommandsInv
<1>5. ApprovalsAreSaved' /\ ApprovedIsNotAskedAgain'
    BY <1>1, ApprovalsNext DEF CommandsInv
<1>6. StragglersAreReported' /\ StragglersCloseTheSession'
    BY <1>1, <1>2, StragglersNext DEF CommandsInv
<1>7. EvidenceIsOfACompletedRun'
    BY <1>1, EvidenceNext DEF CommandsInv
<1>8. RevisionsGrow' /\ AuditFindsEveryChange'
    BY <1>1, AuditNext DEF CommandsInv
<1>9. DiagnosticsAreKept'
    BY <1>1, <1>2, DiagnosticsNext DEF CommandsInv
<1> QED BY <1>1, <1>2, <1>3, <1>4, <1>5, <1>6, <1>7, <1>8, <1>9 DEF CommandsInv

\* What the invariant says of a state.
LEMMA CommandsMeaning ==
    ASSUME CommandsInv
    PROVE  LaunchIsWhatWasApproved /\ EvidenceIsSound
<1>1. CommandsTypeOK
    <2>1. counted.commands \in 0..MaxCommands /\ MaxCommands \in Nat
        BY CommandBounds DEF CommandsInv, CommandsTyped
    <2>2. Past \cup Underway \subseteq 1..MaxCommands
        BY <2>1 DEF Past, Underway, CommandsInv, CallsAreNumbered
    <2>3. /\ \A e \in evidence : e.exec \in 1..MaxCommands
          /\ dirs \subseteq 1..MaxCommands /\ live \subseteq 1..MaxCommands /\ crashed \subseteq 1..MaxCommands
        BY <2>2 DEF CommandsInv, CallsAreNumbered
    <2>4. \A g \in grants : g.capability \in {"read", "write", "network"} /\ g.exec \in 1..MaxCommands
        BY <2>1 DEF CommandsInv, CommandsTyped, SavedGrants, CallsAreNumbered
    <2>5. revision <= Len(records) /\ Len(records) <= counted.commands
        <3>1. Len(records) \in Nat
            BY DEF CommandsInv, CommandsTyped
        <3> QED BY <2>1, <3>1 DEF CommandsInv, CallsAreNumbered
    <2>6. cmd.phase \in {"idle", "waiting", "granted", "launch", "joining", "ended"}
        BY PhaseTells DEF CommandsInv
    <2> QED BY <2>3, <2>4, <2>5, <2>6 DEF CommandsTypeOK, CommandsInv, CommandsTyped, WorkspaceStates
<1>2. ReachIsWhatWasApproved
    BY ReachIsSound DEF CommandsInv
<1>3. DiagnosticsAreOfFailures
    BY DEF CommandsInv, DiagnosticsAreKept, DiagnosticsAreOfFailures, Underway
<1> QED BY <1>1, <1>2, <1>3 DEF CommandsInv, LaunchIsWhatWasApproved, EvidenceIsSound

\* In every session, whatever is granted, refused, changed from outside or cut off by a crash and in
\* whatever order, a command that run_prepared starts finds the objects and the tree that were shown
\* to the user, writes only the Candidate, the cache and what the user allowed, reaches neither the
\* source nor Git metadata for writing nor anything denied, on either backend; and what was approved
\* for the session is not asked for again.
THEOREM CommandsAreAsApproved == CommandsSpec => []LaunchIsWhatWasApproved
<1>1. CommandsInit => CommandsInv
    BY CommandsStart
<1>2. CommandsInv /\ [CommandsNext]_commandVars => CommandsInv'
    BY CommandsStep
<1>3. CommandsInv => LaunchIsWhatWasApproved
    BY CommandsMeaning
<1> QED BY <1>1, <1>2, <1>3, PTL DEF CommandsSpec

\* Validation evidence is of a run that ended by itself with nothing left running, the audit lists
\* every content a command changed and moves the revision with it, and exactly the commands that did
\* not succeed keep their diagnostics (run_prepared, compare_workspace, _valid_evidence).
THEOREM CommandEvidenceIsSound == CommandsSpec => []EvidenceIsSound
<1>1. CommandsInit => CommandsInv
    BY CommandsStart
<1>2. CommandsInv /\ [CommandsNext]_commandVars => CommandsInv'
    BY CommandsStep
<1>3. CommandsInv => EvidenceIsSound
    BY CommandsMeaning
<1> QED BY <1>1, <1>2, <1>3, PTL DEF CommandsSpec

\* A step that leaves a process running closes the session with it, unless nobody observed the end,
\* and no command is started in a session that is in doubt (run_command, AfterAudit).
THEOREM DoubtClosesSessions == CommandsSpec => DoubtClosesTheSession
<1>1. CommandsInit => CommandsInv
    BY CommandsStart
<1>2. CommandsInv /\ [CommandsNext]_commandVars => CommandsInv'
    BY CommandsStep
<1>3. ASSUME CommandsInv, [CommandsNext]_commandVars
      PROVE  NothingStartsInDoubt
    <2> SUFFICES ASSUME wstate # "changes_active"
                 PROVE  cmd'.phase \in {cmd.phase, "idle"}
        BY DEF NothingStartsInDoubt
    <2>1. cmd.phase = "idle" /\ wstate \in {"workspace_tainted", "recovery_required"}
        BY <1>3 DEF CommandsInv, CallsNeedTrust, CommandsTyped, WorkspaceStates
    <2>2. ASSUME NEW rs \in Requests, NEW purpose \in Purposes, Submit(rs, purpose)
          PROVE  FALSE
        BY <2>1, <2>2 DEF Submit, SessionTakesCommands
    <2>3. \/ Approve \/ RefuseCommand \/ Proceed \/ Executes \/ (\E ok \in BOOLEAN : Record(ok))
          \/ Disturbs \/ Dies
        BY <1>3, <2>2, Steps DEF CommandsInv
    <2>4. cmd' = cmd
        BY <2>1, <2>3 DEF Approve, RefuseCommand, Proceed, Executes, Record, Disturbs, Dies
    <2> QED BY <2>4
<1>4. CommandsInv' => StragglersCloseTheSession'
    BY DEF CommandsInv
<1>5. CommandsInv /\ [CommandsNext]_commandVars
          => [StragglersCloseTheSession' /\ NothingStartsInDoubt]_commandVars
    BY <1>2, <1>3, <1>4
<1> QED BY <1>1, <1>2, <1>5, PTL DEF CommandsSpec, DoubtClosesTheSession
==============================================================================
