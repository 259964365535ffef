---------------------------- MODULE SessionStore ----------------------------
(***************************************************************************)
(* The session store: session.json (meta) and the append-only              *)
(* events.jsonl (events), written by the threads of one product process    *)
(* (codeagent/session/store.py).                                           *)
(*                                                                         *)
(* append_event and append_derived_events run inside the store's lock;     *)
(* every other method that changes session.json (the workspace-state       *)
(* transitions, next_candidate_revision, add_permission_grants) reads,     *)
(* modifies and writes the file without it.  Each file access is one step: *)
(* read session.json, append the lines to events.jsonl, write              *)
(* session.json.tmp, rename it over session.json.  The process may crash   *)
(* between any two of them; only the files survive.                        *)
(***************************************************************************)
EXTENDS Integers, Sequences, FiniteSets

CONSTANTS
    Threads,      \* the threads that use the store
    Mutators,     \* those that call the unlocked methods too (the worker)
    NoThread,     \* the lock is free
    NoFile,       \* session.json.tmp does not exist
    BatchSize,    \* derived events appended together by a condensation
    MaxEvents,    \* bound: lines of events.jsonl a run produces
    MaxRevision,  \* bound: candidate revisions and grants a run produces
    MaxCrashes    \* bound: crashes of the process

ASSUME StoreAssumption ==
    /\ Mutators \subseteq Threads
    /\ NoThread \notin Threads
    /\ BatchSize \in Nat \ {0}
    /\ MaxEvents \in Nat /\ MaxRevision \in Nat /\ MaxCrashes \in Nat

VARIABLES
    meta,     \* content of session.json
    temp,     \* content of session.json.tmp, or NoFile
    events,   \* the lines of events.jsonl
    lock,     \* the thread inside _store_lock(meta_path), or NoThread
    pc,       \* next file access of each thread
    op,       \* the method each thread executes
    held,     \* the dict each thread read from session.json and modifies
    crashes   \* crashes so far

vars == <<meta, temp, events, lock, pc, op, held, crashes>>

-----------------------------------------------------------------------------
(* Data *)

SessionWorkspaceState ==
    {"source_only", "preparing_workspace", "changes_active",
     "workspace_tainted", "accepting", "discarding", "recovery_required"}

Meta == [event_seq: Nat, turn: Nat, ws: SessionWorkspaceState,
         revision: Nat, grants: Nat]

ASSUME NoFileAssumption == NoFile \notin Meta

\* What _append_event tells apart: a user message opens a turn, the other
\* types inherit the identity of the current one.
EventTypes == {"user_message", "other"}

NoSeq == -1

\* An event with the frontier its plan expected (derived events only) and its
\* place in the batch.
Event == [seq: Nat, turn: Nat, type: EventTypes \cup {"derived"},
          expected: Nat \cup {NoSeq}, offset: Nat]

\* The unlocked methods: the states they accept (the early raise), the state
\* they leave, and whether append_event follows the write.
begin_workspace_upgrade == [from |-> {"source_only"}, to |-> "preparing_workspace", announce |-> TRUE]
activate_workspace == [from |-> {"preparing_workspace"}, to |-> "changes_active", announce |-> TRUE]
cancel_workspace_upgrade == [from |-> SessionWorkspaceState, to |-> "source_only", announce |-> TRUE]
begin_accept == [from |-> {"changes_active"}, to |-> "accepting", announce |-> FALSE]
begin_discard == [from |-> {"changes_active", "workspace_tainted"}, to |-> "discarding", announce |-> FALSE]
finish_resolved == [from |-> SessionWorkspaceState, to |-> "changes_active", announce |-> TRUE]
restore_changes_active == [from |-> SessionWorkspaceState, to |-> "changes_active", announce |-> FALSE]
mark_workspace_tainted == [from |-> SessionWorkspaceState, to |-> "workspace_tainted", announce |-> TRUE]
mark_recovery_required == [from |-> SessionWorkspaceState, to |-> "recovery_required", announce |-> TRUE]

Transitions ==
    {begin_workspace_upgrade, activate_workspace, cancel_workspace_upgrade,
     begin_accept, begin_discard, finish_resolved, restore_changes_active,
     mark_workspace_tainted, mark_recovery_required}

NoOp == [kind |-> "none"]
AppendOp(type) == [kind |-> "append", type |-> type]
DerivedOp(expected, turn) == [kind |-> "derived", expected |-> expected, turn |-> turn]
TransitionOp(tr) == [kind |-> "transition", tr |-> tr]
RevisionOp == [kind |-> "revision"]
GrantOp == [kind |-> "grant"]

Locked(o) == o.kind \in {"append", "derived"}

-----------------------------------------------------------------------------
\* create(): the first session.json and the session_created line.
InitialMeta == [event_seq |-> 1, turn |-> 0, ws |-> "source_only",
                revision |-> 0, grants |-> 0]

Init ==
    /\ meta = InitialMeta
    /\ temp = NoFile
    /\ events = <<[seq |-> 1, turn |-> 0, type |-> "other",
                   expected |-> NoSeq, offset |-> 0]>>
    /\ lock = NoThread
    /\ pc = [t \in Threads |-> "idle"]
    /\ op = [t \in Threads |-> NoOp]
    /\ held = [t \in Threads |-> InitialMeta]
    /\ crashes = 0

Goto(t, label) == pc' = [pc EXCEPT ![t] = label]

\* The method returns or raises: its locals are gone.
Leave(t) ==
    /\ Goto(t, "idle")
    /\ op' = [op EXCEPT ![t] = NoOp]
    /\ held' = [held EXCEPT ![t] = InitialMeta]

\* A thread calls append_event(type).
append_event(t, type) ==
    /\ pc[t] = "idle"
    /\ Len(events) < MaxEvents
    /\ op' = [op EXCEPT ![t] = AppendOp(type)]
    /\ Goto(t, "enter")
    /\ UNCHANGED <<meta, temp, events, lock, held, crashes>>

\* A caller of append_derived_events passes the turn its plan was made in, and
\* the frontier it was made on or none.
append_derived_events(t) ==
    /\ pc[t] = "idle"
    /\ Len(events) + BatchSize <= MaxEvents
    /\ \E e \in {meta.event_seq, NoSeq}: op' = [op EXCEPT ![t] = DerivedOp(e, meta.turn)]
    /\ Goto(t, "enter")
    /\ UNCHANGED <<meta, temp, events, lock, held, crashes>>

\* Mutant: the lock is entered although another thread holds it.
AcquireAnyway(t) ==
    /\ pc[t] = "enter"
    /\ lock' = t
    /\ Goto(t, "read")
    /\ UNCHANGED <<meta, temp, events, op, held, crashes>>

\* with _store_lock(self.meta_path)
Acquire(t) ==
    /\ pc[t] = "enter"
    /\ lock = NoThread
    /\ lock' = t
    /\ Goto(t, "read")
    /\ UNCHANGED <<meta, temp, events, op, held, crashes>>

\* A thread calls one of the methods that do not take the lock.
Mutate(t) ==
    /\ pc[t] = "idle"
    /\ t \in Mutators
    /\ Len(events) < MaxEvents
    /\ \/ \E tr \in Transitions: op' = [op EXCEPT ![t] = TransitionOp(tr)]
       \/ meta.revision < MaxRevision /\ op' = [op EXCEPT ![t] = RevisionOp]
       \/ meta.grants < MaxRevision /\ op' = [op EXCEPT ![t] = GrantOp]
    /\ Goto(t, "read")
    /\ UNCHANGED <<meta, temp, events, lock, held, crashes>>

\* Mutant: a method modifies the dict cached since create().
ModifiedFromCache(o, m) ==
    IF Locked(o) THEN m
    ELSE [InitialMeta EXCEPT !.ws = IF o.kind = "transition" THEN o.tr.to ELSE @,
                             !.revision = IF o.kind = "revision" THEN @ + 1 ELSE @]

\* The dict a method writes back, from the dict m it read; the locked methods
\* change it when they append.
Modified(o, m) ==
    [event_seq |-> m.event_seq, turn |-> m.turn,
     ws |-> IF o.kind = "transition" THEN o.tr.to ELSE m.ws,
     revision |-> IF o.kind = "revision" THEN m.revision + 1 ELSE m.revision,
     grants |-> IF o.kind = "grant" THEN m.grants + 1 ELSE m.grants]

\* Mutant: expected_event_seq is not compared.
RejectedByStateOnly(o, m) == o.kind = "transition" /\ m.ws \notin o.tr.from

\* The checks between read_meta and the first write; failing, the method raises.
Rejected(o, m) ==
    \/ o.kind = "transition" /\ m.ws \notin o.tr.from
    \/ o.kind = "derived" /\ o.expected # NoSeq /\ m.event_seq # o.expected

\* read_meta and the checks on what it returned.
read_meta(t) ==
    /\ pc[t] = "read"
    /\ IF Rejected(op[t], meta)
       THEN /\ Leave(t)
            /\ lock' = IF Locked(op[t]) THEN NoThread ELSE lock
       ELSE /\ held' = [held EXCEPT ![t] = Modified(op[t], meta)]
            /\ Goto(t, IF Locked(op[t]) THEN "append" ELSE "write")
            /\ UNCHANGED <<op, lock>>
    /\ UNCHANGED <<meta, temp, events, crashes>>

\* Mutant: the sequence number is incremented twice.
NewEventsSkipping(o, m) ==
    IF o.kind = "derived"
    THEN [i \in 1..BatchSize |->
            [seq |-> m.event_seq + i, turn |-> o.turn, type |-> "derived",
             expected |-> o.expected, offset |-> i]]
    ELSE << [seq |-> m.event_seq + 2, turn |-> m.turn, type |-> o.type,
             expected |-> NoSeq, offset |-> 1] >>

\* _append_event: a user message opens the turn named by its own number, every
\* other event belongs to the turn session.json names.
TurnOf(o, m) ==
    IF o.kind = "append" /\ o.type = "user_message" THEN m.event_seq + 1 ELSE m.turn

\* The lines written for the method, numbered from the meta it read.
NewEvents(o, m) ==
    IF o.kind = "derived"
    THEN [i \in 1..BatchSize |->
            [seq |-> m.event_seq + i, turn |-> o.turn, type |-> "derived",
             expected |-> o.expected, offset |-> i]]
    ELSE << [seq |-> m.event_seq + 1, turn |-> TurnOf(o, m), type |-> o.type,
             expected |-> NoSeq, offset |-> 1] >>

Lines(o) == IF o.kind = "derived" THEN BatchSize ELSE 1

\* The meta after them: derived events leave the turn identity alone.
MetaAfter(o, m) ==
    [event_seq |-> m.event_seq + Lines(o), turn |-> TurnOf(o, m),
     ws |-> m.ws, revision |-> m.revision, grants |-> m.grants]

\* events_path.open("a") and the write.
AppendLines(t) ==
    /\ pc[t] = "append"
    /\ events' = events \o NewEvents(op[t], held[t])
    /\ held' = [held EXCEPT ![t] = MetaAfter(op[t], held[t])]
    /\ Goto(t, "write")
    /\ UNCHANGED <<meta, temp, lock, op, crashes>>

\* Mutant: the lock is left before the rename.
WriteTempUnlocking(t) ==
    /\ pc[t] = "write"
    /\ temp' = held[t]
    /\ lock' = NoThread
    /\ Goto(t, "replace")
    /\ UNCHANGED <<meta, events, op, held, crashes>>

\* _write_state, first half: every writer uses the same session.json.tmp.
WriteTemp(t) ==
    /\ pc[t] = "write"
    /\ temp' = held[t]
    /\ Goto(t, "replace")
    /\ UNCHANGED <<meta, events, lock, op, held, crashes>>

\* _write_state, second half.  Another thread may have renamed the file away:
\* then os.replace raises and the method ends there.
Replace(t) ==
    /\ pc[t] = "replace"
    /\ meta' = IF temp = NoFile THEN meta ELSE temp
    /\ temp' = NoFile
    /\ lock' = IF Locked(op[t]) THEN NoThread ELSE lock
    /\ IF /\ temp # NoFile
          /\ op[t].kind = "transition"
          /\ op[t].tr.announce
       THEN /\ op' = [op EXCEPT ![t] = AppendOp("other")]
            /\ Goto(t, "enter")
            /\ UNCHANGED held
       ELSE Leave(t)
    /\ UNCHANGED <<events, crashes>>

\* The process dies; the next one finds the files as they are.
Crash ==
    /\ crashes < MaxCrashes
    /\ crashes' = crashes + 1
    /\ lock' = NoThread
    /\ pc' = [t \in Threads |-> "idle"]
    /\ op' = [t \in Threads |-> NoOp]
    /\ held' = [t \in Threads |-> InitialMeta]
    /\ UNCHANGED <<meta, temp, events>>

Step(t) == Acquire(t) \/ read_meta(t) \/ AppendLines(t) \/ WriteTemp(t) \/ Replace(t)

Call(t) ==
    \/ \E type \in EventTypes: append_event(t, type)
    \/ append_derived_events(t)
    \/ Mutate(t)

Next == Crash \/ \E t \in Threads: Call(t) \/ Step(t)

Spec == Init /\ [][Next]_vars
-----------------------------------------------------------------------------
(* Properties *)

Labels == {"idle", "enter", "read", "append", "write", "replace"}

\* The method a thread may be in, with its arguments.
IsOp(o) ==
    \/ o \in {NoOp, RevisionOp, GrantOp}
    \/ \E type \in EventTypes: o = AppendOp(type)
    \/ \E tr \in Transitions: o = TransitionOp(tr)
    \/ /\ o.kind = "derived" /\ o = DerivedOp(o.expected, o.turn)
       /\ o.expected \in Nat \cup {NoSeq} /\ o.turn \in Nat

PastLock(t) == pc[t] \in {"read", "append", "write", "replace"}

\* Every variable has its type; only a locked method enters the lock and
\* appends, and while it is past the lock its thread is the one that holds it.
TypeOK ==
    /\ meta \in Meta
    /\ temp \in Meta \cup {NoFile}
    /\ events \in Seq(Event)
    /\ lock \in Threads \cup {NoThread}
    /\ pc \in [Threads -> Labels]
    /\ op = [t \in Threads |-> op[t]] /\ \A t \in Threads: IsOp(op[t])
    /\ held \in [Threads -> Meta]
    /\ crashes \in 0..MaxCrashes
    /\ \A t \in Threads: pc[t] \in {"enter", "append"} => Locked(op[t])
    /\ \A t \in Threads: (Locked(op[t]) /\ PastLock(t)) => lock = t

\* With every writer inside the store lock and no crash, line i of events.jsonl
\* carries seq i: no number is used twice or skipped, whatever the threads'
\* interleaving (append_event, append_derived_events).
SeqIsPosition == \A i \in DOMAIN events: events[i].seq = i

\* Every event carries the turn opened by the latest user_message before it,
\* although _append_event takes the turn from session.json and not from the log,
\* and a condensation brings it along from its plan.  Only derived events that
\* are appended without an expected frontier may name an older turn.
TurnOfLatestMessage ==
    \A i \in DOMAIN events:
        LET messages == {j \in 1..i: events[j].type = "user_message"}
        IN  \/ events[i].type = "derived" /\ events[i].expected = NoSeq
            \/ messages = {} /\ events[i].turn = 0
            \/ \E j \in messages: /\ \A k \in messages: k <= j
                                   /\ events[i].turn = events[j].seq

\* A condensation that was planned on frontier e is appended directly behind
\* line e or not at all: no event of another thread lies between the frontier
\* its summary covers and the summary (expected_event_seq).
DerivedAtFrontier ==
    \A i \in DOMAIN events:
        (events[i].type = "derived" /\ events[i].expected # NoSeq)
            => i = events[i].expected + events[i].offset

\* Whatever the races and crashes, a number is used only after its predecessor
\* is in the log: 1..max has no hole (the ranges newly_covered_from_seq ..
\* newly_covered_to_seq rely on it).
NoHoles ==
    \A i \in DOMAIN events:
        events[i].seq > 1 =>
            \E j \in 1..(i - 1): events[j].seq = events[i].seq - 1

\* Numbers never go back along the log when one thread uses the store, even
\* across crashes: a crash between the line and session.json repeats the
\* numbers of that one append, and no earlier ones.
SeqNeverGoesBack ==
    \A i \in DOMAIN events: \A j \in 1..(i - 1):
        events[j].seq < events[i].seq + BatchSize

\* session.json falls behind the log by at most one append per crash (plus the
\* one in progress), so a restart never renumbers more than the last append.
LagBoundedByCrashes ==
    Len(events) - meta.event_seq <= BatchSize * (crashes + 1)

\* candidate_revision, which validation evidence is bound to, never decreases
\* in session.json (next_candidate_revision).
RevisionNeverGoesBack == [][meta'.revision >= meta.revision]_vars

\* docs/CONTEXT.md: an event's seq is the stable identity of a source item, so
\* no two lines carry the same one.
SeqIdentifiesEvent ==
    \A i, j \in DOMAIN events: events[i].seq = events[j].seq => i = j

\* An append lands where it was meant to: an event in the turn of the latest
\* message, a condensation directly behind the frontier its plan was made on
\* (append_event, append_derived_events).
AppendedWhereMeant == TurnOfLatestMessage /\ DerivedAtFrontier

\* What session.json counts survives a crash between any two file accesses: it
\* is never further behind the log than the appends that crashes cut off, and
\* neither numbers nor candidate revisions start over.
MetaSurvivesCrashes ==
    /\ [](SeqNeverGoesBack /\ LagBoundedByCrashes)
    /\ RevisionNeverGoesBack
=============================================================================
