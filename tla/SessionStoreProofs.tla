------------------------- MODULE SessionStoreProofs -------------------------
(***************************************************************************)
(* Proofs about SessionStore, for any number of threads and any bounds.    *)
(***************************************************************************)
EXTENDS SessionStore, TLAPS

\* The transitions lead to states of the workspace.
LEMMA TransitionTarget ==
    ASSUME NEW tr \in Transitions
    PROVE  tr.to \in SessionWorkspaceState
BY DEF Transitions, SessionWorkspaceState,
       begin_workspace_upgrade, activate_workspace, cancel_workspace_upgrade,
       begin_accept, begin_discard, finish_resolved, restore_changes_active,
       mark_workspace_tainted, mark_recovery_required

\* What a method's kind says about its arguments.
LEMMA OpArguments ==
    ASSUME NEW o, IsOp(o)
    PROVE  /\ o.kind = "transition" => o.tr \in Transitions
           /\ o.kind = "append" => o.type \in EventTypes
           /\ o.kind = "derived" => o.expected \in Nat \cup {NoSeq} /\ o.turn \in Nat
           /\ o.kind \in {"none", "append", "derived", "transition", "revision", "grant"}
<1>1. CASE o \in {NoOp, RevisionOp, GrantOp}
    BY <1>1 DEF NoOp, RevisionOp, GrantOp
<1>2. CASE \E type \in EventTypes: o = AppendOp(type)
    BY <1>2 DEF AppendOp
<1>3. CASE \E tr \in Transitions: o = TransitionOp(tr)
    BY <1>3 DEF TransitionOp
<1>4. CASE o.kind = "derived" /\ o.expected \in Nat \cup {NoSeq} /\ o.turn \in Nat
    BY <1>4
<1> QED BY <1>1, <1>2, <1>3, <1>4 DEF IsOp

\* The dict an unlocked method writes is well-formed if the one it read was.
LEMMA ModifiedType ==
    ASSUME NEW o, NEW m \in Meta, IsOp(o)
    PROVE  Modified(o, m) \in Meta /\ Modified(o, m).event_seq = m.event_seq
<1>1. o.kind = "transition" => o.tr.to \in SessionWorkspaceState
    BY OpArguments, TransitionTarget
<1> QED BY <1>1 DEF Modified, Meta

\* The lines of one append are numbered on from the dict it read.
LEMMA NewEventsType ==
    ASSUME NEW o, NEW m \in Meta, IsOp(o), Locked(o)
    PROVE  /\ NewEvents(o, m) \in Seq(Event)
           /\ Lines(o) \in Nat \ {0}
           /\ Len(NewEvents(o, m)) = Lines(o)
           /\ \A i \in 1..Lines(o): NewEvents(o, m)[i].seq = m.event_seq + i
<1> m.event_seq \in Nat /\ m.turn \in Nat
    BY DEF Meta
<1>1. CASE o.kind = "derived"
    <2>1. o.expected \in Nat \cup {NoSeq} /\ o.turn \in Nat
        BY <1>1, OpArguments
    <2>2. BatchSize \in Nat \ {0}
        BY StoreAssumption
    <2>3. \A i \in 1..BatchSize:
              [seq |-> m.event_seq + i, turn |-> o.turn, type |-> "derived",
               expected |-> o.expected, offset |-> i] \in Event
        BY <2>1, <2>2 DEF Event
    <2> QED BY <1>1, <2>2, <2>3 DEF NewEvents, Lines
<1>2. CASE o.kind = "append"
    <2>1. o.type \in EventTypes
        BY <1>2, OpArguments
    <2>2. TurnOf(o, m) \in Nat
        BY DEF TurnOf
    <2>3. [seq |-> m.event_seq + 1, turn |-> TurnOf(o, m), type |-> o.type,
           expected |-> NoSeq, offset |-> 1] \in Event
        BY <2>1, <2>2 DEF Event
    <2> QED BY <1>2, <2>3 DEF NewEvents, Lines
<1> QED BY <1>1, <1>2 DEF Locked

\* The dict an append writes back.
LEMMA MetaAfterType ==
    ASSUME NEW o, NEW m \in Meta, IsOp(o), Locked(o)
    PROVE  /\ MetaAfter(o, m) \in Meta
           /\ MetaAfter(o, m).event_seq = m.event_seq + Lines(o)
<1>1. Lines(o) \in Nat
    BY NewEventsType
<1>2. TurnOf(o, m) \in Nat
    BY DEF TurnOf, Meta
<1> QED BY <1>1, <1>2 DEF MetaAfter, Meta

-----------------------------------------------------------------------------
(* Type correctness *)

\* InitialMeta is a dict like the others.
LEMMA InitialMetaType == InitialMeta \in Meta
BY DEF InitialMeta, Meta, SessionWorkspaceState

\* The calls of a thread are methods of the store.
LEMMA OpTypes ==
    /\ IsOp(NoOp) /\ IsOp(RevisionOp) /\ IsOp(GrantOp)
    /\ \A type \in EventTypes: IsOp(AppendOp(type)) /\ Locked(AppendOp(type))
    /\ \A e \in Nat \cup {NoSeq}, n \in Nat: IsOp(DerivedOp(e, n)) /\ Locked(DerivedOp(e, n))
    /\ \A tr \in Transitions: IsOp(TransitionOp(tr)) /\ ~Locked(TransitionOp(tr))
    /\ ~Locked(NoOp) /\ ~Locked(RevisionOp) /\ ~Locked(GrantOp)
BY DEF IsOp, Locked, NoOp, RevisionOp, GrantOp, AppendOp, DerivedOp, TransitionOp

\* Init establishes TypeOK.
LEMMA InitTypeOK == Init => TypeOK
<1> SUFFICES ASSUME Init PROVE TypeOK
    OBVIOUS
<1> USE DEF Init
<1>1. events \in Seq(Event)
    BY DEF Event, EventTypes, NoSeq
<1>2. meta \in Meta /\ temp \in Meta \cup {NoFile} /\ held \in [Threads -> Meta]
    BY InitialMetaType
<1>3. op = [t \in Threads |-> op[t]] /\ \A t \in Threads: IsOp(op[t])
    BY OpTypes
<1>4. crashes \in 0..MaxCrashes
    BY StoreAssumption
<1>5. pc \in [Threads -> Labels] /\ \A t \in Threads: pc[t] = "idle"
    BY DEF Labels
<1> QED BY <1>1, <1>2, <1>3, <1>4, <1>5 DEF TypeOK, PastLock

\* Every step preserves TypeOK.
LEMMA NextTypeOK == TypeOK /\ [Next]_vars => TypeOK'
<1> SUFFICES ASSUME TypeOK, [Next]_vars PROVE TypeOK'
    OBVIOUS
<1> USE DEF TypeOK
<1>1. ASSUME NEW t \in Threads, NEW type \in EventTypes, append_event(t, type)
      PROVE  TypeOK'
    BY <1>1, OpTypes DEF append_event, Goto, Labels, PastLock
<1>2. ASSUME NEW t \in Threads, append_derived_events(t)
      PROVE  TypeOK'
    <2>1. PICK e \in Nat \cup {NoSeq}: op' = [op EXCEPT ![t] = DerivedOp(e, meta.turn)]
        BY <1>2 DEF append_derived_events, Meta
    <2>2. IsOp(DerivedOp(e, meta.turn)) /\ Locked(DerivedOp(e, meta.turn))
        BY OpTypes DEF Meta
    <2> QED BY <1>2, <2>1, <2>2 DEF append_derived_events, Goto, Labels, PastLock
<1>3. ASSUME NEW t \in Threads, Mutate(t)
      PROVE  TypeOK'
    <2>1. PICK o: op' = [op EXCEPT ![t] = o] /\ IsOp(o) /\ ~Locked(o)
        BY <1>3, OpTypes DEF Mutate
    <2> QED BY <1>3, <2>1 DEF Mutate, Goto, Labels, PastLock
<1>4. ASSUME NEW t \in Threads, Acquire(t)
      PROVE  TypeOK'
    <2>1. \A u \in Threads: ~(Locked(op[u]) /\ PastLock(u))
        BY <1>4, StoreAssumption DEF Acquire
    <2> QED BY <1>4, <2>1 DEF Acquire, Goto, Labels, PastLock
<1>5. ASSUME NEW t \in Threads, read_meta(t)
      PROVE  TypeOK'
    <2>1. CASE Rejected(op[t], meta)
        BY <1>5, <2>1, OpTypes, InitialMetaType
           DEF read_meta, Leave, Goto, Labels, PastLock
    <2>2. CASE ~Rejected(op[t], meta)
        <3>1. Modified(op[t], meta) \in Meta
            BY ModifiedType
        <3> QED BY <1>5, <2>2, <3>1 DEF read_meta, Goto, Labels, PastLock
    <2> QED BY <2>1, <2>2
<1>6. ASSUME NEW t \in Threads, AppendLines(t)
      PROVE  TypeOK'
    <2>1. Locked(op[t]) /\ IsOp(op[t]) /\ held[t] \in Meta
        BY <1>6 DEF AppendLines
    <2>2. NewEvents(op[t], held[t]) \in Seq(Event) /\ MetaAfter(op[t], held[t]) \in Meta
        BY <2>1, NewEventsType, MetaAfterType
    <2>3. events' \in Seq(Event)
        BY <1>6, <2>2 DEF AppendLines
    <2> QED BY <1>6, <2>1, <2>2, <2>3 DEF AppendLines, Goto, Labels, PastLock
<1>7. ASSUME NEW t \in Threads, WriteTemp(t)
      PROVE  TypeOK'
    BY <1>7 DEF WriteTemp, Goto, Labels, PastLock
<1>8. ASSUME NEW t \in Threads, Replace(t)
      PROVE  TypeOK'
    <2>1. meta' \in Meta /\ temp' = NoFile /\ events' = events /\ crashes' = crashes
        BY <1>8 DEF Replace
    <2>2. /\ lock' \in Threads \cup {NoThread}
          /\ \A u \in Threads \ {t}: (Locked(op[u]) /\ PastLock(u)) => lock' = u
        BY <1>8 DEF Replace, PastLock
    <2>3. CASE temp # NoFile /\ op[t].kind = "transition" /\ op[t].tr.announce
        <3>1. op' = [op EXCEPT ![t] = AppendOp("other")] /\ pc' = [pc EXCEPT ![t] = "enter"] /\ held' = held
            BY <1>8, <2>3 DEF Replace, Goto
        <3>2. IsOp(AppendOp("other")) /\ Locked(AppendOp("other"))
            BY OpTypes DEF EventTypes
        <3> QED BY <2>1, <2>2, <3>1, <3>2 DEF Labels, PastLock
    <2>4. CASE ~(temp # NoFile /\ op[t].kind = "transition" /\ op[t].tr.announce)
        <3>1. Leave(t)
            BY <1>8, <2>4 DEF Replace
        <3> QED BY <2>1, <2>2, <3>1, OpTypes, InitialMetaType DEF Leave, Goto, Labels, PastLock
    <2> QED BY <2>3, <2>4
<1>9. CASE Crash
    BY <1>9, OpTypes, InitialMetaType, StoreAssumption DEF Crash, Labels, PastLock
<1>10. CASE UNCHANGED vars
    BY <1>10 DEF vars, PastLock
<1> QED BY <1>1, <1>2, <1>3, <1>4, <1>5, <1>6, <1>7, <1>8, <1>9, <1>10 DEF Next, Call, Step

\* Type correctness of the store, the lock discipline of append_event and
\* append_derived_events included, for any threads, bounds and crashes.
THEOREM TypeCorrect == Spec => []TypeOK
BY InitTypeOK, NextTypeOK, PTL DEF Spec

-----------------------------------------------------------------------------
(* Numbers have no holes, whatever the races and crashes *)

\* A line with this number is in the log.
LoggedIn(log, n) == \E j \in 1..Len(log): log[j].seq = n

\* Every dict from which numbering may go on, on disk or in a thread's locals,
\* carries the number of a line in the log.
NumbersAreLogged ==
    /\ LoggedIn(events, 1)
    /\ LoggedIn(events, meta.event_seq)
    /\ temp # NoFile => LoggedIn(events, temp.event_seq)
    /\ \A t \in Threads: LoggedIn(events, held[t].event_seq)

\* The lines of two pieces of a log.
LEMMA ConcatLines ==
    ASSUME NEW S, NEW a \in Seq(S), NEW b \in Seq(S)
    PROVE  /\ Len(a \o b) = Len(a) + Len(b)
           /\ \A i \in 1..Len(a): (a \o b)[i] = a[i]
           /\ \A i \in 1..Len(b): (a \o b)[Len(a) + i] = b[i]
OBVIOUS

\* What an append adds to the log: the old lines stay, the new ones are
\* numbered on from the dict that was read.
LEMMA AppendedLines ==
    ASSUME TypeOK, NEW t \in Threads, AppendLines(t)
    PROVE  /\ Lines(op[t]) \in Nat \ {0}
           /\ Len(events') = Len(events) + Lines(op[t])
           /\ \A i \in 1..Len(events): events'[i] = events[i]
           /\ \A i \in 1..Lines(op[t]):
                  events'[Len(events) + i].seq = held[t].event_seq + i
           /\ held' = [held EXCEPT ![t] = MetaAfter(op[t], held[t])]
           /\ MetaAfter(op[t], held[t]).event_seq = held[t].event_seq + Lines(op[t])
           /\ held[t].event_seq \in Nat
<1>1. Locked(op[t]) /\ IsOp(op[t]) /\ held[t] \in Meta /\ events \in Seq(Event)
    BY DEF AppendLines, TypeOK
<1> DEFINE new == NewEvents(op[t], held[t])
<1>2. /\ new \in Seq(Event) /\ Len(new) = Lines(op[t]) /\ Lines(op[t]) \in Nat \ {0}
      /\ \A i \in 1..Lines(op[t]): new[i].seq = held[t].event_seq + i
    BY <1>1, NewEventsType
<1>3. events' = events \o new
    BY DEF AppendLines
<1> HIDE DEF new
<1>4. /\ Len(events') = Len(events) + Lines(op[t])
      /\ \A i \in 1..Len(events): events'[i] = events[i]
      /\ \A i \in 1..Lines(op[t]): events'[Len(events) + i] = new[i]
    <2>1. /\ Len(events \o new) = Len(events) + Len(new)
          /\ \A i \in 1..Len(events): (events \o new)[i] = events[i]
          /\ \A i \in 1..Len(new): (events \o new)[Len(events) + i] = new[i]
        <3>1. events \in Seq(Event) /\ new \in Seq(Event)
            BY <1>1, <1>2
        <3> QED BY <3>1, ConcatLines
    <2> QED BY <1>2, <1>3, <2>1
<1>5. held[t].event_seq \in Nat
    BY <1>1 DEF Meta
<1> QED BY <1>1, <1>2, <1>4, <1>5, MetaAfterType DEF AppendLines

\* Each new line's predecessor is in the log before it.
LEMMA AppendKeepsNoHoles ==
    ASSUME TypeOK, NumbersAreLogged, NoHoles, NEW t \in Threads, AppendLines(t)
    PROVE  NoHoles' /\ NumbersAreLogged'
<1> DEFINE L == Len(events)
           N == Lines(op[t])
           s == held[t].event_seq
<1>1. /\ N \in Nat \ {0} /\ L \in Nat /\ s \in Nat
      /\ Len(events') = L + N
      /\ \A i \in 1..L: events'[i] = events[i]
      /\ \A i \in 1..N: events'[L + i].seq = s + i
      /\ events \in Seq(Event) /\ DOMAIN events = 1..L
    BY AppendedLines DEF TypeOK
<1>2. DOMAIN events' = 1..(L + N)
    <2>1. TypeOK'
        BY NextTypeOK DEF Next, Step
    <2> QED BY <2>1, <1>1 DEF TypeOK
<1>3. \A n: LoggedIn(events, n) => LoggedIn(events', n)
    BY <1>1 DEF LoggedIn
<1>4. LoggedIn(events', s + N)
    <2>1. events'[L + N].seq = s + N /\ L + N \in 1..(L + N)
        BY <1>1
    <2> QED BY <2>1, <1>1 DEF LoggedIn
<1>5. NoHoles'
    <2> SUFFICES ASSUME NEW i \in 1..(L + N), events'[i].seq > 1
                 PROVE  \E j \in 1..(i - 1): events'[j].seq = events'[i].seq - 1
        BY <1>2 DEF NoHoles
    <2>1. CASE i <= L
        <3>1. PICK j \in 1..(i - 1): events[j].seq = events[i].seq - 1
            BY <1>1, <2>1 DEF NoHoles
        <3> QED BY <1>1, <2>1, <3>1
    <2>2. CASE i = L + 1
        <3>1. PICK j \in 1..L: events[j].seq = s
            BY DEF NumbersAreLogged, LoggedIn
        <3>2. events'[i].seq = s + 1
            BY <1>1, <2>2
        <3> QED BY <1>1, <2>2, <3>1, <3>2
    <2>3. CASE i > L + 1
        <3> DEFINE k == i - L
        <3>1. k \in 1..N
            <4>1. L \in Nat /\ N \in Nat
                BY <1>1
            <4> HIDE DEF L, N
            <4> QED BY <4>1, <2>3
        <3>2. k - 1 \in 1..N /\ L + k = i /\ L + (k - 1) = i - 1 /\ i - 1 \in 1..(i - 1)
            <4>1. L \in Nat /\ N \in Nat
                BY <1>1
            <4> HIDE DEF L, N
            <4> QED BY <4>1, <2>3, <3>1
        <3> HIDE DEF k
        <3>3. events'[L + k].seq = s + k /\ events'[L + (k - 1)].seq = s + (k - 1)
            BY <1>1, <3>1, <3>2
        <3>4. events'[i].seq = s + k /\ events'[i - 1].seq = s + (k - 1)
            BY <3>2, <3>3
        <3>5. s + (k - 1) = (s + k) - 1
            BY <1>1, <3>1
        <3> QED BY <3>2, <3>4, <3>5
    <2> QED BY <1>1, <2>1, <2>2, <2>3
<1>6. NumbersAreLogged'
    <2>1. meta' = meta /\ temp' = temp
        BY DEF AppendLines
    <2>2. held' = [held EXCEPT ![t] = MetaAfter(op[t], held[t])] /\ MetaAfter(op[t], held[t]).event_seq = s + N
        BY AppendedLines
    <2>3. held \in [Threads -> Meta]
        BY DEF TypeOK
    <2>4. \A u \in Threads: LoggedIn(events', held'[u].event_seq)
        BY <1>3, <1>4, <2>2, <2>3 DEF NumbersAreLogged
    <2> QED BY <1>3, <2>1, <2>4 DEF NumbersAreLogged
<1> QED BY <1>5, <1>6

\* Every other step moves a logged number from one dict to another.
LEMMA NextNoHoles ==
    TypeOK /\ NumbersAreLogged /\ NoHoles /\ [Next]_vars => NumbersAreLogged' /\ NoHoles'
<1> SUFFICES ASSUME TypeOK, NumbersAreLogged, NoHoles, [Next]_vars
             PROVE  NumbersAreLogged' /\ NoHoles'
    OBVIOUS
<1>1. ASSUME NEW t \in Threads, AppendLines(t)
      PROVE  NumbersAreLogged' /\ NoHoles'
    BY <1>1, AppendKeepsNoHoles
<1>2. ASSUME events' = events,
             meta' = meta \/ (temp # NoFile /\ meta' = temp),
             temp' \in {temp, NoFile} \/ \E t \in Threads: temp' = held[t],
             \A t \in Threads: held'[t].event_seq \in {held[t].event_seq, meta.event_seq, 1}
      PROVE  NumbersAreLogged' /\ NoHoles'
    <2>1. \A n: LoggedIn(events, n) <=> LoggedIn(events', n)
        BY <1>2 DEF LoggedIn
    <2>2. NoHoles'
        BY <1>2 DEF NoHoles
    <2>3. NumbersAreLogged'
        BY <1>2, <2>1 DEF NumbersAreLogged
    <2> QED BY <2>2, <2>3
<1> InitialMeta.event_seq = 1
    BY DEF InitialMeta
<1> held \in [Threads -> Meta]
    BY DEF TypeOK
<1>3. ASSUME NEW t \in Threads, Call(t)
      PROVE  NumbersAreLogged' /\ NoHoles'
    BY <1>3, <1>2 DEF Call, append_event, append_derived_events, Mutate
<1>4. ASSUME NEW t \in Threads, Acquire(t)
      PROVE  NumbersAreLogged' /\ NoHoles'
    BY <1>4, <1>2 DEF Acquire
<1>5. ASSUME NEW t \in Threads, read_meta(t)
      PROVE  NumbersAreLogged' /\ NoHoles'
    <2>1. Modified(op[t], meta).event_seq = meta.event_seq
        BY ModifiedType DEF TypeOK
    <2> QED BY <1>5, <2>1, <1>2 DEF read_meta, Leave
<1>6. ASSUME NEW t \in Threads, WriteTemp(t)
      PROVE  NumbersAreLogged' /\ NoHoles'
    BY <1>6, <1>2 DEF WriteTemp
<1>7. ASSUME NEW t \in Threads, Replace(t)
      PROVE  NumbersAreLogged' /\ NoHoles'
    BY <1>7, <1>2 DEF Replace, Leave
<1>8. CASE Crash
    BY <1>8, <1>2 DEF Crash
<1>9. CASE UNCHANGED vars
    BY <1>9, <1>2 DEF vars
<1> QED BY <1>1, <1>3, <1>4, <1>5, <1>6, <1>7, <1>8, <1>9 DEF Next, Step

\* Although most methods write session.json without the lock, and although the
\* process may die between any two file accesses, a number never appears in
\* events.jsonl before its predecessor: 1..max has no hole.
THEOREM NumbersHaveNoHoles == Spec => []NoHoles
<1>1. Init => NumbersAreLogged /\ NoHoles
    BY DEF Init, InitialMeta, NumbersAreLogged, NoHoles, LoggedIn
<1> QED BY <1>1, TypeCorrect, NextNoHoles, PTL DEF Spec

-----------------------------------------------------------------------------
(* Numbers are positions, when every writer takes the lock *)

InFileStep(t) == pc[t] \in {"write", "replace"}

\* How far behind the log session.json may be: by the append of the thread that
\* holds the lock, and only until that thread has renamed its file.
LockedNumbering ==
    /\ \A t \in Threads: pc[t] # "idle" => Locked(op[t])
    /\ \A t \in Threads: pc[t] = "append" => held[t].event_seq = meta.event_seq
    /\ \A t \in Threads: pc[t] = "write" => held[t].event_seq = Len(events)
    /\ \A t \in Threads: pc[t] = "replace" => temp # NoFile /\ temp.event_seq = Len(events)
    /\ (\A t \in Threads: ~InFileStep(t)) => meta.event_seq = Len(events)

\* The lock excludes: while one thread is past it no other is.
LEMMA OneWriter ==
    ASSUME TypeOK, LockedNumbering, NEW t \in Threads, PastLock(t)
    PROVE  lock = t /\ \A u \in Threads \ {t}: ~PastLock(u)
BY DEF TypeOK, LockedNumbering, PastLock

\* Every step of locked writers keeps the numbering.
LEMMA NextLockedNumbering ==
    ASSUME Mutators = {}, MaxCrashes = 0, TypeOK, LockedNumbering, SeqIsPosition, [Next]_vars
    PROVE  LockedNumbering' /\ SeqIsPosition'
<1> pc \in [Threads -> Labels] /\ held \in [Threads -> Meta] /\ Len(events) \in Nat
    BY DEF TypeOK
<1>0. op = [u \in Threads |-> op[u]]
    BY DEF TypeOK
<1>1. ASSUME NEW t \in Threads, Call(t)
      PROVE  LockedNumbering' /\ SeqIsPosition'
    <2>1. PICK o: op' = [op EXCEPT ![t] = o] /\ Locked(o)
        <3>1. CASE \E type \in EventTypes: append_event(t, type)
            <4>1. PICK type \in EventTypes: append_event(t, type)
                BY <3>1
            <4>2. op' = [op EXCEPT ![t] = AppendOp(type)] /\ Locked(AppendOp(type))
                BY <4>1, OpTypes DEF append_event
            <4> QED BY <4>2
        <3>2. CASE append_derived_events(t)
            <4>1. PICK e: op' = [op EXCEPT ![t] = DerivedOp(e, meta.turn)]
                BY <3>2 DEF append_derived_events
            <4>2. Locked(DerivedOp(e, meta.turn))
                BY DEF Locked, DerivedOp
            <4> QED BY <4>1, <4>2
        <3>3. ~Mutate(t)
            BY DEF Mutate
        <3> QED BY <1>1, <3>1, <3>2, <3>3 DEF Call
    <2>2. /\ pc[t] = "idle" /\ pc' = [pc EXCEPT ![t] = "enter"]
          /\ UNCHANGED <<meta, temp, events, lock, held, crashes>>
        BY <1>1 DEF Call, append_event, append_derived_events, Mutate, Goto
    <2> QED BY <1>0, <2>1, <2>2 DEF LockedNumbering, SeqIsPosition, InFileStep
<1>2. ASSUME NEW t \in Threads, Acquire(t)
      PROVE  LockedNumbering' /\ SeqIsPosition'
    BY <1>2 DEF Acquire, Goto, LockedNumbering, SeqIsPosition, InFileStep
<1>3. ASSUME NEW t \in Threads, read_meta(t)
      PROVE  LockedNumbering' /\ SeqIsPosition'
    <2>1. Modified(op[t], meta).event_seq = meta.event_seq
        BY ModifiedType DEF TypeOK
    <2>2. Locked(op[t]) /\ UNCHANGED <<meta, temp, events>>
        BY <1>3 DEF read_meta, LockedNumbering
    <2>3. CASE Rejected(op[t], meta)
        BY <1>0, <1>3, <2>2, <2>3 DEF read_meta, Leave, Goto, LockedNumbering, SeqIsPosition, InFileStep
    <2>4. CASE ~Rejected(op[t], meta)
        BY <1>3, <2>1, <2>2, <2>4 DEF read_meta, Goto, LockedNumbering, SeqIsPosition, InFileStep
    <2> QED BY <2>3, <2>4
<1>4. ASSUME NEW t \in Threads, AppendLines(t)
      PROVE  LockedNumbering' /\ SeqIsPosition'
    <2> DEFINE L == Len(events)
               N == Lines(op[t])
    <2>1. pc[t] = "append" /\ \A u \in Threads \ {t}: ~PastLock(u)
        BY <1>4, OneWriter DEF AppendLines, PastLock
    <2>2. held[t].event_seq = L
        BY <2>1 DEF LockedNumbering, InFileStep, PastLock
    <2>3. /\ N \in Nat \ {0} /\ Len(events') = L + N
          /\ \A i \in 1..L: events'[i] = events[i]
          /\ \A i \in 1..N: events'[L + i].seq = L + i
          /\ held' = [held EXCEPT ![t] = MetaAfter(op[t], held[t])]
          /\ MetaAfter(op[t], held[t]).event_seq = L + N
        BY <1>4, <2>2, AppendedLines
    <2>4. DOMAIN events = 1..L /\ DOMAIN events' = 1..(L + N)
        <3>1. TypeOK'
            BY <1>4, NextTypeOK DEF Next, Step
        <3> QED BY <2>3, <3>1 DEF TypeOK
    <2>5. SeqIsPosition'
        <3> SUFFICES ASSUME NEW i \in 1..(L + N)
                     PROVE  events'[i].seq = i
            BY <2>4 DEF SeqIsPosition
        <3>1. CASE i \in 1..L
            BY <2>3, <2>4, <3>1 DEF SeqIsPosition
        <3>2. CASE i \notin 1..L
            <4> DEFINE k == i - L
            <4>1. k \in 1..N /\ L + k = i
                <5>1. L \in Nat /\ N \in Nat
                    BY <2>3
                <5> HIDE DEF L, N
                <5> QED BY <5>1, <3>2
            <4> HIDE DEF k
            <4>2. events'[L + k].seq = L + k
                BY <2>3, <4>1
            <4> QED BY <4>1, <4>2
        <3> QED BY <3>1, <3>2
    <2>6. pc' = [pc EXCEPT ![t] = "write"] /\ UNCHANGED <<meta, temp, lock, op>>
        BY <1>4 DEF AppendLines, Goto
    <2>7. LockedNumbering'
        BY <2>1, <2>3, <2>6 DEF LockedNumbering, InFileStep, PastLock
    <2> QED BY <2>5, <2>7
<1>5. ASSUME NEW t \in Threads, WriteTemp(t)
      PROVE  LockedNumbering' /\ SeqIsPosition'
    <2>1. \A u \in Threads \ {t}: ~PastLock(u)
        BY <1>5, OneWriter DEF WriteTemp, PastLock
    <2>2. held[t] \in Meta /\ held[t] # NoFile
        BY NoFileAssumption
    <2> QED BY <1>5, <2>1, <2>2 DEF WriteTemp, Goto, LockedNumbering, SeqIsPosition, InFileStep, PastLock
<1>6. ASSUME NEW t \in Threads, Replace(t)
      PROVE  LockedNumbering' /\ SeqIsPosition'
    <2>1. \A u \in Threads \ {t}: ~PastLock(u)
        BY <1>6, OneWriter DEF Replace, PastLock
    <2>2. Locked(op[t]) /\ temp # NoFile /\ temp.event_seq = Len(events)
        BY <1>6 DEF Replace, LockedNumbering
    <2>3. Leave(t) /\ meta' = temp /\ events' = events
        BY <1>6, <2>2 DEF Replace, Locked
    <2> QED BY <1>0, <2>1, <2>2, <2>3 DEF Leave, Goto, LockedNumbering, SeqIsPosition, InFileStep, PastLock
<1>7. CASE Crash
    BY <1>7 DEF Crash, TypeOK
<1>8. CASE UNCHANGED vars
    BY <1>8 DEF vars, LockedNumbering, SeqIsPosition, InFileStep
<1> QED BY <1>1, <1>2, <1>3, <1>4, <1>5, <1>6, <1>7, <1>8 DEF Next, Step

\* When no thread calls an unlocked method and the process does not die, line i
\* of events.jsonl carries number i, whatever the number of threads: the lock
\* of append_event and append_derived_events is enough.
THEOREM LockedNumbersArePositions ==
    ASSUME Mutators = {}, MaxCrashes = 0
    PROVE  Spec => []SeqIsPosition
<1>1. Init => LockedNumbering /\ SeqIsPosition
    BY DEF Init, InitialMeta, LockedNumbering, SeqIsPosition, InFileStep
<1>2. TypeOK /\ LockedNumbering /\ SeqIsPosition /\ [Next]_vars => LockedNumbering' /\ SeqIsPosition'
    BY NextLockedNumbering
<1> QED BY <1>1, <1>2, TypeCorrect, PTL DEF Spec

-----------------------------------------------------------------------------
(* Every event is in the turn of the latest message, every condensation     *)
(* directly behind its frontier, when every writer takes the lock           *)

\* x names the turn that the first n lines of the log are in.
TurnAt(log, n, x) ==
    \/ x = 0 /\ \A k \in 1..n: log[k].type # "user_message"
    \/ \E j \in 1..n: /\ log[j].type = "user_message" /\ x = log[j].seq
                      /\ \A k \in 1..n: log[k].type = "user_message" => k <= j

\* A condensation whose plan named a frontier.
Planned(o) == o.kind = "derived" /\ o.expected # NoSeq

\* Every turn that session.json, its replacement or a plan names is the turn of
\* the lines it was read behind; the thread that appends has checked its plan.
TurnsAreLogged ==
    /\ meta.event_seq <= Len(events) /\ TurnAt(events, meta.event_seq, meta.turn)
    /\ \A t \in Threads: pc[t] = "append" =>
           /\ held[t].turn = meta.turn
           /\ Planned(op[t]) => op[t].expected = held[t].event_seq
    /\ \A t \in Threads: pc[t] = "write" => TurnAt(events, held[t].event_seq, held[t].turn)
    /\ \A t \in Threads: pc[t] = "replace" => TurnAt(events, temp.event_seq, temp.turn)
    /\ \A t \in Threads: (pc[t] # "idle" /\ Planned(op[t])) =>
           op[t].expected <= Len(events) /\ TurnAt(events, op[t].expected, op[t].turn)

\* What AppendedWhereMeant says of line i.
InPlace(log, i) ==
    /\ \/ log[i].type = "derived" /\ log[i].expected = NoSeq
       \/ TurnAt(log, i, log[i].turn)
    /\ (log[i].type = "derived" /\ log[i].expected # NoSeq)
           => i = log[i].expected + log[i].offset

\* Lines that are not messages do not change the turn.
LEMMA TurnAtExtends ==
    ASSUME NEW old, NEW new, NEW n \in Nat, NEW m \in Nat, n <= m, NEW x,
           \A i \in 1..n: new[i] = old[i],
           \A i \in (n + 1)..m: new[i].type # "user_message",
           TurnAt(old, n, x)
    PROVE  TurnAt(new, m, x)
<1>1. CASE x = 0 /\ \A k \in 1..n: old[k].type # "user_message"
    <2>1. \A k \in 1..m: new[k].type # "user_message"
        <3> TAKE k \in 1..m
        <3>1. k \in 1..n \/ k \in (n + 1)..m
            OBVIOUS
        <3> QED BY <1>1, <3>1
    <2> QED BY <1>1, <2>1 DEF TurnAt
<1>2. CASE \E j \in 1..n: /\ old[j].type = "user_message" /\ x = old[j].seq
                          /\ \A k \in 1..n: old[k].type = "user_message" => k <= j
    <2>1. PICK j \in 1..n: /\ old[j].type = "user_message" /\ x = old[j].seq
                           /\ \A k \in 1..n: old[k].type = "user_message" => k <= j
        BY <1>2
    <2>2. j \in 1..m /\ new[j].type = "user_message" /\ x = new[j].seq
        BY <2>1
    <2>3. \A k \in 1..m: new[k].type = "user_message" => k <= j
        <3> TAKE k \in 1..m
        <3>1. k \in 1..n \/ k \in (n + 1)..m
            OBVIOUS
        <3> QED BY <2>1, <3>1
    <2> QED BY <2>2, <2>3 DEF TurnAt
<1> QED BY <1>1, <1>2 DEF TurnAt

\* The turn behind a line depends only on the lines up to it.
LEMMA TurnAtKept ==
    ASSUME NEW old, NEW new, NEW n \in Nat, NEW x,
           \A i \in 1..n: new[i] = old[i],
           TurnAt(old, n, x)
    PROVE  TurnAt(new, n, x)
<1>1. n <= n /\ (n + 1)..n = {}
    OBVIOUS
<1>2. \A i \in (n + 1)..n: new[i].type # "user_message"
    BY <1>1
<1> QED BY <1>1, <1>2, TurnAtExtends

\* The lines an append adds, one by one.
LEMMA AppendedContent ==
    ASSUME TypeOK, NEW t \in Threads, AppendLines(t)
    PROVE  /\ \A i \in 1..Lines(op[t]): events'[Len(events) + i] = NewEvents(op[t], held[t])[i]
           /\ DOMAIN events = 1..Len(events) /\ Len(events) \in Nat
           /\ DOMAIN events' = 1..(Len(events) + Lines(op[t]))
<1>1. Locked(op[t]) /\ IsOp(op[t]) /\ held[t] \in Meta /\ events \in Seq(Event)
    BY DEF AppendLines, TypeOK
<1> DEFINE new == NewEvents(op[t], held[t])
<1>2. new \in Seq(Event) /\ Len(new) = Lines(op[t])
    BY <1>1, NewEventsType
<1>3. events' = events \o new
    BY DEF AppendLines
<1> HIDE DEF new
<1>4. \A i \in 1..Len(new): (events \o new)[Len(events) + i] = new[i]
    BY <1>1, <1>2, ConcatLines
<1>5. Len(events') = Len(events) + Lines(op[t]) /\ events' \in Seq(Event)
    <2>1. TypeOK'
        BY NextTypeOK DEF Next, Step
    <2> QED BY <2>1, AppendedLines DEF TypeOK
<1> QED BY <1>1, <1>2, <1>3, <1>4, <1>5 DEF new

\* The property as a statement about each line of the log.
LEMMA AllInPlace == AppendedWhereMeant <=> \A i \in DOMAIN events: InPlace(events, i)
<1>1. TurnOfLatestMessage <=>
        \A i \in DOMAIN events:
            \/ events[i].type = "derived" /\ events[i].expected = NoSeq
            \/ TurnAt(events, i, events[i].turn)
    BY DEF TurnOfLatestMessage, TurnAt
<1> QED BY <1>1 DEF AppendedWhereMeant, DerivedAtFrontier, InPlace

\* After an append: the lines carry the turn the log is in, and so does the
\* dict that will be written back.
LEMMA AppendKeepsTurns ==
    ASSUME TypeOK, LockedNumbering, SeqIsPosition, TurnsAreLogged, AppendedWhereMeant,
           NEW t \in Threads, AppendLines(t), \A u \in Threads \ {t}: ~PastLock(u)
    PROVE  TurnsAreLogged' /\ AppendedWhereMeant'
<1> DEFINE L == Len(events)
           N == Lines(op[t])
           o == op[t]
           m == held[t]
<1>1. pc[t] = "append" /\ Locked(o) /\ IsOp(o) /\ m \in Meta /\ m.event_seq \in Nat /\ m.turn \in Nat
    BY DEF AppendLines, TypeOK, Meta
<1>2. /\ m.event_seq = meta.event_seq /\ meta.event_seq = L /\ m.turn = meta.turn
      /\ TurnAt(events, L, m.turn)
    BY <1>1 DEF LockedNumbering, InFileStep, PastLock, TurnsAreLogged
<1>3. /\ N \in Nat \ {0} /\ L \in Nat
      /\ \A i \in 1..L: events'[i] = events[i]
      /\ \A i \in 1..N: events'[L + i] = NewEvents(o, m)[i]
      /\ DOMAIN events = 1..L /\ DOMAIN events' = 1..(L + N)
      /\ Len(events') = L + N
    BY AppendedLines, AppendedContent
<1>4. \A i \in 1..(L + N): i \in 1..L \/ (i - L \in 1..N /\ L + (i - L) = i)
    <2>1. L \in Nat /\ N \in Nat
        BY <1>3
    <2> HIDE DEF L, N
    <2> QED BY <2>1
<1> HIDE DEF L, N
<1>5. /\ \A i \in 1..N: InPlace(events', L + i)
      /\ TurnAt(events', L + N, MetaAfter(o, m).turn)
    <2>1. CASE o.kind = "derived"
        <3>1. N = BatchSize /\ TurnOf(o, m) = m.turn /\ MetaAfter(o, m).turn = m.turn
            BY <2>1 DEF N, Lines, TurnOf, MetaAfter
        <3>2. ASSUME NEW i \in 1..N
              PROVE  /\ events'[L + i].turn = o.turn /\ events'[L + i].type = "derived"
                     /\ events'[L + i].expected = o.expected /\ events'[L + i].offset = i
            <4>1. NewEvents(o, m)[i] =
                      [seq |-> m.event_seq + i, turn |-> o.turn, type |-> "derived",
                       expected |-> o.expected, offset |-> i]
                BY <2>1, <3>1 DEF NewEvents
            <4>2. events'[L + i] = NewEvents(o, m)[i]
                BY <1>3
            <4> QED BY <4>1, <4>2
        <3>3. \A i \in (L + 1)..(L + N): events'[i].type # "user_message"
            <4> TAKE i \in (L + 1)..(L + N)
            <4>1. i - L \in 1..N /\ L + (i - L) = i
                BY <1>3
            <4>2. \A j \in 1..N: events'[L + j].type = "derived"
                BY <3>2
            <4>3. events'[L + (i - L)].type = "derived"
                BY <4>1, <4>2
            <4> QED BY <4>1, <4>3
        <3>4. ASSUME NEW x, TurnAt(events, L, x), NEW k \in 1..N
              PROVE  TurnAt(events', L + k, x)
            <4>1. \A i \in (L + 1)..(L + k): events'[i].type # "user_message"
                BY <1>3, <3>3
            <4>2. L + k \in Nat /\ L <= L + k
                BY <1>3
            <4>3. L \in Nat /\ \A i \in 1..L: events'[i] = events[i]
                BY <1>3
            <4>4. TurnAt(events, L, x)
                BY <3>4
            <4> QED BY <4>1, <4>2, <4>3, <4>4, TurnAtExtends
        <3>5. o.expected # NoSeq => o.expected = L /\ TurnAt(events, L, o.turn)
            BY <1>1, <1>2, <2>1 DEF TurnsAreLogged, Planned
        <3>6. ASSUME NEW i \in 1..N
              PROVE  InPlace(events', L + i)
            <4>1. o.expected # NoSeq => TurnAt(events', L + i, o.turn)
                BY <3>4, <3>5
            <4> QED BY <3>2, <3>5, <4>1 DEF InPlace
        <3>7. TurnAt(events', L + N, m.turn)
            <4>1. N \in 1..N
                BY <1>3
            <4> QED BY <1>2, <3>4, <4>1
        <3> QED BY <3>1, <3>6, <3>7
    <2>2. CASE o.kind = "append"
        <3>1. N = 1 /\ MetaAfter(o, m).turn = TurnOf(o, m)
            BY <2>2 DEF N, Lines, MetaAfter
        <3>2. events'[L + 1] = [seq |-> m.event_seq + 1, turn |-> TurnOf(o, m), type |-> o.type,
                                expected |-> NoSeq, offset |-> 1]
            BY <1>3, <2>2, <3>1 DEF NewEvents
        <3>3. o.type \in {"user_message", "other"}
            BY <1>1, <2>2, OpArguments DEF EventTypes
        <3>4. TurnAt(events', L + 1, TurnOf(o, m))
            <4>1. CASE o.type = "user_message"
                <5>1. TurnOf(o, m) = m.event_seq + 1
                    BY <2>2, <4>1 DEF TurnOf
                <5>2. L + 1 \in 1..(L + 1) /\ \A k \in 1..(L + 1): k <= L + 1
                    BY <1>3
                <5> QED BY <3>2, <4>1, <5>1, <5>2 DEF TurnAt
            <4>2. CASE o.type = "other"
                <5>1. TurnOf(o, m) = m.turn
                    BY <2>2, <4>2 DEF TurnOf
                <5>2. \A i \in (L + 1)..(L + 1): events'[i].type # "user_message"
                    BY <1>3, <3>2, <4>2
                <5>3. L + 1 \in Nat /\ L <= L + 1
                    BY <1>3
                <5>4. TurnAt(events', L + 1, m.turn)
                    BY <1>2, <1>3, <5>2, <5>3, TurnAtExtends
                <5> QED BY <5>1, <5>4
            <4> QED BY <3>3, <4>1, <4>2
        <3>5. events'[L + 1].type # "derived" /\ events'[L + 1].turn = TurnOf(o, m)
            BY <3>2, <3>3
        <3>6. \A i \in 1..N: i = 1
            BY <3>1
        <3>7. InPlace(events', L + 1)
            BY <3>4, <3>5 DEF InPlace
        <3> QED BY <3>1, <3>4, <3>6, <3>7
    <2> QED BY <1>1, <2>1, <2>2 DEF Locked
<1>6. \A n \in 0..L: \A x: TurnAt(events, n, x) => TurnAt(events', n, x)
    <2> SUFFICES ASSUME NEW n \in 0..L, NEW x, TurnAt(events, n, x)
                 PROVE  TurnAt(events', n, x)
        OBVIOUS
    <2>1. n \in Nat /\ \A i \in 1..n: events'[i] = events[i]
        BY <1>3
    <2> QED BY ONLY <2>1, TurnAt(events, n, x), TurnAtKept
<1>7. AppendedWhereMeant'
    <2> SUFFICES ASSUME NEW i \in 1..(L + N)
                 PROVE  InPlace(events', i)
        <3>1. (AppendedWhereMeant <=> \A i \in DOMAIN events: InPlace(events, i))'
            BY AllInPlace, PTL
        <3> QED BY <1>3, <3>1
    <2>1. CASE i \in 1..L
        <3>1. InPlace(events, i)
            BY <1>3, <2>1, AllInPlace
        <3>2. events'[i] = events[i] /\ i \in 0..L
            BY <1>3, <2>1
        <3>3. TurnAt(events, i, events[i].turn) => TurnAt(events', i, events[i].turn)
            BY <1>6, <3>2
        <3> QED BY <3>1, <3>2, <3>3 DEF InPlace
    <2>2. CASE i - L \in 1..N /\ L + (i - L) = i
        BY <1>5, <2>2
    <2> QED BY <1>4, <2>1, <2>2
<1>8. TurnsAreLogged'
    <2>1. /\ pc' = [pc EXCEPT ![t] = "write"] /\ UNCHANGED <<meta, temp, lock, op>>
          /\ held' = [held EXCEPT ![t] = MetaAfter(o, m)]
          /\ pc \in [Threads -> Labels] /\ held \in [Threads -> Meta]
        BY DEF AppendLines, Goto, TypeOK
    <2>2. meta'.event_seq <= Len(events') /\ TurnAt(events', meta'.event_seq, meta'.turn)
        BY <1>2, <1>3, <1>6, <2>1
    <2>3. held'[t].event_seq = L + N /\ TurnAt(events', held'[t].event_seq, held'[t].turn)
        BY <1>2, <1>5, <2>1, AppendedLines DEF N
    <2>4. \A u \in Threads: (pc'[u] # "idle" /\ Planned(op'[u])) =>
              op'[u].expected <= Len(events') /\ TurnAt(events', op'[u].expected, op'[u].turn)
        <3> SUFFICES ASSUME NEW u \in Threads, pc'[u] # "idle", Planned(op[u])
                     PROVE  op[u].expected <= Len(events') /\ TurnAt(events', op[u].expected, op[u].turn)
            BY <2>1
        <3>1. op[u].expected <= L /\ TurnAt(events, op[u].expected, op[u].turn)
            BY <1>1, <2>1 DEF TurnsAreLogged, L
        <3>2. op[u].expected \in 0..L
            BY <1>3, <3>1, OpArguments DEF TypeOK, Planned
        <3> QED BY <1>3, <1>6, <3>1, <3>2
    <2> QED BY <2>1, <2>2, <2>3, <2>4 DEF TurnsAreLogged, PastLock
<1> QED BY <1>7, <1>8

\* Every step of locked writers keeps the lines in their turns.
LEMMA NextTurns ==
    ASSUME Mutators = {}, MaxCrashes = 0, TypeOK, LockedNumbering, SeqIsPosition,
           TurnsAreLogged, AppendedWhereMeant, [Next]_vars
    PROVE  TurnsAreLogged' /\ AppendedWhereMeant'
<1> /\ pc \in [Threads -> Labels] /\ held \in [Threads -> Meta] /\ Len(events) \in Nat
    /\ meta \in Meta /\ meta.event_seq \in Nat /\ op = [u \in Threads |-> op[u]]
    BY DEF TypeOK, Meta
<1>0. ASSUME events' = events PROVE AppendedWhereMeant'
    BY <1>0 DEF AppendedWhereMeant, TurnOfLatestMessage, DerivedAtFrontier
<1>1. ASSUME NEW t \in Threads, Call(t)
      PROVE  TurnsAreLogged' /\ AppendedWhereMeant'
    <2>1. PICK o: /\ op' = [op EXCEPT ![t] = o]
                  /\ Planned(o) => o.expected = meta.event_seq /\ o.turn = meta.turn
        <3>1. CASE \E type \in EventTypes: append_event(t, type)
            <4>1. PICK type \in EventTypes: append_event(t, type)
                BY <3>1
            <4>2. op' = [op EXCEPT ![t] = AppendOp(type)] /\ ~Planned(AppendOp(type))
                BY <4>1 DEF append_event, Planned, AppendOp
            <4> QED BY <4>2
        <3>2. CASE append_derived_events(t)
            <4>1. PICK e \in {meta.event_seq, NoSeq}: op' = [op EXCEPT ![t] = DerivedOp(e, meta.turn)]
                BY <3>2 DEF append_derived_events
            <4>2. Planned(DerivedOp(e, meta.turn)) => e = meta.event_seq
                BY <4>1 DEF Planned, DerivedOp
            <4>3. DerivedOp(e, meta.turn).expected = e /\ DerivedOp(e, meta.turn).turn = meta.turn
                BY DEF DerivedOp
            <4> QED BY <4>1, <4>2, <4>3
        <3>3. ~Mutate(t)
            BY DEF Mutate
        <3> QED BY <1>1, <3>1, <3>2, <3>3 DEF Call
    <2>2. /\ pc[t] = "idle" /\ pc' = [pc EXCEPT ![t] = "enter"]
          /\ UNCHANGED <<meta, temp, events, lock, held, crashes>>
        BY <1>1 DEF Call, append_event, append_derived_events, Mutate, Goto
    <2>3. op'[t] = o /\ \A u \in Threads \ {t}: op'[u] = op[u]
        BY <2>1
    <2>4. TurnsAreLogged'
        BY <2>1, <2>2, <2>3 DEF TurnsAreLogged
    <2> QED BY <1>0, <2>2, <2>4
<1>2. ASSUME NEW t \in Threads, Acquire(t)
      PROVE  TurnsAreLogged' /\ AppendedWhereMeant'
    BY <1>0, <1>2 DEF Acquire, Goto, TurnsAreLogged
<1>3. ASSUME NEW t \in Threads, read_meta(t)
      PROVE  TurnsAreLogged' /\ AppendedWhereMeant'
    <2>1. UNCHANGED <<meta, temp, events>> /\ pc[t] = "read" /\ Locked(op[t])
        BY <1>3 DEF read_meta, LockedNumbering
    <2>2. CASE Rejected(op[t], meta)
        <3>1. /\ pc' = [pc EXCEPT ![t] = "idle"] /\ op' = [op EXCEPT ![t] = NoOp]
              /\ held' = [held EXCEPT ![t] = InitialMeta]
            BY <1>3, <2>2 DEF read_meta, Leave, Goto
        <3>2. \A u \in Threads \ {t}: op'[u] = op[u] /\ pc'[u] = pc[u] /\ held'[u] = held[u]
            BY <3>1
        <3>3. TurnsAreLogged'
            BY <2>1, <3>1, <3>2 DEF TurnsAreLogged
        <3> QED BY <1>0, <2>1, <3>3
    <2>3. CASE ~Rejected(op[t], meta)
        <3>1. Modified(op[t], meta).turn = meta.turn /\ Modified(op[t], meta).event_seq = meta.event_seq
            BY DEF Modified
        <3>2. Planned(op[t]) => op[t].expected = meta.event_seq
            BY <2>3 DEF Planned, Rejected
        <3>3. pc' = [pc EXCEPT ![t] = "append"] /\ op' = op /\ held' = [held EXCEPT ![t] = Modified(op[t], meta)]
            BY <1>3, <2>1, <2>3 DEF read_meta, Goto
        <3>4. TurnsAreLogged'
            BY <2>1, <3>1, <3>2, <3>3 DEF TurnsAreLogged
        <3> QED BY <1>0, <2>1, <3>4
    <2> QED BY <2>2, <2>3
<1>4. ASSUME NEW t \in Threads, AppendLines(t)
      PROVE  TurnsAreLogged' /\ AppendedWhereMeant'
    <2>1. \A u \in Threads \ {t}: ~PastLock(u)
        BY <1>4, OneWriter DEF AppendLines, PastLock
    <2> QED BY <1>4, <2>1, AppendKeepsTurns
<1>5. ASSUME NEW t \in Threads, WriteTemp(t)
      PROVE  TurnsAreLogged' /\ AppendedWhereMeant'
    <2>1. \A u \in Threads \ {t}: ~PastLock(u)
        BY <1>5, OneWriter DEF WriteTemp, PastLock
    <2> QED BY <1>0, <1>5, <2>1 DEF WriteTemp, Goto, TurnsAreLogged, PastLock
<1>6. ASSUME NEW t \in Threads, Replace(t)
      PROVE  TurnsAreLogged' /\ AppendedWhereMeant'
    <2>1. \A u \in Threads \ {t}: ~PastLock(u)
        BY <1>6, OneWriter DEF Replace, PastLock
    <2>2. /\ Locked(op[t]) /\ temp # NoFile /\ temp.event_seq = Len(events)
          /\ TurnAt(events, temp.event_seq, temp.turn)
        BY <1>6 DEF Replace, LockedNumbering, TurnsAreLogged
    <2>3. /\ meta' = temp /\ events' = events
          /\ pc' = [pc EXCEPT ![t] = "idle"] /\ op' = [op EXCEPT ![t] = NoOp]
          /\ held' = [held EXCEPT ![t] = InitialMeta]
        BY <1>6, <2>2 DEF Replace, Locked, Leave, Goto
    <2>4. \A u \in Threads \ {t}: op'[u] = op[u] /\ pc'[u] = pc[u] /\ held'[u] = held[u]
        BY <2>3
    <2>5. TurnsAreLogged'
        BY <2>1, <2>2, <2>3, <2>4 DEF TurnsAreLogged, PastLock
    <2> QED BY <1>0, <2>3, <2>5
<1>7. CASE Crash
    BY <1>7 DEF Crash, TypeOK
<1>8. CASE UNCHANGED vars
    BY <1>0, <1>8 DEF vars, TurnsAreLogged
<1> QED BY <1>1, <1>2, <1>3, <1>4, <1>5, <1>6, <1>7, <1>8 DEF Next, Step

\* Whatever the threads' interleaving, an event is appended in the turn of the
\* latest user message before it, and a condensation that names its frontier
\* directly behind that frontier: append_event takes the turn from session.json,
\* append_derived_events from its plan, and neither looks at the log.
THEOREM AppendsLandWhereMeant ==
    ASSUME Mutators = {}, MaxCrashes = 0
    PROVE  Spec => []AppendedWhereMeant
<1>1. Init => LockedNumbering /\ SeqIsPosition
    BY DEF Init, InitialMeta, LockedNumbering, SeqIsPosition, InFileStep
<1>2. Init => TurnsAreLogged /\ AppendedWhereMeant
    <2> SUFFICES ASSUME Init PROVE TurnsAreLogged /\ AppendedWhereMeant
        OBVIOUS
    <2>1. /\ Len(events) = 1 /\ DOMAIN events = {1} /\ events[1].type = "other" /\ events[1].turn = 0
          /\ meta.event_seq = 1 /\ meta.turn = 0 /\ \A t \in Threads: pc[t] = "idle"
        BY DEF Init, InitialMeta
    <2>2. TurnAt(events, 1, 0)
        BY <2>1 DEF TurnAt
    <2>3. TurnsAreLogged
        BY <2>1, <2>2 DEF TurnsAreLogged
    <2>4. InPlace(events, 1)
        BY <2>1, <2>2 DEF InPlace
    <2> QED BY <2>1, <2>3, <2>4, AllInPlace
<1>3. TypeOK /\ LockedNumbering /\ SeqIsPosition /\ [Next]_vars => LockedNumbering' /\ SeqIsPosition'
    BY NextLockedNumbering
<1>4. /\ TypeOK /\ LockedNumbering /\ SeqIsPosition
      /\ TurnsAreLogged /\ AppendedWhereMeant /\ [Next]_vars
      => TurnsAreLogged' /\ AppendedWhereMeant'
    BY NextTurns
<1> QED BY <1>1, <1>2, <1>3, <1>4, TypeCorrect, PTL DEF Spec

-----------------------------------------------------------------------------
(* What session.json counts survives crashes, when one thread uses the store *)

\* The lines that crashes may have left uncounted.
Lost == BatchSize * crashes

\* The thread's dict is never behind session.json while it may still be written,
\* and what lies in session.json.tmp at the rename is that dict, whatever a
\* crash left there; no line is numbered further than one append ahead.
CountedBy(t) ==
    /\ \A j \in DOMAIN events: events[j].seq <= meta.event_seq + BatchSize
    /\ pc[t] = "append" =>
           held[t].event_seq = meta.event_seq /\ held[t].revision = meta.revision
    /\ InFileStep(t) =>
           /\ meta.event_seq <= held[t].event_seq
           /\ held[t].event_seq <= meta.event_seq + BatchSize
           /\ meta.revision <= held[t].revision
           /\ Len(events) <= held[t].event_seq + Lost
    /\ ~InFileStep(t) => Len(events) <= meta.event_seq + Lost
    /\ pc[t] = "replace" => temp = held[t]

\* Lost grows by one append with each crash.
LEMMA LostType ==
    ASSUME TypeOK
    PROVE  /\ Lost \in Nat
           /\ BatchSize * (crashes + 1) = Lost + BatchSize
<1>1. BatchSize \in Nat /\ crashes \in Nat
    BY StoreAssumption DEF TypeOK
<1> QED BY <1>1 DEF Lost

\* An append puts the log ahead of session.json by one batch at most.
LEMMA AppendKeepsCount ==
    ASSUME TypeOK, NEW t \in Threads, Threads = {t}, CountedBy(t), SeqNeverGoesBack, AppendLines(t)
    PROVE  CountedBy(t)' /\ SeqNeverGoesBack'
<1> DEFINE L == Len(events)
           N == Lines(op[t])
           s == held[t].event_seq
<1>1. /\ pc[t] = "append" /\ Locked(op[t]) /\ IsOp(op[t]) /\ held[t] \in Meta /\ meta \in Meta
      /\ pc \in [Threads -> Labels] /\ held \in [Threads -> Meta]
      /\ pc' = [pc EXCEPT ![t] = "write"] /\ UNCHANGED <<meta, temp, lock, op, crashes>>
    BY DEF AppendLines, TypeOK, Goto
<1>2. /\ N \in Nat \ {0} /\ L \in Nat /\ s \in Nat
      /\ Len(events') = L + N
      /\ \A i \in 1..L: events'[i] = events[i]
      /\ \A i \in 1..N: events'[L + i].seq = s + i
      /\ DOMAIN events = 1..L /\ DOMAIN events' = 1..(L + N)
      /\ held' = [held EXCEPT ![t] = MetaAfter(op[t], held[t])]
      /\ MetaAfter(op[t], held[t]).event_seq = s + N
      /\ MetaAfter(op[t], held[t]).revision = held[t].revision
    BY AppendedLines, AppendedContent DEF MetaAfter
<1>3. N <= BatchSize /\ BatchSize \in Nat \ {0}
    BY StoreAssumption DEF Lines
<1>4. \A i \in 1..L: events[i].seq \in Nat
    <2>1. \A i \in 1..L: events[i] \in Event
        BY DEF TypeOK
    <2> QED BY <2>1 DEF Event
<1>5. s = meta.event_seq /\ held[t].revision = meta.revision /\ \A j \in 1..L: events[j].seq <= s + BatchSize
    BY <1>1, <1>2 DEF CountedBy
<1>6. L <= s + Lost /\ Lost \in Nat
    BY <1>1, <1>5, LostType DEF CountedBy, InFileStep
<1>7. ASSUME NEW i \in 1..(L + N)
      PROVE  \/ i \in 1..L /\ events'[i].seq = events[i].seq
             \/ i > L /\ events'[i].seq = s + (i - L) /\ i - L \in 1..N
    <2>1. CASE i \in 1..L
        BY <1>2, <2>1
    <2>2. CASE i \notin 1..L
        <3>1. L \in Nat /\ N \in Nat
            BY <1>2
        <3> HIDE DEF L, N
        <3>2. i - L \in 1..N /\ L + (i - L) = i /\ i > L
            BY <2>2, <3>1
        <3>3. events'[L + (i - L)].seq = s + (i - L)
            BY <1>2, <3>2
        <3> QED BY <3>2, <3>3
    <2> QED BY <2>1, <2>2
<1> HIDE DEF L, N, s
<1>8. SeqNeverGoesBack'
    <2> SUFFICES ASSUME NEW i \in 1..(L + N), NEW j \in 1..(i - 1)
                 PROVE  events'[j].seq < events'[i].seq + BatchSize
        BY <1>2 DEF SeqNeverGoesBack
    <2>1. j \in 1..(L + N) /\ j < i
        BY <1>2
    <2>2. CASE i \in 1..L /\ events'[i].seq = events[i].seq
        <3>1. j \in 1..L /\ events'[j].seq = events[j].seq
            BY <1>2, <2>1, <2>2
        <3> QED BY <1>2, <2>2, <3>1 DEF SeqNeverGoesBack
    <2>3. CASE i > L /\ events'[i].seq = s + (i - L) /\ i - L \in 1..N
        <3>1. CASE j \in 1..L /\ events'[j].seq = events[j].seq
            <4>1. events[j].seq \in Nat /\ events[j].seq <= s + BatchSize
                BY <1>4, <1>5, <3>1
            <4>2. i - L \in Nat \ {0} /\ s \in Nat /\ BatchSize \in Nat
                BY <1>2, <1>3, <2>3
            <4>3. s + BatchSize < (s + (i - L)) + BatchSize
                BY <4>2
            <4> QED BY <2>3, <3>1, <4>1, <4>2, <4>3
        <3>2. CASE j > L /\ events'[j].seq = s + (j - L) /\ j - L \in 1..N
            BY <1>2, <1>3, <2>1, <2>3, <3>2
        <3> QED BY <1>7, <2>1, <3>1, <3>2
    <2> QED BY <1>7, <2>2, <2>3
<1>9. \A j \in DOMAIN events': events'[j].seq <= meta'.event_seq + BatchSize
    <2> SUFFICES ASSUME NEW j \in 1..(L + N) PROVE events'[j].seq <= s + BatchSize
        BY <1>1, <1>2, <1>5
    <2> QED BY <1>2, <1>3, <1>4, <1>5, <1>7
<1>10. CountedBy(t)'
    <2>1. held'[t].event_seq = s + N /\ held'[t].revision = held[t].revision /\ pc'[t] = "write"
        BY <1>1, <1>2
    <2>2. Lost' = Lost /\ meta' = meta
        BY <1>1 DEF Lost
    <2>3. meta.event_seq <= s + N /\ s + N <= meta.event_seq + BatchSize /\ L + N <= (s + N) + Lost
        BY <1>2, <1>3, <1>5, <1>6
    <2>4. meta.revision <= held[t].revision
        BY <1>1, <1>5 DEF Meta
    <2> QED BY <1>2, <1>9, <2>1, <2>2, <2>3, <2>4 DEF CountedBy, InFileStep
<1> QED BY <1>8, <1>10

\* Every step of a single thread keeps the count.
LEMMA NextCount ==
    ASSUME TypeOK, NEW t \in Threads, Threads = {t}, CountedBy(t), SeqNeverGoesBack, [Next]_vars
    PROVE  CountedBy(t)' /\ SeqNeverGoesBack' /\ meta'.revision >= meta.revision
<1> USE DEF InFileStep
<1>0. /\ pc \in [Threads -> Labels] /\ held \in [Threads -> Meta] /\ meta \in Meta
      /\ held[t] \in Meta /\ Len(events) \in Nat /\ BatchSize \in Nat /\ Lost \in Nat
      /\ op = [u \in Threads |-> op[u]]
    BY StoreAssumption, LostType DEF TypeOK
<1>1. /\ meta.event_seq \in Nat /\ meta.revision \in Nat
      /\ held[t].event_seq \in Nat /\ held[t].revision \in Nat
    BY <1>0 DEF Meta
<1>2. ASSUME events' = events PROVE SeqNeverGoesBack'
    BY <1>2 DEF SeqNeverGoesBack
<1>3. ASSUME UNCHANGED <<meta, temp, events, crashes, held>>,
             ~InFileStep(t), pc'[t] \in {"idle", "enter", "read"}
      PROVE  CountedBy(t)' /\ SeqNeverGoesBack' /\ meta'.revision >= meta.revision
    <2>1. Lost' = Lost
        BY <1>3 DEF Lost
    <2>2. CountedBy(t)'
        BY <1>3, <2>1 DEF CountedBy
    <2> QED BY <1>1, <1>2, <1>3, <2>2
<1>4. CASE Call(t)
    BY <1>0, <1>3, <1>4 DEF Call, append_event, append_derived_events, Mutate, Goto
<1>5. CASE Acquire(t)
    BY <1>0, <1>3, <1>5 DEF Acquire, Goto
<1>6. CASE read_meta(t)
    <2>1. /\ UNCHANGED <<meta, temp, events, crashes>> /\ Lost' = Lost /\ pc[t] = "read"
          /\ Len(events) <= meta.event_seq + Lost
        BY <1>6 DEF read_meta, Lost, CountedBy
    <2>2. CASE Rejected(op[t], meta)
        <3>1. pc'[t] = "idle"
            BY <1>0, <1>6, <2>2 DEF read_meta, Leave, Goto
        <3>2. CountedBy(t)'
            BY <2>1, <3>1 DEF CountedBy
        <3> QED BY <1>1, <1>2, <2>1, <3>2
    <2>3. CASE ~Rejected(op[t], meta)
        <3> DEFINE m == Modified(op[t], meta)
        <3>1. m.event_seq = meta.event_seq
            BY DEF Modified
        <3>2. m.revision >= meta.revision /\ (Locked(op[t]) => m.revision = meta.revision)
            BY <1>1 DEF Modified, Locked
        <3>3. held'[t] = m /\ pc'[t] = (IF Locked(op[t]) THEN "append" ELSE "write")
            BY <1>0, <1>6, <2>3 DEF read_meta, Goto
        <3> HIDE DEF m
        <3>4. held'[t].event_seq = meta.event_seq /\ meta.revision <= held'[t].revision
            BY <1>1, <3>1, <3>2, <3>3, ModifiedType DEF m
        <3>5. CountedBy(t)'
            BY <1>0, <1>1, <2>1, <3>2, <3>3, <3>4 DEF CountedBy
        <3> QED BY <1>1, <1>2, <2>1, <3>5
    <2> QED BY <2>2, <2>3
<1>7. CASE AppendLines(t)
    <2>1. meta' = meta
        BY <1>7 DEF AppendLines
    <2> QED BY <1>1, <1>7, <2>1, AppendKeepsCount
<1>8. CASE WriteTemp(t)
    <2>1. /\ UNCHANGED <<meta, events, crashes, held>> /\ Lost' = Lost
          /\ temp' = held[t] /\ pc[t] = "write" /\ pc'[t] = "replace"
        BY <1>0, <1>8 DEF WriteTemp, Goto, Lost
    <2>2. CountedBy(t)'
        BY <2>1 DEF CountedBy
    <2> QED BY <1>1, <1>2, <2>1, <2>2
<1>9. CASE Replace(t)
    <2>1. pc[t] = "replace" /\ temp = held[t] /\ temp # NoFile
        BY <1>0, <1>9, NoFileAssumption DEF Replace, CountedBy
    <2>2. /\ meta' = held[t] /\ UNCHANGED <<events, crashes>> /\ Lost' = Lost
          /\ pc'[t] \in {"idle", "enter"}
        BY <1>0, <1>9, <2>1 DEF Replace, Leave, Goto, Lost
    <2>3. /\ meta.event_seq <= held[t].event_seq /\ meta.revision <= held[t].revision
          /\ Len(events) <= held[t].event_seq + Lost
        BY <2>1 DEF CountedBy
    <2>4. \A j \in DOMAIN events: events[j].seq <= held[t].event_seq + BatchSize
        <3> TAKE j \in DOMAIN events
        <3>1. events[j] \in Event /\ events[j].seq <= meta.event_seq + BatchSize
            BY DEF TypeOK, CountedBy
        <3>2. events[j].seq \in Nat
            BY <3>1 DEF Event
        <3> QED BY <1>0, <1>1, <2>3, <3>1, <3>2
    <2>5. CountedBy(t)'
        BY <2>2, <2>3, <2>4 DEF CountedBy
    <2> QED BY <1>1, <1>2, <2>2, <2>3, <2>5
<1>10. CASE Crash
    <2>1. UNCHANGED <<meta, temp, events>> /\ pc'[t] = "idle" /\ crashes' = crashes + 1
        BY <1>10 DEF Crash
    <2>2. Lost' = Lost + BatchSize
        BY <2>1, LostType DEF Lost
    <2>3. Len(events) <= meta.event_seq + (Lost + BatchSize)
        BY <1>0, <1>1 DEF CountedBy
    <2>4. CountedBy(t)'
        BY <2>1, <2>2, <2>3 DEF CountedBy
    <2> QED BY <1>1, <1>2, <2>1, <2>4
<1>11. CASE UNCHANGED vars
    <2>1. Lost' = Lost
        BY <1>11 DEF vars, Lost
    <2> QED BY <1>1, <1>2, <1>11, <2>1 DEF vars, CountedBy
<1> QED BY <1>4, <1>5, <1>6, <1>7, <1>8, <1>9, <1>10, <1>11 DEF Next, Step

\* The count bounds what session.json lags behind.
LEMMA CountBoundsLag ==
    ASSUME TypeOK, NEW t \in Threads, CountedBy(t)
    PROVE  LagBoundedByCrashes
<1>1. /\ Len(events) \in Nat /\ meta.event_seq \in Nat /\ held[t].event_seq \in Nat
      /\ BatchSize \in Nat /\ Lost \in Nat
    <2>1. meta \in Meta /\ held[t] \in Meta /\ Len(events) \in Nat
        BY DEF TypeOK
    <2> QED BY <2>1, StoreAssumption, LostType DEF Meta
<1>2. Len(events) - meta.event_seq <= Lost + BatchSize
    BY <1>1 DEF CountedBy, InFileStep
<1> QED BY <1>2, LostType DEF LagBoundedByCrashes

\* With one thread using the store, a crash between any two file accesses costs
\* session.json at most the append it cut off: numbers never start over by more
\* than one append, the lag is bounded by the crashes, and candidate_revision
\* never decreases, although the stale session.json.tmp stays on disk.
THEOREM CountsSurviveCrashes ==
    ASSUME NEW t \in Threads, Threads = {t}
    PROVE  Spec => MetaSurvivesCrashes
<1>1. Init => CountedBy(t) /\ SeqNeverGoesBack
    <2> SUFFICES ASSUME Init PROVE CountedBy(t) /\ SeqNeverGoesBack
        OBVIOUS
    <2>1. /\ DOMAIN events = {1} /\ Len(events) = 1 /\ events[1].seq = 1
          /\ meta.event_seq = 1 /\ pc[t] = "idle" /\ crashes = 0
        BY DEF Init, InitialMeta
    <2>2. Lost = 0 /\ BatchSize \in Nat \ {0}
        BY <2>1, StoreAssumption DEF Lost
    <2> QED BY <2>1, <2>2 DEF CountedBy, SeqNeverGoesBack, InFileStep
<1>2. TypeOK /\ CountedBy(t) /\ SeqNeverGoesBack /\ [Next]_vars
      => CountedBy(t)' /\ SeqNeverGoesBack' /\ [meta'.revision >= meta.revision]_vars
    BY NextCount
<1>3. TypeOK /\ CountedBy(t) => LagBoundedByCrashes
    BY CountBoundsLag
<1> QED BY <1>1, <1>2, <1>3, TypeCorrect, PTL DEF Spec, MetaSurvivesCrashes, RevisionNeverGoesBack
================================================================================
