----------------------------- MODULE PanelProofs -----------------------------
(***************************************************************************)
(* Proofs about Panel: for any number of sessions, of flows in flight, of  *)
(* clicks and of crashes, no flow waits for an answer that cannot come and *)
(* no budget is increased for something the user did not see.              *)
(***************************************************************************)
EXTENDS Panel, NaturalsInduction, WellFoundedInduction, TLAPS

--------------------------------------------------------------------------------
(* The inductive invariant                                                 *)

Persistent == [v : Nat, turn : {"closed", "open", "waiting"}, id : Nat, limit : Nat,
               changes : {"none", "pending", "applied"}]
InMemory == [v : Nat, exec : {"idle", "running", "awaiting", "stopping"},
             job : {"none", "starting", "going", "ended"}, approval : Nat, decision : {"none", "allow", "deny"}]
Details == [id : Sessions, p : Persistent,
            m : [v : Nat, exec : {"idle", "running", "awaiting", "stopping"}, approval : Nat]]
Currents == [d : Details, by : Nat]

Methods == {"initialize", "list", "get", "changes", "create", "run", "continue", "increase", "stop",
            "resolve", "accept", "discard"}
Arguments == {None} \cup [id : Nat, limit : Nat] \cup [approval : Nat, allow : BOOLEAN]
RequestSet == [i : Index, method : Methods, s : Sessions \cup {None}, arg : Arguments, seen : {None} \cup Seen]
AnswerSet == [kind : {"answer"}, i : Index, ok : BOOLEAN,
              value : {None} \cup Details \cup SUBSET Sessions]
NoteSet == [kind : {"note"}, s : Sessions, state : BOOLEAN]
ClickSet == [type : {"refresh", "select", "run", "continue", "increase", "stop", "resolve", "accept",
                     "discard", "create", "retry", "credentials"},
             s : Sessions \cup {None} \cup BOOLEAN, seen : {None} \cup Seen]

\* What an increase carries is what its click saw.
Seeing(s, arg) == [s |-> s, turn |-> arg.id, limit |-> arg.limit]

\* The flows at each of their awaits.
GoodFlow(f) ==
    /\ f.at \in {"ensure", "init"} =>
           f.op \in {"refresh", "timer", "select", "create", "run", "continue", "increase"}
    /\ f.at = "modal" => f.op \in {"increase", "accept", "discard"}
    /\ f.op = "select" => f.s \in Sessions
    /\ f.op = "increase" => /\ f.s \in Sessions /\ f.arg \in [id : Nat, limit : Nat]
                            /\ f.seen = Seeing(f.s, f.arg)

GoodRequest(r) ==
    /\ r.method \notin {"initialize", "list", "create"} => r.s \in Sessions
    /\ r.method = "increase" => r.arg \in [id : Nat, limit : Nat] /\ r.seen = Seeing(r.s, r.arg)

GoodClick(c) ==
    /\ c.type \in {"refresh", "run", "continue"} => c.s \in Sessions \cup {None}
    /\ c.type = "select" => c.s \in Sessions
    /\ c.type = "increase" => c.s \in Sessions /\ c.seen \in Seen /\ c.seen.s = c.s
    /\ c.type = "resolve" => c.s \in BOOLEAN

\* The types of the state.
ServerTyped ==
    /\ exists \in SUBSET Sessions /\ p \in [Sessions -> Persistent] /\ m \in [Sessions -> InMemory]
    /\ owes \in [Sessions -> {"none", "event", "state"}]
    /\ server \in {"none", "up", "dead"} /\ half \in {None} \cup Persistent
HostTyped ==
    /\ current \in Currents /\ sessions \in SUBSET Sessions
    /\ timer \in BOOLEAN /\ runtimeError \in BOOLEAN /\ told \in BOOLEAN
    /\ view \in [cur : Currents, err : BOOLEAN, sent : BOOLEAN]
ClicksTyped == clicks \in Seq(ClickSet) /\ \A k \in 1..Len(clicks) : GoodClick(clicks[k])
FlowsTyped == flows \in [Index -> {None} \cup Flows] /\ \A i \in Index : flows[i] # None => GoodFlow(flows[i])
WiresTyped == /\ inbox \in Seq(RequestSet) /\ \A k \in 1..Len(inbox) : GoodRequest(inbox[k])
              /\ lines \in Seq(AnswerSet \cup NoteSet)

\* The await a request is for.
AwaitOf(method) == CASE method = "initialize" -> "init"
                     [] method \in {"list", "get", "changes"} -> method
                     [] OTHER -> "call"

\* A request has the flow that sent it waiting for it, and so has an answer, which is of the
\* kind that this flow expects.
Requested(f, r) == /\ f # None /\ f.at = AwaitOf(r.method)
                   /\ f.at = "call" => f.op = r.method
Expected(f, a) ==
    /\ Waiting(f)
    /\ f.at = "list" => a.ok /\ a.value \in SUBSET Sessions
    /\ a.ok /\ (f.at \in {"get", "changes"} \/ (f.at = "call" /\ f.op = "create")) => a.value \in Details

\* At most one request or answer is under way for a flow.
EveryoneIsAnswered ==
    /\ \A k \in 1..Len(inbox) : Requested(flows[inbox[k].i], inbox[k])
    /\ \A k \in 1..Len(lines) : lines[k].kind = "answer" => Expected(flows[lines[k].i], lines[k])
OneAtATime ==
    /\ \A j, k \in 1..Len(inbox) : j # k => inbox[j].i # inbox[k].i
    /\ \A j, k \in 1..Len(lines) : j # k /\ lines[j].kind = "answer" /\ lines[k].kind = "answer"
                                       => lines[j].i # lines[k].i
    /\ \A j \in 1..Len(inbox), k \in 1..Len(lines) : lines[k].kind = "answer" => inbox[j].i # lines[k].i

\* What a Runtime that is gone leaves behind.
NothingOutlivesTheRuntime ==
    /\ server # "up" => inbox = <<>>
    /\ server = "none" => lines = <<>>

PanelInv ==
    /\ ServerTyped /\ HostTyped /\ ClicksTyped /\ FlowsTyped /\ WiresTyped
    /\ EveryoneIsAnswered /\ OneAtATime /\ NothingOutlivesTheRuntime
    /\ EveryRequestSettles /\ BudgetIsForWhatWasShown

--------------------------------------------------------------------------------
(* Requests and answers under way                                          *)

\* The first free slot is one that is free.
LEMMA FirstFreeIsFree ==
    ASSUME Free # {}
    PROVE  FirstFree \in Index /\ flows[FirstFree] = None
<1>1. Free \subseteq Nat
    BY PanelAssumption DEF Free, Index
<1>2. PICK i \in Free : \A j \in Free : ~ (<<j, i>> \in OpToRel(<, Nat))
    BY <1>1, WFMin, NatLessThanWellFounded
<1>3. \A j \in Free : i <= j
    <2> SUFFICES ASSUME NEW j \in Free
                 PROVE  i <= j
        OBVIOUS
    <2>1. i \in Nat /\ j \in Nat
        BY <1>1
    <2>2. ~(j < i)
        BY <1>2, <2>1 DEF OpToRel
    <2> QED BY <2>1, <2>2
<1>4. FirstFree \in Free
    BY <1>3 DEF FirstFree
<1> QED BY <1>4 DEF Free

\* A step of one flow: it goes on, on an answer or by itself, and may send the next request.
Moves(i) ==
    /\ \A j \in Index \ {i} : flows'[j] = flows[j]
    /\ \/ UNCHANGED lines /\ (i \in Index => ~Waiting(flows[i]))
       \/ /\ lines # <<>> /\ lines' = Tail(lines)
          /\ IF Head(lines).kind = "answer" THEN Head(lines).i = i ELSE i \notin Index
    /\ \/ UNCHANGED <<inbox, server>> /\ (i \in Index => ~Waiting(flows'[i]))
       \/ /\ i \in Index /\ Waiting(flows'[i])
          /\ IF server = "dead" THEN UNCHANGED <<inbox, server>>
             ELSE /\ server' = "up"
                  /\ \E r \in RequestSet : GoodRequest(r) /\ r.i = i /\ Requested(flows'[r.i], r) /\ inbox' = Append(inbox, r)

\* A request is answered, with a notification before the answer or without.
Answers ==
    /\ server = "up" /\ inbox # <<>> /\ inbox' = Tail(inbox) /\ UNCHANGED <<server, flows>>
    /\ \E a \in AnswerSet, notes \in {<<>>} \cup {<<n>> : n \in NoteSet} :
           /\ a.i = Head(inbox).i /\ Expected(flows[a.i], a)
           /\ lines' = lines \o notes \o <<a>>

\* A notification of a worker.
Notes == /\ server = "up" /\ UNCHANGED <<server, flows, inbox>>
         /\ \E n \in NoteSet : lines' = Append(lines, n)

\* The Runtime exits, and its client drops what waited for it.
Exits == server' = "dead" /\ inbox' = <<>> /\ UNCHANGED <<lines, flows>>
Drops == server' = "none" /\ inbox' = <<>> /\ lines' = <<>> /\ \A i \in Index : ~Waiting(flows'[i])

WireInv == EveryoneIsAnswered /\ OneAtATime /\ NothingOutlivesTheRuntime /\ EveryRequestSettles

\* The lines behind the one that is read keep their order, and none is an answer for the flow that
\* moves.
LEMMA MovedLines ==
    ASSUME WiresTyped, FlowsTyped, ServerTyped, WireInv, NEW i, Moves(i)
    PROVE  \E d \in {0, 1} :
          /\ lines' \in Seq(AnswerSet \cup NoteSet) /\ Len(lines') = Len(lines) - d /\ Len(lines') \in Nat
          /\ \A k \in 1..Len(lines') : k + d \in 1..Len(lines) /\ lines'[k] = lines[k + d]
          /\ d = 1 => /\ Len(lines) >= 1
                      /\ IF lines[1].kind = "answer" THEN lines[1].i = i ELSE i \notin Index
          /\ d = 0 => lines' = lines /\ (i \in Index => ~Waiting(flows[i]))
          /\ \A k \in 1..Len(lines') : lines'[k].kind = "answer" => lines'[k].i # i /\ lines'[k].i \in Index
<1> lines \in Seq(AnswerSet \cup NoteSet) /\ Len(lines) \in Nat
    BY DEF WiresTyped
<1> USE DEF WireInv
<1>1. PICK d \in {0, 1} :
          /\ lines' \in Seq(AnswerSet \cup NoteSet) /\ Len(lines') = Len(lines) - d /\ Len(lines') \in Nat
          /\ \A k \in 1..Len(lines') : k + d \in 1..Len(lines) /\ lines'[k] = lines[k + d]
          /\ d = 1 => /\ Len(lines) >= 1
                      /\ IF lines[1].kind = "answer" THEN lines[1].i = i ELSE i \notin Index
          /\ d = 0 => lines' = lines /\ (i \in Index => ~Waiting(flows[i]))
    <2>1. CASE UNCHANGED lines /\ (i \in Index => ~Waiting(flows[i]))
        <3> WITNESS 0 \in {0, 1}
        <3> QED BY <2>1
    <2>2. CASE /\ lines # <<>> /\ lines' = Tail(lines)
               /\ IF Head(lines).kind = "answer" THEN Head(lines).i = i ELSE i \notin Index
        <3> WITNESS 1 \in {0, 1}
        <3>1. /\ lines' \in Seq(AnswerSet \cup NoteSet) /\ Len(lines') = Len(lines) - 1
              /\ Len(lines) >= 1 /\ Head(lines) = lines[1]
              /\ \A k \in 1..Len(lines') : lines'[k] = lines[k + 1]
            BY <2>2
        <3> QED BY <2>2, <3>1
    <2> QED BY <2>1, <2>2 DEF Moves
<1>2. \A k \in 1..Len(lines') : lines'[k].kind = "answer" => lines'[k].i # i /\ lines'[k].i \in Index
    <2> SUFFICES ASSUME NEW k \in 1..Len(lines'), lines'[k].kind = "answer"
                 PROVE  lines'[k].i # i /\ lines'[k].i \in Index
        OBVIOUS
    <2>1. lines'[k].i \in Index
        <3>1. lines'[k] \in AnswerSet
            BY <1>1 DEF NoteSet
        <3> QED BY <3>1 DEF AnswerSet
    <2>2. ASSUME lines'[k].i = i
          PROVE  FALSE
        <3>1. k + d \in 1..Len(lines) /\ lines[k + d].kind = "answer" /\ lines[k + d].i = i
            BY <1>1, <2>2
        <3>2. Waiting(flows[i])
            BY <3>1 DEF EveryoneIsAnswered, Expected
        <3>3. d = 1 /\ lines[1].kind = "answer" /\ lines[1].i = i /\ 1 \in 1..Len(lines) /\ 1 # k + d
            BY <1>1, <2>1, <2>2, <3>2
        <3> QED BY <3>1, <3>3 DEF OneAtATime
    <2> QED BY <2>1, <2>2
<1> QED BY <1>1, <1>2

\* A flow for which nothing is under way may move.
LEMMA MovesNext ==
    ASSUME WiresTyped, FlowsTyped, ServerTyped, WireInv, NEW i, Moves(i)
    PROVE  WiresTyped' /\ WireInv'
<1> /\ inbox \in Seq(RequestSet) /\ lines \in Seq(AnswerSet \cup NoteSet)
    /\ server \in {"none", "up", "dead"}
    /\ Len(inbox) \in Nat /\ Len(lines) \in Nat
    BY DEF WiresTyped, ServerTyped
<1> USE DEF WireInv
<1>1. PICK d \in {0, 1} :
          /\ lines' \in Seq(AnswerSet \cup NoteSet) /\ Len(lines') = Len(lines) - d /\ Len(lines') \in Nat
          /\ \A k \in 1..Len(lines') : k + d \in 1..Len(lines) /\ lines'[k] = lines[k + d]
          /\ d = 1 => /\ Len(lines) >= 1
                      /\ IF lines[1].kind = "answer" THEN lines[1].i = i ELSE i \notin Index
          /\ d = 0 => lines' = lines /\ (i \in Index => ~Waiting(flows[i]))
          /\ \A k \in 1..Len(lines') : lines'[k].kind = "answer" => lines'[k].i # i /\ lines'[k].i \in Index
    BY MovedLines
<1>2. \A k \in 1..Len(inbox) : inbox[k].i \in Index
    <2>1. \A k \in 1..Len(inbox) : inbox[k] \in RequestSet
        OBVIOUS
    <2> QED BY <2>1 DEF RequestSet
\* Nothing of i is under way any more.
<1>3. \A k \in 1..Len(inbox) : inbox[k].i # i
    <2>1. ASSUME NEW k \in 1..Len(inbox), inbox[k].i = i
          PROVE  FALSE
        <3>1. i \in Index /\ Waiting(flows[i])
            BY <1>2, <2>1 DEF EveryoneIsAnswered, Requested, Waiting, AwaitOf
        <3>2. d = 1 /\ lines[1].kind = "answer" /\ lines[1].i = i
            BY <1>1, <3>1
        <3> QED BY <1>1, <2>1, <3>2 DEF OneAtATime
    <2> QED BY <2>1
\* The rest stays where it was.
<1>5. \A j \in Index \ {i} : flows'[j] = flows[j]
    BY DEF Moves
<1>6. \A k \in 1..Len(lines') : lines'[k].kind = "answer" => Expected(flows'[lines'[k].i], lines'[k])
    <2> SUFFICES ASSUME NEW k \in 1..Len(lines'), lines'[k].kind = "answer"
                 PROVE  Expected(flows'[lines'[k].i], lines'[k])
        OBVIOUS
    <2>1. Expected(flows[lines[k + d].i], lines[k + d])
        BY <1>1 DEF EveryoneIsAnswered
    <2>2. flows'[lines'[k].i] = flows[lines'[k].i] /\ lines'[k] = lines[k + d]
        BY <1>1, <1>5
    <2> QED BY <2>1, <2>2 DEF Expected
<1>7. \A k \in 1..Len(inbox) : Requested(flows[inbox[k].i], inbox[k]) /\ flows'[inbox[k].i] = flows[inbox[k].i]
    BY <1>2, <1>3, <1>5 DEF EveryoneIsAnswered
<1>8. \A j, k \in 1..Len(lines') : j # k /\ lines'[j].kind = "answer" /\ lines'[k].kind = "answer"
                                       => lines'[j].i # lines'[k].i
    <2> SUFFICES ASSUME NEW j \in 1..Len(lines'), NEW k \in 1..Len(lines'),
                        j # k, lines'[j].kind = "answer", lines'[k].kind = "answer"
                 PROVE  lines'[j].i # lines'[k].i
        OBVIOUS
    <2>1. j + d \in 1..Len(lines) /\ k + d \in 1..Len(lines) /\ j + d # k + d
        BY <1>1
    <2>2. lines'[j] = lines[j + d] /\ lines'[k] = lines[k + d]
        BY <1>1
    <2>3. lines[j + d].i # lines[k + d].i
        BY <2>1, <2>2 DEF OneAtATime
    <2> QED BY <2>2, <2>3
<1>9. \A j \in 1..Len(inbox), k \in 1..Len(lines') : lines'[k].kind = "answer" => inbox[j].i # lines'[k].i
    BY <1>1, SMTT(40) DEF OneAtATime
\* The flows other than i that wait have what they wait for.
<1>10. ASSUME NEW j \in Index \ {i}, Waiting(flows'[j]), server = "up"
       PROVE  \/ \E k \in 1..Len(inbox) : inbox[k].i = j
              \/ \E k \in 1..Len(lines') : lines'[k].kind = "answer" /\ lines'[k].i = j
    <2>1. Waiting(flows[j])
        BY <1>5, <1>10
    <2>2. CASE \E k \in 1..Len(inbox) : inbox[k].i = j
        BY <2>2
    <2>3. ASSUME NEW k \in 1..Len(lines), lines[k].kind = "answer", lines[k].i = j
          PROVE  \E l \in 1..Len(lines') : lines'[l].kind = "answer" /\ lines'[l].i = j
        <3>1. k - d \in 1..Len(lines')
            BY <1>1, <2>3
        <3>2. lines'[k - d] = lines[k]
            BY <1>1, <3>1
        <3> QED BY <2>3, <3>1, <3>2
    <2> QED BY <1>10, <2>1, <2>2, <2>3 DEF EveryRequestSettles
<1>11. server = "none" => lines' = <<>> /\ inbox = <<>> /\ \A j \in Index : ~Waiting(flows[j])
    <2> SUFFICES ASSUME server = "none"
                 PROVE  lines' = <<>> /\ inbox = <<>> /\ \A j \in Index : ~Waiting(flows[j])
        OBVIOUS
    <2>1. lines = <<>> /\ inbox = <<>>
        BY DEF NothingOutlivesTheRuntime
    <2>2. lines' = <<>>
        BY <1>1, <2>1
    <2> QED BY <2>1, <2>2 DEF EveryRequestSettles
<1>12. CASE UNCHANGED <<inbox, server>> /\ (i \in Index => ~Waiting(flows'[i]))
    <2>1. WiresTyped'
        BY <1>1, <1>12 DEF WiresTyped
    <2>2. EveryoneIsAnswered'
        <3>1. \A k \in 1..Len(inbox) : Requested(flows'[inbox[k].i], inbox[k])
            BY <1>7, <1>12 DEF Requested
        <3> QED BY <1>6, <1>12, <3>1 DEF EveryoneIsAnswered
    <2>3. OneAtATime'
        BY <1>8, <1>9, <1>12 DEF OneAtATime
    <2>4. NothingOutlivesTheRuntime'
        BY <1>11, <1>12 DEF NothingOutlivesTheRuntime
    <2>5. EveryRequestSettles'
        <3> SUFFICES ASSUME NEW j \in Index, Waiting(flows'[j])
                     PROVE  \/ server = "dead"
                            \/ server = "up" /\ (\/ \E k \in 1..Len(inbox) : inbox[k].i = j
                                                 \/ \E k \in 1..Len(lines') : lines'[k].kind = "answer" /\ lines'[k].i = j)
            BY <1>12 DEF EveryRequestSettles
        <3>1. j # i /\ flows'[j] = flows[j]
            BY <1>5, <1>12
        <3>2. server # "none"
            BY <1>11, <3>1
        <3> QED BY <1>10, <3>1, <3>2
    <2> QED BY <2>1, <2>2, <2>3, <2>4, <2>5
<1>13. CASE i \in Index /\ Waiting(flows'[i]) /\ server = "dead" /\ UNCHANGED <<inbox, server>>
    <2>1. WiresTyped'
        BY <1>1, <1>13 DEF WiresTyped
    <2>2. EveryoneIsAnswered'
        <3>1. \A k \in 1..Len(inbox) : Requested(flows'[inbox[k].i], inbox[k])
            BY <1>7, <1>13 DEF Requested
        <3> QED BY <1>6, <1>13, <3>1 DEF EveryoneIsAnswered
    <2>3. OneAtATime'
        BY <1>8, <1>9, <1>13 DEF OneAtATime
    <2> QED BY <1>13, <2>1, <2>2, <2>3 DEF NothingOutlivesTheRuntime, EveryRequestSettles
<1>14. ASSUME i \in Index, Waiting(flows'[i]), server # "dead", server' = "up",
              NEW r \in RequestSet, GoodRequest(r), r.i = i, Requested(flows'[r.i], r), inbox' = Append(inbox, r)
       PROVE  WiresTyped' /\ WireInv'
    <2>1. /\ inbox' \in Seq(RequestSet) /\ Len(inbox') = Len(inbox) + 1 /\ inbox'[Len(inbox) + 1] = r
          /\ \A k \in 1..Len(inbox) : inbox'[k] = inbox[k]
        BY <1>14
    <2>2. \A k \in 1..Len(inbox') : k \in 1..Len(inbox) \/ k = Len(inbox) + 1
        BY <2>1
    <2>3. WiresTyped'
        <3>1. \A k \in 1..Len(inbox') : GoodRequest(inbox'[k])
            BY <1>14, <2>1, <2>2 DEF WiresTyped
        <3> QED BY <1>1, <2>1, <3>1 DEF WiresTyped, GoodRequest
    <2>4. EveryoneIsAnswered'
        <3>1. ASSUME NEW k \in 1..Len(inbox')
              PROVE  Requested(flows'[inbox'[k].i], inbox'[k])
            <4>1. CASE k \in 1..Len(inbox)
                BY <1>7, <2>1, <4>1 DEF Requested
            <4>2. CASE k = Len(inbox) + 1
                BY <1>14, <2>1, <4>2
            <4> QED BY <2>2, <4>1, <4>2
        <3> QED BY <1>6, <3>1 DEF EveryoneIsAnswered
    <2>5. OneAtATime'
        <3>1. ASSUME NEW j \in 1..Len(inbox'), NEW k \in 1..Len(inbox'), j # k
              PROVE  inbox'[j].i # inbox'[k].i
            <4>1. CASE j \in 1..Len(inbox) /\ k \in 1..Len(inbox)
                BY <2>1, <3>1, <4>1 DEF OneAtATime
            <4>2. CASE j = Len(inbox) + 1 \/ k = Len(inbox) + 1
                BY <1>3, <1>14, <2>1, <2>2, <3>1, <4>2
            <4> QED BY <2>2, <4>1, <4>2
        <3>2. ASSUME NEW j \in 1..Len(inbox'), NEW k \in 1..Len(lines'), lines'[k].kind = "answer"
              PROVE  inbox'[j].i # lines'[k].i
            <4>1. lines'[k].i # i
                BY <1>1, <3>2
            <4>2. CASE j \in 1..Len(inbox)
                BY <1>9, <2>1, <3>2, <4>2
            <4>3. CASE j = Len(inbox) + 1
                BY <1>14, <2>1, <4>1, <4>3
            <4> QED BY <2>2, <4>2, <4>3
        <3> QED BY <1>8, <3>1, <3>2 DEF OneAtATime
    <2>6. EveryRequestSettles'
        <3> SUFFICES ASSUME NEW j \in Index, Waiting(flows'[j])
                     PROVE  \/ \E k \in 1..Len(inbox') : inbox'[k].i = j
                            \/ \E k \in 1..Len(lines') : lines'[k].kind = "answer" /\ lines'[k].i = j
            BY <1>14 DEF EveryRequestSettles
        <3>1. CASE j = i
            <4>1. Len(inbox) + 1 \in 1..Len(inbox') /\ inbox'[Len(inbox) + 1].i = j
                BY <1>14, <2>1, <3>1
            <4> QED BY <4>1
        <3>2. CASE j # i
            <4>1. server = "up"
                BY <1>5, <1>11, <1>14, <3>2
            <4>2. \A k \in 1..Len(inbox) : k \in 1..Len(inbox') /\ inbox'[k] = inbox[k]
                BY <2>1
            <4> QED BY <1>10, <3>2, <4>1, <4>2
        <3> QED BY <3>1, <3>2
    <2> QED BY <1>14, <2>3, <2>4, <2>5, <2>6 DEF NothingOutlivesTheRuntime
<1> QED BY <1>12, <1>13, <1>14 DEF Moves

\* A request that is answered leaves the inbox with its answer in the lines.
LEMMA AnswersNext ==
    ASSUME WiresTyped, FlowsTyped, ServerTyped, WireInv, Answers
    PROVE  WiresTyped' /\ WireInv'
<1> /\ inbox \in Seq(RequestSet) /\ lines \in Seq(AnswerSet \cup NoteSet)
    /\ Len(inbox) \in Nat /\ Len(lines) \in Nat
    BY DEF WiresTyped
<1> USE DEF WireInv
<1>1. /\ server = "up" /\ server' = "up" /\ flows' = flows /\ Len(inbox) >= 1
      /\ inbox' \in Seq(RequestSet) /\ Len(inbox') = Len(inbox) - 1
      /\ \A k \in 1..Len(inbox') : k + 1 \in 1..Len(inbox) /\ inbox'[k] = inbox[k + 1]
    BY DEF Answers
<1>2. PICK a \in AnswerSet, notes \in {<<>>} \cup {<<n>> : n \in NoteSet} :
          a.i = inbox[1].i /\ Expected(flows[a.i], a) /\ lines' = lines \o notes \o <<a>>
    <2>1. Head(inbox) = inbox[1]
        BY <1>1
    <2> QED BY <2>1 DEF Answers
<1>3. PICK last \in {Len(lines) + 1, Len(lines) + 2} :
          /\ lines' \in Seq(AnswerSet \cup NoteSet) /\ Len(lines') = last /\ lines'[last] = a
          /\ \A k \in 1..Len(lines) : lines'[k] = lines[k]
          /\ \A k \in 1..(last - 1) : k \notin 1..Len(lines) => lines'[k] \in NoteSet
    <2>1. CASE notes = <<>>
        <3> WITNESS Len(lines) + 1 \in {Len(lines) + 1, Len(lines) + 2}
        <3>1. lines' = lines \o <<a>>
            BY <1>2, <2>1
        <3> QED BY <3>1
    <2>2. ASSUME NEW n \in NoteSet, notes = <<n>>
          PROVE  \E l \in {Len(lines) + 1, Len(lines) + 2} :
                    /\ lines' \in Seq(AnswerSet \cup NoteSet) /\ Len(lines') = l /\ lines'[l] = a
                    /\ \A k \in 1..Len(lines) : lines'[k] = lines[k]
                    /\ \A k \in 1..(l - 1) : k \notin 1..Len(lines) => lines'[k] \in NoteSet
        <3> WITNESS Len(lines) + 2 \in {Len(lines) + 1, Len(lines) + 2}
        <3> DEFINE noted == lines \o <<n>>
        <3>1. /\ noted \in Seq(AnswerSet \cup NoteSet) /\ Len(noted) = Len(lines) + 1
              /\ noted[Len(lines) + 1] = n /\ \A k \in 1..Len(lines) : noted[k] = lines[k]
            OBVIOUS
        <3>2. lines' = noted \o <<a>>
            BY <1>2, <2>2
        <3> HIDE DEF noted
        <3>3. /\ lines' \in Seq(AnswerSet \cup NoteSet) /\ Len(lines') = Len(noted) + 1
              /\ lines'[Len(noted) + 1] = a /\ \A k \in 1..Len(noted) : lines'[k] = noted[k]
            BY <3>1, <3>2
        <3> QED BY <3>1, <3>3
    <2> QED BY <2>1, <2>2
<1>4. a.kind = "answer" /\ a.i \in Index /\ \A n \in NoteSet : n.kind # "answer"
    BY DEF AnswerSet, NoteSet
<1>5. \A k \in 1..Len(lines') : lines'[k].kind = "answer" =>
          k = last \/ (k \in 1..Len(lines) /\ lines'[k] = lines[k])
    BY <1>3, <1>4
\* Nothing else of this flow is under way.
<1>6. /\ \A k \in 1..Len(inbox') : inbox'[k].i # a.i
      /\ \A k \in 1..Len(lines) : lines[k].kind = "answer" => lines[k].i # a.i
    <2>1. 1 \in 1..Len(inbox) /\ \A k \in 1..Len(inbox') : k + 1 # 1
        BY <1>1
    <2>2. \A k \in 1..Len(inbox') : inbox'[k].i # inbox[1].i
        BY <1>1, <2>1, SMTT(40) DEF OneAtATime
    <2>3. \A k \in 1..Len(lines) : lines[k].kind = "answer" => lines[k].i # inbox[1].i
        BY <2>1 DEF OneAtATime
    <2> QED BY <1>2, <2>2, <2>3
<1>7. WiresTyped'
    <2>1. \A k \in 1..Len(inbox') : GoodRequest(inbox'[k])
        BY <1>1 DEF WiresTyped
    <2> QED BY <1>1, <1>3, <2>1 DEF WiresTyped, GoodRequest
<1>8. EveryoneIsAnswered'
    <2>1. \A k \in 1..Len(inbox') : Requested(flows[inbox'[k].i], inbox'[k])
        BY <1>1 DEF EveryoneIsAnswered
    <2>2. \A k \in 1..Len(lines') : lines'[k].kind = "answer" => Expected(flows[lines'[k].i], lines'[k])
        BY <1>2, <1>3, <1>5 DEF EveryoneIsAnswered
    <2> QED BY <1>1, <2>1, <2>2 DEF EveryoneIsAnswered
<1>9. OneAtATime'
    <2>1. ASSUME NEW j \in 1..Len(inbox'), NEW k \in 1..Len(inbox'), j # k
          PROVE  inbox'[j].i # inbox'[k].i
        <3>1. j + 1 \in 1..Len(inbox) /\ k + 1 \in 1..Len(inbox) /\ j + 1 # k + 1
            BY <1>1, <2>1
        <3> QED BY <1>1, <3>1 DEF OneAtATime
    <2>2. ASSUME NEW j \in 1..Len(lines'), NEW k \in 1..Len(lines'), j # k,
                 lines'[j].kind = "answer", lines'[k].kind = "answer"
          PROVE  lines'[j].i # lines'[k].i
        <3>1. CASE j = last
            BY <1>3, <1>5, <1>6, <2>2, <3>1
        <3>2. CASE k = last
            BY <1>3, <1>5, <1>6, <2>2, <3>2
        <3>3. CASE j # last /\ k # last
            BY <1>5, <2>2, <3>3 DEF OneAtATime
        <3> QED BY <3>1, <3>2, <3>3
    <2>3. ASSUME NEW j \in 1..Len(inbox'), NEW k \in 1..Len(lines'), lines'[k].kind = "answer"
          PROVE  inbox'[j].i # lines'[k].i
        <3>1. CASE k = last
            BY <1>3, <1>6, <3>1
        <3>2. CASE k # last
            BY <1>1, <1>5, <2>3, <3>2, SMTT(40) DEF OneAtATime
        <3> QED BY <3>1, <3>2
    <2> QED BY <2>1, <2>2, <2>3 DEF OneAtATime
<1>10. EveryRequestSettles'
    <2> SUFFICES ASSUME NEW j \in Index, Waiting(flows[j])
                 PROVE  \/ \E k \in 1..Len(inbox') : inbox'[k].i = j
                        \/ \E k \in 1..Len(lines') : lines'[k].kind = "answer" /\ lines'[k].i = j
        BY <1>1 DEF EveryRequestSettles
    <2>1. \/ \E k \in 1..Len(inbox) : inbox[k].i = j
          \/ \E k \in 1..Len(lines) : lines[k].kind = "answer" /\ lines[k].i = j
        BY <1>1 DEF EveryRequestSettles
    <2>2. CASE j = a.i
        <3>1. last \in 1..Len(lines') /\ lines'[last].kind = "answer" /\ lines'[last].i = j
            BY <1>3, <1>4, <2>2
        <3> QED BY <3>1
    <2>3. ASSUME NEW k \in 1..Len(inbox), inbox[k].i = j, j # a.i
          PROVE  \E l \in 1..Len(inbox') : inbox'[l].i = j
        <3>1. k # 1
            BY <1>2, <2>3
        <3>2. k - 1 \in 1..Len(inbox') /\ inbox'[k - 1] = inbox[k]
            BY <1>1, <2>3, <3>1
        <3> QED BY <2>3, <3>2
    <2>4. ASSUME NEW k \in 1..Len(lines), lines[k].kind = "answer", lines[k].i = j
          PROVE  \E l \in 1..Len(lines') : lines'[l].kind = "answer" /\ lines'[l].i = j
        <3>1. k \in 1..Len(lines') /\ lines'[k] = lines[k]
            BY <1>3, <2>4
        <3> QED BY <2>4, <3>1
    <2> QED BY <2>1, <2>2, <2>3, <2>4
<1> QED BY <1>1, <1>7, <1>8, <1>9, <1>10 DEF NothingOutlivesTheRuntime

\* A notification is nobody's answer.
LEMMA NotesNext ==
    ASSUME WiresTyped, FlowsTyped, ServerTyped, WireInv, Notes
    PROVE  WiresTyped' /\ WireInv'
<1> /\ inbox \in Seq(RequestSet) /\ lines \in Seq(AnswerSet \cup NoteSet)
    /\ Len(inbox) \in Nat /\ Len(lines) \in Nat
    BY DEF WiresTyped
<1> USE DEF WireInv
<1>1. server = "up" /\ UNCHANGED <<server, flows, inbox>>
    BY DEF Notes
<1>2. PICK n \in NoteSet : lines' = Append(lines, n)
    BY DEF Notes
<1>3. /\ lines' \in Seq(AnswerSet \cup NoteSet) /\ Len(lines') = Len(lines) + 1
      /\ lines'[Len(lines) + 1] = n /\ \A k \in 1..Len(lines) : lines'[k] = lines[k]
    BY <1>2
<1>4. n.kind # "answer"
    BY DEF NoteSet
<1>5. \A k \in 1..Len(lines') : lines'[k].kind = "answer" => k \in 1..Len(lines) /\ lines'[k] = lines[k]
    BY <1>3, <1>4
<1>6. WiresTyped'
    BY <1>1, <1>3 DEF WiresTyped
<1>7. EveryoneIsAnswered'
    BY <1>1, <1>5 DEF EveryoneIsAnswered
<1>8. OneAtATime'
    BY <1>1, <1>5, SMTT(40) DEF OneAtATime
<1>9. EveryRequestSettles'
    <2>1. \A k \in 1..Len(lines) : k \in 1..Len(lines') /\ lines'[k] = lines[k]
        BY <1>3
    <2> QED BY <1>1, <2>1 DEF EveryRequestSettles
<1> QED BY <1>1, <1>6, <1>7, <1>8, <1>9 DEF NothingOutlivesTheRuntime

\* What happens to the requests when the Runtime exits.
LEMMA ExitsNext ==
    ASSUME WiresTyped, FlowsTyped, ServerTyped, WireInv, Exits \/ Drops
    PROVE  WiresTyped' /\ WireInv'
<1>1. inbox' = <<>> /\ Len(inbox') = 0 /\ inbox' \in Seq(RequestSet)
    <2>1. inbox' = <<>>
        BY DEF Exits, Drops
    <2> QED BY <2>1
<1>2. CASE Exits
    <2>1. server' = "dead" /\ UNCHANGED <<lines, flows>>
        BY <1>2 DEF Exits
    <2>2. WiresTyped'
        BY <1>1, <2>1 DEF WiresTyped
    <2> QED BY <1>1, <2>1, <2>2 DEF WireInv, EveryoneIsAnswered, OneAtATime, NothingOutlivesTheRuntime, EveryRequestSettles
<1>3. CASE Drops
    <2>1. server' = "none" /\ lines' = <<>> /\ Len(lines') = 0 /\ lines' \in Seq(AnswerSet \cup NoteSet)
          /\ \A i \in Index : ~Waiting(flows'[i])
        BY <1>3 DEF Drops
    <2>2. WiresTyped'
        BY <1>1, <2>1 DEF WiresTyped
    <2> QED BY <1>1, <2>1, <2>2 DEF WireInv, EveryoneIsAnswered, OneAtATime, NothingOutlivesTheRuntime, EveryRequestSettles
<1> QED BY <1>2, <1>3

--------------------------------------------------------------------------------
(* The Runtime                                                             *)

Typed == ServerTyped /\ HostTyped /\ ClicksTyped /\ FlowsTyped /\ WiresTyped

\* The request that is served next, and the flow that waits for it.
LEMMA HeadRequest ==
    ASSUME WiresTyped, EveryoneIsAnswered, inbox # <<>>
    PROVE  LET r == Head(inbox)
           IN  /\ r \in RequestSet /\ GoodRequest(r) /\ r.i \in Index
               /\ Requested(flows[r.i], r) /\ Waiting(flows[r.i])
<1> DEFINE r == Head(inbox)
<1>1. inbox \in Seq(RequestSet) /\ r = inbox[1] /\ 1 \in 1..Len(inbox)
    BY DEF WiresTyped
<1>2. r \in RequestSet /\ GoodRequest(r) /\ Requested(flows[r.i], r)
    BY <1>1 DEF WiresTyped, EveryoneIsAnswered
<1> HIDE DEF r
<1>3. r.i \in Index /\ Waiting(flows[r.i])
    BY <1>2 DEF RequestSet, Requested, Waiting, AwaitOf
<1> QED BY <1>2, <1>3 DEF r

\* The line that is read next.
LEMMA HeadLine ==
    ASSUME WiresTyped, EveryoneIsAnswered, lines # <<>>
    PROVE  LET a == Head(lines)
           IN  /\ a \in AnswerSet \cup NoteSet
               /\ a.kind = "answer" => a \in AnswerSet /\ a.i \in Index /\ Expected(flows[a.i], a)
<1> DEFINE a == Head(lines)
<1>1. lines \in Seq(AnswerSet \cup NoteSet) /\ a = lines[1] /\ 1 \in 1..Len(lines)
    BY DEF WiresTyped
<1>2. a \in AnswerSet \cup NoteSet /\ (a.kind = "answer" => Expected(flows[a.i], a))
    BY <1>1 DEF EveryoneIsAnswered
<1> HIDE DEF a
<1>3. a.kind = "answer" => a \in AnswerSet /\ a.i \in Index
    BY <1>2 DEF AnswerSet, NoteSet
<1> QED BY <1>2, <1>3 DEF a

\* The response of a handler is what the flow expects, if it is of the kind its method returns.
LEMMA RespondAnswers ==
    ASSUME WiresTyped, EveryoneIsAnswered, NEW method, Serving(method),
           NEW ok \in BOOLEAN, NEW value \in {None} \cup Details \cup SUBSET Sessions,
           NEW notes \in {<<>>} \cup {<<n>> : n \in NoteSet},
           method = "list" => ok /\ value \in SUBSET Sessions,
           ok /\ method \in {"get", "changes", "create"} => value \in Details,
           Respond(Head(inbox), ok, value, notes)
    PROVE  Answers /\ half' = None
<1> DEFINE r == Head(inbox)
           a == Answer(r.i, ok, value)
<1>1. server = "up" /\ inbox # <<>> /\ UNCHANGED <<server, flows>> /\ r.method = method
    BY DEF Serving
<1>2. r \in RequestSet /\ r.i \in Index /\ Requested(flows[r.i], r) /\ Waiting(flows[r.i])
    BY <1>1, HeadRequest
<1> HIDE DEF r
<1>3. a \in AnswerSet /\ a.i = r.i /\ a.ok = ok /\ a.value = value
    BY <1>2 DEF AnswerSet, Answer
<1> HIDE DEF a
<1>4. Expected(flows[a.i], a)
    BY <1>1, <1>2, <1>3 DEF Expected, Requested, AwaitOf
<1>5. inbox' = Tail(inbox) /\ lines' = lines \o notes \o <<a>> /\ half' = None
    BY DEF Respond, r, a
<1> QED BY <1>1, <1>3, <1>4, <1>5 DEF Answers, r

\* What a session/get returns.
LEMMA DetailTyped ==
    ASSUME ServerTyped, NEW s \in Sessions, NEW per \in Persistent
    PROVE  Detail(s, per, m[s]) \in Details
<1>1. m[s] \in InMemory
    BY DEF ServerTyped
<1> HIDE DEF ServerTyped
<1> QED BY <1>1 DEF Detail, Details, InMemory

\* An update of the persistent or of the supervised part of a session.
LEMMA UpdateTyped ==
    ASSUME ServerTyped, NEW s \in Sessions
    PROVE  /\ p[s] \in Persistent /\ m[s] \in InMemory
           /\ \A new \in Persistent : PUpdate(s, new) => p' \in [Sessions -> Persistent]
           /\ \A new \in InMemory : MUpdate(s, new) => m' \in [Sessions -> InMemory]
<1>1. p[s] \in Persistent /\ m[s] \in InMemory /\ p[s].v + 1 \in Nat /\ m[s].v + 1 \in Nat
    BY DEF ServerTyped, Persistent, InMemory
<1>2. ASSUME NEW new \in Persistent, PUpdate(s, new)
      PROVE  p' \in [Sessions -> Persistent]
    <2>1. [new EXCEPT !.v = p[s].v + 1] \in Persistent
        BY <1>1 DEF Persistent
    <2> QED BY <1>2, <2>1 DEF PUpdate, ServerTyped
<1>3. ASSUME NEW new \in InMemory, MUpdate(s, new)
      PROVE  m' \in [Sessions -> InMemory]
    <2>1. [new EXCEPT !.v = m[s].v + 1] \in InMemory
        BY <1>1 DEF InMemory
    <2> QED BY <1>3, <2>1 DEF MUpdate, ServerTyped
<1> QED BY <1>1, <1>2, <1>3

\* The server loop takes one request after the other and answers it; only the grant of a larger
\* budget is a promise about what the user saw.
LEMMA ServeNext ==
    ASSUME Typed, EveryoneIsAnswered, BudgetIsForWhatWasShown, Serve
    PROVE  /\ ServerTyped' /\ BudgetIsForWhatWasShown'
           /\ UNCHANGED <<flows, hostVars, clicks>>
           /\ Answers \/ Moves(0)
<1> USE DEF Typed
<1> DEFINE r == Head(inbox)
<1>0. /\ exists \in SUBSET Sessions /\ p \in [Sessions -> Persistent] /\ m \in [Sessions -> InMemory]
      /\ owes \in [Sessions -> {"none", "event", "state"}] /\ 0 \notin Index
      /\ server \in {"none", "up", "dead"} /\ half \in {None} \cup Persistent
    BY DEF ServerTyped, Index
<1>1. ASSUME NEW method, Serving(method)
      PROVE  /\ UNCHANGED <<server, flows, hostVars, clicks>> /\ inbox # <<>> /\ r.method = method
             /\ method \notin {"initialize", "list", "create"} => r.s \in Sessions
             /\ method = "increase" => r.seen = Seeing(r.s, r.arg)
    <2>1. UNCHANGED <<server, flows, hostVars, clicks>> /\ inbox # <<>> /\ r.method = method
        BY <1>1 DEF Serving
    <2>2. GoodRequest(r)
        BY <2>1, HeadRequest
    <2> HIDE DEF r
    <2> QED BY <2>1, <2>2 DEF GoodRequest
<1>2. ASSUME NEW method, method # "list", Serving(method), Refuse(r)
      PROVE  ServerTyped' /\ BudgetIsForWhatWasShown' /\ Answers
    <2>1. Answers /\ half' = None
        BY <1>2, RespondAnswers DEF Refuse
    <2>2. UNCHANGED <<exists, p, m, owes, done>> /\ server' = server
        BY <1>1, <1>2 DEF Refuse
    <2> QED BY <1>0, <2>1, <2>2 DEF ServerTyped, BudgetIsForWhatWasShown
<1>3. ASSUME NEW s \in Sessions, NEW state \in BOOLEAN
      PROVE  <<Note(s, state)>> \in {<<>>} \cup {<<n>> : n \in NoteSet}
    BY DEF Note, NoteSet
<1>31. ASSUME NEW method, Serving(method), NEW notes \in {<<>>} \cup {<<n>> : n \in NoteSet},
              method \notin {"list", "get", "changes", "create"}, Respond(r, TRUE, None, notes)
       PROVE  Answers /\ half' = None
    BY <1>31, RespondAnswers
<1>32. ASSUME NEW method, Serving(method), NEW value \in Details,
              method \in {"get", "changes", "create"}, Respond(r, TRUE, value, <<>>)
       PROVE  Answers /\ half' = None
    BY <1>32, RespondAnswers
<1>33. <<>> \in {<<>>} \cup {<<n>> : n \in NoteSet}
    OBVIOUS
<1>34. ASSUME NEW method \in {"initialize", "stop", "resolve", "accept", "discard"}, Serving(method),
              Respond(r, TRUE, None, <<>>)
       PROVE  Answers /\ half' = None
    BY <1>31, <1>33, <1>34
<1>35. ASSUME Serving("stop"), NEW s \in Sessions, Respond(r, TRUE, None, <<Note(s, TRUE)>>)
       PROVE  Answers /\ half' = None
    <2> DEFINE notes == <<Note(s, TRUE)>>
    <2>1. notes \in {<<>>} \cup {<<n>> : n \in NoteSet} /\ Respond(r, TRUE, None, notes)
        BY <1>3, <1>35
    <2> HIDE DEF notes
    <2>2. PICK method : method = "stop"
        OBVIOUS
    <2>3. Serving(method) /\ method \notin {"list", "get", "changes", "create"}
        BY <1>35, <2>2
    <2> QED BY <1>31, <2>1, <2>3
<1>4. ASSUME NEW method \in {"run", "continue", "increase"}, Serving(method), NEW job \in {"starting", "going"}, Start(r, job)
      PROVE  /\ Answers /\ half' = None /\ m' \in [Sessions -> InMemory]
             /\ UNCHANGED <<exists, owes, server, flows, hostVars, clicks>>
    <2>1. r.s \in Sessions
        BY <1>1, <1>4
    <2> DEFINE s == r.s
               new == [m[s] EXCEPT !.exec = "running", !.job = job]
    <2>2. MUpdate(s, new) /\ Respond(r, TRUE, None, <<Note(s, TRUE)>>) /\ UNCHANGED <<exists, owes>>
        BY <1>4 DEF Start
    <2> HIDE DEF s
    <2>3. new \in InMemory
        BY <2>1, UpdateTyped DEF InMemory, s
    <2>4. m' \in [Sessions -> InMemory]
        BY <2>1, <2>2, <2>3, UpdateTyped DEF s
    <2>5. Answers /\ half' = None
        BY <1>3, <1>31, <1>4, <2>1, <2>2 DEF s
    <2> QED BY <1>1, <1>4, <2>2, <2>4, <2>5
<1>5. CASE ServeInitialize
    <2>1. Serving("initialize") /\ Respond(r, TRUE, None, <<>>) /\ UNCHANGED <<exists, p, m, owes, done>>
        BY <1>5 DEF ServeInitialize
    <2>2. Answers /\ half' = None
        BY <1>34, <2>1
    <2> QED BY <1>0, <1>1, <2>1, <2>2 DEF ServerTyped, BudgetIsForWhatWasShown
<1>6. CASE ServeList
    <2>1. Serving("list") /\ Respond(r, TRUE, exists, <<>>) /\ UNCHANGED <<exists, p, m, owes, done>>
        BY <1>6 DEF ServeList
    <2>2. Answers /\ half' = None
        <3> DEFINE value == exists
                   ok == TRUE
                   method == "list"
        <3>1. value \in SUBSET Sessions /\ value \in {None} \cup Details \cup SUBSET Sessions
              /\ ok \in BOOLEAN /\ ok /\ method \notin {"get", "changes", "create"}
            BY <1>0
        <3>2. Serving(method) /\ Respond(r, ok, value, <<>>)
            BY <2>1
        <3> HIDE DEF value, ok, method, r
        <3> QED BY <1>33, <3>1, <3>2, RespondAnswers DEF r
    <2> QED BY <1>0, <1>1, <2>1, <2>2 DEF ServerTyped, BudgetIsForWhatWasShown
<1>7. CASE ServeRead
    <2>1. PICK method \in {"get", "changes"} : Serving(method)
        BY <1>7 DEF ServeRead
    <2>2. r.s \in Sessions /\ half' = p[r.s] /\ UNCHANGED <<exists, p, m, owes, inbox, lines, done>>
        BY <1>1, <1>7, <2>1 DEF ServeRead
    <2>3. half' \in Persistent
        BY <2>2, UpdateTyped
    <2>4. UNCHANGED <<server, flows, hostVars, clicks>>
        BY <1>1, <2>1
    <2> QED BY <1>0, <2>2, <2>3, <2>4 DEF ServerTyped, BudgetIsForWhatWasShown, Moves
<1>8. CASE ServeGet
    <2>1. PICK method \in {"get", "changes"} : Serving(method)
        BY <1>8 DEF ServeGet
    <2>2. /\ half # None /\ r.s \in Sessions
          /\ Respond(r, TRUE, Detail(r.s, half, m[r.s]), <<>>) /\ UNCHANGED <<exists, p, m, owes, done>>
        BY <1>1, <1>8, <2>1 DEF ServeGet
    <2>3. Detail(r.s, half, m[r.s]) \in Details
        BY <1>0, <2>2, DetailTyped
    <2>4. Answers /\ half' = None
        BY <1>32, <2>1, <2>2, <2>3
    <2> QED BY <1>0, <1>1, <2>1, <2>2, <2>4 DEF ServerTyped, BudgetIsForWhatWasShown
<1>9. CASE ServeCreate
    <2>1. Serving("create")
        BY <1>9 DEF ServeCreate
    <2>2. ASSUME NEW s \in Sessions \ exists, exists' = exists \cup {s},
                 Respond(r, TRUE, Detail(s, p[s], m[s]), <<>>), UNCHANGED <<p, m, owes, done>>
          PROVE  ServerTyped' /\ BudgetIsForWhatWasShown' /\ Answers
        <3>1. Detail(s, p[s], m[s]) \in Details
            BY DetailTyped, UpdateTyped
        <3>2. Answers /\ half' = None
            BY <1>32, <2>1, <2>2, <3>1
        <3> QED BY <1>0, <1>1, <2>1, <2>2, <3>2 DEF ServerTyped, BudgetIsForWhatWasShown
    <2> QED BY <1>1, <1>2, <1>9, <2>1, <2>2 DEF ServeCreate
<1>10. CASE ServeRun
    <2>1. Serving("run") /\ (Refuse(r) \/ (Start(r, "starting") /\ UNCHANGED <<p, done>>))
        BY <1>10 DEF ServeRun
    <2> QED BY <1>0, <1>1, <1>2, <1>4, <2>1 DEF ServerTyped, BudgetIsForWhatWasShown
<1>11. CASE ServeContinue
    <2>1. Serving("continue") /\ (Refuse(r) \/ (Start(r, "going") /\ UNCHANGED <<p, done>>))
        BY <1>11 DEF ServeContinue
    <2> QED BY <1>0, <1>1, <1>2, <1>4, <2>1 DEF ServerTyped, BudgetIsForWhatWasShown
<1>12. CASE ServeIncrease
    <2>1. Serving("increase")
        BY <1>12 DEF ServeIncrease
    <2>2. r.s \in Sessions /\ r.seen = Seeing(r.s, r.arg)
        BY <1>1, <2>1
    <2> DEFINE s == r.s
               new == [p[s] EXCEPT !.turn = "open", !.limit = @ + 1]
    <2>3. ASSUME r.arg.id = p[s].id, r.arg.limit = p[s].limit, PUpdate(s, new), Start(r, "going"),
                 done' = [s |-> s, turn |-> p[s].id, limit |-> p[s].limit, seen |-> r.seen]
          PROVE  ServerTyped' /\ BudgetIsForWhatWasShown' /\ Answers
        <3>1. Answers /\ half' = None /\ m' \in [Sessions -> InMemory] /\ UNCHANGED <<exists, owes, server>>
            BY <1>4, <2>1, <2>3
        <3>2. p' \in [Sessions -> Persistent]
            <4>1. p[s] \in Persistent
                BY <2>2, UpdateTyped
            <4> HIDE DEF s
            <4>2. p[s].limit + 1 \in Nat
                BY <4>1 DEF Persistent
            <4>3. new \in Persistent
                BY <4>1, <4>2 DEF Persistent
            <4> HIDE DEF new
            <4> QED BY <2>2, <2>3, <4>3, UpdateTyped DEF s
        <3>3. BudgetIsForWhatWasShown'
            BY <2>2, <2>3 DEF BudgetIsForWhatWasShown, Seeing
        <3> QED BY <1>0, <3>1, <3>2, <3>3 DEF ServerTyped
    <2> QED BY <1>1, <1>2, <1>12, <2>1, <2>3 DEF ServeIncrease
<1>13. CASE ServeStop
    <2>1. Serving("stop") /\ UNCHANGED <<exists, owes, done>> /\ r.s \in Sessions
        BY <1>1, <1>13 DEF ServeStop
    <2> DEFINE s == r.s
               closed == [p[s] EXCEPT !.turn = "closed"]
               stopping == [m[s] EXCEPT !.exec = "stopping", !.decision = IF m[s].approval # 0 THEN "deny" ELSE @]
    <2>2. \/ Respond(r, TRUE, None, <<>>) /\ UNCHANGED <<p, m>>
          \/ PUpdate(s, closed) /\ Respond(r, TRUE, None, <<Note(s, TRUE)>>) /\ UNCHANGED m
          \/ MUpdate(s, stopping) /\ Respond(r, TRUE, None, <<Note(s, TRUE)>>) /\ UNCHANGED p
        BY <1>13 DEF ServeStop
    <2>3. Answers /\ half' = None
        BY <1>34, <1>35, <2>1, <2>2
    <2>4. p[s] \in Persistent /\ m[s] \in InMemory
        BY <2>1, UpdateTyped
    <2>5. closed \in Persistent /\ stopping \in InMemory
        BY <2>4 DEF Persistent, InMemory
    <2>6. p' \in [Sessions -> Persistent] /\ m' \in [Sessions -> InMemory]
        BY <1>0, <2>1, <2>2, <2>5, UpdateTyped
    <2> QED BY <1>0, <1>1, <2>1, <2>3, <2>6 DEF ServerTyped, BudgetIsForWhatWasShown
<1>14. CASE ServeResolve
    <2>1. Serving("resolve") /\ r.s \in Sessions
        BY <1>1, <1>14 DEF ServeResolve
    <2> DEFINE s == r.s
    <2>2. ASSUME m' = [m EXCEPT ![s].decision = IF r.arg.allow THEN "allow" ELSE "deny"],
                 Respond(r, TRUE, None, <<>>), UNCHANGED <<exists, p, owes, done>>
          PROVE  ServerTyped' /\ BudgetIsForWhatWasShown' /\ Answers
        <3>1. Answers /\ half' = None
            BY <1>34, <2>1, <2>2
        <3>2. m[s] \in InMemory
            BY <2>1, UpdateTyped
        <3>3. [m[s] EXCEPT !.decision = IF r.arg.allow THEN "allow" ELSE "deny"] \in InMemory
            BY <3>2 DEF InMemory
        <3>4. m' \in [Sessions -> InMemory]
            BY <1>0, <2>1, <2>2, <3>3
        <3> QED BY <1>0, <1>1, <2>1, <2>2, <3>1, <3>4 DEF ServerTyped, BudgetIsForWhatWasShown
    <2> QED BY <1>1, <1>2, <1>14, <2>1, <2>2 DEF ServeResolve
<1>15. CASE ServeDeliver
    <2>1. PICK method \in {"accept", "discard"} : Serving(method)
        BY <1>15 DEF ServeDeliver
    <2>2. r.s \in Sessions
        BY <1>1, <2>1
    <2> DEFINE s == r.s
               new == [p[s] EXCEPT !.changes = IF r.method = "accept" THEN "applied" ELSE "none"]
    <2>3. ASSUME PUpdate(s, new), Respond(r, TRUE, None, <<>>), UNCHANGED <<exists, m, owes, done>>
          PROVE  ServerTyped' /\ BudgetIsForWhatWasShown' /\ Answers
        <3>1. Answers /\ half' = None
            BY <1>31, <1>33, <2>1, <2>3
        <3>2. p[s] \in Persistent
            BY <2>2, UpdateTyped
        <3>3. new \in Persistent
            BY <3>2 DEF Persistent
        <3>4. p' \in [Sessions -> Persistent]
            BY <2>2, <2>3, <3>3, UpdateTyped
        <3> QED BY <1>0, <1>1, <2>1, <2>3, <3>1, <3>4 DEF ServerTyped, BudgetIsForWhatWasShown
    <2> QED BY <1>1, <1>2, <1>15, <2>1, <2>3 DEF ServeDeliver
<1> QED BY <1>5, <1>6, <1>7, <1>8, <1>9, <1>10, <1>11, <1>12, <1>13, <1>14, <1>15 DEF Serve

\* The worker threads change what is stored and supervised, and notify.
LEMMA WorkerNext ==
    ASSUME ServerTyped, NEW s \in Sessions, Worker(s)
    PROVE  /\ ServerTyped' /\ UNCHANGED <<flows, hostVars, clicks, done>>
           /\ Notes \/ Moves(0)
<1>0. /\ exists \in SUBSET Sessions /\ p \in [Sessions -> Persistent] /\ m \in [Sessions -> InMemory]
      /\ owes \in [Sessions -> {"none", "event", "state"}] /\ 0 \notin Index
      /\ server \in {"none", "up", "dead"} /\ half \in {None} \cup Persistent
    BY DEF ServerTyped, Index
<1>1. p[s] \in Persistent /\ m[s] \in InMemory /\ p[s].v + 1 \in Nat /\ m[s].v + 1 \in Nat
    BY UpdateTyped DEF Persistent, InMemory
<1>2. ASSUME UNCHANGED <<exists, server, inbox, half, lines, flows, hostVars, clicks, done>>,
             p' \in [Sessions -> Persistent], m' \in [Sessions -> InMemory],
             owes' \in [Sessions -> {"none", "event", "state"}]
      PROVE  ServerTyped' /\ UNCHANGED <<flows, hostVars, clicks, done>> /\ Moves(0)
    BY <1>0, <1>2 DEF ServerTyped, Moves
<1>3. Working(s) => UNCHANGED <<exists, server, inbox, half, lines, flows, hostVars, clicks, done>>
    BY DEF Working
<1>4. Finishing(s) => UNCHANGED <<exists, server, inbox, half, lines, flows, hostVars, clicks, done>>
    BY DEF Finishing
<1>5. CASE WorkBegin(s)
    <2> DEFINE new == [p[s] EXCEPT !.turn = "open", !.id = p[s].v + 1, !.limit = 1]
               job == [m[s] EXCEPT !.job = "going"]
    <2>1. /\ Working(s) /\ PUpdate(s, new) /\ m' = [m EXCEPT ![s].job = "going"]
          /\ owes' = [owes EXCEPT ![s] = "event"]
        BY <1>5 DEF WorkBegin
    <2>2. new \in Persistent /\ job \in InMemory
        BY <1>1 DEF Persistent, InMemory
    <2>3. m' = [m EXCEPT ![s] = job]
        BY <1>0, <2>1
    <2>4. p' \in [Sessions -> Persistent]
        BY <2>1, <2>2, UpdateTyped
    <2> HIDE DEF new, job
    <2> QED BY <1>0, <1>2, <1>3, <2>1, <2>2, <2>3, <2>4
<1>6. CASE WorkEdit(s)
    <2> DEFINE new == [p[s] EXCEPT !.changes = "pending"]
    <2>1. Working(s) /\ PUpdate(s, new) /\ m' = m /\ owes' = [owes EXCEPT ![s] = "event"]
        BY <1>6 DEF WorkEdit
    <2>2. new \in Persistent
        BY <1>1 DEF Persistent
    <2> HIDE DEF new
    <2>3. p' \in [Sessions -> Persistent]
        BY <2>1, <2>2, UpdateTyped
    <2> QED BY <1>0, <1>2, <1>3, <2>1, <2>3
<1>7. CASE WorkAsk(s)
    <2> DEFINE new == [m[s] EXCEPT !.exec = "awaiting", !.approval = m[s].v + 1]
    <2>1. Working(s) /\ MUpdate(s, new) /\ p' = p /\ owes' = [owes EXCEPT ![s] = "state"]
        BY <1>7 DEF WorkAsk
    <2>2. new \in InMemory
        BY <1>1 DEF InMemory
    <2> HIDE DEF new
    <2>3. m' \in [Sessions -> InMemory]
        BY <2>1, <2>2, UpdateTyped
    <2> QED BY <1>0, <1>2, <1>3, <2>1, <2>3
<1>8. CASE WorkDecided(s)
    <2> DEFINE new == [m[s] EXCEPT !.exec = IF @ = "stopping" THEN @ ELSE "running",
                                   !.approval = 0, !.decision = "none"]
    <2>1. Finishing(s) /\ MUpdate(s, new) /\ p' = p /\ owes' = [owes EXCEPT ![s] = "state"]
        BY <1>8 DEF WorkDecided
    <2>2. new \in InMemory
        BY <1>1 DEF InMemory
    <2> HIDE DEF new
    <2>3. m' \in [Sessions -> InMemory]
        BY <2>1, <2>2, UpdateTyped
    <2> QED BY <1>0, <1>2, <1>4, <2>1, <2>3
<1>9. CASE WorkClose(s)
    <2>1. PICK turn \in {"closed", "waiting"} : PUpdate(s, [p[s] EXCEPT !.turn = turn])
        BY <1>9 DEF WorkClose
    <2> DEFINE new == [p[s] EXCEPT !.turn = turn]
               job == [m[s] EXCEPT !.job = "ended"]
    <2>2. Working(s) /\ PUpdate(s, new) /\ m' = [m EXCEPT ![s].job = "ended"] /\ owes' = owes
        BY <1>9, <2>1 DEF WorkClose
    <2>3. new \in Persistent /\ job \in InMemory
        BY <1>1 DEF Persistent, InMemory
    <2>4. m' = [m EXCEPT ![s] = job]
        BY <1>0, <2>2
    <2>5. p' \in [Sessions -> Persistent]
        BY <2>2, <2>3, UpdateTyped
    <2> HIDE DEF new, job
    <2> QED BY <1>0, <1>2, <1>3, <2>2, <2>3, <2>4, <2>5
<1>10. CASE WorkLeave(s)
    <2> DEFINE new == [p[s] EXCEPT !.turn = "closed"]
    <2>1. Finishing(s) /\ (PUpdate(s, new) \/ p' = p) /\ MUpdate(s, Idle) /\ owes' = [owes EXCEPT ![s] = "state"]
        BY <1>10 DEF WorkLeave
    <2>2. new \in Persistent /\ Idle \in InMemory
        BY <1>1 DEF Persistent, InMemory, Idle
    <2> HIDE DEF new
    <2>3. p' \in [Sessions -> Persistent] /\ m' \in [Sessions -> InMemory]
        BY <1>0, <2>1, <2>2, UpdateTyped
    <2> QED BY <1>0, <1>2, <1>4, <2>1, <2>3
<1>11. CASE Notify(s)
    <2> DEFINE n == Note(s, owes[s] = "state")
    <2>1. n \in NoteSet
        BY DEF Note, NoteSet
    <2>2. /\ server = "up" /\ owes' = [owes EXCEPT ![s] = "none"] /\ lines' = Append(lines, n)
          /\ UNCHANGED <<exists, p, m, server, inbox, half, flows, hostVars, clicks, done>>
        BY <1>11 DEF Notify
    <2> HIDE DEF n
    <2> QED BY <1>0, <2>1, <2>2 DEF ServerTyped, Notes
<1> QED BY <1>5, <1>6, <1>7, <1>8, <1>9, <1>10, <1>11 DEF Worker

--------------------------------------------------------------------------------
(* The extension host                                                      *)

\* A flow sends a request and waits for it.
Sent(i) ==
    /\ i \in Index /\ Waiting(flows'[i]) /\ \A j \in Index \ {i} : flows'[j] = flows[j]
    /\ IF server = "dead" THEN UNCHANGED <<inbox, server>>
       ELSE /\ server' = "up"
            /\ \E r \in RequestSet : GoodRequest(r) /\ r.i = i /\ Requested(flows'[r.i], r) /\ inbox' = Append(inbox, r)

\* request() with what a handler may send: the flow waits, and the request is its own.
LEMMA SendSends ==
    ASSUME FlowsTyped, server \in {"up", "dead"}, server' = server, NEW i \in Index, flows[i] # None,
           NEW method \in Methods \ {"initialize"}, NEW s \in Sessions \cup {None}, NEW arg \in Arguments,
           method \notin {"list", "create"} => s \in Sessions,
           method = "increase" => arg \in [id : Nat, limit : Nat] /\ flows[i].seen = Seeing(s, arg),
           AwaitOf(method) = "call" => flows[i].op = method,
           Send(i, flows[i], AwaitOf(method), method, s, arg)
    PROVE  FlowsTyped' /\ Sent(i)
<1> DEFINE f == flows[i]
           g == [f EXCEPT !.at = AwaitOf(method)]
           r == Request(i, method, s, arg)
<1>1. f \in Flows /\ GoodFlow(f) /\ flows \in [Index -> {None} \cup Flows]
    BY DEF FlowsTyped
<1>2. AwaitOf(method) \in {"list", "get", "changes", "call"}
    BY DEF AwaitOf, Methods
<1>3. flows' = [flows EXCEPT ![i] = g] /\ inbox' = IF server = "up" THEN Append(inbox, r) ELSE inbox
    BY DEF Send
<1>4. r \in RequestSet /\ GoodRequest(r) /\ r.i = i /\ r.method = method
    <2>1. f.seen \in {None} \cup Seen
        BY <1>1 DEF Flows
    <2>2. r = [i |-> i, method |-> method, s |-> s, arg |-> arg, seen |-> f.seen]
        BY DEF Request
    <2>3. r \in RequestSet
        BY <2>1, <2>2 DEF RequestSet
    <2> HIDE DEF f, r
    <2> QED BY <2>2, <2>3 DEF GoodRequest, f
<1> HIDE DEF r, f
<1>5. g \in Flows /\ g.at = AwaitOf(method) /\ g.op = f.op /\ g.s = f.s /\ g.arg = f.arg /\ g.seen = f.seen
    BY <1>1, <1>2 DEF Flows
<1>6. GoodFlow(g) /\ Waiting(g) /\ Requested(g, r) /\ g # None
    <2>1. GoodFlow(g)
        BY <1>1, <1>2, <1>5 DEF GoodFlow
    <2>2. g # None
        BY <1>5, FlowsAssumption
    <2>3. Waiting(g)
        BY <1>2, <1>5, <2>2 DEF Waiting
    <2>4. Requested(g, r)
        BY <1>4, <1>5, <2>2 DEF Requested, f
    <2> QED BY <2>1, <2>2, <2>3, <2>4
<1> HIDE DEF g
<1>7. flows'[i] = g /\ \A j \in Index \ {i} : flows'[j] = flows[j]
    BY <1>1, <1>3
<1>8. FlowsTyped'
    BY <1>1, <1>3, <1>5, <1>6, <1>7 DEF FlowsTyped
<1> QED BY <1>3, <1>4, <1>6, <1>7, <1>8 DEF Sent

\* A flow that goes to another of its steps, or ends, leaves the others alone.
LEMMA PlacedFlow ==
    ASSUME FlowsTyped, NEW i \in Index, NEW f \in {None} \cup Flows, f # None => GoodFlow(f),
           flows' = [flows EXCEPT ![i] = f]
    PROVE  FlowsTyped' /\ flows'[i] = f /\ \A j \in Index \ {i} : flows'[j] = flows[j]
<1>1. flows \in [Index -> {None} \cup Flows]
    BY DEF FlowsTyped
<1>2. flows'[i] = f /\ \A j \in Index \ {i} : flows'[j] = flows[j]
    BY <1>1
<1> QED BY <1>1, <1>2 DEF FlowsTyped

\* What is sent once the Runtime is there (ensure resolves).
LEMMA CallSends ==
    ASSUME FlowsTyped, HostTyped, server \in {"up", "dead"}, server' = server, NEW i \in Index, flows[i] # None,
           flows[i].at \in {"ensure", "init"}, Call(i, flows[i])
    PROVE  FlowsTyped' /\ Sent(i)
<1> DEFINE f == flows[i]
<1>1. GoodFlow(f) /\ f \in Flows /\ current.d.id \in Sessions
    BY DEF FlowsTyped, HostTyped, Currents, Details
<1>2. None \in Sessions \cup {None} /\ None \in Arguments
    BY DEF Arguments
<1>3. f.op \in {"refresh", "timer", "select", "create", "run", "continue", "increase"}
    BY <1>1 DEF GoodFlow
<1>4. CASE f.op \in {"refresh", "timer"}
    <2>1. AwaitOf("list") = "list" /\ "list" \in Methods \ {"initialize"}
        BY DEF AwaitOf, Methods
    <2>2. Send(i, f, "list", "list", None, None)
        BY <1>4 DEF Call
    <2> QED BY <1>2, <2>1, <2>2, SendSends
<1>5. CASE f.op = "select"
    <2>1. AwaitOf("get") = "get" /\ "get" \in Methods \ {"initialize"}
        BY DEF AwaitOf, Methods
    <2>2. Send(i, f, "get", "get", f.s, None) /\ f.s \in Sessions
        BY <1>1, <1>5 DEF Call, GoodFlow
    <2> QED BY <1>2, <2>1, <2>2, SendSends
<1>6. CASE f.op = "create"
    <2>1. AwaitOf("create") = "call" /\ "create" \in Methods \ {"initialize"}
        BY DEF AwaitOf, Methods
    <2>2. Send(i, f, "call", "create", None, None)
        BY <1>6 DEF Call
    <2> QED BY <1>2, <1>6, <2>1, <2>2, SendSends
<1>7. CASE f.op = "increase"
    <2>1. AwaitOf("increase") = "call" /\ "increase" \in Methods \ {"initialize"}
        BY DEF AwaitOf, Methods
    <2>2. /\ Send(i, f, "call", "increase", f.s, f.arg) /\ f.s \in Sessions /\ f.arg \in [id : Nat, limit : Nat]
          /\ f.seen = Seeing(f.s, f.arg)
        BY <1>1, <1>7 DEF Call, GoodFlow
    <2>3. f.arg \in Arguments
        BY <2>2 DEF Arguments
    <2> QED BY <1>7, <2>1, <2>2, <2>3, SendSends
<1>8. CASE f.op \in {"run", "continue"}
    <2>1. AwaitOf(f.op) = "call" /\ f.op \in Methods \ {"initialize"} /\ f.op \notin {"list", "create", "increase"}
        BY <1>8 DEF AwaitOf, Methods
    <2>2. Send(i, f, "call", f.op, current.d.id, None)
        BY <1>8 DEF Call
    <2> QED BY <1>1, <1>2, <2>1, <2>2, SendSends
<1> QED BY <1>3, <1>4, <1>5, <1>6, <1>7, <1>8

\* The typed state after a step of the host that leaves the Runtime alone.
LEMMA ServerKept ==
    ASSUME ServerTyped, UNCHANGED <<exists, p, m, owes, half>>, server' \in {"none", "up", "dead"}
    PROVE  ServerTyped'
BY DEF ServerTyped

\* A session/create, a refresh or a timer makes sure that the Runtime is there.
LEMMA EnsureNext ==
    ASSUME Typed, WireInv, BudgetIsForWhatWasShown, NEW i \in Index, Ensure(i)
    PROVE  /\ ServerTyped' /\ HostTyped' /\ ClicksTyped' /\ FlowsTyped' /\ BudgetIsForWhatWasShown'
           /\ Moves(i)
<1> USE DEF Typed
<1>1. /\ flows[i] # None /\ flows[i].at = "ensure" /\ ~Waiting(flows[i])
      /\ UNCHANGED <<exists, p, m, owes, half, lines, current, sessions, timer, told, view, clicks, done>>
    BY DEF Ensure, Waiting
<1>2. flows[i] \in Flows /\ GoodFlow(flows[i]) /\ server \in {"none", "up", "dead"}
    BY <1>1 DEF FlowsTyped, ServerTyped
<1>3. ClicksTyped' /\ BudgetIsForWhatWasShown'
    BY <1>1 DEF ClicksTyped, BudgetIsForWhatWasShown
<1>4. runtimeError' \in BOOLEAN
    BY DEF Ensure, HostTyped
<1>5. HostTyped'
    BY <1>1, <1>4 DEF HostTyped
<1>6. CASE server # "none"
    <2>1. Call(i, flows[i]) /\ server' = server
        BY <1>6 DEF Ensure
    <2>2. FlowsTyped' /\ Sent(i)
        BY <1>1, <1>2, <1>6, <2>1, CallSends
    <2>3. ServerTyped'
        BY <1>1, <1>2, <2>1, ServerKept
    <2> QED BY <1>1, <1>3, <1>5, <2>2, <2>3 DEF Moves, Sent
<1>7. CASE server = "none"
    <2> DEFINE g == [flows[i] EXCEPT !.at = "init"]
               r == Request(i, "initialize", None, None)
    <2>1. server' = "up" /\ inbox' = <<r>> /\ flows' = [flows EXCEPT ![i] = g]
        <3>1. flows' = [flows EXCEPT ![i].at = "init"]
            BY <1>7 DEF Ensure
        <3> QED BY <1>7, <3>1 DEF Ensure
    <2>2. g \in Flows /\ g.at = "init" /\ g.op = flows[i].op /\ g.s = flows[i].s /\ g.arg = flows[i].arg
          /\ g.seen = flows[i].seen
        BY <1>2 DEF Flows
    <2> HIDE DEF g
    <2>3. GoodFlow(g) /\ g # None /\ Waiting(g)
        BY <1>1, <1>2, <2>2, FlowsAssumption DEF GoodFlow, Waiting
    <2>4. FlowsTyped' /\ flows'[i] = g /\ \A j \in Index \ {i} : flows'[j] = flows[j]
        BY <2>1, <2>2, <2>3, PlacedFlow
    <2>5. r = [i |-> i, method |-> "initialize", s |-> None, arg |-> None, seen |-> flows[i].seen]
        BY DEF Request
    <2>6. r \in RequestSet
        <3>1. flows[i].seen \in {None} \cup Seen
            BY <1>2 DEF Flows
        <3> QED BY <2>5, <3>1 DEF RequestSet, Methods, Arguments
    <2> HIDE DEF r
    <2>7. GoodRequest(r) /\ r.i = i /\ Requested(g, r)
        BY <2>2, <2>3, <2>5 DEF GoodRequest, Requested, AwaitOf
    <2>8. inbox' = Append(inbox, r)
        <3>1. inbox = <<>>
            BY <1>7 DEF WireInv, NothingOutlivesTheRuntime
        <3> QED BY <2>1, <3>1
    <2>9. ServerTyped'
        BY <1>1, <2>1, ServerKept
    <2> QED BY <1>1, <1>3, <1>5, <1>7, <2>1, <2>3, <2>4, <2>6, <2>7, <2>8, <2>9 DEF Moves
<1> QED BY <1>6, <1>7

\* What is on the screen after the host rendered.
LEMMA RenderTyped ==
    ASSUME current' \in Currents, runtimeError' \in BOOLEAN, Render
    PROVE  view' \in [cur : Currents, err : BOOLEAN, sent : BOOLEAN]
BY DEF Render

\* A flow ends.
LEMMA EndEnds ==
    ASSUME FlowsTyped, NEW i \in Index, End(i)
    PROVE  FlowsTyped' /\ ~Waiting(flows'[i]) /\ \A j \in Index \ {i} : flows'[j] = flows[j]
<1>1. flows' = [flows EXCEPT ![i] = None]
    BY DEF End
<1>2. FlowsTyped' /\ flows'[i] = None /\ \A j \in Index \ {i} : flows'[j] = flows[j]
    BY <1>1, PlacedFlow
<1> QED BY <1>2 DEF Waiting

\* A flow that fails tells the user.
LEMMA FailFails ==
    ASSUME FlowsTyped, HostTyped, NEW i \in Index, runtimeError' \in BOOLEAN, Fail(i)
    PROVE  /\ FlowsTyped' /\ ~Waiting(flows'[i]) /\ \A j \in Index \ {i} : flows'[j] = flows[j]
           /\ UNCHANGED <<inbox, current>> /\ told' \in BOOLEAN
           /\ view' \in [cur : Currents, err : BOOLEAN, sent : BOOLEAN]
<1>1. End(i) /\ told' = TRUE /\ UNCHANGED <<current, inbox>> /\ (Render \/ UNCHANGED view)
    BY DEF Fail
<1>2. current' \in Currents
    BY <1>1 DEF HostTyped
<1>3. view' \in [cur : Currents, err : BOOLEAN, sent : BOOLEAN]
    BY <1>1, <1>2, RenderTyped DEF HostTyped
<1> QED BY <1>1, <1>3, EndEnds

\* An answer is read: the flow that waits for it goes on.
LEMMA ReadAnswerNext ==
    ASSUME Typed, WireInv, BudgetIsForWhatWasShown, ReadAnswer
    PROVE  /\ ServerTyped' /\ HostTyped' /\ ClicksTyped' /\ FlowsTyped' /\ BudgetIsForWhatWasShown'
           /\ Moves(Head(lines).i)
<1> USE DEF Typed
<1> DEFINE a == Head(lines)
           i == a.i
           f == flows[i]
           Views == [cur : Currents, err : BOOLEAN, sent : BOOLEAN]
<1>1. /\ lines # <<>> /\ a.kind = "answer" /\ lines' = Tail(lines)
      /\ UNCHANGED <<exists, p, m, owes, half, server, timer, clicks, done>>
      /\ sessions' = IF f.at = "list" THEN a.value ELSE sessions
      /\ runtimeError' = IF a.ok /\ (f.at = "init" \/ f.at = "list") THEN FALSE ELSE runtimeError
    BY DEF ReadAnswer
<1>2. a \in AnswerSet /\ i \in Index /\ Expected(f, a)
    BY <1>1, HeadLine DEF WireInv
<1>3. \/ ~a.ok /\ Fail(i)
      \/ a.ok /\ f.at = "init" /\ Call(i, f) /\ UNCHANGED <<current, told>> /\ Render
      \/ /\ a.ok /\ f.at = "list" /\ UNCHANGED <<current, told, view>>
         /\ \E s \in {current.d.id} \cap a.value : Send(i, f, "get", "get", s, None)
      \/ a.ok /\ f.at = "get" /\ GotDetail(i, a.value)
      \/ a.ok /\ f.at = "changes" /\ GotChanges(i, a.value)
      \/ /\ a.ok /\ f.at = "call" /\ flows' = [flows EXCEPT ![i] = ThenRefresh(f)]
         /\ current' = IF f.op = "create" THEN [d |-> a.value, by |-> i] ELSE current
         /\ UNCHANGED <<inbox, told, view>>
    <2>1. f.at \in {"init", "list", "get", "changes", "call"} /\ a.ok \in BOOLEAN
        BY <1>2 DEF Expected, Waiting, AnswerSet
    <2>2. CASE ~a.ok
        BY <2>2 DEF ReadAnswer
    <2>3. CASE a.ok /\ f.at = "init"
        BY <2>3 DEF ReadAnswer
    <2>4. CASE a.ok /\ f.at = "list"
        BY <2>4 DEF ReadAnswer
    <2>5. CASE a.ok /\ f.at = "get"
        BY <2>5 DEF ReadAnswer
    <2>6. CASE a.ok /\ f.at = "changes"
        BY <2>6 DEF ReadAnswer
    <2>7. CASE a.ok /\ f.at = "call"
        BY <2>7 DEF ReadAnswer
    <2> QED BY <2>1, <2>2, <2>3, <2>4, <2>5, <2>6, <2>7
<1> HIDE DEF a, i
<1>4. /\ f # None /\ f \in Flows /\ GoodFlow(f) /\ Waiting(f) /\ i \in Nat
      /\ current \in Currents /\ current.d.id \in Sessions /\ told \in BOOLEAN /\ view \in Views
      /\ server \in {"none", "up", "dead"} /\ server' = server
    BY <1>1, <1>2 DEF Expected, Waiting, FlowsTyped, HostTyped, Currents, Details, Index, ServerTyped
<1>5. server # "none"
    BY <1>1 DEF WireInv, NothingOutlivesTheRuntime
<1>6. sessions' \in SUBSET Sessions /\ runtimeError' \in BOOLEAN
    BY <1>1, <1>2 DEF Expected, HostTyped
<1>7. None \in Arguments /\ {"get", "changes"} \subseteq Methods \ {"initialize"}
      /\ AwaitOf("get") = "get" /\ AwaitOf("changes") = "changes"
    BY DEF Arguments, Methods, AwaitOf
<1>8. ASSUME NEW d \in Details
      PROVE  d.id \in Sessions /\ [d |-> d, by |-> i] \in Currents
    BY <1>4 DEF Details, Currents
<1>9. /\ FlowsTyped' /\ current' \in Currents /\ told' \in BOOLEAN /\ view' \in Views
      /\ \/ /\ UNCHANGED inbox /\ ~Waiting(flows'[i]) /\ \A j \in Index \ {i} : flows'[j] = flows[j]
         \/ Sent(i)
    <2>1. CASE ~a.ok /\ Fail(i)
        BY <1>2, <1>4, <1>6, <2>1, FailFails
    <2>2. CASE a.ok /\ f.at = "init" /\ Call(i, f) /\ UNCHANGED <<current, told>> /\ Render
        <3>1. FlowsTyped' /\ Sent(i)
            BY <1>2, <1>4, <1>5, <2>2, CallSends
        <3> QED BY <1>4, <1>6, <2>2, <3>1, RenderTyped
    <2>3. CASE /\ a.ok /\ f.at = "list" /\ UNCHANGED <<current, told, view>>
               /\ \E s \in {current.d.id} \cap a.value : Send(i, f, "get", "get", s, None)
        <3>1. Send(i, f, "get", "get", current.d.id, None)
            BY <2>3
        <3>2. FlowsTyped' /\ Sent(i)
            BY <1>2, <1>4, <1>5, <1>7, <3>1, SendSends
        <3> QED BY <1>4, <2>3, <3>2
    <2>4. CASE a.ok /\ f.at = "get" /\ GotDetail(i, a.value)
        <3> DEFINE d == a.value
        <3>1. d \in Details
            BY <1>2, <2>4 DEF Expected
        <3>2. current' = [d |-> d, by |-> i] /\ current' \in Currents /\ d.id \in Sessions
            BY <1>8, <2>4, <3>1 DEF GotDetail
        <3>3. CASE d.p.changes # "none"
            <4>1. Send(i, f, "changes", "changes", d.id, None) /\ UNCHANGED <<told, view>>
                BY <2>4, <3>3 DEF GotDetail
            <4>2. FlowsTyped' /\ Sent(i)
                BY <1>2, <1>4, <1>5, <1>7, <3>2, <4>1, SendSends
            <4> QED BY <1>4, <3>2, <4>1, <4>2
        <3>4. CASE d.p.changes = "none"
            <4>1. End(i) /\ Render /\ UNCHANGED inbox /\ told' \in BOOLEAN
                BY <1>4, <2>4, <3>4 DEF GotDetail
            <4> QED BY <1>2, <1>6, <3>2, <4>1, EndEnds, RenderTyped
        <3> QED BY <3>3, <3>4
    <2>5. CASE a.ok /\ f.at = "changes" /\ GotChanges(i, a.value)
        <3> DEFINE d == a.value
        <3>1. d \in Details
            BY <1>2, <2>5 DEF Expected
        <3>2. [current EXCEPT !.d.p.changes = d.p.changes] \in Currents
            BY <1>4, <3>1 DEF Currents, Details, Persistent
        <3>3. current' \in Currents /\ End(i) /\ Render /\ UNCHANGED inbox /\ told' \in BOOLEAN
            BY <1>4, <2>5, <3>2 DEF GotChanges
        <3> QED BY <1>2, <1>6, <3>3, EndEnds, RenderTyped
    <2>6. CASE /\ a.ok /\ f.at = "call" /\ flows' = [flows EXCEPT ![i] = ThenRefresh(f)]
               /\ current' = IF f.op = "create" THEN [d |-> a.value, by |-> i] ELSE current
               /\ UNCHANGED <<inbox, told, view>>
        <3> DEFINE g == ThenRefresh(f)
        <3>1. g \in Flows /\ g.op = "refresh" /\ g.at = "ensure"
            BY <1>4 DEF ThenRefresh, Flows
        <3>2. GoodFlow(g) /\ ~Waiting(g)
            BY <3>1 DEF GoodFlow, Waiting
        <3>3. flows' = [flows EXCEPT ![i] = g]
            BY <2>6
        <3> HIDE DEF g
        <3>4. FlowsTyped' /\ flows'[i] = g /\ \A j \in Index \ {i} : flows'[j] = flows[j]
            BY <1>2, <3>1, <3>2, <3>3, PlacedFlow
        <3>5. f.op = "create" => a.value \in Details
            BY <1>2, <2>6 DEF Expected
        <3>6. current' \in Currents
            BY <1>4, <1>8, <2>6, <3>5
        <3> QED BY <1>4, <2>6, <3>2, <3>4, <3>6
    <2> QED BY <1>3, <2>1, <2>2, <2>3, <2>4, <2>5, <2>6
<1>10. HostTyped'
    BY <1>1, <1>6, <1>9 DEF HostTyped
<1>11. ServerTyped' /\ ClicksTyped' /\ BudgetIsForWhatWasShown'
    BY <1>1, <1>4, ServerKept DEF ClicksTyped, BudgetIsForWhatWasShown
<1>12. Moves(i)
    BY <1>1, <1>2, <1>9 DEF Moves, Sent, a, i
<1> QED BY <1>9, <1>10, <1>11, <1>12 DEF i, a

\* A notification at most restarts the timer.
LEMMA ReadNotificationNext ==
    ASSUME Typed, BudgetIsForWhatWasShown, ReadNotification
    PROVE  /\ ServerTyped' /\ HostTyped' /\ ClicksTyped' /\ FlowsTyped' /\ BudgetIsForWhatWasShown'
           /\ Moves(0)
<1> USE DEF Typed
<1>1. /\ lines # <<>> /\ Head(lines).kind = "note" /\ lines' = Tail(lines) /\ HandleNotification(Head(lines))
      /\ UNCHANGED <<exists, p, m, owes, inbox, half, server, flows, current, sessions, runtimeError, told, view,
                     clicks, done>>
    BY DEF ReadNotification, serverVars
<1>2. timer' \in BOOLEAN
    BY <1>1 DEF HandleNotification, HostTyped
<1>3. HostTyped'
    BY <1>1, <1>2 DEF HostTyped
<1>4. ServerTyped' /\ ClicksTyped' /\ FlowsTyped' /\ BudgetIsForWhatWasShown'
    BY <1>1 DEF ServerTyped, ClicksTyped, FlowsTyped, BudgetIsForWhatWasShown
<1>5. Moves(0)
    BY <1>1 DEF Moves, Index
<1> QED BY <1>3, <1>4, <1>5

\* A new flow takes the first free slot.
LEMMA NewFlowPlaced ==
    ASSUME FlowsTyped, Free # {}, NEW f \in Flows, GoodFlow(f), ~Waiting(f), NewFlow(f),
           UNCHANGED <<lines, inbox, server>>
    PROVE  FlowsTyped' /\ Moves(FirstFree)
<1> DEFINE i == FirstFree
<1>1. i \in Index /\ flows[i] = None
    BY FirstFreeIsFree
<1>2. flows' = [flows EXCEPT ![i] = f]
    BY DEF NewFlow
<1> HIDE DEF i
<1>3. FlowsTyped' /\ flows'[i] = f /\ \A j \in Index \ {i} : flows'[j] = flows[j]
    BY <1>1, <1>2, PlacedFlow
<1>4. Moves(i)
    BY <1>1, <1>3 DEF Moves, Waiting
<1> QED BY <1>3, <1>4 DEF i

\* The refresh timer.
LEMMA TimerFiresNext ==
    ASSUME Typed, BudgetIsForWhatWasShown, TimerFires
    PROVE  /\ ServerTyped' /\ HostTyped' /\ ClicksTyped' /\ FlowsTyped' /\ BudgetIsForWhatWasShown'
           /\ Moves(FirstFree)
<1> USE DEF Typed
<1> DEFINE f == Flow("timer", "ensure", None, None, None)
<1>1. /\ Free # {} /\ timer' = FALSE /\ NewFlow(f)
      /\ UNCHANGED <<exists, p, m, owes, inbox, half, server, lines, current, sessions, runtimeError, told, view,
                     clicks, done>>
    BY DEF TimerFires, serverVars, NewFlow
<1>2. f \in Flows /\ f.op = "timer" /\ f.at = "ensure"
    BY DEF Flow, Flows
<1> HIDE DEF f
<1>3. GoodFlow(f) /\ ~Waiting(f)
    BY <1>2 DEF GoodFlow, Waiting
<1>4. FlowsTyped' /\ Moves(FirstFree)
    BY <1>1, <1>2, <1>3, NewFlowPlaced
<1> QED BY <1>1, <1>4 DEF ServerTyped, HostTyped, ClicksTyped, BudgetIsForWhatWasShown

\* The supervisor's memory after the process is gone.
LEMMA GoneTyped ==
    ASSUME ServerTyped, Gone
    PROVE  /\ m' \in [Sessions -> InMemory] /\ owes' \in [Sessions -> {"none", "event", "state"}]
           /\ inbox' = <<>> /\ half' = None
<1>1. \A s \in Sessions : m[s] \in InMemory
    BY DEF ServerTyped
<1>2. \A s \in Sessions : [Idle EXCEPT !.v = m[s].v + 1] \in InMemory
    <2> SUFFICES ASSUME NEW s \in Sessions
                 PROVE  [Idle EXCEPT !.v = m[s].v + 1] \in InMemory
        OBVIOUS
    <2>1. m[s].v + 1 \in Nat
        BY <1>1 DEF InMemory
    <2> QED BY <2>1 DEF Idle, InMemory
<1>3. m' = [s \in Sessions |-> IF m[s].exec = "idle" THEN m[s] ELSE [Idle EXCEPT !.v = m[s].v + 1]]
    BY DEF Gone
<1>4. m' \in [Sessions -> InMemory]
    BY <1>1, <1>2, <1>3
<1> QED BY <1>4 DEF Gone

\* A crash of the Runtime, before its client has seen it.
LEMMA RuntimeCrashesNext ==
    ASSUME Typed, BudgetIsForWhatWasShown, RuntimeCrashes
    PROVE  /\ ServerTyped' /\ HostTyped' /\ ClicksTyped' /\ FlowsTyped' /\ BudgetIsForWhatWasShown'
           /\ Exits
<1> USE DEF Typed
<1>1. server' = "dead" /\ Gone /\ UNCHANGED <<exists, p, lines, flows, hostVars, clicks, done>>
    BY DEF RuntimeCrashes
<1>2. /\ m' \in [Sessions -> InMemory] /\ owes' \in [Sessions -> {"none", "event", "state"}]
      /\ inbox' = <<>> /\ half' = None
    BY <1>1, GoneTyped
<1> QED BY <1>1, <1>2 DEF ServerTyped, HostTyped, ClicksTyped, FlowsTyped, BudgetIsForWhatWasShown, hostVars, Exits

\* Every flow that awaited an answer of the Runtime ends.
LEMMA RejectPendingTyped ==
    ASSUME HostTyped, NEW keep \in [Index -> {None} \cup Flows], \A i \in Index : keep[i] # None => GoodFlow(keep[i]),
           \A i \in Index : ~Waiting(flows[i]) => ~Waiting(keep[i]), RejectPending(keep)
    PROVE  FlowsTyped' /\ told' \in BOOLEAN /\ \A i \in Index : ~Waiting(flows'[i])
<1>1. /\ flows' = [i \in Index |-> IF Waiting(flows[i]) THEN None ELSE keep[i]]
      /\ told' = (told \/ \E i \in Index : Waiting(flows[i]))
    BY DEF RejectPending
<1>2. \A i \in Index : flows'[i] = None \/ (~Waiting(flows[i]) /\ flows'[i] = keep[i])
    BY <1>1
<1>3. flows' \in [Index -> {None} \cup Flows]
    BY <1>1
<1>4. told' \in BOOLEAN
    BY <1>1 DEF HostTyped
<1>5. \A i \in Index : ~Waiting(flows'[i])
    BY <1>2 DEF Waiting
<1> QED BY <1>2, <1>3, <1>4, <1>5 DEF FlowsTyped

\* The client sees the exit.
LEMMA ClientSeesExitNext ==
    ASSUME Typed, WireInv, BudgetIsForWhatWasShown, ClientSeesExit
    PROVE  /\ ServerTyped' /\ HostTyped' /\ ClicksTyped' /\ FlowsTyped' /\ BudgetIsForWhatWasShown'
           /\ Drops
<1> USE DEF Typed
<1>1. /\ server = "dead" /\ server' = "none" /\ lines' = <<>> /\ RejectPending(flows)
      /\ runtimeError' = TRUE /\ current' = current /\ Render
      /\ UNCHANGED <<exists, p, m, owes, inbox, half, sessions, timer, clicks, done>>
    BY DEF ClientSeesExit, serverVars
<1>2. inbox' = <<>>
    BY <1>1 DEF WireInv, NothingOutlivesTheRuntime
<1>3. FlowsTyped' /\ told' \in BOOLEAN /\ \A i \in Index : ~Waiting(flows'[i])
    BY <1>1, RejectPendingTyped DEF FlowsTyped
<1>4. current' \in Currents /\ runtimeError' \in BOOLEAN
    BY <1>1 DEF HostTyped
<1>5. view' \in [cur : Currents, err : BOOLEAN, sent : BOOLEAN]
    BY <1>1, <1>4, RenderTyped
<1>6. HostTyped'
    BY <1>1, <1>3, <1>4, <1>5 DEF HostTyped
<1> QED BY <1>1, <1>2, <1>3, <1>6 DEF ServerTyped, ClicksTyped, BudgetIsForWhatWasShown, Drops

\* A restart: the child is killed and its client dropped.
LEMMA RestartNext ==
    ASSUME Typed, NEW keep \in [Index -> {None} \cup Flows], \A i \in Index : keep[i] # None => GoodFlow(keep[i]),
           \A i \in Index : ~Waiting(flows[i]) => ~Waiting(keep[i]), Restart(keep),
           UNCHANGED <<exists, p, sessions, timer>>
    PROVE  ServerTyped' /\ HostTyped' /\ FlowsTyped' /\ Drops
<1> USE DEF Typed
<1>1. /\ server' = "none" /\ lines' = <<>> /\ Gone /\ RejectPending(keep)
      /\ current' = current /\ runtimeError' = runtimeError /\ Render
    BY DEF Restart
<1>2. /\ m' \in [Sessions -> InMemory] /\ owes' \in [Sessions -> {"none", "event", "state"}]
      /\ inbox' = <<>> /\ half' = None
    BY <1>1, GoneTyped
<1>3. FlowsTyped' /\ told' \in BOOLEAN /\ \A i \in Index : ~Waiting(flows'[i])
    BY <1>1, RejectPendingTyped
<1>4. current' \in Currents /\ runtimeError' \in BOOLEAN
    BY <1>1 DEF HostTyped
<1>5. view' \in [cur : Currents, err : BOOLEAN, sent : BOOLEAN]
    BY <1>1, <1>4, RenderTyped
<1>6. HostTyped'
    BY <1>3, <1>4, <1>5 DEF HostTyped
<1>7. ServerTyped'
    BY <1>1, <1>2 DEF ServerTyped
<1> QED BY <1>1, <1>2, <1>3, <1>6, <1>7 DEF Drops

--------------------------------------------------------------------------------
(* The messages of the webview                                             *)

\* The message that is handled next.
LEMMA TakingTyped ==
    ASSUME ClicksTyped, BudgetIsForWhatWasShown, NEW type, Taking(type)
    PROVE  /\ Head(clicks) \in ClickSet /\ GoodClick(Head(clicks)) /\ Head(clicks).type = type /\ Free # {}
           /\ ClicksTyped' /\ BudgetIsForWhatWasShown' /\ UNCHANGED <<exists, p, sessions, timer>>
<1>1. /\ clicks # <<>> /\ Head(clicks).type = type /\ Free # {} /\ clicks' = Tail(clicks)
      /\ UNCHANGED <<exists, p, sessions, timer, done>>
    BY DEF Taking
<1>2. clicks \in Seq(ClickSet) /\ \A k \in 1..Len(clicks) : GoodClick(clicks[k])
    BY DEF ClicksTyped
<1>3. Head(clicks) = clicks[1] /\ 1 \in 1..Len(clicks)
    BY <1>1, <1>2
<1>4. Head(clicks) \in ClickSet /\ GoodClick(Head(clicks))
    BY <1>2, <1>3
<1>5. /\ clicks' \in Seq(ClickSet)
      /\ \A k \in 1..Len(clicks') : k + 1 \in 1..Len(clicks) /\ clicks'[k] = clicks[k + 1]
    BY <1>1, <1>2
<1>6. ClicksTyped'
    BY <1>2, <1>5 DEF ClicksTyped
<1> QED BY <1>1, <1>4, <1>6 DEF BudgetIsForWhatWasShown

\* A handler that only throws changes nothing but the screen.
LEMMA RefusedNext ==
    ASSUME Typed, Refused, Quiet, UNCHANGED <<exists, p, sessions, timer>>
    PROVE  ServerTyped' /\ HostTyped' /\ FlowsTyped' /\ Moves(0)
<1> USE DEF Typed
<1>1. /\ told' = TRUE /\ UNCHANGED <<flows, current, inbox, m, owes, half, server, lines, runtimeError>> /\ Render
    BY DEF Refused, Quiet
<1>2. view' \in [cur : Currents, err : BOOLEAN, sent : BOOLEAN]
    BY <1>1, RenderTyped DEF HostTyped
<1>3. Moves(0)
    BY <1>1 DEF Moves, Index
<1> QED BY <1>1, <1>2, <1>3 DEF ServerTyped, HostTyped, FlowsTyped

\* A handler that only starts a flow.
LEMMA StartedNext ==
    ASSUME Typed, Free # {}, NEW f \in Flows, GoodFlow(f), ~Waiting(f), NewFlow(f), Quiet,
           UNCHANGED <<exists, p, sessions, timer, current, told, view, inbox>>
    PROVE  ServerTyped' /\ HostTyped' /\ FlowsTyped' /\ Moves(FirstFree)
<1> USE DEF Typed
<1>1. UNCHANGED <<m, owes, half, server, lines, runtimeError>>
    BY DEF Quiet
<1>2. FlowsTyped' /\ Moves(FirstFree)
    BY <1>1, NewFlowPlaced
<1> QED BY <1>1, <1>2 DEF ServerTyped, HostTyped

\* refresh, select, run and continue start a flow.
LEMMA HandleSimpleNext ==
    ASSUME Typed, BudgetIsForWhatWasShown, HandleSimple
    PROVE  /\ ServerTyped' /\ HostTyped' /\ ClicksTyped' /\ FlowsTyped' /\ BudgetIsForWhatWasShown'
           /\ Moves(FirstFree)
<1> USE DEF Typed
<1> DEFINE c == Head(clicks)
<1>1. PICK type \in {"refresh", "select", "run", "continue"} :
          Taking(type) /\ NewFlow(Flow(type, "ensure", c.s, None, c.seen))
    BY DEF HandleSimple
<1>2. Quiet /\ UNCHANGED <<current, told, view, inbox>>
    BY DEF HandleSimple
<1>3. /\ c \in ClickSet /\ GoodClick(c) /\ c.type = type /\ Free # {}
      /\ ClicksTyped' /\ BudgetIsForWhatWasShown' /\ UNCHANGED <<exists, p, sessions, timer>>
    BY <1>1, TakingTyped
<1> HIDE DEF c
<1> DEFINE f == Flow(type, "ensure", c.s, None, c.seen)
<1>4. c.s \in Sessions \cup {None} /\ c.seen \in {None} \cup Seen /\ (type = "select" => c.s \in Sessions)
    BY <1>3 DEF GoodClick, ClickSet
<1>5. f \in Flows /\ f.op = type /\ f.at = "ensure" /\ f.s = c.s
    BY <1>4 DEF Flow, Flows
<1>6. NewFlow(f)
    BY <1>1
<1> HIDE DEF f
<1>7. GoodFlow(f) /\ ~Waiting(f)
    BY <1>4, <1>5 DEF GoodFlow, Waiting
<1> QED BY <1>2, <1>3, <1>5, <1>6, <1>7, StartedNext

\* accept and discard open a dialog.
LEMMA HandleDeliverNext ==
    ASSUME Typed, BudgetIsForWhatWasShown, HandleDeliver
    PROVE  /\ ServerTyped' /\ HostTyped' /\ ClicksTyped' /\ FlowsTyped' /\ BudgetIsForWhatWasShown'
           /\ Moves(FirstFree)
<1> USE DEF Typed
<1> DEFINE c == Head(clicks)
<1>1. PICK type \in {"accept", "discard"} : Taking(type) /\ NewFlow(Flow(type, "modal", None, None, c.seen))
    BY DEF HandleDeliver
<1>2. Quiet /\ UNCHANGED <<current, told, view, inbox>>
    BY DEF HandleDeliver
<1>3. /\ c \in ClickSet /\ Free # {}
      /\ ClicksTyped' /\ BudgetIsForWhatWasShown' /\ UNCHANGED <<exists, p, sessions, timer>>
    BY <1>1, TakingTyped
<1> HIDE DEF c
<1> DEFINE f == Flow(type, "modal", None, None, c.seen)
<1>4. c.seen \in {None} \cup Seen
    BY <1>3 DEF ClickSet
<1>5. f \in Flows /\ f.op = type /\ f.at = "modal"
    BY <1>4 DEF Flow, Flows
<1>6. NewFlow(f)
    BY <1>1
<1> HIDE DEF f
<1>7. GoodFlow(f) /\ ~Waiting(f)
    BY <1>5 DEF GoodFlow, Waiting
<1> QED BY <1>2, <1>3, <1>5, <1>6, <1>7, StartedNext

\* create starts a flow, unless the session that is shown is busy.
LEMMA HandleCreateNext ==
    ASSUME Typed, BudgetIsForWhatWasShown, HandleCreate
    PROVE  /\ ServerTyped' /\ HostTyped' /\ ClicksTyped' /\ FlowsTyped' /\ BudgetIsForWhatWasShown'
           /\ Moves(FirstFree) \/ Moves(0)
<1> USE DEF Typed
<1> DEFINE c == Head(clicks)
<1>1. Taking("create") /\ Quiet
    BY DEF HandleCreate
<1>2. /\ c \in ClickSet /\ Free # {}
      /\ ClicksTyped' /\ BudgetIsForWhatWasShown' /\ UNCHANGED <<exists, p, sessions, timer>>
    BY <1>1, TakingTyped
<1>3. CASE Busy
    BY <1>1, <1>2, <1>3, RefusedNext DEF HandleCreate
<1>4. CASE ~Busy
    <2> DEFINE f == Flow("create", "ensure", None, None, c.seen)
    <2>1. NewFlow(f) /\ UNCHANGED <<current, told, view, inbox>>
        BY <1>4 DEF HandleCreate
    <2> HIDE DEF c
    <2>2. c.seen \in {None} \cup Seen
        BY <1>2 DEF ClickSet
    <2>3. f \in Flows /\ f.op = "create" /\ f.at = "ensure"
        BY <2>2 DEF Flow, Flows
    <2> HIDE DEF f
    <2>4. GoodFlow(f) /\ ~Waiting(f)
        BY <2>3 DEF GoodFlow, Waiting
    <2> QED BY <1>1, <1>2, <2>1, <2>3, <2>4, StartedNext
<1> QED BY <1>3, <1>4

\* increaseBudget: the flow carries the session, the turn and the limit of its click, because
\* they are those of this.current when the input box opens.
LEMMA HandleIncreaseNext ==
    ASSUME Typed, BudgetIsForWhatWasShown, HandleIncrease
    PROVE  /\ ServerTyped' /\ HostTyped' /\ ClicksTyped' /\ FlowsTyped' /\ BudgetIsForWhatWasShown'
           /\ Moves(FirstFree) \/ Moves(0)
<1> USE DEF Typed
<1> DEFINE c == Head(clicks)
<1>1. Taking("increase") /\ Quiet
    BY DEF HandleIncrease
<1>2. /\ c \in ClickSet /\ GoodClick(c) /\ c.type = "increase" /\ Free # {}
      /\ ClicksTyped' /\ BudgetIsForWhatWasShown' /\ UNCHANGED <<exists, p, sessions, timer>>
    BY <1>1, TakingTyped
<1>3. CASE ~StillShown(c)
    BY <1>1, <1>2, <1>3, RefusedNext DEF HandleIncrease
<1>4. CASE StillShown(c)
    <2> DEFINE id == current.d.p.id
               limit == current.d.p.limit
               arg == [id |-> id, limit |-> limit]
               s == current.d.id
               f == Flow("increase", "modal", s, arg, c.seen)
    <2>1. NewFlow(f) /\ UNCHANGED <<current, told, view, inbox>>
        BY <1>4 DEF HandleIncrease
    <2>2. s \in Sessions /\ id \in Nat /\ limit \in Nat
        BY DEF HostTyped, Currents, Details, Persistent
    <2>3. c.seen \in Seen /\ c.seen.s = s /\ c.seen.turn = id /\ c.seen.limit = limit
        BY <1>2, <1>4 DEF GoodClick, StillShown
    <2> HIDE DEF c, id, limit, s
    <2>4. arg \in [id : Nat, limit : Nat] /\ arg.id = id /\ arg.limit = limit
        BY <2>2
    <2>5. c.seen = Seeing(s, arg)
        BY <2>3, <2>4 DEF Seen, Seeing
    <2> HIDE DEF arg
    <2>6. f \in Flows /\ f.op = "increase" /\ f.at = "modal" /\ f.s = s /\ f.arg = arg /\ f.seen = c.seen
        BY <2>2, <2>3, <2>4 DEF Flow, Flows
    <2> HIDE DEF f
    <2>7. GoodFlow(f) /\ ~Waiting(f)
        BY <2>2, <2>4, <2>5, <2>6 DEF GoodFlow, Waiting
    <2> QED BY <1>1, <1>2, <2>1, <2>6, <2>7, StartedNext
<1> QED BY <1>3, <1>4

\* stop and resolveApproval send their request at once.
LEMMA HandleImmediateNext ==
    ASSUME Typed, WireInv, BudgetIsForWhatWasShown, HandleImmediate
    PROVE  /\ ServerTyped' /\ HostTyped' /\ ClicksTyped' /\ FlowsTyped' /\ BudgetIsForWhatWasShown'
           /\ Moves(FirstFree) \/ Moves(0)
<1> USE DEF Typed
<1> DEFINE c == Head(clicks)
           i == FirstFree
           arg == [approval |-> current.d.m.approval, allow |-> c.s]
           Rest(type) ==
               CASE type = "resolve" /\ current.d.m.approval = 0 -> UNCHANGED <<flows, inbox, told, current, view>>
                 [] (type = "stop" \/ current.d.m.approval # 0) /\ server = "none" -> Refused
                 [] (type = "stop" \/ current.d.m.approval # 0) /\ server # "none" ->
                      /\ NewFlow(Flow(type, "call", None, None, c.seen))
                      /\ inbox' = IF server = "up"
                                  THEN Append(inbox, [i |-> i, method |-> type, s |-> current.d.id,
                                                      arg |-> IF type = "stop" THEN None ELSE arg, seen |-> c.seen])
                                  ELSE inbox
                      /\ UNCHANGED <<current, told, view>>
<1>1. Quiet /\ UNCHANGED <<m, owes, half, server, lines, runtimeError>>
    BY DEF HandleImmediate, Quiet
<1>2. PICK type \in {"stop", "resolve"} : Taking(type) /\ Rest(type)
    BY DEF HandleImmediate
<1>3. /\ c \in ClickSet /\ GoodClick(c) /\ c.type = type /\ Free # {}
      /\ ClicksTyped' /\ BudgetIsForWhatWasShown' /\ UNCHANGED <<exists, p, sessions, timer>>
    BY <1>2, TakingTyped
<1>4. i \in Index /\ flows[i] = None
    BY <1>3, FirstFreeIsFree
<1>5. CASE type = "resolve" /\ current.d.m.approval = 0
    <2>1. UNCHANGED <<flows, inbox, told, current, view>>
        BY <1>2, <1>5
    <2>2. Moves(0)
        BY <1>1, <2>1 DEF Moves, Index
    <2> QED BY <1>1, <1>3, <2>1, <2>2 DEF ServerTyped, HostTyped, FlowsTyped
<1>6. CASE (type = "stop" \/ current.d.m.approval # 0) /\ server = "none"
    <2>1. Refused
        BY <1>2, <1>6
    <2> QED BY <1>1, <1>3, <2>1, RefusedNext
<1>7. CASE (type = "stop" \/ current.d.m.approval # 0) /\ server # "none"
    <2> DEFINE f == Flow(type, "call", None, None, c.seen)
               a == IF type = "stop" THEN None ELSE arg
               r == [i |-> i, method |-> type, s |-> current.d.id, arg |-> a, seen |-> c.seen]
    <2>1. /\ NewFlow(f) /\ inbox' = (IF server = "up" THEN Append(inbox, r) ELSE inbox)
          /\ UNCHANGED <<current, told, view>>
        BY <1>2, <1>7
    <2>2. current.d.m.approval \in Nat /\ current.d.id \in Sessions /\ c.seen \in {None} \cup Seen
          /\ (type = "resolve" => c.s \in BOOLEAN)
        BY <1>3 DEF HostTyped, Currents, Details, ClickSet, GoodClick
    <2>3. a \in Arguments
        BY <2>2 DEF Arguments
    <2>4. flows' = [flows EXCEPT ![i] = f]
        BY <2>1 DEF NewFlow
    <2> HIDE DEF a, c, i
    <2>5. f \in Flows /\ f.op = type /\ f.at = "call"
        BY <2>2 DEF Flow, Flows
    <2>6. r \in RequestSet /\ r.i = i /\ r.method = type /\ r.s \in Sessions
        BY <1>4, <2>2, <2>3 DEF RequestSet, Methods
    <2> HIDE DEF f, r
    <2>7. GoodFlow(f) /\ Waiting(f) /\ f # None
        BY <2>5, FlowsAssumption DEF GoodFlow, Waiting
    <2>8. GoodRequest(r) /\ Requested(f, r)
        BY <2>5, <2>6, <2>7 DEF GoodRequest, Requested, AwaitOf
    <2>9. FlowsTyped' /\ flows'[i] = f /\ \A j \in Index \ {i} : flows'[j] = flows[j]
        BY <1>4, <2>4, <2>5, <2>7, PlacedFlow
    <2>10. Moves(i)
        <3>1. ~Waiting(flows[i])
            BY <1>4 DEF Waiting
        <3>2. server \in {"up", "dead"}
            BY <1>7 DEF ServerTyped
        <3> QED BY <1>1, <1>4, <2>1, <2>6, <2>7, <2>8, <2>9, <3>1, <3>2 DEF Moves
    <2> QED BY <1>1, <1>3, <2>1, <2>9, <2>10 DEF ServerTyped, HostTyped, i
<1>8. type = "stop" \/ type = "resolve"
    BY <1>2
<1> QED BY <1>5, <1>6, <1>7, <1>8

\* retry restarts the Runtime and refreshes.
LEMMA HandleRetryNext ==
    ASSUME Typed, BudgetIsForWhatWasShown, HandleRetry
    PROVE  /\ ServerTyped' /\ HostTyped' /\ ClicksTyped' /\ FlowsTyped' /\ BudgetIsForWhatWasShown'
           /\ Drops
<1> USE DEF Typed
<1> DEFINE f == Flow("refresh", "ensure", None, None, None)
           i == FirstFree
           keep == [flows EXCEPT ![i] = f]
<1>1. Taking("retry") /\ Restart(keep)
    BY DEF HandleRetry
<1>2. /\ Free # {} /\ ClicksTyped' /\ BudgetIsForWhatWasShown' /\ UNCHANGED <<exists, p, sessions, timer>>
    BY <1>1, TakingTyped
<1>3. f \in Flows /\ f.op = "refresh" /\ f.at = "ensure"
    BY DEF Flow, Flows
<1>4. i \in Index
    BY <1>2, FirstFreeIsFree
<1> HIDE DEF f, i
<1>5. GoodFlow(f) /\ ~Waiting(f)
    BY <1>3 DEF GoodFlow, Waiting
<1>6. /\ keep \in [Index -> {None} \cup Flows]
      /\ \A j \in Index : keep[j] = IF j = i THEN f ELSE flows[j]
    BY <1>3, <1>4 DEF FlowsTyped
<1> HIDE DEF keep
<1>7. /\ \A j \in Index : keep[j] # None => GoodFlow(keep[j])
      /\ \A j \in Index : ~Waiting(flows[j]) => ~Waiting(keep[j])
    BY <1>5, <1>6 DEF FlowsTyped
<1> QED BY <1>1, <1>2, <1>6, <1>7, RestartNext

\* New credentials restart the Runtime, unless the session that is shown is busy.
LEMMA HandleCredentialsNext ==
    ASSUME Typed, BudgetIsForWhatWasShown, HandleCredentials
    PROVE  /\ ServerTyped' /\ HostTyped' /\ ClicksTyped' /\ FlowsTyped' /\ BudgetIsForWhatWasShown'
           /\ Drops \/ Moves(0)
<1> USE DEF Typed
<1>1. Taking("credentials")
    BY DEF HandleCredentials
<1>2. ClicksTyped' /\ BudgetIsForWhatWasShown' /\ UNCHANGED <<exists, p, sessions, timer>>
    BY <1>1, TakingTyped
<1>3. CASE Busy
    BY <1>2, <1>3, RefusedNext DEF HandleCredentials
<1>4. CASE ~Busy
    <2>1. Restart(flows)
        BY <1>4 DEF HandleCredentials
    <2>2. flows \in [Index -> {None} \cup Flows] /\ \A i \in Index : flows[i] # None => GoodFlow(flows[i])
        BY DEF FlowsTyped
    <2> QED BY <1>2, <2>1, <2>2, RestartNext
<1> QED BY <1>3, <1>4

\* The answer to a dialog.
LEMMA ModalNext ==
    ASSUME Typed, BudgetIsForWhatWasShown, NEW i \in Index, ModalYes(i) \/ ModalNo(i)
    PROVE  /\ ServerTyped' /\ HostTyped' /\ ClicksTyped' /\ FlowsTyped' /\ BudgetIsForWhatWasShown'
           /\ Moves(i)
<1> USE DEF Typed
<1> DEFINE f == flows[i]
<1>1. /\ f # None /\ f.at = "modal" /\ ~Waiting(f)
      /\ UNCHANGED <<exists, p, m, owes, half, server, lines, sessions, timer, runtimeError, clicks, done>>
    BY DEF ModalYes, ModalNo, Waiting, serverVars, hostVars
<1>2. /\ f \in Flows /\ GoodFlow(f) /\ f.op \in {"increase", "accept", "discard"}
      /\ current \in Currents /\ current.d.id \in Sessions /\ server \in {"none", "up", "dead"}
      /\ told \in BOOLEAN /\ view \in [cur : Currents, err : BOOLEAN, sent : BOOLEAN] /\ runtimeError' \in BOOLEAN
    BY <1>1 DEF FlowsTyped, GoodFlow, HostTyped, ServerTyped, Currents, Details
<1>3. /\ FlowsTyped' /\ current' \in Currents /\ told' \in BOOLEAN
      /\ view' \in [cur : Currents, err : BOOLEAN, sent : BOOLEAN]
      /\ \/ /\ UNCHANGED inbox /\ ~Waiting(flows'[i]) /\ \A j \in Index \ {i} : flows'[j] = flows[j]
         \/ Sent(i)
    <2>1. CASE ModalNo(i)
        <3>1. End(i) /\ UNCHANGED <<inbox, current, told, view>>
            BY <2>1 DEF ModalNo, serverVars, hostVars
        <3> QED BY <1>2, <3>1, EndEnds
    <2>2. CASE ModalYes(i) /\ f.op = "increase"
        <3> DEFINE g == [f EXCEPT !.at = "ensure"]
        <3>1. flows' = [flows EXCEPT ![i] = g] /\ UNCHANGED <<inbox, current, told, view>>
            <4>1. flows' = [flows EXCEPT ![i].at = "ensure"] /\ UNCHANGED <<inbox, current, told, view>>
                BY <2>2 DEF ModalYes
            <4> QED BY <4>1
        <3>2. g \in Flows /\ g.at = "ensure" /\ g.op = f.op /\ g.s = f.s /\ g.arg = f.arg /\ g.seen = f.seen
            BY <1>2 DEF Flows
        <3> HIDE DEF g
        <3>3. GoodFlow(g) /\ ~Waiting(g)
            BY <1>2, <2>2, <3>2 DEF GoodFlow, Waiting
        <3>4. FlowsTyped' /\ flows'[i] = g /\ \A j \in Index \ {i} : flows'[j] = flows[j]
            BY <3>1, <3>2, <3>3, PlacedFlow
        <3> QED BY <1>2, <3>1, <3>3, <3>4
    <2>3. CASE ModalYes(i) /\ f.op # "increase" /\ server = "none"
        <3>1. Fail(i)
            BY <2>3 DEF ModalYes
        <3> QED BY <1>2, <3>1, FailFails
    <2>4. CASE ModalYes(i) /\ f.op # "increase" /\ server # "none"
        <3>1. Send(i, f, "call", f.op, current.d.id, None) /\ UNCHANGED <<current, told, view>>
            BY <2>4 DEF ModalYes
        <3>2. AwaitOf(f.op) = "call" /\ f.op \in Methods \ {"initialize"} /\ None \in Arguments
            BY <1>2, <2>4 DEF AwaitOf, Methods, Arguments
        <3>3. FlowsTyped' /\ Sent(i)
            BY <1>1, <1>2, <2>4, <3>1, <3>2, SendSends
        <3> QED BY <1>2, <3>1, <3>3
    <2> QED BY <2>1, <2>2, <2>3, <2>4
<1>4. HostTyped'
    BY <1>1, <1>2, <1>3 DEF HostTyped
<1>5. ServerTyped' /\ ClicksTyped' /\ BudgetIsForWhatWasShown'
    BY <1>1, <1>2, ServerKept DEF ClicksTyped, BudgetIsForWhatWasShown
<1>6. Moves(i)
    BY <1>1, <1>3 DEF Moves, Sent
<1> QED BY <1>3, <1>4, <1>5, <1>6

\* The user clicks on what the webview shows.
LEMMA ClickNext ==
    ASSUME Typed, BudgetIsForWhatWasShown, Click
    PROVE  /\ ServerTyped' /\ HostTyped' /\ ClicksTyped' /\ FlowsTyped' /\ BudgetIsForWhatWasShown'
           /\ Moves(0)
<1> USE DEF Typed
<1> DEFINE d == view.cur.d
           Posted(c) == [type |-> c.type, s |-> c.s, seen |->
               IF c.type = "increase" THEN [s |-> d.id, turn |-> d.p.id, limit |-> d.p.limit] ELSE None]
<1>1. PICK c \in Offered(d) : clicks' = Append(clicks, Posted(c)) /\ view' = [view EXCEPT !.sent = @ \/ c.type = "run"]
    BY DEF Click
<1>2. UNCHANGED <<exists, p, m, owes, inbox, half, server, lines, flows, current, sessions, timer, runtimeError, told, done>>
    BY DEF Click, serverVars
<1>3. d.id \in Sessions /\ d.p.id \in Nat /\ d.p.limit \in Nat /\ sessions \subseteq Sessions
    BY DEF HostTyped, Currents, Details, Persistent
<1> DEFINE x == Posted(c)
<1>4. /\ c.type \in {"refresh", "select", "run", "continue", "increase", "stop", "resolve", "accept",
                     "discard", "create", "retry", "credentials"}
      /\ c.s \in Sessions \cup {None} \cup BOOLEAN
      /\ c.type \in {"refresh", "run", "continue"} => c.s \in Sessions \cup {None}
      /\ c.type = "select" => c.s \in Sessions
      /\ c.type = "increase" => c.s = d.id
      /\ c.type = "resolve" => c.s \in BOOLEAN
    <2> HIDE DEF d
    <2>1. CASE c \in {[type |-> "select", s |-> s] : s \in sessions \ {d.id}}
        BY <1>3, <2>1
    <2>2. CASE c \in {[type |-> t, s |-> None] : t \in {"create", "refresh", "credentials"}}
        BY <2>2
    <2>3. CASE c \in {[type |-> "retry", s |-> None]}
        BY <2>3
    <2>4. CASE c \in {[type |-> t, s |-> d.id] : t \in {"run", "continue", "increase", "stop", "accept", "discard"}}
        BY <1>3, <2>4
    <2>5. CASE c \in {[type |-> "resolve", s |-> allow] : allow \in BOOLEAN}
        BY <2>5
    <2> QED BY <2>1, <2>2, <2>3, <2>4, <2>5 DEF Offered
<1>5. x \in ClickSet /\ x.type = c.type /\ x.s = c.s
      /\ (c.type = "increase" => x.seen \in Seen /\ x.seen.s = d.id)
    <2> HIDE DEF d
    <2> QED BY <1>3, <1>4 DEF ClickSet, Seen
<1> HIDE DEF x, d
<1>6. GoodClick(x)
    BY <1>3, <1>4, <1>5 DEF GoodClick
<1>7. ClicksTyped'
    <2>1. clicks \in Seq(ClickSet) /\ clicks' = Append(clicks, x)
        BY <1>1 DEF ClicksTyped, x
    <2>2. /\ clicks' \in Seq(ClickSet)
          /\ \A k \in 1..Len(clicks') : clicks'[k] = x \/ (k \in 1..Len(clicks) /\ clicks'[k] = clicks[k])
        BY <1>5, <2>1
    <2> QED BY <1>6, <2>2 DEF ClicksTyped
<1>8. view' \in [cur : Currents, err : BOOLEAN, sent : BOOLEAN]
    BY <1>1 DEF HostTyped
<1>9. HostTyped'
    BY <1>2, <1>8 DEF HostTyped
<1>10. Moves(0)
    BY <1>2 DEF Moves, Index
<1> QED BY <1>2, <1>7, <1>9, <1>10 DEF ServerTyped, FlowsTyped, BudgetIsForWhatWasShown

--------------------------------------------------------------------------------
(* The invariant                                                           *)

\* An open panel that has finished a refresh: nothing is under way.
LEMMA PanelStart == Init => PanelInv
<1> SUFFICES ASSUME Init
             PROVE  PanelInv
    OBVIOUS
<1> DEFINE Kinds == {"new", "waits", "left", "works", "asks"}
<1>1. PICK shown \in {CHOOSE s \in Sessions : TRUE}, kind \in [Sessions -> Kinds] :
          /\ exists \in SUBSET Sessions
          /\ p = [s \in Sessions |-> Stored(kind[s])] /\ m = [s \in Sessions |-> Supervised(kind[s])]
          /\ current = [d |-> Detail(shown, p[shown], m[shown]), by |-> 1]
    BY DEF Init
<1>2. /\ owes = [s \in Sessions |-> "none"] /\ server = "up" /\ inbox = <<>> /\ half = None /\ lines = <<>>
      /\ flows = [i \in Index |-> None] /\ sessions = exists /\ timer \in BOOLEAN
      /\ runtimeError = FALSE /\ told = FALSE /\ view = [cur |-> current, err |-> FALSE, sent |-> FALSE]
      /\ clicks = <<>> /\ done = None
    BY DEF Init
<1>3. shown \in Sessions
    BY PanelAssumption
<1>4. \A k \in Kinds : Stored(k) \in Persistent /\ Supervised(k) \in InMemory
    BY DEF Stored, Supervised, Closed, Idle, Persistent, InMemory
<1>5. \A s \in Sessions : kind[s] \in Kinds
    OBVIOUS
<1> HIDE DEF Kinds
<1>6. p \in [Sessions -> Persistent] /\ m \in [Sessions -> InMemory]
    BY <1>1, <1>4, <1>5
<1>7. ServerTyped
    BY <1>1, <1>2, <1>6 DEF ServerTyped
<1>8. Detail(shown, p[shown], m[shown]) \in Details
    BY <1>3, <1>6, <1>7, DetailTyped
<1>9. current \in Currents
    BY <1>1, <1>8 DEF Currents
<1>10. HostTyped
    BY <1>1, <1>2, <1>9 DEF HostTyped
<1>11. FlowsTyped /\ \A i \in Index : ~Waiting(flows[i])
    BY <1>2 DEF FlowsTyped, Waiting
<1>12. Len(inbox) = 0 /\ Len(lines) = 0 /\ Len(clicks) = 0
    BY <1>2
<1>13. ClicksTyped /\ WiresTyped
    BY <1>2, <1>12 DEF ClicksTyped, WiresTyped
<1>14. EveryoneIsAnswered /\ OneAtATime /\ NothingOutlivesTheRuntime /\ EveryRequestSettles /\ BudgetIsForWhatWasShown
    BY <1>2, <1>11, <1>12 DEF EveryoneIsAnswered, OneAtATime, NothingOutlivesTheRuntime, EveryRequestSettles,
                              BudgetIsForWhatWasShown
<1> QED BY <1>7, <1>10, <1>11, <1>13, <1>14 DEF PanelInv

\* Every step keeps it: the step of a flow, an answer, a notification or an exit on the wires, and
\* the types and the promise beside them.
LEMMA PanelStep == PanelInv /\ [Next]_vars => PanelInv'
<1> SUFFICES ASSUME PanelInv, [Next]_vars
             PROVE  PanelInv'
    OBVIOUS
<1> DEFINE Beside == ServerTyped' /\ HostTyped' /\ ClicksTyped' /\ FlowsTyped' /\ BudgetIsForWhatWasShown'
           OnTheWires == (\E i : Moves(i)) \/ Answers \/ Notes \/ Exits \/ Drops
<1>0. Typed /\ WireInv /\ BudgetIsForWhatWasShown /\ EveryoneIsAnswered
      /\ ServerTyped /\ HostTyped /\ ClicksTyped /\ FlowsTyped /\ WiresTyped
    BY DEF PanelInv, Typed, WireInv
<1>1. Beside /\ OnTheWires => PanelInv'
    <2> SUFFICES ASSUME Beside, OnTheWires
                 PROVE  PanelInv'
        OBVIOUS
    <2>1. WiresTyped' /\ WireInv'
        BY <1>0, MovesNext, AnswersNext, NotesNext, ExitsNext
    <2> QED BY <2>1 DEF PanelInv, WireInv
<1>2. ASSUME UNCHANGED <<flows, hostVars, clicks>>
      PROVE  HostTyped' /\ ClicksTyped' /\ FlowsTyped'
    BY <1>0, <1>2 DEF HostTyped, ClicksTyped, FlowsTyped, hostVars
<1>3. CASE Serve
    BY <1>0, <1>1, <1>2, <1>3, ServeNext
<1>4. CASE \E s \in Sessions : Worker(s)
    <2>1. ServerTyped' /\ UNCHANGED <<flows, hostVars, clicks, done>> /\ (Notes \/ Moves(0))
        BY <1>0, <1>4, WorkerNext
    <2>2. BudgetIsForWhatWasShown'
        BY <1>0, <2>1 DEF BudgetIsForWhatWasShown
    <2> QED BY <1>1, <1>2, <2>1, <2>2
<1>5. CASE ReadAnswer
    BY <1>0, <1>1, <1>5, ReadAnswerNext
<1>6. CASE ReadNotification
    BY <1>0, <1>1, <1>6, ReadNotificationNext
<1>7. CASE TimerFires
    BY <1>0, <1>1, <1>7, TimerFiresNext
<1>8. CASE RuntimeCrashes
    BY <1>0, <1>1, <1>8, RuntimeCrashesNext
<1>9. CASE ClientSeesExit
    BY <1>0, <1>1, <1>9, ClientSeesExitNext
<1>10. ASSUME NEW i \in Index, Ensure(i) \/ ModalYes(i) \/ ModalNo(i)
       PROVE  PanelInv'
    BY <1>0, <1>1, <1>10, EnsureNext, ModalNext
<1>11. CASE HandleMessage
    <2>1. CASE HandleSimple
        BY <1>0, <1>1, <2>1, HandleSimpleNext
    <2>2. CASE HandleIncrease
        BY <1>0, <1>1, <2>2, HandleIncreaseNext
    <2>3. CASE HandleImmediate
        BY <1>0, <1>1, <2>3, HandleImmediateNext
    <2>4. CASE HandleDeliver
        BY <1>0, <1>1, <2>4, HandleDeliverNext
    <2>5. CASE HandleCreate
        BY <1>0, <1>1, <2>5, HandleCreateNext
    <2>6. CASE HandleRetry
        BY <1>0, <1>1, <2>6, HandleRetryNext
    <2>7. CASE HandleCredentials
        BY <1>0, <1>1, <2>7, HandleCredentialsNext
    <2> QED BY <1>11, <2>1, <2>2, <2>3, <2>4, <2>5, <2>6, <2>7 DEF HandleMessage
<1>12. CASE Click
    BY <1>0, <1>1, <1>12, ClickNext
<1>13. CASE UNCHANGED vars
    <2>1. /\ UNCHANGED <<exists, p, m, owes, inbox, half, server, lines, flows, hostVars, clicks, done>>
        BY <1>13 DEF vars, serverVars
    <2>2. Moves(0)
        BY <2>1 DEF Moves, Index
    <2>3. ServerTyped' /\ BudgetIsForWhatWasShown'
        BY <1>0, <2>1 DEF ServerTyped, BudgetIsForWhatWasShown
    <2> QED BY <1>1, <1>2, <2>1, <2>2, <2>3
<1> QED BY <1>3, <1>4, <1>5, <1>6, <1>7, <1>8, <1>9, <1>10, <1>11, <1>12, <1>13 DEF Next

\* The invariant says what the property does.
LEMMA PanelMeaning == PanelInv => PanelFlowsAreSafe
<1> SUFFICES ASSUME PanelInv
             PROVE  PanelFlowsAreSafe
    OBVIOUS
<1>1. \A s \in Sessions : p[s] \in Persistent /\ m[s] \in InMemory
    BY DEF PanelInv, ServerTyped
<1>2. \A s \in Sessions : /\ p[s].turn \in {"closed", "open", "waiting"}
                          /\ m[s].exec \in {"idle", "running", "awaiting", "stopping"}
    BY <1>1 DEF Persistent, InMemory
<1>3. \A i \in Index : flows[i] # None => flows[i] \in Flows
    BY DEF PanelInv, FlowsTyped
<1>4. \A i \in Index : flows[i] # None =>
          flows[i].at \in {"ensure", "init", "list", "get", "changes", "call", "modal"}
    BY <1>3 DEF Flows
<1>5. \A k \in 1..Len(inbox) : inbox[k] \in RequestSet
    BY DEF PanelInv, WiresTyped
<1>6. \A k \in 1..Len(inbox) : inbox[k].i \in Index
    BY <1>5 DEF RequestSet
<1> QED BY <1>2, <1>4, <1>6 DEF PanelInv, ServerTyped, HostTyped, PanelFlowsAreSafe, TypeOK

\* For any number of sessions, of flows in flight, of clicks and of crashes: every flow of the
\* panel that waits has its request or its answer under way or will see the Runtime's exit, and a
\* budget is increased only for what the user saw (rpcClient.js request, _handleLine and _close;
\* extension.js increaseBudget).
THEOREM PanelFlowsStaySafe == Spec => []PanelFlowsAreSafe
<1>1. Spec => []PanelInv
    BY PanelStart, PanelStep, PTL DEF Spec
<1> QED BY <1>1, PanelMeaning, PTL

--------------------------------------------------------------------------------
(* Pictures of a session only move forward                                 *)

\* One picture of a session is not newer than another one, nor than the session.
NotNewer(x, y) == x.id = y.id => x.p.v <= y.p.v /\ x.m.v <= y.m.v
Past(x) == x.p.v <= p[x.id].v /\ x.m.v <= m[x.id].v

\* The answers that become this.current when they are read.
Bears(f, a) == a.ok /\ (f.at = "get" \/ (f.at = "call" /\ f.op = "create"))
BearsAt(k) == lines[k].kind = "answer" /\ Bears(flows[lines[k].i], lines[k])

\* From the screen over this.current and the pipe to the half of a session/get that has been read
\* and to the session: a picture is not newer than the next one.
ScreenIsPast == Past(view.cur.d) /\ Past(current.d) /\ NotNewer(view.cur.d, current.d)
PipeIsInOrder ==
    /\ \A k \in 1..Len(lines) : BearsAt(k) =>
           /\ Past(lines[k].value)
           /\ NotNewer(view.cur.d, lines[k].value) /\ NotNewer(current.d, lines[k].value)
    /\ \A j, k \in 1..Len(lines) : j < k /\ BearsAt(j) /\ BearsAt(k) => NotNewer(lines[j].value, lines[k].value)
HalfIsLatest ==
    half # None =>
        LET s == Head(inbox).s IN
        /\ inbox # <<>> /\ s \in Sessions /\ half.v <= p[s].v
        /\ \A x \in {view.cur.d, current.d} : x.id = s => x.p.v <= half.v
        /\ \A k \in 1..Len(lines) : BearsAt(k) /\ lines[k].value.id = s => lines[k].value.p.v <= half.v

PictureInv == ScreenIsPast /\ PipeIsInOrder /\ HalfIsLatest

\* The versions of a session only grow.
TruthGrows == \A s \in Sessions : p[s].v <= p'[s].v /\ m[s].v <= m'[s].v

\* An update of a session makes it newer.
LEMMA UpdateGrows ==
    ASSUME ServerTyped
    PROVE  /\ \A s \in Sessions : p[s] \in Persistent /\ m[s] \in InMemory /\ p[s].v \in Nat /\ m[s].v \in Nat
           /\ \A s \in Sessions, new \in Persistent : PUpdate(s, new) => \A t \in Sessions : p[t].v <= p'[t].v
           /\ \A s \in Sessions, new \in InMemory : MUpdate(s, new) => \A t \in Sessions : m[t].v <= m'[t].v
<1>1. \A s \in Sessions : p[s] \in Persistent /\ m[s] \in InMemory /\ p[s].v \in Nat /\ m[s].v \in Nat
    BY DEF ServerTyped, Persistent, InMemory
<1>2. ASSUME NEW s \in Sessions, NEW new \in Persistent, PUpdate(s, new), NEW t \in Sessions
      PROVE  p[t].v <= p'[t].v
    <2>1. [new EXCEPT !.v = p[s].v + 1].v = p[s].v + 1
        BY DEF Persistent
    <2>2. p'[t] = IF t = s THEN [new EXCEPT !.v = p[s].v + 1] ELSE p[t]
        BY <1>2 DEF PUpdate, ServerTyped
    <2> QED BY <1>1, <2>1, <2>2
<1>3. ASSUME NEW s \in Sessions, NEW new \in InMemory, MUpdate(s, new), NEW t \in Sessions
      PROVE  m[t].v <= m'[t].v
    <2>1. [new EXCEPT !.v = m[s].v + 1].v = m[s].v + 1
        BY DEF InMemory
    <2>2. m'[t] = IF t = s THEN [new EXCEPT !.v = m[s].v + 1] ELSE m[t]
        BY <1>3 DEF MUpdate, ServerTyped
    <2> QED BY <1>1, <2>1, <2>2
<1> QED BY <1>1, <1>2, <1>3

\* A handler of the server never takes a session back.
LEMMA ServeGrows ==
    ASSUME ServerTyped, WiresTyped, EveryoneIsAnswered, Serve
    PROVE  TruthGrows
<1> DEFINE r == Head(inbox)
           s == r.s
<1>1. \A t \in Sessions : p[t] \in Persistent /\ m[t] \in InMemory /\ p[t].v \in Nat /\ m[t].v \in Nat
    BY UpdateGrows
<1>2. p' = p => \A t \in Sessions : p[t].v <= p'[t].v
    BY <1>1
<1>3. m' = m => \A t \in Sessions : m[t].v <= m'[t].v
    BY <1>1
<1>4. ASSUME NEW method \in {"run", "continue", "increase", "stop", "resolve", "accept", "discard"}, Serving(method)
      PROVE  s \in Sessions
    <2>1. inbox # <<>> /\ r.method = method
        BY <1>4 DEF Serving
    <2>2. GoodRequest(r)
        BY <2>1, HeadRequest
    <2> HIDE DEF r
    <2> QED BY <1>4, <2>1, <2>2 DEF GoodRequest
<1>5. CASE ServeInitialize \/ ServeList \/ ServeRead \/ ServeGet \/ ServeCreate
    <2>1. UNCHANGED <<p, m>>
        BY <1>5 DEF ServeInitialize, ServeList, ServeRead, ServeGet, ServeCreate, Refuse
    <2> QED BY <1>2, <1>3, <2>1 DEF TruthGrows
<1>6. CASE ServeRun \/ ServeContinue \/ ServeIncrease
    <2>1. s \in Sessions
        BY <1>4, <1>6 DEF ServeRun, ServeContinue, ServeIncrease
    <2> DEFINE started(job) == [m[s] EXCEPT !.exec = "running", !.job = job]
               larger == [p[s] EXCEPT !.turn = "open", !.limit = @ + 1]
    <2>2. m' = m \/ \E job \in {"starting", "going"} : MUpdate(s, started(job))
        BY <1>6 DEF ServeRun, ServeContinue, ServeIncrease, Start, Refuse
    <2>3. p' = p \/ PUpdate(s, larger)
        BY <1>6 DEF ServeRun, ServeContinue, ServeIncrease, Refuse
    <2> HIDE DEF s
    <2>4. larger \in Persistent /\ \A job \in {"starting", "going"} : started(job) \in InMemory
        <3>1. p[s] \in Persistent /\ m[s] \in InMemory
            BY <1>1, <2>1
        <3>2. larger \in Persistent
            <4>1. p[s].limit \in Nat
                BY <3>1 DEF Persistent
            <4>2. p[s].limit + 1 \in Nat
                BY <4>1
            <4> QED BY <3>1, <4>2 DEF Persistent
        <3>3. ASSUME NEW job \in {"starting", "going"}
              PROVE  started(job) \in InMemory
            BY <3>1 DEF InMemory
        <3> QED BY <3>2, <3>3
    <2> HIDE DEF larger, started
    <2> QED BY <1>2, <1>3, <2>1, <2>2, <2>3, <2>4, UpdateGrows DEF TruthGrows
<1>7. CASE ServeStop
    <2>1. s \in Sessions
        BY <1>4, <1>7 DEF ServeStop
    <2> DEFINE stopped == [p[s] EXCEPT !.turn = "closed"]
               stopping == [m[s] EXCEPT !.exec = "stopping", !.decision = IF m[s].approval # 0 THEN "deny" ELSE @]
    <2>2. stopped \in Persistent /\ stopping \in InMemory
        <3> HIDE DEF s
        <3>1. p[s] \in Persistent /\ m[s] \in InMemory
            BY <1>1, <2>1
        <3>2. stopped \in Persistent
            BY <3>1 DEF Persistent
        <3>3. stopping \in InMemory
            BY <3>1 DEF InMemory
        <3> QED BY <3>2, <3>3
    <2>3. CASE m[s].exec = "idle" /\ p[s].turn = "closed"
        BY <1>2, <1>3, <1>7, <2>3 DEF ServeStop, TruthGrows
    <2>4. CASE m[s].exec = "idle" /\ p[s].turn # "closed"
        <3>1. PUpdate(s, stopped) /\ m' = m
            BY <1>7, <2>4 DEF ServeStop
        <3> HIDE DEF stopped, s
        <3> QED BY <1>3, <2>1, <2>2, <3>1, UpdateGrows DEF TruthGrows
    <2>5. CASE m[s].exec # "idle"
        <3>1. MUpdate(s, stopping) /\ p' = p
            BY <1>7, <2>5 DEF ServeStop
        <3> HIDE DEF stopping, s
        <3> QED BY <1>2, <2>1, <2>2, <3>1, UpdateGrows DEF TruthGrows
    <2> QED BY <2>3, <2>4, <2>5
<1>8. CASE ServeResolve
    <2>1. s \in Sessions
        BY <1>4, <1>8 DEF ServeResolve
    <2> DEFINE decision == IF r.arg.allow THEN "allow" ELSE "deny"
    <2>2. p' = p /\ (m' = m \/ m' = [m EXCEPT ![s].decision = decision])
        BY <1>8 DEF ServeResolve, Refuse
    <2> HIDE DEF s, decision
    <2>3. ASSUME m' = [m EXCEPT ![s].decision = decision], NEW t \in Sessions
          PROVE  m'[t].v = m[t].v
        <3>1. m' = [m EXCEPT ![s] = [m[s] EXCEPT !.decision = decision]] /\ m \in [Sessions -> InMemory]
            BY <2>1, <2>3 DEF ServerTyped
        <3>2. [m[s] EXCEPT !.decision = decision].v = m[s].v
            BY <1>1, <2>1 DEF InMemory
        <3> QED BY <2>1, <3>1, <3>2
    <2> QED BY <1>1, <1>2, <1>3, <2>2, <2>3 DEF TruthGrows
<1>9. CASE ServeDeliver
    <2>1. s \in Sessions
        BY <1>4, <1>9 DEF ServeDeliver
    <2> DEFINE new == [p[s] EXCEPT !.changes = IF r.method = "accept" THEN "applied" ELSE "none"]
    <2>2. m' = m /\ (p' = p \/ PUpdate(s, new))
        BY <1>9 DEF ServeDeliver, Refuse
    <2>3. new \in Persistent
        BY <1>1, <2>1 DEF Persistent
    <2> HIDE DEF new, s
    <2> QED BY <1>2, <1>3, <2>1, <2>2, <2>3, UpdateGrows DEF TruthGrows
<1> QED BY <1>5, <1>6, <1>7, <1>8, <1>9 DEF Serve

\* Nor does a worker thread.
LEMMA WorkerGrows ==
    ASSUME ServerTyped, NEW s \in Sessions, Worker(s)
    PROVE  TruthGrows /\ half' = half
<1>1. \A t \in Sessions : p[t] \in Persistent /\ m[t] \in InMemory /\ p[t].v \in Nat /\ m[t].v \in Nat
    BY UpdateGrows
<1>0. p[s] \in Persistent /\ m[s] \in InMemory /\ p[s].v + 1 \in Nat /\ m[s].v + 1 \in Nat
    BY <1>1
<1>2. p' = p => \A t \in Sessions : p[t].v <= p'[t].v
    BY <1>1
<1>3. m' = m => \A t \in Sessions : m[t].v <= m'[t].v
    BY <1>1
<1>4. half' = half
    BY DEF Worker, WorkBegin, WorkEdit, WorkAsk, WorkDecided, WorkClose, WorkLeave, Notify, Working, Finishing
<1>5. ASSUME NEW job, m' = [m EXCEPT ![s].job = job], NEW t \in Sessions
      PROVE  m[t].v <= m'[t].v
    <2>1. m' = [m EXCEPT ![s] = [m[s] EXCEPT !.job = job]] /\ m \in [Sessions -> InMemory]
        BY <1>5 DEF ServerTyped
    <2>2. [m[s] EXCEPT !.job = job].v = m[s].v
        BY <1>1 DEF InMemory
    <2>3. m'[t] = IF t = s THEN [m[s] EXCEPT !.job = job] ELSE m[t]
        BY <2>1
    <2> QED BY <1>1, <2>2, <2>3
<1>6. CASE WorkBegin(s)
    <2> DEFINE new == [p[s] EXCEPT !.turn = "open", !.id = p[s].v + 1, !.limit = 1]
    <2>1. PUpdate(s, new) /\ m' = [m EXCEPT ![s].job = "going"]
        BY <1>6 DEF WorkBegin
    <2>2. new \in Persistent
        BY <1>0 DEF Persistent
    <2> HIDE DEF new
    <2> QED BY <1>4, <1>5, <2>1, <2>2, UpdateGrows DEF TruthGrows
<1>7. CASE WorkEdit(s)
    <2> DEFINE new == [p[s] EXCEPT !.changes = "pending"]
    <2>1. PUpdate(s, new) /\ m' = m
        BY <1>7 DEF WorkEdit
    <2>2. new \in Persistent
        BY <1>0 DEF Persistent
    <2> HIDE DEF new
    <2> QED BY <1>3, <1>4, <2>1, <2>2, UpdateGrows DEF TruthGrows
<1>8. CASE WorkAsk(s)
    <2> DEFINE new == [m[s] EXCEPT !.exec = "awaiting", !.approval = m[s].v + 1]
    <2>1. MUpdate(s, new) /\ p' = p
        BY <1>8 DEF WorkAsk
    <2>2. new \in InMemory
        BY <1>0 DEF InMemory
    <2> HIDE DEF new
    <2> QED BY <1>2, <1>4, <2>1, <2>2, UpdateGrows DEF TruthGrows
<1>9. CASE WorkDecided(s)
    <2> DEFINE new == [m[s] EXCEPT !.exec = IF @ = "stopping" THEN @ ELSE "running",
                                   !.approval = 0, !.decision = "none"]
    <2>1. MUpdate(s, new) /\ p' = p
        BY <1>9 DEF WorkDecided
    <2>2. new \in InMemory
        BY <1>0 DEF InMemory
    <2> HIDE DEF new
    <2> QED BY <1>2, <1>4, <2>1, <2>2, UpdateGrows DEF TruthGrows
<1>10. CASE WorkClose(s)
    <2>1. PICK turn \in {"closed", "waiting"} : PUpdate(s, [p[s] EXCEPT !.turn = turn])
        BY <1>10 DEF WorkClose
    <2> DEFINE new == [p[s] EXCEPT !.turn = turn]
    <2>2. PUpdate(s, new) /\ m' = [m EXCEPT ![s].job = "ended"]
        BY <1>10, <2>1 DEF WorkClose
    <2>3. new \in Persistent
        BY <1>0 DEF Persistent
    <2> HIDE DEF new
    <2> QED BY <1>4, <1>5, <2>2, <2>3, UpdateGrows DEF TruthGrows
<1>11. CASE WorkLeave(s)
    <2> DEFINE new == [p[s] EXCEPT !.turn = "closed"]
    <2>1. (PUpdate(s, new) \/ p' = p) /\ MUpdate(s, Idle)
        BY <1>11 DEF WorkLeave
    <2>2. new \in Persistent /\ Idle \in InMemory
        BY <1>0 DEF Persistent, InMemory, Idle
    <2> HIDE DEF new
    <2> QED BY <1>2, <1>4, <2>1, <2>2, UpdateGrows DEF TruthGrows
<1>12. CASE Notify(s)
    BY <1>2, <1>3, <1>4, <1>12 DEF Notify, TruthGrows
<1> QED BY <1>6, <1>7, <1>8, <1>9, <1>10, <1>11, <1>12 DEF Worker

\* Nor does an exit.
LEMMA GoneGrows ==
    ASSUME ServerTyped, Gone, p' = p
    PROVE  TruthGrows /\ half' = None
<1>1. \A t \in Sessions : p[t].v \in Nat /\ m[t].v \in Nat
    BY UpdateGrows
<1>2. m' = [s \in Sessions |-> IF m[s].exec = "idle" THEN m[s] ELSE [Idle EXCEPT !.v = m[s].v + 1]] /\ half' = None
    BY DEF Gone
<1>3. \A s \in Sessions : [Idle EXCEPT !.v = m[s].v + 1].v = m[s].v + 1
    BY DEF Idle
<1> QED BY <1>1, <1>2, <1>3 DEF TruthGrows

\* Nothing that a picture is compared by has changed.
SamePicture(x, y) == x.id = y.id /\ x.p.v = y.p.v /\ x.m.v = y.m.v

\* What the pictures have to do with their types.
LEMMA PicturesTyped ==
    ASSUME HostTyped, WiresTyped, EveryoneIsAnswered
    PROVE  /\ view.cur.d \in Details /\ current.d \in Details
           /\ \A k \in 1..Len(lines) : BearsAt(k) => lines[k].value \in Details
           /\ \A x \in Details : x.id \in Sessions /\ x.p.v \in Nat /\ x.m.v \in Nat
<1>1. view.cur.d \in Details /\ current.d \in Details
    BY DEF HostTyped, Currents
<1>2. ASSUME NEW k \in 1..Len(lines), BearsAt(k)
      PROVE  lines[k].value \in Details
    BY <1>2 DEF BearsAt, Bears, EveryoneIsAnswered, Expected
<1>3. \A x \in Details : x.id \in Sessions /\ x.p.v \in Nat /\ x.m.v \in Nat
    BY DEF Details, Persistent
<1> QED BY <1>1, <1>2, <1>3

\* A step that adds no picture, reads none but the first one of the pipe and shows none but the
\* old and the new this.current keeps the order.
LEMMA PicturesKept ==
    ASSUME ServerTyped, HostTyped, WiresTyped, EveryoneIsAnswered, PictureInv, TruthGrows,
           ServerTyped', HostTyped',
           NEW d \in Nat,
           \A k \in 1..Len(lines') : BearsAt(k)' =>
               k + d \in 1..Len(lines) /\ lines'[k] = lines[k + d] /\ BearsAt(k + d),
           \/ SamePicture(current'.d, current.d)
           \/ d = 1 /\ 1 \in 1..Len(lines) /\ BearsAt(1) /\ SamePicture(current'.d, lines[1].value),
           SamePicture(view'.cur.d, view.cur.d) \/ SamePicture(view'.cur.d, current'.d),
           \/ half' = None
           \/ half' = half /\ (inbox # <<>> => inbox' # <<>> /\ Head(inbox').s = Head(inbox).s)
    PROVE  PictureInv' /\ NotNewer(view.cur.d, view'.cur.d)
<1> DEFINE V == view.cur.d
           C == current.d
           L(k) == lines[k].value
<1>1. /\ V \in Details /\ C \in Details
      /\ \A k \in 1..Len(lines) : BearsAt(k) => L(k) \in Details
    BY PicturesTyped
<1>2. \A x \in Details : x.id \in Sessions /\ x.p.v \in Nat /\ x.m.v \in Nat
    BY DEF Details, Persistent
<1>3. \A s \in Sessions : /\ p[s].v \in Nat /\ m[s].v \in Nat
                          /\ p'[s].v \in Nat /\ m'[s].v \in Nat
                          /\ p[s].v <= p'[s].v /\ m[s].v <= m'[s].v
    BY DEF TruthGrows, ServerTyped, Persistent, InMemory
<1>4. view'.cur.d \in Details /\ current'.d \in Details
    BY DEF HostTyped, Currents
<1> HIDE DEF V, C, L
<1>5. /\ Past(V) /\ Past(C) /\ NotNewer(V, C)
      /\ \A k \in 1..Len(lines) : BearsAt(k) => Past(L(k)) /\ NotNewer(V, L(k)) /\ NotNewer(C, L(k))
      /\ \A j, k \in 1..Len(lines) : j < k /\ BearsAt(j) /\ BearsAt(k) => NotNewer(L(j), L(k))
    BY DEF PictureInv, ScreenIsPast, PipeIsInOrder, V, C, L
\* What is this.current now, and on the screen.
<1>6. PICK c \in Details :
          /\ SamePicture(current'.d, c)
          /\ c = C \/ (d = 1 /\ 1 \in 1..Len(lines) /\ BearsAt(1) /\ c = L(1))
    BY <1>1 DEF C, L
<1>7. PICK v \in Details : SamePicture(view'.cur.d, v) /\ (v = V \/ v = c)
    <2>1. CASE SamePicture(view'.cur.d, view.cur.d)
        BY <1>1, <2>1 DEF V
    <2>2. CASE SamePicture(view'.cur.d, current'.d)
        BY <1>6, <2>2 DEF SamePicture
    <2> QED BY <2>1, <2>2
<1>8. /\ Past(c) /\ Past(v) /\ NotNewer(V, c) /\ NotNewer(V, v) /\ NotNewer(v, c)
      /\ \A k \in 1..Len(lines) : k > d /\ BearsAt(k) => NotNewer(c, L(k)) /\ NotNewer(v, L(k))
    <2>1. \A x \in Details : NotNewer(x, x)
        BY <1>2 DEF NotNewer
    <2>2. Past(c) /\ NotNewer(V, c) /\ \A k \in 1..Len(lines) : k > d /\ BearsAt(k) => NotNewer(c, L(k))
        BY <1>5, <1>6
    <2> QED BY <1>1, <1>5, <1>7, <2>1, <2>2
<1>9. ASSUME NEW x \in Details, NEW y, Past(x), SamePicture(y, x)
      PROVE  y.p.v <= p'[y.id].v /\ y.m.v <= m'[y.id].v
    <2>1. y.id \in Sessions /\ y.p.v <= p[y.id].v /\ y.m.v <= m[y.id].v /\ y.p.v \in Nat /\ y.m.v \in Nat
        BY <1>2, <1>9 DEF Past, SamePicture
    <2> QED BY <1>3, <2>1
<1>10. ScreenIsPast'
    <2>1. Past(view.cur.d)' /\ Past(current.d)'
        BY <1>6, <1>7, <1>8, <1>9 DEF Past
    <2>2. NotNewer(view.cur.d, current.d)'
        BY <1>6, <1>7, <1>8 DEF NotNewer, SamePicture
    <2> QED BY <2>1, <2>2 DEF ScreenIsPast
<1>11. PipeIsInOrder'
    <2>1. ASSUME NEW k \in 1..Len(lines'), BearsAt(k)'
          PROVE  /\ Past(lines[k].value)'
                 /\ NotNewer(view.cur.d, lines[k].value)' /\ NotNewer(current.d, lines[k].value)'
        <3>1. k + d \in 1..Len(lines) /\ k + d > d /\ lines'[k].value = L(k + d) /\ BearsAt(k + d)
            BY <2>1 DEF L
        <3>2. L(k + d) \in Details /\ Past(L(k + d)) /\ SamePicture(lines'[k].value, L(k + d))
            BY <1>1, <1>5, <3>1 DEF SamePicture
        <3>3. Past(lines[k].value)'
            BY <1>9, <3>2 DEF Past
        <3>4. NotNewer(c, L(k + d)) /\ NotNewer(v, L(k + d))
            BY <1>8, <3>1
        <3> QED BY <1>6, <1>7, <3>1, <3>3, <3>4 DEF NotNewer, SamePicture
    <2>2. ASSUME NEW j \in 1..Len(lines'), NEW k \in 1..Len(lines'), j < k, BearsAt(j)', BearsAt(k)'
          PROVE  NotNewer(lines[j].value, lines[k].value)'
        <3>1. /\ j + d \in 1..Len(lines) /\ lines'[j].value = L(j + d) /\ BearsAt(j + d)
              /\ k + d \in 1..Len(lines) /\ lines'[k].value = L(k + d) /\ BearsAt(k + d)
            BY <2>2 DEF L
        <3>2. j + d < k + d
            BY <2>2
        <3>3. NotNewer(L(j + d), L(k + d))
            BY <1>5, <3>1, <3>2
        <3> QED BY <3>1, <3>3 DEF NotNewer
    <2> QED BY <2>1, <2>2 DEF PipeIsInOrder
<1>12. HalfIsLatest'
    <2> SUFFICES ASSUME half' # None
                 PROVE  LET s == Head(inbox').s IN
                        /\ inbox' # <<>> /\ s \in Sessions /\ half'.v <= p'[s].v
                        /\ \A x \in {view'.cur.d, current'.d} : x.id = s => x.p.v <= half'.v
                        /\ \A k \in 1..Len(lines') : BearsAt(k)' /\ lines'[k].value.id = s
                               => lines'[k].value.p.v <= half'.v
        BY DEF HalfIsLatest
    <2> DEFINE s == Head(inbox).s
    <2>1. /\ half' = half /\ inbox # <<>> /\ s \in Sessions /\ half.v <= p[s].v
          /\ \A x \in {V, C} : x.id = s => x.p.v <= half.v
          /\ \A k \in 1..Len(lines) : BearsAt(k) /\ L(k).id = s => L(k).p.v <= half.v
        BY DEF PictureInv, HalfIsLatest, V, C, L
    <2>2. inbox' # <<>> /\ Head(inbox').s = s
        BY <2>1
    <2> HIDE DEF s
    <2>3. half.v \in Nat
        BY <2>1 DEF ServerTyped, Persistent
    <2>4. half.v <= p'[s].v
        BY <1>3, <2>1, <2>3
    <2>5. c.id = s => c.p.v <= half.v
        BY <1>6, <2>1
    <2>6. v.id = s => v.p.v <= half.v
        BY <1>7, <2>1, <2>5
    <2>7. \A x \in {view'.cur.d, current'.d} : x.id = s => x.p.v <= half.v
        BY <1>6, <1>7, <2>5, <2>6 DEF SamePicture
    <2>8. \A k \in 1..Len(lines') : BearsAt(k)' /\ lines'[k].value.id = s => lines'[k].value.p.v <= half.v
        BY <2>1 DEF L
    <2> QED BY <2>1, <2>2, <2>4, <2>7, <2>8
<1>13. NotNewer(V, view'.cur.d)
    BY <1>7, <1>8 DEF NotNewer, SamePicture
<1> QED BY <1>10, <1>11, <1>12, <1>13 DEF PictureInv, V

\* The pipe after a response.
LEMMA AnswerAppended ==
    ASSUME WiresTyped, NEW notes \in {<<>>} \cup {<<n>> : n \in NoteSet}, NEW a \in AnswerSet,
           lines' = lines \o notes \o <<a>>
    PROVE  \A k \in 1..Len(lines') :
               \/ k \in 1..Len(lines) /\ lines'[k] = lines[k]
               \/ k = Len(lines') /\ lines'[k] = a /\ Len(lines') > Len(lines)
               \/ lines'[k].kind = "note"
<1> lines \in Seq(AnswerSet \cup NoteSet) /\ Len(lines) \in Nat
    BY DEF WiresTyped
<1>1. CASE notes = <<>>
    <2>1. lines' = Append(lines, a)
        BY <1>1
    <2> QED BY <2>1
<1>2. ASSUME NEW n \in NoteSet, notes = <<n>>
      PROVE  \A k \in 1..Len(lines') :
               \/ k \in 1..Len(lines) /\ lines'[k] = lines[k]
               \/ k = Len(lines') /\ lines'[k] = a /\ Len(lines') > Len(lines)
               \/ lines'[k].kind = "note"
    <2>1. lines' = Append(Append(lines, n), a)
        BY <1>2
    <2>2. n.kind = "note"
        BY DEF NoteSet
    <2> QED BY <2>1, <2>2
<1> QED BY <1>1, <1>2

\* A response with a picture of the session as it is, or as it was when its half was read.
LEMMA PictureAdded ==
    ASSUME ServerTyped, HostTyped, WiresTyped, EveryoneIsAnswered, PictureInv,
           NEW s \in Sessions, NEW per \in Persistent, NEW a \in AnswerSet, a.value = Detail(s, per, m[s]),
           lines' = lines \o <<>> \o <<a>>, UNCHANGED <<p, m, flows, current, view>>, half' = None,
           per.v <= p[s].v,
           \A x \in {view.cur.d, current.d} : x.id = s => x.p.v <= per.v,
           \A k \in 1..Len(lines) : BearsAt(k) /\ lines[k].value.id = s => lines[k].value.p.v <= per.v
    PROVE  PictureInv'
<1> DEFINE V == view.cur.d
           C == current.d
           N == a.value
<1>1. \A k \in 1..Len(lines') :
          \/ k \in 1..Len(lines) /\ lines'[k] = lines[k]
          \/ k = Len(lines') /\ lines'[k] = a /\ Len(lines') > Len(lines)
          \/ lines'[k].kind = "note"
    BY AnswerAppended
<1>2. ASSUME NEW k \in 1..Len(lines'), BearsAt(k)'
      PROVE  \/ k \in 1..Len(lines) /\ lines'[k] = lines[k] /\ BearsAt(k)
             \/ k = Len(lines') /\ lines'[k] = a /\ Len(lines') > Len(lines)
    BY <1>1, <1>2 DEF BearsAt
<1>3. N.id = s /\ N.p = per /\ N.m.v = m[s].v
    BY DEF Detail
<1>4. Past(N)
    <2>1. m[s].v \in Nat
        BY DEF ServerTyped, InMemory
    <2> QED BY <1>3, <2>1 DEF Past
<1>5. /\ NotNewer(V, N) /\ NotNewer(C, N)
      /\ \A k \in 1..Len(lines) : BearsAt(k) => NotNewer(lines[k].value, N)
    <2>1. Past(V) /\ Past(C) /\ \A k \in 1..Len(lines) : BearsAt(k) => Past(lines[k].value)
        BY DEF PictureInv, ScreenIsPast, PipeIsInOrder
    <2> HIDE DEF N, V, C
    <2>2. ASSUME NEW x, Past(x), x.id = s => x.p.v <= per.v
          PROVE  NotNewer(x, N)
        BY <1>3, <2>2 DEF Past, NotNewer
    <2>3. NotNewer(V, N) /\ NotNewer(C, N)
        BY <2>1, <2>2 DEF V, C
    <2>4. ASSUME NEW k \in 1..Len(lines), BearsAt(k)
          PROVE  NotNewer(lines[k].value, N)
        BY <2>1, <2>2, <2>4
    <2> QED BY <2>3, <2>4
<1> HIDE DEF N
<1>6. ScreenIsPast'
    BY DEF PictureInv, ScreenIsPast, Past, NotNewer
<1>7. PipeIsInOrder'
    <2>1. ASSUME NEW k \in 1..Len(lines'), BearsAt(k)'
          PROVE  /\ Past(lines[k].value)'
                 /\ NotNewer(view.cur.d, lines[k].value)' /\ NotNewer(current.d, lines[k].value)'
        <3>1. CASE k \in 1..Len(lines) /\ lines'[k] = lines[k] /\ BearsAt(k)
            BY <3>1 DEF PictureInv, PipeIsInOrder, Past, NotNewer
        <3>2. CASE lines'[k] = a
            BY <1>4, <1>5, <3>2 DEF Past, NotNewer, N
        <3> QED BY <1>2, <2>1, <3>1, <3>2
    <2>2. ASSUME NEW j \in 1..Len(lines'), NEW k \in 1..Len(lines'), j < k, BearsAt(j)', BearsAt(k)'
          PROVE  NotNewer(lines[j].value, lines[k].value)'
        <3>1. j \in 1..Len(lines) /\ lines'[j] = lines[j] /\ BearsAt(j)
            BY <1>2, <2>2
        <3>2. CASE k \in 1..Len(lines) /\ lines'[k] = lines[k] /\ BearsAt(k)
            BY <2>2, <3>1, <3>2 DEF PictureInv, PipeIsInOrder, NotNewer
        <3>3. CASE lines'[k] = a
            BY <1>5, <3>1, <3>3 DEF NotNewer, N
        <3> QED BY <1>2, <2>2, <3>2, <3>3
    <2> QED BY <2>1, <2>2 DEF PipeIsInOrder
<1>8. HalfIsLatest'
    BY DEF HalfIsLatest
<1> QED BY <1>6, <1>7, <1>8 DEF PictureInv

\* The first half of a session/get.
LEMMA HalfRead ==
    ASSUME ServerTyped, PictureInv, inbox # <<>>, Head(inbox).s \in Sessions, half' = p[Head(inbox).s],
           UNCHANGED <<p, m, inbox, lines, flows, current, view>>
    PROVE  PictureInv'
<1> DEFINE s == Head(inbox).s
<1>1. ScreenIsPast' /\ PipeIsInOrder'
    <2>1. ScreenIsPast'
        BY DEF PictureInv, ScreenIsPast, Past, NotNewer
    <2>2. \A k : BearsAt(k)' = BearsAt(k)
        BY Zenon DEF BearsAt, Bears
    <2>3. PipeIsInOrder'
        BY <2>2 DEF PictureInv, PipeIsInOrder, Past, NotNewer
    <2> QED BY <2>1, <2>3
<1>2. p[s].v \in Nat
    BY DEF ServerTyped, Persistent
<1>3. /\ \A x \in {view.cur.d, current.d} : x.id = s => x.p.v <= p[s].v
      /\ \A k \in 1..Len(lines) : BearsAt(k) /\ lines[k].value.id = s => lines[k].value.p.v <= p[s].v
    BY DEF PictureInv, ScreenIsPast, PipeIsInOrder, Past
<1>4. \A k : BearsAt(k)' <=> BearsAt(k)
    BY DEF BearsAt, Bears
<1>5. HalfIsLatest'
    BY <1>2, <1>3, <1>4 DEF HalfIsLatest
<1> QED BY <1>1, <1>5 DEF PictureInv

\* The server keeps the order: it serves one session/get at a time.
LEMMA ServePictures ==
    ASSUME Typed, EveryoneIsAnswered, BudgetIsForWhatWasShown, PictureInv, Serve
    PROVE  PictureInv' /\ view' = view
<1> USE DEF Typed
<1> DEFINE r == Head(inbox)
<1>1. ServerTyped' /\ UNCHANGED <<flows, hostVars>> /\ TruthGrows
    BY ServeNext, ServeGrows
<1>2. UNCHANGED <<current, view>> /\ HostTyped'
    BY <1>1 DEF hostVars, HostTyped
<1>3. ASSUME NEW method, Serving(method)
      PROVE  /\ inbox # <<>> /\ r.method = method /\ r \in RequestSet /\ r.i \in Index
             /\ Requested(flows[r.i], r)
             /\ method \notin {"initialize", "list", "create"} => r.s \in Sessions
    <2>1. inbox # <<>> /\ r.method = method
        BY <1>3 DEF Serving
    <2>2. GoodRequest(r) /\ r \in RequestSet /\ r.i \in Index /\ Requested(flows[r.i], r)
        BY <2>1, HeadRequest
    <2> HIDE DEF r
    <2> QED BY <2>1, <2>2 DEF GoodRequest
<1>4. ASSUME NEW method, Serving(method), NEW ok \in BOOLEAN, NEW value \in {None} \cup Details \cup SUBSET Sessions,
             NEW notes \in {<<>>} \cup {<<n>> : n \in NoteSet},
             ~ok \/ method \notin {"get", "create"}, Respond(r, ok, value, notes)
      PROVE  PictureInv'
    <2> DEFINE a == Answer(r.i, ok, value)
    <2>1. lines' = lines \o notes \o <<a>> /\ half' = None
        BY <1>4 DEF Respond
    <2>2. r.method = method /\ r.i \in Index /\ Requested(flows[r.i], r)
        BY <1>3, <1>4
    <2> HIDE DEF r
    <2>3. a \in AnswerSet /\ a.i = r.i /\ a.ok = ok
        BY <2>2 DEF Answer, AnswerSet
    <2>4. ~Bears(flows[a.i], a)
        BY <1>4, <2>2, <2>3 DEF Bears, Requested, AwaitOf
    <2> HIDE DEF a
    <2>5. \A k \in 1..Len(lines') : BearsAt(k)' =>
              k + 0 \in 1..Len(lines) /\ lines'[k] = lines[k + 0] /\ BearsAt(k + 0)
        <3> SUFFICES ASSUME NEW k \in 1..Len(lines'), BearsAt(k)'
                     PROVE  k \in 1..Len(lines) /\ lines'[k] = lines[k] /\ BearsAt(k)
            OBVIOUS
        <3>1. \/ k \in 1..Len(lines) /\ lines'[k] = lines[k]
              \/ lines'[k] = a
              \/ lines'[k].kind = "note"
            BY <2>1, <2>3, AnswerAppended
        <3> QED BY <1>1, <2>4, <3>1 DEF BearsAt
    <2>6. SamePicture(current'.d, current.d) /\ SamePicture(view'.cur.d, view.cur.d)
        BY <1>2 DEF SamePicture
    <2> QED BY <1>1, <1>2, <2>1, <2>5, <2>6, PicturesKept
<1>5. <<>> \in {<<>>} \cup {<<n>> : n \in NoteSet}
    OBVIOUS
<1>6. ASSUME NEW method, Serving(method), Refuse(r)
      PROVE  PictureInv'
    BY <1>4, <1>5, <1>6 DEF Refuse
<1>7. ASSUME NEW s \in Sessions
      PROVE  <<Note(s, TRUE)>> \in {<<>>} \cup {<<n>> : n \in NoteSet}
    BY DEF Note, NoteSet
<1>8. view' = view
    BY <1>2
<1>9. CASE ServeInitialize \/ ServeList
    <2>1. PICK method \in {"initialize", "list"} : Serving(method)
        BY <1>9 DEF ServeInitialize, ServeList
    <2>2. PICK value \in {None} \cup Details \cup SUBSET Sessions : Respond(r, TRUE, value, <<>>)
        BY <1>9 DEF ServeInitialize, ServeList, ServerTyped
    <2> HIDE DEF r
    <2> QED BY <1>4, <1>5, <1>8, <2>1, <2>2
<1>10. CASE ServeRead
    <2>1. PICK method \in {"get", "changes"} : Serving(method)
        BY <1>10 DEF ServeRead
    <2>2. inbox # <<>> /\ r.s \in Sessions
        BY <1>3, <2>1
    <2>3. half' = p[r.s] /\ UNCHANGED <<p, m, inbox, lines>>
        BY <1>10 DEF ServeRead
    <2> QED BY <1>1, <1>2, <2>2, <2>3, HalfRead
<1>11. CASE ServeGet
    <2>1. PICK method \in {"get", "changes"} : Serving(method)
        BY <1>11 DEF ServeGet
    <2>2. inbox # <<>> /\ r.s \in Sessions /\ r.i \in Index
        BY <1>3, <2>1
    <2> DEFINE value == Detail(r.s, half, m[r.s])
    <2>3. half \in Persistent /\ half # None /\ Respond(r, TRUE, value, <<>>) /\ UNCHANGED <<p, m>>
        BY <1>11 DEF ServeGet, ServerTyped
    <2>4. value \in Details
        BY <2>2, <2>3, DetailTyped
    <2>5. CASE method = "changes"
        <3>1. value \in {None} \cup Details \cup SUBSET Sessions /\ method \notin {"get", "create"}
            BY <2>4, <2>5
        <3> HIDE DEF value, r
        <3> QED BY <1>4, <1>5, <1>8, <2>1, <2>3, <3>1
    <2>6. CASE method = "get"
        <3> DEFINE a == Answer(r.i, TRUE, value)
        <3>1. lines' = lines \o <<>> \o <<a>> /\ half' = None
            BY <2>3 DEF Respond
        <3>2. a.value = Detail(r.s, half, m[r.s]) /\ a \in AnswerSet
            BY <2>2, <2>4 DEF Answer, AnswerSet
        <3>3. /\ half.v <= p[r.s].v
              /\ \A x \in {view.cur.d, current.d} : x.id = r.s => x.p.v <= half.v
              /\ \A k \in 1..Len(lines) : BearsAt(k) /\ lines[k].value.id = r.s => lines[k].value.p.v <= half.v
            BY <2>3 DEF PictureInv, HalfIsLatest
        <3> HIDE DEF a, value, r
        <3> QED BY <1>1, <1>2, <2>2, <2>3, <3>1, <3>2, <3>3, PictureAdded
    <2> QED BY <1>8, <2>5, <2>6
<1>12. CASE ServeCreate
    <2>1. Serving("create") /\ r.i \in Index
        BY <1>3, <1>12 DEF ServeCreate
    <2>2. CASE Refuse(r)
        BY <1>6, <1>8, <2>1, <2>2
    <2>3. ASSUME NEW s \in Sessions, Respond(r, TRUE, Detail(s, p[s], m[s]), <<>>), UNCHANGED <<p, m>>
          PROVE  PictureInv'
        <3> DEFINE per == p[s]
                   a == Answer(r.i, TRUE, Detail(s, per, m[s]))
        <3>1. lines' = lines \o <<>> \o <<a>> /\ half' = None
            BY <2>3 DEF Respond
        <3>2. per \in Persistent /\ per.v \in Nat
            BY UpdateGrows
        <3>3. a.value = Detail(s, per, m[s]) /\ a \in AnswerSet
            <4>1. Detail(s, per, m[s]) \in Details
                BY <3>2, DetailTyped
            <4> QED BY <2>1, <4>1 DEF Answer, AnswerSet
        <3>4. /\ per.v <= p[s].v
              /\ \A x \in {view.cur.d, current.d} : x.id = s => x.p.v <= per.v
              /\ \A k \in 1..Len(lines) : BearsAt(k) /\ lines[k].value.id = s => lines[k].value.p.v <= per.v
            BY <3>2 DEF PictureInv, ScreenIsPast, PipeIsInOrder, Past
        <3> HIDE DEF a, per
        <3> QED BY <1>1, <1>2, <2>3, <3>1, <3>2, <3>3, <3>4, PictureAdded
    <2>4. Refuse(r) \/ \E s \in Sessions : Respond(r, TRUE, Detail(s, p[s], m[s]), <<>>) /\ UNCHANGED <<p, m>>
        BY <1>12 DEF ServeCreate
    <2> QED BY <1>8, <2>2, <2>3, <2>4
<1>13. ASSUME NEW method \in {"run", "continue", "increase", "stop", "resolve", "accept", "discard"}, Serving(method),
              \/ Refuse(r) \/ Respond(r, TRUE, None, <<>>) \/ Respond(r, TRUE, None, <<Note(r.s, TRUE)>>)
       PROVE  PictureInv' /\ view' = view
    <2>1. r.s \in Sessions
        BY <1>3, <1>13
    <2> DEFINE notes == <<Note(r.s, TRUE)>>
    <2>2. notes \in {<<>>} \cup {<<n>> : n \in NoteSet}
        BY <1>7, <2>1
    <2>3. Refuse(r) \/ Respond(r, TRUE, None, <<>>) \/ Respond(r, TRUE, None, notes)
        BY <1>13
    <2> HIDE DEF notes, r
    <2> QED BY <1>4, <1>5, <1>6, <1>8, <1>13, <2>2, <2>3
<1>14. CASE ServeRun \/ ServeContinue \/ ServeIncrease
    <2>1. \E method \in {"run", "continue", "increase"} : Serving(method)
        BY <1>14 DEF ServeRun, ServeContinue, ServeIncrease
    <2>2. Refuse(r) \/ Respond(r, TRUE, None, <<Note(r.s, TRUE)>>)
        BY <1>14 DEF ServeRun, ServeContinue, ServeIncrease, Start
    <2> HIDE DEF r
    <2> QED BY <1>13, <2>1, <2>2
<1>15. CASE ServeStop
    <2>1. Serving("stop")
        BY <1>15 DEF ServeStop
    <2>2. Respond(r, TRUE, None, <<>>) \/ Respond(r, TRUE, None, <<Note(r.s, TRUE)>>)
        <3>1. CASE m[r.s].exec = "idle" /\ p[r.s].turn = "closed"
            BY <1>15, <3>1 DEF ServeStop
        <3>2. CASE m[r.s].exec = "idle" /\ p[r.s].turn # "closed"
            BY <1>15, <3>2 DEF ServeStop
        <3>3. CASE m[r.s].exec # "idle"
            BY <1>15, <3>3 DEF ServeStop
        <3> QED BY <3>1, <3>2, <3>3
    <2> HIDE DEF r
    <2> QED BY <1>13, <2>1, <2>2
<1>16. CASE ServeResolve \/ ServeDeliver
    <2>1. \E method \in {"resolve", "accept", "discard"} : Serving(method)
        BY <1>16 DEF ServeResolve, ServeDeliver
    <2>2. Refuse(r) \/ Respond(r, TRUE, None, <<>>)
        BY <1>16 DEF ServeResolve, ServeDeliver
    <2> HIDE DEF r
    <2> QED BY <1>13, <2>1, <2>2
<1> QED BY <1>8, <1>9, <1>10, <1>11, <1>12, <1>14, <1>15, <1>16 DEF Serve

\* The steps of a flow.
LEMMA MovesPictures ==
    ASSUME Typed, WireInv, PictureInv, TruthGrows, ServerTyped', HostTyped', NEW i, Moves(i), half' = half,
           \/ SamePicture(current'.d, current.d)
           \/ /\ lines # <<>> /\ lines' = Tail(lines) /\ Head(lines).kind = "answer"
              /\ Bears(flows[Head(lines).i], Head(lines)) /\ SamePicture(current'.d, Head(lines).value),
           SamePicture(view'.cur.d, view.cur.d) \/ SamePicture(view'.cur.d, current'.d)
    PROVE  PictureInv' /\ NotNewer(view.cur.d, view'.cur.d)
<1> USE DEF Typed
<1> lines \in Seq(AnswerSet \cup NoteSet) /\ Len(lines) \in Nat /\ inbox \in Seq(RequestSet)
    BY DEF WiresTyped
<1>1. PICK d \in {0, 1} :
          /\ lines' \in Seq(AnswerSet \cup NoteSet) /\ Len(lines') = Len(lines) - d /\ Len(lines') \in Nat
          /\ \A k \in 1..Len(lines') : k + d \in 1..Len(lines) /\ lines'[k] = lines[k + d]
          /\ d = 1 => Len(lines) >= 1
          /\ \A k \in 1..Len(lines') : lines'[k].kind = "answer" => lines'[k].i # i /\ lines'[k].i \in Index
    BY MovedLines
<1>2. \A j \in Index \ {i} : flows'[j] = flows[j]
    BY DEF Moves
<1>3. \A k \in 1..Len(lines') : BearsAt(k)' =>
          k + d \in 1..Len(lines) /\ lines'[k] = lines[k + d] /\ BearsAt(k + d)
    BY <1>1, <1>2 DEF BearsAt
<1>4. inbox # <<>> => inbox' # <<>> /\ Head(inbox').s = Head(inbox).s
    <2>1. inbox' = inbox \/ \E r \in RequestSet : inbox' = Append(inbox, r)
        BY DEF Moves
    <2> QED BY <2>1
<1>5. \/ SamePicture(current'.d, current.d)
      \/ d = 1 /\ 1 \in 1..Len(lines) /\ BearsAt(1) /\ SamePicture(current'.d, lines[1].value)
    <2>1. ASSUME lines # <<>>, lines' = Tail(lines), Head(lines).kind = "answer",
                 Bears(flows[Head(lines).i], Head(lines)), SamePicture(current'.d, Head(lines).value)
          PROVE  d = 1 /\ 1 \in 1..Len(lines) /\ BearsAt(1) /\ SamePicture(current'.d, lines[1].value)
        <3>1. Head(lines) = lines[1] /\ 1 \in 1..Len(lines) /\ Len(Tail(lines)) = Len(lines) - 1
            BY <2>1
        <3>2. d = 1
            BY <1>1, <2>1, <3>1
        <3> QED BY <2>1, <3>1, <3>2 DEF BearsAt
    <2> QED BY <2>1
<1>6. d \in Nat
    OBVIOUS
<1> QED BY <1>3, <1>4, <1>5, <1>6, PicturesKept DEF WireInv

\* The host renders this.current or leaves the screen alone, and fetches nothing new.
Shows == current' = current /\ (view'.cur = view.cur \/ view'.cur = current')

\* The handlers of messages, the timer and the dialogs leave this.current alone.
LEMMA HandlersShow ==
    ASSUME HostTyped
    PROVE  /\ HandleSimple \/ HandleIncrease \/ HandleImmediate \/ HandleDeliver \/ HandleCreate
                   \/ (HandleCredentials /\ Busy)
                   \/ ReadNotification \/ TimerFires \/ Click
               => Shows /\ UNCHANGED <<p, m, half>>
           /\ \A i \in Index : Ensure(i) \/ ModalYes(i) \/ ModalNo(i) => Shows /\ UNCHANGED <<p, m, half>>
<1>1. Refused \/ UNCHANGED <<current, view>> => Shows
    BY DEF Refused, Render, Shows
<1>2. ASSUME HandleSimple \/ HandleIncrease \/ HandleDeliver \/ HandleCreate
      PROVE  Shows /\ UNCHANGED <<p, m, half>>
    <2>1. UNCHANGED <<p, m, half>>
        BY <1>2 DEF HandleSimple, HandleIncrease, HandleDeliver, HandleCreate, Taking, Quiet
    <2>2. Refused \/ UNCHANGED <<current, view>>
        BY <1>2 DEF HandleSimple, HandleIncrease, HandleDeliver, HandleCreate
    <2> QED BY <1>1, <2>1, <2>2
<1>3. ASSUME HandleImmediate
      PROVE  Shows /\ UNCHANGED <<p, m, half>>
    <2>1. UNCHANGED <<p, m, half>>
        BY <1>3 DEF HandleImmediate, Taking, Quiet
    <2>2. Refused \/ UNCHANGED <<current, view>>
        <3>1. PICK type \in {"stop", "resolve"} :
                CASE type = "resolve" /\ current.d.m.approval = 0 -> UNCHANGED <<current, view>>
                  [] (type = "stop" \/ current.d.m.approval # 0) /\ server = "none" -> Refused
                  [] (type = "stop" \/ current.d.m.approval # 0) /\ server # "none" -> UNCHANGED <<current, view>>
            BY <1>3 DEF HandleImmediate
        <3>2. CASE type = "resolve" /\ current.d.m.approval = 0
            BY <3>1, <3>2
        <3>3. CASE (type = "stop" \/ current.d.m.approval # 0) /\ server = "none"
            BY <3>1, <3>3
        <3>4. CASE (type = "stop" \/ current.d.m.approval # 0) /\ server # "none"
            BY <3>1, <3>4
        <3> QED BY <3>2, <3>3, <3>4
    <2> QED BY <1>1, <2>1, <2>2
<1>4. ASSUME HandleCredentials, Busy
      PROVE  Shows /\ UNCHANGED <<p, m, half>>
    BY <1>1, <1>4 DEF HandleCredentials, Taking, Quiet
<1>5. ASSUME ReadNotification \/ TimerFires
      PROVE  Shows /\ UNCHANGED <<p, m, half>>
    BY <1>1, <1>5 DEF ReadNotification, TimerFires, serverVars
<1>6. ASSUME Click
      PROVE  Shows /\ UNCHANGED <<p, m, half>>
    <2>1. current' = current /\ UNCHANGED <<p, m, half>> /\ \E sent : view' = [view EXCEPT !.sent = sent]
        BY <1>6 DEF Click, serverVars
    <2>2. view'.cur = view.cur
        BY <2>1 DEF HostTyped
    <2> QED BY <2>1, <2>2 DEF Shows
<1>7. ASSUME NEW i \in Index, Ensure(i) \/ ModalNo(i)
      PROVE  Shows /\ UNCHANGED <<p, m, half>>
    BY <1>1, <1>7 DEF Ensure, ModalNo, serverVars, hostVars
<1>8. ASSUME NEW i \in Index, ModalYes(i)
      PROVE  Shows /\ UNCHANGED <<p, m, half>>
    <2>1. UNCHANGED <<p, m, half>>
        BY <1>8 DEF ModalYes
    <2>2. UNCHANGED <<current, view>> \/ Fail(i)
        BY <1>8 DEF ModalYes
    <2>3. Fail(i) => Shows
        BY DEF Fail, Render, Shows
    <2> QED BY <1>1, <2>1, <2>2, <2>3
<1> QED BY <1>2, <1>3, <1>4, <1>5, <1>6, <1>7, <1>8

\* An answer that is read brings a newer picture, or none.
LEMMA ReadAnswerPictures ==
    ASSUME Typed, WireInv, BudgetIsForWhatWasShown, PictureInv, ReadAnswer
    PROVE  PictureInv' /\ NotNewer(view.cur.d, view'.cur.d)
<1> USE DEF Typed
<1> DEFINE a == Head(lines)
           i == a.i
           f == flows[i]
<1>1. ServerTyped' /\ HostTyped' /\ Moves(i)
    BY ReadAnswerNext
<1>2. lines # <<>> /\ a.kind = "answer" /\ lines' = Tail(lines) /\ UNCHANGED <<p, m, half>>
    BY DEF ReadAnswer
<1>3. a \in AnswerSet /\ i \in Index /\ Expected(f, a) /\ a.ok \in BOOLEAN
    BY <1>2, HeadLine DEF WireInv, AnswerSet
<1>4. f.at \in {"init", "list", "get", "changes", "call"}
    BY <1>3 DEF Expected, Waiting
<1>5. TruthGrows
    <2>1. \A t \in Sessions : p[t].v \in Nat /\ m[t].v \in Nat
        BY UpdateGrows
    <2> QED BY <1>2, <2>1 DEF TruthGrows
<1>6. /\ view' = view \/ view'.cur = current'
      /\ \/ SamePicture(current'.d, current.d)
         \/ Bears(f, a) /\ SamePicture(current'.d, a.value)
    <2>1. CASE ~a.ok
        <3>1. Fail(i)
            BY <2>1 DEF ReadAnswer
        <3> QED BY <3>1 DEF Fail, Render, SamePicture
    <2>2. CASE a.ok /\ f.at = "init"
        BY <2>2 DEF ReadAnswer, Render, SamePicture
    <2>3. CASE a.ok /\ f.at = "list"
        BY <2>3 DEF ReadAnswer, SamePicture
    <2>4. CASE a.ok /\ f.at = "get"
        <3>1. GotDetail(i, a.value)
            BY <2>4 DEF ReadAnswer
        <3>2. current'.d = a.value /\ (view' = view \/ Render)
            BY <3>1 DEF GotDetail
        <3>3. Render => view'.cur = current'
            BY DEF Render
        <3> QED BY <2>4, <3>2, <3>3 DEF SamePicture, Bears
    <2>5. CASE a.ok /\ f.at = "changes"
        <3>1. GotChanges(i, a.value)
            BY <2>5 DEF ReadAnswer
        <3>2. view'.cur = current'
            BY <3>1 DEF GotChanges, Render
        <3>3. \/ current' = current
              \/ \E c : current' = [current EXCEPT !.d.p.changes = c]
            BY <3>1 DEF GotChanges
        <3>4. ASSUME NEW c, current' = [current EXCEPT !.d.p.changes = c]
              PROVE  SamePicture(current'.d, current.d)
            <4>1. current \in Currents
                BY DEF HostTyped
            <4> HIDE DEF HostTyped
            <4> QED BY <3>4, <4>1 DEF Currents, Details, Persistent, SamePicture
        <3> QED BY <3>2, <3>3, <3>4 DEF SamePicture
    <2>6. CASE a.ok /\ f.at = "call"
        <3>1. /\ current' = IF f.op = "create" THEN [d |-> a.value, by |-> i] ELSE current
              /\ view' = view
            BY <2>6 DEF ReadAnswer
        <3> QED BY <2>6, <3>1 DEF SamePicture, Bears
    <2> QED BY <1>3, <1>4, <2>1, <2>2, <2>3, <2>4, <2>5, <2>6
<1>7. SamePicture(view'.cur.d, view.cur.d) \/ SamePicture(view'.cur.d, current'.d)
    BY <1>6 DEF SamePicture
<1> QED BY <1>1, <1>2, <1>5, <1>6, <1>7, MovesPictures

\* A step by which no answer is read and no picture fetched.
LEMMA OtherPictures ==
    ASSUME ServerTyped, HostTyped, WiresTyped, EveryoneIsAnswered, PictureInv, TruthGrows,
           ServerTyped', HostTyped', Shows,
           lines' = <<>> \/ (UNCHANGED <<lines, flows>>) \/ (UNCHANGED flows /\ \E n \in NoteSet : lines' = Append(lines, n)),
           half' = None \/ UNCHANGED <<half, inbox>>
    PROVE  PictureInv' /\ NotNewer(view.cur.d, view'.cur.d)
<1>1. \A k \in 1..Len(lines') : BearsAt(k)' =>
          k + 0 \in 1..Len(lines) /\ lines'[k] = lines[k + 0] /\ BearsAt(k + 0)
    <2> SUFFICES ASSUME NEW k \in 1..Len(lines'), BearsAt(k)'
                 PROVE  k \in 1..Len(lines) /\ lines'[k] = lines[k] /\ BearsAt(k)
        OBVIOUS
    <2> lines \in Seq(AnswerSet \cup NoteSet) /\ Len(lines) \in Nat
        BY DEF WiresTyped
    <2>1. CASE lines' = <<>>
        BY <2>1
    <2>2. CASE UNCHANGED <<lines, flows>>
        BY <2>2 DEF BearsAt
    <2>3. ASSUME UNCHANGED flows, NEW n \in NoteSet, lines' = Append(lines, n)
          PROVE  k \in 1..Len(lines) /\ lines'[k] = lines[k] /\ BearsAt(k)
        <3>1. n.kind # "answer" /\ (k = Len(lines) + 1 => lines'[k] = n)
            BY <2>3 DEF NoteSet
        <3>2. k # Len(lines) + 1
            BY <3>1 DEF BearsAt
        <3>3. k \in 1..Len(lines) /\ lines'[k] = lines[k]
            BY <2>3, <3>2
        <3> QED BY <2>3, <3>3 DEF BearsAt
    <2> QED BY <2>1, <2>2, <2>3
<1>2. SamePicture(current'.d, current.d)
      /\ (SamePicture(view'.cur.d, view.cur.d) \/ SamePicture(view'.cur.d, current'.d))
    BY DEF Shows, SamePicture
<1> QED BY <1>1, <1>2, PicturesKept

LEMMA PictureStart == Init => PictureInv
<1> SUFFICES ASSUME Init
             PROVE  PictureInv
    OBVIOUS
<1>1. PanelInv
    BY PanelStart
<1>2. PICK shown \in Sessions : current.d = Detail(shown, p[shown], m[shown])
    BY PanelAssumption DEF Init
<1>3. view.cur = current /\ lines = <<>> /\ half = None
    BY DEF Init
<1>4. p[shown].v \in Nat /\ m[shown].v \in Nat
    BY <1>1, UpdateGrows DEF PanelInv
<1>5. current.d.id = shown /\ current.d.p.v = p[shown].v /\ current.d.m.v = m[shown].v
    BY <1>2 DEF Detail
<1>6. ScreenIsPast
    BY <1>3, <1>4, <1>5 DEF ScreenIsPast, Past, NotNewer
<1>7. Len(lines) = 0
    BY <1>3
<1> QED BY <1>3, <1>6, <1>7 DEF PictureInv, PipeIsInOrder, HalfIsLatest

LEMMA PictureStep ==
    ASSUME PanelInv, PictureInv, [Next]_vars
    PROVE  PictureInv' /\ NotNewer(view.cur.d, view'.cur.d)
<1>0. /\ Typed /\ WireInv /\ BudgetIsForWhatWasShown /\ EveryoneIsAnswered
      /\ ServerTyped /\ HostTyped /\ ClicksTyped /\ FlowsTyped /\ WiresTyped
    BY DEF PanelInv, Typed, WireInv
<1>1. ServerTyped' /\ HostTyped'
    BY PanelStep DEF PanelInv
<1>2. \A t \in Sessions : p[t].v \in Nat /\ m[t].v \in Nat
    BY <1>0, UpdateGrows
<1>3. UNCHANGED <<p, m>> => TruthGrows
    BY <1>2 DEF TruthGrows
<1>4. view.cur.d.p.v \in Nat /\ view.cur.d.m.v \in Nat
    BY <1>0, PicturesTyped
<1>5. ASSUME NEW i, Moves(i), Shows, UNCHANGED <<p, m, half>>
      PROVE  PictureInv' /\ NotNewer(view.cur.d, view'.cur.d)
    <2>1. SamePicture(current'.d, current.d)
          /\ (SamePicture(view'.cur.d, view.cur.d) \/ SamePicture(view'.cur.d, current'.d))
        BY <1>5 DEF Shows, SamePicture
    <2> QED BY <1>0, <1>1, <1>3, <1>5, <2>1, MovesPictures
<1>6. CASE Serve
    <2>1. PictureInv' /\ view' = view
        BY <1>0, <1>6, ServePictures
    <2> QED BY <1>4, <2>1 DEF NotNewer
<1>7. ASSUME NEW s \in Sessions, Worker(s)
      PROVE  PictureInv' /\ NotNewer(view.cur.d, view'.cur.d)
    <2>1. UNCHANGED <<flows, hostVars>> /\ (Notes \/ Moves(0))
        BY <1>0, <1>7, WorkerNext
    <2>2. TruthGrows /\ half' = half
        BY <1>0, <1>7, WorkerGrows
    <2>3. Shows
        BY <2>1 DEF Shows, hostVars
    <2>4. CASE Notes
        BY <1>0, <1>1, <2>2, <2>3, <2>4, OtherPictures DEF Notes
    <2>5. CASE Moves(0)
        <3>1. SamePicture(current'.d, current.d) /\ SamePicture(view'.cur.d, view.cur.d)
            BY <2>1 DEF SamePicture, hostVars
        <3> QED BY <1>0, <1>1, <2>2, <2>5, <3>1, MovesPictures
    <2> QED BY <2>1, <2>4, <2>5
<1>8. CASE ReadAnswer
    BY <1>0, <1>8, ReadAnswerPictures
<1>9. CASE ReadNotification
    BY <1>0, <1>5, <1>9, ReadNotificationNext, HandlersShow
<1>10. CASE TimerFires
    BY <1>0, <1>5, <1>10, TimerFiresNext, HandlersShow
<1>11. CASE RuntimeCrashes
    <2>1. Gone /\ UNCHANGED <<p, lines, flows, hostVars>>
        BY <1>11 DEF RuntimeCrashes
    <2>2. TruthGrows /\ half' = None
        BY <1>0, <2>1, GoneGrows
    <2>3. Shows
        BY <2>1 DEF Shows, hostVars
    <2> QED BY <1>0, <1>1, <2>1, <2>2, <2>3, OtherPictures
<1>12. Render => view'.cur = current'
    BY DEF Render
<1>13. CASE ClientSeesExit
    <2>1. lines' = <<>> /\ current' = current /\ Render /\ UNCHANGED <<p, m, half, inbox>>
        BY <1>13 DEF ClientSeesExit, serverVars
    <2>2. Shows
        BY <1>12, <2>1 DEF Shows
    <2> QED BY <1>0, <1>1, <1>3, <2>1, <2>2, OtherPictures
<1>14. ASSUME NEW keep, Restart(keep), p' = p
       PROVE  PictureInv' /\ NotNewer(view.cur.d, view'.cur.d)
    <2>1. lines' = <<>> /\ current' = current /\ Render /\ Gone
        BY <1>14 DEF Restart
    <2>2. Shows
        BY <1>12, <2>1 DEF Shows
    <2>3. TruthGrows /\ half' = None
        BY <1>0, <1>14, <2>1, GoneGrows
    <2> QED BY <1>0, <1>1, <2>1, <2>2, <2>3, OtherPictures
<1>15. ASSUME NEW i \in Index, Ensure(i) \/ ModalYes(i) \/ ModalNo(i)
       PROVE  PictureInv' /\ NotNewer(view.cur.d, view'.cur.d)
    <2>1. Moves(i)
        BY <1>0, <1>15, EnsureNext, ModalNext
    <2> QED BY <1>0, <1>5, <1>15, <2>1, HandlersShow
<1>16. CASE HandleMessage
    <2>1. CASE HandleSimple
        BY <1>0, <1>5, <2>1, HandleSimpleNext, HandlersShow
    <2>2. CASE HandleIncrease
        BY <1>0, <1>5, <2>2, HandleIncreaseNext, HandlersShow
    <2>3. CASE HandleImmediate
        BY <1>0, <1>5, <2>3, HandleImmediateNext, HandlersShow
    <2>4. CASE HandleDeliver
        BY <1>0, <1>5, <2>4, HandleDeliverNext, HandlersShow
    <2>5. CASE HandleCreate
        BY <1>0, <1>5, <2>5, HandleCreateNext, HandlersShow
    <2>6. CASE HandleRetry
        BY <1>14, <2>6 DEF HandleRetry, Taking
    <2>7. CASE HandleCredentials
        <3>1. CASE Busy
            <4>1. Refused /\ Quiet /\ UNCHANGED <<exists, p, sessions, timer>>
                BY <2>7, <3>1 DEF HandleCredentials, Taking
            <4>2. Moves(0)
                BY <1>0, <4>1, RefusedNext
            <4> QED BY <1>0, <1>5, <2>7, <3>1, <4>2, HandlersShow
        <3>2. CASE ~Busy
            BY <1>14, <2>7, <3>2 DEF HandleCredentials, Taking
        <3> QED BY <3>1, <3>2
    <2> QED BY <1>16, <2>1, <2>2, <2>3, <2>4, <2>5, <2>6, <2>7 DEF HandleMessage
<1>17. CASE Click
    BY <1>0, <1>5, <1>17, ClickNext, HandlersShow
<1>18. CASE UNCHANGED vars
    <2>1. UNCHANGED <<p, m, half, inbox, lines, flows, current, view>>
        BY <1>18 DEF vars, serverVars, hostVars
    <2>2. Shows
        BY <2>1 DEF Shows
    <2> QED BY <1>0, <1>1, <1>3, <2>1, <2>2, OtherPictures
<1> QED BY <1>6, <1>7, <1>8, <1>9, <1>10, <1>11, <1>13, <1>15, <1>16, <1>17, <1>18 DEF Next

\* However refreshes overlap, and whatever crashes and restarts: as long as the panel shows one
\* session, a later picture of it is never older than an earlier one (extension.js refresh and
\* openSession over rpcClient.js _handleLine and rpc.py's serve loop).
THEOREM PicturesMoveForward == Spec => ViewNeverGoesBack
<1>1. PanelInv /\ PictureInv /\ [Next]_vars =>
          [view'.cur.d.id = view.cur.d.id =>
               view'.cur.d.p.v >= view.cur.d.p.v /\ view'.cur.d.m.v >= view.cur.d.m.v]_vars
    <2> SUFFICES ASSUME PanelInv, PictureInv, [Next]_vars, view'.cur.d.id = view.cur.d.id
                 PROVE  view'.cur.d.p.v >= view.cur.d.p.v /\ view'.cur.d.m.v >= view.cur.d.m.v
        OBVIOUS
    <2>1. NotNewer(view.cur.d, view'.cur.d)
        BY PictureStep
    <2>2. view.cur.d \in Details /\ view'.cur.d \in Details
        BY PanelStep DEF PanelInv, HostTyped, Currents
    <2>3. /\ view.cur.d.p.v \in Nat /\ view.cur.d.m.v \in Nat
          /\ view'.cur.d.p.v \in Nat /\ view'.cur.d.m.v \in Nat
        BY <2>2 DEF Details, Persistent
    <2> QED BY <2>1, <2>3 DEF NotNewer
<1>2. PanelInv /\ PictureInv /\ [Next]_vars => PictureInv'
    BY PictureStep
<1> QED BY <1>1, <1>2, PanelStart, PanelStep, PictureStart, PTL DEF Spec, ViewNeverGoesBack
================================================================================
