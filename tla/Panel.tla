--------------------------------- MODULE Panel ---------------------------------
(***************************************************************************)
(* The chat panel of the VS Code extension (vscode-extension/extension.js, *)
(* rpcClient.js) with the Runtime it drives (codeagent/product/rpc.py,     *)
(* service.py): a webview posts clicks, the extension host runs one        *)
(* asynchronous flow per click or timer, the flows share this.current      *)
(* across their awaits, the RPC server answers one request after the other *)
(* and worker threads write notifications between the answers.             *)
(*                                                                         *)
(* A session is what the panel can tell apart: the persistent part (turn,  *)
(* budget, changes) and the supervisor's memory (job, state, approval),    *)
(* each with a version.  A request id stands for the flow that awaits it.  *)
(* The render of the host and its arrival in the webview are one step: a   *)
(* click on an old picture is a click message that waits.                  *)
(***************************************************************************)
EXTENDS Naturals, Sequences, FiniteSets

CONSTANTS
    Sessions, None,
    Slots,          \* bound: flows of the extension host in flight
    MaxClicks,      \* bound: clicks
    MaxCrashes,     \* bound: exits of the Runtime nobody asked for
    MaxEvents       \* bound: clicks, crashes and steps of the workers together

ASSUME PanelAssumption ==
    /\ Sessions # {} /\ None \notin Sessions
    /\ Slots \in Nat /\ MaxClicks \in Nat /\ MaxCrashes \in Nat /\ MaxEvents \in Nat

VARIABLES
    exists,         \* sessions in the session root
    p, m,           \* persistent and in-memory part of every session
    owes,           \* the notification every worker has still to send, after a change
    server,         \* "none", "up" or "dead" (exit not yet seen by the client)
    inbox, half,    \* requests not yet read; the read half of a session/get
    lines,          \* lines of the Runtime's stdout not yet read
    flows,          \* the flows of the extension host
    current, sessions, timer, runtimeError, told,
    view,           \* what the webview shows
    clicks,         \* messages of the webview not yet handled
    done,           \* history: the last budget increase, and what the user saw
    count           \* history: clicks, worker steps, crashes, new credentials

serverVars == <<exists, p, m, owes, inbox, half>>
hostVars == <<current, sessions, timer, runtimeError, told, view>>
vars == <<serverVars, server, lines, flows, hostVars, clicks, done, count>>

Index == 1..Slots
Events == count.clicks + count.work + count.crashes
Closed == [v |-> 0, turn |-> "closed", id |-> 0, limit |-> 1, changes |-> "none"]
Idle == [v |-> 0, exec |-> "idle", job |-> "none", approval |-> 0, decision |-> "none"]

Flow(op, at, s, arg, seen) == [op |-> op, at |-> at, s |-> s, arg |-> arg, seen |-> seen]
Request(i, method, s, arg) == [i |-> i, method |-> method, s |-> s, arg |-> arg, seen |-> flows[i].seen]
Detail(s, per, mem) == [id |-> s, p |-> per, m |-> [v |-> mem.v, exec |-> mem.exec, approval |-> mem.approval]]
Answer(i, ok, value) == [kind |-> "answer", i |-> i, ok |-> ok, value |-> value]
Note(s, state) == [kind |-> "note", s |-> s, state |-> state]

\* What a click or a flow remembers of the screen, and the flows there can be;
\* None is not one of them.
Seen == [s : Sessions, turn : Nat, limit : Nat]
Flows == [op : {"refresh", "timer", "select", "create", "run", "continue", "increase", "stop", "resolve",
                "accept", "discard"},
          at : {"ensure", "init", "list", "get", "changes", "call", "modal"},
          s : Sessions \cup {None}, arg : {None} \cup [id : Nat, limit : Nat], seen : {None} \cup Seen]

ASSUME FlowsAssumption == None \notin Flows

\* Where the turns of a session may stand: none yet, waiting for a larger budget
\* with changes to review, left open by a Runtime that died, at work, or asking.
Stored(kind) ==
    CASE kind = "new" -> Closed
      [] kind = "waits" -> [Closed EXCEPT !.turn = "waiting", !.changes = "pending"]
      [] kind \in {"left", "works", "asks"} -> [Closed EXCEPT !.turn = "open"]
Supervised(kind) ==
    CASE kind \in {"new", "waits", "left"} -> Idle
      [] kind = "works" -> [Idle EXCEPT !.exec = "running", !.job = "going"]
      [] kind = "asks" -> [Idle EXCEPT !.exec = "awaiting", !.job = "going", !.approval = 1, !.v = 1]

\* The panel is open and has finished a refresh (a notification may have come
\* since); it shows one session, and another one may exist, which is new (a
\* bound) when the one that is shown was left or asks.
Init ==
    \E shown \in {CHOOSE s \in Sessions : TRUE}, kind \in [Sessions -> {"new", "waits", "left", "works", "asks"}] :
    /\ kind[shown] # "works"
    /\ \A s \in Sessions \ {shown} :
         kind[s] \in IF kind[shown] \in {"left", "asks"} THEN {"new"} ELSE {"new", "waits", "works"}
    /\ exists \in {S \in SUBSET Sessions : {shown} \cup {s \in Sessions : kind[s] # "new"} \subseteq S}
    /\ p = [s \in Sessions |-> Stored(kind[s])]
    /\ m = [s \in Sessions |-> Supervised(kind[s])]
    /\ owes = [s \in Sessions |-> "none"] /\ server = "up" /\ inbox = <<>> /\ half = None /\ lines = <<>>
    /\ flows = [i \in Index |-> None]
    /\ current = [d |-> Detail(shown, p[shown], m[shown]), by |-> 1]
    /\ sessions = exists /\ timer \in BOOLEAN /\ runtimeError = FALSE /\ told = FALSE
    /\ view = [cur |-> current, err |-> FALSE, sent |-> FALSE]
    /\ clicks = <<>> /\ done = None
    /\ count = [clicks |-> 0, work |-> 0, crashes |-> 0, rekeyed |-> FALSE]

--------------------------------------------------------------------------------
(* The read model: what a detail offers (read_model.available_actions,     *)
(* ProductApplicationService.get_session, the webview's composer).         *)

CanContinue(d) == d.p.turn = "open" /\ d.m.exec = "idle"
CanIncrease(d) == d.p.turn = "waiting" /\ d.m.exec = "idle"
CanStop(d) == d.m.exec \in {"running", "awaiting"} \/ (d.m.exec = "idle" /\ d.p.turn # "closed")
CanSend(d) == d.m.exec = "idle" /\ d.p.turn = "closed"
CanResolve(d) == d.m.approval # 0
CanDeliver(d) == d.m.exec = "idle" /\ d.p.changes = "pending"

--------------------------------------------------------------------------------
(* The Runtime: JSON-RPC requests, served one at a time                    *)

PUpdate(s, new) == p' = [p EXCEPT ![s] = [new EXCEPT !.v = p[s].v + 1]]
MUpdate(s, new) == m' = [m EXCEPT ![s] = [new EXCEPT !.v = m[s].v + 1]]

\* The response of request r, after the notifications its handler sends.
Respond(r, ok, value, notes) ==
    /\ inbox' = Tail(inbox)
    /\ lines' = lines \o notes \o <<Answer(r.i, ok, value)>>
    /\ half' = None

Serving(method) ==
    /\ server = "up" /\ inbox # <<>> /\ Head(inbox).method = method
    /\ UNCHANGED <<server, flows, hostVars, clicks, count>>

Refuse(r) == Respond(r, FALSE, None, <<>>) /\ UNCHANGED <<exists, p, m, owes, done>>

ServeInitialize ==
    LET r == Head(inbox) IN
    /\ Serving("initialize")
    /\ Respond(r, TRUE, None, <<>>) /\ UNCHANGED <<exists, p, m, owes, done>>

ServeList ==
    LET r == Head(inbox) IN
    /\ Serving("list")
    /\ Respond(r, TRUE, exists, <<>>) /\ UNCHANGED <<exists, p, m, owes, done>>

\* session/get and changes/get read the store first and the supervisor later,
\* under its lock; a worker may step in between.
ServeRead ==
    /\ Serving("get") \/ Serving("changes")
    /\ half = None
    /\ half' = p[Head(inbox).s]
    /\ UNCHANGED <<exists, p, m, owes, inbox, lines, done>>

ServeGet ==
    LET r == Head(inbox) IN
    /\ Serving("get") \/ Serving("changes")
    /\ half # None
    /\ Respond(r, TRUE, Detail(r.s, half, m[r.s]), <<>>)
    /\ UNCHANGED <<exists, p, m, owes, done>>

ServeCreate ==
    LET r == Head(inbox) IN
    /\ Serving("create")
    /\ IF \E s \in Sessions : s \notin exists
       THEN \E s \in Sessions \ exists :
              /\ exists' = exists \cup {s}
              /\ Respond(r, TRUE, Detail(s, p[s], m[s]), <<>>)
              /\ UNCHANGED <<p, m, owes, done>>
       ELSE Refuse(r)

\* ExecutionSupervisor.start: the job is recorded and notified, then its thread runs.
Start(r, job) ==
    /\ MUpdate(r.s, [m[r.s] EXCEPT !.exec = "running", !.job = job])
    /\ Respond(r, TRUE, None, <<Note(r.s, TRUE)>>)
    /\ UNCHANGED <<exists, owes>>

ServeRun ==
    LET r == Head(inbox) IN
    /\ Serving("run")
    /\ IF m[r.s].exec = "idle" /\ p[r.s].turn = "closed"
       THEN Start(r, "starting") /\ UNCHANGED <<p, done>>
       ELSE Refuse(r)

ServeContinue ==
    LET r == Head(inbox) IN
    /\ Serving("continue")
    /\ IF CanContinue(Detail(r.s, p[r.s], m[r.s]))
       THEN Start(r, "going") /\ UNCHANGED <<p, done>>
       ELSE Refuse(r)

\* increase_turn_budget under the supervisor's lock, then the same turn goes on.
ServeIncrease ==
    LET r == Head(inbox) IN
    /\ Serving("increase")
    /\ IF /\ m[r.s].exec = "idle" /\ p[r.s].turn = "waiting"
          /\ r.arg.id = p[r.s].id /\ r.arg.limit = p[r.s].limit
       THEN /\ PUpdate(r.s, [p[r.s] EXCEPT !.turn = "open", !.limit = @ + 1])
            /\ Start(r, "going")
            /\ done' = [s |-> r.s, turn |-> p[r.s].id, limit |-> p[r.s].limit, seen |-> r.seen]
       ELSE Refuse(r)

ServeStop ==
    LET r == Head(inbox) IN
    /\ Serving("stop")
    /\ CASE m[r.s].exec = "idle" /\ p[r.s].turn = "closed" ->
              Respond(r, TRUE, None, <<>>) /\ UNCHANGED <<p, m>>
         [] m[r.s].exec = "idle" /\ p[r.s].turn # "closed" ->
              /\ PUpdate(r.s, [p[r.s] EXCEPT !.turn = "closed"])
              /\ Respond(r, TRUE, None, <<Note(r.s, TRUE)>>) /\ UNCHANGED m
         [] m[r.s].exec # "idle" ->
              /\ MUpdate(r.s, [m[r.s] EXCEPT !.exec = "stopping",
                                             !.decision = IF m[r.s].approval # 0 THEN "deny" ELSE @])
              /\ Respond(r, TRUE, None, <<Note(r.s, TRUE)>>) /\ UNCHANGED p
    /\ UNCHANGED <<exists, owes, done>>

ServeResolve ==
    LET r == Head(inbox) IN
    /\ Serving("resolve")
    /\ IF m[r.s].approval = r.arg.approval /\ m[r.s].exec # "stopping"
       THEN /\ m' = [m EXCEPT ![r.s].decision = IF r.arg.allow THEN "allow" ELSE "deny"]
            /\ Respond(r, TRUE, None, <<>>)
            /\ UNCHANGED <<exists, p, owes, done>>
       ELSE Refuse(r)

\* changes/accept and changes/discard; module Delivery has what they do inside.
ServeDeliver ==
    LET r == Head(inbox) IN
    /\ Serving("accept") \/ Serving("discard")
    /\ IF CanDeliver(Detail(r.s, p[r.s], m[r.s]))
       THEN /\ PUpdate(r.s, [p[r.s] EXCEPT !.changes = IF r.method = "accept" THEN "applied" ELSE "none"])
            /\ Respond(r, TRUE, None, <<>>)
            /\ UNCHANGED <<exists, m, owes, done>>
       ELSE Refuse(r)

Serve == \/ ServeInitialize \/ ServeList \/ ServeRead \/ ServeGet \/ ServeCreate \/ ServeRun
         \/ ServeContinue \/ ServeIncrease \/ ServeStop \/ ServeResolve \/ ServeDeliver

--------------------------------------------------------------------------------
(* The worker thread of a session (module Execution has it in detail).     *)
(* Every change of state is followed by its notification, in a later step. *)

Working(s) ==
    /\ server = "up" /\ owes[s] = "none" /\ m[s].exec # "idle" /\ Events < MaxEvents
    /\ count' = [count EXCEPT !.work = @ + 1]
    /\ UNCHANGED <<exists, server, inbox, half, lines, flows, hostVars, clicks, done>>

WorkBegin(s) ==
    /\ Working(s) /\ m[s].job = "starting"
    /\ PUpdate(s, [p[s] EXCEPT !.turn = "open", !.id = p[s].v + 1, !.limit = 1])
    /\ m' = [m EXCEPT ![s].job = "going"] /\ owes' = [owes EXCEPT ![s] = "event"]

WorkEdit(s) ==
    /\ Working(s) /\ m[s].job = "going" /\ m[s].exec = "running" /\ p[s].changes # "pending"
    /\ PUpdate(s, [p[s] EXCEPT !.changes = "pending"])
    /\ owes' = [owes EXCEPT ![s] = "event"] /\ UNCHANGED m

\* await_approval: asks, and later takes the decision (a stop is a refusal).
WorkAsk(s) ==
    /\ Working(s) /\ m[s].job = "going" /\ m[s].exec = "running"
    /\ MUpdate(s, [m[s] EXCEPT !.exec = "awaiting", !.approval = m[s].v + 1])
    /\ owes' = [owes EXCEPT ![s] = "state"] /\ UNCHANGED p

\* Not bounded: a decision that was taken is consumed, a job that ended leaves.
Finishing(s) ==
    /\ server = "up" /\ owes[s] = "none"
    /\ UNCHANGED <<exists, server, inbox, half, lines, flows, hostVars, clicks, done, count>>

WorkDecided(s) ==
    /\ Finishing(s) /\ m[s].approval # 0 /\ m[s].decision # "none" /\ UNCHANGED p
    /\ MUpdate(s, [m[s] EXCEPT !.exec = IF @ = "stopping" THEN @ ELSE "running",
                               !.approval = 0, !.decision = "none"])
    /\ owes' = [owes EXCEPT ![s] = "state"]

\* The last event of the turn, or of the slice that exhausts its budget.
WorkClose(s) ==
    /\ Working(s) /\ m[s].job = "going" /\ m[s].approval = 0
    /\ \E turn \in IF m[s].exec = "stopping" THEN {"closed"} ELSE {"closed", "waiting"} :
         PUpdate(s, [p[s] EXCEPT !.turn = turn])
    /\ m' = [m EXCEPT ![s].job = "ended"] /\ UNCHANGED owes

\* The finally block of _run: a stop closes the turn, the record is removed.
WorkLeave(s) ==
    /\ Finishing(s) /\ m[s].job = "ended"
    /\ IF m[s].exec = "stopping" /\ p[s].turn # "closed"
       THEN PUpdate(s, [p[s] EXCEPT !.turn = "closed"]) ELSE UNCHANGED p
    /\ MUpdate(s, Idle)
    /\ owes' = [owes EXCEPT ![s] = "state"]

\* The notifications of one change (events, state, approval) only restart one
\* timer in the client: they are one line.
Notify(s) ==
    /\ server = "up" /\ owes[s] # "none"
    /\ owes' = [owes EXCEPT ![s] = "none"]
    /\ lines' = Append(lines, Note(s, owes[s] = "state"))
    /\ UNCHANGED <<exists, p, m, server, inbox, half, flows, hostVars, clicks, done, count>>

Worker(s) == WorkBegin(s) \/ WorkEdit(s) \/ WorkAsk(s) \/ WorkDecided(s)
             \/ WorkClose(s) \/ WorkLeave(s) \/ Notify(s)

--------------------------------------------------------------------------------
(* The extension host: RpcClient, RuntimeConnection, ChatViewProvider      *)

Render == view' = [cur |-> current', err |-> runtimeError', sent |-> FALSE]

Waiting(f) == f # None /\ f.at \in {"init", "list", "get", "changes", "call"}
Free == {i \in Index : flows[i] = None}
FirstFree == CHOOSE i \in Free : \A j \in Free : i <= j

\* A flow ends; the catch of _handleMessage and of the timer tell the user.
End(i) == flows' = [flows EXCEPT ![i] = None]

\* request(): written to the Runtime's stdin and awaited; the process may have
\* exited unnoticed, then the line goes nowhere.
Send(i, f, at, method, s, arg) ==
    /\ flows' = [flows EXCEPT ![i] = [f EXCEPT !.at = at]]
    /\ inbox' = IF server = "up" THEN Append(inbox, Request(i, method, s, arg)) ELSE inbox

\* What a flow sends once the Runtime is there: this.current is read now.
Call(i, f) ==
    CASE f.op \in {"refresh", "timer"} -> Send(i, f, "list", "list", None, None)
      [] f.op = "select" -> Send(i, f, "get", "get", f.s, None)
      [] f.op = "create" -> Send(i, f, "call", "create", None, None)
      [] f.op = "increase" -> Send(i, f, "call", "increase", f.s, f.arg)
      [] f.op \in {"run", "continue"} -> Send(i, f, "call", f.op, current.d.id, None)

\* ensure(): a live process is used, a missing one is spawned and initialized.
Ensure(i) ==
    /\ flows[i] # None /\ flows[i].at = "ensure"
    /\ IF server # "none"
       THEN /\ Call(i, flows[i])
            /\ runtimeError' = IF flows[i].op \in {"refresh", "timer"} THEN FALSE ELSE runtimeError
            /\ UNCHANGED server
       ELSE /\ server' = "up"
            /\ inbox' = <<Request(i, "initialize", None, None)>>
            /\ flows' = [flows EXCEPT ![i].at = "init"]
            /\ UNCHANGED runtimeError
    /\ UNCHANGED <<exists, p, m, owes, half, lines, current, sessions, timer, told, view,
                   clicks, done, count>>

\* await this.refresh() at the end of a handler.
ThenRefresh(f) == [f EXCEPT !.op = "refresh", !.at = "ensure"]

\* refresh and openSession after the session/get: the snapshot becomes
\* this.current, then the changes are fetched, then the panel is rendered.
GotDetail(i, d) ==
    /\ current' = [d |-> d, by |-> i]
    /\ IF d.p.changes # "none"
       THEN Send(i, flows[i], "changes", "changes", d.id, None) /\ UNCHANGED <<told, view>>
       ELSE /\ End(i) /\ Render /\ UNCHANGED inbox
            /\ told' = IF flows[i].op = "select" THEN told ELSE FALSE

\* The changes go into the object the flow fetched, shown or not.
GotChanges(i, d) ==
    /\ current' = IF current.by = i THEN [current EXCEPT !.d.p.changes = d.p.changes] ELSE current
    /\ End(i) /\ Render /\ UNCHANGED inbox
    /\ told' = IF flows[i].op = "select" THEN told ELSE FALSE

Fail(i) ==
    /\ End(i) /\ told' = TRUE
    /\ UNCHANGED <<current, inbox>>
    /\ IF flows[i].op = "timer" THEN UNCHANGED view ELSE Render

\* _handleLine, an answer: the awaiting flow goes on.
ReadAnswer ==
    LET a == Head(lines)
        f == flows[a.i]
    IN
    /\ lines # <<>> /\ Head(lines).kind = "answer"
    /\ lines' = Tail(lines)
    /\ sessions' = IF f.at = "list" THEN a.value ELSE sessions
    /\ runtimeError' = IF a.ok /\ (f.at = "init" \/ f.at = "list") THEN FALSE ELSE runtimeError
    /\ CASE ~a.ok -> Fail(a.i)
         [] a.ok /\ f.at = "init" -> Call(a.i, f) /\ UNCHANGED <<current, told>> /\ Render
         [] a.ok /\ f.at = "list" ->
              /\ \E s \in {current.d.id} \cap a.value :
                   Send(a.i, f, "get", "get", s, None)
              /\ UNCHANGED <<current, told, view>>
         [] a.ok /\ f.at = "get" -> GotDetail(a.i, a.value)
         [] a.ok /\ f.at = "changes" -> GotChanges(a.i, a.value)
         [] a.ok /\ f.at = "call" ->
              /\ flows' = [flows EXCEPT ![a.i] = ThenRefresh(f)]
              /\ current' = IF f.op = "create" THEN [d |-> a.value, by |-> a.i] ELSE current
              /\ UNCHANGED <<inbox, told, view>>
    /\ UNCHANGED <<exists, p, m, owes, half, server, timer, clicks, done, count>>

\* Mutant: a refresh that is under way makes another one unnecessary.
MutHandleNotification(n) ==
    timer' = (timer \/ \A i \in Index : ~Waiting(flows[i]))

\* handleNotification: an event of a session that is not shown is ignored,
\* anything else restarts the refresh timer.
HandleNotification(n) ==
    timer' = (timer \/ n.s = current.d.id \/ n.state)

ReadNotification ==
    /\ lines # <<>> /\ Head(lines).kind = "note"
    /\ lines' = Tail(lines)
    /\ HandleNotification(Head(lines))
    /\ UNCHANGED <<serverVars, server, flows, current, sessions, runtimeError, told, view,
                   clicks, done, count>>

\* 80 ms after the last notification.
TimerFires ==
    /\ timer /\ Free # {}
    /\ timer' = FALSE
    /\ flows' = [flows EXCEPT ![FirstFree] = Flow("timer", "ensure", None, None, None)]
    /\ UNCHANGED <<serverVars, server, lines, current, sessions, runtimeError, told, view,
                   clicks, done, count>>

\* _rejectPending: every awaited request fails; their flows end in an error.
RejectPending(keep) ==
    /\ flows' = [i \in Index |-> IF Waiting(flows[i]) THEN None ELSE keep[i]]
    /\ told' = (told \/ \E i \in Index : Waiting(flows[i]))

\* The process is gone, and with it the supervisor's memory.
Gone ==
    /\ m' = [s \in Sessions |-> IF m[s].exec = "idle" THEN m[s] ELSE [Idle EXCEPT !.v = m[s].v + 1]]
    /\ owes' = [s \in Sessions |-> "none"]
    /\ inbox' = <<>> /\ half' = None

RuntimeCrashes ==
    /\ server = "up" /\ count.crashes < MaxCrashes /\ Events < MaxEvents
    /\ count' = [count EXCEPT !.crashes = @ + 1]
    /\ server' = "dead" /\ Gone
    /\ UNCHANGED <<exists, p, lines, flows, hostVars, clicks, done>>

\* _close: the exit of the child reaches the client.
ClientSeesExit ==
    /\ server = "dead"
    /\ server' = "none" /\ lines' = <<>>
    /\ RejectPending(flows)
    /\ runtimeError' = TRUE /\ current' = current /\ Render
    /\ UNCHANGED <<serverVars, sessions, timer, clicks, done, count>>

\* RuntimeConnection.restart: dispose kills the child and drops the client.
Restart(keep) ==
    /\ server' = "none" /\ lines' = <<>> /\ Gone
    /\ RejectPending(keep)
    /\ current' = current /\ runtimeError' = runtimeError /\ Render

--------------------------------------------------------------------------------
(* Messages of the webview                                                 *)

Taking(type) ==
    /\ clicks # <<>> /\ Head(clicks).type = type /\ Free # {}
    /\ clicks' = Tail(clicks)
    /\ UNCHANGED <<exists, p, sessions, timer, done>>
    /\ count' = [count EXCEPT !.rekeyed = @ \/ type = "credentials"]

Quiet == UNCHANGED <<m, owes, half, server, lines, runtimeError>>

\* The handler threw before its first await.
Refused == told' = TRUE /\ flows' = flows /\ current' = current /\ Render /\ UNCHANGED inbox

NewFlow(f) == flows' = [flows EXCEPT ![FirstFree] = f]

HandleSimple ==
    LET c == Head(clicks) IN
    /\ \E type \in {"refresh", "select", "run", "continue"} :
         /\ Taking(type)
         /\ NewFlow(Flow(type, "ensure", c.s, None, c.seen))
    /\ Quiet /\ UNCHANGED <<current, told, view, inbox>>

\* Mutant: the request of the click is not compared with the current one.
MutStillShown(c) == CanIncrease(current.d)

\* increaseBudget: the click names session, turn and limit it was made for.
StillShown(c) ==
    /\ CanIncrease(current.d) /\ c.s = current.d.id
    /\ c.seen.turn = current.d.p.id /\ c.seen.limit = current.d.p.limit

HandleIncrease ==
    LET c == Head(clicks) IN
    /\ Taking("increase") /\ Quiet
    /\ IF StillShown(c)
       THEN /\ NewFlow(Flow("increase", "modal", current.d.id,
                            [id |-> current.d.p.id, limit |-> current.d.p.limit], c.seen))
            /\ UNCHANGED <<current, told, view, inbox>>
       ELSE Refused

\* stop and resolveApproval: sent at once, for what this.current is now.
HandleImmediate ==
    LET c == Head(clicks)
        i == FirstFree
        arg == [approval |-> current.d.m.approval, allow |-> c.s]
    IN
    /\ Quiet
    /\ \E type \in {"stop", "resolve"} :
         /\ Taking(type)
         /\ CASE type = "resolve" /\ current.d.m.approval = 0 -> UNCHANGED <<flows, inbox, told, current, view>>
              [] (type = "stop" \/ current.d.m.approval # 0) /\ server = "none" -> Refused
              [] (type = "stop" \/ current.d.m.approval # 0) /\ server # "none" ->
                   /\ NewFlow(Flow(type, "call", None, None, c.seen))
                   /\ inbox' = IF server = "up"
                               THEN Append(inbox, [i |-> i, method |-> type, s |-> current.d.id,
                                                   arg |-> IF type = "stop" THEN None ELSE arg, seen |-> c.seen])
                               ELSE inbox
                   /\ UNCHANGED <<current, told, view>>

\* acceptChanges and discardChanges ask in a modal dialog first.
HandleDeliver ==
    LET c == Head(clicks) IN
    /\ \E type \in {"accept", "discard"} :
         Taking(type) /\ NewFlow(Flow(type, "modal", None, None, c.seen))
    /\ Quiet /\ UNCHANGED <<current, told, view, inbox>>

Busy == current.d.m.exec # "idle"

HandleCreate ==
    LET c == Head(clicks) IN
    /\ Taking("create") /\ Quiet
    /\ IF Busy THEN Refused
       ELSE NewFlow(Flow("create", "ensure", None, None, c.seen)) /\ UNCHANGED <<current, told, view, inbox>>

HandleRetry ==
    /\ Taking("retry")
    /\ Restart([flows EXCEPT ![FirstFree] = Flow("refresh", "ensure", None, None, None)])

\* saveSettings with a key, and clearApiKey.
HandleCredentials ==
    /\ Taking("credentials")
    /\ IF Busy THEN Quiet /\ Refused ELSE Restart(flows)

HandleMessage == HandleSimple \/ HandleIncrease \/ HandleImmediate \/ HandleDeliver
                 \/ HandleCreate \/ HandleRetry \/ HandleCredentials

\* The user answers the dialog; Accept and Discard then read this.current.
ModalYes(i) ==
    LET f == flows[i] IN
    /\ f # None /\ f.at = "modal" /\ runtimeError' = runtimeError
    /\ CASE f.op = "increase" -> flows' = [flows EXCEPT ![i].at = "ensure"] /\ UNCHANGED <<inbox, current, told, view>>
         [] f.op # "increase" /\ server = "none" -> Fail(i)
         [] f.op # "increase" /\ server # "none" ->
              Send(i, f, "call", f.op, current.d.id, None) /\ UNCHANGED <<current, told, view>>
    /\ UNCHANGED <<exists, p, m, owes, half, server, lines, sessions, timer, clicks, done, count>>

ModalNo(i) ==
    /\ flows[i] # None /\ flows[i].at = "modal"
    /\ End(i)
    /\ UNCHANGED <<serverVars, server, lines, hostVars, clicks, done, count>>

\* What the webview lets the user click, on what it shows.
Offered(d) ==
    {[type |-> "select", s |-> s] : s \in sessions \ {d.id}}
    \cup {[type |-> t, s |-> None] : t \in {"create", "refresh", "credentials"}}
    \cup (IF view.err THEN {[type |-> "retry", s |-> None]} ELSE {})
    \cup {[type |-> t, s |-> d.id] :
             t \in (IF CanSend(d) /\ ~view.err /\ ~view.sent THEN {"run"} ELSE {})
                   \cup (IF CanContinue(d) THEN {"continue"} ELSE {})
                   \cup (IF CanIncrease(d) THEN {"increase"} ELSE {})
                   \cup (IF CanStop(d) THEN {"stop"} ELSE {})
                   \cup (IF CanDeliver(d) THEN {"accept", "discard"} ELSE {})}
    \cup {[type |-> "resolve", s |-> allow] : allow \in (IF CanResolve(d) THEN BOOLEAN ELSE {})}

Click ==
    /\ count.clicks < MaxClicks /\ Events < MaxEvents
    /\ LET d == view.cur.d IN
       \E c \in Offered(d) :
         /\ clicks' = Append(clicks, [type |-> c.type, s |-> c.s, seen |->
              IF c.type = "increase" THEN [s |-> d.id, turn |-> d.p.id, limit |-> d.p.limit] ELSE None])
         /\ view' = [view EXCEPT !.sent = @ \/ c.type = "run"]
    /\ count' = [count EXCEPT !.clicks = @ + 1]
    /\ UNCHANGED <<serverVars, server, lines, flows, current, sessions, timer, runtimeError, told, done>>

Next ==
    \/ Serve \/ \E s \in Sessions : Worker(s)
    \/ ReadAnswer \/ ReadNotification \/ TimerFires
    \/ RuntimeCrashes \/ ClientSeesExit
    \/ \E i \in Index : Ensure(i) \/ ModalYes(i) \/ ModalNo(i)
    \/ HandleMessage \/ Click

\* The server loop, the end of a job and its notifications, the event loop of
\* the host and its timers always go on; users, agents and crashes need not.
Fairness ==
    /\ WF_vars(Serve) /\ WF_vars(\E s \in Sessions : Notify(s) \/ WorkLeave(s) \/ WorkDecided(s))
    /\ WF_vars(ReadAnswer \/ ReadNotification) /\ WF_vars(TimerFires) /\ WF_vars(ClientSeesExit)
    /\ WF_vars(\E i \in Index : Ensure(i)) /\ WF_vars(HandleMessage)

Spec == Init /\ [][Next]_vars /\ Fairness

--------------------------------------------------------------------------------
(* Properties                                                              *)

TypeOK ==
    /\ exists \subseteq Sessions /\ sessions \subseteq Sessions
    /\ server \in {"none", "up", "dead"} /\ timer \in BOOLEAN /\ told \in BOOLEAN
    /\ \A s \in Sessions : p[s].turn \in {"closed", "open", "waiting"}
                           /\ m[s].exec \in {"idle", "running", "awaiting", "stopping"}
    /\ \A i \in Index : flows[i] # None =>
         flows[i].at \in {"ensure", "init", "list", "get", "changes", "call", "modal"}
    /\ \A k \in 1..Len(inbox) : inbox[k].i \in Index

\* No flow of the panel waits for an answer that cannot come: the Runtime has
\* its request, or has answered, or its exit is still to be seen (rpcClient.js
\* request, _handleLine and _close).
EveryRequestSettles ==
    \A i \in Index : Waiting(flows[i]) =>
        \/ server = "dead"
        \/ server = "up" /\ (\/ \E k \in 1..Len(inbox) : inbox[k].i = i
                             \/ \E k \in 1..Len(lines) : lines[k].kind = "answer" /\ lines[k].i = i)

\* A budget is increased only for the session, the turn and the limit that the
\* user saw when clicking, whatever happened during the input box and the
\* awaits (extension.js increaseBudget, turn_budget.increase_turn_budget).
BudgetIsForWhatWasShown ==
    done # None => [s |-> done.s, turn |-> done.turn, limit |-> done.limit] = done.seen

\* As long as the panel shows one session, a later picture of it is never
\* older than an earlier one, however refreshes overlap.
ViewNeverGoesBack ==
    [][view'.cur.d.id = view.cur.d.id =>
         view'.cur.d.p.v >= view.cur.d.p.v /\ view'.cur.d.m.v >= view.cur.d.m.v]_vars

\* Once the agents rest, the panel shows the state of the session, or the user
\* has been told that something failed: no notification is lost in a refresh
\* that is under way and no torn read stays on the screen.  Only the events of
\* a job that still runs may be missing (handleNotification ignores those of a
\* session whose session/get is on its way), never its end.  New credentials
\* restart the Runtime without a refresh, so they void the promise.
ViewCatchesUp ==
    <>[](\/ view.err \/ told \/ count.rekeyed
         \/ LET d == view.cur.d
                truth == Detail(d.id, p[d.id], m[d.id])
            IN  d.m = truth.m /\ (truth.m.exec = "idle" => d.p = truth.p))

\* Flows that overlap across their awaits neither get stuck on an exit of the
\* Runtime nor act on something the user did not see.
PanelFlowsAreSafe == TypeOK /\ EveryRequestSettles /\ BudgetIsForWhatWasShown

\* The picture of a session only moves forward, and gets to its latest state
\* (refresh, openSession, handleNotification).
PanelStaysCurrent == ViewNeverGoesBack /\ ViewCatchesUp
================================================================================
