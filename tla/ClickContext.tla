------------------------------ MODULE ClickContext ------------------------------
(***************************************************************************)
(* Contexts of the click fixture while a command line runs                 *)
(* (examples/eval-repos/click/src/click/core.py): main, make_context,      *)
(* Command.invoke, Group.invoke and the context manager protocol that      *)
(* closes resources and maintains the stack of current contexts.           *)
(*                                                                         *)
(* The code that is still to run is a sequence of instructions: a `with`   *)
(* block is an "enter", its body and a "leave".  An exception drops the    *)
(* instructions up to the end of the innermost block, which runs with it.  *)
(* Parsing and callbacks are user code: they open resources, return,       *)
(* raise, exit, or invoke another command.                                 *)
(***************************************************************************)
EXTENDS Naturals, FiniteSets, Sequences

CONSTANTS
    Programs,      \* Applications and command lines, see ProgramOK
    Closings,      \* How a resource closes: subset of {"plain", "suppresses", "fails"}
    MaxContexts,   \* Bound: contexts
    MaxResources   \* Bound: resources that are opened

VARIABLES
    program,    \* The application and its command line
    code,       \* Instructions still to run
    raised,     \* The exception on its way: "none", "usage", "exit", "error"
    contexts,   \* Every context made so far
    stack,      \* push_context and pop_context: the current context is the last
    opened,     \* Resources: the context each is registered with, and how it closes
    closed,     \* Resources that have been closed, in order
    misused,    \* Ghost: a callback ran although a resource in its reach had been closed
    failed      \* Ghost: closing a resource raised at the end of a block

contextVars == <<program, code, raised, contexts, stack, opened, closed, misused, failed>>

Instruction(op, c) == [op |-> op, ctx |-> c]
ProgramOK(p) == /\ p.kind \in {"command", "group", "chain"} /\ p.subcommands \in 0..2
                /\ p.kind = "command" => p.subcommands = 0
                /\ p.standalone \in BOOLEAN /\ p.without \in BOOLEAN /\ p.resultCallback \in BOOLEAN

ASSUME ProgramsAreProper == \A p \in Programs : ProgramOK(p)

Root == 1

\* Context.__init__: what a context is not given it takes from its parent, such as the object of the
\* application and the settings.
NewContext(parent, invoked) ==
    [parent |-> parent, invoked |-> invoked, depth |-> 0, resources |-> <<>>, entered |-> FALSE, made |-> <<>>, left |-> 0,
     returned |-> FALSE, exited |-> FALSE, obj |-> IF parent = 0 THEN 0 ELSE contexts[parent].obj]

RECURSIVE Reach(_)
Reach(c) == IF c = 0 THEN {} ELSE {c} \cup Reach(contexts[c].parent)

(***************************************************************************)
(* Blocks.                                                                 *)
(***************************************************************************)

\* Mutant: the context is entered as any other
MutMaking(c) == <<Instruction("enter", c), Instruction("parse", c), Instruction("leave", c)>>

\* make_context: parsing runs in scope(cleanup=False), entered one deeper, so that leaving it closes
\* nothing.
Making(c) == <<Instruction("scope", c), Instruction("parse", c), Instruction("unscope", c)>>

\* Context.invoke with a function: the context is entered around the call.
Calling(op, c) == <<Instruction("enter", c), Instruction(op, c), Instruction("leave", c)>>

\* _process_result
ProcessResult(c) == IF program.resultCallback THEN Calling("result", c) ELSE <<>>

(***************************************************************************)
(* Running.                                                                *)
(***************************************************************************)

\* main: in standalone mode the application ends by leaving through exit.
MainCode == Making(Root) \o <<Instruction("enter", Root), Instruction("invoke", Root)>>
            \o (IF program.standalone THEN <<Instruction("exit", Root)>> ELSE <<>>) \o <<Instruction("leave", Root)>>

ContextInit ==
    /\ program \in Programs
    /\ contexts = <<[NewContext(0, FALSE) EXCEPT !.left = program.subcommands]>>
    /\ code = MainCode
    /\ raised = "none" /\ stack = <<>> /\ opened = <<>> /\ closed = <<>> /\ misused = FALSE /\ failed = FALSE

Next1(op) == code # <<>> /\ raised = "none" /\ code[1].op = op
Current == code[1].ctx

\* __enter__
EnterContext ==
    /\ Next1("enter")
    /\ contexts' = [contexts EXCEPT ![Current].depth = @ + 1, ![Current].entered = TRUE]
    /\ stack' = Append(stack, Current)
    /\ code' = Tail(code)
    /\ UNCHANGED <<program, raised, opened, closed, misused, failed>>

Scope ==
    /\ Next1("scope")
    /\ contexts' = [contexts EXCEPT ![Current].depth = @ + 2]
    /\ stack' = Append(stack, Current)
    /\ code' = Tail(code)
    /\ UNCHANGED <<program, raised, opened, closed, misused, failed>>

\* An exception drops what is left of the innermost block, whole blocks inside it included.
IsEnd(i) == i.op \in {"leave", "unscope"}
IsBegin(i) == i.op \in {"enter", "scope"}
EndsHere(i) == /\ IsEnd(code[i])
               /\ Cardinality({j \in 1..i : IsEnd(code[j])}) > Cardinality({j \in 1..i : IsBegin(code[j])})
Unwind ==
    /\ raised # "none" /\ code # <<>> /\ ~IsEnd(code[1])
    /\ LET ends == {i \in DOMAIN code : EndsHere(i)}
       IN  code' = IF ends = {} THEN <<>> ELSE SubSeq(code, CHOOSE i \in ends : \A j \in ends : i <= j, Len(code))
    /\ UNCHANGED <<program, raised, contexts, stack, opened, closed, misused, failed>>

Unscope ==
    /\ code # <<>> /\ code[1].op = "unscope"
    /\ contexts' = [contexts EXCEPT ![Current].depth = @ - 2]
    /\ stack' = SubSeq(stack, 1, Len(stack) - 1)
    /\ code' = Tail(code)
    /\ UNCHANGED <<program, raised, opened, closed, misused, failed>>

\* The exit stack closes what was opened last first, and every one of them: one that fails raises
\* its own exception, one that suppresses ends the exception that has reached it.
RECURSIVE ExitStack(_, _)
ExitStack(rs, exc) ==
    IF rs = <<>> THEN exc
    ELSE LET how == opened[rs[Len(rs)]].closing
         IN  ExitStack(SubSeq(rs, 1, Len(rs) - 1), CASE how = "fails" -> "error"
                                                    [] how = "suppresses" -> "none"
                                                    [] OTHER -> exc)

Reversed(rs) == [i \in DOMAIN rs |-> rs[Len(rs) - i + 1]]
SomeFails(rs) == \E i \in DOMAIN rs : opened[rs[i]].closing = "fails"

ClosesAt(depth) == depth = 0

\* __exit__: the outermost block closes the resources.  One that raises keeps the context on the
\* stack, because the call that takes it off comes behind.
Leave ==
    /\ code # <<>> /\ code[1].op = "leave"
    /\ LET c == Current
           depth == contexts[c].depth - 1
           rs == IF ClosesAt(depth) THEN contexts[c].resources ELSE <<>>
           exc == ExitStack(rs, raised)
           raises == exc = "error" /\ SomeFails(rs)
       IN  /\ contexts' = [contexts EXCEPT ![c].depth = depth, ![c].resources = IF ClosesAt(depth) THEN <<>> ELSE @]
           /\ closed' = closed \o Reversed(rs)
           /\ raised' = exc
           /\ stack' = IF raises THEN stack ELSE SubSeq(stack, 1, Len(stack) - 1)
           /\ failed' = (failed \/ raises)
    /\ code' = Tail(code)
    /\ UNCHANGED <<program, opened, misused>>

\* ctx.exit: the resources of this context are closed at once.
ExitFrom(c, early) ==
    LET rs == contexts[c].resources
        exc == ExitStack(rs, "none")
    IN  /\ contexts' = [contexts EXCEPT ![c].resources = <<>>, ![c].exited = early]
        /\ closed' = closed \o Reversed(rs)
        /\ raised' = IF exc = "none" THEN "exit" ELSE exc
        /\ code' = Tail(code)
        /\ UNCHANGED <<program, stack, opened, misused, failed>>

MainExits == Next1("exit") /\ ExitFrom(Current, FALSE)

(***************************************************************************)
(* Commands and groups.                                                    *)
(***************************************************************************)

\* Group.invoke of a group that runs several commands, or none: the command itself, the contexts of
\* all of them, then each of them.
ChainCode(c) == <<Instruction("enter", c)>> \o Calling("callback", c)
                \o <<Instruction("make_all", c), Instruction("run_all", c), Instruction("leave", c)>>

\* Group.invoke of a group that runs one command.  The block is the body of an `if` that only its
\* `return` leaves: "after" is what follows it.
GroupCode(c) == <<Instruction("enter", c), Instruction("resolve", c)>> \o Calling("callback", c)
                \o <<Instruction("make", c), Instruction("leave", c), Instruction("after", c)>>

Invoke ==
    /\ Next1("invoke")
    /\ LET c == Current
           group == c = Root /\ program.kind # "command"
           missing == group /\ contexts[c].left = 0 /\ ~program.without
       IN  /\ raised' = IF missing THEN "usage" ELSE "none"
           /\ code' = (CASE ~group -> Calling("callback", c)
                         [] missing -> <<>>
                         [] group /\ contexts[c].left = 0 ->
                              <<Instruction("enter", c)>> \o Calling("callback", c) \o ProcessResult(c) \o <<Instruction("leave", c)>>
                         [] program.kind = "chain" -> ChainCode(c)
                         [] OTHER -> GroupCode(c)) \o Tail(code)
    /\ UNCHANGED <<program, contexts, stack, opened, closed, misused, failed>>

\* resolve_command finds the command, or refuses its name.
Resolve(found) ==
    /\ Next1("resolve")
    /\ raised' = IF found THEN "none" ELSE "usage"
    /\ code' = Tail(code)
    /\ UNCHANGED <<program, contexts, stack, opened, closed, misused, failed>>

\* make_context of the one command, which is entered and invoked; its result is processed inside
\* its block, and then the function returns.
Make ==
    /\ Next1("make") /\ Len(contexts) < MaxContexts
    /\ LET c == Current
           n == Len(contexts) + 1
       IN  /\ contexts' = Append([contexts EXCEPT ![c].left = @ - 1], NewContext(c, FALSE))
           /\ code' = Making(n) \o <<Instruction("enter", n), Instruction("invoke", n)>> \o ProcessResult(c)
                      \o <<Instruction("return", c), Instruction("leave", n)>> \o Tail(code)
    /\ UNCHANGED <<program, raised, stack, opened, closed, misused, failed>>

Return ==
    /\ Next1("return")
    /\ contexts' = [contexts EXCEPT ![Current].returned = TRUE]
    /\ code' = Tail(code)
    /\ UNCHANGED <<program, raised, stack, opened, closed, misused, failed>>

\* Behind the block of a group that runs one command: an exception that a resource of the command
\* has suppressed leads here, to the code of the other mode.
After ==
    /\ Next1("after")
    /\ code' = (IF contexts[Current].returned THEN <<>> ELSE ChainCode(Current)) \o Tail(code)
    /\ UNCHANGED <<program, raised, contexts, stack, opened, closed, misused, failed>>

\* The contexts of all the commands of a chain are made before any of them is entered.
MakeNext(found) ==
    /\ Next1("make_all") /\ contexts[Current].left > 0 /\ Len(contexts) < MaxContexts
    /\ LET c == Current
           n == Len(contexts) + 1
       IN  IF found
           THEN /\ contexts' = Append([contexts EXCEPT ![c].left = @ - 1, ![c].made = Append(@, n)], NewContext(c, FALSE))
                /\ code' = Making(n) \o code
                /\ UNCHANGED raised
           ELSE raised' = "usage" /\ code' = Tail(code) /\ UNCHANGED contexts
    /\ UNCHANGED <<program, stack, opened, closed, misused, failed>>
AllMade ==
    /\ Next1("make_all") /\ contexts[Current].left = 0
    /\ code' = Tail(code)
    /\ UNCHANGED <<program, raised, contexts, stack, opened, closed, misused, failed>>

\* Each command of a chain is closed before the next one runs, and the result is processed last.
RECURSIVE RunEach(_, _)
RunEach(c, ms) == IF ms = <<>> THEN ProcessResult(c)
                  ELSE <<Instruction("enter", ms[1]), Instruction("invoke", ms[1]), Instruction("leave", ms[1])>>
                       \o RunEach(c, Tail(ms))
RunAll ==
    /\ Next1("run_all")
    /\ code' = RunEach(Current, contexts[Current].made) \o Tail(code)
    /\ contexts' = [contexts EXCEPT ![Current].made = <<>>]
    /\ UNCHANGED <<program, raised, stack, opened, closed, misused, failed>>

(***************************************************************************)
(* User code.                                                              *)
(***************************************************************************)

UserCode == code # <<>> /\ raised = "none" /\ code[1].op \in {"parse", "callback", "result"}

\* with_resource, call_on_close
WithResource(how) ==
    /\ UserCode /\ Len(opened) < MaxResources
    /\ opened' = Append(opened, [ctx |-> Current, closing |-> how])
    /\ contexts' = [contexts EXCEPT ![Current].resources = Append(@, Len(opened) + 1)]
    /\ UNCHANGED <<program, code, raised, stack, closed, misused, failed>>

InReach(c) == \E i \in DOMAIN closed : LET o == opened[closed[i]].ctx IN o \in Reach(c) /\ ~contexts[o].exited

\* Parsing ends, or a callback returns; a command leaves an object for those below.
UserCodeEnds(exc) ==
    /\ UserCode
    /\ code[1].op = "parse" => exc \in {"none", "usage"}
    /\ raised' = exc
    /\ misused' = (misused \/ (code[1].op # "parse" /\ InReach(Current)))
    /\ contexts' = IF code[1].op = "callback" THEN [contexts EXCEPT ![Current].obj = Current] ELSE contexts
    /\ code' = Tail(code)
    /\ UNCHANGED <<program, stack, opened, closed, failed>>

\* Help and version options, and commands that end the application.
UserCodeExits == UserCode /\ ExitFrom(Current, TRUE)

\* Context.invoke with a command: it runs in a context of its own below the current one.
InvokeCommand ==
    /\ UserCode /\ code[1].op = "callback" /\ Len(contexts) < MaxContexts
    /\ contexts' = Append(contexts, NewContext(Current, TRUE))
    /\ code' = Calling("callback", Len(contexts) + 1) \o code
    /\ UNCHANGED <<program, raised, stack, opened, closed, misused, failed>>

ContextNext ==
    \/ EnterContext \/ Scope \/ Unwind \/ Unscope \/ Leave \/ MainExits \/ Invoke \/ Make \/ Return \/ After \/ AllMade \/ RunAll
    \/ UserCodeExits \/ InvokeCommand
    \/ \E found \in BOOLEAN : Resolve(found) \/ MakeNext(found)
    \/ \E how \in Closings : WithResource(how)
    \/ \E exc \in {"none", "usage", "error"} : UserCodeEnds(exc)

-----------------------------------------------------------------------------

Ended == code = <<>>

\* No callback runs after a resource of its own context or of a context above it has been closed
\* (core.py:549-566, :2030): not the commands of a chain, and not the result callback, which the
\* comment in Group.invoke keeps the context open for.  A context that was left through exit is no
\* longer in use.
NothingIsClosedInUse == ~misused

\* When the command line has run, every resource of a context that was entered has been closed
\* exactly once (core.py:552, __exit__), however the command ended: by returning, raising, exiting,
\* or by another resource failing.
EnteredContextsAreClosed ==
    /\ \A i, j \in DOMAIN closed : closed[i] = closed[j] => i = j
    /\ Ended => \A r \in DOMAIN opened : contexts[opened[r].ctx].entered => \E i \in DOMAIN closed : closed[i] = r

\* Resources are closed in the reverse order: within a context the last one first, and a context
\* below before the one above it (core.py:695 and :2036), also when an exception is on its way; only
\* a result callback that exits closes the group before the command whose result it is given.
InnerIsClosedFirst ==
    \A i, j \in DOMAIN closed :
        LET a == opened[closed[i]].ctx
            b == opened[closed[j]].ctx
        IN  i < j /\ a \in Reach(b) => (a = b /\ closed[i] > closed[j]) \/ contexts[a].exited

\* A command finds the object its group has left for it (core.py:2035, :2052): its context is made
\* after the callback of the group has run, in both modes.
CommandsSeeTheObject ==
    code # <<>> /\ code[1].op = "callback" /\ contexts[Current].parent # 0 =>
        LET c == contexts[Current]
        IN  c.obj = contexts[c.parent].obj /\ (c.invoked \/ c.obj = c.parent)

\* Outside all blocks no context is current, so what runs next starts afresh, unless closing a
\* resource raised at the end of a block (core.py:564 and globals.py:49).
StackIsBalanced == Ended /\ ~failed => stack = <<>> /\ \A c \in DOMAIN contexts : contexts[c].depth = 0

\* Through groups, chains, exits, failures and suppressed exceptions, contexts are entered, used, closed
\* and taken off the stack in order.
ContextsAreClosedInOrder ==
    /\ NothingIsClosedInUse
    /\ EnteredContextsAreClosed
    /\ InnerIsClosedFirst
    /\ CommandsSeeTheObject
    /\ StackIsBalanced
=============================================================================
