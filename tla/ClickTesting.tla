------------------------------ MODULE ClickTesting ------------------------------
(***************************************************************************)
(* Commands run by the click fixture's CliRunner                           *)
(* (examples/eval-repos/click/src/click/testing.py), which puts the        *)
(* process's streams, descriptors, environment and working directory aside *)
(* and back, and the prompts they ask (termui.py).  A command may invoke   *)
(* another one, so what was put aside is a stack.                          *)
(*                                                                         *)
(* What is written is a token: a number that tells the writes apart and    *)
(* the line of input that it shows, if any.                                *)
(***************************************************************************)
EXTENDS Integers, Sequences, SequencesExt, FiniteSets

CONSTANTS
    Runners,      \* CliRunners with the arguments of invoke, see RunInvoke
    Keys,         \* Variables of the environment
    Settings,     \* Values of a variable; "" stands for an unset one
    Prompts,      \* Calls of prompt() and confirm(), see StartPrompt
    MaxDepth,     \* Bound: blocks inside one another
    MaxActs       \* Bound: what the commands do

VARIABLES
    host,         \* The process: streams, descriptors, environment, working directory
    frames,       \* The blocks of invoke() and isolated_filesystem() that are open
    result        \* The Result that was just returned, with what its command really did

testingVars == <<host, frames, result>>

Outs == {"out", "err"}
Terminal == 0
Orphan == -1          \* a temporary file that nobody reads any more
Nothing == <<>>
Apiece(x) == [to \in Outs |-> x]

\* The environment and the directory that blocks put back are base and home.
NewHost(e) == [streams |-> 0, fds |-> Apiece(Terminal), width |-> "any", environ |-> e, base |-> e,
               cwd |-> 0, home |-> 0, dirs |-> {}, kept |-> {}, acts |-> 0, leaked |-> FALSE]

TestingInit == host \in {NewHost(e) : e \in [Keys -> Settings]} /\ frames = <<>> /\ result = <<>>

Top == frames[Len(frames)]
Inside == frames # <<>> /\ Top.kind = "invoke"
Busy == Inside /\ Top.asked # Nothing
Free == ~Busy /\ host.acts < MaxActs
Level == CHOOSE l \in 0..Len(frames) :
            /\ l > 0 => frames[l].kind = "invoke"
            /\ \A m \in l + 1..Len(frames) : frames[m].kind # "invoke"
WithTop(f) == [frames EXCEPT ![Len(frames)] = f]
Pop == SubSeq(frames, 1, Len(frames) - 1)
Acts == [host EXCEPT !.acts = @ + 1]

(***************************************************************************)
(* Output and input of a command                                           *)
(***************************************************************************)

Token(shows) == [n |-> host.acts, shows |-> shows]

\* BytesIOCopy.write and StreamMixer: the bytes of a stream are also those of the mixed one.
Bytes(f, to, tokens) == [f EXCEPT !.bytes[to] = @ \o tokens, !.mix = @ \o tokens]

\* flush of a _NamedTextIOWrapper, which kept what was written.
Flushed(f, to) == [Bytes(f, to, f.pending[to]) EXCEPT !.pending[to] = <<>>]

Keep(f, to, token) == [f EXCEPT !.pending[to] = Append(@, token), !.log = Append(@, <<to, token>>)]
Echo(f, to, token) == Flushed(Keep(f, to, token), to)

\* EchoingStdin._echo: the bytes read are written, past what the text stream keeps.
Echoed(f, token) == IF f.runner.echo /\ ~f.paused
                    THEN [Bytes(f, "out", <<token>>) EXCEPT !.log = Append(@, <<"out", token>>), !.mixed = TRUE]
                    ELSE f
Taken(f) == [f EXCEPT !.lines = Tail(@), !.read = @ + 1]

\* print, which leaves the text with the stream, and click.echo, which flushes it.
Write(to, flushes) ==
    /\ Inside /\ Free
    /\ host' = Acts
    /\ frames' = WithTop(IF flushes THEN Echo(Top, to, Token(0)) ELSE [Keep(Top, to, Token(0)) EXCEPT !.mixed = TRUE])
    /\ result' = <<>>

\* A child process or an extension writes to the descriptor.
WriteDescriptor(to) ==
    /\ Inside /\ Free
    /\ host' = Acts
    /\ frames' = IF host.fds[to] > 0 THEN [frames EXCEPT ![host.fds[to]].caught[to] = Append(@, Token(0))] ELSE frames
    /\ result' = <<>>

\* The command reads a line of its input by itself.
ReadLine ==
    /\ Inside /\ Free /\ Top.lines # <<>>
    /\ host' = Acts
    /\ frames' = WithTop(Echoed(Taken(Top), Token(Top.read + 1)))
    /\ result' = <<>>

\* _getchar of the isolation.
GetChar(echo) ==
    /\ Inside /\ Free /\ Top.lines # <<>>
    /\ host' = Acts
    /\ frames' = WithTop(Flushed(IF echo THEN Keep(Taken(Top), "out", Token(Top.read + 1)) ELSE Taken(Top), "out"))
    /\ result' = <<>>

(***************************************************************************)
(* prompt() and confirm()                                                  *)
(***************************************************************************)

\* A call q has kind, hide, twice (confirmation_prompt), default ("none": there is none; "object": no
\* string), err, abort and form, how the message about a bad value shows it.
StartPrompt(q) ==
    /\ Inside /\ Free
    /\ host' = Acts
    /\ frames' = WithTop([Top EXCEPT !.asked = <<[call |-> q, value |-> "", from |-> 0, again |-> FALSE]>>])
    /\ result' = <<>>

Asked == Top.asked[1]
To(q) == IF q.err THEN "err" ELSE "out"

\* visible_input and hidden_input with _pause_echo: the prompt and the line that was read.
Shown(f, q) ==
    LET prompted == Keep(f, To(q), Token(0))
    IN IF q.hide THEN [Taken(Flushed(prompted, To(q))) EXCEPT !.secret = @ \cup {f.read + 1}]
       ELSE Echo(Taken(prompted), To(q), Token(f.read + 1))

Settles(f, value) == [f EXCEPT !.asked = Nothing, !.answer = value]
Complains(f, q, shows) == Echo([f EXCEPT !.asked[1].again = FALSE], To(q), Token(shows))

\* _mask_hidden_input: a value that is quoted or a word of its own is masked, one that is a part of
\* another word is not found.
Message(f, q, from) == Complains(f, q, IF ~q.hide THEN from ELSE IF q.form = "part" THEN -from ELSE 0)

\* value_proc refuses "bad" and whatever else the type refuses.
Converted(f, q, value, from) ==
    IF value = "bad" THEN Message(f, q, from)
    ELSE IF q.twice THEN [f EXCEPT !.asked[1].value = value, !.asked[1].from = from, !.asked[1].again = TRUE]
    ELSE Settles(f, [value |-> value, first |-> from, second |-> from, call |-> q])

\* The inner loop of prompt(): the value, or the default.
ValueLine(f, q, line) ==
    IF line # "" THEN Converted(f, q, line, f.read)
    ELSE IF q.default # "none" THEN Converted(f, q, q.default, 0) ELSE f

\* The confirmation, which is asked for again while it is empty.
ConfirmationLine(f, q, line) ==
    IF line = "" /\ Asked.value # "" THEN f
    ELSE IF Asked.value = line
    THEN Settles(f, [value |-> line, first |-> Asked.from, second |-> f.read, call |-> q])
    ELSE Complains(f, q, 0)

\* confirm(): yes, no, or the default.
QuestionLine(f, q, line) ==
    LET yes == IF line = "" THEN q.default = "yes" ELSE line = "yes"
    IN IF line \notin {"yes", "no"} /\ (line # "" \/ q.default = "none") THEN Complains(f, q, 0)
       ELSE Settles(f, [value |-> IF yes THEN "yes" ELSE IF q.abort THEN "Abort" ELSE "no",
                         first |-> f.read, second |-> f.read, call |-> q])

PromptLine ==
    /\ Busy /\ Top.lines # <<>>
    /\ LET q == Asked.call
           f == Shown(Top, q)
           line == Head(Top.lines)
       IN frames' = WithTop(IF q.kind = "confirm" THEN QuestionLine(f, q, line)
                            ELSE IF Asked.again THEN ConfirmationLine(f, q, line) ELSE ValueLine(f, q, line))
    /\ UNCHANGED host /\ result' = <<>>

\* The end of the input or an interrupt leaves the echo paused and becomes Abort.
PromptAborts ==
    /\ Busy
    /\ LET q == Asked.call
           f == Keep([Top EXCEPT !.asked = Nothing, !.paused = Top.runner.echo, !.mixed = TRUE], To(q), Token(0))
       IN frames' = WithTop(IF q.hide THEN Echo(Flushed(f, To(q)), To(q), Token(0)) ELSE f)
    /\ UNCHANGED host /\ result' = <<>>

(***************************************************************************)
(* invoke() with isolation()                                               *)
(***************************************************************************)

\* A runner r has env (the overrides of make_env, a partial function), echo, capture, catch and lines,
\* the input.  how tells whether the second _FDCapture could be started; where it could not, the first
\* one is never stopped.
Captured(r, level, how) ==
    IF r.capture # "fd" THEN host.fds
    ELSE IF how = "fails" THEN [host.fds EXCEPT !["out"] = Orphan]
    ELSE Apiece(level)

Overridden(environ, env) == [k \in Keys |-> IF k \in DOMAIN env THEN env[k] ELSE environ[k]]

\* saved is what the finally clause of the isolation puts back.
NewFrame(r, how) ==
    [kind |-> "invoke", runner |-> r, lines |-> r.lines, read |-> 0, paused |-> FALSE, asked |-> Nothing,
     answer |-> Nothing, capturing |-> r.capture = "fd" /\ how = "works", pending |-> Apiece(<<>>),
     bytes |-> Apiece(<<>>), caught |-> Apiece(<<>>), mix |-> <<>>, log |-> <<>>, mixed |-> FALSE, secret |-> {},
     saved |-> [streams |-> host.streams, fds |-> host.fds, width |-> host.width, environ |-> host.environ]]

RunInvoke(r, how) ==
    /\ Free /\ Len(frames) < MaxDepth /\ (how = "fails" => r.capture = "fd")
    /\ host' = [Acts EXCEPT !.streams = Len(frames) + 1, !.width = "80", !.fds = Captured(r, Len(frames) + 1, how),
                            !.environ = Overridden(@, r.env), !.leaked = @ \/ how = "fails"]
    /\ frames' = Append(frames, NewFrame(r, how))
    /\ result' = <<>>

\* invoke() fails before there is a command to run: no reader for the input, a charset that is not
\* known, arguments that shlex cannot split.  The isolation that began is put back; captures are not.
InvokeFails(r, why) ==
    /\ Free /\ Len(frames) < MaxDepth
    /\ host' = [Acts EXCEPT !.fds = IF r.capture = "fd" THEN Apiece(Orphan) ELSE @,
                            !.width = IF why = "charset" THEN "80" ELSE @,
                            !.leaked = @ \/ r.capture = "fd" \/ why = "charset"]
    /\ UNCHANGED frames /\ result' = <<>>

\* The except clauses of invoke().  A text is written and stands for 1.
ExitCode(how) == CASE how \in {"returns", "exits none", "exits 0"} -> 0
                   [] how = "exits 2" -> 2
                   [] OTHER -> 1

Finishing(how) == IF how = "exits text" THEN Keep(Top, "out", Token(0))
                  ELSE IF how = "aborts" THEN Echo(Top, "err", Token(0)) ELSE Top

\* The finally clause of invoke(): both streams are flushed, what the descriptors caught follows.
Collected(f) ==
    LET g == Flushed(Flushed(f, "out"), "err")
    IN IF f.capturing THEN Bytes(Bytes(g, "out", f.caught["out"]), "err", f.caught["err"]) ELSE g

\* Mutant: what is put back is the environment without the overrides.
MutPutBack(f) == [k \in Keys |-> IF k \in DOMAIN f.runner.env THEN "" ELSE host.environ[k]]

\* The environment after the isolation: the variables it set have the values they had.
PutBack(f) == [k \in Keys |-> IF k \in DOMAIN f.runner.env THEN f.saved.environ[k] ELSE host.environ[k]]

\* Whether invoke() itself raises: then there is no Result.
Raises(f, how) == how = "interrupted" \/ (how = "raises" /\ ~f.runner.catch)

\* Result, with the streams of the frame.
ResultOf(f, how) ==
    [exit_code |-> ExitCode(how), exception |-> how \notin {"returns", "exits none", "exits 0"},
     frame |-> [f EXCEPT !.saved = <<>>, !.lines = <<>>, !.asked = Nothing, !.answer = Nothing]]

CommandEnds(how) ==
    /\ Inside /\ ~Busy
    /\ LET f == Collected(Finishing(how))
       IN /\ host' = [host EXCEPT !.streams = f.saved.streams, !.width = f.saved.width, !.environ = PutBack(f),
                                  !.fds = IF f.capturing THEN f.saved.fds ELSE @]
          /\ frames' = Pop
          /\ result' = IF Raises(f, how) THEN <<>> ELSE <<ResultOf(f, how)>>

(***************************************************************************)
(* isolated_filesystem(), and what a command does to its process           *)
(***************************************************************************)

EnterDirectory(keeps) ==
    /\ Free /\ Len(frames) < MaxDepth
    /\ LET dir == host.acts + 1
       IN /\ host' = [Acts EXCEPT !.cwd = dir, !.dirs = @ \cup {dir}, !.kept = IF keeps THEN @ \cup {dir} ELSE @]
          /\ frames' = Append(frames, [kind |-> "directory", cwd |-> host.cwd, dir |-> dir, keeps |-> keeps])
    /\ result' = <<>>

\* rmtree may fail and is then passed over.
LeaveDirectory(removed) ==
    /\ frames # <<>> /\ Top.kind = "directory" /\ (Top.keeps => ~removed)
    /\ host' = [host EXCEPT !.cwd = Top.cwd, !.dirs = IF removed THEN @ \ {Top.dir} ELSE @,
                            !.kept = IF removed THEN @ ELSE @ \cup {Top.dir}]
    /\ frames' = Pop
    /\ result' = <<>>

Owned(k) == \E i \in DOMAIN frames : frames[i].kind = "invoke" /\ k \in DOMAIN frames[i].runner.env

\* base follows what is said outside of every block that puts the variable back.
SetVariable(k, v) ==
    /\ Free
    /\ host' = [Acts EXCEPT !.environ[k] = v, !.base[k] = IF Owned(k) THEN @ ELSE v]
    /\ UNCHANGED frames /\ result' = <<>>

ChangeDirectory ==
    /\ Free /\ host.cwd # Orphan
    /\ host' = [Acts EXCEPT !.cwd = Orphan,
                            !.home = IF \E i \in DOMAIN frames : frames[i].kind = "directory" THEN @ ELSE Orphan]
    /\ UNCHANGED frames /\ result' = <<>>

Hows == {"returns", "exits none", "exits 0", "exits 2", "exits text", "aborts", "raises", "interrupted"}

TestingNext ==
    \/ \E to \in Outs : WriteDescriptor(to) \/ \E flushes \in BOOLEAN : Write(to, flushes)
    \/ ReadLine \/ PromptLine \/ PromptAborts \/ ChangeDirectory
    \/ \E echo \in BOOLEAN : GetChar(echo)
    \/ \E q \in Prompts : StartPrompt(q)
    \/ \E r \in Runners : (\E how \in {"works", "fails"} : RunInvoke(r, how))
                          \/ (\E why \in {"input", "charset", "args"} : InvokeFails(r, why))
    \/ \E how \in Hows : CommandEnds(how)
    \/ \E b \in BOOLEAN : EnterDirectory(b) \/ LeaveDirectory(b)
    \/ \E k \in Keys, v \in Settings : SetVariable(k, v)

(***************************************************************************)
(* Properties                                                              *)
(***************************************************************************)

LoggedTo(log, to) == LET of == SelectSeq(log, LAMBDA e : e[1] = to) IN [i \in DOMAIN of |-> of[i][2]]
Elements(s) == {s[i] : i \in DOMAIN s}

\* isolation(), invoke() and isolated_filesystem(): commands that run commands, that change the
\* environment and the directory and that end in any way leave the process as it was: streams, prompts,
\* descriptors, width, the variables that were overridden, the directory.  What a command itself set
\* beside them stays.  Only captures that could not be started in full, and calls that fail before their
\* command, leave a descriptor or the width behind.
ProcessIsPutBack ==
    /\ frames = <<>> =>
        /\ host.streams = 0 /\ host.environ = host.base /\ host.cwd = host.home
        /\ ~host.leaked => host.fds = Apiece(Terminal) /\ host.width = "any"
        /\ host.dirs \subseteq host.kept
    /\ host.streams = Level

\* StreamMixer and the finally clause of invoke(): every text of the command is in its stream once and in
\* the mixed output, in the order of each stream; while every write is flushed, as echo does, the mixed
\* output has the order of the writes.
OutputIsComplete ==
    result # <<>> =>
        LET f == result[1].frame
        IN /\ \A to \in Outs :
                /\ Elements(f.bytes[to]) = Elements(LoggedTo(f.log, to)) \cup (IF f.capturing THEN Elements(f.caught[to]) ELSE {})
                /\ Len(f.bytes[to]) = Len(LoggedTo(f.log, to)) + (IF f.capturing THEN Len(f.caught[to]) ELSE 0)
           /\ Len(f.mix) = Len(f.bytes["out"]) + Len(f.bytes["err"])
           /\ ~f.mixed /\ f.caught = Apiece(<<>>) => f.mix = [i \in DOMAIN f.log |-> f.log[i][2]]
           /\ (result[1].exit_code # 0) = result[1].exception

\* prompt(): a value that is returned was accepted by its type and, where it is asked for twice, typed
\* twice; a line that a hidden prompt read is in no output, neither echoed nor in a message, unless the
\* message has it as a part of another word.
PromptsAreHonest ==
    \A i \in DOMAIN frames : frames[i].kind = "invoke" =>
        LET f == frames[i]
            a == f.answer
        IN /\ \A to \in Outs : \A j \in DOMAIN f.bytes[to] : f.bytes[to][j].shows \notin f.secret
           /\ a # Nothing /\ a.call.kind = "prompt" =>
                /\ a.value # "bad"
                /\ a.first > 0 => f.runner.lines[a.first] = a.value
                /\ a.call.twice => f.runner.lines[a.second] = a.value

RunsAreIsolated == ProcessIsPutBack /\ OutputIsComplete /\ PromptsAreHonest
================================================================================
