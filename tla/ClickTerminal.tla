----------------------------- MODULE ClickTerminal -----------------------------
(***************************************************************************)
(* What the click fixture does with a terminal                             *)
(* (examples/eval-repos/click/src/click/_termui_impl.py): the progress     *)
(* bar, the pager that output is piped through, and the editor a text is   *)
(* given to.  Each of them holds something that must be given back (the    *)
(* cursor and the line of the bar, a process, a temporary file), whatever  *)
(* the caller's block, the user or the other program does.                 *)
(*                                                                         *)
(* Lines are known by their widths and by what they tell; texts by         *)
(* whether they are styled.                                                *)
(***************************************************************************)
EXTENDS Integers, Sequences

CONSTANTS
    Bars,          \* Arguments of progressbar(), see Progressbar
    Columns,       \* Widths the terminal may be resized to
    ItemWidths,    \* Widths of the texts item_show_func returns (0: none)
    MaxSteps,      \* Bound: steps that are made
    Pagers,        \* Environments of a pager, see Strategy
    MaxWrites,     \* Bound: texts written to a pager
    Edits,         \* Calls of Editor.edit, see EditText
    Saves,         \* Texts the user may save
    Resolutions,   \* Resolutions of the file system's clock, in half seconds
    Starts,        \* Times at which an editor is started
    MaxClock       \* Bound: the time up to which the user edits

VARIABLES
    bar,      \* The ProgressBar, its caller's block, the line on the screen
    pager,    \* get_pager_file, its process or file, and the caller's block
    edit      \* Editor.edit and the temporary file

terminalVars == <<bar, pager, edit>>

Larger(x, y) == IF x >= y THEN x ELSE y
NoLength == -1
NoWidth == -1

(***************************************************************************)
(* ProgressBar                                                             *)
(***************************************************************************)

EtaWidth == 2      \* what the eta adds to a line

\* The terminal's line: what the last line told, how far anything is written, and whether the
\* cursor is shown; of another stream, how often the label was written.
BlankScreen == [shown |-> <<>>, extent |-> 0, cursor |-> TRUE, labels |-> 0]

\* progressbar(): the arguments that matter; items counts those of the iterable, a width of 0 is that
\* of the terminal, atty tells of the file.
Progressbar(length, items, min_steps, width, atty, hidden) ==
    [length |-> length, items |-> items, min_steps |-> min_steps, width |-> width, atty |-> atty, hidden |-> hidden]

NewBar(a) ==
    [arg |-> a, at |-> "new", left |-> a.items, pending |-> 0, pos |-> 0, eta_known |-> FALSE,
     finished |-> FALSE, width |-> a.width, max_width |-> NoWidth, item |-> 0, last |-> <<>>,
     out |-> FALSE, cols |-> CHOOSE c \in Columns : TRUE, made |-> 0, screen |-> BlankScreen]

\* format_progress_line with format_bar, format_pct, format_pos and format_eta.
BarLine(b) == [width |-> b.width, pos |-> b.pos, full |-> b.finished,
            eta |-> b.eta_known /\ ~b.finished, item |-> b.item]
LineLen(line) == line.width + (IF line.eta THEN EtaWidth ELSE 0) + line.item

\* The line and its padding go over what is written there; wiped columns were blanked before.
Painted(screen, line, wiped, clear) ==
    LET rest == IF wiped >= screen.extent THEN 0 ELSE screen.extent
    IN [screen EXCEPT !.shown = <<line>>, !.cursor = FALSE,
                      !.extent = IF rest > Larger(LineLen(line), clear) THEN rest ELSE LineLen(line)]

\* The part of render_progress behind the width.
RenderLine(b, wiped) ==
    LET line == BarLine(b)
        clear == IF b.max_width = NoWidth THEN b.width ELSE b.max_width
        buf == <<line, wiped, Larger(0, clear - LineLen(line))>>
        c == [b EXCEPT !.max_width = Larger(@, LineLen(line))]
    IN IF buf = b.last THEN c
       ELSE [c EXCEPT !.last = buf, !.screen = Painted(b.screen, line, wiped, clear)]

\* autowidth: the bar gets what the rest of the line leaves of the terminal.  Where the bar
\* shrinks, the whole of the old line is blanked.
RenderAuto(b, new) ==
    IF new < b.width /\ b.max_width # NoWidth
    THEN RenderLine([b EXCEPT !.width = new, !.max_width = new], b.max_width)
    ELSE RenderLine([b EXCEPT !.width = new], 0)

RenderProgress(b) ==
    IF b.arg.hidden THEN b
    ELSE IF ~b.arg.atty
    THEN IF b.last = <<"label">> THEN b
         ELSE [b EXCEPT !.last = <<"label">>, !.screen.labels = @ + 1]
    ELSE IF b.arg.width = 0
    THEN RenderAuto(b, Larger(0, b.cols - LineLen([BarLine(b) EXCEPT !.width = 0])))
    ELSE RenderLine(b, 0)

\* make_step; tick tells that a second has gone by since the last estimate.
MakeStep(b, n, tick) ==
    [b EXCEPT !.pos = @ + n,
              !.finished = @ \/ (b.arg.length # NoLength /\ b.pos + n >= b.arg.length),
              !.eta_known = IF tick THEN b.arg.length # NoLength ELSE @]

\* update: steps wait until there are enough of them.
UpdateBar(b, n, tick) ==
    IF b.pending + n >= b.arg.min_steps
    THEN [RenderProgress(MakeStep(b, b.pending + n, tick)) EXCEPT !.pending = 0]
    ELSE [b EXCEPT !.pending = @ + n]

FinishBar(b) == [b EXCEPT !.eta_known = FALSE, !.item = 0, !.finished = TRUE]

\* render_finish, first part: steps that still wait are made.
Settled(b, tick) ==
    IF b.pending = 0 THEN b
    ELSE RenderProgress([MakeStep(b, b.pending, tick) EXCEPT !.pending = 0])

EnterBar == bar.at = "new" /\ bar' = RenderProgress([bar EXCEPT !.at = "block"])

\* generator: the next item; it is rendered at the beginning of an interval.
TakeItem(b, w) ==
    IF ~b.arg.atty THEN [b EXCEPT !.left = @ - 1]
    ELSE LET c == [b EXCEPT !.left = @ - 1, !.item = w]
         IN IF c.pending = 0 THEN RenderProgress(c) ELSE c

Iterate(w) ==
    /\ bar.at \in {"block", "loop"} /\ bar.left > 0
    /\ bar' = [TakeItem(IF bar.at = "block" THEN RenderProgress(bar) ELSE bar, w) EXCEPT !.at = "body"]

\* next(bar): the generator is dropped after one item, which never counts as a step.
NextItem(w) ==
    /\ bar.at = "block" /\ bar.left > 0
    /\ bar' = TakeItem(RenderProgress(bar), w)

\* The body of the loop returned; a bar that is no terminal's counts nothing.
BodyEnds(tick) ==
    /\ bar.at = "body"
    /\ bar' = IF ~bar.arg.atty THEN [bar EXCEPT !.at = "loop"]
              ELSE [UpdateBar(bar, 1, tick) EXCEPT !.at = "loop", !.made = @ + 1]

\* The loop is left early: the step under way is not counted.
BreakOut == bar.at = "body" /\ bar' = [bar EXCEPT !.at = "block"]

Exhausted ==
    /\ bar.at \in {"block", "loop"} /\ bar.left = 0
    /\ bar' = [(IF bar.arg.atty THEN RenderProgress(FinishBar(bar)) ELSE bar) EXCEPT !.at = "block",
                                                                                    !.out = TRUE]

\* The caller's own steps, with an item or without.
UserUpdate(n, w, tick) ==
    /\ bar.at = "block" /\ bar.made + n <= MaxSteps
    /\ bar' = [UpdateBar([bar EXCEPT !.item = IF w = 0 THEN @ ELSE w], n, tick) EXCEPT !.made = @ + n]

Resize == bar.at \notin {"new", "closed"} /\ \E c \in Columns : bar' = [bar EXCEPT !.cols = c]

\* __exit__: the end of the block, a break out of the loop, or an exception.
ExitBar(tick) ==
    /\ bar.at \in {"block", "body"}
    /\ LET b == [Settled(bar, tick) EXCEPT !.at = "closed"]
       IN bar' = IF b.arg.hidden \/ ~b.arg.atty THEN b ELSE [b EXCEPT !.screen.cursor = TRUE]

BarNext ==
    \/ EnterBar \/ BreakOut \/ Exhausted \/ Resize
    \/ \E w \in ItemWidths : Iterate(w) \/ NextItem(w)
    \/ \E tick \in BOOLEAN : BodyEnds(tick) \/ ExitBar(tick)
    \/ \E n \in 1..2, w \in ItemWidths, tick \in BOOLEAN : UserUpdate(n, w, tick)

(***************************************************************************)
(* get_pager_file and the strategies behind it                             *)
(***************************************************************************)

\* An environment a has ttys, PAGER (unset or a command with its parameters), found (the command is
\* on the path), dumb (TERM), win, color (yes, no or none) and LESS.  Tokens of LESS and of PAGER
\* have a number of dashes and what they ask for.
Raw(token) == \/ token.dashes = 2 /\ token.asks = "raw-control-chars"
              \/ token.dashes = 1 /\ token.asks = "r"
LessUsesRawMode(less, cmd) == \E token \in less \cup cmd : Raw(token)

\* _pager_contextmanager with _resolve_pager_command.
Strategy(a) ==
    IF ~a.ttys \/ (a.PAGER = "unset" /\ a.dumb) \/ ~a.found THEN "null"
    ELSE IF a.win THEN "temp" ELSE "pipe"
CommandName(a) == IF a.PAGER # "unset" THEN a.PAGER ELSE IF a.win THEN "more" ELSE "less"

\* _pipepager, first part: whether less is asked to show colours, by the user or by this code.
Undecided(a) == Strategy(a) = "pipe" /\ a.color = "none" /\ CommandName(a) = "less"
Injected(a) == Undecided(a) /\ a.LESS = {} /\ a.params = {}
ColorOf(a) == a.color = "yes" \/ (Undecided(a) /\ (LessUsesRawMode(a.LESS, a.params) \/ Injected(a)))

\* body: what the caller's block raised; raised: what is on its way to the caller; broke: a write to
\* the pager failed because nobody reads it.
NewPager(a) == [arg |-> a, at |-> "new", process |-> "none", file |-> "none", buffered |-> FALSE, writes |-> 0,
                styled |-> FALSE, body |-> "none", raised |-> "none", broke |-> FALSE, terminated |-> FALSE,
                interrupts |-> 0]

OpenPager ==
    /\ pager.at = "new"
    /\ pager' = [pager EXCEPT !.at = "block",
                              !.process = IF Strategy(pager.arg) = "pipe" THEN "running" ELSE "none",
                              !.file = IF Strategy(pager.arg) = "temp" THEN "open" ELSE "none"]

Unread == Strategy(pager.arg) = "pipe" /\ pager.process = "exited"

\* _PagerWriter.write: colours are stripped unless they are on.  The stream may keep the text or
\* hand it to the pipe at once.
WritePager(styled) ==
    /\ pager.at = "block" /\ pager.writes < MaxWrites
    /\ \/ pager' = [pager EXCEPT !.writes = @ + 1, !.buffered = TRUE,
                                 !.styled = @ \/ (styled /\ ColorOf(pager.arg))]
       \/ Unread /\ pager' = [pager EXCEPT !.writes = @ + 1, !.at = "flush", !.buffered = TRUE,
                                           !.raised = "broken", !.broke = TRUE]

\* echo_via_pager flushes after every text.
FlushPager ==
    /\ pager.at = "block" /\ pager.buffered
    /\ pager' = IF Unread THEN [pager EXCEPT !.at = "flush", !.raised = "broken", !.broke = TRUE]
                ELSE [pager EXCEPT !.buffered = FALSE]

BlockLeft(how) ==
    /\ pager.at = "block"
    /\ pager' = [pager EXCEPT !.at = "flush", !.body = how, !.raised = how]

\* The user quits the pager, or it ends at the end of its input or at terminate().
PagerExits == /\ pager.process = "running"
              /\ pager' = [pager EXCEPT !.process = "exited"]

\* get_pager_file: the flush of the finally clause; a broken pipe takes the place of what was raised.
LastFlush ==
    /\ pager.at = "flush"
    /\ pager' = IF Unread /\ pager.buffered THEN [pager EXCEPT !.at = "owner", !.raised = "broken", !.broke = TRUE]
                ELSE [pager EXCEPT !.at = "owner", !.buffered = FALSE]

\* _pipepager, second part: a broken pipe is ignored, an error ends the pager, stdin is closed.
PipeOwner ==
    /\ pager.at = "owner" /\ Strategy(pager.arg) = "pipe"
    /\ pager' = [pager EXCEPT !.at = "wait", !.terminated = pager.raised = "error",
                              !.raised = IF @ = "broken" THEN "none" ELSE @]

WaitInterrupted == /\ pager.at = "wait" /\ pager.interrupts = 0
                   /\ pager' = [pager EXCEPT !.interrupts = 1]

WaitEnds == /\ pager.at = "wait" /\ pager.process = "exited"
            /\ pager' = [pager EXCEPT !.at = "closed", !.process = "reaped"]

\* _tempfilepager: the program is run on the closed file, unless something was raised.
RunOnFile ==
    /\ pager.at = "owner" /\ Strategy(pager.arg) = "temp" /\ pager.raised = "none"
    /\ pager' = [pager EXCEPT !.at = "call", !.file = "closed", !.process = "running"]

\* subprocess.call ends with the program; an interrupt kills it.
CallEnds ==
    /\ pager.at = "call"
    /\ \/ pager.process = "exited" /\ pager' = [pager EXCEPT !.at = "unlink", !.process = "reaped"]
       \/ pager' = [pager EXCEPT !.at = "unlink", !.process = "reaped", !.raised = "interrupt"]

UnlinkFile ==
    /\ \/ pager.at = "unlink"
       \/ pager.at = "owner" /\ Strategy(pager.arg) = "temp" /\ pager.raised # "none"
    /\ pager' = [pager EXCEPT !.at = "closed", !.file = "gone"]

NullOwner == /\ pager.at = "owner" /\ Strategy(pager.arg) = "null"
             /\ pager' = [pager EXCEPT !.at = "closed"]

PagerNext ==
    \/ OpenPager \/ FlushPager \/ PagerExits \/ LastFlush \/ PipeOwner \/ WaitInterrupted \/ WaitEnds
    \/ RunOnFile \/ CallEnds \/ UnlinkFile \/ NullOwner
    \/ \E styled \in BOOLEAN : WritePager(styled)
    \/ \E how \in {"none", "error", "interrupt"} : BlockLeft(how)

(***************************************************************************)
(* Editor                                                                  *)
(***************************************************************************)

TwoSeconds == 4      \* times are in half seconds
Text(words, eol, bom) == [words |-> words, eol |-> eol, bom |-> bom]
EmptyText == Text("", "none", FALSE)

\* edit() of a text: its kind (none, text, bytes), require_save, the system and what get_editor looks
\* at: the editor that is given, VISUAL and EDITOR ("" where unset), and the editors on the path.
EditText(kind, text, save, win, named, found) ==
    [kind |-> kind, text |-> text, save |-> save, win |-> win, given |-> named.given, VISUAL |-> named.VISUAL,
     EDITOR |-> named.EDITOR, found |-> found]

GetEditor(a) ==
    IF a.given # "" THEN a.given
    ELSE IF a.VISUAL # "" THEN a.VISUAL
    ELSE IF a.EDITOR # "" THEN a.EDITOR
    ELSE IF a.win THEN "notepad"
    ELSE IF a.found # <<>> THEN Head(a.found) ELSE "vi"

\* What is written to the file: text ends in a newline, on Windows in that system's form.
Encoded(a) ==
    IF a.kind = "none" THEN EmptyText
    ELSE IF a.kind = "bytes" THEN a.text
    ELSE LET ended == [a.text EXCEPT !.eol = IF a.text.words # "" THEN "lf" ELSE @]
         IN IF a.win THEN [ended EXCEPT !.eol = IF @ = "lf" THEN "crlf" ELSE @, !.bom = TRUE] ELSE ended

Decoded(a, text) ==
    IF a.kind = "bytes" THEN text
    ELSE [text EXCEPT !.bom = FALSE, !.eol = IF @ = "crlf" THEN "lf" ELSE @]

\* What the file system records of a time.
Recorded(time, resolution) == resolution * (time \div resolution)

NewEdit(a) == [arg |-> a, at |-> "new", program |-> "", file |-> "none", content |-> EmptyText, mtime |-> 0,
               timestamp |-> 0, clock |-> 0, resolution |-> 1, saved |-> FALSE, result |-> <<>>, raised |-> "none"]

\* edit up to edit_files: the file is written, dated back and given to the editor.
StartEdit(t, r) ==
    /\ edit.at = "new"
    /\ LET back == Recorded(Recorded(t, r) - TwoSeconds, r)
       IN edit' = [edit EXCEPT !.at = "editing", !.program = GetEditor(edit.arg), !.file = "there",
                               !.content = Encoded(edit.arg), !.clock = t, !.resolution = r,
                               !.mtime = back, !.timestamp = back]

EditorWaits == /\ edit.at = "editing" /\ edit.clock < MaxClock
               /\ edit' = [edit EXCEPT !.clock = @ + 1]

\* The user saves: as it was, or another text in any form.
EditorSaves(text) ==
    /\ edit.at = "editing" /\ edit.file = "there"
    /\ edit' = [edit EXCEPT !.saved = TRUE, !.content = text, !.mtime = Recorded(edit.clock, edit.resolution)]

EditorRemovesFile == /\ edit.at = "editing" /\ edit.file = "there"
                     /\ edit' = [edit EXCEPT !.file = "none"]

\* edit_files returned; code tells how the editor ended (none: it could not be started).  The file
\* is looked at, read and removed.
EditorEnds(code) ==
    /\ edit.at = "editing" /\ (code = "none" => ~edit.saved /\ edit.file = "there")
    /\ edit' = [edit EXCEPT
                  !.at = "done", !.file = "none",
                  !.raised = IF edit.file = "none" THEN "FileNotFoundError" ELSE IF code = "zero" THEN "none" ELSE "ClickException",
                  !.result = IF edit.file = "none" \/ code # "zero" \/ (edit.arg.save /\ edit.mtime = edit.timestamp)
                             THEN <<>> ELSE <<Decoded(edit.arg, edit.content)>>]

EditNext ==
    \/ EditorWaits \/ EditorRemovesFile
    \/ \E t \in Starts, r \in Resolutions : StartEdit(t, r)
    \/ \E text \in Saves \cup {edit.content} : EditorSaves(text)
    \/ \E code \in {"zero", "other", "none"} : EditorEnds(code)

(***************************************************************************)
(* Specification and properties                                            *)
(***************************************************************************)

TerminalInit ==
    /\ bar \in {NewBar(a) : a \in Bars}
    /\ pager \in {NewPager(a) : a \in Pagers}
    /\ edit \in {NewEdit(a) : a \in Edits}

TerminalNext ==
    \/ BarNext /\ UNCHANGED <<pager, edit>>
    \/ PagerNext /\ UNCHANGED <<bar, edit>>
    \/ EditNext /\ UNCHANGED <<bar, pager>>

Drawn == bar.arg.atty /\ ~bar.arg.hidden

\* render_finish and render_progress: no step that was made is missing from the bar when its block is
\* left, whatever the steps between two renderings; the line on the terminal tells where the bar is,
\* nothing of an earlier and longer line is left behind it, also where the terminal was made narrower,
\* and the cursor is shown again.  Another stream gets the label once.
BarSettles ==
    /\ bar.at = "closed" => /\ bar.pending = 0 /\ bar.pos = bar.made /\ bar.screen.cursor
                            /\ bar.arg.length # NoLength /\ bar.made >= bar.arg.length /\ bar.made > 0 => bar.finished
                            /\ Drawn => \E line \in {bar.screen.shown[1]} :
                                    line.pos = bar.pos /\ line.full = bar.finished /\ line.item = bar.item
    /\ bar.screen.shown # <<>> => bar.screen.extent = LineLen(bar.screen.shown[1])
    /\ bar.screen.labels <= 1

\* _pipepager and _tempfilepager: whatever the block raised and whoever ended the pager, no process
\* is left running and no file is left behind; colours reach only a program that was asked to show
\* them; the caller's error is reported unless the pipe was broken; the file that a program is run on
\* is complete.
PagerLeavesNothing ==
    /\ pager.at = "closed" => /\ pager.process \in {"none", "reaped"} /\ pager.file \in {"none", "gone"}
                              /\ pager.body # "none" /\ ~pager.broke => pager.raised = pager.body
                              /\ pager.broke => pager.raised = "none"
    /\ pager.styled => \/ pager.arg.color = "yes"
                       \/ LessUsesRawMode(pager.arg.LESS, pager.arg.params) \/ Injected(pager.arg)
    /\ pager.at = "call" => pager.file = "closed" /\ ~pager.buffered

\* Editor.edit: a text that the user saved is never taken for one that was not, on any resolution of
\* the file system's clock; the result is what was saved, in the form the caller's text has; no file
\* is left behind.
SavedTextIsReturned ==
    edit.at = "done" =>
        /\ edit.file = "none"
        /\ edit.raised = "none" =>
            /\ (edit.result # <<>>) = (edit.saved \/ ~edit.arg.save)
            /\ edit.result # <<>> /\ edit.arg.kind # "bytes" => ~edit.result[1].bom /\ edit.result[1].eol # "crlf"
            /\ edit.result # <<>> /\ ~edit.saved => edit.result[1] = Decoded(edit.arg, Encoded(edit.arg))

TerminalIsGivenBack == BarSettles /\ PagerLeavesNothing /\ SavedTextIsReturned
================================================================================
