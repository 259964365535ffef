--------------------------------- MODULE Tools ---------------------------------
(***************************************************************************)
(* The tools an agent reads and patches a workspace with: listings and     *)
(* read_file (tools/fs_read.py, safety/), searches over ripgrep            *)
(* (runtime/repository_search.py), Git status (tools/git_read.py) and the  *)
(* text patch (runtime/edit_service.py).  A session of the model uses one  *)
(* tool ("job"): a reader pages through a file, a search consumes the      *)
(* output of its process, a status is decoded, a patch is applied.         *)
(* A path is a sequence of names.  A line of a file is its length; a text  *)
(* of a patch is a sequence of the characters "a", "CR" and "LF".          *)
(***************************************************************************)
EXTENDS Integers, FiniteSets, SequencesExt

CONSTANTS
    Order,              \* every path below the root, in listing order, parents first
    SensitiveNames,     \* the names is_sensitive_path refuses
    Trees,              \* workspaces: path -> "dir", "file", "binary", "link", "outlink" or "absent"
    Contents,           \* lengths of the lines of a file: the contents tried
    MaxEntries, MaxReadLines, MaxOutput,    \* the limits of fs_read.py
    Outputs,            \* outputs of ripgrep tried: sequences of records
    MaxResults, RecordSlack, MaxRaw,        \* the limits of repository_search.py
    Statuses, StatusBytes, StatusEntries,   \* entries git status may print; its limits
    Texts, Snippets,    \* texts of a file, and old_text and new_text of a patch
    None

VARIABLES
    job,        \* the tool in use
    input,      \* what it works on
    phase,
    out         \* what it has returned or collected so far

toolVars == <<job, input, phase, out>>

--------------------------------------------------------------------------------
(* Paths                                                                   *)

\* is_sensitive_path: any part of the path.
Sensitive(p) == \E i \in DOMAIN p : p[i] \in SensitiveNames

\* sensitive_label of a listing looks at the name alone.
MarkedName(p) == p[Len(p)] \in SensitiveNames

Node(t, p) == IF p = <<>> THEN "dir" ELSE t[p]

\* _has_symlink_component
ThroughLink(t, p) == \E i \in 1..Len(p) : Node(t, SubSeq(p, 1, i)) \in {"link", "outlink"}

\* PathGuard.resolve with reject_sensitive.
Guarded(p) == Sensitive(p)

\* read_file up to the open file.
ReadError(t, p) ==
    CASE ThroughLink(t, p) \/ Guarded(p) -> "path_rejected"
      [] Node(t, p) = "absent" -> "not_found"
      [] Node(t, p) # "file" -> "unsupported_file_type"
      [] OTHER -> None

--------------------------------------------------------------------------------
(* Listings                                                                *)

\* _safe_listing_item: None for what a listing does not show.
Row(t, p, mode) ==
    IF Node(t, p) \in {"absent", "outlink"} \/ (MarkedName(p) /\ mode = "HIDE") THEN None
    ELSE [path |-> p, marked |-> MarkedName(p), kind |-> t[p]]

Cut(rows, n) == SubSeq(rows, 1, IF n < Len(rows) THEN n ELSE Len(rows))

\* list_dir stops at the first item after the list is full, shown or not.
ListDir(t, dir, mode) ==
    LET here == SelectSeq(Order, LAMBDA p : Len(p) = Len(dir) + 1 /\ IsPrefix(dir, p)
                                             /\ t[p] # "absent")
        all  == [i \in DOMAIN here |-> Row(t, here[i], mode)]
        before(i) == Cardinality({k \in 1..(i - 1) : all[k] # None})
    IN  [rows |-> Cut(SelectSeq(all, LAMBDA r : r # None), MaxEntries),
         truncated |-> \E i \in DOMAIN here : before(i) >= MaxEntries]

\* show_tree walks into directories that are neither links nor sensitive.
Descends(t, p) == t[p] = "dir" /\ ~MarkedName(p)

\* show_tree from the root; its own line counts as an entry.
ShowTree(t, depth, mode) ==
    LET rows == SelectSeq([i \in DOMAIN Order |->
                    IF Len(Order[i]) <= depth
                       /\ \A k \in 1..(Len(Order[i]) - 1) : Descends(t, SubSeq(Order[i], 1, k))
                    THEN Row(t, Order[i], mode) ELSE None], LAMBDA r : r # None)
    IN  [rows |-> Cut(rows, MaxEntries - 1), truncated |-> Len(rows) > MaxEntries - 1]

List ==
    /\ job = "list" /\ phase = "start"
    /\ out' = [tree |-> ShowTree(input.tree, 2, input.mode),
               top  |-> ListDir(input.tree, <<>>, input.mode)]
    /\ phase' = "done"
    /\ UNCHANGED <<job, input>>

--------------------------------------------------------------------------------
(* read_file                                                               *)

Sum(s) == FoldSeq(LAMBDA x, acc : x + acc, 0, s)

\* The lines of a range that fit into the output, each with its newline; once
\* one does not fit, none after it is taken.
Page(lines, start, end) ==
    LET last == IF end < Len(lines) THEN end ELSE Len(lines)
        fits == {k \in 0..(last - start + 1) :
                    \A j \in 1..k : Sum(SubSeq(lines, start, start + j - 1)) + j <= MaxOutput}
        n    == IF fits = {} THEN 0 ELSE Max(fits)
    IN  [start |-> start, end |-> start + n - 1, lines |-> SubSeq(lines, start, start + n - 1),
         limited |-> n < last - start + 1, total |-> Len(lines)]

HasMoreAfter(page) == page.end < page.total

\* One call of read_file without end_line, from where the last page ended.
ReadNext ==
    LET start == out.next
        page  == Page(input.lines, start, start + MaxReadLines - 1)
    IN  /\ job = "read" /\ phase = "start"
        /\ out' = [next |-> page.end + 1, seen |-> out.seen \o page.lines,
                   truncated |-> page.limited \/ HasMoreAfter(page)]
        /\ phase' = IF HasMoreAfter(page) THEN "start" ELSE "done"
        /\ UNCHANGED <<job, input>>

--------------------------------------------------------------------------------
(* Searches                                                                *)

\* A result is shown if it is a match or a context line of a file that could
\* be read (_safe_result_path).
Shown(t, rec) ==
    rec.kind # "other" /\ ~Sensitive(rec.path) /\ ~ThroughLink(t, rec.path)

\* record_limit of search_text, with context_lines = 0, and of find_files.
RecordLimit(kind) == IF kind = "text" THEN MaxResults * 4 + RecordSlack ELSE MaxResults + 1

\* Rows of a text search; the files of find_files, sorted and each once.
RowsOf(records) ==
    LET shown == SelectSeq(records, LAMBDA r : Shown(input.tree, r))
        files == SelectSeq(Order, LAMBDA p : \E i \in DOMAIN shown : shown[i].path = p)
    IN  IF input.kind = "text" THEN shown
        ELSE [i \in DOMAIN files |-> [kind |-> "match", path |-> files[i]]]

\* Mutant: a search that was stopped is not reported as truncated.
MutOutcome(records, stopped) ==
    LET rows == RowsOf(records)
    IN  [rows |-> Cut(rows, MaxResults), truncated |-> Len(rows) > MaxResults, error |-> None]

\* search_text and find_files after the process: filter, cut, say so.
Outcome(records, stopped) ==
    LET rows == RowsOf(records)
    IN  [rows |-> Cut(rows, MaxResults), truncated |-> stopped \/ Len(rows) > MaxResults,
         error |-> None]

Failed(code) == [rows |-> <<>>, truncated |-> FALSE, error |-> code]

Enough(n) == n >= RecordLimit(input.kind)

\* _run_records takes what has arrived, a record at a time, up to its limits.
TakeRecord ==
    LET n == out.taken + 1
    IN  /\ job = "search" /\ phase = "running" /\ n <= Len(input.output)
        /\ IF n > MaxRaw
           THEN phase' = "stopped" /\ out' = [out EXCEPT !.process = "killed"]
           ELSE /\ phase' = IF Enough(n) THEN "stopped" ELSE "running"
                /\ out' = [out EXCEPT !.taken = n, !.process = IF Enough(n) THEN "killed" ELSE @]
        /\ UNCHANGED <<job, input>>

\* The end of the output; the process is waited for, and killed if it stays.
EndOfOutput(exits) ==
    /\ job = "search" /\ phase = "running" /\ out.taken = Len(input.output)
    /\ phase' = IF exits THEN "ended" ELSE "failed"
    /\ out' = [out EXCEPT !.process = IF exits THEN "ended" ELSE "killed",
                          !.result = IF exits THEN @ ELSE Failed("timed_out")]
    /\ UNCHANGED <<job, input>>

AtDeadline == [out EXCEPT !.process = "killed", !.result = Failed("timed_out")]

\* The deadline between two chunks.
Deadline ==
    /\ job = "search" /\ phase = "running"
    /\ phase' = "failed" /\ out' = AtDeadline
    /\ UNCHANGED <<job, input>>

\* The result: an exit code other than "found" and "nothing found" is an error
\* unless the search was stopped; a record that is not text spoils everything.
Answer ==
    /\ job = "search" /\ phase \in {"stopped", "ended"}
    /\ LET records == SubSeq(input.output, 1, out.taken)
           stopped == phase = "stopped"
       IN  out' = [out EXCEPT !.result =
                      IF ~stopped /\ input.exit = 2 THEN Failed("command_failed")
                      ELSE IF \E i \in DOMAIN records : records[i].kind = "bytes" THEN Failed("internal_error")
                      ELSE Outcome(records, stopped)]
    /\ phase' = "done"
    /\ UNCHANGED <<job, input>>

--------------------------------------------------------------------------------
(* Git status                                                              *)

\* What git prints with -z: two status letters, a blank, the path; of a rename
\* the old path in a record of its own.
Encode(es) ==
    FlattenSeq([i \in DOMAIN es |->
        es[i].status \o <<" ">> \o es[i].path \o <<"NUL">>
        \o (IF es[i].orig # None THEN es[i].orig \o <<"NUL">> ELSE <<>>)])

\* value.split(b"\0"), without the empty last piece.
Split(bytes) ==
    LET ends == SelectSeq([i \in DOMAIN bytes |-> i], LAMBDA i : bytes[i] = "NUL")
        from(k) == IF k = 1 THEN 1 ELSE ends[k - 1] + 1
        tail == SubSeq(bytes, IF ends = <<>> THEN 1 ELSE ends[Len(ends)] + 1, Len(bytes))
    IN  [k \in DOMAIN ends |-> SubSeq(bytes, from(k), ends[k] - 1)]
        \o (IF tail = <<>> THEN <<>> ELSE <<tail>>)

IsRename(record) == record[1] \in {"R", "C"} \/ record[2] \in {"R", "C"}

\* _parse_porcelain_v1_z; None where it raises.
Decode(bytes) ==
    LET rs == Split(bytes)
        f[i \in 1..(Len(rs) + 2)] ==
            IF i > Len(rs) THEN IF i = Len(rs) + 1 THEN <<>> ELSE None
            ELSE IF Len(rs[i]) < 4 \/ rs[i][3] # " " THEN None
            ELSE LET rename == IsRename(rs[i])
                     rest   == f[IF rename THEN i + 2 ELSE i + 1]
                     entry  == [status |-> SubSeq(rs[i], 1, 2), path |-> SubSeq(rs[i], 4, Len(rs[i])),
                                orig |-> IF rename /\ i < Len(rs) THEN rs[i + 1] ELSE None]
                 IN  IF rest = None THEN None ELSE <<entry>> \o rest
    IN  f[1]

\* _run: at most StatusBytes are looked at.
Limited(bytes) == Cut(bytes, StatusBytes)

\* GitReadService.status: at most StatusEntries entries are returned.
Status ==
    LET bytes == Encode(input.entries)
        got   == Decode(Limited(bytes))
        over  == got # None /\ Len(got) > StatusEntries
    IN  /\ job = "status" /\ phase = "start"
        /\ out' = [entries |-> IF over THEN Cut(got, StatusEntries) ELSE got,
                   truncated |-> Len(bytes) > StatusBytes \/ over]
        /\ phase' = "done"
        /\ UNCHANGED <<job, input>>

--------------------------------------------------------------------------------
(* Text patches                                                            *)

LoneLF(s) == \E i \in DOMAIN s : s[i] = "LF" /\ (i = 1 \/ s[i - 1] # "CR")
LoneCR(s) == \E i \in DOMAIN s : s[i] = "CR" /\ (i = Len(s) \/ s[i + 1] # "LF")
HasCRLF(s) == \E i \in 1..(Len(s) - 1) : s[i] = "CR" /\ s[i + 1] = "LF"

\* _uniform_newline: the newline of a text that has only one kind.
UniformNewline(s) ==
    CASE HasCRLF(s) /\ ~LoneLF(s) /\ ~LoneCR(s) -> <<"CR", "LF">>
      [] ~HasCRLF(s) /\ LoneLF(s) /\ ~LoneCR(s) -> <<"LF">>
      [] ~HasCRLF(s) /\ ~LoneLF(s) /\ LoneCR(s) -> <<"CR">>
      [] OTHER -> None

\* CRLF and CR as LF: what a reader of universal newlines sees.
Normalized(s) ==
    LET kept == SelectSeq([i \in DOMAIN s |-> i],
                          LAMBDA i : ~(s[i] = "LF" /\ i > 1 /\ s[i - 1] = "CR"))
    IN  [k \in DOMAIN kept |-> IF s[kept[k]] = "CR" THEN "LF" ELSE s[kept[k]]]

\* Mutant: the replacement keeps the newlines of the model.
MutAdapted(before, s, isNew) ==
    LET nl == UniformNewline(before)
    IN  IF nl = None \/ isNew THEN s
        ELSE FlattenSeq([i \in DOMAIN Normalized(s) |->
                 IF Normalized(s)[i] = "LF" THEN nl ELSE <<Normalized(s)[i]>>])

\* _adapt_patch_newlines, for old_text and for new_text.
Adapted(before, s, isNew) ==
    LET nl == UniformNewline(before)
    IN  IF nl = None THEN s
        ELSE FlattenSeq([i \in DOMAIN Normalized(s) |->
                 IF Normalized(s)[i] = "LF" THEN nl ELSE <<Normalized(s)[i]>>])

At(s, p, i) == SubSeq(s, i, i + Len(p) - 1) = p
Places(s, p) == {i \in 1..(Len(s) - Len(p) + 1) : At(s, p, i)}

\* str.count does not count overlapping occurrences.
Count(s, p) ==
    LET f[i \in 1..(Len(s) + Len(p) + 1)] ==
            IF i > Len(s) - Len(p) + 1 THEN 0
            ELSE IF At(s, p, i) THEN 1 + f[i + Len(p)] ELSE f[i + 1]
    IN  f[1]

\* TextPatchService.apply up to the write: the new text, or None if refused.
\* A file that does not exist is None; it is created from an empty old_text.
Patched(before, old, new) ==
    LET m == Adapted(before, old, FALSE)
        i == Min(Places(before, m))
        after == SubSeq(before, 1, i - 1) \o Adapted(before, new, TRUE)
                 \o SubSeq(before, i + Len(m), Len(before))
    IN  IF before = None THEN IF old # <<>> \/ new = <<>> THEN None ELSE new
        ELSE IF old = <<>> \/ Count(before, m) # 1 \/ after = before THEN None ELSE after

WriteTarget ==
    LET after == Patched(input.before, input.old, input.new)
    IN  /\ job = "patch" /\ phase = "start"
        /\ IF after = None THEN phase' = "refused" /\ UNCHANGED out
           ELSE phase' = "written" /\ out' = [out EXCEPT !.file = after]
        /\ UNCHANGED <<job, input>>

TakenBack == input.before

\* The journal entry, or the old bytes again; then the receipt and the revision.
WriteJournal(ok) ==
    /\ job = "patch" /\ phase = "written"
    /\ out' = IF ok THEN [out EXCEPT !.receipt = [before |-> input.before, after |-> out.file],
                                     !.revision = @ + 1]
              ELSE [out EXCEPT !.file = TakenBack]
    /\ phase' = IF ok THEN "done" ELSE "refused"
    /\ UNCHANGED <<job, input>>

--------------------------------------------------------------------------------

ToolInit ==
    \/ /\ job = "list" /\ phase = "start" /\ out = None
       /\ input \in [tree : Trees, mode : {"SHOW_MARKED", "REDACT_NAME", "HIDE"}]
    \/ /\ job = "read" /\ phase = "start" /\ input \in [lines : Contents]
       /\ out = [next |-> 1, seen |-> <<>>, truncated |-> FALSE]
    \/ /\ job = "search" /\ phase = "running"
       /\ input \in [tree : Trees, output : Outputs, kind : {"text", "files"}, exit : {0, 2}]
       /\ out = [taken |-> 0, process |-> "running", result |-> None]
    \/ /\ job = "status" /\ phase = "start" /\ input \in [entries : Statuses] /\ out = None
    \/ /\ job = "patch" /\ phase = "start"
       /\ input \in [before : Texts \cup {None}, old : Snippets, new : Snippets]
       /\ out = [file |-> input.before, receipt |-> None, revision |-> 0]

ToolNext ==
    \/ List \/ ReadNext \/ TakeRecord \/ Deadline \/ Answer \/ Status \/ WriteTarget
    \/ \E b \in BOOLEAN : EndOfOutput(b) \/ WriteJournal(b)

\* Calls return: the reader goes on while there is more, and a search has a
\* deadline.
ToolFairness == WF_toolVars(ToolNext)

--------------------------------------------------------------------------------
(* Properties                                                              *)

ToolsTypeOK ==
    /\ job \in {"list", "read", "search", "status", "patch", "none"}
    /\ phase \in {"start", "running", "stopped", "ended", "failed", "written", "done", "refused"}
    /\ job = "read" => out.next <= Len(input.lines) + 1
    /\ job = "search" => out.taken <= RecordLimit(input.kind)

\* A file that show_tree shows from the root without a mark can be read with
\* read_file, and a list or a tree that is not reported as truncated leaves
\* nothing out that can be read (one level, two levels).
ListingTellsWhatCanBeRead ==
    job = "list" /\ phase = "done" =>
        LET tree == out.tree
            rows == {tree.rows[i] : i \in DOMAIN tree.rows}
            top  == {out.top.rows[i] : i \in DOMAIN out.top.rows}
            readable == {p \in {Order[i] : i \in DOMAIN Order} : ReadError(input.tree, p) = None}
        IN  /\ \A r \in rows : r.kind = "file" /\ ~r.marked => r.path \in readable
            /\ ~tree.truncated => \A p \in readable : Len(p) <= 2 => \E r \in rows : r.path = p
            /\ ~out.top.truncated => \A p \in readable : Len(p) = 1 => \E r \in top : r.path = p

\* A reader that asks for the next page until read_file says that nothing
\* follows has seen every line once and in order.
PagesAreSeamless ==
    job = "read" =>
        /\ out.seen = SubSeq(input.lines, 1, out.next - 1)
        /\ phase = "done" => out.seen = input.lines /\ ~out.truncated

\* If every line fits into one output, that reader comes to the end.
ReaderFinishes ==
    (job = "read" /\ \A i \in DOMAIN input.lines : input.lines[i] < MaxOutput) ~> phase = "done"

\* A search result that is not reported as truncated holds every match in the
\* files that may be shown, and nothing else is ever shown.
UntruncatedIsComplete ==
    job = "search" /\ phase = "done" /\ out.result.error = None =>
        LET all  == {input.output[i] : i \in DOMAIN input.output}
            rows == {out.result.rows[i] : i \in DOMAIN out.result.rows}
            may  == {r \in all : r.kind = "match" /\ ReadError(input.tree, r.path) # "path_rejected"}
        IN  /\ rows \subseteq may /\ Len(out.result.rows) <= MaxResults
            /\ ~out.result.truncated => rows = may

\* No search returns, with or without a result, while its process runs.
NoSearchProcessSurvives ==
    job = "search" /\ phase \in {"done", "failed", "stopped"} => out.process \in {"ended", "killed"}

\* What git_status reports is what git printed; when the output was cut, at
\* most the last entry is not one of them.
StatusIsFaithful ==
    job = "status" /\ phase = "done" =>
        LET n == IF out.entries = None THEN 0 ELSE Len(out.entries)
        IN  /\ ~out.truncated => out.entries = input.entries
            /\ n > 1 => IsPrefix(SubSeq(out.entries, 1, n - 1), input.entries)

\* A patch never mixes newlines: a file with one kind of newline keeps it.
NewlineStyleSurvives ==
    job = "patch" /\ input.before # None /\ UniformNewline(input.before) # None =>
        /\ UniformNewline(out.file) \in {UniformNewline(input.before), None}
        /\ UniformNewline(out.file) = None => ~(LoneLF(out.file) \/ LoneCR(out.file) \/ HasCRLF(out.file))

\* A snippet of what read_file shows (newlines as LF) that occurs once in it is
\* never refused, whatever newline the file itself uses.
WhatWasReadCanBePatched ==
    [][ job = "patch" /\ phase = "start" /\ input.before # None /\ UniformNewline(input.before) # None
        /\ input.old # <<>> /\ (\A i \in DOMAIN input.old : input.old[i] # "CR")
        /\ Cardinality(Places(Normalized(input.before), input.old)) = 1
        /\ Normalized(input.new) # input.old
        => phase' = "written" ]_toolVars

\* A patch either leaves a receipt of exactly the file it made, and a new
\* revision, or leaves the file as it was.
PatchLeavesReceiptOrNothing ==
    job = "patch" =>
        /\ phase = "done" => out.receipt = [before |-> input.before, after |-> out.file] /\ out.revision = 1
        /\ phase = "refused" => out.file = input.before /\ out.receipt = None /\ out.revision = 0

\* What the reading tools tell the model is true at every limit and deadline, and
\* they come to an end: listings, pages, search results, status.
ObservationsAreTrue ==
    /\ [](/\ ToolsTypeOK
          /\ ListingTellsWhatCanBeRead
          /\ PagesAreSeamless
          /\ UntruncatedIsComplete
          /\ StatusIsFaithful
          /\ NoSearchProcessSurvives)
    /\ ReaderFinishes

\* A patch fits the text the model was shown, keeps the file's newlines and
\* leaves a receipt or nothing.
PatchesAreExact ==
    /\ [](NewlineStyleSurvives /\ PatchLeavesReceiptOrNothing)
    /\ WhatWasReadCanBePatched
================================================================================
