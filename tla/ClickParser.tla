------------------------------ MODULE ClickParser ------------------------------
(***************************************************************************)
(* The command-line parser of the click fixture                            *)
(* (examples/eval-repos/click/src/click/parser.py).                        *)
(*                                                                         *)
(* A word of the command line is a sequence of characters, because the     *)
(* parser takes words apart: an option's name and the value attached to it, *)
(* the letters of a cluster of short options.  A behaviour parses one      *)
(* command line word by word; when that succeeds it parses the result once *)
(* more, written out with one option per word and the arguments behind the *)
(* separator.                                                              *)
(***************************************************************************)
EXTENDS Naturals, Integers, Sequences, SequencesExt

CONSTANTS
    Grammars,   \* Parsers that commands have set up, see GrammarOK
    Words,      \* The words a command line is made of: sequences of characters
    MaxWords    \* Bound: words on a command line

VARIABLES
    grammar,    \* The parser
    argv,       \* The command line
    parse,      \* The _ParsingState, with how far the parser has come
    first       \* The result of the first of the two passes; phase "none" during that pass

parserVars == <<grammar, argv, parse, first>>

Marks == {"-", "+"}
Separator == <<"-", "-">>

(***************************************************************************)
(* Options and arguments.                                                  *)
(***************************************************************************)

\* What an option of the command line holds: the words given to it, its constant, or that its value
\* was left out (FLAG_NEEDS_VALUE); UNSET where a flag has none and where an argument found no word.
Given(ws) == [kind |-> "given", words |-> ws, const |-> ""]
Omitted == [kind |-> "omitted", words |-> <<>>, const |-> ""]
Unset == [kind |-> "unset", words |-> <<>>, const |-> ""]
Const(c) == [kind |-> "const", words |-> <<>>, const |-> c]

\* An option name as its prefix, one or two marks, and the rest.
SplitOpt(opt) == IF opt[1] \notin Marks THEN [prefix |-> <<>>, name |-> opt]
                 ELSE IF Len(opt) > 1 /\ opt[2] = opt[1] THEN [prefix |-> SubSeq(opt, 1, 2), name |-> SubSeq(opt, 3, Len(opt))]
                 ELSE [prefix |-> SubSeq(opt, 1, 1), name |-> Tail(opt)]

\* token_normalize_func: here, capitals are read as small letters.
Fold(ch) == IF ch = "A" THEN "a" ELSE ch
NormalizeOpt(opt, g) ==
    IF ~g.folds \/ opt = <<>> THEN opt
    ELSE LET s == SplitOpt(opt) IN s.prefix \o [i \in DOMAIN s.name |-> Fold(s.name[i])]

\* A name is short when it is one mark and one character; every other one is long.
IsShort(opt) == LET s == SplitOpt(opt) IN Len(s.prefix) = 1 /\ Len(s.name) = 1
OptionPrefixes(o) == UNION {LET p == SplitOpt(n).prefix IN {SubSeq(p, 1, 1)} \cup (IF IsShort(n) THEN {} ELSE {p}) :
                            n \in o.names}

TakesValue(o) == o.action \in {"store", "append"}

\* The dictionaries add_option fills: a later option takes over a name an earlier one has.
Declaring(g, opt, short) == {i \in DOMAIN g.options : /\ IsShort(opt) = short
                                                     /\ \E n \in g.options[i].names : NormalizeOpt(n, g) = opt}
OptPrefixes(g) == {<<"-">>, Separator} \cup UNION {OptionPrefixes(g.options[i]) : i \in DOMAIN g.options}
Latest(S) == CHOOSE i \in S : \A j \in S : j <= i

LooksLikeOption(g, word) == Len(word) > 1 /\ SubSeq(word, 1, 1) \in OptPrefixes(g)

\* A parser some command can have: at most one argument takes all that is left, and every option
\* whose value may be left out takes one word and has a long name.
GrammarOK(g) ==
    /\ \A i \in DOMAIN g.options : LET o == g.options[i] IN
         /\ o.names # {} /\ \A n \in o.names : SplitOpt(n).prefix # <<>>
         /\ o.nargs >= 1
         /\ o.omit => o.nargs = 1 /\ TakesValue(o) /\ \E n \in o.names : ~IsShort(n)
    /\ \A i, j \in DOMAIN g.args : g.args[i] < 0 /\ g.args[j] < 0 => i = j
    /\ \A i \in DOMAIN g.args : g.args[i] # 0

ASSUME GrammarsAreProper == \A g \in Grammars : GrammarOK(g)

Dests(g) == {g.options[i].dest : i \in DOMAIN g.options}

\* What parsing puts under a destination: the values, and how often a counting option was given.
NoEntry == [values |-> <<>>, count |-> 0]

\* _Option.process: the value goes to the destination and the option to the order of the call.
Process(p, o, value) ==
    LET e == p.opts[o.dest]
    IN  [p EXCEPT !.log = Append(@, [dest |-> o.dest, names |-> o.names, value |-> value]),
                  !.opts[o.dest] = CASE o.action = "store" -> [e EXCEPT !.values = <<value>>]
                                     [] o.action = "store_const" -> [e EXCEPT !.values = <<Const(o.const)>>]
                                     [] o.action = "append" -> [e EXCEPT !.values = Append(@, value)]
                                     [] o.action = "append_const" -> [e EXCEPT !.values = Append(@, Const(o.const))]
                                     [] o.action = "count" -> [e EXCEPT !.count = @ + 1]]

Failed(p, why) == [p EXCEPT !.error = why]

(***************************************************************************)
(* Options.                                                                *)
(***************************************************************************)

\* The value of an option that takes one, from the words still to come.
GetValue(g, p, o) ==
    IF Len(p.rargs) < o.nargs
    THEN IF o.omit THEN Process(p, o, Omitted) ELSE Failed(p, "needs_value")
    ELSE IF o.nargs = 1 /\ o.omit /\ LooksLikeOption(g, p.rargs[1]) THEN Process(p, o, Omitted)
    ELSE Process([p EXCEPT !.rargs = SubSeq(@, o.nargs + 1, Len(@))], o, Given(SubSeq(p.rargs, 1, o.nargs)))

\* An attached value is the next word.
Prepend(p, word) == [p EXCEPT !.rargs = <<word>> \o @]

\* A long option, with the value written behind an equals sign (a sequence of none or one word).
MatchLongOpt(g, p, opt, explicit) ==
    LET found == Declaring(g, opt, FALSE)
        o == g.options[Latest(found)]
    IN  IF found = {} THEN Failed(p, "no_such_option")
        ELSE IF TakesValue(o) THEN GetValue(g, IF explicit = <<>> THEN p ELSE Prepend(p, explicit[1]), o)
        ELSE IF explicit # <<>> THEN Failed(p, "takes_no_value")
        ELSE Process(p, o, Unset)

\* Mutant: an unknown letter ends the cluster and the rest of the word is dropped
RECURSIVE MutMatchShortOpt(_, _, _, _, _)
MutMatchShortOpt(g, p, arg, i, unknown) ==
    LET opt == NormalizeOpt(<<arg[1], arg[i]>>, g)
        found == Declaring(g, opt, TRUE)
        o == g.options[Latest(found)]
        rest == SubSeq(arg, i + 1, Len(arg))
    IN  IF p.error # "" THEN p
        ELSE IF i > Len(arg) THEN IF unknown = <<>> THEN p ELSE [p EXCEPT !.largs = Append(@, <<arg[1]>> \o unknown)]
        ELSE IF found = {} THEN IF g.ignores THEN [p EXCEPT !.largs = Append(@, <<arg[1]>> \o Append(unknown, arg[i]))]
                                ELSE Failed(p, "no_such_option")
        ELSE IF ~TakesValue(o) THEN MutMatchShortOpt(g, Process(p, o, Unset), arg, i + 1, unknown)
        ELSE IF rest = <<>> THEN MutMatchShortOpt(g, GetValue(g, p, o), arg, i + 1, unknown)
        ELSE MutMatchShortOpt(g, GetValue(g, Prepend(p, rest), o), arg, Len(arg) + 1, unknown)

\* A cluster of short options from character i on: an option that takes a value takes the rest of
\* the word; letters that mean nothing are put back together as a word of their own where such
\* options are ignored.
RECURSIVE MatchShortOpt(_, _, _, _, _)
MatchShortOpt(g, p, arg, i, unknown) ==
    LET opt == NormalizeOpt(<<arg[1], arg[i]>>, g)
        found == Declaring(g, opt, TRUE)
        o == g.options[Latest(found)]
        rest == SubSeq(arg, i + 1, Len(arg))
    IN  IF p.error # "" THEN p
        ELSE IF i > Len(arg) THEN IF unknown = <<>> THEN p ELSE [p EXCEPT !.largs = Append(@, <<arg[1]>> \o unknown)]
        ELSE IF found = {} THEN IF g.ignores THEN MatchShortOpt(g, p, arg, i + 1, Append(unknown, arg[i]))
                                ELSE Failed(p, "no_such_option")
        ELSE IF ~TakesValue(o) THEN MatchShortOpt(g, Process(p, o, Unset), arg, i + 1, unknown)
        ELSE IF rest = <<>> THEN MatchShortOpt(g, GetValue(g, p, o), arg, i + 1, unknown)
        ELSE MatchShortOpt(g, GetValue(g, Prepend(p, rest), o), arg, Len(arg) + 1, unknown)

\* An option word: a long option first, whatever its prefix; then, unless it begins with a prefix
\* of two characters, a cluster of short ones.
ProcessOpts(g, p, arg) ==
    LET eq == {i \in DOMAIN arg : arg[i] = "="}
        at == CHOOSE i \in eq : \A j \in eq : i <= j
        long == IF eq = {} THEN arg ELSE SubSeq(arg, 1, at - 1)
        explicit == IF eq = {} THEN <<>> ELSE <<SubSeq(arg, at + 1, Len(arg))>>
        p1 == MatchLongOpt(g, p, NormalizeOpt(long, g), explicit)
    IN  IF p1.error # "no_such_option" THEN p1
        ELSE IF SubSeq(arg, 1, 2) \notin OptPrefixes(g) THEN MatchShortOpt(g, p, arg, 2, <<>>)
        ELSE IF g.ignores THEN [p EXCEPT !.largs = Append(@, arg)]
        ELSE p1

(***************************************************************************)
(* Arguments.                                                              *)
(***************************************************************************)

Least(a, b) == IF a < b THEN a ELSE b
RECURSIVE FetchLast(_, _)
\* The arguments behind the one that takes all the rest, filled from the end of the words.
FetchLast(words, spec) ==
    IF spec = <<>> THEN [values |-> <<>>, rest |-> words]
    ELSE LET n == Least(Last(spec), Len(words))
             r == FetchLast(SubSeq(words, 1, Len(words) - n), Front(spec))
         IN  [r EXCEPT !.values = Append(@, SubSeq(words, Len(words) - n + 1, Len(words)))]

\* _unpack_args: the words of every argument and those left over; an argument has fewer words than
\* it takes where they ran out.
RECURSIVE UnpackArgs(_, _)
UnpackArgs(words, spec) ==
    IF spec = <<>> THEN [values |-> <<>>, rest |-> words]
    ELSE IF Head(spec) < 0
    THEN LET r == FetchLast(words, Tail(spec)) IN [values |-> <<r.rest>> \o r.values, rest |-> <<>>]
    ELSE LET n == Least(Head(spec), Len(words))
             r == UnpackArgs(SubSeq(words, n + 1, Len(words)), Tail(spec))
         IN  [r EXCEPT !.values = <<SubSeq(words, 1, n)>> \o @]

\* _Argument.process: an argument of several words has all of them or none.
ArgumentValue(words) == IF words = <<>> THEN Unset ELSE Given(words)
Incomplete(words, nargs) == nargs > 1 /\ Len(words) \notin {0, nargs}

\* _process_args_for_args
ProcessArgs(g, p) ==
    LET u == UnpackArgs(p.largs \o p.rargs, g.args)
    IN  IF \E i \in DOMAIN g.args : Incomplete(u.values[i], g.args[i]) THEN Failed(p, "incomplete_argument")
        ELSE [p EXCEPT !.arguments = [i \in DOMAIN g.args |-> ArgumentValue(u.values[i])],
                       !.largs = u.rest, !.rargs = <<>>, !.phase = "done"]

(***************************************************************************)
(* Parsing.                                                                *)
(***************************************************************************)

ParsingState(g, words) == [phase |-> "options", rargs |-> words, largs |-> <<>>, log |-> <<>>, arguments |-> <<>>,
                           opts |-> [d \in Dests(g) |-> NoEntry], error |-> ""]
NotParsed == [phase |-> "none", rargs |-> <<>>, largs |-> <<>>, log |-> <<>>, arguments |-> <<>>, opts |-> <<>>, error |-> ""]

\* parse_args: a usage error leaves the parser, unless the context only completes a command line.
Settle(g, p) == IF p.error = "" THEN p ELSE [p EXCEPT !.phase = IF g.resilient THEN "cut_short" ELSE "refused"]

ParserInit ==
    /\ grammar \in Grammars
    /\ argv \in UNION {[1..n -> Words] : n \in 0..MaxWords}
    /\ parse = ParsingState(grammar, argv)
    /\ first = NotParsed

\* One pass of _process_args_for_options: the separator and, without interspersed arguments, the
\* first word that is no option end the options.
ParseWord ==
    /\ parse.phase = "options" /\ parse.rargs # <<>>
    /\ LET arg == parse.rargs[1]
           p == [parse EXCEPT !.rargs = Tail(@)]
       IN  parse' = IF arg = Separator THEN [p EXCEPT !.phase = "args"]
                    ELSE IF LooksLikeOption(grammar, arg) THEN Settle(grammar, ProcessOpts(grammar, p, arg))
                    ELSE IF grammar.interspersed THEN [p EXCEPT !.largs = Append(@, arg)]
                    ELSE [parse EXCEPT !.phase = "args"]
    /\ UNCHANGED <<grammar, argv, first>>

ParseArguments ==
    /\ parse.phase = "args" \/ (parse.phase = "options" /\ parse.rargs = <<>>)
    /\ parse' = Settle(grammar, ProcessArgs(grammar, parse))
    /\ UNCHANGED <<grammar, argv, first>>

\* The result written out: an option's long name if it has one, its words behind it (behind an
\* equals sign where the value may be left out), then the separator and what was no option.
LongName(names) == CHOOSE n \in names : (\A m \in names : IsShort(m)) \/ ~IsShort(n)
WrittenOption(e) ==
    LET o == CHOOSE o \in {grammar.options[i] : i \in DOMAIN grammar.options} : o.dest = e.dest /\ o.names = e.names
        n == LongName(e.names)
    IN  IF e.value.kind # "given" THEN <<n>>
        ELSE IF o.omit THEN <<Append(n, "=") \o e.value.words[1]>>
        ELSE <<n>> \o e.value.words
Written(p) == FlattenSeq([i \in DOMAIN p.log |-> WrittenOption(p.log[i])]) \o <<Separator>>
              \o FlattenSeq([i \in DOMAIN p.arguments |-> p.arguments[i].words]) \o p.largs

ParseAgain ==
    /\ parse.phase = "done" /\ first.phase = "none"
    /\ first' = parse
    /\ parse' = ParsingState(grammar, Written(parse))
    /\ UNCHANGED <<grammar, argv>>

ParserNext == ParseWord \/ ParseArguments \/ ParseAgain

-----------------------------------------------------------------------------

\* A parsed command line, written out plainly, parses to the same options, arguments and left-over
\* words (parser.py:281, parse_args): clusters, attached values and values left out lose and gain
\* nothing.
NormalFormIsStable ==
    first.phase # "none" =>
        /\ parse.phase \notin {"refused", "cut_short"}
        /\ parse.phase = "done" => parse.opts = first.opts /\ parse.log = first.log
                                   /\ parse.arguments = first.arguments /\ parse.largs = first.largs

LetterCount(w) == Len(SelectSeq(w, LAMBDA ch : ch \notin Marks \cup {"="}))
Total(ws) == LetterCount(FlattenSeq(ws))

\* Every letter of the command line is used exactly once: as the name of an option that was
\* recorded, in a value, in an argument, or in a word that is left over (parser.py:402 and :471).
\* Option names have one letter here.
NothingIsLost ==
    parse.phase \in {"options", "args", "done"} /\ first.phase = "none" =>
        Total(argv) = Len(parse.log) + Total(FlattenSeq([i \in DOMAIN parse.log |-> parse.log[i].value.words]))
                      + Total(FlattenSeq([i \in DOMAIN parse.arguments |-> parse.arguments[i].words]))
                      + Total(parse.largs) + Total(parse.rargs)

\* Arguments get their words in the order they were written (parser.py:51, _unpack_args): also the
\* ones behind an argument that takes all the rest.
ArgumentsKeepTheirOrder ==
    parse.phase = "done" /\ first.phase = "none" /\ ~grammar.ignores =>
        LET ws == FlattenSeq([i \in DOMAIN parse.arguments |-> parse.arguments[i].words]) \o parse.largs
        IN  \E at \in [DOMAIN ws -> DOMAIN argv] : /\ \A i \in DOMAIN ws : argv[at[i]] = ws[i]
                                                  /\ \A i, j \in DOMAIN ws : i < j => at[i] < at[j]

\* Behind the separator, and without interspersed arguments behind the first argument, nothing is an
\* option (parser.py:316): the words reach the arguments, or a subcommand, as they were written.
RestIsUntouched ==
    parse.phase = "done" /\ first.phase = "none" =>
        LET ws == FlattenSeq([i \in DOMAIN parse.arguments |-> parse.arguments[i].words]) \o parse.largs
            plain(i) == \A j \in 1..i : ~LooksLikeOption(grammar, argv[j])
        IN  /\ \A i \in DOMAIN argv : grammar.interspersed /\ argv[i] = Separator /\ plain(i - 1) =>
                   ws = SubSeq(argv, 1, i - 1) \o SubSeq(argv, i + 1, Len(argv)) /\ parse.log = <<>>
            /\ ~grammar.interspersed /\ argv # <<>> /\ plain(1) => ws = argv /\ parse.log = <<>>

\* Every character of a command line is accounted for, arguments keep their order, what is not to be
\* parsed is not, and the normal form of a result parses to it again.
ParsingIsFaithful ==
    /\ NormalFormIsStable
    /\ NothingIsLost
    /\ ArgumentsKeepTheirOrder
    /\ RestIsUntouched
=============================================================================
