------------------------------- MODULE ClickHelp -------------------------------
(***************************************************************************)
(* The short help of a command in the listing of its group                 *)
(* (examples/eval-repos/click/src/click/utils.py,                          *)
(* _make_default_short_help), which the evaluation task                    *)
(* click-short-help-sentences changes.  A word is its length and whether   *)
(* it ends in a full stop; the first paragraph is given.                   *)
(***************************************************************************)
EXTENDS Naturals, Sequences

CONSTANTS
    WordLengths,   \* Lengths of words
    MaxHelpWords,  \* Bound: words of the paragraph
    Limits         \* Lengths the short help may have

VARIABLES
    help,    \* The paragraph, the marker against rewrapping taken off, and the limit
    short    \* What became of it: made or not, how many words, and whether dots were added

helpVars == <<help, short>>

Dots == 3
NotMade == [made |-> FALSE, words |-> 0, cut |-> FALSE]

RECURSIVE Joined(_, _)
\* Length of the first n words with single spaces between them.
Joined(ws, n) == IF n = 0 THEN 0 ELSE Joined(ws, n - 1) + ws[n].length + (IF n > 1 THEN 1 ELSE 0)

\* Words are taken off until the dots fit behind the rest; the first is taken off in any case.
RECURSIVE Shortened(_, _, _)
Shortened(ws, limit, i) == IF i <= 1 THEN 0
                           ELSE IF Joined(ws, i - 1) + Dots <= limit THEN i - 1
                           ELSE Shortened(ws, limit, i - 1)

\* Mutant: a sentence that ends exactly at the limit is cut as well
RECURSIVE MutShortHelp(_, _, _)
MutShortHelp(ws, limit, i) ==
    LET total == Joined(ws, i)
    IN  IF i > Len(ws) THEN [made |-> TRUE, words |-> Len(ws), cut |-> FALSE]
        ELSE IF total > limit \/ (total = limit /\ i # Len(ws)) THEN [made |-> TRUE, words |-> Shortened(ws, limit, i), cut |-> TRUE]
        ELSE IF ws[i].stop THEN [made |-> TRUE, words |-> i, cut |-> FALSE]
        ELSE MutShortHelp(ws, limit, i + 1)

\* The loop over the words from word i on: it stops at the end of a sentence, and where the rest
\* cannot fit any more.
RECURSIVE ShortHelp(_, _, _)
ShortHelp(ws, limit, i) ==
    LET total == Joined(ws, i)
    IN  IF i > Len(ws) THEN [made |-> TRUE, words |-> Len(ws), cut |-> FALSE]
        ELSE IF total > limit THEN [made |-> TRUE, words |-> Shortened(ws, limit, i), cut |-> TRUE]
        ELSE IF ws[i].stop THEN [made |-> TRUE, words |-> i, cut |-> FALSE]
        ELSE IF total = limit /\ i # Len(ws) THEN [made |-> TRUE, words |-> Shortened(ws, limit, i), cut |-> TRUE]
        ELSE ShortHelp(ws, limit, i + 1)

HelpInit ==
    /\ help \in [words : UNION {[1..n -> [length : WordLengths, stop : BOOLEAN]] : n \in 0..MaxHelpWords}, limit : Limits]
    /\ short = NotMade

MakeDefaultShortHelp ==
    /\ ~short.made
    /\ short' = ShortHelp(help.words, help.limit, 1)
    /\ UNCHANGED help

HelpNext == MakeDefaultShortHelp

-----------------------------------------------------------------------------

\* The short help is the first sentence if that fits into the limit, and otherwise the longest
\* beginning of it that fits with the dots behind it (utils.py:63): never a later sentence, never a
\* word less than there is room for.
ShortHelpIsTheFirstSentence ==
    short.made =>
        LET ws == help.words
            stops == {i \in DOMAIN ws : ws[i].stop}
            sentence == IF stops = {} THEN Len(ws) ELSE CHOOSE i \in stops : \A j \in stops : i <= j
            fitting == {k \in 1..Len(ws) : k < sentence /\ Joined(ws, k) + Dots <= help.limit}
        IN  IF Joined(ws, sentence) <= help.limit THEN short.words = sentence /\ ~short.cut
            ELSE short.cut /\ short.words = IF fitting = {} THEN 0 ELSE CHOOSE k \in fitting : \A j \in fitting : j <= k
=============================================================================
