------------------------------- MODULE HttpText -------------------------------
(***************************************************************************)
(* HTTPX's incremental decoders (httpx/_decoders.py) behind Response's     *)
(* iter_bytes, iter_text and iter_lines: a body arrives in pieces the      *)
(* network chose, and what the caller sees must not depend on them.        *)
(*                                                                         *)
(* A text is a sequence of characters: "r" and "n" stand for CR and LF,    *)
(* "f" for the other line boundaries of str.splitlines, "a" for the rest.  *)
(***************************************************************************)
EXTENDS Integers, Sequences, FiniteSets, SequencesExt

CONSTANTS
    MaxText,        \* bound: characters of a body
    MaxPiece,       \* bound: characters of a piece
    ChunkSizes      \* values of chunk_size; 0 is None

ASSUME TextAssumption == MaxText \in Nat /\ MaxPiece \in Nat /\ ChunkSizes \subseteq Nat

VARIABLES
    fed,            \* history: the body so far
    ended,          \* the decoders have been flushed
    size,           \* ByteChunker._chunk_size
    dec,            \* LineDecoder: buffer and trailing_cr
    lines,          \* what iter_lines has yielded
    buf,            \* ByteChunker._buffer
    chunks,         \* what iter_bytes has yielded
    kids,           \* MultiDecoder: what each of two decoders holds back
    plain           \* what MultiDecoder has returned

textVars == <<fed, ended, size, dec, lines, buf, chunks, kids, plain>>

Alphabet == {"a", "f", "n", "r"}
Texts(n) == UNION {[1..k -> Alphabet] : k \in 0..n}
Join(parts) ==
    LET upto[i \in 0..Len(parts)] == IF i = 0 THEN <<>> ELSE upto[i - 1] \o parts[i] IN upto[Len(parts)]

\* str.splitlines: CR LF is one boundary; the last line may end without one.
Splitlines(text) ==
    LET n == Len(text)
        ends == {i \in 1..n : text[i] \in {"n", "f"} \/ (text[i] = "r" /\ ~ (i < n /\ text[i + 1] = "n"))}
        stop(k) == CHOOSE e \in ends : Cardinality({x \in ends : x <= e}) = k
        start(k) == IF k = 1 THEN 1 ELSE stop(k - 1) + 1
        final(e) == IF text[e] = "n" /\ e > 1 /\ text[e - 1] = "r" THEN e - 2 ELSE e - 1
        whole == [k \in 1..Cardinality(ends) |-> SubSeq(text, start(k), final(stop(k)))]
        rest == SubSeq(text, start(Cardinality(ends) + 1), n)
    IN IF rest = <<>> THEN whole ELSE Append(whole, rest)

\* The trailing CR of LineDecoder.decode goes into the next piece.
Carried(cr, piece) ==
    LET text == IF cr THEN <<"r">> \o piece ELSE piece
    IN IF text # <<>> /\ Last(text) = "r" THEN [text |-> SubSeq(text, 1, Len(text) - 1), cr |-> TRUE]
       ELSE [text |-> text, cr |-> FALSE]

\* LineDecoder.decode
DecodeLines(state, piece) ==
    LET c == Carried(state.cr, piece)
        split == Splitlines(c.text)
        newline == Last(c.text) # "a"
        joined == <<state.buffer \o split[1]>> \o Tail(split)
    IN IF c.text = <<>> THEN [state |-> [state EXCEPT !.cr = c.cr], out |-> <<>>]
       ELSE IF newline THEN [state |-> [buffer |-> <<>>, cr |-> c.cr], out |-> joined]
       ELSE [state |-> [buffer |-> Last(joined), cr |-> c.cr], out |-> SubSeq(joined, 1, Len(joined) - 1)]

\* LineDecoder.flush
FlushLines(state) == IF state.buffer = <<>> /\ ~ state.cr THEN <<>> ELSE <<state.buffer>>

\* ByteChunker.decode, TextChunker.decode
DecodeChunks(held, piece) ==
    LET value == held \o piece
        full == Len(value) \div size
    IN IF size = 0 THEN [held |-> <<>>, out |-> IF piece = <<>> THEN <<>> ELSE <<piece>>]
       ELSE [held |-> SubSeq(value, full * size + 1, Len(value)),
             out |-> [i \in 1..full |-> SubSeq(value, (i - 1) * size + 1, i * size)]]
FlushChunks(held) == IF held = <<>> THEN <<>> ELSE <<held>>

\* A decompressor (zlib, brotli, zstandard), as MultiDecoder sees it: it holds the last character
\* back until it is flushed.
Decompress(held, data) ==
    LET all == held \o data
    IN IF all = <<>> THEN [held |-> <<>>, out |-> <<>>]
       ELSE [held |-> <<Last(all)>>, out |-> SubSeq(all, 1, Len(all) - 1)]

\* MultiDecoder.decode: each child decodes what the one before it returned.
DecodeMulti(held, data) ==
    LET one == Decompress(held[1], data)
        two == Decompress(held[2], one.out)
    IN [held |-> <<one.held, two.held>>, out |-> two.out]

\* MultiDecoder.flush: each child decodes what the one before it still had, then gives up the rest.
FlushMulti(held) ==
    LET one == Decompress(held[1], <<>>)
        two == Decompress(held[2], one.out \o one.held)
    IN two.out \o two.held

TextInit ==
    /\ fed = <<>> /\ ended = FALSE /\ size \in ChunkSizes
    /\ dec = [buffer |-> <<>>, cr |-> FALSE] /\ lines = <<>>
    /\ buf = <<>> /\ chunks = <<>> /\ kids = <<<<>>, <<>>>> /\ plain = <<>>

\* The loops of aiter_lines, aiter_bytes: one piece of the body.
Feed(piece) ==
    LET l == DecodeLines(dec, piece)
        c == DecodeChunks(buf, piece)
        m == DecodeMulti(kids, piece)
    IN /\ ~ ended /\ Len(fed) + Len(piece) <= MaxText
       /\ fed' = fed \o piece
       /\ dec' = l.state /\ lines' = lines \o l.out
       /\ buf' = c.held /\ chunks' = chunks \o c.out
       /\ kids' = m.held /\ plain' = plain \o m.out
       /\ UNCHANGED <<ended, size>>

\* The end of these loops: flush.
EndOfBody ==
    /\ ~ ended /\ ended' = TRUE
    /\ lines' = lines \o FlushLines(dec) /\ dec' = [buffer |-> <<>>, cr |-> FALSE]
    /\ chunks' = chunks \o FlushChunks(buf) /\ buf' = <<>>
    /\ plain' = plain \o FlushMulti(kids) /\ kids' = <<<<>>, <<>>>>
    /\ UNCHANGED <<fed, size>>

TextNext == EndOfBody \/ \E piece \in Texts(MaxPiece) : Feed(piece)

\* LineDecoder: however the body was cut, its lines are those of splitlines on the whole body.
LinesDoNotDependOnPieces == ended => lines = Splitlines(fed)

\* ByteChunker, TextChunker: chunks tell the body in order; with a chunk_size each is exactly that
\* long, but for the last one, and none waits longer than it must.
ChunksAreExact ==
    /\ ended => Join(chunks) = fed
    /\ (size > 0 /\ ~ ended) => (\A i \in DOMAIN chunks : Len(chunks[i]) = size) /\ Len(buf) < size

\* MultiDecoder: what stacked decoders hold back comes out at the end, in order.
NothingIsHeldBack == ended => plain = fed

\* What the caller sees of a body does not depend on how the network cut it.
BodiesDecodeExactly ==
    /\ LinesDoNotDependOnPieces
    /\ ChunksAreExact
    /\ NothingIsHeldBack
===============================================================================
