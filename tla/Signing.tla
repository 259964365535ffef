-------------------------------- MODULE Signing --------------------------------
(***************************************************************************)
(* The ItsDangerous snapshot of examples/eval-repos: a service signs       *)
(* objects, with or without the time, and reads the tokens back while its  *)
(* keys rotate, its digest method is replaced, and its clock moves.        *)
(*                                                                         *)
(* A text is a sequence of pieces; `Dot` is the separator, which no other  *)
(* piece contains (Signer.__init__ refuses a separator of the base64       *)
(* alphabet).  A signature is the piece that names what it was made from:  *)
(* HMAC is taken to be injective.                                          *)
(***************************************************************************)
EXTENDS Integers, Sequences, FiniteSets, TLC

CONSTANTS
    Objects,        \* what is signed
    Dotted,         \* objects whose JSON contains the separator
    Long,           \* objects whose JSON is shorter when compressed
    Salts,
    Serializers,    \* the serializers that issue tokens: with the time or not, URL-safe or JSON
    MaxKey,         \* bound: keys are 1..MaxKey, issued in this order
    MaxTime,        \* bound: the clock
    MaxAges,        \* values of max_age that are used
    NoAge,          \* max_age=None
    MaxTokens       \* bound: tokens that are issued

ASSUME SigningAssumption ==
    /\ Dotted \subseteq Objects /\ Long \subseteq Objects
    /\ Serializers \subseteq [timed : BOOLEAN, urlsafe : BOOLEAN]
    /\ MaxKey \in Nat \ {0} /\ MaxTime \in Nat /\ MaxAges \subseteq Nat /\ NoAge \notin Nat

VARIABLES
    ring,           \* secret_keys, oldest first
    digest,         \* digest_method of the configured signer
    older,          \* digest methods of fallback_signers, in order
    clock,          \* int(time.time())
    issued,         \* tokens with what they were made from
    read            \* history: the last token read, and what came of it

signVars == <<ring, digest, older, clock, issued, read>>

Piece(k, v) == [k |-> k, v |-> v]
Dot == Piece("dot", 0)
IsDot(p) == p.k = "dot"

-------------------------------------------------------------------------------
(* Payloads: Serializer and URLSafeSerializerMixin *)

Json(o) == IF o \in Dotted THEN <<Piece("json", o), Dot, Piece("json", o)>> ELSE <<Piece("json", o)>>

\* dump_payload; a compressed payload is marked by a leading separator.
DumpPayload(kind, o) ==
    IF ~ kind.urlsafe THEN Json(o)
    ELSE IF o \in Long THEN <<Dot, Piece("zipped", Json(o))>>
    ELSE <<Piece("base64", Json(o))>>

NotJson == "BadPayload"
LoadJson(text) ==
    IF \E o \in Objects : text = Json(o) THEN CHOOSE o \in Objects : text = Json(o) ELSE NotJson

\* URLSafeSerializerMixin.load_payload: anything but one encoded piece fails to decode.
LoadUrlSafe(text) ==
    LET decompress == text # <<>> /\ IsDot(text[1])
        body == IF decompress THEN Tail(text) ELSE text
        encoded == IF decompress THEN "zipped" ELSE "base64"
    IN IF Len(body) = 1 /\ body[1].k = encoded THEN LoadJson(body[1].v) ELSE NotJson

LoadPayload(kind, text) == IF kind.urlsafe THEN LoadUrlSafe(text) ELSE LoadJson(text)

-------------------------------------------------------------------------------
(* Signer: one digest method, one or more keys *)

\* derive_key: every derivation but "none" mixes the salt into the key.
DeriveKey(signer, key) == [key |-> key, salt |-> signer.salt, digest |-> signer.digest]

GetSignature(signer, text) ==
    Piece("sig", [by |-> DeriveKey(signer, signer.keys[Len(signer.keys)]), text |-> text])

VerifySignature(signer, text, sig) ==
    /\ sig.k = "sig" /\ sig.v.text = text
    /\ \E i \in DOMAIN signer.keys : sig.v.by = DeriveKey(signer, signer.keys[i])

\* rsplit(sep, 1)
HasDot(text) == \E i \in DOMAIN text : IsDot(text[i])
LastDot(text) == CHOOSE i \in DOMAIN text : IsDot(text[i]) /\ \A j \in DOMAIN text : IsDot(text[j]) => j <= i
BeforeDot(text) == SubSeq(text, 1, LastDot(text) - 1)
Back(text) == SubSeq(text, LastDot(text) + 1, Len(text))

\* exc.py: an error carries the text it could still take apart; BadPayload is no BadSignature.
NoText == <<Piece("none", 0)>>
NoStamp == -1
Error(e, text, at) == [ok |-> FALSE, err |-> e, text |-> text, at |-> at]
Good(text, at) == [ok |-> TRUE, err |-> "", text |-> text, at |-> at]
\* BadSignature and its subclasses BadTimeSignature and SignatureExpired.
Refusals == {"BadSignature", "BadTimeSignature", "SignatureExpired"}

Unsign(signer, text) ==
    IF ~ HasDot(text) THEN Error("BadSignature", NoText, NoStamp)
    ELSE LET sig == Back(text)
         IN IF Len(sig) = 1 /\ VerifySignature(signer, BeforeDot(text), sig[1]) THEN Good(BeforeDot(text), NoStamp)
            ELSE Error("BadSignature", BeforeDot(text), NoStamp)

-------------------------------------------------------------------------------
(* TimestampSigner *)

SignTimed(signer, text, now) ==
    LET stamped == text \o <<Dot, Piece("time", now)>>
    IN stamped \o <<Dot, GetSignature(signer, stamped)>>

Sign(signer, text) == text \o <<Dot, GetSignature(signer, text)>>

\* bytes_to_int(base64_decode(...)): no other piece is at most eight bytes of base64.
Stamp(text) == IF Len(text) = 1 /\ text[1].k = "time" THEN text[1].v ELSE NoStamp

\* The two age checks of unsign.
Expired(at, now, age) == age # NoAge /\ (now - at > age \/ now - at < 0)

UnsignTimed(signer, text, now, age) ==
    LET base == Unsign(signer, text)
        result == base.text
    IN IF result = NoText \/ ~ HasDot(result)
       THEN IF base.ok THEN Error("BadTimeSignature", result, NoStamp) ELSE base
       ELSE LET at == Stamp(Back(result)) IN
            IF ~ base.ok \/ at = NoStamp THEN Error("BadTimeSignature", BeforeDot(result), at)
            ELSE IF Expired(at, now, age) THEN Error("SignatureExpired", BeforeDot(result), at)
            ELSE Good(BeforeDot(result), at)

-------------------------------------------------------------------------------
(* Serializer and TimedSerializer *)

MakeSigner(salt) == [keys |-> ring, salt |-> salt, digest |-> digest]

\* iter_unsigners: the configured signer, then every fallback with every key on its own.
IterUnsigners(salt) ==
    LET n == Len(ring)
    IN <<MakeSigner(salt)>> \o
       [i \in 1..(Len(older) * n) |->
           [keys |-> <<ring[((i - 1) % n) + 1]>>, salt |-> salt, digest |-> older[((i - 1) \div n) + 1]]]

\* dumps
Dumps(kind, o, salt) ==
    LET payload == DumpPayload(kind, o)
    IN IF kind.timed THEN SignTimed(MakeSigner(salt), payload, clock) ELSE Sign(MakeSigner(salt), payload)

\* The signer of the list whose answer is final: the first that does not raise BadSignature.
\* Mutant: an expired signature is passed on to the next signer.
MutFinal(kind, answers) ==
    {i \in DOMAIN answers : answers[i].err \notin Refusals}
Final(kind, answers) ==
    {i \in DOMAIN answers : answers[i].err \notin (IF kind.timed THEN Refusals \ {"SignatureExpired"} ELSE Refusals)}

\* load_payload raises BadPayload, which leaves the loop at once.
Loaded(kind, answer) ==
    IF ~ answer.ok THEN answer @@ [obj |-> NotJson]
    ELSE LET o == LoadPayload(kind, answer.text)
         IN [answer EXCEPT !.ok = o # NotJson, !.err = IF o = NotJson THEN NotJson ELSE ""] @@ [obj |-> o]

\* loads, of either class
Loads(kind, text, salt, age) ==
    LET signers == IterUnsigners(salt)
        answers == [i \in DOMAIN signers |->
                       IF kind.timed THEN UnsignTimed(signers[i], text, clock, age) ELSE Unsign(signers[i], text)]
        final == Final(kind, answers)
    IN Loaded(kind, IF final = {} THEN answers[Len(answers)]
                    ELSE answers[CHOOSE i \in final : \A j \in final : i <= j])

\* _loads_unsafe_impl: what loads refused is still taken apart; BadPayload is not caught.
LoadsUnsafe(kind, text, answer) ==
    IF answer.err \notin Refusals THEN [valid |-> answer.ok, obj |-> answer.obj, raises |-> ~ answer.ok]
    ELSE [valid |-> FALSE, raises |-> FALSE,
          obj |-> IF answer.text = NoText THEN NotJson ELSE LoadPayload(kind, answer.text)]

-------------------------------------------------------------------------------
(* The service over time *)

Nobody == [how |-> "none"]
Idle == read = Nobody

SigningInit ==
    /\ ring = <<1>> /\ digest = "sha1" /\ older = <<>> /\ clock = 0
    /\ issued = {} /\ read = Nobody

\* secret_key=[..., new]: the deployment appends a key, and later drops the oldest.
Rotate == /\ ring[Len(ring)] < MaxKey
          /\ ring' = Append(ring, ring[Len(ring)] + 1)
          /\ Idle /\ UNCHANGED <<digest, older, clock, issued, read>>
Retire == /\ Len(ring) > 1 /\ ring' = Tail(ring)
          /\ Idle /\ UNCHANGED <<digest, older, clock, issued, read>>
\* A new digest_method; the former one becomes a fallback signer.
Upgrade == /\ digest = "sha1" /\ digest' = "sha512" /\ older' = <<digest>>
           /\ Idle /\ UNCHANGED <<ring, clock, issued, read>>
\* time.time() advances, or is set back.
SetClock(t) == /\ clock' = t /\ t # clock
               /\ Idle /\ UNCHANGED <<ring, digest, older, issued, read>>

Issue(kind, o, salt) ==
    /\ Idle /\ Cardinality(issued) < MaxTokens
    /\ issued' = issued \cup {[text |-> Dumps(kind, o, salt), kind |-> kind, obj |-> o, salt |-> salt,
                               key |-> ring[Len(ring)], digest |-> digest, at |-> clock]}
    /\ UNCHANGED <<ring, digest, older, clock, read>>

\* What can happen to a token on its way: nothing, its end is lost, or two of them are mixed up.
Arrivals(tok) ==
    {tok.text} \cup {SubSeq(tok.text, 1, n) : n \in 0..(Len(tok.text) - 1)}
        \cup {BeforeDot(tok.text) \o <<Dot>> \o Back(other.text) : other \in issued}

\* loads and loads_unsafe of one arriving text, by a serializer of either kind.
Read(tok, kind, salt, age) ==
    Idle /\ \E text \in Arrivals(tok) :
        LET answer == Loads(kind, text, salt, age)
        IN /\ read' = [tok |-> tok, how |-> "read", kind |-> kind, salt |-> salt, age |-> age, text |-> text,
                       answer |-> answer, unsafe |-> LoadsUnsafe(kind, text, answer)]
           /\ UNCHANGED <<ring, digest, older, clock, issued>>

Handled == /\ ~ Idle /\ read' = Nobody
           /\ UNCHANGED <<ring, digest, older, clock, issued>>

SigningNext ==
    \/ Rotate \/ Retire \/ Upgrade \/ Handled
    \/ \E t \in 0..MaxTime : SetClock(t)
    \/ \E kind \in Serializers, o \in Objects, salt \in Salts : Issue(kind, o, salt)
    \/ \E tok \in issued, timed \in BOOLEAN, salt \in Salts, age \in MaxAges \cup {NoAge} :
          Read(tok, [tok.kind EXCEPT !.timed = timed], salt, age)

-------------------------------------------------------------------------------
(* Properties *)

\* The ring is never empty and in the order of issue; loads returns an object or raises one of the
\* errors of exc.py.
SigningTypeOK ==
    /\ ring # <<>> /\ \A i \in 1..Len(ring) - 1 : ring[i + 1] = ring[i] + 1
    /\ ring[Len(ring)] \in 1..MaxKey /\ clock \in 0..MaxTime
    /\ digest \in {"sha1", "sha512"} /\ older \in {<<>>, <<"sha1">>}
    /\ \A tok \in issued : tok.kind \in Serializers /\ tok.at \in 0..MaxTime
    /\ read.how = "read" => /\ read.answer.ok = (read.answer.err = "")
                            /\ read.answer.ok = (read.answer.obj \in Objects)
                            /\ read.answer.err \in Refusals \cup {NotJson, ""}

\* A token is accepted by today's configuration.
Known(tok) == /\ \E i \in DOMAIN ring : ring[i] = tok.key
              /\ tok.digest = digest \/ \E i \in DOMAIN older : older[i] = tok.digest
Fresh(tok, age) == age # NoAge => clock - tok.at \in 0..age

\* loads (serializer.py, timed.py): a token that arrives whole is read as the object and the time it
\* was made from, through rotation of the keys and a new digest method, for as long as its key is in
\* the ring and its age is within max_age.
TokensOutliveRotation ==
    (read.how = "read" /\ read.text = read.tok.text /\ read.kind = read.tok.kind /\ read.salt = read.tok.salt
        /\ Known(read.tok) /\ (read.kind.timed => Fresh(read.tok, read.age))) =>
        /\ read.answer.ok /\ read.answer.obj = read.tok.obj
        /\ read.kind.timed => read.answer.at = read.tok.at
        /\ read.unsafe = [valid |-> TRUE, obj |-> read.tok.obj, raises |-> FALSE]

\* loads: nothing else is read.  What is returned was issued as it stands, by a key of the ring, for
\* this salt and this kind of serializer, and is not too old.
OnlyIssuedIsRead ==
    (read.how = "read" /\ read.answer.ok) =>
        \E tok \in issued : /\ read.text = tok.text /\ read.kind = tok.kind /\ read.salt = tok.salt
                            /\ read.answer.obj = tok.obj /\ Known(tok)
                            /\ read.kind.timed => Fresh(tok, read.age)

\* TimedSerializer.loads: a good signature of the wrong age, too old or from the future, is reported
\* as SignatureExpired with the time it was made, whatever fallback signers are left to try.
ExpiryIsFinal ==
    (read.how = "read" /\ read.text = read.tok.text /\ read.kind = read.tok.kind /\ read.salt = read.tok.salt
        /\ read.kind.timed /\ Known(read.tok) /\ ~ Fresh(read.tok, read.age)) =>
        read.answer.err = "SignatureExpired" /\ read.answer.at = read.tok.at

\* loads_unsafe: of a whole token that is refused, because its key left the ring, its salt is another
\* or it expired, the object is still returned, marked as not valid.
RefusedIsStillRecovered ==
    (read.how = "read" /\ read.text = read.tok.text /\ read.kind = read.tok.kind /\ ~ read.answer.ok) =>
        read.unsafe = [valid |-> FALSE, obj |-> read.tok.obj, raises |-> FALSE]

\* Through rotation of keys, a new digest, damage and a moving clock, tokens are read as long as they
\* should be, and nothing else is.
TokensAreSound ==
    /\ SigningTypeOK
    /\ TokensOutliveRotation
    /\ OnlyIssuedIsRead
    /\ ExpiryIsFinal
    /\ RefusedIsStillRecovered
===============================================================================
