------------------------------ MODULE ClickParams ------------------------------
(***************************************************************************)
(* How a command of the click fixture gives its parameters their values    *)
(* (examples/eval-repos/click/src/click/core.py): from the command line,   *)
(* the environment, the default map, the parameter's default or a prompt.  *)
(* Several parameters may share a name, and then one value.                *)
(*                                                                         *)
(* A value is its origin: what it came from and the parameter that put it  *)
(* there.  What the parser found (module ClickParser), the environment and *)
(* the default map are inputs.                                             *)
(***************************************************************************)
EXTENDS Naturals, FiniteSets, Sequences, TLC

CONSTANTS
    ParamLists,  \* Commands: sequences of parameters, see ParamOK
    Readings,    \* What the variables of a parameter can hold: sequences over RawValues
    MapEntries   \* What the default map can hold for a name: subset of {"absent", "given", "none"}

VARIABLES
    params,      \* The parameters of the command
    inputs,      \* What the user provides: cli, invoked, environ, map, resilient
    ctx,         \* The context: a slot per name with value, source and whether its default was explicit
    todo,        \* Parameters still to be processed, in order
    outcome,     \* "parsing", "parsed", "refused", "aborted"
    consumed,    \* Where each processed parameter found its value
    seen         \* Values of other parameters that callbacks have been shown

paramVars == <<params, inputs, ctx, todo, outcome, consumed, seen>>

RawValues == {"absent", "empty", "good", "bad", "no"}

\* ParameterSource, from the most to the least explicit; 6 stands for none yet.
PROMPT == 1
COMMANDLINE == 2
ENVIRONMENT == 3
DEFAULT_MAP == 4
DEFAULT == 5
NoSource == 6

Value(kind, i) == [kind |-> kind, by |-> i]
UNSET == Value("unset", 0)
Unfilled == [value |-> UNSET, source |-> NoSource, explicit |-> FALSE]

Names == {params[i].name : i \in DOMAIN params}

\* What the constructor accepts and infers: a flag either stores True or a value of its own; only an
\* option that is no flag can have its value left out; an explicit default is any that was passed.
ParamOK(p) == /\ p.flag \in {"no", "bool", "value"} /\ p.default \in {"unset", "none", "given", "true"}
              /\ p.needs => p.flag = "no"
              /\ p.prompt /\ ~p.promptRequired => p.needs \/ p.flag # "no"
DefaultExplicit(p) == p.default # "unset"

ASSUME ParamListsAreProper == \A l \in ParamLists : \A i \in DOMAIN l : ParamOK(l[i])
ASSUME ReadingsAreRaw == Readings \subseteq Seq(RawValues)

(***************************************************************************)
(* Sources.                                                                *)
(***************************************************************************)

\* resolve_envvar_value: the first variable that is not empty, the automatic one last.
ResolveEnvvarValue(reading) ==
    LET full == {j \in DOMAIN reading : reading[j] \notin {"absent", "empty"}}
    IN  IF full = {} THEN "absent" ELSE reading[CHOOSE j \in full : \A k \in full : j <= k]

\* value_from_envvar: a flag with a value of its own is switched by what the variable says; one
\* that says neither yes nor no counts for nothing.
ValueFromEnvvar(p, i, reading) ==
    LET raw == ResolveEnvvarValue(reading)
    IN  IF raw = "absent" THEN UNSET
        ELSE IF p.flag = "value" THEN CASE raw = "good" -> Value("activated", i)
                                        [] raw = "no" -> Value("false", i)
                                        [] OTHER -> UNSET
        ELSE Value(IF raw = "bad" THEN "bad" ELSE IF p.flag = "bool" /\ raw = "no" THEN "false" ELSE "env", i)

\* What the default map says, and whether it says anything.
DefaultMapHas(p) == inputs.map[p.name] # "absent"
LookupDefault(p, i) == IF inputs.map[p.name] = "none" THEN Value("none", i) ELSE Value("map", i)

\* A default nobody wrote: False for a boolean flag, nothing for a repeated one; True asks for the
\* value of a flag that has its own.
ResolveLazyDefault(p, i, v) ==
    IF v.kind = "unset" /\ p.flag # "no" /\ p.multiple /\ ~p.required /\ ~p.prompt THEN Value("empty", i)
    ELSE IF v.kind = "unset" /\ p.flag = "bool" /\ ~p.required THEN Value("false", i)
    ELSE IF v.kind = "true" /\ p.flag = "value" THEN Value("activated", i)
    ELSE v
GetDefault(p, i) ==
    ResolveLazyDefault(p, i, IF DefaultMapHas(p) THEN LookupDefault(p, i)
                             ELSE IF p.default = "unset" THEN UNSET
                             ELSE Value(IF p.default = "given" THEN "default" ELSE p.default, i))

\* What is given on the command line under a name is found by every parameter of that name.
FromCommandLine(p, i) == IF inputs.cli[p.name] = "absent" THEN UNSET
                         ELSE Value(IF p.flag # "no" /\ inputs.cli[p.name] = "good" THEN "activated" ELSE inputs.cli[p.name], i)

Found(v, s) == [value |-> v, source |-> s]

\* Parameter.consume_value
ParameterConsumeValue(p, i) ==
    LET cli == FromCommandLine(p, i)
        env == ValueFromEnvvar(p, i, inputs.environ[i])
    IN  IF cli # UNSET THEN Found(cli, COMMANDLINE)
        ELSE IF env # UNSET THEN Found(env, ENVIRONMENT)
        ELSE IF DefaultMapHas(p) THEN Found(LookupDefault(p, i), DEFAULT_MAP)
        ELSE Found(GetDefault(p, i), DEFAULT)

\* Option.consume_value: a value that was left out, or that only a default gives, is asked for.
FlagActivationValue(p, i) == IF p.flag = "no" THEN Value("none", i) ELSE Value("activated", i)

Asks(p, f) == /\ p.prompt /\ ~inputs.resilient
              /\ \/ f.value.kind = "omitted"
                 \/ (f.value = UNSET \/ f.source >= DEFAULT_MAP) /\ (p.required \/ p.promptRequired)
ConsumeValue(p, i) ==
    LET f == ParameterConsumeValue(p, i)
    IN  IF Asks(p, f) THEN Found(Value("prompted", i), PROMPT)
        ELSE IF f.value.kind = "omitted" THEN Found(FlagActivationValue(p, i), COMMANDLINE)
        ELSE f

(***************************************************************************)
(* Processing.                                                             *)
(***************************************************************************)

\* type_cast_value: a value of the wrong type is refused; none is an empty list of a repeated one.
TypeCastValue(p, v) == IF v.kind = "none" /\ p.multiple THEN [v EXCEPT !.kind = "empty"] ELSE v
ValueIsMissing(p, v) == v.kind = "unset" \/ (p.multiple /\ v.kind = "empty")

\* What a callback is shown of the other parameters: UNSET is hidden behind None meanwhile.
Hidden(v) == IF v.kind = "unset" THEN "none" ELSE v.kind
ShownToCallback == {Hidden(ctx[n].value) : n \in {m \in Names : ctx[m].source # NoSource}}

\* process_value: the value, or that it is refused.
ProcessValue(p, i, v) ==
    LET w == IF v.kind = "unset" THEN (IF p.multiple THEN Value("empty", i) ELSE v) ELSE TypeCastValue(p, v)
    IN  IF v.kind = "bad" THEN [refused |-> TRUE, value |-> UNSET]
        ELSE IF p.required /\ ValueIsMissing(p, w) THEN [refused |-> TRUE, value |-> UNSET]
        ELSE [refused |-> FALSE, value |-> IF p.callback /\ w.kind = "unset" THEN Value("none", i) ELSE w]

\* Mutant: the parameter that is processed last wins, unless it found nothing
MutWins(p, slot, f) == slot.value = UNSET \/ f.source < slot.source \/ f.value # UNSET

\* handle_parse_result: whether a parameter takes the slot several of one name compete for.
Wins(p, slot, f) ==
    \/ slot.value = UNSET
    \/ f.source < slot.source
    \/ f.source = slot.source /\ ~(f.source = DEFAULT /\ slot.explicit /\ ~DefaultExplicit(p))

\* The source is recorded before the value is processed and taken back when the parameter loses; a
\* parameter that is not exposed writes nothing else.
AfterArbitration(p, slot, f, v) ==
    IF ~Wins(p, slot, f) THEN slot
    ELSE IF p.exposed THEN [value |-> v, source |-> f.source, explicit |-> DefaultExplicit(p)]
    ELSE [slot EXCEPT !.source = f.source]

(***************************************************************************)
(* Actions.                                                                *)
(***************************************************************************)

\* iter_params_for_processing: eager ones first, then as they were given, then as they are declared.
Position(invoked, i) == IF \E j \in DOMAIN invoked : invoked[j] = i
                        THEN CHOOSE j \in DOMAIN invoked : invoked[j] = i /\ \A k \in 1..(j - 1) : invoked[k] # i
                        ELSE 99
SortKey(ps, invoked, i) == (IF ps[i].eager THEN 0 ELSE 10000) + 100 * Position(invoked, i) + i
IterParams(ps, invoked) == SortSeq([i \in DOMAIN ps |-> i], LAMBDA i, j : SortKey(ps, invoked, i) < SortKey(ps, invoked, j))

\* The options of a call, in order; the names in it are the ones that were given.
Invocations(ps) == {<<>>} \cup {<<i>> : i \in DOMAIN ps} \cup {<<i, j>> : i, j \in DOMAIN ps}

CliValues(ps, n) == LET same == {i \in DOMAIN ps : ps[i].name = n}
                    IN  {"absent", "good"} \cup (IF \A i \in same : ps[i].flag = "no" THEN {"bad"} ELSE {})
                                           \cup (IF \A i \in same : ps[i].needs THEN {"omitted"} ELSE {})

ParamsInit ==
    /\ params \in ParamLists
    /\ \E cli \in [Names -> {"absent", "good", "bad", "omitted"}], environ \in [DOMAIN params -> Readings],
          map \in [Names -> MapEntries], resilient \in BOOLEAN :
         /\ \A n \in Names : cli[n] \in CliValues(params, n)
         /\ \E invoked \in Invocations(params) :
              /\ {params[invoked[j]].name : j \in DOMAIN invoked} = {n \in Names : cli[n] # "absent"}
              /\ inputs = [cli |-> cli, environ |-> environ, map |-> map, resilient |-> resilient]
              /\ todo = IterParams(params, invoked)
    /\ ctx = [n \in Names |-> Unfilled]
    /\ outcome = "parsing"
    /\ consumed = [i \in DOMAIN params |-> NoSource]
    /\ seen = {}

\* One parameter: found, asked for, processed and put where its name is, unless it is refused; a
\* context that only completes a command line treats a refused value as missing.
HandleParseResult ==
    /\ outcome = "parsing" /\ todo # <<>>
    /\ LET i == Head(todo)
           p == params[i]
           slot == ctx[p.name]
           f == ConsumeValue(p, i)
           r == ProcessValue(p, i, f.value)
       IN  /\ consumed' = [consumed EXCEPT ![i] = f.source]
           /\ seen' = IF p.callback /\ ~r.refused THEN seen \cup ShownToCallback ELSE seen
           /\ IF r.refused /\ ~inputs.resilient
              THEN outcome' = "refused" /\ UNCHANGED ctx
              ELSE ctx' = [ctx EXCEPT ![p.name] = AfterArbitration(p, slot, f, r.value)] /\ UNCHANGED outcome
    /\ todo' = Tail(todo)
    /\ UNCHANGED <<params, inputs>>

\* The user leaves the prompt instead of answering.
PromptIsLeft ==
    /\ outcome = "parsing" /\ todo # <<>>
    /\ LET p == params[Head(todo)] IN Asks(p, ParameterConsumeValue(p, Head(todo)))
    /\ outcome' = "aborted"
    /\ UNCHANGED <<params, inputs, ctx, todo, consumed, seen>>

\* parse_args, once every parameter has been processed: UNSET becomes None.
Parsed == [n \in Names |-> IF ctx[n].source # NoSource /\ ctx[n].value = UNSET
                           THEN [ctx[n] EXCEPT !.value = Value("none", 0)] ELSE ctx[n]]
ParseArgsEnds ==
    /\ outcome = "parsing" /\ todo = <<>>
    /\ ctx' = Parsed
    /\ outcome' = "parsed"
    /\ UNCHANGED <<params, inputs, todo, consumed, seen>>

ParamsNext == HandleParseResult \/ PromptIsLeft \/ ParseArgsEnds

-----------------------------------------------------------------------------

Sharing(n) == {i \in DOMAIN params : params[i].name = n}
AllExposed(n) == \A i \in Sharing(n) : params[i].exposed

\* Of the parameters that share a name, one with the most explicit source gives the value, and that
\* source is the one reported (core.py:2730, handle_parse_result): whatever order the parameters
\* were processed in, and whichever of them were found where.
MostExplicitWins ==
    outcome = "parsed" /\ ~inputs.resilient =>
        \A n \in Names : AllExposed(n) =>
            /\ \A i \in Sharing(n) : ctx[n].source <= consumed[i]
            /\ ctx[n].value.by # 0 => consumed[ctx[n].value.by] = ctx[n].source

\* A value from the command line or the environment is never replaced by one of the default map or
\* a default (core.py:2481, consume_value, says in which order they count).
UserBeatsDefaults ==
    outcome = "parsed" /\ ~inputs.resilient =>
        \A n \in Names : AllExposed(n) =>
            /\ inputs.cli[n] # "absent" => ctx[n].value.kind \notin {"default", "map", "env", "true"}
            /\ (\E i \in Sharing(n) : params[i].flag = "no" /\ \E j \in DOMAIN inputs.environ[i] : inputs.environ[i][j] = "good"
                                      /\ \A k \in 1..(j - 1) : inputs.environ[i][k] \in {"absent", "empty"})
                 => ctx[n].value.kind \notin {"default", "map", "true"}

\* Where nothing but defaults is found, a default somebody wrote beats the False or the empty list
\* a flag gets by itself (core.py:2786).
WrittenDefaultsSurvive ==
    outcome = "parsed" =>
        \A n \in Names :
            (/\ AllExposed(n) /\ \E i \in Sharing(n) : DefaultExplicit(params[i])
             /\ \A i \in Sharing(n) : consumed[i] = DEFAULT)
                => ctx[n].explicit /\ (ctx[n].value.by # 0 => DefaultExplicit(params[ctx[n].value.by]))

\* The marker for "not set" is never shown: not to a callback while the others are being processed,
\* and not to the command (core.py:1372 and :2632).
UnsetIsNeverSeen ==
    /\ "unset" \notin seen
    /\ outcome = "parsed" => \A n \in Names : (\E i \in Sharing(n) : params[i].exposed) => ctx[n].value.kind # "unset"

\* Completing a command line never fails and never asks (core.py:2770, :3628).
CompletionNeverFails == inputs.resilient => outcome \in {"parsing", "parsed"} /\ \A n \in Names : ctx[n].source # PROMPT

\* Of five sources and several parameters of one name, what the user said most explicitly becomes the
\* value, and neither the internal marker nor a completion shows otherwise.
ValuesFollowTheUser ==
    /\ MostExplicitWins
    /\ UserBeatsDefaults
    /\ WrittenDefaultsSurvive
    /\ UnsetIsNeverSeen
    /\ CompletionNeverFails
=============================================================================
