-------------------------------- MODULE Gateway --------------------------------
(***************************************************************************)
(* The model gateway (src/codeagent/model_gateway/, config.py): what a     *)
(* configuration is accepted for, the client it builds, the request that   *)
(* is sent and what the provider's answer becomes, for the real providers; *)
(* and the conversation of FakeLLM.  A tool call of an answer is "ok",     *)
(* "badjson" or "nonobject", for its arguments; a count is Unset where it    *)
(* is missing or no integer.                                               *)
(***************************************************************************)
EXTENDS Integers, Sequences

CONSTANTS
    Models,     \* model names, Unset for the default
    Calls,      \* sequences of tool calls an answer may carry
    Unset

VARIABLES
    gphase,     \* how far the request is
    gin,        \* the configuration and the answer of the provider
    gout        \* what was sent and what it became

gatewayVars == <<gphase, gin, gout>>

--------------------------------------------------------------------------------
(* Configurations: the tables of config.py and those of the clients        *)

Efforts == {"low", "high", "max"}

ResolvedModel(c) == IF c.model # Unset THEN c.model
                    ELSE CASE c.provider = "deepseek" -> "deepseek-v4-flash"
                           [] c.provider = "glm" -> "glm-5.2"
                           [] OTHER -> "fake"

ReasoningModels(provider) == CASE provider = "glm" -> {"glm-5.2", "glm-5.3"}
                               [] provider = "deepseek" -> {"deepseek-v4-flash", "deepseek-v4-pro"}
                               [] OTHER -> {}

\* REASONING_MODEL_EFFORTS, else REASONING_EFFORTS.
AllowedEfforts(c) ==
    CASE c.provider = "glm" /\ ResolvedModel(c) = "glm-5.3" -> Efforts
      [] c.provider = "glm" -> {"high", "max"}
      [] c.provider = "deepseek" -> Efforts
      [] OTHER -> {}

\* ModelConfig.__post_init__
ConfigAccepted(c) ==
    /\ c.provider = "glm" /\ ResolvedModel(c) = "glm-5.3" => c.enabled
    /\ c.effort # Unset => c.effort \in AllowedEfforts(c)
    /\ c.enabled => ResolvedModel(c) \in ReasoningModels(c.provider)

ResolvedEffort(c) == IF ~c.enabled THEN Unset ELSE IF c.effort = Unset THEN "high" ELSE c.effort

\* The constructors, which check again with tables of their own.
DeepSeekBuilds(model, enabled, effort) ==
    enabled => model \in {"deepseek-v4-flash", "deepseek-v4-pro"} /\ effort \in {"low", "high", "max"}

GLMBuilds(model, enabled, effort) ==
    /\ model = "glm-5.3" => enabled
    /\ enabled => \/ model = "glm-5.2" /\ effort \in {"high", "max"}
                  \/ model = "glm-5.3" /\ effort \in {"low", "high", "max"}

\* build_model_client
ClientBuilds(c) ==
    CASE c.provider = "fake" -> TRUE
      [] c.provider = "deepseek" -> DeepSeekBuilds(ResolvedModel(c), c.enabled, ResolvedEffort(c))
      [] c.provider = "glm" -> GLMBuilds(ResolvedModel(c), c.enabled, ResolvedEffort(c))
      [] OTHER -> FALSE

--------------------------------------------------------------------------------
(* Requests and answers                                                    *)

\* OpenAICompatibleClient.complete up to the call.
Kwargs(c, purpose) ==
    [thinking    |-> IF c.enabled THEN "enabled" ELSE "disabled",
     effort      |-> ResolvedEffort(c),
     tool_choice |-> purpose # "context_condenser" /\ ~(c.provider = "deepseek" /\ c.enabled)]

\* allow_extra_body_fallback
MayDropExtraBody(c) == ~c.enabled

\* _first_int
FirstInt(values) ==
    LET ints == {i \in DOMAIN values : values[i] # Unset}
    IN  IF ints = {} THEN Unset ELSE values[CHOOSE i \in ints : \A j \in ints : i <= j]

\* _parse_usage, for one of its counts.
ParseUsage(raw) == IF raw = Unset THEN Unset ELSE [input |-> FirstInt(<<raw.prompt, raw.input>>)]

\* _parse_tool_calls: the first call that is not an object with valid JSON
\* decides for all of them.
FirstBad(calls) == {i \in DOMAIN calls : calls[i] # "ok" /\ \A j \in 1..(i - 1) : calls[j] = "ok"}

\* Mutant: the exception leaves without the usage.
MutParseUsage(a) ==
    LET bad  == FirstBad(a.calls)
        kind == IF a.calls = <<>> THEN "text"
                ELSE IF bad = {} THEN "calls"
                ELSE IF a.calls[CHOOSE i \in bad : TRUE] = "badjson" THEN "malformed" ELSE "text"
    IN  [kind |-> kind, calls |-> IF kind = "calls" THEN a.calls ELSE <<>>,
         usage |-> IF kind = "malformed" THEN Unset ELSE ParseUsage(a.usage), finish |-> a.finish]

\* What complete returns or raises.
Parse(a) ==
    LET bad  == FirstBad(a.calls)
        kind == IF a.calls = <<>> THEN "text"
                ELSE IF bad = {} THEN "calls"
                ELSE IF a.calls[CHOOSE i \in bad : TRUE] = "badjson" THEN "malformed" ELSE "text"
    IN  [kind |-> kind, calls |-> IF kind = "calls" THEN a.calls ELSE <<>>,
         usage |-> ParseUsage(a.usage), finish |-> a.finish]

--------------------------------------------------------------------------------
(* FakeLLM                                                                 *)

\* complete: by the last observation.
FakeReply(seen, readme) ==
    IF seen = <<>> THEN "list_dir"
    ELSE IF seen[Len(seen)] = "list_dir" /\ readme THEN "read_file" ELSE "text"

--------------------------------------------------------------------------------

Configs == [provider : {"fake", "deepseek", "glm"}, model : Models, enabled : BOOLEAN,
            effort : Efforts \cup {Unset}]
Counts == {1, 2, Unset}
Answers == [calls : Calls, usage : {Unset} \cup [prompt : Counts, input : Counts],
            finish : {"stop", "length"}]

\* What is missing is no count of anything.
ASSUME GatewayAssumption == \A n \in Counts : Unset # [input |-> n]

GatewayInit ==
    /\ gin \in [config : Configs, purpose : {"main_agent", "context_condenser"}]
    /\ gphase = "config" /\ gout = Unset

\* ModelConfig, then build_model_client.
Configure ==
    /\ gphase = "config"
    /\ gphase' = IF ~ConfigAccepted(gin.config) THEN "rejected"
                 ELSE IF ~ClientBuilds(gin.config) THEN "unbuilt"
                 ELSE IF gin.config.provider = "fake" THEN "fake" ELSE "built"
    /\ gout' = IF gphase' = "fake" THEN [seen |-> <<>>] ELSE Unset
    /\ UNCHANGED gin

\* The call; a client library that does not know extra_body raises TypeError,
\* and the call is repeated without it where that is allowed.
Send(knowsExtraBody) ==
    LET kw == Kwargs(gin.config, gin.purpose)
    IN  /\ gphase = "built"
        /\ IF knowsExtraBody THEN gphase' = "sent" /\ gout' = kw
           ELSE IF MayDropExtraBody(gin.config)
           THEN gphase' = "sent" /\ gout' = [kw EXCEPT !.thinking = Unset]
           ELSE gphase' = "failed" /\ gout' = Unset
        /\ UNCHANGED gin

Receive(a) ==
    /\ gphase = "sent"
    /\ gphase' = "answered"
    /\ gin' = [answer |-> a]
    /\ gout' = Parse(a)

\* The runner serves FakeLLM's calls until it answers with text.
FakeStep(readme) ==
    /\ gphase = "fake"
    /\ LET reply == FakeReply(gout.seen, readme)
       IN  IF reply = "text" THEN gphase' = "fakeDone" /\ UNCHANGED gout
           ELSE gout' = [seen |-> Append(gout.seen, reply)] /\ UNCHANGED gphase
    /\ UNCHANGED gin

GatewayNext ==
    \/ Configure
    \/ \E b \in BOOLEAN : Send(b) \/ FakeStep(b)
    \/ \E a \in Answers : Receive(a)

GatewaySpec == GatewayInit /\ [][GatewayNext]_gatewayVars

--------------------------------------------------------------------------------
(* Properties                                                              *)

\* A configuration that ModelConfig accepts is never refused by the client it
\* builds: the two sets of tables agree for every model and effort.
AcceptedConfigBuilds == gphase # "unbuilt"

\* With reasoning enabled no request goes out without its thinking mode and an
\* effort the model takes, whatever the installed client library supports.
ReasoningIsNeverDropped ==
    gphase = "sent" /\ gin.config.enabled =>
        /\ gout.thinking = "enabled"
        /\ gout.effort \in Efforts
        /\ gin.config.provider = "glm" /\ gin.config.model \in {Unset, "glm-5.2"} => gout.effort # "low"

\* Whatever an answer becomes - text, calls, an exception - its usage and its
\* finish reason come with it, so the cost of a bad answer is still counted.
UsageIsKept ==
    gphase = "answered" =>
        /\ gout.finish = gin.answer.finish
        /\ LET raw == gin.answer.usage
           IN  raw # Unset => /\ gout.usage # Unset
                             /\ gout.usage.input = IF raw.prompt # Unset THEN raw.prompt ELSE raw.input

\* The calls of an answer are executed all or none: a bad call never leaves the
\* calls before it to be run without it.
CallsAreAllOrNothing ==
    gphase = "answered" => gout.calls \in {<<>>, gin.answer.calls}

\* FakeLLM comes to its answer: it asks for no observation twice.
FakeConverges ==
    gphase = "fake" => Len(gout.seen) <= 2

\* From configuration to answer nothing is lost on the way: an accepted
\* configuration gives a client, a repeated request keeps its reasoning, a bad
\* answer its usage, and calls are run all or none.
ExchangeIsFaithful ==
    /\ AcceptedConfigBuilds
    /\ ReasoningIsNeverDropped
    /\ UsageIsKept
    /\ CallsAreAllOrNothing
    /\ FakeConverges
================================================================================
