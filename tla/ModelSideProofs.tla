--------------------------- MODULE ModelSideProofs ---------------------------
(***************************************************************************)
(* Proofs about what the model is told and asked: the gateway, for any     *)
(* model names and any tool calls of an answer, and the preparation of a   *)
(* context, for any sizes, budgets and limits.                             *)
(***************************************************************************)
EXTENDS Gateway, Condensation, NaturalsInduction, WellFoundedInduction, SequenceTheorems, TLAPS

-----------------------------------------------------------------------------
(* The gateway *)

\* A request goes out of a real provider's client, for a configuration that
\* was accepted, and its effort is the one the configuration resolves to.
OnTheWay ==
    /\ gin.config \in Configs
    /\ ConfigAccepted(gin.config)
    /\ gin.config.provider # "fake"

\* The request, unless extra_body was dropped, which is never done with
\* reasoning enabled.
SentAsConfigured ==
    /\ gin.config.enabled => gout.thinking = "enabled"
    /\ gout.effort = ResolvedEffort(gin.config)

FakeTalks == {<<>>, <<"list_dir">>, <<"list_dir", "read_file">>}

GatewayInv ==
    /\ gphase \in {"config", "rejected", "built", "fake", "fakeDone", "failed", "sent", "answered"}
    /\ gphase = "config" => gin.config \in Configs
    /\ gphase = "built" => OnTheWay
    /\ gphase = "sent" => OnTheWay /\ SentAsConfigured
    /\ gphase = "fake" => gout.seen \in FakeTalks
    /\ gphase = "answered" => gin.answer \in Answers /\ gout = Parse(gin.answer)

USE DEF Configs, Efforts

\* ModelConfig accepts no more than the clients take: their tables agree.
LEMMA TablesAgree ==
    ASSUME NEW c \in Configs, ConfigAccepted(c)
    PROVE  ClientBuilds(c)
  <1>1. CASE c.provider = "fake"
    BY <1>1 DEF ClientBuilds
  <1>2. CASE c.provider = "deepseek"
    <2>1. ResolvedEffort(c) \in Efforts \/ ~ c.enabled
      BY <1>2 DEF ResolvedEffort, ConfigAccepted, AllowedEfforts
    <2>2. c.enabled => ResolvedModel(c) \in {"deepseek-v4-flash", "deepseek-v4-pro"}
      BY <1>2 DEF ConfigAccepted, ReasoningModels
    <2> QED BY <1>2, <2>1, <2>2 DEF ClientBuilds, DeepSeekBuilds
  <1>3. CASE c.provider = "glm"
    <2>1. c.enabled => ResolvedModel(c) \in {"glm-5.2", "glm-5.3"}
      BY <1>3 DEF ConfigAccepted, ReasoningModels
    <2>2. ResolvedModel(c) = "glm-5.3" => c.enabled
      BY <1>3 DEF ConfigAccepted
    <2>3. ASSUME c.enabled, c.effort # Unset
          PROVE  /\ c.effort \in Efforts
                 /\ ResolvedModel(c) # "glm-5.3" => c.effort \in {"high", "max"}
      BY <1>3, <2>3 DEF ConfigAccepted, AllowedEfforts
    <2>4. c.enabled => /\ ResolvedEffort(c) \in Efforts
                       /\ ResolvedModel(c) # "glm-5.3" => ResolvedEffort(c) \in {"high", "max"}
      BY <2>3 DEF ResolvedEffort
    <2> QED BY <1>3, <2>1, <2>2, <2>4 DEF ClientBuilds, GLMBuilds
  <1> QED BY <1>1, <1>2, <1>3

\* The effort that is sent with reasoning enabled.
LEMMA EffortIsTaken ==
    ASSUME NEW c \in Configs, ConfigAccepted(c), c.provider # "fake", c.enabled
    PROVE  /\ ResolvedEffort(c) \in Efforts
           /\ c.provider = "glm" /\ c.model \in {Unset, "glm-5.2"} => ResolvedEffort(c) # "low"
  <1>1. c.effort # Unset => c.effort \in AllowedEfforts(c)
    BY DEF ConfigAccepted
  <1>2. AllowedEfforts(c) \subseteq Efforts
    BY DEF AllowedEfforts
  <1>3. ASSUME c.provider = "glm", c.model \in {Unset, "glm-5.2"}
        PROVE  "low" \notin AllowedEfforts(c)
    BY <1>3 DEF AllowedEfforts, ResolvedModel
  <1> QED BY <1>1, <1>2, <1>3 DEF ResolvedEffort

LEMMA FirstOfTwo ==
    ASSUME NEW a, NEW b
    PROVE  FirstInt(<<a, b>>) = IF a # Unset THEN a ELSE b
  <1> DEFINE v == <<a, b>>
             ints == {i \in DOMAIN v : v[i] # Unset}
             first == CHOOSE i \in ints : \A j \in ints : i <= j
  <1>1. DOMAIN v = {1, 2} /\ v[1] = a /\ v[2] = b
    OBVIOUS
  <1>2. CASE a # Unset
    <2>1. 1 \in ints /\ ints \subseteq {1, 2}
      BY <1>1, <1>2
    <2>2. first \in ints /\ \A j \in ints : first <= j
      BY <2>1
    <2>3. first = 1
      BY <2>1, <2>2
    <2> QED BY <1>1, <1>2, <2>1, <2>3 DEF FirstInt
  <1>3. CASE a = Unset /\ b # Unset
    <2>1. ints = {2}
      BY <1>1, <1>3
    <2>2. first = 2
      BY <2>1
    <2> QED BY <1>1, <1>3, <2>1, <2>2 DEF FirstInt
  <1>4. CASE a = Unset /\ b = Unset
    <2>1. ints = {}
      BY <1>1, <1>4
    <2> QED BY <1>4, <2>1 DEF FirstInt
  <1> QED BY <1>2, <1>3, <1>4

\* What an answer becomes keeps its usage, and its calls or none.
LEMMA ParseKeeps ==
    ASSUME NEW a \in Answers
    PROVE  /\ Parse(a).finish = a.finish
           /\ Parse(a).calls \in {<<>>, a.calls}
           /\ a.usage # Unset =>
                /\ Parse(a).usage # Unset
                /\ Parse(a).usage.input = IF a.usage.prompt # Unset THEN a.usage.prompt ELSE a.usage.input
  <1>1. Parse(a).finish = a.finish /\ Parse(a).usage = ParseUsage(a.usage)
    BY DEF Parse
  <1>2. Parse(a).calls \in {<<>>, a.calls}
    BY DEF Parse
  <1>3. ASSUME a.usage # Unset
        PROVE  /\ ParseUsage(a.usage) # Unset
               /\ ParseUsage(a.usage).input = IF a.usage.prompt # Unset THEN a.usage.prompt ELSE a.usage.input
    <2> DEFINE n == FirstInt(<<a.usage.prompt, a.usage.input>>)
    <2>1. a.usage \in [prompt : Counts, input : Counts]
      BY <1>3 DEF Answers
    <2>2. n = IF a.usage.prompt # Unset THEN a.usage.prompt ELSE a.usage.input
      BY FirstOfTwo
    <2>3. n \in Counts
      BY <2>1, <2>2
    <2>4. ParseUsage(a.usage) = [input |-> n]
      BY <1>3 DEF ParseUsage
    <2>5. Unset # [input |-> n]
      BY <2>3, GatewayAssumption
    <2> QED BY <2>2, <2>4, <2>5
  <1> QED BY <1>1, <1>2, <1>3

LEMMA ShortSequences ==
    ASSUME NEW x, NEW y
    PROVE  /\ Len(<<>>) = 0 /\ Len(<<x>>) = 1 /\ Len(<<x, y>>) = 2
           /\ Append(<<x>>, y) = <<x, y>>
  <1>1. Len(<<>>) = 0 /\ Len(<<x>>) = 1 /\ Len(<<x, y>>) = 2
    OBVIOUS
  <1>2. <<x>> \in Seq({x, y}) /\ <<x, y>> \in Seq({x, y})
    OBVIOUS
  <1>3. Append(<<x>>, y) \in Seq({x, y}) /\ Len(Append(<<x>>, y)) = 2
    BY <1>1, <1>2
  <1>4. Append(<<x>>, y)[1] = x /\ Append(<<x>>, y)[2] = y
    BY <1>1, <1>2
  <1>5. Append(<<x>>, y) = <<x, y>>
    <2> DEFINE s == Append(<<x>>, y)
               t == <<x, y>>
               S == {x, y}
    <2>1. s \in Seq(S) /\ t \in Seq(S) /\ Len(s) = Len(t)
      BY <1>1, <1>2, <1>3
    <2>2. \A i \in 1..Len(s) : s[i] = t[i]
      BY <1>3, <1>4
    <2> HIDE DEF s, t, S
    <2>3. s = t
      BY <2>1, <2>2, SeqEqual
    <2> QED BY <2>3 DEF s, t
  <1> QED BY <1>1, <1>5

LEMMA GatewayInitInv == GatewayInit => GatewayInv
  BY DEF GatewayInit, GatewayInv

LEMMA GatewayStepInv == GatewayInv /\ [GatewayNext]_gatewayVars => GatewayInv'
  <1> SUFFICES ASSUME GatewayInv, [GatewayNext]_gatewayVars PROVE GatewayInv'
    OBVIOUS
  <1>1. CASE Configure
    <2>1. gphase = "config" /\ gin' = gin /\ gin.config \in Configs
      BY <1>1 DEF Configure, GatewayInv
    <2>2. ConfigAccepted(gin.config) => ClientBuilds(gin.config)
      BY <2>1, TablesAgree
    <2>3. gphase' = IF ~ ConfigAccepted(gin.config) THEN "rejected"
                    ELSE IF gin.config.provider = "fake" THEN "fake" ELSE "built"
      BY <1>1, <2>2 DEF Configure
    <2>4. gphase' = "fake" => gout'.seen = <<>>
      BY <1>1 DEF Configure
    <2>5. gphase' = "built" => ConfigAccepted(gin.config) /\ gin.config.provider # "fake"
      BY <2>3
    <2>6. gphase' \in {"rejected", "fake", "built"}
      BY <2>3
    <2> QED BY <2>1, <2>4, <2>5, <2>6 DEF GatewayInv, OnTheWay, FakeTalks
  <1>2. ASSUME NEW b \in BOOLEAN, Send(b) PROVE GatewayInv'
    <2>1. OnTheWay /\ gin' = gin /\ OnTheWay'
      BY <1>2 DEF Send, GatewayInv, OnTheWay
    <2>2. CASE b
      BY <1>2, <2>1, <2>2 DEF Send, GatewayInv, SentAsConfigured, Kwargs
    <2>3. CASE ~ b /\ MayDropExtraBody(gin.config)
      <3>1. gphase' = "sent" /\ gout'.effort = ResolvedEffort(gin.config) /\ ~ gin.config.enabled
        BY <1>2, <2>3 DEF Send, Kwargs, MayDropExtraBody
      <3> QED BY <2>1, <3>1 DEF GatewayInv, SentAsConfigured
    <2>4. CASE ~ b /\ ~ MayDropExtraBody(gin.config)
      BY <1>2, <2>4 DEF Send, GatewayInv
    <2> QED BY <2>2, <2>3, <2>4
  <1>3. ASSUME NEW b \in BOOLEAN, FakeStep(b) PROVE GatewayInv'
    <2>1. gphase = "fake" /\ gout.seen \in FakeTalks
      BY <1>3 DEF FakeStep, GatewayInv
    <2>2. CASE FakeReply(gout.seen, b) = "text"
      BY <1>3, <2>2 DEF FakeStep, GatewayInv
    <2>3. CASE FakeReply(gout.seen, b) # "text"
      <3>1. gphase' = "fake" /\ gout'.seen = Append(gout.seen, FakeReply(gout.seen, b))
        BY <1>3, <2>1, <2>3 DEF FakeStep
      <3>2. CASE gout.seen = <<>>
        BY <3>1, <3>2 DEF FakeReply, FakeTalks, GatewayInv
      <3>3. CASE gout.seen = <<"list_dir">>
        <4>1. gout.seen # <<>> /\ gout.seen[Len(gout.seen)] = "list_dir"
          BY <3>3
        <4>2. FakeReply(gout.seen, b) = "read_file"
          BY <2>3, <4>1 DEF FakeReply
        <4>3. gout'.seen = <<"list_dir", "read_file">>
          BY <3>1, <3>3, <4>2, ShortSequences, Zenon
        <4> QED BY <3>1, <4>3 DEF FakeTalks, GatewayInv
      <3>4. CASE gout.seen = <<"list_dir", "read_file">>
        <4>1. gout.seen # <<>> /\ gout.seen[Len(gout.seen)] = "read_file"
          BY <3>4
        <4> QED BY <2>3, <4>1 DEF FakeReply
      <3> QED BY <2>1, <3>2, <3>3, <3>4 DEF FakeTalks
    <2> QED BY <2>2, <2>3
  <1>4. ASSUME NEW a \in Answers, Receive(a) PROVE GatewayInv'
    <2>1. gphase' = "answered" /\ gin'.answer = a /\ gout' = Parse(a)
      BY <1>4 DEF Receive
    <2> QED BY <2>1 DEF GatewayInv
  <1>5. CASE UNCHANGED gatewayVars
    BY <1>5 DEF gatewayVars, GatewayInv, OnTheWay, SentAsConfigured
  <1> QED BY <1>1, <1>2, <1>3, <1>4, <1>5 DEF GatewayNext

LEMMA GatewayInvIsFaithful == GatewayInv => ExchangeIsFaithful
  <1> SUFFICES ASSUME GatewayInv PROVE ExchangeIsFaithful
    OBVIOUS
  <1>1. AcceptedConfigBuilds
    BY DEF AcceptedConfigBuilds, GatewayInv
  <1>2. ReasoningIsNeverDropped
    BY EffortIsTaken DEF ReasoningIsNeverDropped, GatewayInv, OnTheWay, SentAsConfigured
  <1>3. UsageIsKept /\ CallsAreAllOrNothing
    <2> SUFFICES ASSUME gphase = "answered" PROVE UsageIsKept /\ CallsAreAllOrNothing
      BY DEF UsageIsKept, CallsAreAllOrNothing
    <2>1. gin.answer \in Answers /\ gout = Parse(gin.answer)
      BY DEF GatewayInv
    <2> HIDE DEF Efforts, Configs
    <2>2. /\ gout.finish = gin.answer.finish
          /\ gout.calls \in {<<>>, gin.answer.calls}
          /\ gin.answer.usage # Unset =>
                /\ gout.usage # Unset
                /\ gout.usage.input = IF gin.answer.usage.prompt # Unset THEN gin.answer.usage.prompt
                                      ELSE gin.answer.usage.input
      BY <2>1, ParseKeeps
    <2> QED BY <2>2 DEF UsageIsKept, CallsAreAllOrNothing
  <1>4. FakeConverges
    <2>1. \A s \in FakeTalks : Len(s) <= 2
      <3>1. Len(<<>>) <= 2
        BY ShortSequences
      <3>2. Len(<<"list_dir">>) <= 2
        <4>1. Len(<<"list_dir">>) = 1
          BY ShortSequences, Zenon
        <4> QED BY <4>1
      <3>3. Len(<<"list_dir", "read_file">>) <= 2
        <4>1. Len(<<"list_dir", "read_file">>) = 2
          BY ShortSequences, Zenon
        <4> QED BY <4>1
      <3> QED BY <3>1, <3>2, <3>3 DEF FakeTalks
    <2> QED BY <2>1 DEF FakeConverges, GatewayInv
  <1> QED BY <1>1, <1>2, <1>3, <1>4 DEF ExchangeIsFaithful

\* From configuration to answer nothing is lost on the way, whatever the model
\* names and the calls of an answer are: what ModelConfig accepts its client
\* builds, reasoning and usage are never dropped, and calls run all or none.
THEOREM ExchangesAreFaithful == GatewaySpec => []ExchangeIsFaithful
  BY GatewayInitInv, GatewayStepInv, GatewayInvIsFaithful, PTL DEF GatewaySpec

-----------------------------------------------------------------------------
(* Numbers, and functions defined by recursion over them *)

HIDE DEF Configs, Efforts

LEMMA NatMin ==
    ASSUME NEW S \in SUBSET Nat, S # {}
    PROVE  \E m \in S : \A k \in S : m <= k
  <1>1. PICK m \in S : \A k \in S : ~ (<<k, m>> \in OpToRel(<, Nat))
    BY WFMin, NatLessThanWellFounded
  <1>2. ASSUME NEW k \in S PROVE m <= k
    <2>1. m \in Nat /\ k \in Nat
      OBVIOUS
    <2>2. ~ (k < m)
      BY <1>1, <2>1 DEF OpToRel
    <2> QED BY <2>1, <2>2
  <1> QED BY <1>2

LEMMA NatInduct ==
    ASSUME NEW S, 0 \in S, \A n \in Nat : n \in S => n + 1 \in S
    PROVE  Nat \subseteq S
  <1> SUFFICES ASSUME ~ (Nat \subseteq S) PROVE FALSE
    OBVIOUS
  <1> DEFINE Out == {n \in Nat : n \notin S}
  <1>1. Out # {} /\ Out \in SUBSET Nat
    OBVIOUS
  <1> HIDE DEF Out
  <1>2. PICK m \in Out : \A k \in Out : m <= k
    BY <1>1, NatMin
  <1>3. m \in Nat /\ m \notin S /\ m # 0
    BY <1>2 DEF Out
  <1>4. m - 1 \in Nat /\ m - 1 \notin Out
    BY <1>2, <1>3
  <1>5. m - 1 \in S
    BY <1>4 DEF Out
  <1> QED BY <1>3, <1>4, <1>5

LEMMA NatMax ==
    ASSUME NEW N \in Nat, NEW S \in SUBSET (0..N), S # {}
    PROVE  Max(S) \in S /\ \A k \in S : k <= Max(S)
  <1> DEFINE Short == {j \in Nat : N - j \in S}
  <1>1. Short # {} /\ Short \in SUBSET Nat
    <2>1. PICK k \in S : TRUE
      OBVIOUS
    <2>2. N - k \in Nat /\ N - (N - k) = k
      OBVIOUS
    <2> QED BY <2>1, <2>2
  <1>2. PICK m \in Short : \A k \in Short : m <= k
    BY <1>1, NatMin
  <1> DEFINE x == N - m
  <1>3. x \in S
    BY <1>2
  <1>4. \A k \in S : x >= k
    <2> TAKE k \in S
    <2>1. N - k \in Nat /\ N - (N - k) = k
      OBVIOUS
    <2>2. m <= N - k
      BY <1>2, <2>1
    <2> QED BY <2>2
  <1>5. Max(S) \in S /\ \A k \in S : Max(S) >= k
    <2> DEFINE top(y) == \A k \in S : y >= k
    <2>1. Max(S) = CHOOSE y \in S : top(y)
      BY DEF Max
    <2>2. \E y \in S : top(y)
      BY <1>3, <1>4
    <2> HIDE DEF top
    <2>3. Max(S) \in S /\ top(Max(S))
      BY <2>1, <2>2
    <2> QED BY <2>3 DEF top
  <1> QED BY <1>5

\* The partial results of a concatenation exist,
LEMMA PartialConcats ==
    ASSUME NEW N \in Nat, NEW c \in [1..N -> Seq(Nat)]
    PROVE  \E f \in [0..N -> Seq(Nat)] : f[0] = <<>> /\ \A n \in 1..N : f[n] = f[n - 1] \o c[n]
  <1> DEFINE V == Seq(Nat)
             R(k, f) == f[0] = <<>> /\ \A n \in 1..k : f[n] = f[n - 1] \o c[n]
             S == {k \in Nat : k <= N => \E f \in [0..k -> V] : R(k, f)}
  <1>0. <<>> \in V /\ \A x \in V, y \in V : x \o y \in V
    BY ConcatProperties
  <1>1. 0 \in S
    <2> DEFINE f == [i \in 0..0 |-> <<>>]
    <2>1. f \in [0..0 -> V] /\ R(0, f)
      BY <1>0
    <2> QED BY <2>1
  <1>2. ASSUME NEW n \in Nat, n \in S PROVE n + 1 \in S
    <2>0. n <= n + 1 /\ n + 1 \in Nat /\ \A k \in Nat : n + 1 <= k => n <= k
      OBVIOUS
    <2> SUFFICES ASSUME n + 1 <= N PROVE \E f \in [0..(n + 1) -> V] : R(n + 1, f)
      <3> HIDE DEF V, R
      <3> QED BY <2>0
    <2>1. PICK f \in [0..n -> V] : R(n, f)
      <3> HIDE DEF V, R
      <3> QED BY <1>2, <2>0
    <2> DEFINE g == [i \in 0..(n + 1) |-> IF i = n + 1 THEN f[n] \o c[n + 1] ELSE f[i]]
    <2>2. f[n] \o c[n + 1] \in V
      <3>1. f[n] \in V /\ c[n + 1] \in V
        <4>1. n \in 0..n /\ n + 1 \in 1..N
          OBVIOUS
        <4> QED BY <4>1
      <3> HIDE DEF V
      <3> QED BY <1>0, <3>1
    <2>3. g \in [0..(n + 1) -> V]
      <3>1. \A i \in 0..n : f[i] \in V
        OBVIOUS
      <3>2. \A i \in 0..(n + 1) : i # n + 1 => i \in 0..n
        OBVIOUS
      <3> HIDE DEF V
      <3> QED BY <2>2, <3>1, <3>2
    <2>4. g[0] = <<>> /\ \A i \in 0..n : g[i] = f[i]
      BY <2>1
    <2>5. g[n + 1] = f[n] \o c[n + 1]
      <3> HIDE DEF V, R
      <3> QED BY <2>0
    <2> HIDE DEF g
    <2>6. ASSUME NEW i \in 1..(n + 1) PROVE g[i] = g[i - 1] \o c[i]
      <3>1. CASE i = n + 1
        <4>1. i - 1 = n /\ g[n] = f[n]
          BY <2>4, <3>1, SMTT(40)
        <4> QED BY <2>5, <3>1, <4>1
      <3>2. CASE i \in 1..n
        <4>1. f[i] = f[i - 1] \o c[i]
          BY <2>1, <3>2, Zenon
        <4>2. i \in 0..n /\ i - 1 \in 0..n
          BY <3>2
        <4>3. g[i] = f[i] /\ g[i - 1] = f[i - 1]
          BY <2>4, <4>2
        <4> QED BY <4>1, <4>3, Zenon
      <3>3. i = n + 1 \/ i \in 1..n
        OBVIOUS
      <3> QED BY <3>1, <3>2, <3>3, Zenon
    <2>7. R(n + 1, g)
      BY <2>4, <2>6
    <2> HIDE DEF R
    <2> QED BY <2>3, <2>7
  <1> HIDE DEF R
  <1>3. Nat \subseteq S
    <2> HIDE DEF S
    <2> QED BY <1>1, <1>2, NatInduct
  <1>4. \E f \in [0..N -> V] : R(N, f)
    BY <1>3
  <1> QED BY <1>4 DEF R

\* and those of a sum.
LEMMA PartialSums ==
    ASSUME NEW N \in Nat, NEW c \in [1..N -> Nat]
    PROVE  \E f \in [0..N -> Nat] : f[0] = 0 /\ \A n \in 1..N : f[n] = f[n - 1] + c[n]
  <1> DEFINE V == Nat
             R(k, f) == f[0] = 0 /\ \A n \in 1..k : f[n] = f[n - 1] + c[n]
             S == {k \in Nat : k <= N => \E f \in [0..k -> V] : R(k, f)}
  <1>0. 0 \in V /\ \A x \in V, y \in V : x + y \in V
    OBVIOUS
  <1>1. 0 \in S
    <2> DEFINE f == [i \in 0..0 |-> 0]
    <2>1. f \in [0..0 -> V] /\ R(0, f)
      BY <1>0
    <2> QED BY <2>1
  <1>2. ASSUME NEW n \in Nat, n \in S PROVE n + 1 \in S
    <2>0. n <= n + 1 /\ n + 1 \in Nat /\ \A k \in Nat : n + 1 <= k => n <= k
      OBVIOUS
    <2> SUFFICES ASSUME n + 1 <= N PROVE \E f \in [0..(n + 1) -> V] : R(n + 1, f)
      <3> HIDE DEF V, R
      <3> QED BY <2>0
    <2>1. PICK f \in [0..n -> V] : R(n, f)
      <3> HIDE DEF V, R
      <3> QED BY <1>2, <2>0
    <2> DEFINE g == [i \in 0..(n + 1) |-> IF i = n + 1 THEN f[n] + c[n + 1] ELSE f[i]]
    <2>2. f[n] + c[n + 1] \in V
      <3>1. f[n] \in V /\ c[n + 1] \in V
        <4>1. n \in 0..n /\ n + 1 \in 1..N
          OBVIOUS
        <4> QED BY <4>1
      <3> HIDE DEF V
      <3> QED BY <1>0, <3>1
    <2>3. g \in [0..(n + 1) -> V]
      <3>1. \A i \in 0..n : f[i] \in V
        OBVIOUS
      <3>2. \A i \in 0..(n + 1) : i # n + 1 => i \in 0..n
        OBVIOUS
      <3> HIDE DEF V
      <3> QED BY <2>2, <3>1, <3>2
    <2>4. g[0] = 0 /\ \A i \in 0..n : g[i] = f[i]
      BY <2>1
    <2>5. g[n + 1] = f[n] + c[n + 1]
      OBVIOUS
    <2> HIDE DEF g
    <2>6. ASSUME NEW i \in 1..(n + 1) PROVE g[i] = g[i - 1] + c[i]
      <3>1. CASE i = n + 1
        <4>1. i - 1 = n /\ g[n] = f[n]
          BY <2>4, <3>1
        <4> QED BY <2>5, <3>1, <4>1
      <3>2. CASE i \in 1..n
        <4>1. f[i] = f[i - 1] + c[i]
          BY <2>1, <3>2, Zenon
        <4>2. i \in 0..n /\ i - 1 \in 0..n
          BY <3>2
        <4>3. g[i] = f[i] /\ g[i - 1] = f[i - 1]
          BY <2>4, <4>2
        <4> QED BY <4>1, <4>3, Zenon
      <3>3. i = n + 1 \/ i \in 1..n
        OBVIOUS
      <3> QED BY <3>1, <3>2, <3>3, Zenon
    <2>7. R(n + 1, g)
      BY <2>4, <2>6
    <2> HIDE DEF R
    <2> QED BY <2>3, <2>7
  <1> HIDE DEF R
  <1>3. Nat \subseteq S
    <2> HIDE DEF S
    <2> QED BY <1>1, <1>2, NatInduct
  <1>4. \E f \in [0..N -> V] : R(N, f)
    BY <1>3
  <1> QED BY <1>4 DEF R

\* FlattenSeq is what its partial results come to.
LEMMA FlattenValue ==
    ASSUME NEW T, NEW q \in Seq(Seq(T)), NEW f \in [0..Len(q) -> Seq(T)],
           f[0] = <<>>, \A n \in 1..Len(q) : f[n] = f[n - 1] \o q[n]
    PROVE  FlattenSeq(q) = f[Len(q)]
  <1> DEFINE N == Len(q)
             Eq(g) == g = [i \in 1..N |-> IF i = 1 THEN q[i] ELSE g[i - 1] \o q[i]]
             h == [i \in 1..N |-> f[i]]
             flat == CHOOSE g : Eq(g)
  <1>0. N \in Nat
    OBVIOUS
  <1>1. CASE N = 0
    <2>1. q = <<>> /\ FlattenSeq(q) = q
      BY <1>1 DEF FlattenSeq
    <2> QED BY <1>1, <2>1
  <1>2. CASE N # 0
    <2>1. ASSUME NEW i \in 1..N PROVE h[i] = IF i = 1 THEN q[i] ELSE h[i - 1] \o q[i]
      <3>1. f[i] = f[i - 1] \o q[i]
        OBVIOUS
      <3>2. CASE i = 1
        <4>1. i - 1 = 0 /\ q[i] \in Seq(T)
          BY <3>2
        <4>2. f[i] = <<>> \o q[i]
          BY <3>1, <4>1
        <4>3. f[i] = q[i]
          BY <4>1, <4>2, ConcatEmptySeq
        <4>4. h[i] = f[i]
          OBVIOUS
        <4> HIDE DEF h
        <4> QED BY <3>2, <4>3, <4>4
      <3>3. CASE i # 1
        <4>1. i - 1 \in 1..N
          BY <1>0, <3>3
        <4>2. h[i] = f[i] /\ h[i - 1] = f[i - 1]
          BY <4>1
        <4> HIDE DEF h
        <4> QED BY <3>1, <3>3, <4>2
      <3> QED BY <3>2, <3>3
    <2>2. Eq(h)
      <3> DEFINE h2 == [i \in 1..N |-> IF i = 1 THEN q[i] ELSE h[i - 1] \o q[i]]
      <3>1. \A i \in 1..N : h[i] = h2[i]
        <4> HIDE DEF h
        <4> QED BY <2>1
      <3>2. h = [i \in 1..N |-> h[i]] /\ h2 = [i \in 1..N |-> h2[i]]
        OBVIOUS
      <3>3. h = h2
        <4> HIDE DEF h, h2
        <4> QED BY <3>1, <3>2
      <3> QED BY <3>3
    <2>3. Eq(flat)
      <3> HIDE DEF Eq, h
      <3>1. \E g : Eq(g)
        BY <2>2
      <3> QED BY <3>1
    <2>4. FlattenSeq(q) = flat[N]
      <3>1. Len(q) # 0
        BY <1>2
      <3> QED BY <3>1, Zenon DEF FlattenSeq
    <2>5. \A i \in 1..N : flat[i] = IF i = 1 THEN q[i] ELSE flat[i - 1] \o q[i]
      <3> HIDE DEF flat, N
      <3> QED BY <2>3
    <2> HIDE DEF flat, N, h
    <2> DEFINE S == {k \in Nat : k \in 1..N => flat[k] = f[k]}
    <2>6. \A k \in 1..N : f[k] = IF k = 1 THEN q[k] ELSE f[k - 1] \o q[k]
      <3> TAKE k \in 1..N
      <3>1. h[k] = f[k] /\ (k # 1 => h[k - 1] = f[k - 1])
        BY <1>0 DEF h
      <3> QED BY <2>1, <3>1
    <2>7. 0 \in S
      OBVIOUS
    <2>8. ASSUME NEW k \in Nat, k \in S PROVE k + 1 \in S
      <3> SUFFICES ASSUME k + 1 \in 1..N PROVE flat[k + 1] = f[k + 1]
        BY <1>0
      <3>1. (k + 1) - 1 = k
        OBVIOUS
      <3>2. CASE k = 0
        BY <2>5, <2>6, <3>2
      <3>3. CASE k # 0
        <4>1. k \in 1..N /\ k + 1 # 1
          BY <1>0, <3>3
        <4>2. flat[k] = f[k]
          BY <2>8, <4>1
        <4>3. flat[k + 1] = flat[k] \o q[k + 1] /\ f[k + 1] = f[k] \o q[k + 1]
          BY <2>5, <2>6, <3>1, <4>1
        <4> QED BY <4>2, <4>3
      <3> QED BY <3>2, <3>3
    <2>9. Nat \subseteq S
      <3> HIDE DEF S
      <3> QED BY <2>7, <2>8, NatInduct
    <2>10. flat[N] = f[N]
      BY <1>0, <1>2, <2>9
    <2> QED BY <2>4, <2>10 DEF N
  <1> QED BY <1>1, <1>2

\* SumOf too.
LEMMA SumValue ==
    ASSUME NEW q, NEW N \in Nat, Len(q) = N, NEW f \in [0..N -> Nat],
           f[0] = 0, \A n \in 1..N : f[n] = f[n - 1] + q[n]
    PROVE  SumOf(q) = f[N]
  <1> DEFINE Eq(g) == g = [n \in 0..Len(q) |-> IF n = 0 THEN 0 ELSE g[n - 1] + q[n]]
             sum == CHOOSE g : Eq(g)
  <1>1. Eq(f)
    <2>1. \A n \in 0..N : f[n] = IF n = 0 THEN 0 ELSE f[n - 1] + q[n]
      OBVIOUS
    <2> QED BY <2>1
  <1>2. Eq(sum)
    <2> HIDE DEF Eq
    <2>1. \E g : Eq(g)
      BY <1>1
    <2> QED BY <2>1
  <1>3. SumOf(q) = sum[Len(q)]
    BY Zenon DEF SumOf
  <1>4. \A n \in 0..N : sum[n] = IF n = 0 THEN 0 ELSE sum[n - 1] + q[n]
    <2> HIDE DEF sum
    <2> QED BY <1>2
  <1> HIDE DEF sum
  <1> DEFINE S == {k \in Nat : k \in 0..N => sum[k] = f[k]}
  <1>5. 0 \in S
    BY <1>4
  <1>6. ASSUME NEW k \in Nat, k \in S PROVE k + 1 \in S
    <2> SUFFICES ASSUME k + 1 \in 0..N PROVE sum[k + 1] = f[k + 1]
      OBVIOUS
    <2>1. k \in 0..N /\ k + 1 \in 1..N /\ k + 1 # 0 /\ (k + 1) - 1 = k
      OBVIOUS
    <2>2. sum[k] = f[k]
      BY <1>6, <2>1
    <2>3. sum[k + 1] = sum[k] + q[k + 1] /\ f[k + 1] = f[k] + q[k + 1]
      BY <1>4, <2>1
    <2> QED BY <2>2, <2>3
  <1>7. Nat \subseteq S
    <2> HIDE DEF S
    <2> QED BY <1>5, <1>6, NatInduct
  <1>8. sum[N] = f[N]
    BY <1>7
  <1> QED BY <1>3, <1>8

-----------------------------------------------------------------------------
(* The items of a conversation *)

Atoms == [type: CCES, items: Seq(Nat), sizes: Seq(Nat), calls: 0..MaxCalls, reasoning: BOOLEAN]

\* The items of the first atoms of some, one atom after the other.
LEMMA ItemsFold ==
    ASSUME NEW s \in Seq(Atoms)
    PROVE  \E f \in [0..Len(s) -> Seq(Nat)] :
              /\ f[0] = <<>>
              /\ \A n \in 1..Len(s) : f[n] = f[n - 1] \o s[n].items
              /\ \A k \in 0..Len(s) : Items(SubSeq(s, 1, k)) = f[k]
  <1> DEFINE N == Len(s)
             V == Seq(Nat)
  <1>0. N \in Nat /\ \A n \in 1..N : s[n] \in Atoms /\ s[n].items \in V
    <2>1. \A n \in 1..N : s[n] \in Atoms
      OBVIOUS
    <2> QED BY <2>1 DEF Atoms
  <1>1. PICK c \in [1..N -> V] : \A n \in 1..N : c[n] = s[n].items
    <2> DEFINE d == [n \in 1..N |-> s[n].items]
    <2>1. d \in [1..N -> V] /\ \A n \in 1..N : d[n] = s[n].items
      BY <1>0
    <2> HIDE DEF d
    <2> QED BY <2>1
  <1>3. PICK f \in [0..N -> V] : f[0] = <<>> /\ \A n \in 1..N : f[n] = f[n - 1] \o c[n]
    <2> HIDE DEF N
    <2> QED BY <1>0, PartialConcats
  <1>4. ASSUME NEW n \in 1..N PROVE f[n] = f[n - 1] \o s[n].items
    BY <1>1, <1>3
  <1>5. ASSUME NEW k \in 0..N PROVE Items(SubSeq(s, 1, k)) = f[k]
    <2> DEFINE t == SubSeq(s, 1, k)
               q == [n \in DOMAIN t |-> t[n].items]
               g == [i \in 0..k |-> f[i]]
    <2>1. t \in Seq(Atoms) /\ Len(t) = k /\ \A i \in 1..k : t[i] = s[i]
      BY <1>0
    <2>2. DOMAIN t = 1..k
      BY <2>1
    <2>3. \A i \in 1..k : q[i] = s[i].items
      BY <2>1, <2>2
    <2>4. q \in Seq(V) /\ Len(q) = k
      <3>1. \A i \in 1..k : q[i] \in V
        BY <1>0, <2>3
      <3>2. q \in [1..k -> V]
        <4> HIDE DEF V, t
        <4> QED BY <2>2, <3>1
      <3> HIDE DEF q, V, t
      <3>3. k \in Nat
        BY <1>0
      <3> QED BY <3>2, <3>3
    <2>5. g \in [0..k -> V] /\ \A i \in 0..k : g[i] = f[i]
      <3>1. \A i \in 0..k : f[i] \in V
        <4>1. \A i \in 0..k : i \in 0..N
          BY <1>0
        <4> HIDE DEF V, N
        <4> QED BY <4>1
      <3> HIDE DEF V
      <3> QED BY <3>1
    <2>6. g[0] = <<>> /\ \A n \in 1..k : g[n] = g[n - 1] \o q[n]
      <3>1. g[0] = <<>>
        BY <1>3, <2>5, <1>0
      <3>2. ASSUME NEW n \in 1..k PROVE g[n] = g[n - 1] \o q[n]
        <4>1. n \in 1..N /\ n \in 0..k /\ n - 1 \in 0..k
          BY <1>0
        <4> HIDE DEF g, q
        <4> QED BY <1>4, <2>3, <2>5, <4>1
      <3> QED BY <3>1, <3>2
    <2>7. Items(t) = FlattenSeq(q)
      BY DEF Items
    <2>8. FlattenSeq(q) = g[k]
      <3> HIDE DEF g, q, t
      <3> QED BY <2>4, <2>5, <2>6, FlattenValue
    <2>9. g[k] = f[k]
      BY <1>0, <2>5
    <2> HIDE DEF g, q
    <2> QED BY <2>7, <2>8, <2>9
  <1> QED BY <1>3, <1>4, <1>5

\* No atoms, no items; and every atom adds its own.
LEMMA ItemsStep ==
    ASSUME NEW s \in Seq(Atoms)
    PROVE  /\ Items(<<>>) = <<>>
           /\ Items(s) \in Seq(Nat)
           /\ \A k \in 0..Len(s) : Items(SubSeq(s, 1, k)) \in Seq(Nat)
           /\ \A k \in 1..Len(s) :
                Items(SubSeq(s, 1, k)) = Items(SubSeq(s, 1, k - 1)) \o s[k].items
  <1>1. PICK f \in [0..Len(s) -> Seq(Nat)] :
              /\ f[0] = <<>>
              /\ \A n \in 1..Len(s) : f[n] = f[n - 1] \o s[n].items
              /\ \A k \in 0..Len(s) : Items(SubSeq(s, 1, k)) = f[k]
    BY ItemsFold
  <1>2. Len(s) \in Nat /\ SubSeq(s, 1, 0) = <<>> /\ SubSeq(s, 1, Len(s)) = s
    BY SubSeqFull, SubSeqEmpty
  <1>3. Items(<<>>) = <<>>
    <2>1. 0 \in 0..Len(s)
      BY <1>2
    <2>2. Items(SubSeq(s, 1, 0)) = <<>>
      BY <1>1, <2>1
    <2> QED BY <1>2, <2>2
  <1>4. \A k \in 0..Len(s) : Items(SubSeq(s, 1, k)) \in Seq(Nat)
    BY <1>1
  <1>5. Items(s) \in Seq(Nat)
    <2>1. Len(s) \in 0..Len(s)
      BY <1>2
    <2> QED BY <1>2, <1>4, <2>1
  <1>6. ASSUME NEW k \in 1..Len(s)
        PROVE  Items(SubSeq(s, 1, k)) = Items(SubSeq(s, 1, k - 1)) \o s[k].items
    <2>1. k \in 0..Len(s) /\ k - 1 \in 0..Len(s)
      BY <1>2
    <2> QED BY <1>1, <2>1
  <1> QED BY <1>3, <1>4, <1>5, <1>6

\* Items of a sequence and another one.
LEMMA ItemsConcat ==
    ASSUME NEW s \in Seq(Atoms), NEW t \in Seq(Atoms)
    PROVE  Items(s \o t) = Items(s) \o Items(t)
  <1> DEFINE u == s \o t
             S == {k \in Nat : k <= Len(t) =>
                       Items(SubSeq(u, 1, Len(s) + k)) = Items(s) \o Items(SubSeq(t, 1, k))}
  <1>0. Len(s) \in Nat /\ Len(t) \in Nat /\ Items(s) \in Seq(Nat)
    <2>1. Items(s) \in Seq(Nat)
      BY ItemsStep, Zenon
    <2> QED BY <2>1
  <1>1. /\ u \in Seq(Atoms) /\ Len(u) = Len(s) + Len(t)
        /\ \A i \in 1..Len(s) : u[i] = s[i]
        /\ \A i \in 1..Len(t) : u[Len(s) + i] = t[i]
    BY <1>0
  <1>2. SubSeq(u, 1, Len(s)) = s
    <2> HIDE DEF u
    <2>1. SubSeq(u, 1, Len(s)) \in Seq(Atoms) /\ Len(SubSeq(u, 1, Len(s))) = Len(s)
      BY <1>0, <1>1
    <2>2. \A i \in 1..Len(s) : SubSeq(u, 1, Len(s))[i] = s[i]
      BY <1>0, <1>1
    <2> QED BY <2>1, <2>2, SeqEqual
  <1>3. SubSeq(t, 1, 0) = <<>> /\ Items(<<>>) = <<>>
    <2>1. Items(<<>>) = <<>>
      BY ItemsStep, Zenon
    <2> QED BY <2>1, SubSeqEmpty
  <1> HIDE DEF u
  <1>4. 0 \in S
    <2>1. Len(s) + 0 = Len(s)
      BY <1>0
    <2>2. Items(s) \o <<>> = Items(s)
      BY <1>0, ConcatEmptySeq
    <2> QED BY <1>2, <1>3, <2>1, <2>2
  <1>5. ASSUME NEW k \in Nat, k \in S PROVE k + 1 \in S
    <2> SUFFICES ASSUME k + 1 <= Len(t)
                 PROVE  Items(SubSeq(u, 1, Len(s) + (k + 1))) = Items(s) \o Items(SubSeq(t, 1, k + 1))
      OBVIOUS
    <2>1. /\ Len(s) + (k + 1) \in 1..Len(u) /\ (Len(s) + (k + 1)) - 1 = Len(s) + k
          /\ k + 1 \in 1..Len(t) /\ (k + 1) - 1 = k /\ k \in 0..Len(t)
      BY <1>0, <1>1
    <2>2. Items(SubSeq(u, 1, Len(s) + (k + 1)))
            = Items(SubSeq(u, 1, Len(s) + k)) \o u[Len(s) + (k + 1)].items
      BY <1>1, <2>1, ItemsStep
    <2>3. Items(SubSeq(t, 1, k + 1)) = Items(SubSeq(t, 1, k)) \o t[k + 1].items
      BY <2>1, ItemsStep
    <2>4. Items(SubSeq(u, 1, Len(s) + k)) = Items(s) \o Items(SubSeq(t, 1, k))
      BY <1>5, <2>1
    <2>5. u[Len(s) + (k + 1)] = t[k + 1]
      BY <1>1, <2>1
    <2>6. Items(SubSeq(t, 1, k)) \in Seq(Nat) /\ t[k + 1].items \in Seq(Nat)
      <3>1. t[k + 1] \in Atoms
        BY <2>1
      <3> QED BY <2>1, <3>1, ItemsStep DEF Atoms
    <2>7. (Items(s) \o Items(SubSeq(t, 1, k))) \o t[k + 1].items
            = Items(s) \o (Items(SubSeq(t, 1, k)) \o t[k + 1].items)
      <3> DEFINE a == Items(s)
                 b == Items(SubSeq(t, 1, k))
                 c == t[k + 1].items
      <3>1. a \in Seq(Nat) /\ b \in Seq(Nat) /\ c \in Seq(Nat)
        BY <1>0, <2>6
      <3> HIDE DEF a, b, c
      <3>2. (a \o b) \o c = a \o (b \o c)
        BY <3>1, ConcatAssociative, SMTT(40)
      <3> QED BY <3>2 DEF a, b, c
    <2> QED BY <2>2, <2>3, <2>4, <2>5, <2>7
  <1>6. Nat \subseteq S
    <2> HIDE DEF S
    <2> QED BY <1>4, <1>5, NatInduct
  <1>7. Items(SubSeq(u, 1, Len(s) + Len(t))) = Items(s) \o Items(SubSeq(t, 1, Len(t)))
    BY <1>0, <1>6
  <1>8. SubSeq(u, 1, Len(s) + Len(t)) = u /\ SubSeq(t, 1, Len(t)) = t
    BY <1>1, SubSeqFull
  <1> QED BY <1>7, <1>8 DEF u

-----------------------------------------------------------------------------
(* Slices of the conversation *)

LEMMA SliceOfConcat ==
    ASSUME NEW T, NEW a \in Seq(T), NEW b \in Seq(T), NEW c \in Seq(T)
    PROVE  /\ SubSeq((a \o b) \o c, Len(a) + 1, Len(a) + Len(b)) = b
           /\ SubSeq((a \o b) \o c, 1, Len(a) + Len(b)) = a \o b
  <1> DEFINE q == (a \o b) \o c
             x == SubSeq(q, Len(a) + 1, Len(a) + Len(b))
             y == SubSeq(q, 1, Len(a) + Len(b))
             ab == a \o b
  <1>1. Len(a) \in Nat /\ Len(b) \in Nat /\ Len(c) \in Nat
    OBVIOUS
  <1>2. /\ ab \in Seq(T) /\ Len(ab) = Len(a) + Len(b)
        /\ \A i \in 1..Len(b) : ab[Len(a) + i] = b[i]
    BY <1>1
  <1>3. /\ q \in Seq(T) /\ Len(q) = Len(ab) + Len(c)
        /\ \A i \in 1..Len(ab) : q[i] = ab[i]
    <2> HIDE DEF ab
    <2> QED BY <1>1, <1>2, ConcatProperties DEF ab
  <1> HIDE DEF q, ab
  <1>4. /\ x \in Seq(T) /\ Len(x) = Len(b)
        /\ \A i \in 1..Len(b) : x[i] = q[Len(a) + i]
    BY <1>1, <1>2, <1>3
  <1>5. /\ y \in Seq(T) /\ Len(y) = Len(ab)
        /\ \A i \in 1..Len(ab) : y[i] = q[i]
    BY <1>1, <1>2, <1>3
  <1> HIDE DEF x, y
  <1>6. x = b
    <2>1. ASSUME NEW i \in 1..Len(b) PROVE x[i] = b[i]
      <3>1. Len(a) + i \in 1..Len(ab)
        BY <1>1, <1>2
      <3>2. x[i] = q[Len(a) + i]
        BY <1>4
      <3>3. q[Len(a) + i] = ab[Len(a) + i]
        BY <1>3, <3>1
      <3>4. ab[Len(a) + i] = b[i]
        BY <1>2
      <3> QED BY <3>2, <3>3, <3>4
    <2> QED BY <1>4, <2>1, SeqEqual
  <1>7. y = ab
    <2>1. \A i \in 1..Len(ab) : y[i] = ab[i]
      BY <1>3, <1>5
    <2> QED BY <1>2, <1>5, <2>1, SeqEqual
  <1> QED BY <1>6, <1>7 DEF q, ab, x, y

\* A part of some is a sequence of atoms, and a part of a part too.
LEMMA SliceOfAtoms ==
    ASSUME NEW s \in Seq(Atoms), NEW m \in 1..(Len(s) + 1), NEW n \in 0..Len(s)
    PROVE  /\ SubSeq(s, m, n) \in Seq(Atoms)
           /\ Len(SubSeq(s, m, n)) = IF m <= n THEN n - m + 1 ELSE 0
           /\ \A i \in 1..(n - m + 1) : SubSeq(s, m, n)[i] = s[m + i - 1]
           /\ \A k \in 0..Len(SubSeq(s, m, n)) :
                SubSeq(SubSeq(s, m, n), 1, k) = SubSeq(s, m, m + k - 1)
  <1> DEFINE t == SubSeq(s, m, n)
  <1>1. Len(s) \in Nat
    OBVIOUS
  <1>2. /\ t \in Seq(Atoms) /\ Len(t) = IF m <= n THEN n - m + 1 ELSE 0
        /\ \A i \in 1..(n - m + 1) : t[i] = s[m + i - 1]
    <2>1. \A i \in m..n : s[i] \in Atoms
      BY <1>1
    <2> QED BY <1>1, <2>1, SubSeqProperties
  <1> HIDE DEF t
  <1>3. ASSUME NEW k \in 0..Len(t) PROVE SubSeq(t, 1, k) = SubSeq(s, m, m + k - 1)
    <2> DEFINE x == SubSeq(t, 1, k)
               y == SubSeq(s, m, m + k - 1)
    <2>1. k \in Nat /\ k <= Len(t) /\ Len(t) \in Nat
      BY <1>2
    <2>2. x \in Seq(Atoms) /\ Len(x) = k /\ \A i \in 1..k : x[i] = t[i]
      BY <1>2, <2>1
    <2>3. \A i \in m..(m + k - 1) : s[i] \in Atoms
      BY <1>1, <1>2, <2>1
    <2>4. y \in Seq(Atoms) /\ Len(y) = k /\ \A i \in 1..k : y[i] = s[m + i - 1]
      <3>1. m + k - 1 \in Int /\ m \in Int
        BY <2>1
      <3>2. /\ y \in Seq(Atoms) /\ Len(y) = IF m <= m + k - 1 THEN (m + k - 1) - m + 1 ELSE 0
            /\ \A i \in 1..((m + k - 1) - m + 1) : y[i] = s[m + i - 1]
        BY <2>3, <3>1, SubSeqProperties
      <3>3. (m + k - 1) - m + 1 = k /\ (m <= m + k - 1 <=> k # 0)
        BY <2>1
      <3> HIDE DEF y
      <3> QED BY <2>1, <3>2, <3>3
    <2>5. \A i \in 1..k : t[i] = s[m + i - 1]
      BY <1>1, <1>2, <2>1
    <2> HIDE DEF x, y
    <2>6. \A i \in 1..k : x[i] = y[i]
      BY <2>2, <2>4, <2>5
    <2>7. x = y
      BY <2>2, <2>4, <2>6, SeqEqual
    <2> QED BY <2>7 DEF x, y
  <1> QED BY <1>2, <1>3 DEF t

\* The items of a slice of some are a slice of its items.
LEMMA ItemsSlice ==
    ASSUME NEW s \in Seq(Atoms), NEW m \in 0..Len(s), NEW n \in m..Len(s)
    PROVE  LET c(k) == Len(Items(SubSeq(s, 1, k)))
           IN  /\ Items(SubSeq(s, m + 1, n)) = SubSeq(Items(s), c(m) + 1, c(n))
               /\ Items(SubSeq(s, 1, n)) = SubSeq(Items(s), 1, c(n))
               /\ c(m) <= c(n) /\ c(n) <= Len(Items(s))
               /\ Len(Items(SubSeq(s, m + 1, n))) = c(n) - c(m)
  <1> DEFINE N == Len(s)
             sa == SubSeq(s, 1, m)
             sb == SubSeq(s, m + 1, n)
             sn == SubSeq(s, 1, n)
             sc == SubSeq(s, n + 1, N)
             a == Items(sa)
             b == Items(sb)
             c == Items(sc)
             ab == Items(sn)
  <1>1. N \in Nat
    OBVIOUS
  <1>2. sa \in Seq(Atoms) /\ sb \in Seq(Atoms) /\ sn \in Seq(Atoms) /\ sc \in Seq(Atoms)
    <2>1. /\ 1 \in 1..(N + 1) /\ m \in 0..N /\ n \in 0..N /\ N \in 0..N
          /\ m + 1 \in 1..(N + 1) /\ n + 1 \in 1..(N + 1)
      BY <1>1
    <2> QED BY <2>1, SliceOfAtoms
  <1>3. sa \o sb = sn
    BY <1>1, ConcatAdjacentSubSeq
  <1>4. sn \o sc = s
    <2>1. SubSeq(s, 1, n) \o SubSeq(s, n + 1, N) = SubSeq(s, 1, N)
      <3>1. 1 \in 1..(Len(s) + 1) /\ n \in (1 - 1)..Len(s) /\ N \in n..Len(s)
        BY <1>1
      <3> HIDE DEF N
      <3> QED BY <3>1, ConcatAdjacentSubSeq
    <2> QED BY <2>1, SubSeqFull
  <1> HIDE DEF sa, sb, sn, sc
  <1>5. ab = a \o b
    BY <1>2, <1>3, ItemsConcat
  <1>6. Items(s) = ab \o c
    BY <1>2, <1>4, ItemsConcat
  <1>7. a \in Seq(Nat) /\ b \in Seq(Nat) /\ c \in Seq(Nat)
    BY <1>2, ItemsStep
  <1> HIDE DEF a, b, c, ab
  <1>8. SubSeq(Items(s), Len(a) + 1, Len(a) + Len(b)) = b /\ SubSeq(Items(s), 1, Len(a) + Len(b)) = ab
    <2>1. /\ SubSeq((a \o b) \o c, Len(a) + 1, Len(a) + Len(b)) = b
          /\ SubSeq((a \o b) \o c, 1, Len(a) + Len(b)) = a \o b
      BY <1>7, SliceOfConcat
    <2> QED BY <1>5, <1>6, <2>1, Zenon
  <1>9. Len(ab) = Len(a) + Len(b) /\ ab \in Seq(Nat)
    BY <1>5, <1>7
  <1>10. Len(Items(s)) = Len(ab) + Len(c)
    <2>1. Len(ab \o c) = Len(ab) + Len(c)
      BY <1>7, <1>9, ConcatProperties
    <2> QED BY <1>6, <2>1, Zenon
  <1>11. Len(a) \in Nat /\ Len(b) \in Nat /\ Len(c) \in Nat
    BY <1>7
  <1>12. /\ b = SubSeq(Items(s), Len(a) + 1, Len(ab)) /\ ab = SubSeq(Items(s), 1, Len(ab))
         /\ Len(a) <= Len(ab) /\ Len(ab) <= Len(Items(s)) /\ Len(b) = Len(ab) - Len(a)
    BY <1>8, <1>9, <1>10, <1>11
  <1> QED BY <1>12 DEF a, b, c, ab, sa, sb, sn, sc

Whole(s) == s \in Seq(Atoms) /\ \A n \in DOMAIN s: s[n].items # <<>>
Count(s, n) == Len(Items(SubSeq(s, 1, n)))

\* The counts of the prefixes go up.
LEMMA CountsGrow ==
    ASSUME NEW s, Whole(s)
    PROVE  /\ Len(s) \in Nat /\ Items(s) \in Seq(Nat) /\ Len(Items(s)) \in Nat
           /\ Count(s, 0) = 0 /\ Count(s, Len(s)) = Len(Items(s))
           /\ \A n \in 0..Len(s) : Count(s, n) \in Nat /\ Count(s, n) <= Len(Items(s))
           /\ \A n \in 1..Len(s) : Count(s, n) = Count(s, n - 1) + Len(s[n].items)
           /\ \A m, n \in 0..Len(s) : m < n => Count(s, m) < Count(s, n)
           /\ \A m, n \in 0..Len(s) : m <= n =>
                Items(SubSeq(s, m + 1, n)) = SubSeq(Items(s), Count(s, m) + 1, Count(s, n))
  <1>0. s \in Seq(Atoms) /\ \A n \in 1..Len(s) : s[n] \in Atoms /\ s[n].items # <<>>
    BY DEF Whole
  <1>1. Len(s) \in Nat /\ SubSeq(s, 1, 0) = <<>> /\ SubSeq(s, 1, Len(s)) = s
    BY <1>0, SubSeqEmpty, SubSeqFull
  <1>2. Items(s) \in Seq(Nat) /\ Items(<<>>) = <<>>
    BY <1>0, ItemsStep
  <1>3. Len(Items(s)) \in Nat
    BY <1>2
  <1>4. Count(s, 0) = 0 /\ Count(s, Len(s)) = Len(Items(s))
    <2>1. Len(<<>>) = 0
      OBVIOUS
    <2> QED BY <1>1, <1>2, <2>1, Zenon DEF Count
  <1>5. ASSUME NEW n \in 0..Len(s) PROVE Count(s, n) \in Nat /\ Count(s, n) <= Len(Items(s))
    <2>1. Items(SubSeq(s, 1, n)) \in Seq(Nat)
      BY <1>0, ItemsStep
    <2>2. Count(s, n) \in Nat
      BY <2>1 DEF Count
    <2>3. n \in n..Len(s)
      BY <1>1
    <2>4. Count(s, n) <= Len(Items(s))
      BY <1>0, <2>3, ItemsSlice DEF Count
    <2> QED BY <2>2, <2>4
  <1>6. ASSUME NEW n \in 1..Len(s)
        PROVE  /\ Count(s, n) = Count(s, n - 1) + Len(s[n].items)
               /\ Len(s[n].items) \in Nat \ {0}
    <2> DEFINE a == Items(SubSeq(s, 1, n - 1))
               b == s[n].items
    <2>1. n - 1 \in 0..Len(s)
      BY <1>1
    <2>2. a \in Seq(Nat)
      BY <1>0, <2>1, ItemsStep
    <2>3. b \in Seq(Nat) /\ b # <<>>
      BY <1>0 DEF Atoms
    <2>4. Items(SubSeq(s, 1, n)) = a \o b
      BY <1>0, ItemsStep
    <2>5. Count(s, n - 1) = Len(a) /\ Count(s, n) = Len(a \o b)
      BY <2>4, Zenon DEF Count
    <2> HIDE DEF a, b
    <2>6. Len(a \o b) = Len(a) + Len(b)
      BY <2>2, <2>3, ConcatProperties
    <2>7. Len(b) \in Nat \ {0}
      BY <2>3
    <2> QED BY <2>5, <2>6, <2>7 DEF b
  <1>7. ASSUME NEW m \in 0..Len(s), NEW n \in 0..Len(s), m <= n
        PROVE  /\ Items(SubSeq(s, m + 1, n)) = SubSeq(Items(s), Count(s, m) + 1, Count(s, n))
               /\ Count(s, m) <= Count(s, n)
    <2>1. n \in m..Len(s)
      BY <1>1, <1>7
    <2> QED BY <1>0, <2>1, ItemsSlice DEF Count
  <1>8. ASSUME NEW m \in 0..Len(s), NEW n \in 0..Len(s), m < n
        PROVE  Count(s, m) < Count(s, n)
    <2>1. n \in 1..Len(s) /\ n - 1 \in 0..Len(s) /\ m <= n - 1
      BY <1>1, <1>8
    <2>2. Count(s, m) <= Count(s, n - 1)
      BY <1>7, <2>1
    <2>3. Count(s, n) = Count(s, n - 1) + Len(s[n].items) /\ Len(s[n].items) \in Nat \ {0}
      BY <1>6, <2>1
    <2>4. Count(s, m) \in Nat /\ Count(s, n - 1) \in Nat /\ Count(s, n) \in Nat
      BY <1>5, <2>1
    <2> QED BY <2>2, <2>3, <2>4
  <1> QED BY <1>1, <1>2, <1>3, <1>4, <1>5, <1>6, <1>7, <1>8

\* Sequences that begin alike have the same counts there.
LEMMA SameBeginning ==
    ASSUME NEW s, NEW t, Whole(s), Whole(t), NEW k \in 0..Len(s), k <= Len(t),
           \A i \in 1..k : s[i] = t[i]
    PROVE  /\ \A n \in 0..k : SubSeq(s, 1, n) = SubSeq(t, 1, n) /\ Count(s, n) = Count(t, n)
           /\ \A m \in 1..(Count(s, k) + 1), n \in 0..Count(s, k) :
                SubSeq(Items(s), m, n) = SubSeq(Items(t), m, n)
  <1>0. s \in Seq(Atoms) /\ t \in Seq(Atoms) /\ Len(s) \in Nat /\ Len(t) \in Nat
    BY DEF Whole
  <1>1. ASSUME NEW n \in 0..k PROVE SubSeq(s, 1, n) = SubSeq(t, 1, n) /\ Count(s, n) = Count(t, n)
    <2> DEFINE x == SubSeq(s, 1, n)
               y == SubSeq(t, 1, n)
    <2>1. x \in Seq(Atoms) /\ Len(x) = n /\ \A i \in 1..n : x[i] = s[i]
      BY <1>0
    <2>2. y \in Seq(Atoms) /\ Len(y) = n /\ \A i \in 1..n : y[i] = t[i]
      BY <1>0
    <2> HIDE DEF x, y
    <2>3. \A i \in 1..n : x[i] = y[i]
      BY <1>0, <2>1, <2>2
    <2>4. x = y
      BY <2>1, <2>2, <2>3, SeqEqual
    <2> QED BY <2>4 DEF x, y, Count
  <1>2. k \in 0..Len(s) /\ k \in 0..Len(t) /\ 0 \in 0..Len(s) /\ 0 \in 0..Len(t) /\ k \in 0..k /\ k \in Nat
    BY <1>0
  <1> DEFINE N == Count(s, k)
             p == SubSeq(Items(s), 1, N)
  <1>3. /\ Items(s) \in Seq(Nat) /\ Items(t) \in Seq(Nat) /\ N \in Nat
        /\ N <= Len(Items(s)) /\ N <= Len(Items(t))
    BY <1>1, <1>2, CountsGrow
  <1>4. p = SubSeq(Items(t), 1, N)
    <2>1. k \in 0..Len(s) /\ k \in k..Len(s) /\ k \in 0..Len(t) /\ k \in k..Len(t)
      BY <1>2
    <2>2. Items(SubSeq(s, 1, k)) = SubSeq(Items(s), 1, N)
      BY <1>0, <2>1, ItemsSlice DEF Count
    <2>3. Items(SubSeq(t, 1, k)) = SubSeq(Items(t), 1, Count(t, k))
      BY <1>0, <2>1, ItemsSlice DEF Count
    <2> QED BY <1>1, <1>2, <2>2, <2>3
  <1>5. \A i \in 1..N : Items(s)[i] = Items(t)[i]
    <2>1. \A i \in 1..N : p[i] = Items(s)[i]
      BY <1>3
    <2>2. \A i \in 1..N : SubSeq(Items(t), 1, N)[i] = Items(t)[i]
      BY <1>3
    <2> HIDE DEF p, N
    <2> QED BY <1>4, <2>1, <2>2
  <1> HIDE DEF N
  <1>6. ASSUME NEW m \in 1..(N + 1), NEW n \in 0..N
        PROVE  SubSeq(Items(s), m, n) = SubSeq(Items(t), m, n)
    <2> DEFINE x == SubSeq(Items(s), m, n)
               y == SubSeq(Items(t), m, n)
    <2>1. /\ \A i \in m..n : i \in 1..N /\ Items(s)[i] \in Nat /\ Items(t)[i] \in Nat
          /\ m \in Int /\ n \in Int
      BY <1>3, SMTT(40)
    <2>2. /\ x \in Seq(Nat) /\ Len(x) = IF m <= n THEN n - m + 1 ELSE 0
          /\ \A i \in 1..(n - m + 1) : x[i] = Items(s)[m + i - 1]
      BY <2>1, SubSeqProperties
    <2>3. /\ y \in Seq(Nat) /\ Len(y) = IF m <= n THEN n - m + 1 ELSE 0
          /\ \A i \in 1..(n - m + 1) : y[i] = Items(t)[m + i - 1]
      BY <2>1, SubSeqProperties
    <2> HIDE DEF x, y
    <2>4. \A i \in 1..Len(x) : x[i] = y[i]
      <3> TAKE i \in 1..Len(x)
      <3>1. m <= n /\ i \in 1..(n - m + 1) /\ m + i - 1 \in 1..N
        BY <1>3, <2>2
      <3> QED BY <1>5, <2>2, <2>3, <3>1
    <2>5. x = y
      BY <2>2, <2>3, <2>4, SeqEqual
    <2> QED BY <2>5 DEF x, y
  <1> QED BY <1>1, <1>6 DEF N

-----------------------------------------------------------------------------
(* The context: the inductive invariant *)

Summaries == [seq: Nat, size: SummarySizes, previous: Nat, ids: Seq(Nat), count: Nat]
PlanIds == Nat \X Seq(Nat) \X Nat
Plans == [id: PlanIds, previous: Nat, previous_count: Nat, ids: Seq(Nat),
          atoms: Nat \ {0}, expected: Nat, hard: BOOLEAN]

\* The conversation: event numbers go up from atom to atom and within one, and
\* only a step of the model has more than one item.
ConversationInv ==
    /\ atoms \in Seq(Atoms) /\ event_seq \in Nat
    /\ \A n \in DOMAIN atoms:
        /\ atoms[n].items # <<>> /\ Len(atoms[n].sizes) = Len(atoms[n].items)
        /\ ~IsStep(atoms[n]) => Len(atoms[n].items) = 1
        /\ \A i \in DOMAIN atoms[n].items: atoms[n].items[i] \in 1..event_seq
        /\ \A i, j \in DOMAIN atoms[n].items: i < j => atoms[n].items[i] < atoms[n].items[j]
    /\ \A m, n \in DOMAIN atoms: m < n =>
        \A i \in DOMAIN atoms[m].items, j \in DOMAIN atoms[n].items:
            atoms[m].items[i] < atoms[n].items[j]
    /\ pc = "tools" => atoms # <<>> /\ IsStep(atoms[Len(atoms)])

\* The atoms that no outcome joins any more.
Settled == IF pc = "tools" THEN Len(atoms) - 1 ELSE Len(atoms)

CountBefore(n) == IF n = 1 THEN 0 ELSE condensed[n - 1].count
SeqBefore(n) == IF n = 1 THEN NoEvent ELSE condensed[n - 1].seq
Tip == CountBefore(Len(condensed) + 1)

\* What a summary or a plan takes on from count: the whole settled atoms up to
\* its own, of which there is at least one.
TakesOn(ids, count) ==
    /\ ids # <<>>
    /\ ids = SubSeq(Items(atoms), count + 1, count + Len(ids))
    /\ \E n \in 1..Settled: count + Len(ids) = Consumed(n)

\* Every summary goes on from the one before it.
ChainInv ==
    /\ condensed \in Seq(Summaries)
    /\ \A n \in DOMAIN condensed:
        LET e == condensed[n] IN
        /\ e.seq \in 1..event_seq /\ e.size <= caps.summary_max_tokens
        /\ e.previous = SeqBefore(n)
        /\ e.count = CountBefore(n) + Len(e.ids)
        /\ TakesOn(e.ids, CountBefore(n))
    /\ \A m, n \in DOMAIN condensed: m < n => condensed[m].seq < condensed[n].seq
    /\ MandatoryAt # 0 => Tip <= Consumed(MandatoryAt - 1)

\* The plan at hand goes on from the latest summary, and leaves the mandatory
\* atom alone.
GoesOn(p) ==
    /\ p \in Plans /\ p.atoms <= Len(atoms)
    /\ p.previous = SeqBefore(Len(condensed) + 1) /\ p.previous_count = Tip
    /\ TakesOn(p.ids, Tip)
    /\ MandatoryAt # 0 => Tip + Len(p.ids) <= Consumed(MandatoryAt - 1)
    /\ p.hard = Hard(Report)

PlanInv ==
    /\ (plan # NoPlan) = (pc \in {"send", "inflight"})
    /\ pc \in {"send", "inflight"} => GoesOn(plan) /\ l.retry_plan = NoPlan
    /\ pc = "build" /\ l.retry_plan # NoPlan => GoesOn(l.retry_plan) /\ l.retry_plan.hard
    /\ pc = "ready" => request = Messages(Report) /\ ~Hard(Report)

One(condition) == IF condition THEN 1 ELSE 0

LocalsInv ==
    /\ pc \in {"idle", "build", "send", "inflight", "ready", "exceeded", "tools"}
    /\ foreign \in 0..MaxForeign
    /\ l \in [calls: 0..MAX_CONDENSER_CALLS, soft_calls: 0..MAX_SOFT_CONDENSER_CALLS,
              suppress_soft: BOOLEAN, plan_max_atoms: 0..Len(atoms), consecutive_invalid: 0..1,
              request_failures: SUBSET PlanIds, retry_plan: Plans \cup {NoPlan},
              valid_before: Nat, passes: Nat]
    /\ pc = "send" => /\ l.calls < MAX_CONDENSER_CALLS
                      /\ ~plan.hard => l.soft_calls < MAX_SOFT_CONDENSER_CALLS
    /\ pc \in {"send", "inflight"} => plan.hard \/ ~l.suppress_soft
    /\ pc \in {"build", "send", "inflight"} /\ l.consecutive_invalid = 1 =>
            l.suppress_soft \/ Hard(Report)
    /\ l.passes <= l.calls + One(l.suppress_soft) + One(pc \notin {"build", "inflight"})

ContextInv == ConversationInv /\ ChainInv /\ PlanInv /\ LocalsInv
-----------------------------------------------------------------------------
(* The summaries *)

LEMMA ConversationIsWhole ==
    ASSUME ConversationInv
    PROVE  /\ Whole(atoms) /\ \A n : Consumed(n) = Count(atoms, n)
           /\ Settled \in 0..Len(atoms)
  <1>1. atoms \in Seq(Atoms) /\ Len(atoms) \in Nat
    BY DEF ConversationInv
  <1>2. pc = "tools" => Len(atoms) # 0
    BY <1>1 DEF ConversationInv
  <1>3. Whole(atoms)
    BY DEF ConversationInv, Whole
  <1> QED BY <1>1, <1>2, <1>3 DEF Count, Consumed, Settled

\* What the summaries cover grows, up to a frontier of settled atoms.
LEMMA CoverageGrows ==
    ASSUME ConversationInv, ChainInv
    PROVE  /\ Len(condensed) \in Nat
           /\ \A n \in 1..Len(condensed) :
                /\ CountBefore(n) \in Nat /\ condensed[n].count \in Nat
                /\ CountBefore(n) < condensed[n].count
                /\ condensed[n].count <= Len(Items(atoms))
                /\ condensed[n].count \in Frontiers
                /\ Len(condensed[n].ids) \in Nat
           /\ \A m, n \in 1..Len(condensed) : m < n => condensed[m].count < condensed[n].count
           /\ Tip \in Nat /\ Tip <= Len(Items(atoms))
           /\ \E k \in 0..Settled : Tip = Count(atoms, k)
  <1>1. condensed \in Seq(Summaries) /\ Len(condensed) \in Nat
    BY DEF ChainInv
  <1>2. ASSUME NEW n \in 1..Len(condensed)
        PROVE  /\ CountBefore(n) \in Nat /\ condensed[n].count \in Nat
               /\ Len(condensed[n].ids) \in Nat \ {0}
               /\ condensed[n].count = CountBefore(n) + Len(condensed[n].ids)
               /\ \E k \in 1..Settled : condensed[n].count = Count(atoms, k)
    <2>1. condensed[n] \in Summaries /\ (n # 1 => condensed[n - 1] \in Summaries)
      BY <1>1
    <2>2. CountBefore(n) \in Nat /\ condensed[n].count \in Nat /\ condensed[n].ids \in Seq(Nat)
      BY <2>1 DEF CountBefore, Summaries
    <2>3. condensed[n].count = CountBefore(n) + Len(condensed[n].ids) /\ TakesOn(condensed[n].ids, CountBefore(n))
      BY <1>1 DEF ChainInv
    <2>4. PICK k \in 1..Settled : CountBefore(n) + Len(condensed[n].ids) = Consumed(k)
      BY <2>3 DEF TakesOn
    <2>5. Len(condensed[n].ids) \in Nat \ {0}
      BY <2>2, <2>3 DEF TakesOn
    <2> QED BY <2>2, <2>3, <2>4, <2>5, ConversationIsWhole
  <1>3. ASSUME NEW n \in 1..Len(condensed)
        PROVE  condensed[n].count <= Len(Items(atoms)) /\ condensed[n].count \in Frontiers
    <2>1. PICK k \in 1..Settled : condensed[n].count = Count(atoms, k)
      BY <1>2
    <2>2. k \in 1..Len(atoms) /\ Len(atoms) \in Nat
      BY ConversationIsWhole, CountsGrow
    <2>3. Count(atoms, k) <= Len(Items(atoms))
      BY <2>2, ConversationIsWhole, CountsGrow
    <2>4. Consumed(k) \in Frontiers
      BY <2>2, ConversationIsWhole DEF Frontiers, Whole
    <2> QED BY <2>1, <2>3, <2>4, ConversationIsWhole
  <1> DEFINE S == {j \in Nat : \A m, n \in 1..Len(condensed) :
                                   n = m + j + 1 => condensed[m].count < condensed[n].count}
  <1>4. ASSUME NEW n \in 1..Len(condensed), n # 1 PROVE condensed[n - 1].count < condensed[n].count
    <2>1. CountBefore(n) = condensed[n - 1].count
      BY <1>4 DEF CountBefore
    <2>2. /\ CountBefore(n) \in Nat /\ Len(condensed[n].ids) \in Nat \ {0}
          /\ condensed[n].count = CountBefore(n) + Len(condensed[n].ids)
      BY <1>2
    <2>3. CountBefore(n) < condensed[n].count
      BY <2>2
    <2> QED BY <2>1, <2>3
  <1>5. 0 \in S
    <2> SUFFICES ASSUME NEW m \in 1..Len(condensed), NEW n \in 1..Len(condensed), n = m + 0 + 1
                 PROVE  condensed[m].count < condensed[n].count
      OBVIOUS
    <2>1. n # 1 /\ n - 1 = m
      BY <1>1
    <2> QED BY <1>4, <2>1
  <1>6. ASSUME NEW j \in Nat, j \in S PROVE j + 1 \in S
    <2> SUFFICES ASSUME NEW m \in 1..Len(condensed), NEW n \in 1..Len(condensed), n = m + (j + 1) + 1
                 PROVE  condensed[m].count < condensed[n].count
      OBVIOUS
    <2>1. n # 1 /\ n - 1 \in 1..Len(condensed) /\ n - 1 = m + j + 1
      BY <1>1, SMTT(40)
    <2>2. condensed[m].count < condensed[n - 1].count
      BY <1>6, <2>1
    <2>3. condensed[n - 1].count < condensed[n].count
      BY <1>4, <2>1
    <2>4. condensed[m].count \in Nat /\ condensed[n].count \in Nat /\ condensed[n - 1].count \in Nat
      BY <1>2, <2>1
    <2> QED BY <2>2, <2>3, <2>4
  <1>7. Nat \subseteq S
    <2> HIDE DEF S
    <2> QED BY <1>5, <1>6, NatInduct
  <1>8. ASSUME NEW m \in 1..Len(condensed), NEW n \in 1..Len(condensed), m < n
        PROVE  condensed[m].count < condensed[n].count
    <2>1. n - m - 1 \in Nat /\ n = m + (n - m - 1) + 1
      BY <1>1, <1>8
    <2>2. n - m - 1 \in S
      BY <1>7, <2>1
    <2> QED BY <2>1, <2>2
  <1>9. /\ Tip \in Nat /\ Tip <= Len(Items(atoms))
        /\ \E k \in 0..Settled : Tip = Count(atoms, k)
    <2>1. CASE Len(condensed) = 0
      <3>1. Tip = 0
        BY <2>1 DEF Tip, CountBefore
      <3>2. Count(atoms, 0) = 0 /\ Len(Items(atoms)) \in Nat /\ Len(atoms) \in Nat
        BY ConversationIsWhole, CountsGrow
      <3>3. 0 \in 0..Settled
        BY <3>2, ConversationIsWhole
      <3> QED BY <3>1, <3>2, <3>3
    <2>2. CASE Len(condensed) # 0
      <3>1. Len(condensed) \in 1..Len(condensed) /\ Len(condensed) + 1 # 1
            /\ (Len(condensed) + 1) - 1 = Len(condensed)
        BY <1>1, <2>2
      <3>2. Tip = condensed[Len(condensed)].count
        BY <3>1 DEF Tip, CountBefore
      <3>3. \E k \in 1..Settled : Tip = Count(atoms, k)
        BY <1>2, <3>1, <3>2
      <3>4. Settled \in Nat
        BY ConversationIsWhole, CountsGrow
      <3>5. \E k \in 0..Settled : Tip = Count(atoms, k)
        BY <3>3, <3>4
      <3>6. Tip \in Nat /\ Tip <= Len(Items(atoms))
        BY <1>2, <1>3, <3>1, <3>2
      <3> QED BY <3>5, <3>6
    <2> QED BY <2>1, <2>2
  <1> QED BY <1>1, <1>2, <1>3, <1>8, <1>9

\* The first n summaries, by what they cover.
Chain(n) == [m \in 1..n |-> SubSeq(Items(atoms), 1, condensed[m].count)]

\* A summary that goes on from the one before it is found valid.
LEMMA SummaryIsValid ==
    ASSUME ConversationInv, ChainInv, NEW n \in 1..Len(condensed)
    PROVE  LET e == condensed[n]
               before == Chain(n - 1)
               at == {k \in 1..(n - 1) : condensed[k].seq = e.previous /\ before[k] # <<>>}
               prior == IF e.previous = NoEvent THEN <<>> ELSE before[CHOOSE k \in at : TRUE]
           IN  /\ e.previous = NoEvent \/ at # {}
               /\ Continues(e, prior)
               /\ prior \o e.ids = SubSeq(Items(atoms), 1, e.count)
  <1> DEFINE e == condensed[n]
             before == Chain(n - 1)
             at == {k \in 1..(n - 1) : condensed[k].seq = e.previous /\ before[k] # <<>>}
             prior == IF e.previous = NoEvent THEN <<>> ELSE before[CHOOSE k \in at : TRUE]
             items == Items(atoms)
  <1>1. /\ Len(condensed) \in Nat /\ items \in Seq(Nat) /\ Len(items) \in Nat
        /\ CountBefore(n) \in Nat /\ e.count \in Nat /\ CountBefore(n) < e.count /\ e.count <= Len(items)
        /\ e.count \in Frontiers /\ Len(e.ids) \in Nat
    BY CoverageGrows, ConversationIsWhole, CountsGrow
  <1>2. /\ e.previous = SeqBefore(n) /\ e.count = CountBefore(n) + Len(e.ids)
        /\ e.ids # <<>> /\ e.ids = SubSeq(items, CountBefore(n) + 1, CountBefore(n) + Len(e.ids))
        /\ e.size <= caps.summary_max_tokens
    <2>1. n \in DOMAIN condensed
      BY <1>1 DEF ChainInv
    <2> QED BY <2>1 DEF ChainInv, TakesOn
  <1>3. /\ (e.previous = NoEvent \/ at # {})
        /\ prior = SubSeq(items, 1, CountBefore(n))
    <2>1. CASE n = 1
      <3>1. e.previous = NoEvent /\ CountBefore(n) = 0
        BY <1>2, <2>1 DEF SeqBefore, CountBefore
      <3>2. SubSeq(items, 1, 0) = <<>>
        BY SubSeqEmpty
      <3> QED BY <3>1, <3>2
    <2>2. CASE n # 1
      <3>1. n - 1 \in 1..Len(condensed) /\ n - 1 \in 1..(n - 1) /\ n \in Nat
        BY <1>1, <2>2
      <3>2. e.previous = condensed[n - 1].seq /\ CountBefore(n) = condensed[n - 1].count
        BY <1>2, <2>2 DEF SeqBefore, CountBefore
      <3>3. e.previous # NoEvent
        BY <3>1, <3>2 DEF ChainInv, NoEvent
      <3>4. \A k \in 1..(n - 1) : before[k] = SubSeq(items, 1, condensed[k].count)
        BY <3>1 DEF Chain
      <3>5. \A k \in 1..(n - 1) : condensed[k].seq = e.previous => k = n - 1
        <4> TAKE k \in 1..(n - 1)
        <4> HAVE condensed[k].seq = e.previous
        <4>1. k \in DOMAIN condensed /\ n - 1 \in DOMAIN condensed
          BY <1>1, <3>1 DEF ChainInv
        <4>2. k < n - 1 => condensed[k].seq < condensed[n - 1].seq
          BY <4>1 DEF ChainInv
        <4>3. condensed[k].seq \in Int /\ condensed[n - 1].seq \in Int
          BY <4>1 DEF ChainInv
        <4> QED BY <3>1, <3>2, <4>2, <4>3
      <3>6. before[n - 1] # <<>>
        <4>1. condensed[n - 1].count \in Nat \ {0} /\ condensed[n - 1].count <= Len(items)
          BY <3>1, CoverageGrows
        <4> DEFINE c == condensed[n - 1].count
        <4> HIDE DEF c, items
        <4>2. Len(SubSeq(items, 1, c)) # 0
          <5>1. c \in Nat \ {0} /\ c <= Len(items) /\ items \in Seq(Nat) /\ Len(items) \in Nat
            BY <1>1, <4>1 DEF c, items
          <5> QED BY <5>1
        <4>3. SubSeq(items, 1, c) # <<>>
          <5>1. Len(<<>>) = 0
            OBVIOUS
          <5> QED BY <4>2, <5>1, Zenon
        <4> HIDE DEF before
        <4>4. before[n - 1] = SubSeq(items, 1, c)
          BY <3>1, <3>4 DEF c, items
        <4> QED BY <4>3, <4>4
      <3> HIDE DEF before
      <3>7. at = {n - 1}
        BY <3>1, <3>2, <3>5, <3>6
      <3>8. (CHOOSE k \in at : TRUE) = n - 1
        BY <3>7
      <3> HIDE DEF at
      <3> QED BY <3>1, <3>2, <3>3, <3>4, <3>7, <3>8
    <2> QED BY <2>1, <2>2
  <1> HIDE DEF prior, at, before
  <1>4. Len(prior) = CountBefore(n)
    BY <1>1, <1>3
  <1> HIDE DEF items, e
  <1>5. Continues(e, prior)
    BY <1>1, <1>2, <1>4 DEF Continues, items
  <1>6. prior \o e.ids = SubSeq(items, 1, e.count)
    <2>1. 1 \in 1..(Len(items) + 1) /\ CountBefore(n) \in (1 - 1)..Len(items) /\ e.count \in CountBefore(n)..Len(items)
      BY <1>1
    <2>2. SubSeq(items, 1, CountBefore(n)) \o SubSeq(items, CountBefore(n) + 1, e.count) = SubSeq(items, 1, e.count)
      BY <1>1, <2>1, ConcatAdjacentSubSeq
    <2> QED BY <1>2, <1>3, <2>2
  <1> QED BY <1>3, <1>5, <1>6 DEF e, before, at, prior, items

\* Every summary is valid, and covers what it counts.
LEMMA ChainIsValid ==
    ASSUME ConversationInv, ChainInv
    PROVE  ValidChain = Chain(Len(condensed))
  <1> DEFINE N == Len(condensed)
             Body(g, n) ==
                IF n = 0 THEN <<>>
                ELSE LET e == condensed[n]
                         before == g[n - 1]
                         at == {k \in 1..(n - 1): condensed[k].seq = e.previous /\ before[k] # <<>>}
                         prior == IF e.previous = NoEvent THEN <<>> ELSE before[CHOOSE k \in at: TRUE]
                     IN Append(before,
                               IF (e.previous = NoEvent \/ at # {}) /\ Continues(e, prior)
                               THEN prior \o e.ids ELSE <<>>)
             Eq(g) == g = [n \in 0..Len(condensed) |-> Body(g, n)]
             chain == CHOOSE g : Eq(g)
             h == [n \in 0..N |-> Chain(n)]
  <1>1. ValidChain = chain[Len(condensed)]
    BY Zenon DEF ValidChain
  <1>2. N \in Nat /\ Items(atoms) \in Seq(Nat) /\ \A n \in 1..N : condensed[n].count \in Nat
                                                          /\ condensed[n].count <= Len(Items(atoms))
    BY CoverageGrows, ConversationIsWhole, CountsGrow
  <1>3. ASSUME NEW n \in 1..N, NEW g, g[n - 1] = Chain(n - 1)
        PROVE  Body(g, n) = Chain(n)
    <2> DEFINE x == SubSeq(Items(atoms), 1, condensed[n].count)
    <2>1. n # 0 /\ n \in Nat /\ n - 1 \in Nat
      BY <1>2
    <2>2. Body(g, n) = Append(Chain(n - 1), x)
      <3> HIDE DEF x
      <3>1. n # 0
        BY <2>1
      <3> QED BY <1>3, <3>1, SummaryIsValid, Zenon DEF x
    <2>3. \A m \in 1..n : SubSeq(Items(atoms), 1, condensed[m].count) \in Seq(Nat)
      <3> TAKE m \in 1..n
      <3>1. m \in 1..N
        BY <1>2
      <3> QED BY <1>2, <3>1
    <2>4. Chain(n - 1) \in Seq(Seq(Nat)) /\ Len(Chain(n - 1)) = n - 1
          /\ Chain(n) \in Seq(Seq(Nat)) /\ Len(Chain(n)) = n
      <3> DEFINE V == Seq(Nat)
      <3> HIDE DEF V
      <3>1. \A m \in 1..n : SubSeq(Items(atoms), 1, condensed[m].count) \in V
        BY <2>3 DEF V
      <3>2. Chain(n - 1) \in [1..(n - 1) -> V] /\ Chain(n) \in [1..n -> V]
        BY <2>1, <3>1 DEF Chain
      <3>3. Chain(n - 1) \in Seq(V) /\ Len(Chain(n - 1)) = n - 1
            /\ Chain(n) \in Seq(V) /\ Len(Chain(n)) = n
        BY <2>1, <3>2
      <3> QED BY <3>3 DEF V
    <2>5. x \in Seq(Nat)
      BY <2>1, <2>3
    <2>6. (\A i \in 1..(n - 1) : Chain(n - 1)[i] = Chain(n)[i]) /\ Chain(n)[n] = x
      <3>1. \A i \in 1..(n - 1) : Chain(n - 1)[i] = SubSeq(Items(atoms), 1, condensed[i].count)
        BY Zenon DEF Chain
      <3>2. \A i \in 1..n : Chain(n)[i] = SubSeq(Items(atoms), 1, condensed[i].count)
        BY Zenon DEF Chain
      <3>3. n \in 1..n /\ \A i \in 1..(n - 1) : i \in 1..n
        BY <2>1
      <3> QED BY <3>1, <3>2, <3>3, Zenon DEF x
    <2>8. Append(Chain(n - 1), x) = Chain(n)
      <3> DEFINE V == Seq(Nat)
                 a == Chain(n - 1)
                 b == Chain(n)
                 c == Append(a, x)
      <3>1. a \in Seq(V) /\ b \in Seq(V) /\ x \in V /\ Len(a) = n - 1 /\ Len(b) = n
            /\ (\A i \in 1..(n - 1) : a[i] = b[i]) /\ b[n] = x
        BY <2>4, <2>5, <2>6
      <3> HIDE DEF V, a, b, x
      <3>2. /\ c \in Seq(V) /\ Len(c) = n
            /\ \A i \in 1..(n - 1) : c[i] = a[i]
            /\ c[n] = x
        BY <2>1, <3>1, AppendProperties
      <3> HIDE DEF c
      <3>3. \A i \in 1..n : c[i] = b[i]
        BY <2>1, <3>1, <3>2
      <3>4. c = b
        BY <3>1, <3>2, <3>3, SeqEqual
      <3> QED BY <3>4 DEF a, b, c
    <2> HIDE DEF Body, x
    <2> QED BY <2>2, <2>8
  <1>4. Chain(0) = <<>>
    BY DEF Chain
  <1>5. Eq(h)
    <2> DEFINE h2 == [n \in 0..N |-> Body(h, n)]
    <2>1. \A n \in 0..N : h[n] = Chain(n)
      OBVIOUS
    <2>2. ASSUME NEW n \in 0..N PROVE h[n] = Body(h, n)
      <3>1. CASE n = 0
        <4>1. Body(h, n) = <<>>
          BY <3>1
        <4> HIDE DEF Body, h
        <4> QED BY <1>4, <2>1, <3>1, <4>1
      <3>2. CASE n # 0
        <4>1. n \in 1..N /\ n - 1 \in 0..N
          BY <1>2, <3>2
        <4> HIDE DEF Body, h
        <4>2. h[n - 1] = Chain(n - 1)
          BY <2>1, <4>1
        <4>3. Body(h, n) = Chain(n)
          BY <1>3, <4>1, <4>2
        <4> QED BY <2>1, <4>3
      <3> QED BY <3>1, <3>2
    <2> HIDE DEF Body
    <2>3. h = [n \in 0..N |-> h[n]]
      OBVIOUS
    <2> HIDE DEF h
    <2>4. h = [n \in 0..N |-> Body(h, n)]
      BY <2>2, <2>3
    <2> QED BY <2>4
  <1>6. Eq(chain)
    <2> HIDE DEF Eq, h
    <2>1. \E g : Eq(g)
      BY <1>5
    <2> QED BY <2>1
  <1>7. \A n \in 0..N : chain[n] = Body(chain, n)
    <2> HIDE DEF Body, chain
    <2> QED BY <1>6
  <1>8. \A g : Body(g, 0) = <<>>
    OBVIOUS
  <1> HIDE DEF chain, Body, Eq, h
  <1> DEFINE S == {k \in Nat : k \in 0..N => chain[k] = Chain(k)}
  <1>9. 0 \in S
    BY <1>2, <1>4, <1>7, <1>8
  <1>10. ASSUME NEW k \in Nat, k \in S PROVE k + 1 \in S
    <2> SUFFICES ASSUME k + 1 \in 0..N PROVE chain[k + 1] = Chain(k + 1)
      OBVIOUS
    <2>1. k + 1 \in 1..N /\ k \in 0..N /\ (k + 1) - 1 = k
      BY <1>2
    <2>2. chain[(k + 1) - 1] = Chain((k + 1) - 1)
      BY <1>10, <2>1
    <2>3. Body(chain, k + 1) = Chain(k + 1)
      BY <1>3, <2>1, <2>2
    <2> QED BY <1>7, <2>3
  <1>11. Nat \subseteq S
    <2> HIDE DEF S
    <2> QED BY <1>9, <1>10, NatInduct
  <1>12. chain[N] = Chain(N)
    BY <1>2, <1>11
  <1> QED BY <1>1, <1>12

-----------------------------------------------------------------------------
(* The mandatory atom *)

LEMMA LastWhere ==
    ASSUME NEW N \in Nat, NEW I, I \subseteq 1..N
    PROVE  LET m == IF I # {} THEN Max(I) ELSE 0
           IN  m \in 0..N /\ (m # 0 => m \in I) /\ \A i \in I : i <= m /\ m # 0
  <1>1. CASE I = {}
    BY <1>1
  <1>2. CASE I # {}
    <2> DEFINE x == Max(I)
    <2>1. I \in SUBSET (0..N)
      OBVIOUS
    <2>2. x \in I /\ \A k \in I : k <= x
      BY <1>2, <2>1, NatMax
    <2> HIDE DEF x
    <2>3. x \in 1..N /\ \A k \in I : k <= x /\ x # 0
      BY <2>2
    <2> QED BY <1>2, <2>2, <2>3 DEF x
  <1> QED BY <1>1, <1>2

LEMMA AnchorIsLast ==
    ASSUME atoms \in Seq(Atoms)
    PROVE  /\ AnchorAt \in 0..Len(atoms) /\ (AnchorAt # 0 => IsMessage(atoms[AnchorAt]))
           /\ \A i \in 1..Len(atoms) : IsMessage(atoms[i]) => i <= AnchorAt
  <1> DEFINE I == {i \in 1..Len(atoms) : IsMessage(atoms[i])}
  <1>1. I \subseteq 1..Len(atoms) /\ Len(atoms) \in Nat
    OBVIOUS
  <1>2. AnchorAt = IF I # {} THEN Max(I) ELSE 0
    BY DEF AnchorAt, SelectLastInSeq
  <1>3. AnchorAt \in 0..Len(atoms) /\ (AnchorAt # 0 => AnchorAt \in I)
        /\ \A i \in I : i <= AnchorAt /\ AnchorAt # 0
    <2> HIDE DEF I
    <2> QED BY <1>1, <1>2, LastWhere
  <1> QED BY <1>3

\* The latest step of the conversation.
LatestStep == SelectLastInSeq(atoms, IsStep)

LEMMA StepIsLast ==
    ASSUME atoms \in Seq(Atoms)
    PROVE  /\ LatestStep \in 0..Len(atoms) /\ (LatestStep # 0 => IsStep(atoms[LatestStep]))
           /\ \A i \in 1..Len(atoms) : IsStep(atoms[i]) => i <= LatestStep
  <1> DEFINE I == {i \in 1..Len(atoms) : IsStep(atoms[i])}
  <1>1. I \subseteq 1..Len(atoms) /\ Len(atoms) \in Nat
    OBVIOUS
  <1>2. LatestStep = IF I # {} THEN Max(I) ELSE 0
    BY DEF LatestStep, SelectLastInSeq
  <1>3. LatestStep \in 0..Len(atoms) /\ (LatestStep # 0 => LatestStep \in I)
        /\ \A i \in I : i <= LatestStep /\ LatestStep # 0
    <2> HIDE DEF I
    <2> QED BY <1>1, <1>2, LastWhere
  <1> QED BY <1>3

LEMMA MandatoryIs ==
    /\ MandatoryAt = IF AnchorAt # 0 /\ LatestStep > AnchorAt /\ atoms[LatestStep].reasoning
                     THEN LatestStep ELSE 0
    /\ atoms \in Seq(Atoms) => MandatoryAt \in 0..Len(atoms)
  <1>1. MandatoryAt = IF AnchorAt # 0 /\ LatestStep > AnchorAt /\ atoms[LatestStep].reasoning
                      THEN LatestStep ELSE 0
    BY DEF MandatoryAt, LatestStep
  <1> QED BY <1>1, StepIsLast

\* When the conversation goes on, the mandatory atom stays or is the last one.
LEMMA MandatoryMoves ==
    ASSUME atoms \in Seq(Atoms), (atoms \in Seq(Atoms))',
           Len(atoms') = Len(atoms) \/ Len(atoms') = Len(atoms) + 1,
           \A i \in 1..Len(atoms) : /\ atoms'[i].type = atoms[i].type
                                    /\ atoms'[i].reasoning = atoms[i].reasoning
    PROVE  MandatoryAt' \in {0, MandatoryAt, Len(atoms')}
  <1> DEFINE N == Len(atoms)
             M == Len(atoms')
  <1>1. N \in Nat /\ M \in Nat
    OBVIOUS
  <1>2. \A i \in 1..N : IsMessage(atoms'[i]) = IsMessage(atoms[i]) /\ IsStep(atoms'[i]) = IsStep(atoms[i])
    BY DEF IsMessage, IsStep
  <1>3. /\ AnchorAt' \in 0..M /\ (AnchorAt' # 0 => IsMessage(atoms'[AnchorAt']))
        /\ \A i \in 1..M : IsMessage(atoms'[i]) => i <= AnchorAt'
    <2>1. (/\ AnchorAt \in 0..Len(atoms) /\ (AnchorAt # 0 => IsMessage(atoms[AnchorAt]))
           /\ \A i \in 1..Len(atoms) : IsMessage(atoms[i]) => i <= AnchorAt)'
      BY AnchorIsLast, PTL
    <2> QED BY <2>1
  <1>4. /\ LatestStep' \in 0..M /\ (LatestStep' # 0 => IsStep(atoms'[LatestStep']))
        /\ \A i \in 1..M : IsStep(atoms'[i]) => i <= LatestStep'
    <2>1. (/\ LatestStep \in 0..Len(atoms) /\ (LatestStep # 0 => IsStep(atoms[LatestStep]))
           /\ \A i \in 1..Len(atoms) : IsStep(atoms[i]) => i <= LatestStep)'
      BY StepIsLast, PTL
    <2> QED BY <2>1
  <1>5. MandatoryAt' = IF AnchorAt' # 0 /\ LatestStep' > AnchorAt' /\ atoms'[LatestStep'].reasoning
                       THEN LatestStep' ELSE 0
    BY DEF MandatoryAt, LatestStep
  <1>6. CASE LatestStep' \in {0, M}
    BY <1>5, <1>6
  <1>7. CASE AnchorAt' = M
    BY <1>1, <1>4, <1>5, <1>7
  <1>8. CASE LatestStep' \in 1..N /\ LatestStep' # M /\ AnchorAt' # M
    <2>1. AnchorAt' \in 0..N
      BY <1>1, <1>3, <1>8
    <2>2. AnchorAt' = AnchorAt
      BY <1>1, <1>2, <1>3, <2>1, AnchorIsLast
    <2>3. LatestStep' = LatestStep
      BY <1>1, <1>2, <1>4, <1>8, StepIsLast
    <2>4. atoms'[LatestStep'].reasoning = atoms[LatestStep].reasoning
      BY <1>8, <2>3
    <2> QED BY <1>5, <2>2, <2>3, <2>4, MandatoryIs
  <1> QED BY <1>1, <1>4, <1>6, <1>7, <1>8

-----------------------------------------------------------------------------
(* The summary in use *)

LEMMA Beginnings ==
    ASSUME NEW s \in Seq(Nat), NEW m \in Nat, NEW n \in Nat, m < n, n <= Len(s)
    PROVE  /\ Len(SubSeq(s, 1, n)) = n /\ SubSeq(s, 1, n) # <<>> /\ SubSeq(s, 1, n) \in Seq(Nat)
           /\ IsStrictPrefix(SubSeq(s, 1, m), SubSeq(s, 1, n))
  <1> DEFINE x == SubSeq(s, 1, m)
             y == SubSeq(s, 1, n)
             z == SubSeq(y, 1, m)
  <1>1. Len(s) \in Nat
    OBVIOUS
  <1>2. x \in Seq(Nat) /\ Len(x) = m /\ \A i \in 1..m : x[i] = s[i]
    BY <1>1
  <1>3. y \in Seq(Nat) /\ Len(y) = n /\ \A i \in 1..n : y[i] = s[i]
    BY <1>1
  <1> HIDE DEF x, y
  <1>4. z \in Seq(Nat) /\ Len(z) = m /\ \A i \in 1..m : z[i] = y[i]
    BY <1>3
  <1> HIDE DEF z
  <1>5. \A i \in 1..m : x[i] = z[i]
    <2>1. \A i \in 1..m : i \in 1..n
      OBVIOUS
    <2> QED BY <1>2, <1>3, <1>4, <2>1
  <1>6. x = z
    BY <1>2, <1>4, <1>5, SeqEqual
  <1>7. SubSeq(x, 1, Len(x)) = x
    BY <1>2, SubSeqFull
  <1>8. x # y /\ y # <<>>
    <2>1. Len(<<>>) = 0
      OBVIOUS
    <2>2. Len(x) # Len(y) /\ Len(y) # Len(<<>>)
      BY <1>2, <1>3, <2>1
    <2> QED BY <2>2, Zenon
  <1>9. IsPrefix(x, y)
    BY <1>2, <1>3, <1>6, <1>7 DEF IsPrefix, z
  <1> QED BY <1>3, <1>8, <1>9 DEF IsStrictPrefix, x, y

LEMMA LatestIsInUse ==
    ASSUME ConversationInv, ChainInv
    PROVE  /\ RollingSummary = Len(condensed) /\ SummariesFormAChain
           /\ Len(condensed) = 0 => Tip = 0
           /\ Covered(Len(condensed)) = SubSeq(Items(atoms), 1, Tip)
           /\ Len(Covered(Len(condensed))) = Tip
  <1> DEFINE N == Len(condensed)
             chain == ValidChain
  <1>1. /\ N \in Nat /\ Tip \in Nat /\ Tip <= Len(Items(atoms)) /\ Items(atoms) \in Seq(Nat)
        /\ \A n \in 1..N : condensed[n].count \in Nat \ {0} /\ condensed[n].count <= Len(Items(atoms))
        /\ \A m, n \in 1..N : m < n => condensed[m].count < condensed[n].count
    <2>1. \A n \in 1..N : condensed[n].count \in Nat /\ CountBefore(n) \in Nat
                          /\ CountBefore(n) < condensed[n].count
      BY CoverageGrows
    <2>2. \A n \in 1..N : condensed[n].count \in Nat \ {0}
      BY <2>1
    <2> QED BY <2>2, CoverageGrows, ConversationIsWhole, CountsGrow
  <1>2. DOMAIN chain = 1..N /\ \A n \in 1..N : chain[n] = SubSeq(Items(atoms), 1, condensed[n].count)
    BY ChainIsValid, Zenon DEF Chain
  <1>3. ASSUME NEW n \in 1..N
        PROVE  chain[n] \in Seq(Nat) /\ chain[n] # <<>> /\ Len(chain[n]) = condensed[n].count
    <2> HIDE DEF chain, N
    <2>1. condensed[n].count \in Nat /\ 0 < condensed[n].count /\ condensed[n].count <= Len(Items(atoms))
      BY <1>1
    <2> QED BY <1>1, <1>2, <2>1, Beginnings, ZenonT(60)
  <1>4. ASSUME NEW m \in 1..N, NEW n \in 1..N, m < n PROVE IsStrictPrefix(chain[m], chain[n])
    <2> HIDE DEF chain, N
    <2>1. /\ condensed[m].count \in Nat /\ condensed[n].count \in Nat
          /\ condensed[m].count < condensed[n].count /\ condensed[n].count <= Len(Items(atoms))
      BY <1>1, <1>4
    <2> QED BY <1>1, <1>2, <2>1, Beginnings, ZenonT(60)
  <1>5. SummariesFormAChain
    <2> SUFFICES ASSUME NEW n \in 1..N
                 PROVE  chain[n] # <<>> /\ (n > 1 => IsStrictPrefix(chain[n - 1], chain[n]))
      BY <1>2 DEF SummariesFormAChain
    <2>1. n > 1 => n - 1 \in 1..N /\ n - 1 < n
      BY <1>1
    <2> QED BY <1>3, <1>4, <2>1
  <1> HIDE DEF chain
  <1>6. Best(chain) = N
    <2> DEFINE valid == {n \in DOMAIN chain : chain[n] # <<>>}
               Top(n) == \A k \in valid : \/ Len(chain[k]) < Len(chain[n])
                                          \/ Len(chain[k]) = Len(chain[n]) /\ k <= n
    <2>1. valid = 1..N
      BY <1>2, <1>3
    <2>2. Best(chain) = IF valid = {} THEN 0 ELSE CHOOSE n \in valid : Top(n)
      BY DEF Best
    <2>3. CASE N = 0
      BY <1>1, <2>1, <2>2, <2>3
    <2>4. CASE N # 0
      <3>1. N \in 1..N
        BY <1>1, <2>4
      <3>2. \A k \in 1..N : k # N => Len(chain[k]) < Len(chain[N])
        <4> TAKE k \in 1..N
        <4> HAVE k # N
        <4>1. k < N
          BY <1>1
        <4> QED BY <1>1, <1>3, <3>1, <4>1
      <3> HIDE DEF valid
      <3>3. Top(N)
        BY <2>1, <3>1, <3>2, <1>1
      <3>4. \A n \in valid : Top(n) => n = N
        <4> SUFFICES ASSUME NEW n \in 1..N, Top(n), n # N PROVE FALSE
          BY <2>1
        <4>1. Len(chain[N]) < Len(chain[n]) \/ Len(chain[N]) = Len(chain[n])
          BY <2>1, <3>1
        <4>2. Len(chain[n]) < Len(chain[N])
          BY <3>2
        <4>3. Len(chain[n]) \in Nat /\ Len(chain[N]) \in Nat
          BY <1>1, <1>3, <3>1
        <4> QED BY <4>1, <4>2, <4>3
      <3>5. N \in valid /\ valid # {}
        BY <2>1, <3>1
      <3> HIDE DEF Top, N
      <3>6. (CHOOSE n \in valid : Top(n)) = N
        BY <3>3, <3>4, <3>5
      <3> QED BY <2>2, <3>5, <3>6
    <2> QED BY <2>3, <2>4
  <1>7. Tip = IF N = 0 THEN 0 ELSE condensed[N].count
    BY <1>1 DEF Tip, CountBefore
  <1>8. RollingSummary = N
    <2> DEFINE before == Consumed(MandatoryAt - 1)
    <2>1. RollingSummary = IF Best(chain) # 0 /\ MandatoryAt # 0 /\ Len(chain[Best(chain)]) > before
                           THEN 0 ELSE Best(chain)
      BY DEF RollingSummary, chain
    <2>2. N # 0 => N \in 1..N
      BY <1>1
    <2>3. N # 0 => Len(chain[N]) = Tip
      BY <1>3, <1>7, <2>2
    <2>4. MandatoryAt # 0 => Tip <= before /\ before \in Nat
      <3>1. MandatoryAt # 0 => MandatoryAt - 1 \in 0..Len(atoms)
        <4>1. atoms \in Seq(Atoms) /\ Len(atoms) \in Nat
          BY ConversationIsWhole, CountsGrow DEF ConversationInv
        <4>2. MandatoryAt \in 0..Len(atoms)
          BY <4>1, MandatoryIs
        <4> QED BY <4>1, <4>2
      <3>2. MandatoryAt # 0 => before \in Nat
        BY <3>1, ConversationIsWhole, CountsGrow
      <3> QED BY <3>2 DEF ChainInv
    <2> HIDE DEF before
    <2> QED BY <1>1, <1>6, <2>1, <2>3, <2>4
  <1>9. Covered(N) = SubSeq(Items(atoms), 1, Tip)
    <2>1. Covered(N) = IF N = 0 THEN <<>> ELSE chain[N]
      BY DEF Covered, chain
    <2>2. SubSeq(Items(atoms), 1, 0) = <<>>
      BY <1>1, SubSeqEmpty
    <2>3. N # 0 => N \in 1..N
      BY <1>1
    <2> QED BY <1>2, <1>7, <2>1, <2>2, <2>3
  <1>10. Len(SubSeq(Items(atoms), 1, Tip)) = Tip
    BY <1>1
  <1> QED BY <1>5, <1>7, <1>8, <1>9, <1>10

LEMMA ChainedInContext == ContextInv => SummariesAreChained
  BY LatestIsInUse DEF ContextInv, SummariesAreChained, LatestSummaryIsUsed

-----------------------------------------------------------------------------
(* What build returns *)

LEMMA LeastOf ==
    ASSUME NEW N \in Nat, NEW good, good \subseteq 1..N
    PROVE  (IF good = {} THEN N ELSE CHOOSE n \in good : \A k \in good : n <= k) \in 0..N
  <1>1. CASE good = {}
    BY <1>1
  <1>2. CASE good # {}
    <2> DEFINE Low(n) == \A k \in good : n <= k
    <2>1. good \in SUBSET Nat
      OBVIOUS
    <2>2. \E n \in good : Low(n)
      BY <1>2, <2>1, NatMin
    <2> HIDE DEF Low
    <2>3. (CHOOSE n \in good : Low(n)) \in good
      BY <2>2
    <2>4. good \subseteq 0..N
      OBVIOUS
    <2>5. (CHOOSE n \in good : Low(n)) \in 0..N
      BY <2>3, <2>4
    <2> QED BY <1>2, <2>5 DEF Low
  <1> QED BY <1>1, <1>2

LEMMA GreatestOf ==
    ASSUME NEW N \in Nat, NEW fits, fits \subseteq 1..N, fits # {}
    PROVE  (CHOOSE n \in fits : \A k \in fits : k <= n) \in 1..N
  <1> DEFINE Top(n) == \A k \in fits : k <= n
             x == Max(fits)
  <1>1. fits \in SUBSET (0..N)
    OBVIOUS
  <1>2. x \in fits /\ Top(x)
    BY <1>1, NatMax
  <1> HIDE DEF Top, x
  <1>3. (CHOOSE n \in fits : Top(n)) \in fits
    BY <1>2
  <1>4. (CHOOSE n \in fits : Top(n)) \in 1..N
    BY <1>3
  <1> QED BY <1>4 DEF Top

LEMMA DesiredCount ==
    ASSUME NEW u, NEW eligible \in Seq(Atoms), NEW target, NEW events_trigger \in BOOLEAN,
           NEW token_trigger \in BOOLEAN, NEW max_atoms \in Nat
    PROVE  CappedAt(DesiredAtomCount(u, eligible, target, events_trigger, token_trigger), max_atoms)
              \in 0..Len(eligible)
  <1> DEFINE N == Len(eligible)
             need == AtLeast(1, Len(Items(u)) - caps.target_events)
             reserve == caps.summary_max_tokens + MemoryFrame
             goodE == {n \in DOMAIN eligible : Len(Items(SubSeq(eligible, 1, n))) >= need}
             goodT == {n \in DOMAIN eligible :
                         reserve + HistoryTokens(SubSeq(u, n + 1, Len(u))) <= target}
             E == IF goodE = {} THEN N ELSE CHOOSE n \in goodE : \A k \in goodE : n <= k
             T == IF goodT = {} THEN N ELSE CHOOSE n \in goodT : \A k \in goodT : n <= k
             D == DesiredAtomCount(u, eligible, target, events_trigger, token_trigger)
  <1>1. N \in Nat /\ goodE \subseteq 1..N /\ goodT \subseteq 1..N
    OBVIOUS
  <1>2. D = AtLeast(IF events_trigger THEN E ELSE 0, IF token_trigger THEN T ELSE 0)
    BY DEF DesiredAtomCount, Shortest
  <1> HIDE DEF goodE, goodT, D
  <1>3. E \in 0..N /\ T \in 0..N
    BY <1>1, LeastOf
  <1> HIDE DEF E, T
  <1>4. D \in 0..N
    BY <1>1, <1>2, <1>3 DEF AtLeast
  <1> QED BY <1>1, <1>4 DEF CappedAt, NoEvent, D

LEMMA ReportIs ==
    ASSUME ConversationInv, ChainInv
    PROVE  /\ Report.summary = Len(condensed)
           /\ \E k \in 0..Settled : /\ Tip = Count(atoms, k)
                                    /\ Report.uncovered = SubSeq(atoms, k + 1, Len(atoms))
  <1> DEFINE L == Len(atoms)
             reached == {n \in DOMAIN atoms : Consumed(n) = Tip}
  <1>1. /\ atoms \in Seq(Atoms) /\ L \in Nat /\ Settled \in 0..L /\ Tip <= Len(Items(atoms)) /\ Tip \in Nat
        /\ Len(Items(atoms)) \in Nat
        /\ \A n \in 0..L : Count(atoms, n) \in Nat /\ Consumed(n) = Count(atoms, n)
        /\ \A m, n \in 0..L : m < n => Count(atoms, m) < Count(atoms, n)
        /\ Count(atoms, 0) = 0
    BY ConversationIsWhole, CountsGrow, CoverageGrows DEF Whole
  <1>2. PICK k \in 0..Settled : Tip = Count(atoms, k)
    BY CoverageGrows
  <1>3. Report.summary = Len(condensed) /\ Report.uncovered = AtomsAfterCoverage(Tip)
    BY LatestIsInUse DEF Report, ReportWith, ReportOn
  <1>4. AtomsAfterCoverage(Tip) = IF reached # {} THEN SubSeq(atoms, (CHOOSE n \in reached : TRUE) + 1, L)
                                  ELSE IF Tip > Len(Items(atoms)) THEN <<>> ELSE atoms
    BY DEF AtomsAfterCoverage
  <1>5. AtomsAfterCoverage(Tip) = SubSeq(atoms, k + 1, L)
    <2>1. k \in 0..L
      BY <1>1
    <2>2. \A n \in 0..L : Consumed(n) = Tip => n = k
      <3> TAKE n \in 0..L
      <3>1. n < k => Count(atoms, n) < Count(atoms, k)
        BY <1>1, <2>1
      <3>2. k < n => Count(atoms, k) < Count(atoms, n)
        BY <1>1, <2>1
      <3> QED BY <1>1, <1>2, <2>1, <3>1, <3>2
    <2>3. CASE k = 0
      <3>1. reached = {}
        BY <1>1, <2>2, <2>3
      <3>2. SubSeq(atoms, 1, L) = atoms
        BY <1>1, SubSeqFull
      <3> HIDE DEF reached
      <3>3. AtomsAfterCoverage(Tip) = atoms
        BY <1>1, <1>4, <3>1
      <3> QED BY <2>3, <3>2, <3>3
    <2>4. CASE k # 0
      <3>1. reached = {k}
        BY <1>1, <1>2, <2>1, <2>2, <2>4
      <3> HIDE DEF reached
      <3>2. (CHOOSE n \in reached : TRUE) = k
        BY <3>1
      <3> QED BY <1>4, <3>1, <3>2
    <2> QED BY <2>3, <2>4
  <1> QED BY <1>2, <1>3, <1>5

LEMMA SumIsNat ==
    ASSUME NEW q \in Seq(Nat)
    PROVE  SumOf(q) \in Nat
  <1> DEFINE N == Len(q)
             c == [n \in 1..N |-> q[n]]
  <1>1. N \in Nat /\ c \in [1..N -> Nat] /\ \A n \in 1..N : c[n] = q[n]
    OBVIOUS
  <1> HIDE DEF c
  <1>2. PICK f \in [0..N -> Nat] : f[0] = 0 /\ \A n \in 1..N : f[n] = f[n - 1] + c[n]
    BY <1>1, PartialSums
  <1>3. \A n \in 1..N : f[n] = f[n - 1] + q[n]
    BY <1>1, <1>2
  <1>4. SumOf(q) = f[N]
    BY <1>1, <1>2, <1>3, SumValue, ZenonT(60)
  <1> QED BY <1>1, <1>2, <1>4

LEMMA AtomIs ==
    ASSUME ConversationInv, NEW i \in 1..Len(atoms)
    PROVE  /\ atoms[i] \in Atoms /\ atoms[i].items \in Seq(Nat) /\ atoms[i].sizes \in Seq(Nat)
           /\ atoms[i].items # <<>> /\ Len(atoms[i].items) \in Nat \ {0}
           /\ Len(atoms[i].sizes) = Len(atoms[i].items)
           /\ (~IsStep(atoms[i]) => Len(atoms[i].items) = 1)
           /\ \A j \in 1..Len(atoms[i].items) : atoms[i].items[j] \in 1..event_seq
           /\ \A j, k \in 1..Len(atoms[i].items) : j < k => atoms[i].items[j] < atoms[i].items[k]
  <1>1. atoms[i] \in Atoms /\ DOMAIN atoms = 1..Len(atoms)
    BY DEF ConversationInv
  <1>2. atoms[i].items \in Seq(Nat) /\ atoms[i].sizes \in Seq(Nat)
    BY <1>1 DEF Atoms
  <1>3. /\ atoms[i].items # <<>> /\ Len(atoms[i].sizes) = Len(atoms[i].items)
        /\ ~IsStep(atoms[i]) => Len(atoms[i].items) = 1
        /\ \A j \in DOMAIN atoms[i].items : atoms[i].items[j] \in 1..event_seq
        /\ \A j, k \in DOMAIN atoms[i].items : j < k => atoms[i].items[j] < atoms[i].items[k]
    BY <1>1, Zenon DEF ConversationInv
  <1>4. DOMAIN atoms[i].items = 1..Len(atoms[i].items) /\ Len(atoms[i].items) \in Nat \ {0}
    BY <1>2, <1>3
  <1> QED BY <1>1, <1>2, <1>3, <1>4

\* Two atoms are never alike, and no two of them share an event.
LEMMA AtomsDiffer ==
    ASSUME ConversationInv, NEW m \in 1..Len(atoms), NEW n \in 1..Len(atoms),
           atoms[m].items[1] = atoms[n].items[1]
    PROVE  m = n
  <1>1. atoms \in Seq(Atoms) /\ Len(atoms) \in Nat
    BY DEF ConversationInv
  <1>2. 1 \in DOMAIN atoms[m].items /\ 1 \in DOMAIN atoms[n].items
        /\ atoms[m].items[1] \in Int /\ atoms[n].items[1] \in Int
    <2>1. \A i \in 1..Len(atoms) : 1 \in DOMAIN atoms[i].items /\ atoms[i].items[1] \in Int
      <3> TAKE i \in 1..Len(atoms)
      <3>1. atoms[i].items \in Seq(Nat) /\ atoms[i].items # <<>>
        BY AtomIs
      <3> QED BY <3>1
    <2> QED BY <2>1
  <1>3. m < n => atoms[m].items[1] < atoms[n].items[1]
    BY <1>1, <1>2 DEF ConversationInv
  <1>4. n < m => atoms[n].items[1] < atoms[m].items[1]
    BY <1>1, <1>2 DEF ConversationInv
  <1> QED BY <1>1, <1>2, <1>3, <1>4

\* The figures of the report are natural numbers.
LEMMA HistoryIsNat ==
    ASSUME NEW some \in Seq(Atoms)
    PROVE  /\ Rendered(some) \in Seq(Atoms) /\ HistoryTokens(some) \in Nat
           /\ \A i \in 1..Len(some) : AtomTokens(some[i]) \in Nat
  <1>1. Rendered(some) \in Seq(Atoms)
    <2> DEFINE anchor == {n \in DOMAIN some : some[n].items[1] = Anchor}
               n == CHOOSE n \in anchor : TRUE
    <2>1. Rendered(some) = IF anchor = {} THEN some ELSE RemoveAt(some, n)
      BY DEF Rendered
    <2>2. CASE anchor = {}
      BY <2>1, <2>2
    <2>3. CASE anchor # {}
      <3>1. n \in 1..Len(some)
        BY <2>3
      <3> HIDE DEF n, anchor
      <3>2. /\ Len(some) \in Nat /\ 1 \in 1..(Len(some) + 1) /\ n - 1 \in 0..Len(some)
            /\ n + 1 \in 1..(Len(some) + 1) /\ Len(some) \in 0..Len(some)
        BY <3>1
      <3>3. SubSeq(some, 1, n - 1) \in Seq(Atoms) /\ SubSeq(some, n + 1, Len(some)) \in Seq(Atoms)
        BY <3>2, SliceOfAtoms
      <3>4. RemoveAt(some, n) \in Seq(Atoms)
        BY <3>3, ConcatProperties DEF RemoveAt
      <3> QED BY <2>1, <2>3, <3>4
    <2> QED BY <2>2, <2>3
  <1>2. ASSUME NEW a \in Atoms PROVE AtomTokens(a) \in Nat
    <2>1. SumOf(a.sizes) \in Nat
      BY SumIsNat DEF Atoms
    <2> DEFINE x == SumOf(a.sizes)
    <2> HIDE DEF x
    <2>2. AtomTokens(a) = x + (IF MandatoryAt # 0 /\ a = atoms[MandatoryAt] THEN 1 ELSE 0)
      BY DEF AtomTokens, x
    <2> QED BY <2>1, <2>2 DEF x
  <1>3. HistoryTokens(some) \in Nat
    <2> DEFINE shown == Rendered(some)
               q == [n \in DOMAIN shown |-> AtomTokens(shown[n])]
    <2>1. HistoryTokens(some) = SumOf(q)
      BY DEF HistoryTokens
    <2>2. shown \in Seq(Atoms) /\ Len(shown) \in Nat /\ DOMAIN shown = 1..Len(shown)
      BY <1>1
    <2> HIDE DEF shown
    <2>3. \A n \in 1..Len(shown) : AtomTokens(shown[n]) \in Nat
      BY <1>2, <2>2
    <2>4. q \in Seq(Nat)
      BY <2>2, <2>3
    <2> QED BY <2>1, <2>4, SumIsNat
  <1> QED BY <1>1, <1>2, <1>3

LEMMA TotalIsNat ==
    ASSUME ConversationInv, ChainInv
    PROVE  /\ Report.total = Report.fixed + Report.history
           /\ Report.fixed \in Nat /\ Report.history \in Nat /\ Report.total \in Nat
           /\ caps.usable_input_budget \in Nat
  <1> DEFINE r == Report
             anchor == IF AnchorAt = 0 THEN 0 ELSE atoms[AnchorAt].sizes[1]
  <1>1. r = ReportOn(r.summary, r.uncovered)
    BY DEF Report, ReportWith, ReportOn
  <1>2. /\ r.fixed = Instructions + anchor
        /\ r.history = MemoryTokens(r.summary) + HistoryTokens(r.uncovered)
        /\ r.total = r.fixed + r.history
    <2> HIDE DEF r
    <2> QED BY <1>1 DEF ReportOn
  <1>3. PICK k \in 0..Settled : r.uncovered = SubSeq(atoms, k + 1, Len(atoms))
    BY ReportIs
  <1>4. /\ atoms \in Seq(Atoms) /\ Len(atoms) \in Nat /\ Settled \in 0..Len(atoms)
        /\ condensed \in Seq(Summaries) /\ r.summary = Len(condensed)
    BY ConversationIsWhole, CountsGrow, ReportIs DEF Whole, ChainInv
  <1>5. r.uncovered \in Seq(Atoms)
    <2>1. k + 1 \in 1..(Len(atoms) + 1) /\ Len(atoms) \in 0..Len(atoms)
      BY <1>4
    <2> HIDE DEF r
    <2> QED BY <1>3, <1>4, <2>1, SliceOfAtoms
  <1>6. HistoryTokens(r.uncovered) \in Nat
    BY <1>5, HistoryIsNat
  <1>7. Instructions \in Nat /\ MemoryFrame \in Nat /\ SummarySizes \subseteq Nat
        /\ caps.usable_input_budget \in Nat
    BY CapsAssumption
  <1>8. MemoryTokens(r.summary) \in Nat
    <2> HIDE DEF r
    <2>1. r.summary # 0 => condensed[r.summary].size \in Nat
      <3>1. Len(condensed) # 0 => condensed[Len(condensed)] \in Summaries
        BY <1>4
      <3> QED BY <1>4, <1>7, <3>1 DEF Summaries
    <2> QED BY <1>7, <2>1 DEF MemoryTokens
  <1>9. anchor \in Nat
    <2>1. AnchorAt # 0 => AnchorAt \in 1..Len(atoms)
      BY <1>4, AnchorIsLast
    <2>2. AnchorAt # 0 => atoms[AnchorAt].sizes \in Seq(Nat) /\ atoms[AnchorAt].items \in Seq(Nat)
                           /\ atoms[AnchorAt].items # <<>>
                           /\ Len(atoms[AnchorAt].sizes) = Len(atoms[AnchorAt].items)
      BY <2>1, AtomIs
    <2>3. AnchorAt # 0 => atoms[AnchorAt].sizes[1] \in Nat
      BY <2>2, SMTT(40)
    <2> QED BY <2>3
  <1> HIDE DEF r, anchor
  <1> QED BY <1>2, <1>6, <1>7, <1>8, <1>9 DEF r

\* What may be condensed next: a beginning of the tail, up to the mandatory
\* atom.
LEMMA EligibleIs ==
    ASSUME ConversationInv, ChainInv, NEW k \in 0..Len(atoms), Tip = Count(atoms, k),
           Report.uncovered = SubSeq(atoms, k + 1, Len(atoms))
    PROVE  \E e \in 0..(Len(atoms) - k) :
              /\ Eligible(Report) = SubSeq(atoms, k + 1, k + e)
              /\ MandatoryAt # 0 => k + e = MandatoryAt - 1
  <1> DEFINE L == Len(atoms)
             u == Report.uncovered
             M == MandatoryAt
             mandatory == {n \in DOMAIN u : M # 0 /\ u[n] = atoms[M]}
  <1>1. /\ atoms \in Seq(Atoms) /\ L \in Nat /\ M \in 0..L
        /\ \A m, n \in 0..L : m < n => Count(atoms, m) < Count(atoms, n)
        /\ \A n \in 0..L : Count(atoms, n) \in Nat /\ Consumed(n) = Count(atoms, n)
    BY ConversationIsWhole, CountsGrow, MandatoryIs DEF Whole
  <1>2. /\ u \in Seq(Atoms) /\ Len(u) = L - k /\ \A n \in 1..(L - k) : u[n] = atoms[k + n]
        /\ \A n \in 0..(L - k) : SubSeq(u, 1, n) = SubSeq(atoms, k + 1, k + n)
    <2>1. k + 1 \in 1..(L + 1) /\ L \in 0..L /\ L - k \in Nat
      BY <1>1
    <2> DEFINE t == SubSeq(atoms, k + 1, L)
    <2>2. /\ t \in Seq(Atoms) /\ Len(t) = IF k + 1 <= L THEN L - (k + 1) + 1 ELSE 0
          /\ \A i \in 1..(L - (k + 1) + 1) : t[i] = atoms[(k + 1) + i - 1]
          /\ \A j \in 0..Len(t) : SubSeq(t, 1, j) = SubSeq(atoms, k + 1, (k + 1) + j - 1)
      BY <1>1, <2>1, SliceOfAtoms
    <2> HIDE DEF t
    <2>3. Len(t) = L - k /\ L - (k + 1) + 1 = L - k
      BY <1>1, <2>2
    <2>4. \A i \in 1..(L - k) : (k + 1) + i - 1 = k + i
      BY <1>1
    <2>5. \A j \in 0..(L - k) : (k + 1) + j - 1 = k + j
      BY <1>1
    <2>6. \A i \in 1..(L - k) : t[i] = atoms[k + i]
      BY <2>2, <2>3, <2>4
    <2>7. \A j \in 0..(L - k) : SubSeq(t, 1, j) = SubSeq(atoms, k + 1, k + j)
      BY <2>2, <2>3, <2>5
    <2> QED BY <2>2, <2>3, <2>6, <2>7 DEF t
  <1>3. Eligible(Report) = IF mandatory = {} THEN u
                           ELSE SubSeq(u, 1, (CHOOSE n \in mandatory : TRUE) - 1)
    BY DEF Eligible
  <1> HIDE DEF u, M
  <1>4. CASE M = 0
    <2>1. mandatory = {}
      BY <1>4
    <2>2. L - k \in 0..(L - k) /\ k + (L - k) = L
      BY <1>1
    <2>3. Eligible(Report) = SubSeq(atoms, k + 1, k + (L - k))
      BY <1>3, <2>1, <2>2 DEF u
    <2> QED BY <1>4, <2>2, <2>3 DEF M
  <1>5. CASE M # 0
    <2>1. Tip <= Consumed(M - 1)
      BY <1>5 DEF ChainInv, M
    <2>2. M \in 1..L /\ M - 1 \in 0..L
      BY <1>1, <1>5
    <2>3. k <= M - 1
      <3> SUFFICES ASSUME M - 1 < k PROVE FALSE
        BY <1>1
      <3>1. Count(atoms, M - 1) < Count(atoms, k)
        BY <1>1, <2>2
      <3> QED BY <1>1, <2>1, <2>2, <3>1
    <2>4. M - k \in 1..(L - k) /\ k + (M - k) = M
      BY <1>1, <2>2, <2>3
    <2>5. u[M - k] = atoms[M]
      BY <1>2, <2>4
    <2>6. \A n \in 1..(L - k) : u[n] = atoms[M] => n = M - k
      <3> SUFFICES ASSUME NEW n \in 1..(L - k), u[n] = atoms[M] PROVE n = M - k
        OBVIOUS
      <3>1. k + n \in 1..L /\ atoms[k + n] = atoms[M]
        BY <1>1, <1>2
      <3>2. k + n = M
        BY <2>2, <3>1, AtomsDiffer
      <3> QED BY <1>1, <3>2
    <2>7. DOMAIN u = 1..(L - k)
      BY <1>2
    <2>8. mandatory = {M - k}
      BY <1>5, <2>4, <2>5, <2>6, <2>7
    <2> HIDE DEF mandatory
    <2>9. (CHOOSE n \in mandatory : TRUE) = M - k
      BY <2>8
    <2>10. Eligible(Report) = SubSeq(u, 1, (M - k) - 1)
      BY <1>3, <2>8, <2>9
    <2>11. (M - k) - 1 \in 0..(L - k) /\ k + ((M - k) - 1) = M - 1
      BY <1>1, <2>4
    <2>12. Eligible(Report) = SubSeq(atoms, k + 1, k + ((M - k) - 1))
      BY <1>2, <2>10, <2>11
    <2> QED BY <2>11, <2>12 DEF M
  <1> QED BY <1>4, <1>5

\* A plan takes on whole atoms after the summary in use.
LEMMA PlanGoesOn ==
    ASSUME ConversationInv, ChainInv, pc # "tools",
           NEW k \in 0..Len(atoms), Tip = Count(atoms, k),
           NEW f \in 1..(Len(atoms) - k), MandatoryAt # 0 => k + f <= MandatoryAt - 1,
           NEW fitting, fitting = SubSeq(atoms, k + 1, k + f)
    PROVE  GoesOn(CondensationPlan(Report, fitting, Hard(Report)))
  <1> DEFINE L == Len(atoms)
             p == CondensationPlan(Report, fitting, Hard(Report))
             ids == Items(fitting)
             N == Len(condensed)
  <1>1. /\ atoms \in Seq(Atoms) /\ L \in Nat /\ Settled = L /\ Items(atoms) \in Seq(Nat)
        /\ Len(Items(atoms)) \in Nat /\ event_seq \in Nat /\ MandatoryAt \in 0..L
        /\ \A n \in 0..L : /\ Count(atoms, n) \in Nat /\ Consumed(n) = Count(atoms, n)
                           /\ Count(atoms, n) <= Len(Items(atoms))
        /\ \A m, n \in 0..L : m < n => Count(atoms, m) < Count(atoms, n)
        /\ \A m, n \in 0..L : m <= n =>
              Items(SubSeq(atoms, m + 1, n)) = SubSeq(Items(atoms), Count(atoms, m) + 1, Count(atoms, n))
    BY ConversationIsWhole, CountsGrow, MandatoryIs DEF Whole, Settled, ConversationInv
  <1> HIDE DEF L
  <1>2. f \in Nat \ {0} /\ k + f \in 1..L /\ k + f \in 0..L /\ k < k + f /\ k \in 0..L /\ k <= k + f
    BY <1>1 DEF L
  <1>3. ids = SubSeq(Items(atoms), Tip + 1, Count(atoms, k + f)) /\ Tip < Count(atoms, k + f)
        /\ Tip \in Nat /\ Count(atoms, k + f) \in Nat /\ Count(atoms, k + f) <= Len(Items(atoms))
    BY <1>1, <1>2
  <1>4. ids \in Seq(Nat) /\ Len(ids) = Count(atoms, k + f) - Tip /\ ids # <<>>
    <2> DEFINE c == Count(atoms, k + f)
    <2>1. c \in Nat /\ c <= Len(Items(atoms)) /\ Tip < c /\ Tip \in Nat
      BY <1>3
    <2> HIDE DEF c, ids
    <2>2. ids = SubSeq(Items(atoms), Tip + 1, c)
      BY <1>3 DEF c
    <2>3. ids \in Seq(Nat) /\ Len(ids) = c - Tip
      <3> DEFINE all == Items(atoms)
      <3>1. all \in Seq(Nat) /\ Len(all) \in Nat /\ c <= Len(all)
        BY <1>1, <2>1
      <3> HIDE DEF all
      <3>2. \A i \in (Tip + 1)..c : all[i] \in Nat
        BY <2>1, <3>1, SMTT(40)
      <3>3. Tip + 1 \in Int /\ c \in Int /\ Tip + 1 <= c /\ c - (Tip + 1) + 1 = c - Tip
        BY <2>1
      <3>4. SubSeq(all, Tip + 1, c) \in Seq(Nat) /\ Len(SubSeq(all, Tip + 1, c)) = c - (Tip + 1) + 1
        BY <3>2, <3>3, SubSeqProperties
      <3> QED BY <2>2, <3>3, <3>4 DEF all
    <2>4. Len(<<>>) = 0
      OBVIOUS
    <2>5. Len(ids) # 0
      BY <1>3, <2>1, <2>3
    <2>6. ids # <<>>
      BY <2>4, <2>5, Zenon
    <2> QED BY <2>3, <2>6 DEF c
  <1>5. Len(fitting) = f
    <2>1. k + 1 \in 1..(L + 1) /\ k + f \in 0..L /\ k + 1 <= k + f /\ (k + f) - (k + 1) + 1 = f
      BY <1>1, <1>2
    <2> QED BY <1>1, <2>1, SliceOfAtoms DEF L
  <1>6. Report.summary = N /\ Len(Covered(N)) = Tip /\ N \in Nat /\ condensed \in Seq(Summaries)
        /\ (N = 0 => Tip = 0)
    BY ReportIs, LatestIsInUse, CoverageGrows DEF ChainInv
  <1> HIDE DEF ids, N
  <1>7. /\ p.id = <<N, ids, event_seq>> /\ p.previous = SeqBefore(N + 1) /\ p.previous_count = Tip
        /\ p.ids = ids /\ p.atoms = f /\ p.expected = event_seq /\ p.hard = Hard(Report)
        /\ p = [id |-> p.id, previous |-> p.previous, previous_count |-> p.previous_count,
                ids |-> p.ids, atoms |-> p.atoms, expected |-> p.expected, hard |-> p.hard]
    <2>1. SeqBefore(N + 1) = IF N = 0 THEN NoEvent ELSE condensed[N].seq
      BY <1>6 DEF SeqBefore
    <2> QED BY <1>5, <1>6, <2>1 DEF CondensationPlan, ids
  <1> HIDE DEF p
  <1>8. p \in Plans
    <2>1. p.previous \in Nat
      <3>1. N # 0 => condensed[N] \in Summaries
        BY <1>6 DEF N
      <3>2. SeqBefore(N + 1) = IF N = 0 THEN NoEvent ELSE condensed[N].seq
        BY <1>6 DEF SeqBefore
      <3> QED BY <1>7, <3>1, <3>2 DEF Summaries, NoEvent
    <2>2. p.id \in PlanIds
      BY <1>1, <1>4, <1>6, <1>7 DEF PlanIds
    <2>3. p.hard \in BOOLEAN
      BY <1>7 DEF Hard
    <2>4. /\ p.previous_count \in Nat /\ p.ids \in Seq(Nat) /\ p.atoms \in Nat \ {0}
          /\ p.expected \in Nat
      <3>1. Tip \in Nat /\ event_seq \in Nat
        BY <1>1, <1>3
      <3> QED BY <1>2, <1>4, <1>7, <3>1
    <2> QED BY <1>7, <2>1, <2>2, <2>3, <2>4 DEF Plans
  <1>9. Tip + Len(p.ids) = Consumed(k + f)
    <2>1. Consumed(k + f) = Count(atoms, k + f) /\ Len(p.ids) = Len(ids)
      BY <1>1, <1>2, <1>7
    <2> DEFINE c == Count(atoms, k + f)
    <2> HIDE DEF c
    <2> QED BY <1>3, <1>4, <2>1 DEF c
  <1>10. TakesOn(p.ids, Tip)
    <2>1. p.ids = SubSeq(Items(atoms), Tip + 1, Tip + Len(p.ids))
      BY <1>1, <1>2, <1>3, <1>7, <1>9
    <2> QED BY <1>1, <1>2, <1>4, <1>7, <1>9, <2>1 DEF TakesOn
  <1>11. MandatoryAt # 0 => Tip + Len(p.ids) <= Consumed(MandatoryAt - 1)
    <2> SUFFICES ASSUME MandatoryAt # 0 PROVE Consumed(k + f) <= Consumed(MandatoryAt - 1)
      BY <1>9
    <2> DEFINE m == MandatoryAt - 1
    <2>1. m \in 0..L /\ k + f <= m
      BY <1>1
    <2> HIDE DEF m
    <2>2. k + f = m \/ Count(atoms, k + f) < Count(atoms, m)
      BY <1>1, <1>2, <2>1
    <2>3. Count(atoms, k + f) \in Nat /\ Count(atoms, m) \in Nat
          /\ Consumed(k + f) = Count(atoms, k + f) /\ Consumed(m) = Count(atoms, m)
      BY <1>1, <1>2, <2>1
    <2>4. Consumed(k + f) <= Consumed(m)
      BY <2>2, <2>3
    <2> QED BY <2>4 DEF m
  <1>12. p.atoms <= Len(atoms)
    BY <1>1, <1>2, <1>7, SMTT(40) DEF L
  <1> QED BY <1>7, <1>8, <1>10, <1>11, <1>12 DEF GoesOn, p, N

\* A beginning of a beginning.
LEMMA PartOfPart ==
    ASSUME NEW s \in Seq(Atoms), NEW k \in Nat, NEW e \in Nat, k + e <= Len(s), NEW c \in 0..e
    PROVE  LET t == SubSeq(s, k + 1, k + e)
           IN  t \in Seq(Atoms) /\ Len(t) = e /\ SubSeq(t, 1, c) = SubSeq(s, k + 1, k + c)
  <1> DEFINE t == SubSeq(s, k + 1, k + e)
  <1>1. Len(s) \in Nat /\ k + 1 \in 1..(Len(s) + 1) /\ k + e \in 0..Len(s)
    OBVIOUS
  <1>2. /\ t \in Seq(Atoms) /\ Len(t) = IF k + 1 <= k + e THEN (k + e) - (k + 1) + 1 ELSE 0
        /\ \A j \in 0..Len(t) : SubSeq(t, 1, j) = SubSeq(s, k + 1, (k + 1) + j - 1)
    BY <1>1, SliceOfAtoms
  <1> HIDE DEF t
  <1>3. Len(t) = e /\ c \in 0..Len(t) /\ (k + 1) + c - 1 = k + c
    BY <1>2
  <1>4. SubSeq(t, 1, c) = SubSeq(s, k + 1, k + c)
    BY <1>2, <1>3
  <1> QED BY <1>2, <1>3, <1>4 DEF t

\* build sends the request only if it fits, and a plan of it goes on from the
\* summary in use; without the soft trigger it plans for what does not fit.
LEMMA BuildIs ==
    ASSUME ConversationInv, ChainInv, pc # "tools", NEW suppress \in BOOLEAN, NEW max_atoms \in Nat
    PROVE  \/ Build(suppress, max_atoms) = Ready(Report) /\ ~Hard(Report)
           \/ Build(suppress, max_atoms) = Exceeded(Report)
           \/ \E p : /\ Build(suppress, max_atoms) = [kind |-> "required", report |-> Report, plan |-> p]
                     /\ GoesOn(p) /\ (suppress => Hard(Report))
  <1> DEFINE r == Report
             triggers == Triggers(r)
             eligible == Eligible(r)
             ev == "events" \in triggers
             tok == triggers \cap {"tokens", "hard"} # {}
             c == CappedAt(DesiredAtomCount(r.uncovered, eligible, r.target, ev, tok), max_atoms)
             desired == Desired(r, eligible, triggers, max_atoms)
             fits == {n \in DOMAIN desired : CondenserTokens(SubSeq(desired, 1, n), r.summary)
                                               <= caps.condenser_usable_input_budget}
             fitting == LargestFittingPrefix(desired, r.summary)
  <1>1. PICK k \in 0..Len(atoms) : Tip = Count(atoms, k) /\ r.uncovered = SubSeq(atoms, k + 1, Len(atoms))
    BY ReportIs, ConversationIsWhole
  <1>2. atoms \in Seq(Atoms) /\ Len(atoms) \in Nat
    BY DEF ConversationInv
  <1>3. PICK e \in 0..(Len(atoms) - k) : /\ eligible = SubSeq(atoms, k + 1, k + e)
                                         /\ MandatoryAt # 0 => k + e = MandatoryAt - 1
    BY <1>1, EligibleIs
  <1>4. k \in Nat /\ e \in Nat /\ k + e <= Len(atoms)
    BY <1>2
  <1>5. eligible \in Seq(Atoms) /\ Len(eligible) = e
    <2>1. 0 \in 0..e
      BY <1>4
    <2> QED BY <1>2, <1>3, <1>4, <2>1, PartOfPart
  <1> HIDE DEF triggers, eligible, r
  <1>6. c \in 0..e /\ desired = SubSeq(eligible, 1, c)
    <2>1. ev \in BOOLEAN /\ tok \in BOOLEAN
      OBVIOUS
    <2> HIDE DEF ev, tok
    <2>2. c \in 0..Len(eligible)
      BY <1>5, <2>1, DesiredCount
    <2>3. desired = SubSeq(eligible, 1, c)
      BY DEF Desired, ev, tok
    <2> HIDE DEF c, desired
    <2> QED BY <1>5, <2>2, <2>3
  <1> HIDE DEF c, desired
  <1>7. desired = SubSeq(atoms, k + 1, k + c) /\ desired \in Seq(Atoms) /\ Len(desired) = c
        /\ \A n \in 0..c : SubSeq(desired, 1, n) = SubSeq(atoms, k + 1, k + n)
    <2>1. desired = SubSeq(atoms, k + 1, k + c)
      BY <1>2, <1>3, <1>4, <1>6, PartOfPart
    <2>2. c \in Nat /\ k + c <= Len(atoms) /\ c \in 0..c
      BY <1>4, <1>6
    <2> QED BY <1>2, <1>4, <2>1, <2>2, PartOfPart
  <1>8. fitting = <<>> \/ \E f \in 1..c : fitting = SubSeq(atoms, k + 1, k + f)
    <2>1. fitting = IF fits = {} THEN <<>>
                    ELSE SubSeq(desired, 1, CHOOSE n \in fits : \A j \in fits : j <= n)
      BY DEF LargestFittingPrefix
    <2>2. c \in Nat /\ fits \subseteq 1..c
      BY <1>6, <1>7
    <2> HIDE DEF fits, fitting
    <2>3. CASE fits = {}
      BY <2>1, <2>3
    <2>4. CASE fits # {}
      <3> DEFINE f == CHOOSE n \in fits : \A j \in fits : j <= n
      <3>1. f \in 1..c
        BY <2>2, <2>4, GreatestOf
      <3>2. fitting = SubSeq(desired, 1, f)
        BY <2>1, <2>4
      <3> HIDE DEF f
      <3>3. f \in 0..c
        BY <2>2, <3>1
      <3> QED BY <1>7, <3>1, <3>2, <3>3
    <2> QED BY <2>3, <2>4
  <1> HIDE DEF fitting
  <1>9. fitting # <<>> => GoesOn(CondensationPlan(Report, fitting, Hard(Report)))
    <2> SUFFICES ASSUME fitting # <<>> PROVE GoesOn(CondensationPlan(Report, fitting, Hard(Report)))
      OBVIOUS
    <2>1. PICK f \in 1..c : fitting = SubSeq(atoms, k + 1, k + f)
      BY <1>8
    <2>2. f \in 1..(Len(atoms) - k) /\ (MandatoryAt # 0 => k + f <= MandatoryAt - 1)
      <3>1. f \in Nat /\ 1 <= f /\ f <= e
        BY <1>4, <1>6
      <3>2. MandatoryAt # 0 => k + f <= k + e
        BY <1>4, <3>1
      <3>3. f \in 1..(Len(atoms) - k)
        BY <1>2, <1>4, <3>1
      <3> QED BY <1>3, <3>2, <3>3
    <2> QED BY <1>1, <2>1, <2>2, PlanGoesOn
  <1>10. Build(suppress, max_atoms) = IF r.fixed >= caps.usable_input_budget THEN Exceeded(r)
             ELSE IF NoTrigger(triggers, suppress) THEN Ready(r)
             ELSE PlanFor(r, desired, fitting)
    BY DEF Build, BuildOn, BuildFrom, PlanDesired, r, triggers, eligible, desired, fitting
  <1>11. "hard" \in triggers <=> Hard(r)
    BY DEF triggers, Triggers
  <1>12. PlanFor(r, desired, fitting) \in {Exceeded(r)} \cup (IF Hard(r) THEN {} ELSE {Ready(r)})
         \/ /\ fitting # <<>>
            /\ PlanFor(r, desired, fitting) =
                  [kind |-> "required", report |-> r, plan |-> CondensationPlan(r, fitting, Hard(r))]
    BY DEF PlanFor
  <1>13. CASE r.fixed >= caps.usable_input_budget
    BY <1>10, <1>13 DEF r
  <1>14. CASE ~(r.fixed >= caps.usable_input_budget) /\ NoTrigger(triggers, suppress)
    <2>1. ~Hard(r)
      BY <1>11, <1>14 DEF NoTrigger
    <2> QED BY <1>10, <1>14, <2>1 DEF r
  <1>15. CASE ~(r.fixed >= caps.usable_input_budget) /\ ~NoTrigger(triggers, suppress)
    <2>1. suppress => Hard(r)
      BY <1>11, <1>15 DEF NoTrigger
    <2>2. Build(suppress, max_atoms) = PlanFor(r, desired, fitting)
      BY <1>10, <1>15
    <2> DEFINE p == CondensationPlan(r, fitting, Hard(r))
               P == PlanFor(r, desired, fitting)
    <2> HIDE DEF P
    <2>3. CASE P \in {Exceeded(r)} \cup (IF Hard(r) THEN {} ELSE {Ready(r)})
      BY <2>2, <2>3 DEF r, P
    <2>4. CASE fitting # <<>> /\ P = [kind |-> "required", report |-> r, plan |-> p]
      <3>1. GoesOn(p)
        BY <1>9, <2>4 DEF r
      <3> HIDE DEF p
      <3> QED BY <2>1, <2>2, <2>4, <3>1 DEF r, P
    <2> QED BY <1>12, <2>3, <2>4 DEF P
  <1> QED BY <1>13, <1>14, <1>15

-----------------------------------------------------------------------------
(* What stays when only event numbers go up *)

LEMMA ReportStays ==
    ASSUME UNCHANGED <<atoms, condensed>>
    PROVE  /\ Report' = Report /\ Messages(Report)' = Messages(Report)
           /\ MandatoryAt' = MandatoryAt /\ Tip' = Tip /\ \A n : Consumed(n)' = Consumed(n)
  <1>1. AnchorAt' = AnchorAt /\ Anchor' = Anchor
    BY DEF AnchorAt, Anchor
  <1>2. MandatoryAt' = MandatoryAt /\ \A n : Consumed(n)' = Consumed(n)
    BY <1>1 DEF MandatoryAt, Consumed
  <1>3. ValidChain' = ValidChain
    BY DEF ValidChain, Continues, Frontiers, Consumed
  <1>4. RollingSummary' = RollingSummary
    BY <1>2, <1>3 DEF RollingSummary
  <1>5. \A s : Covered(s)' = Covered(s) /\ MemoryTokens(s)' = MemoryTokens(s)
    BY <1>3 DEF Covered, MemoryTokens
  <1>6. \A n : AtomsAfterCoverage(n)' = AtomsAfterCoverage(n)
    BY DEF AtomsAfterCoverage, Consumed
  <1>7. \A s : HistoryTokens(s)' = HistoryTokens(s) /\ Rendered(s)' = Rendered(s)
    BY <1>1, <1>2 DEF HistoryTokens, AtomTokens, Rendered
  <1>8. \A s, u : ReportOn(s, u)' = ReportOn(s, u)
    BY <1>1, <1>5, <1>7 DEF ReportOn
  <1>9. Report' = Report
    BY <1>4, <1>5, <1>6, <1>8 DEF Report, ReportWith
  <1>10. \A u : SplitHistory(u)' = SplitHistory(u)
    BY <1>1, <1>7 DEF SplitHistory
  <1>11. \A r : Messages(r)' = Messages(r)
    BY <1>1, <1>5, <1>10 DEF Messages
  <1>12. Messages(Report)' = Messages(Report)
    BY <1>9, <1>11
  <1> QED BY <1>2, <1>9, <1>12 DEF Tip, CountBefore

LEMMA NumbersGoUp ==
    ASSUME ConversationInv, ChainInv, UNCHANGED <<atoms, condensed>>,
           event_seq' \in Nat, event_seq <= event_seq', pc # "tools", pc' # "tools"
    PROVE  /\ ConversationInv' /\ ChainInv' /\ Hard(Report)' = Hard(Report)
           /\ \A p : GoesOn(p) => GoesOn(p)'
  <1>1. event_seq \in Nat /\ Settled' = Settled /\ \A x : x \in 1..event_seq => x \in 1..event_seq'
    BY DEF ConversationInv, Settled
  <1>2. ConversationInv'
    BY <1>1 DEF ConversationInv
  <1>3. \A ids, c : TakesOn(ids, c)' = TakesOn(ids, c)
    BY <1>1, ReportStays DEF TakesOn
  <1>4. \A n : SeqBefore(n)' = SeqBefore(n) /\ CountBefore(n)' = CountBefore(n)
    BY DEF SeqBefore, CountBefore
  <1>5. ChainInv'
    BY <1>1, <1>3, <1>4, ReportStays DEF ChainInv
  <1>6. Hard(Report)' = Hard(Report)
    BY ReportStays DEF Hard
  <1>7. \A p : GoesOn(p) => GoesOn(p)'
    BY <1>3, <1>4, <1>6, ReportStays DEF GoesOn
  <1> QED BY <1>2, <1>5, <1>6, <1>7

LEMMA FrontierOfPlan ==
    ASSUME NEW p, GoesOn(p), NEW n \in Nat
    PROVE  LET q == [p EXCEPT !.expected = n]
           IN  GoesOn(q) /\ q.hard = p.hard /\ q.atoms = p.atoms /\ q.id = p.id /\ q # NoPlan
  <1> DEFINE q == [p EXCEPT !.expected = n]
  <1>1. p \in Plans
    BY DEF GoesOn
  <1>2. /\ q \in Plans /\ q.hard = p.hard /\ q.atoms = p.atoms /\ q.id = p.id
        /\ q.previous = p.previous /\ q.previous_count = p.previous_count /\ q.ids = p.ids
    BY <1>1 DEF Plans
  <1> HIDE DEF q
  <1>3. GoesOn(q)
    BY <1>2 DEF GoesOn
  <1>4. q # NoPlan
    <2>1. "hard" \in DOMAIN q
      BY <1>2 DEF Plans
    <2>2. "hard" \notin DOMAIN NoPlan
      BY DEF NoPlan
    <2> QED BY <2>1, <2>2
  <1> QED BY <1>2, <1>3, <1>4 DEF q

-----------------------------------------------------------------------------
(* One step of the preparation *)

Locals == [calls: 0..MAX_CONDENSER_CALLS, soft_calls: 0..MAX_SOFT_CONDENSER_CALLS,
           suppress_soft: BOOLEAN, plan_max_atoms: 0..Len(atoms), consecutive_invalid: 0..1,
           request_failures: SUBSET PlanIds, retry_plan: Plans \cup {NoPlan},
           valid_before: Nat, passes: Nat]

LEMMA LocalsAre == LocalsInv => l \in Locals
  BY DEF LocalsInv, Locals

LEMMA BoundsAreNat ==
    MAX_CONDENSER_CALLS \in Nat /\ MAX_SOFT_CONDENSER_CALLS \in Nat /\ MaxForeign \in Nat
  BY CapsAssumption

LEMMA PrepareKeeps == ContextInv /\ Prepare => ContextInv'
  <1> SUFFICES ASSUME ContextInv, Prepare PROVE ContextInv'
    OBVIOUS
  <1> DEFINE b == Build(l.suppress_soft, l.plan_max_atoms)
  <1>0. ConversationInv /\ ChainInv /\ PlanInv /\ LocalsInv /\ l \in Locals
    BY LocalsAre DEF ContextInv
  <1>1. pc = "build" /\ UNCHANGED <<atoms, condensed>> /\ event_seq' = event_seq /\ foreign' = foreign
        /\ GoOnWith(b) /\ event_seq \in Nat
    BY <1>0 DEF Prepare, events, ConversationInv
  <1>2. l.suppress_soft \in BOOLEAN /\ l.plan_max_atoms \in Nat /\ Len(atoms) \in Nat
    BY <1>0 DEF Locals, ConversationInv
  <1>3. \/ b = Ready(Report) /\ ~Hard(Report)
        \/ b = Exceeded(Report)
        \/ \E p : /\ b = [kind |-> "required", report |-> Report, plan |-> p]
                  /\ GoesOn(p) /\ (l.suppress_soft => Hard(Report))
    BY <1>0, <1>1, <1>2, BuildIs
  <1> HIDE DEF b
  <1>4. /\ pc' # "tools" =>
              ConversationInv' /\ ChainInv' /\ Hard(Report)' = Hard(Report) /\ \A p : GoesOn(p) => GoesOn(p)'
        /\ Messages(Report)' = Messages(Report)
    BY <1>0, <1>1, NumbersGoUp, ReportStays
  <1>5. Report.total \in Nat
    BY <1>0, TotalIsNat
  <1>6. ~(l.passes \in Nat /\ l.calls \in Nat) \/ l.passes <= l.calls + One(l.suppress_soft)
    BY <1>0, <1>1 DEF LocalsInv, One
  <1> DEFINE m == NextPass
  <1>7. /\ m \in Locals /\ m.passes = l.passes + 1 /\ m.calls = l.calls
        /\ m.soft_calls = l.soft_calls /\ m.suppress_soft = l.suppress_soft
        /\ m.consecutive_invalid = l.consecutive_invalid /\ m.retry_plan = l.retry_plan
    BY <1>0 DEF NextPass, Locals
  <1>8. /\ l.calls \in Nat /\ l.passes \in Nat /\ l.calls \in 0..MAX_CONDENSER_CALLS
        /\ l.soft_calls \in 0..MAX_SOFT_CONDENSER_CALLS
        /\ l.passes <= l.calls + One(l.suppress_soft) /\ plan = NoPlan
    BY <1>0, <1>1, <1>6 DEF Locals, PlanInv
  <1>9. l.consecutive_invalid = 1 => l.suppress_soft \/ Hard(Report)
    BY <1>0, <1>1 DEF LocalsInv
  <1> HIDE DEF m
  <1>10. CASE b = Ready(Report) /\ ~Hard(Report)
    <2>1. pc' = "ready" /\ request' = Messages(Report) /\ l' = m /\ plan' = plan
      BY <1>1, <1>10 DEF GoOnWith, Ready, m
    <2>2. PlanInv'
      BY <1>4, <1>8, <1>10, <2>1 DEF PlanInv
    <2>3. LocalsInv'
      BY <1>0, <1>1, <1>7, <1>8, <2>1 DEF LocalsInv, Locals, One
    <2> QED BY <1>4, <2>1, <2>2, <2>3 DEF ContextInv
  <1>11. CASE b = Exceeded(Report) \/ (pc' = "exceeded" /\ plan' = NoPlan /\ l' = m)
    <2>1. pc' = "exceeded" /\ plan' = NoPlan /\ l' = m
      <3>1. CASE b = Exceeded(Report)
        <4>1. b.kind = "exceeded"
          BY <3>1 DEF Exceeded
        <4> QED BY <1>1, <4>1 DEF GoOnWith, Refuse, m
      <3> QED BY <1>11, <3>1
    <2>2. PlanInv'
      BY <1>4, <2>1 DEF PlanInv
    <2>3. LocalsInv'
      BY <1>0, <1>1, <1>7, <1>8, <2>1 DEF LocalsInv, Locals, One
    <2> QED BY <1>4, <2>1, <2>2, <2>3 DEF ContextInv
  <1>12. ASSUME NEW p, b = [kind |-> "required", report |-> Report, plan |-> p], GoesOn(p),
                l.suppress_soft => Hard(Report), ~(pc' = "exceeded" /\ plan' = NoPlan /\ l' = m)
         PROVE  ContextInv'
    <2>1. p.hard = Hard(Report)
      BY <1>12 DEF GoesOn
    <2>2. /\ ~(l.calls >= MAX_CONDENSER_CALLS)
          /\ IF ~p.hard /\ l.soft_calls >= MAX_SOFT_CONDENSER_CALLS
             THEN AgainWithoutSoft
             ELSE /\ plan' = ChosenPlan(b)
                  /\ l' = [m EXCEPT !.retry_plan = NoPlan, !.valid_before = Report.total]
                  /\ pc' = "send"
      BY <1>1, <1>12 DEF GoOnWith, Refuse, m
    <2>3. CASE ~p.hard /\ l.soft_calls >= MAX_SOFT_CONDENSER_CALLS
      <3>1. l' = [m EXCEPT !.suppress_soft = TRUE, !.valid_before = NoEvent] /\ pc' = "build" /\ plan' = plan
        BY <1>1, <2>2, <2>3 DEF AgainWithoutSoft, m
      <3>2. /\ l' \in Locals /\ l'.suppress_soft = TRUE /\ l'.calls = l.calls /\ l'.passes = l.passes + 1
            /\ l'.retry_plan = l.retry_plan
        BY <1>7, <3>1 DEF Locals, NoEvent
      <3>3. l.suppress_soft = FALSE
        BY <1>2, <1>12, <2>1, <2>3
      <3>4. PlanInv'
        BY <1>0, <1>1, <1>4, <1>8, <3>1, <3>2 DEF PlanInv
      <3>5. LocalsInv'
        BY <1>0, <1>1, <1>8, <3>1, <3>2, <3>3 DEF LocalsInv, Locals, One
      <3> QED BY <1>4, <3>1, <3>4, <3>5 DEF ContextInv
    <2>4. CASE p.hard \/ ~(l.soft_calls >= MAX_SOFT_CONDENSER_CALLS)
      <3>1. /\ l' = [m EXCEPT !.retry_plan = NoPlan, !.valid_before = Report.total]
            /\ pc' = "send" /\ plan' = ChosenPlan(b)
        BY <2>2, <2>4
      <3>2. /\ l' \in Locals /\ l'.suppress_soft = l.suppress_soft /\ l'.calls = l.calls
            /\ l'.passes = l.passes + 1 /\ l'.soft_calls = l.soft_calls
            /\ l'.retry_plan = NoPlan /\ l'.consecutive_invalid = l.consecutive_invalid
        BY <1>5, <1>7, <3>1 DEF Locals
      <3> DEFINE q == IF l.retry_plan # NoPlan THEN l.retry_plan ELSE p
      <3>3. GoesOn(q) /\ q.hard = Hard(Report)
        <4>1. l.retry_plan # NoPlan => GoesOn(l.retry_plan)
          BY <1>0, <1>1 DEF PlanInv
        <4>2. GoesOn(q)
          BY <1>12, <4>1
        <4> HIDE DEF q
        <4> QED BY <4>2 DEF GoesOn
      <3>4. plan' = [q EXCEPT !.expected = p.expected] /\ p.expected \in Nat
        <4>1. p.expected \in Nat
          BY <1>12 DEF GoesOn, Plans
        <4> QED BY <1>12, <3>1, <4>1 DEF ChosenPlan
      <3> HIDE DEF q
      <3>5. GoesOn(plan') /\ plan'.hard = Hard(Report) /\ plan' # NoPlan
        BY <3>3, <3>4, FrontierOfPlan
      <3>6. GoesOn(plan)'
        <4>1. PICK y : y = plan'
          OBVIOUS
        <4>2. GoesOn(y)'
          BY <1>4, <3>1, <3>5, <4>1
        <4> QED BY <4>1, <4>2 DEF GoesOn
      <3>7. PlanInv'
        BY <3>1, <3>2, <3>5, <3>6 DEF PlanInv
      <3>8. LocalsInv'
        BY <1>0, <1>1, <1>8, <2>1, <2>2, <2>4, <3>1, <3>2, <3>5, <1>9, <1>4, <1>12, BoundsAreNat, SMTT(40)
           DEF LocalsInv, Locals, One
      <3> QED BY <1>4, <3>1, <3>7, <3>8 DEF ContextInv
    <2> QED BY <2>3, <2>4
  <1> QED BY <1>3, <1>10, <1>11, <1>12

LEMMA SendCondenserKeeps == ContextInv /\ SendCondenser => ContextInv'
  <1> SUFFICES ASSUME ContextInv, SendCondenser PROVE ContextInv'
    OBVIOUS
  <1>0. ConversationInv /\ ChainInv /\ PlanInv /\ LocalsInv /\ l \in Locals
    BY LocalsAre DEF ContextInv
  <1>1. /\ pc = "send" /\ pc' = "inflight" /\ UNCHANGED <<atoms, condensed>> /\ event_seq' = event_seq
        /\ foreign' = foreign /\ event_seq \in Nat /\ plan' = [plan EXCEPT !.expected = event_seq]
        /\ GoesOn(plan) /\ l.retry_plan = NoPlan /\ Len(atoms) \in Nat
    BY <1>0 DEF SendCondenser, events, ConversationInv, PlanInv
  <1>2. /\ ConversationInv' /\ ChainInv' /\ Hard(Report)' = Hard(Report)
        /\ \A p : GoesOn(p) => GoesOn(p)'
    BY <1>0, <1>1, NumbersGoUp
  <1>3. GoesOn(plan') /\ plan' # NoPlan /\ plan'.hard = plan.hard
    BY <1>1, FrontierOfPlan
  <1>4. GoesOn(plan)'
    <2>1. PICK y : y = plan'
      OBVIOUS
    <2>2. GoesOn(y)'
      BY <1>2, <1>3, <2>1
    <2> QED BY <2>1, <2>2 DEF GoesOn
  <1>5. /\ l.calls \in Nat /\ l.soft_calls \in Nat /\ l.calls < MAX_CONDENSER_CALLS
        /\ l.soft_calls <= MAX_SOFT_CONDENSER_CALLS /\ l.passes \in Nat
        /\ ~plan.hard => l.soft_calls < MAX_SOFT_CONDENSER_CALLS
        /\ l.passes <= l.calls + One(l.suppress_soft) + 1
    BY <1>0, <1>1, BoundsAreNat DEF LocalsInv, Locals, One
  <1>6. /\ l' = [l EXCEPT !.calls = l.calls + 1,
                         !.soft_calls = l.soft_calls + (IF plan.hard THEN 0 ELSE 1)]
    BY DEF SendCondenser
  <1>7. /\ l.calls + 1 \in 0..MAX_CONDENSER_CALLS
        /\ l.soft_calls + (IF plan.hard THEN 0 ELSE 1) \in 0..MAX_SOFT_CONDENSER_CALLS
    BY <1>5, BoundsAreNat
  <1>8. /\ l' \in Locals /\ l'.calls = l.calls + 1 /\ l'.passes = l.passes
        /\ l'.suppress_soft = l.suppress_soft /\ l'.retry_plan = l.retry_plan
        /\ l'.consecutive_invalid = l.consecutive_invalid
    BY <1>0, <1>6, <1>7 DEF Locals
  <1>9. PlanInv'
    BY <1>1, <1>3, <1>4, <1>8 DEF PlanInv
  <1>10. LocalsInv'
    BY <1>0, <1>1, <1>2, <1>3, <1>5, <1>8 DEF LocalsInv, Locals, One
  <1> QED BY <1>2, <1>9, <1>10 DEF ContextInv

\* The part of the answers of the condenser that they have in common.
LEMMA AnswerFrame ==
    ASSUME ContextInv, pc = "inflight", AppendDerived(2), pc' \in {"build", "exceeded"},
           foreign' = foreign
    PROVE  /\ ConversationInv' /\ ChainInv' /\ Hard(Report)' = Hard(Report)
           /\ \A p : GoesOn(p) => GoesOn(p)'
           /\ l \in Locals /\ Len(atoms) \in Nat /\ atoms' = atoms /\ event_seq' \in Nat
           /\ GoesOn(plan) /\ plan.hard = Hard(Report) /\ l.retry_plan = NoPlan
           /\ plan.hard \/ ~l.suppress_soft
           /\ l.consecutive_invalid = 1 => l.suppress_soft \/ Hard(Report)
           /\ l.calls \in Nat /\ l.passes \in Nat /\ l.passes <= l.calls + One(l.suppress_soft)
           /\ l.suppress_soft \in BOOLEAN /\ l.consecutive_invalid \in 0..1
           /\ plan.atoms \in 1..Len(atoms) /\ plan.hard \in BOOLEAN /\ foreign \in 0..MaxForeign
           /\ plan.id \in PlanIds
  <1>0. ConversationInv /\ ChainInv /\ PlanInv /\ LocalsInv /\ l \in Locals
    BY LocalsAre DEF ContextInv
  <1>1. /\ UNCHANGED <<atoms, condensed>> /\ event_seq' = event_seq + 2 /\ event_seq \in Nat
        /\ Len(atoms) \in Nat
    BY <1>0 DEF AppendDerived, ConversationInv
  <1>2. /\ ConversationInv' /\ ChainInv' /\ Hard(Report)' = Hard(Report)
        /\ \A p : GoesOn(p) => GoesOn(p)'
    BY <1>0, <1>1, NumbersGoUp
  <1>3. GoesOn(plan) /\ l.retry_plan = NoPlan
    BY <1>0 DEF PlanInv
  <1>4. /\ plan.hard = Hard(Report) /\ plan.atoms \in 1..Len(atoms) /\ plan.hard \in BOOLEAN
        /\ plan.id \in PlanIds
    BY <1>1, <1>3 DEF GoesOn, Plans
  <1>5. /\ plan.hard \/ ~l.suppress_soft
        /\ l.consecutive_invalid = 1 => l.suppress_soft \/ Hard(Report)
        /\ foreign \in 0..MaxForeign
    BY <1>0 DEF LocalsInv
  <1>6. l.calls \in Nat /\ l.passes \in Nat /\ l.passes <= l.calls + One(l.suppress_soft)
        /\ l.suppress_soft \in BOOLEAN /\ l.consecutive_invalid \in 0..1
    BY <1>0 DEF LocalsInv, Locals, One
  <1> QED BY <1>0, <1>1, <1>2, <1>3, <1>4, <1>5, <1>6

\* After an answer the loop goes on or gives up.
LEMMA AnswerKeeps ==
    ASSUME ContextInv, pc = "inflight", AppendDerived(2), pc' \in {"build", "exceeded"},
           foreign' = foreign, plan' = NoPlan,
           l' \in Locals, l'.passes = l.passes, l'.calls = l.calls,
           l'.retry_plan # NoPlan => GoesOn(l'.retry_plan) /\ l'.retry_plan.hard,
           l'.suppress_soft \/ l'.suppress_soft = l.suppress_soft,
           l'.consecutive_invalid = 1 => l'.suppress_soft \/ Hard(Report)
    PROVE  ContextInv'
  <1>1. PICK y : y = l'.retry_plan
    OBVIOUS
  <1>2. /\ ConversationInv' /\ ChainInv' /\ Hard(Report)' = Hard(Report) /\ atoms' = atoms
        /\ \A p : GoesOn(p) => GoesOn(p)'
        /\ l.calls \in Nat /\ l.passes \in Nat /\ l.passes <= l.calls + One(l.suppress_soft)
        /\ l.suppress_soft \in BOOLEAN /\ foreign \in 0..MaxForeign
    BY AnswerFrame
  <1>3. y # NoPlan => GoesOn(y)' /\ y.hard
    BY <1>1, <1>2
  <1>4. PlanInv'
    <2>1. l'.retry_plan # NoPlan => GoesOn(l.retry_plan)'
      BY <1>1, <1>3 DEF GoesOn
    <2> QED BY <1>1, <1>3, <2>1 DEF PlanInv
  <1>5. LocalsInv'
    <2>1. l'.passes <= l'.calls + One(l'.suppress_soft)
      BY <1>2 DEF One
    <2>2. l'.passes <= l'.calls + One(l'.suppress_soft) + One(pc' \notin {"build", "inflight"})
      BY <1>2, <2>1 DEF One
    <2> QED BY <1>2, <2>2 DEF LocalsInv, Locals
  <1> QED BY <1>2, <1>4, <1>5 DEF ContextInv

LEMMA CondenserFailsKeeps == ContextInv /\ CondenserFails => ContextInv'
  <1> SUFFICES ASSUME ContextInv, CondenserFails PROVE ContextInv'
    OBVIOUS
  <1>1. /\ pc = "inflight" /\ AppendDerived(2) /\ pc' \in {"build", "exceeded"} /\ foreign' = foreign
        /\ plan' = NoPlan
    BY DEF CondenserFails
  <1>2. /\ l \in Locals /\ event_seq' \in Nat /\ GoesOn(plan) /\ plan.hard = Hard(Report)
        /\ l.retry_plan = NoPlan /\ plan.id \in PlanIds
        /\ l.consecutive_invalid = 1 => l.suppress_soft \/ Hard(Report)
    BY <1>1, AnswerFrame
  <1>3. CASE l' = l
    BY <1>1, <1>2, <1>3, AnswerKeeps
  <1>4. CASE l' = [l EXCEPT !.suppress_soft = TRUE, !.valid_before = NoEvent]
    <2>1. /\ l' \in Locals /\ l'.passes = l.passes /\ l'.calls = l.calls /\ l'.suppress_soft = TRUE
          /\ l'.retry_plan = NoPlan
      BY <1>2, <1>4 DEF Locals, NoEvent
    <2> QED BY <1>1, <2>1, AnswerKeeps
  <1>5. CASE /\ plan.hard
             /\ l' = [l EXCEPT !.request_failures = @ \cup {plan.id}, !.valid_before = NoEvent,
                               !.retry_plan = [plan EXCEPT !.expected = event_seq']]
    <2> DEFINE q == [plan EXCEPT !.expected = event_seq']
    <2>1. GoesOn(q) /\ q.hard
      BY <1>2, <1>5, FrontierOfPlan
    <2>2. q \in Plans
      BY <2>1 DEF GoesOn
    <2>3. l' = [l EXCEPT !.request_failures = @ \cup {plan.id}, !.valid_before = NoEvent,
                         !.retry_plan = q]
      BY <1>5
    <2> HIDE DEF q
    <2>4. /\ l' \in Locals /\ l'.passes = l.passes /\ l'.calls = l.calls
          /\ l'.suppress_soft = l.suppress_soft /\ l'.retry_plan = q
          /\ l'.consecutive_invalid = l.consecutive_invalid
      BY <1>2, <2>2, <2>3 DEF Locals, NoEvent
    <2> QED BY <1>1, <1>2, <2>1, <2>4, AnswerKeeps
  <1> QED BY <1>3, <1>4, <1>5 DEF CondenserFails

LEMMA InvalidCompletionKeeps ==
    ASSUME ContextInv, pc = "inflight", NEW stale \in BOOLEAN, InvalidCompletion(stale),
           plan' = NoPlan, foreign' = foreign
    PROVE  ContextInv'
  <1>1. AppendDerived(2) /\ pc' \in {"build", "exceeded"}
    BY DEF InvalidCompletion
  <1>2. /\ l \in Locals /\ plan.hard = Hard(Report) /\ l.retry_plan = NoPlan
        /\ plan.hard \/ ~l.suppress_soft
        /\ plan.hard \in BOOLEAN
        /\ l.consecutive_invalid = 1 => l.suppress_soft \/ Hard(Report)
        /\ l.consecutive_invalid \in 0..1 /\ plan.atoms \in 1..Len(atoms) /\ Len(atoms) \in Nat
        /\ atoms' = atoms
    BY <1>1, AnswerFrame
  <1> DEFINE invalid == l.consecutive_invalid + 1
             m == [l EXCEPT !.consecutive_invalid = invalid, !.valid_before = NoEvent]
  <1>3. CASE l' = l
    BY <1>1, <1>2, <1>3, AnswerKeeps
  <1>4. CASE ~plan.hard /\ l' = [m EXCEPT !.suppress_soft = TRUE]
    <2>1. invalid \in 0..1
      BY <1>2, <1>4
    <2>2. /\ l' \in Locals /\ l'.passes = l.passes /\ l'.calls = l.calls /\ l'.suppress_soft = TRUE
          /\ l'.retry_plan = NoPlan
      BY <1>2, <1>4, <2>1 DEF Locals, NoEvent
    <2> QED BY <1>1, <2>2, AnswerKeeps
  <1>5. CASE /\ plan.hard /\ ~GivesUp(invalid)
             /\ l' = [m EXCEPT !.plan_max_atoms = IF stale THEN NoEvent ELSE plan.atoms - 1]
    <2>1. invalid \in 0..1 /\ (IF stale THEN NoEvent ELSE plan.atoms - 1) \in 0..Len(atoms)
      BY <1>2, <1>5 DEF GivesUp, NoEvent
    <2>2. /\ l' \in Locals /\ l'.passes = l.passes /\ l'.calls = l.calls
          /\ l'.suppress_soft = l.suppress_soft /\ l'.retry_plan = NoPlan
      BY <1>2, <1>5, <2>1 DEF Locals, NoEvent
    <2> QED BY <1>1, <1>2, <1>5, <2>2, AnswerKeeps
  <1> QED BY <1>3, <1>4, <1>5 DEF InvalidCompletion

LEMMA ForeignEventKeeps == ContextInv /\ ForeignEvent => ContextInv'
  <1> SUFFICES ASSUME ContextInv, ForeignEvent PROVE ContextInv'
    OBVIOUS
  <1>0. ConversationInv /\ ChainInv /\ PlanInv /\ LocalsInv /\ l \in Locals
    BY LocalsAre DEF ContextInv
  <1>1. /\ pc \in {"build", "send", "inflight"} /\ pc' = pc /\ UNCHANGED <<atoms, condensed>>
        /\ event_seq' = event_seq + 1 /\ event_seq \in Nat
        /\ foreign' = foreign + 1 /\ foreign < MaxForeign /\ UNCHANGED <<l, plan, request>>
    BY <1>0 DEF ForeignEvent, AppendDerived, ConversationInv
  <1>2. /\ ConversationInv' /\ ChainInv' /\ Hard(Report)' = Hard(Report)
        /\ \A p : GoesOn(p) => GoesOn(p)'
    BY <1>0, <1>1, NumbersGoUp
  <1>3. pc \in {"send", "inflight"} => GoesOn(plan)'
    <2>1. PICK y : y = plan
      OBVIOUS
    <2>2. GoesOn(plan) => GoesOn(y)'
      BY <1>2, <2>1
    <2>3. GoesOn(y)' => GoesOn(plan)'
      BY <1>1, <2>1 DEF GoesOn
    <2> QED BY <1>0, <2>2, <2>3 DEF PlanInv
  <1>4. pc = "build" /\ l.retry_plan # NoPlan => GoesOn(l.retry_plan)'
    <2>1. PICK y : y = l.retry_plan
      OBVIOUS
    <2>2. GoesOn(l.retry_plan) => GoesOn(y)'
      BY <1>2, <2>1
    <2>3. GoesOn(y)' => GoesOn(l.retry_plan)'
      BY <1>1, <2>1 DEF GoesOn
    <2> QED BY <1>0, <2>2, <2>3 DEF PlanInv
  <1>5. PlanInv'
    BY <1>0, <1>1, <1>3, <1>4 DEF PlanInv
  <1>6. LocalsInv'
    <2>1. foreign' \in 0..MaxForeign
      BY <1>0, <1>1, BoundsAreNat DEF LocalsInv
    <2> QED BY <1>0, <1>1, <1>2, <2>1 DEF LocalsInv
  <1> QED BY <1>2, <1>5, <1>6 DEF ContextInv

-----------------------------------------------------------------------------
(* One step of the conversation *)

\* The summaries stay what they are while the conversation goes on.
LEMMA ChainKept ==
    ASSUME ConversationInv, ChainInv, ConversationInv', condensed' = condensed,
           event_seq <= event_seq', Settled <= Settled', Settled <= Len(atoms'),
           \A i \in 1..Settled : atoms'[i] = atoms[i],
           MandatoryAt' \in {0, MandatoryAt} \/ MandatoryAt' > Settled
    PROVE  ChainInv'
  <1> DEFINE k == Settled
             C == Count(atoms, k)
  <1>1. /\ Whole(atoms) /\ k \in 0..Len(atoms) /\ Len(atoms) \in Nat
        /\ \A n : Consumed(n) = Count(atoms, n)
        /\ \A n \in 0..Len(atoms) : Count(atoms, n) \in Nat
        /\ \A m, n \in 0..Len(atoms) : m < n => Count(atoms, m) < Count(atoms, n)
    BY ConversationIsWhole, CountsGrow
  <1>2. /\ Whole(atoms') /\ k' \in 0..Len(atoms') /\ \A n : Consumed(n)' = Count(atoms', n)
    <2>1. (Whole(atoms) /\ Settled \in 0..Len(atoms))'
      BY ConversationIsWhole, PTL
    <2> QED BY <2>1 DEF Consumed, Count
  <1>3. /\ Len(atoms') \in Nat
        /\ \A n \in 0..Len(atoms') : Count(atoms', n) \in Nat
        /\ \A m, n \in 0..Len(atoms') : m < n => Count(atoms', m) < Count(atoms', n)
    BY <1>2, CountsGrow
  <1> HIDE DEF k
  <1>4. /\ \A n \in 0..k : Count(atoms, n) = Count(atoms', n)
        /\ \A m \in 1..(C + 1), n \in 0..C : SubSeq(Items(atoms), m, n) = SubSeq(Items(atoms'), m, n)
    <2>1. k \in 0..Len(atoms) /\ k <= Len(atoms') /\ \A i \in 1..k : atoms[i] = atoms'[i]
      BY <1>1 DEF k
    <2> QED BY <1>1, <1>2, <2>1, SameBeginning
  <1>5. /\ condensed \in Seq(Summaries) /\ Len(condensed) \in Nat /\ Tip \in Nat /\ Tip' = Tip
        /\ \A n : CountBefore(n)' = CountBefore(n) /\ SeqBefore(n)' = SeqBefore(n)
        /\ event_seq \in Nat /\ event_seq' \in Nat
    BY CoverageGrows DEF ChainInv, Tip, CountBefore, SeqBefore, ConversationInv
  <1>6. ASSUME NEW n \in 1..Len(condensed)
        PROVE  TakesOn(condensed[n].ids, CountBefore(n))'
    <2> DEFINE ids == condensed[n].ids
               c == CountBefore(n)
    <2>1. TakesOn(ids, c)
      BY <1>5 DEF ChainInv
    <2>2. c \in Nat /\ Len(ids) \in Nat
      BY CoverageGrows
    <2>3. PICK i \in 1..k : c + Len(ids) = Consumed(i)
      BY <2>1 DEF TakesOn, k
    <2>4. Consumed(i) = Count(atoms, i) /\ Count(atoms, i) = Count(atoms', i) /\ Count(atoms, i) <= C
          /\ C \in Nat /\ Count(atoms, i) \in Nat
      <3>1. i \in 0..k /\ i \in 0..Len(atoms) /\ k \in 0..Len(atoms) /\ (i = k \/ i < k)
        BY <1>1 DEF k
      <3>2. i = k \/ Count(atoms, i) < Count(atoms, k)
        BY <1>1, <3>1
      <3>3. Count(atoms, i) \in Nat /\ Count(atoms, k) \in Nat
        BY <1>1, <3>1
      <3> QED BY <1>1, <1>4, <3>1, <3>2, <3>3
    <2> HIDE DEF C, ids, c
    <2>5. c + 1 \in 1..(C + 1) /\ c + Len(ids) \in 0..C
      BY <2>2, <2>3, <2>4
    <2>6. ids = SubSeq(Items(atoms'), c + 1, c + Len(ids)) /\ ids # <<>>
      <3>1. ids = SubSeq(Items(atoms), c + 1, c + Len(ids)) /\ ids # <<>>
        BY <2>1 DEF TakesOn
      <3>2. SubSeq(Items(atoms), c + 1, c + Len(ids)) = SubSeq(Items(atoms'), c + 1, c + Len(ids))
        BY <1>4, <2>5
      <3> QED BY <3>1, <3>2
    <2>7. i \in 1..Settled' /\ c + Len(ids) = Consumed(i)'
      <3>1. k \in Nat /\ Settled' \in Nat /\ k <= Settled'
        BY <1>1, <1>2, <1>3 DEF k
      <3> QED BY <1>2, <2>3, <2>4, <3>1
    <2>8. condensed'[n].ids = ids /\ CountBefore(n)' = c
      BY <1>5 DEF ids, c
    <2> QED BY <2>6, <2>7, <2>8 DEF TakesOn
  <1>7. (MandatoryAt # 0 => Tip <= Consumed(MandatoryAt - 1))'
    <2> SUFFICES ASSUME MandatoryAt' # 0 PROVE Tip <= Count(atoms', MandatoryAt' - 1)
      BY <1>5 DEF Consumed, Count
    <2>1. MandatoryAt' \in 1..Len(atoms')
      <3>1. (atoms \in Seq(Atoms))'
        BY <1>2 DEF Whole
      <3>2. (MandatoryAt \in 0..Len(atoms))'
        BY <3>1, MandatoryIs, PTL
      <3> QED BY <1>3, <3>2
    <2>2. PICK j \in 0..k : Tip = Count(atoms, j)
      BY CoverageGrows DEF k
    <2>3. k \in 0..Len(atoms) /\ k \in 0..Len(atoms') /\ j \in 0..Len(atoms') /\ Tip = Count(atoms', j)
      BY <1>1, <1>3, <1>4, <2>2 DEF k
    <2> DEFINE m == MandatoryAt'
    <2>4. CASE m > k
      <3> HIDE DEF m
      <3>1. m - 1 \in 0..Len(atoms') /\ (j = m - 1 \/ j < m - 1)
        <4>1. m \in 1..Len(atoms')
          BY <2>1 DEF m
        <4>2. k \in Nat /\ j \in Nat /\ j <= k
          BY <1>1, <2>3
        <4> QED BY <1>3, <2>4, <4>1, <4>2
      <3>2. j = m - 1 \/ Count(atoms', j) < Count(atoms', m - 1)
        BY <1>3, <2>3, <3>1
      <3>3. Count(atoms', j) \in Nat /\ Count(atoms', m - 1) \in Nat
        BY <1>3, <2>3, <3>1
      <3> QED BY <2>3, <3>2, <3>3 DEF m
    <2>5. CASE ~(m > k)
      <3>1. m = MandatoryAt /\ MandatoryAt # 0
        BY <2>5 DEF k
      <3>2. Tip <= Consumed(MandatoryAt - 1)
        BY <3>1 DEF ChainInv
      <3> HIDE DEF m
      <3>3. m - 1 \in 0..k
        BY <1>3, <2>1, <2>3, <2>5 DEF m
      <3>4. Consumed(m - 1) = Count(atoms', m - 1)
        BY <1>1, <1>4, <3>3
      <3> QED BY <3>1, <3>2, <3>4 DEF m
    <2> QED BY <2>4, <2>5
  <1>8. ASSUME NEW n \in 1..Len(condensed)
        PROVE  /\ condensed[n].seq \in 1..event_seq' /\ condensed[n].size <= caps.summary_max_tokens
               /\ condensed[n].previous = SeqBefore(n)'
               /\ condensed[n].count = CountBefore(n)' + Len(condensed[n].ids)
    <2>1. /\ condensed[n].seq \in 1..event_seq /\ condensed[n].size <= caps.summary_max_tokens
          /\ condensed[n].previous = SeqBefore(n)
          /\ condensed[n].count = CountBefore(n) + Len(condensed[n].ids)
      BY <1>5 DEF ChainInv
    <2>2. condensed[n].seq \in 1..event_seq'
      BY <1>5, <2>1
    <2> QED BY <1>5, <2>1, <2>2
  <1>9. \A m, n \in DOMAIN condensed' : m < n => condensed'[m].seq < condensed'[n].seq
    BY DEF ChainInv
  <1>10. DOMAIN condensed = 1..Len(condensed) /\ (condensed \in Seq(Summaries))'
    BY <1>5
  <1> QED BY <1>6, <1>7, <1>8, <1>9, <1>10 DEF ChainInv

LEMMA AtomAppended ==
    ASSUME ContextInv, pc # "tools", NEW derived \in Nat, NEW atom \in Atoms, Len(atom.sizes) = 1,
           AppendAtom(derived, atom), pc' = "tools" => IsStep(atom)
    PROVE  ConversationInv' /\ ChainInv' /\ Len(atoms') = Len(atoms) + 1 /\ Len(atoms) \in Nat
  <1> DEFINE N == Len(atoms)
             s == event_seq'
             a == [atom EXCEPT !.items = <<s>>]
  <1>0. ConversationInv /\ ChainInv /\ atoms \in Seq(Atoms) /\ N \in Nat /\ event_seq \in Nat
    BY DEF ContextInv, ConversationInv
  <1>1. s = event_seq + derived + 1 /\ s \in Nat /\ event_seq < s /\ atoms' = Append(atoms, a)
        /\ condensed' = condensed
    BY <1>0 DEF AppendAtom
  <1>2. /\ a \in Atoms /\ a.items = <<s>> /\ a.sizes = atom.sizes /\ a.type = atom.type
    <2> DEFINE q == <<s>>
    <2>1. q \in Seq(Nat)
      BY <1>1
    <2> HIDE DEF q
    <2>2. [atom EXCEPT !.items = q] \in Atoms
      BY <2>1 DEF Atoms
    <2>3. a = [atom EXCEPT !.items = q]
      BY DEF q
    <2> HIDE DEF a
    <2>4. a.items = q /\ a.sizes = atom.sizes /\ a.type = atom.type
      BY <2>3 DEF Atoms
    <2> QED BY <2>2, <2>3, <2>4 DEF q
  <1>3. Len(a.items) = 1 /\ a.items # <<>> /\ a.items[1] = s /\ DOMAIN a.items = 1..1
        /\ \A i \in DOMAIN a.items : i = 1
    BY <1>1, <1>2
  <1> HIDE DEF a, s
  <1>4. /\ atoms' \in Seq(Atoms) /\ Len(atoms') = N + 1 /\ atoms'[N + 1] = a
        /\ \A i \in 1..N : atoms'[i] = atoms[i]
    BY <1>0, <1>1, <1>2, AppendProperties
  <1> HIDE DEF N
  <1>5. \A n \in 1..(N + 1) : n = N + 1 \/ (n \in 1..N /\ atoms'[n] = atoms[n])
    BY <1>0, <1>4
  <1>6. IsStep(a) <=> IsStep(atom)
    BY <1>2 DEF IsStep
  <1>7. ConversationInv'
    <2>1. ASSUME NEW n \in 1..(N + 1)
          PROVE  /\ atoms'[n].items # <<>> /\ Len(atoms'[n].sizes) = Len(atoms'[n].items)
                 /\ ~IsStep(atoms'[n]) => Len(atoms'[n].items) = 1
                 /\ \A i \in DOMAIN atoms'[n].items : atoms'[n].items[i] \in 1..s
                 /\ \A i, j \in DOMAIN atoms'[n].items : i < j => atoms'[n].items[i] < atoms'[n].items[j]
      <3>1. CASE n = N + 1
        <4>1. atoms'[n] = a
          BY <1>4, <3>1
        <4>2. s \in 1..s
          BY <1>0, <1>1
        <4>3. Len(a.sizes) = Len(a.items)
          BY <1>2, <1>3
        <4>4. \A i, j \in DOMAIN a.items : ~(i < j)
          BY <1>3
        <4> QED BY <1>3, <4>1, <4>2, <4>3, <4>4
      <3>2. CASE n \in 1..N /\ atoms'[n] = atoms[n]
        <4>1. \A x \in 1..event_seq : x \in 1..s
          BY <1>0, <1>1
        <4>2. n \in DOMAIN atoms
          BY <1>0, <3>2 DEF N
        <4> QED BY <1>0, <3>2, <4>1, <4>2 DEF ConversationInv
      <3> QED BY <1>5, <3>1, <3>2
    <2>2. ASSUME NEW m \in 1..(N + 1), NEW n \in 1..(N + 1), m < n
          PROVE  \A i \in DOMAIN atoms'[m].items, j \in DOMAIN atoms'[n].items :
                    atoms'[m].items[i] < atoms'[n].items[j]
      <3>1. m \in 1..N /\ atoms'[m] = atoms[m] /\ m \in DOMAIN atoms
        BY <1>0, <1>4, <2>2 DEF N
      <3>2. CASE n = N + 1
        <4>1. \A i \in DOMAIN atoms[m].items : atoms[m].items[i] \in 1..event_seq
          BY <1>0, <3>1 DEF ConversationInv
        <4>2. \A j \in DOMAIN atoms'[n].items : atoms'[n].items[j] = s
          BY <1>3, <1>4, <3>2
        <4>3. \A x \in 1..event_seq : x < s
          BY <1>0, <1>1
        <4> QED BY <3>1, <4>1, <4>2, <4>3
      <3>3. CASE n \in 1..N /\ atoms'[n] = atoms[n]
        <4>1. n \in DOMAIN atoms
          BY <1>0, <3>3 DEF N
        <4> QED BY <1>0, <2>2, <3>1, <3>3, <4>1 DEF ConversationInv
      <3> QED BY <1>5, <3>2, <3>3
    <2>3. pc' = "tools" => atoms' # <<>> /\ IsStep(atoms'[Len(atoms')])
      <3>1. atoms' # <<>>
        BY <1>0, <1>4
      <3> QED BY <1>4, <1>6, <3>1
    <2>4. DOMAIN atoms' = 1..(N + 1)
      BY <1>4
    <2> QED BY <1>1, <1>4, <2>1, <2>2, <2>3, <2>4, SMTT(40) DEF ConversationInv, s
  <1>8. MandatoryAt' \in {0, MandatoryAt, N + 1}
    <2>1. (atoms \in Seq(Atoms))'
      BY <1>4
    <2>2. \A i \in 1..N : atoms'[i].type = atoms[i].type /\ atoms'[i].reasoning = atoms[i].reasoning
      BY <1>4
    <2> QED BY <1>0, <1>4, <2>1, <2>2, MandatoryMoves DEF N
  <1>9. ChainInv'
    <2>1. Settled = N
      BY DEF Settled, N
    <2>2. Settled' \in {N, N + 1} /\ Settled <= Settled' /\ Settled <= Len(atoms')
      BY <1>0, <1>4, <2>1 DEF Settled
    <2>3. MandatoryAt' \in {0, MandatoryAt} \/ MandatoryAt' > Settled
      BY <1>0, <1>8, <2>1
    <2>4. event_seq <= event_seq'
      BY <1>0, <1>1 DEF s
    <2> QED BY <1>0, <1>1, <1>4, <1>7, <2>1, <2>2, <2>3, <2>4, ChainKept
  <1> QED BY <1>0, <1>4, <1>7, <1>9 DEF N

LEMMA FreshLocalsAre ==
    FreshLocals \in Locals' /\ FreshLocals.calls = 0 /\ FreshLocals.passes = 0
    /\ FreshLocals.retry_plan = NoPlan /\ FreshLocals.consecutive_invalid = 0
  BY BoundsAreNat DEF FreshLocals, Locals, NoEvent

LEMMA LocalsGrow ==
    ASSUME l \in Locals, l' = l, Len(atoms) \in Nat, Len(atoms') \in Nat, Len(atoms) <= Len(atoms')
    PROVE  l' \in Locals'
  BY DEF Locals

\* After an atom that joins the conversation outside of the preparation.
LEMMA AppendKeeps ==
    ASSUME ContextInv, pc \in {"idle", "ready", "exceeded"}, pc' \in {"idle", "build", "tools"},
           ConversationInv', ChainInv', Len(atoms') = Len(atoms) + 1, Len(atoms) \in Nat,
           plan' = plan, foreign' = foreign,
           l' = FreshLocals \/ (l' = l /\ pc' # "build")
    PROVE  ContextInv'
  <1>0. PlanInv /\ LocalsInv /\ l \in Locals
    BY LocalsAre DEF ContextInv
  <1>1. plan = NoPlan /\ foreign \in 0..MaxForeign
    BY <1>0 DEF PlanInv, LocalsInv
  <1>2. l' \in Locals'
    <2>1. CASE l' = FreshLocals
      BY <2>1, FreshLocalsAre
    <2>2. CASE l' = l
      BY <1>0, <2>2, LocalsGrow
    <2> QED BY <2>1, <2>2
  <1>3. PlanInv'
    BY <1>1, FreshLocalsAre DEF PlanInv
  <1>4. LocalsInv'
    <2>1. l'.passes <= l'.calls + One(l'.suppress_soft) + One(pc' \notin {"build", "inflight"})
      <3>1. CASE l' = FreshLocals
        BY <3>1, FreshLocalsAre DEF One
      <3>2. CASE l' = l /\ pc' # "build"
        BY <1>0, <3>2 DEF LocalsInv, One
      <3> QED BY <3>1, <3>2
    <2>2. pc' \in {"build", "send", "inflight"} => l'.consecutive_invalid = 0
      BY FreshLocalsAre
    <2> QED BY <1>1, <1>2, <2>1, <2>2 DEF LocalsInv, Locals
  <1> QED BY <1>3, <1>4 DEF ContextInv

LEMMA SizesAreNat == Sizes \subseteq Nat \ {0} /\ MaxCalls \in Nat /\ SummarySizes \subseteq Nat \ {0}
  BY CapsAssumption

LEMMA AtomIsAtom ==
    ASSUME NEW type \in CCES, NEW size \in Nat
    PROVE  LET a == Atom(type, NoEvent, size)
           IN  a \in Atoms /\ Len(a.sizes) = 1 /\ a.type = type
  <1> DEFINE q == <<NoEvent>>
             r == <<size>>
  <1>1. q \in Seq(Nat) /\ r \in Seq(Nat) /\ Len(r) = 1
    BY DEF NoEvent
  <1>2. Atom(type, NoEvent, size) =
          [type |-> type, items |-> q, sizes |-> r, calls |-> 0, reasoning |-> FALSE]
    BY DEF Atom
  <1> HIDE DEF q, r
  <1> QED BY <1>1, <1>2, SizesAreNat DEF Atoms

LEMMA UserMessageKeeps ==
    ASSUME ContextInv, NEW size \in Sizes, UserMessage(size)
    PROVE  ContextInv'
  <1> DEFINE a == Atom("user_message", NoEvent, size)
  <1>1. a \in Atoms /\ Len(a.sizes) = 1
    BY AtomIsAtom, SizesAreNat DEF CCES
  <1> HIDE DEF a
  <1>2. /\ pc = "idle" /\ pc' = "build" /\ AppendAtom(0, a) /\ l' = FreshLocals
        /\ UNCHANGED <<plan, foreign>>
    BY DEF UserMessage, a
  <1>3. ConversationInv' /\ ChainInv' /\ Len(atoms') = Len(atoms) + 1 /\ Len(atoms) \in Nat
    BY <1>1, <1>2, AtomAppended
  <1> QED BY <1>2, <1>3, AppendKeeps

LEMMA ToolCallsKeeps ==
    ASSUME ContextInv, NEW n \in 1..MaxCalls, NEW reasoning \in BOOLEAN, ToolCalls(n, reasoning)
    PROVE  ContextInv'
  <1> DEFINE b == Atom("assistant_tool_calls", NoEvent, 1)
             a == [b EXCEPT !.calls = n, !.reasoning = reasoning]
  <1>1. b \in Atoms /\ Len(b.sizes) = 1 /\ b.type = "assistant_tool_calls"
    BY AtomIsAtom DEF CCES
  <1> HIDE DEF b
  <1>2. a \in Atoms /\ Len(a.sizes) = 1 /\ IsStep(a)
    <2>1. n \in 0..MaxCalls
      BY SizesAreNat
    <2> QED BY <1>1, <2>1 DEF Atoms, IsStep
  <1>3. AppendAtom(1, a)
    BY DEF ToolCalls, b
  <1> HIDE DEF a
  <1>4. pc = "ready" /\ pc' = "tools" /\ UNCHANGED <<l, plan, foreign>>
    BY DEF ToolCalls
  <1>5. ConversationInv' /\ ChainInv' /\ Len(atoms') = Len(atoms) + 1 /\ Len(atoms) \in Nat
    BY <1>2, <1>3, <1>4, AtomAppended
  <1> QED BY <1>4, <1>5, AppendKeeps

LEMMA EndOfTurnKeeps ==
    ASSUME ContextInv, FinalMessage \/ TerminateContextBudget
    PROVE  ContextInv'
  <1>1. PICK type \in CCES, derived \in Nat : AppendAtom(derived, Atom(type, NoEvent, 1))
    BY DEF FinalMessage, TerminateContextBudget, CCES
  <1> DEFINE a == Atom(type, NoEvent, 1)
  <1>2. a \in Atoms /\ Len(a.sizes) = 1
    BY AtomIsAtom
  <1> HIDE DEF a
  <1>3. pc \in {"ready", "exceeded"} /\ pc' = "idle" /\ UNCHANGED <<l, plan, foreign>>
    BY DEF FinalMessage, TerminateContextBudget
  <1>4. ConversationInv' /\ ChainInv' /\ Len(atoms') = Len(atoms) + 1 /\ Len(atoms) \in Nat
    BY <1>1, <1>2, <1>3, AtomAppended DEF a
  <1> QED BY <1>3, <1>4, AppendKeeps

LEMMA ToolOutcomeKeeps ==
    ASSUME ContextInv, NEW size \in Sizes, ToolOutcome(size)
    PROVE  ContextInv'
  <1> DEFINE N == Len(atoms)
             s == event_seq'
             o == atoms[N]
             q == Append(o.items, s)
             z == Append(o.sizes, size)
             a == [o EXCEPT !.items = q, !.sizes = z]
             M == Len(o.items)
  <1>0. /\ ConversationInv /\ ChainInv /\ PlanInv /\ LocalsInv
        /\ atoms \in Seq(Atoms) /\ N \in Nat /\ event_seq \in Nat
    BY DEF ContextInv, ConversationInv
  <1>1. /\ pc = "tools" /\ pc' \in {"build", "tools"} /\ l' = FreshLocals /\ UNCHANGED <<plan, foreign>>
        /\ s = event_seq + 1 /\ condensed' = condensed /\ atoms' = [atoms EXCEPT ![N] = a]
    <2>1. /\ pc = "tools" /\ l' = FreshLocals /\ UNCHANGED <<plan, foreign>> /\ AppendOutcome(size)
      BY DEF ToolOutcome
    <2>2. pc' \in {"build", "tools"}
      <3> DEFINE closed == Closed(Last(atoms'))
      <3>1. pc' = IF closed THEN "build" ELSE "tools"
        BY DEF ToolOutcome
      <3> HIDE DEF closed
      <3> QED BY <3>1
    <2>3. s = event_seq + 1 /\ condensed' = condensed
      BY <2>1 DEF AppendOutcome
    <2>4. atoms' = [atoms EXCEPT ![N] = a]
      BY <2>1 DEF AppendOutcome, Last
    <2> HIDE DEF a
    <2> QED BY <2>1, <2>2, <2>3, <2>4
  <1>2. N \in 1..N /\ IsStep(o) /\ N # 0
    BY <1>0, <1>1 DEF ConversationInv
  <1>3. /\ o \in Atoms /\ o.items \in Seq(Nat) /\ o.sizes \in Seq(Nat) /\ M \in Nat \ {0}
        /\ Len(o.sizes) = M
        /\ \A j \in 1..M : o.items[j] \in 1..event_seq
        /\ \A j, k \in 1..M : j < k => o.items[j] < o.items[k]
    BY <1>0, <1>2, AtomIs
  <1>4. s \in Nat /\ event_seq < s /\ size \in Nat
    BY <1>0, <1>1, SizesAreNat
  <1> HIDE DEF s, o, M
  <1>5. /\ q \in Seq(Nat) /\ Len(q) = M + 1 /\ q[M + 1] = s /\ \A j \in 1..M : q[j] = o.items[j]
        /\ z \in Seq(Nat) /\ Len(z) = M + 1
    BY <1>3, <1>4, AppendProperties, SMTT(40) DEF M
  <1> HIDE DEF q, z
  <1>6. a \in Atoms /\ a.items = q /\ a.sizes = z /\ a.type = o.type /\ a.reasoning = o.reasoning
    BY <1>3, <1>5 DEF Atoms
  <1> HIDE DEF a
  <1>7. /\ atoms' \in Seq(Atoms) /\ Len(atoms') = N /\ atoms'[N] = a
        /\ \A i \in 1..(N - 1) : atoms'[i] = atoms[i]
    <2>1. \A i \in 1..(N - 1) : i \in 1..N /\ i # N
      BY <1>0
    <2> QED BY <1>0, <1>1, <1>2, <1>6, <2>1
  <1> HIDE DEF N
  <1>8. \A n \in 1..N : n = N \/ (n \in 1..(N - 1) /\ atoms'[n] = atoms[n] /\ n \in 1..Len(atoms))
    BY <1>0, <1>7 DEF N
  <1>9. \A x \in 1..event_seq : x \in 1..s /\ x < s
    BY <1>0, <1>4
  <1>10. DOMAIN q = 1..(M + 1) /\ \A j \in 1..(M + 1) : q[j] \in 1..s
    <2>1. DOMAIN q = 1..(M + 1)
      BY <1>5
    <2>2. ASSUME NEW j \in 1..(M + 1) PROVE q[j] \in 1..s
      <3>1. CASE j = M + 1
        <4>1. s \in 1..s
          BY <1>0, <1>4
        <4> QED BY <1>5, <3>1, <4>1
      <3>2. CASE j \in 1..M
        BY <1>3, <1>5, <1>9, <3>2
      <3> QED BY <1>3, <3>1, <3>2
    <2> QED BY <2>1, <2>2
  <1>11. \A j, k \in 1..(M + 1) : j < k => q[j] < q[k]
    <2> SUFFICES ASSUME NEW j \in 1..(M + 1), NEW k \in 1..(M + 1), j < k PROVE q[j] < q[k]
      OBVIOUS
    <2>1. j \in 1..M /\ (k \in 1..M \/ k = M + 1)
      BY <1>3
    <2> QED BY <1>3, <1>5, <1>9, <2>1
  <1>12. ConversationInv'
    <2>1. ASSUME NEW n \in 1..N
          PROVE  /\ atoms'[n].items # <<>> /\ Len(atoms'[n].sizes) = Len(atoms'[n].items)
                 /\ ~IsStep(atoms'[n]) => Len(atoms'[n].items) = 1
                 /\ \A i \in DOMAIN atoms'[n].items : atoms'[n].items[i] \in 1..s
                 /\ \A i, j \in DOMAIN atoms'[n].items : i < j => atoms'[n].items[i] < atoms'[n].items[j]
      <3>1. CASE n = N
        <4>1. IsStep(a)
          BY <1>2, <1>6 DEF IsStep
        <4>2. q # <<>>
          BY <1>3, <1>5
        <4> QED BY <1>5, <1>6, <1>7, <1>10, <1>11, <3>1, <4>1, <4>2
      <3>2. CASE atoms'[n] = atoms[n] /\ n \in 1..Len(atoms)
        <4>1. n \in DOMAIN atoms
          BY <1>0, <3>2
        <4> QED BY <1>0, <1>9, <3>2, <4>1 DEF ConversationInv
      <3> QED BY <1>8, <3>1, <3>2
    <2>2. ASSUME NEW m \in 1..N, NEW n \in 1..N, m < n
          PROVE  \A i \in DOMAIN atoms'[m].items, j \in DOMAIN atoms'[n].items :
                    atoms'[m].items[i] < atoms'[n].items[j]
      <3>1. m \in 1..(N - 1) /\ atoms'[m] = atoms[m] /\ m \in DOMAIN atoms
        BY <1>0, <1>7, <2>2 DEF N
      <3>2. CASE n = N
        <4>1. N \in DOMAIN atoms
          BY <1>0, <1>2 DEF N
        <4>2. \A i \in DOMAIN atoms[m].items, j \in DOMAIN o.items : atoms[m].items[i] < o.items[j]
          BY <1>0, <2>2, <3>1, <3>2, <4>1 DEF ConversationInv, o
        <4>3. \A i \in DOMAIN atoms[m].items : atoms[m].items[i] \in 1..event_seq
          BY <1>0, <3>1 DEF ConversationInv
        <4>4. DOMAIN o.items = 1..M
          BY <1>3 DEF M
        <4>5. \A j \in 1..(M + 1) : j \in 1..M \/ j = M + 1
          BY <1>3
        <4> QED BY <1>5, <1>6, <1>7, <1>9, <1>10, <3>1, <3>2, <4>2, <4>3, <4>4, <4>5
      <3>3. CASE atoms'[n] = atoms[n] /\ n \in 1..Len(atoms)
        <4>1. n \in DOMAIN atoms
          BY <1>0, <3>3
        <4> QED BY <1>0, <2>2, <3>1, <3>3, <4>1 DEF ConversationInv
      <3> QED BY <1>8, <3>2, <3>3
    <2>3. pc' = "tools" => atoms' # <<>> /\ IsStep(atoms'[Len(atoms')])
      <3>1. atoms' # <<>>
        BY <1>2, <1>7
      <3>2. IsStep(a)
        BY <1>2, <1>6 DEF IsStep
      <3> QED BY <1>7, <3>1, <3>2
    <2>4. DOMAIN atoms' = 1..N
      BY <1>7
    <2> QED BY <1>4, <1>7, <2>1, <2>2, <2>3, <2>4 DEF ConversationInv, s
  <1>13. MandatoryAt' \in {0, MandatoryAt} \/ MandatoryAt' = N
    <2>1. (atoms \in Seq(Atoms))'
      BY <1>7
    <2>2. \A i \in 1..N : atoms'[i].type = atoms[i].type /\ atoms'[i].reasoning = atoms[i].reasoning
      <3> TAKE i \in 1..N
      <3> QED BY <1>6, <1>7, <1>8 DEF o
    <2> QED BY <1>0, <1>7, <2>1, <2>2, MandatoryMoves DEF N
  <1>14. ChainInv'
    <2>1. Settled = N - 1 /\ Settled' \in {N - 1, N}
      BY <1>1, <1>7 DEF Settled, N
    <2>2. Settled <= Settled' /\ Settled <= Len(atoms')
      BY <1>0, <1>7, <2>1
    <2>3. MandatoryAt' \in {0, MandatoryAt} \/ MandatoryAt' > Settled
      BY <1>0, <1>13, <2>1
    <2>4. event_seq <= event_seq'
      BY <1>0, <1>4 DEF s
    <2> QED BY <1>0, <1>1, <1>7, <1>12, <2>1, <2>2, <2>3, <2>4, ChainKept
  <1>15. PlanInv'
    BY <1>0, <1>1, FreshLocalsAre DEF PlanInv
  <1>16. LocalsInv'
    <2>1. l' \in Locals' /\ foreign' \in 0..MaxForeign
      BY <1>0, <1>1, FreshLocalsAre DEF LocalsInv
    <2> QED BY <1>1, <2>1, FreshLocalsAre DEF LocalsInv, Locals, One
  <1> QED BY <1>12, <1>14, <1>15, <1>16 DEF ContextInv

\* A new summary goes on from the latest one.
LEMMA CondenserSucceedsKeeps ==
    ASSUME ContextInv, NEW size \in SummarySizes, CondenserSucceeds(size)
    PROVE  ContextInv'
  <1> DEFINE N == Len(condensed)
             e == Condensed(size)
             s == event_seq + 3
  <1>0. /\ ConversationInv /\ ChainInv /\ PlanInv /\ LocalsInv /\ l \in Locals
        /\ event_seq \in Nat /\ condensed \in Seq(Summaries) /\ N \in Nat /\ Tip \in Nat /\ Len(atoms) \in Nat
    BY LocalsAre, CoverageGrows DEF ContextInv, ConversationInv, ChainInv
  <1>1. /\ pc = "inflight" /\ pc' = "build" /\ event_seq' = s /\ atoms' = atoms
        /\ condensed' = Append(condensed, e) /\ plan' = NoPlan /\ foreign' = foreign
        /\ l' = [l EXCEPT !.consecutive_invalid = 0, !.plan_max_atoms = NoEvent]
        /\ size <= caps.summary_max_tokens
    BY DEF CondenserSucceeds, UsableSummary
  <1>2. GoesOn(plan) /\ l.retry_plan = NoPlan
    BY <1>0, <1>1 DEF PlanInv
  <1>3. /\ plan.previous \in Nat /\ plan.ids \in Seq(Nat) /\ plan.previous = SeqBefore(N + 1)
        /\ plan.previous_count = Tip /\ TakesOn(plan.ids, Tip) /\ Len(plan.ids) \in Nat
        /\ MandatoryAt # 0 => Tip + Len(plan.ids) <= Consumed(MandatoryAt - 1)
    <2>1. plan \in Plans
      BY <1>2 DEF GoesOn
    <2>2. plan.previous \in Nat /\ plan.ids \in Seq(Nat)
      BY <2>1 DEF Plans
    <2> QED BY <1>2, <2>2 DEF GoesOn
  <1>4. /\ e = [seq |-> s, size |-> size, previous |-> plan.previous, ids |-> plan.ids,
                count |-> Tip + Len(plan.ids)]
        /\ s \in Nat /\ event_seq < s
    BY <1>0, <1>3 DEF Condensed
  <1> HIDE DEF e, s
  <1>5. /\ e \in Summaries /\ e.seq = s /\ e.size <= caps.summary_max_tokens /\ e.previous = plan.previous
        /\ e.ids = plan.ids /\ e.count = Tip + Len(plan.ids)
    <2>1. Tip + Len(plan.ids) \in Nat
      BY <1>0, <1>3
    <2> QED BY <1>1, <1>3, <1>4, <2>1 DEF Summaries
  <1>6. /\ condensed' \in Seq(Summaries) /\ Len(condensed') = N + 1 /\ condensed'[N + 1] = e
        /\ \A n \in 1..N : condensed'[n] = condensed[n]
    BY <1>0, <1>1, <1>5, AppendProperties
  <1> HIDE DEF N
  <1>7. /\ \A n \in 1..(N + 1) : CountBefore(n)' = CountBefore(n) /\ SeqBefore(n)' = SeqBefore(n)
        /\ Tip = CountBefore(N + 1) /\ Tip' = e.count
    <2>1. ASSUME NEW n \in 1..(N + 1)
          PROVE  CountBefore(n)' = CountBefore(n) /\ SeqBefore(n)' = SeqBefore(n)
      <3>1. n # 1 => n - 1 \in 1..N
        BY <1>0
      <3> QED BY <1>6, <3>1 DEF CountBefore, SeqBefore
    <2>2. Tip = CountBefore(N + 1)
      BY DEF Tip, N
    <2>3. Tip' = e.count
      <3>1. Tip' = IF Len(condensed') + 1 = 1 THEN 0 ELSE condensed'[(Len(condensed') + 1) - 1].count
        BY DEF Tip, CountBefore
      <3>2. Len(condensed') + 1 # 1 /\ (Len(condensed') + 1) - 1 = N + 1
        BY <1>0, <1>6
      <3> QED BY <1>6, <3>1, <3>2
    <2> QED BY <2>1, <2>2, <2>3
  <1>8. /\ MandatoryAt' = MandatoryAt /\ Settled' = Settled
        /\ \A ids, c : TakesOn(ids, c)' = TakesOn(ids, c)
        /\ \A n : Consumed(n)' = Consumed(n)
    <2>1. AnchorAt' = AnchorAt
      BY <1>1 DEF AnchorAt
    <2>2. MandatoryAt' = MandatoryAt
      BY <1>1, <2>1 DEF MandatoryAt
    <2>3. Settled' = Settled /\ \A n : Consumed(n)' = Consumed(n)
      BY <1>1 DEF Settled, Consumed
    <2> QED BY <1>1, <2>2, <2>3 DEF TakesOn
  <1>9. ConversationInv'
    <2>1. \A x \in 1..event_seq : x \in 1..s
      BY <1>0, <1>4
    <2> QED BY <1>0, <1>1, <1>4, <2>1 DEF ConversationInv
  <1>10. \A n \in 1..(N + 1) : n = N + 1 \/ (n \in 1..N /\ n \in DOMAIN condensed)
    BY <1>0 DEF N
  <1>11. ASSUME NEW n \in 1..(N + 1)
         PROVE  /\ condensed'[n].seq \in 1..s /\ condensed'[n].size <= caps.summary_max_tokens
                /\ condensed'[n].previous = SeqBefore(n)
                /\ condensed'[n].count = CountBefore(n) + Len(condensed'[n].ids)
                /\ TakesOn(condensed'[n].ids, CountBefore(n))
    <2>1. CASE n = N + 1
      <3>1. s \in 1..s
        BY <1>0, <1>4
      <3> QED BY <1>3, <1>5, <1>6, <1>7, <2>1, <3>1
    <2>2. CASE n \in 1..N /\ n \in DOMAIN condensed
      <3>1. \A x \in 1..event_seq : x \in 1..s
        BY <1>0, <1>4
      <3> QED BY <1>0, <1>6, <2>2, <3>1 DEF ChainInv
    <2> QED BY <1>10, <2>1, <2>2
  <1>12. ASSUME NEW m \in 1..(N + 1), NEW n \in 1..(N + 1), m < n
         PROVE  condensed'[m].seq < condensed'[n].seq
    <2>1. m \in 1..N /\ m \in DOMAIN condensed /\ condensed'[m] = condensed[m]
      BY <1>0, <1>6, <1>12 DEF N
    <2>2. CASE n = N + 1
      <3>1. condensed[m].seq \in 1..event_seq
        BY <1>0, <2>1 DEF ChainInv
      <3> QED BY <1>0, <1>4, <1>5, <1>6, <2>1, <2>2, <3>1
    <2>3. CASE n \in 1..N /\ n \in DOMAIN condensed
      BY <1>0, <1>6, <1>12, <2>1, <2>3 DEF ChainInv
    <2> QED BY <1>10, <2>2, <2>3
  <1>13. ChainInv'
    <2>1. DOMAIN condensed' = 1..(N + 1)
      BY <1>6
    <2>2. (MandatoryAt # 0 => Tip <= Consumed(MandatoryAt - 1))'
      <3>1. MandatoryAt # 0 => Tip' <= Consumed(MandatoryAt - 1)
        BY <1>3, <1>5, <1>7
      <3> QED BY <1>1, <1>8, <3>1 DEF Consumed
    <2>3. \A n \in 1..(N + 1) : /\ condensed'[n].previous = SeqBefore(n)'
                                /\ condensed'[n].count = CountBefore(n)' + Len(condensed'[n].ids)
                                /\ TakesOn(condensed'[n].ids, CountBefore(n)')
      BY <1>7, <1>11
    <2>4. \A n \in 1..(N + 1) : TakesOn(condensed[n].ids, CountBefore(n))'
      <3> TAKE n \in 1..(N + 1)
      <3>1. PICK ids, c : ids = condensed'[n].ids /\ c = CountBefore(n)
        OBVIOUS
      <3>2. TakesOn(ids, c)'
        BY <1>8, <1>11, <3>1
      <3>3. CountBefore(n)' = c
        BY <1>7, <3>1
      <3> QED BY <3>1, <3>2, <3>3 DEF TakesOn
    <2> QED BY <1>1, <1>6, <1>11, <1>12, <2>1, <2>2, <2>3, <2>4 DEF ChainInv
  <1>14. /\ l' \in Locals /\ l'.passes = l.passes /\ l'.calls = l.calls
         /\ l'.suppress_soft = l.suppress_soft /\ l'.retry_plan = NoPlan /\ l'.consecutive_invalid = 0
    <2>1. NoEvent \in 0..Len(atoms) /\ 0 \in 0..1
      BY <1>0 DEF NoEvent
    <2> QED BY <1>0, <1>1, <1>2, <2>1 DEF Locals
  <1>15. PlanInv'
    BY <1>1, <1>14 DEF PlanInv
  <1>16. LocalsInv'
    <2>1. l'.passes <= l'.calls + One(l'.suppress_soft) + One(pc' \notin {"build", "inflight"})
      BY <1>0, <1>1, <1>14 DEF LocalsInv, One
    <2>2. foreign' \in 0..MaxForeign
      BY <1>0, <1>1 DEF LocalsInv
    <2> QED BY <1>1, <1>14, <2>1, <2>2 DEF LocalsInv, Locals
  <1> QED BY <1>9, <1>13, <1>15, <1>16 DEF ContextInv

-----------------------------------------------------------------------------
(* The context: every behaviour *)

LEMMA ContextInitInv == ContextInit => ContextInv
  <1> SUFFICES ASSUME ContextInit PROVE ContextInv
    OBVIOUS
  <1>1. atoms = <<>> /\ condensed = <<>> /\ event_seq = 0 /\ pc = "idle" /\ l = FreshLocals
        /\ plan = NoPlan /\ foreign = 0
    BY DEF ContextInit
  <1>2. ConversationInv
    <2>1. atoms \in Seq(Atoms) /\ DOMAIN atoms = {}
      BY <1>1
    <2> QED BY <1>1, <2>1 DEF ConversationInv
  <1>3. MandatoryAt = 0 /\ Len(atoms) = 0
    <2>1. atoms \in Seq(Atoms) /\ Len(atoms) = 0
      BY <1>1
    <2> QED BY <2>1, MandatoryIs
  <1>4. ChainInv
    <2>1. condensed \in Seq(Summaries) /\ DOMAIN condensed = {}
      BY <1>1
    <2> QED BY <1>3, <2>1 DEF ChainInv
  <1>5. PlanInv
    BY <1>1, BoundsAreNat DEF PlanInv, FreshLocals
  <1>6. LocalsInv
    BY <1>1, <1>3, BoundsAreNat DEF LocalsInv, FreshLocals, One, NoEvent
  <1> QED BY <1>2, <1>4, <1>5, <1>6 DEF ContextInv

LEMMA ContextStepInv == ContextInv /\ [ContextNext]_contextVars => ContextInv'
  <1> SUFFICES ASSUME ContextInv, [ContextNext]_contextVars PROVE ContextInv'
    OBVIOUS
  <1>1. CASE Prepare
    BY <1>1, PrepareKeeps
  <1>2. CASE SendCondenser
    BY <1>2, SendCondenserKeeps
  <1>3. CASE CondenserFails
    BY <1>3, CondenserFailsKeeps
  <1>4. CASE CondenserUnusable
    BY <1>4, InvalidCompletionKeeps DEF CondenserUnusable
  <1>5. CASE CondenserStale
    BY <1>5, InvalidCompletionKeeps DEF CondenserStale
  <1>6. ASSUME NEW size \in SummarySizes, CondenserSucceeds(size) PROVE ContextInv'
    BY <1>6, CondenserSucceedsKeeps
  <1>7. ASSUME NEW size \in Sizes, UserMessage(size) PROVE ContextInv'
    BY <1>7, UserMessageKeeps
  <1>8. ASSUME NEW size \in Sizes, ToolOutcome(size) PROVE ContextInv'
    BY <1>8, ToolOutcomeKeeps
  <1>9. ASSUME NEW n \in 1..MaxCalls, NEW reasoning \in BOOLEAN, ToolCalls(n, reasoning)
        PROVE  ContextInv'
    BY <1>9, ToolCallsKeeps
  <1>10. CASE FinalMessage \/ TerminateContextBudget
    BY <1>10, EndOfTurnKeeps
  <1>11. CASE ForeignEvent
    BY <1>11, ForeignEventKeeps
  <1>12. CASE UNCHANGED contextVars
    <2>1. /\ UNCHANGED <<atoms, event_seq, condensed>> /\ UNCHANGED <<pc, l, plan, request, foreign>>
      BY <1>12 DEF contextVars, events
    <2>2. ConversationInv' /\ Settled' = Settled
      BY <2>1 DEF ContextInv, ConversationInv, Settled
    <2>3. /\ Report' = Report /\ Messages(Report)' = Messages(Report)
          /\ MandatoryAt' = MandatoryAt /\ Tip' = Tip /\ \A n : Consumed(n)' = Consumed(n)
      BY <2>1, ReportStays
    <2>4. \A ids, c : TakesOn(ids, c)' = TakesOn(ids, c)
      BY <2>1, <2>2, <2>3 DEF TakesOn
    <2>5. \A n : SeqBefore(n)' = SeqBefore(n) /\ CountBefore(n)' = CountBefore(n)
      BY <2>1 DEF SeqBefore, CountBefore
    <2>6. ChainInv'
      BY <2>1, <2>2, <2>3, <2>4, <2>5 DEF ContextInv, ChainInv
    <2>7. Hard(Report)' = Hard(Report) /\ GoesOn(plan)' = GoesOn(plan)
          /\ GoesOn(l.retry_plan)' = GoesOn(l.retry_plan)
      BY <2>1, <2>3, <2>4, <2>5 DEF GoesOn, Hard
    <2>8. PlanInv'
      BY <2>1, <2>3, <2>7 DEF ContextInv, PlanInv
    <2>9. LocalsInv'
      BY <2>1, <2>7 DEF ContextInv, LocalsInv
    <2> QED BY <2>2, <2>6, <2>8, <2>9 DEF ContextInv
  <1> QED BY <1>1, <1>2, <1>3, <1>4, <1>5, <1>6, <1>7, <1>8, <1>9, <1>10, <1>11, <1>12
       DEF ContextNext, Condense

LEMMA ContextIsInv == ContextSpec => []ContextInv
  BY ContextInitInv, ContextStepInv, PTL DEF ContextSpec

\* Whatever the condenser answers and however often it fails, whatever other
\* threads write meanwhile: the summaries cover the conversation from its
\* beginning without gap or overlap, each is found valid when it is read back,
\* and the latest is the one in use (_call_condenser, _valid_summary_chain,
\* select_rolling_summary).
THEOREM SummariesStayChained == ContextSpec => []SummariesAreChained
  BY ContextIsInv, ChainedInContext, PTL

-----------------------------------------------------------------------------
(* The items of a conversation, one by one *)

LEMMA InSequence ==
    ASSUME NEW T, NEW q \in Seq(T), NEW x
    PROVE  x \in ToSet(q) <=> \E j \in 1..Len(q) : x = q[j]
  <1>1. DOMAIN q = 1..Len(q)
    OBVIOUS
  <1> QED BY <1>1, Zenon DEF ToSet

\* Every item has its atom and its place there.
LEMMA ItemPlaces ==
    ASSUME NEW s, Whole(s)
    PROVE  /\ \A n \in 1..Len(s) : \A i \in 1..Len(s[n].items) :
                /\ Count(s, n - 1) + i \in 1..Len(Items(s))
                /\ Items(s)[Count(s, n - 1) + i] = s[n].items[i]
           /\ \A j \in 1..Len(Items(s)) : \E n \in 1..Len(s) : \E i \in 1..Len(s[n].items) :
                j = Count(s, n - 1) + i
           /\ \A x : x \in ToSet(Items(s)) <=>
                \E n \in 1..Len(s) : \E i \in 1..Len(s[n].items) : x = s[n].items[i]
  <1> DEFINE q == Items(s)
  <1>1. /\ s \in Seq(Atoms) /\ Len(s) \in Nat /\ q \in Seq(Nat) /\ Len(q) \in Nat
        /\ Count(s, 0) = 0 /\ Count(s, Len(s)) = Len(q)
        /\ \A n \in 0..Len(s) : Count(s, n) \in Nat /\ Count(s, n) <= Len(q)
        /\ \A n \in 1..Len(s) : Count(s, n) = Count(s, n - 1) + Len(s[n].items)
    BY CountsGrow DEF Whole
  <1>2. ASSUME NEW n \in 1..Len(s), NEW i \in 1..Len(s[n].items)
        PROVE  /\ Count(s, n - 1) + i \in 1..Len(q)
               /\ q[Count(s, n - 1) + i] = s[n].items[i]
    <2> DEFINE a == Items(SubSeq(s, 1, n - 1))
               b == s[n].items
               c == Count(s, n - 1)
               d == Count(s, n)
    <2>1. n \in 0..Len(s) /\ n - 1 \in 0..Len(s) /\ 0 \in 0..Len(s) /\ n \in 0..Len(s)
      BY <1>1
    <2>2. a \in Seq(Nat) /\ Items(SubSeq(s, 1, n)) = a \o b /\ Len(a) = c
      BY <1>1, <2>1, ItemsStep DEF Count
    <2>3. s[n] \in Atoms
      BY <1>1
    <2>4. b \in Seq(Nat)
      BY <2>3 DEF Atoms
    <2>5. Items(SubSeq(s, 1, n)) = SubSeq(q, 1, d)
      <3>1. n \in n..Len(s)
        BY <1>1
      <3> QED BY <1>1, <2>1, <3>1, ItemsSlice DEF Count
    <2>6. c \in Nat /\ d \in Nat /\ d <= Len(q) /\ d = c + Len(b) /\ i \in 1..Len(b) /\ Len(b) \in Nat
      BY <1>1, <1>2, <2>1, <2>4
    <2> HIDE DEF a, b, c, d, q
    <2>7. c + i \in 1..d /\ c + i \in 1..Len(q)
      BY <1>1, <2>6
    <2>8. SubSeq(q, 1, d)[c + i] = q[c + i]
      BY <1>1, <2>6, <2>7
    <2>9. (a \o b)[c + i] = b[i]
      <3>1. Len(a) = c /\ a \in Seq(Nat)
        BY <2>2
      <3>2. \A k \in 1..Len(b) : (a \o b)[Len(a) + k] = b[k]
        BY <2>4, <3>1, SMTT(40)
      <3> QED BY <2>6, <3>1, <3>2
    <2>10. q[c + i] = b[i]
      BY <2>2, <2>5, <2>8, <2>9
    <2> QED BY <2>7, <2>10 DEF b, c, q
  <1>3. ASSUME NEW j \in 1..Len(q)
        PROVE  \E n \in 1..Len(s) : \E i \in 1..Len(s[n].items) : j = Count(s, n - 1) + i
    <2> DEFINE S == {n \in Nat : n \in 0..Len(s) /\ j <= Count(s, n)}
    <2>1. Len(s) \in S
      BY <1>1
    <2>2. PICK n \in S : \A m \in S : n <= m
      BY <2>1, NatMin
    <2>3. n # 0
      BY <1>1, <2>2
    <2>4. n \in 1..Len(s) /\ n - 1 \in 0..Len(s) /\ n - 1 \notin S
      BY <1>1, <2>2, <2>3
    <2>5. Count(s, n - 1) < j /\ j <= Count(s, n) /\ Count(s, n - 1) \in Nat
      BY <1>1, <2>2, <2>4
    <2> DEFINE i == j - Count(s, n - 1)
    <2>6. s[n].items \in Seq(Nat)
      <3>1. s[n] \in Atoms
        BY <1>1, <2>4
      <3> QED BY <3>1 DEF Atoms
    <2> DEFINE M == Len(s[n].items)
    <2>7. M \in Nat /\ Count(s, n) = Count(s, n - 1) + M
      BY <1>1, <2>4, <2>6
    <2> DEFINE c == Count(s, n - 1)
    <2> HIDE DEF c, M
    <2>8. j - c \in 1..M /\ j = c + (j - c)
      BY <1>1, <2>5, <2>7 DEF c
    <2> QED BY <2>4, <2>8 DEF c, M
  <1>4. ASSUME NEW x
        PROVE  x \in ToSet(q) <=> \E n \in 1..Len(s) : \E i \in 1..Len(s[n].items) : x = s[n].items[i]
    <2>1. x \in ToSet(q) <=> \E j \in 1..Len(q) : x = q[j]
      BY <1>1, InSequence
    <2> HIDE DEF q
    <2>2. ASSUME NEW j \in 1..Len(q), x = q[j]
          PROVE  \E n \in 1..Len(s) : \E i \in 1..Len(s[n].items) : x = s[n].items[i]
      <3>1. PICK n \in 1..Len(s) : \E i \in 1..Len(s[n].items) : j = Count(s, n - 1) + i
        BY <1>3
      <3>2. PICK i \in 1..Len(s[n].items) : j = Count(s, n - 1) + i
        BY <3>1
      <3> QED BY <1>2, <2>2, <3>2
    <2> QED BY <1>2, <2>1, <2>2
  <1> QED BY <1>2, <1>3, <1>4

LEMMA ItemOf ==
    ASSUME NEW s, Whole(s), NEW x
    PROVE  x \in ToSet(Items(s)) <=>
                \E n \in 1..Len(s) : \E i \in 1..Len(s[n].items) : x = s[n].items[i]
  <1>1. \A y : y \in ToSet(Items(s)) <=>
                \E n \in 1..Len(s) : \E i \in 1..Len(s[n].items) : y = s[n].items[i]
    BY ItemPlaces, Zenon
  <1> QED BY <1>1, Zenon

LEMMA WholePart ==
    ASSUME NEW s, Whole(s), NEW m \in 1..(Len(s) + 1), NEW n \in 0..Len(s)
    PROVE  /\ Whole(SubSeq(s, m, n)) /\ Len(SubSeq(s, m, n)) = IF m <= n THEN n - m + 1 ELSE 0
           /\ \A i \in 1..Len(SubSeq(s, m, n)) :
                SubSeq(s, m, n)[i] = s[m + i - 1] /\ m + i - 1 \in m..n /\ m + i - 1 \in 1..Len(s)
  <1> DEFINE t == SubSeq(s, m, n)
  <1>1. s \in Seq(Atoms) /\ Len(s) \in Nat /\ \A i \in 1..Len(s) : s[i].items # <<>>
    BY DEF Whole
  <1>2. t \in Seq(Atoms) /\ Len(t) = (IF m <= n THEN n - m + 1 ELSE 0)
        /\ \A i \in 1..(n - m + 1) : t[i] = s[m + i - 1]
    BY <1>1, SliceOfAtoms
  <1> HIDE DEF t
  <1>3. ASSUME NEW i \in 1..Len(t)
        PROVE  t[i] = s[m + i - 1] /\ m + i - 1 \in m..n /\ m + i - 1 \in 1..Len(s)
    <2>1. m <= n /\ i \in 1..(n - m + 1) /\ m \in Nat /\ n \in Nat /\ n <= Len(s) /\ 1 <= m
      BY <1>1, <1>2
    <2> QED BY <1>1, <1>2, <2>1
  <1>4. Whole(t)
    <2>1. DOMAIN t = 1..Len(t)
      BY <1>2
    <2> QED BY <1>1, <1>2, <1>3, <2>1 DEF Whole
  <1> QED BY <1>2, <1>3, <1>4 DEF t

-----------------------------------------------------------------------------
(* A request tells everything *)

\* There is a task whenever a turn is under way.
AnchorInv == pc # "idle" => AnchorAt # 0

LEMMA AnchorStays ==
    ASSUME (atoms \in Seq(Atoms))', \E i \in 1..Len(atoms') : IsMessage(atoms'[i])
    PROVE  AnchorAt' # 0
  <1>1. (/\ AnchorAt \in 0..Len(atoms) /\ (AnchorAt # 0 => IsMessage(atoms[AnchorAt]))
         /\ \A i \in 1..Len(atoms) : IsMessage(atoms[i]) => i <= AnchorAt)'
    BY AnchorIsLast, PTL
  <1>2. PICK i \in 1..Len(atoms') : IsMessage(atoms'[i])
    OBVIOUS
  <1>3. i <= AnchorAt' /\ i \in Nat /\ 1 <= i
    BY <1>1, <1>2
  <1> QED BY <1>3

LEMMA AnchorInvStep == ContextInv /\ ContextInv' /\ AnchorInv /\ [ContextNext]_contextVars => AnchorInv'
  <1> SUFFICES ASSUME ContextInv, ContextInv', AnchorInv, [ContextNext]_contextVars, pc' # "idle"
               PROVE  AnchorAt' # 0
    BY DEF AnchorInv
  <1>1. atoms \in Seq(Atoms) /\ (atoms \in Seq(Atoms))'
    BY DEF ContextInv, ConversationInv
  <1>2. Len(atoms) \in Nat /\ Len(atoms') \in Nat
    BY <1>1
  <1>3. ASSUME NEW size \in Sizes, UserMessage(size) PROVE AnchorAt' # 0
    <2> DEFINE a == [Atom("user_message", NoEvent, size) EXCEPT !.items = <<event_seq'>>]
    <2>1. atoms' = Append(atoms, a)
      BY <1>3 DEF UserMessage, AppendAtom
    <2>2. IsMessage(a)
      BY DEF IsMessage, Atom
    <2> HIDE DEF a
    <2>3. Len(atoms') = Len(atoms) + 1 /\ atoms'[Len(atoms) + 1] = a
      <3>1. PICK T : T = {a} \cup Atoms
        OBVIOUS
      <3>2. atoms \in Seq(T) /\ a \in T
        BY <1>1, <3>1
      <3> QED BY <2>1, <3>2, AppendProperties
    <2>4. Len(atoms) + 1 \in 1..Len(atoms')
      BY <1>2, <2>3
    <2> QED BY <1>1, <2>2, <2>3, <2>4, AnchorStays
  <1>4. ASSUME NEW derived, NEW atom, AppendAtom(derived, atom), pc # "idle" PROVE AnchorAt' # 0
    <2> DEFINE a == [atom EXCEPT !.items = <<event_seq'>>]
    <2>1. atoms' = Append(atoms, a)
      BY <1>4 DEF AppendAtom
    <2> HIDE DEF a
    <2>2. AnchorAt \in 1..Len(atoms) /\ IsMessage(atoms[AnchorAt])
      BY <1>1, <1>2, <1>4, AnchorIsLast DEF AnchorInv
    <2>3. Len(atoms') = Len(atoms) + 1 /\ \A i \in 1..Len(atoms) : atoms'[i] = atoms[i]
      <3>1. PICK T : T = {a} \cup Atoms
        OBVIOUS
      <3>2. atoms \in Seq(T) /\ a \in T
        BY <1>1, <3>1
      <3> QED BY <2>1, <3>2, AppendProperties
    <2>4. AnchorAt \in 1..Len(atoms') /\ IsMessage(atoms'[AnchorAt])
      BY <1>2, <2>2, <2>3
    <2>5. PICK i \in 1..Len(atoms') : i = AnchorAt
      BY <2>4
    <2> QED BY <1>1, <2>4, <2>5, AnchorStays
  <1>5. ASSUME NEW size \in Sizes, ToolOutcome(size) PROVE AnchorAt' # 0
    <2> DEFINE o == Last(atoms)
               a == [o EXCEPT !.items = Append(o.items, event_seq'), !.sizes = Append(o.sizes, size)]
    <2>1. atoms' = [atoms EXCEPT ![Len(atoms)] = a] /\ pc = "tools"
      BY <1>5 DEF ToolOutcome, AppendOutcome
    <2> HIDE DEF a
    <2>2. AnchorAt \in 1..Len(atoms) /\ IsMessage(atoms[AnchorAt])
      BY <1>1, <1>2, <2>1, AnchorIsLast DEF AnchorInv
    <2>3. IsStep(atoms[Len(atoms)])
      BY <2>1 DEF ContextInv, ConversationInv
    <2>4. AnchorAt # Len(atoms)
      BY <2>2, <2>3 DEF IsStep, IsMessage
    <2>5. DOMAIN atoms' = DOMAIN atoms /\ atoms'[AnchorAt] = atoms[AnchorAt]
      BY <1>1, <2>1, <2>2, <2>4
    <2>6. AnchorAt \in 1..Len(atoms')
      BY <1>1, <2>2, <2>5
    <2>7. PICK i \in 1..Len(atoms') : i = AnchorAt
      BY <2>6
    <2> QED BY <1>1, <2>2, <2>5, <2>7, AnchorStays
  <1>6. CASE atoms' = atoms /\ (pc # "idle" \/ pc' = pc)
    <2>1. AnchorAt' = AnchorAt
      BY <1>6 DEF AnchorAt
    <2> QED BY <1>6, <2>1 DEF AnchorInv
  <1>7. CASE Condense \/ ForeignEvent \/ UNCHANGED contextVars
    BY <1>6, <1>7 DEF Condense, Prepare, SendCondenser, CondenserFails, CondenserUnusable,
         CondenserStale, CondenserSucceeds, ForeignEvent, InvalidCompletion, AppendDerived,
         contextVars, events
  <1>8. CASE \/ \E n \in 1..MaxCalls, reasoning \in BOOLEAN : ToolCalls(n, reasoning)
             \/ FinalMessage \/ TerminateContextBudget
    <2>1. \E derived, atom : AppendAtom(derived, atom) /\ pc # "idle"
      BY <1>8 DEF ToolCalls, FinalMessage, TerminateContextBudget
    <2> QED BY <1>4, <2>1
  <1> QED BY <1>3, <1>5, <1>7, <1>8 DEF ContextNext

LEMMA AnchorIsThere == ContextSpec => []AnchorInv
  <1>1. ContextInit => AnchorInv
    BY DEF ContextInit, AnchorInv
  <1> QED BY <1>1, AnchorInvStep, ContextIsInv, PTL DEF ContextSpec

\* The messages before the task are those of the atoms before it.
LEMMA SplitIs ==
    ASSUME NEW A, NEW B, Whole(A), Whole(B), NEW anchor \in Nat,
           \A n \in 1..Len(A) : Last(A[n].items) < anchor /\ MessageCount(A[n]) = Len(A[n].items),
           \A n \in 1..Len(B) : ~(Last(B[n].items) < anchor)
    PROVE  SumOf([n \in DOMAIN (A \o B) |->
                    IF Last((A \o B)[n].items) < anchor THEN MessageCount((A \o B)[n]) ELSE 0])
             = Len(Items(A))
  <1> DEFINE s == A \o B
             q == [n \in DOMAIN s |-> IF Last(s[n].items) < anchor THEN MessageCount(s[n]) ELSE 0]
             N == Len(A) + Len(B)
             f == [n \in 0..N |-> IF n <= Len(A) THEN Count(A, n) ELSE Count(A, Len(A))]
  <1>1. /\ A \in Seq(Atoms) /\ B \in Seq(Atoms) /\ Len(A) \in Nat /\ Len(B) \in Nat
        /\ \A n \in 0..Len(A) : Count(A, n) \in Nat
        /\ \A n \in 1..Len(A) : Count(A, n) = Count(A, n - 1) + Len(A[n].items)
        /\ Count(A, 0) = 0 /\ Count(A, Len(A)) = Len(Items(A))
    BY CountsGrow DEF Whole
  <1>2. /\ s \in Seq(Atoms) /\ Len(s) = N /\ DOMAIN s = 1..N
        /\ \A n \in 1..Len(A) : s[n] = A[n]
        /\ \A n \in 1..Len(B) : s[Len(A) + n] = B[n]
    BY <1>1
  <1>3. N \in Nat /\ 0 \in 0..Len(A) /\ Len(A) \in 0..Len(A)
    BY <1>1
  <1> HIDE DEF s, N
  <1>4. \A n \in 1..N : n \in 1..Len(A) \/ (n > Len(A) /\ \E m \in 1..Len(B) : n = Len(A) + m)
    <2> TAKE n \in 1..N
    <2> DEFINE m == n - Len(A)
    <2>1. n > Len(A) => m \in 1..Len(B) /\ n = Len(A) + m
      BY <1>1 DEF N
    <2>2. n > Len(A) \/ n \in 1..Len(A)
      BY <1>1, <1>3
    <2> HIDE DEF m
    <2> QED BY <2>1, <2>2
  <1>5. ASSUME NEW n \in 1..N PROVE q[n] = IF n <= Len(A) THEN Len(A[n].items) ELSE 0
    <2>1. CASE n \in 1..Len(A)
      BY <1>1, <1>2, <2>1
    <2>2. ASSUME n > Len(A), NEW m \in 1..Len(B), n = Len(A) + m
          PROVE  q[n] = 0 /\ ~(n <= Len(A))
      <3>1. s[n] = B[m]
        BY <1>2, <2>2
      <3> QED BY <1>1, <1>2, <1>3, <2>2, <3>1
    <2> QED BY <1>1, <1>4, <2>1, <2>2
  <1>6. DOMAIN q = 1..N
    BY <1>2
  <1> HIDE DEF q
  <1>7. f \in [0..N -> Nat] /\ f[0] = 0 /\ f[N] = Len(Items(A))
    <2>1. \A n \in 0..N : n <= Len(A) => n \in 0..Len(A)
      BY <1>1, <1>3
    <2>2. f \in [0..N -> Nat]
      BY <1>1, <1>3, <2>1
    <2>3. 0 \in 0..N /\ N \in 0..N /\ 0 <= Len(A) /\ (N <= Len(A) => N = Len(A))
      BY <1>1, <1>3 DEF N
    <2> QED BY <1>1, <2>2, <2>3
  <1>8. ASSUME NEW n \in 1..N PROVE f[n] = f[n - 1] + q[n]
    <2>1. n \in 0..N /\ n - 1 \in 0..N
      BY <1>3
    <2>2. CASE n <= Len(A)
      <3>1. n \in 1..Len(A) /\ n - 1 <= Len(A)
        BY <1>1, <1>3, <2>2
      <3> QED BY <1>1, <1>5, <2>1, <2>2, <3>1
    <2>3. CASE ~(n <= Len(A))
      <3>1. n - 1 <= Len(A) => n - 1 = Len(A)
        BY <1>1, <1>3, <2>3
      <3>2. f[n - 1] = Count(A, Len(A)) /\ f[n] = Count(A, Len(A)) /\ q[n] = 0
        BY <1>5, <2>1, <2>3, <3>1
      <3> QED BY <1>1, <1>3, <3>2
    <2> QED BY <2>2, <2>3
  <1>9. Len(q) = N
    <2>1. q = [n \in 1..N |-> q[n]]
      BY <1>2 DEF q
    <2> QED BY <1>3, <1>6, <2>1
  <1> HIDE DEF f
  <1>10. SumOf(q) = f[N]
    BY <1>3, <1>7, <1>8, <1>9, SumValue, SMTT(40)
  <1> QED BY <1>7, <1>10 DEF q, s

-----------------------------------------------------------------------------
(* The history that a request renders *)

LEMMA TypedInContext == ContextInv => ContextTypeOK
  <1> SUFFICES ASSUME ContextInv PROVE ContextTypeOK
    OBVIOUS
  <1>1. ConversationInv /\ ChainInv /\ PlanInv /\ LocalsInv
    BY DEF ContextInv
  <1>2. atoms \in Seq(Atoms) /\ event_seq \in Nat /\ condensed \in Seq(Summaries)
    BY <1>1 DEF ConversationInv, ChainInv
  <1>3. (plan # NoPlan) = (pc \in {"send", "inflight"})
    BY <1>1 DEF PlanInv
  <1>4. /\ pc \in {"idle", "build", "send", "inflight", "ready", "exceeded", "tools"}
        /\ foreign \in 0..MaxForeign
    BY <1>1 DEF LocalsInv
  <1>5. l \in Locals
    BY <1>1, LocalsAre
  <1>6. /\ l.calls \in 0..MAX_CONDENSER_CALLS /\ l.soft_calls \in 0..MAX_SOFT_CONDENSER_CALLS
        /\ l.plan_max_atoms \in 0..Len(atoms) /\ l.consecutive_invalid \in 0..1
    BY <1>5 DEF Locals
  <1> QED BY <1>2, <1>3, <1>4, <1>6 DEF ContextTypeOK, Atoms, Summaries

LEMMA BoundedInContext == ContextInv => PreparationIsBounded
  <1> SUFFICES ASSUME ContextInv PROVE PreparationIsBounded
    OBVIOUS
  <1>1. LocalsInv /\ l \in Locals /\ MAX_CONDENSER_CALLS \in Nat
    BY LocalsAre, BoundsAreNat DEF ContextInv
  <1>2. l.calls \in 0..MAX_CONDENSER_CALLS /\ l.passes \in Nat
    BY <1>1 DEF Locals
  <1>3. l.passes <= l.calls + One(l.suppress_soft) + One(pc \notin {"build", "inflight"})
    BY <1>1 DEF LocalsInv
  <1>4. One(l.suppress_soft) \in 0..1 /\ One(pc \notin {"build", "inflight"}) \in 0..1
    BY DEF One
  <1> QED BY <1>1, <1>2, <1>3, <1>4 DEF PreparationIsBounded

\* No two atoms share an event.
LEMMA ItemsDiffer ==
    ASSUME ConversationInv, NEW m \in 1..Len(atoms), NEW n \in 1..Len(atoms),
           NEW i \in 1..Len(atoms[m].items), NEW j \in 1..Len(atoms[n].items)
    PROVE  /\ atoms[m].items[i] \in Nat /\ atoms[n].items[j] \in Nat
           /\ m < n => atoms[m].items[i] < atoms[n].items[j]
           /\ atoms[m].items[i] = atoms[n].items[j] => m = n
  <1>1. atoms \in Seq(Atoms) /\ Len(atoms) \in Nat
    BY DEF ConversationInv
  <1>2. \A k \in 1..Len(atoms) : atoms[k].items \in Seq(Nat)
    BY AtomIs
  <1>3. i \in DOMAIN atoms[m].items /\ j \in DOMAIN atoms[n].items
    BY <1>2
  <1>4. atoms[m].items[i] \in Nat /\ atoms[n].items[j] \in Nat
    <2>1. atoms[m].items \in Seq(Nat) /\ atoms[n].items \in Seq(Nat)
      BY <1>2
    <2>2. \A q \in Seq(Nat) : \A x \in 1..Len(q) : q[x] \in Nat
      OBVIOUS
    <2> QED BY <2>1, <2>2, Zenon
  <1>5. (m < n => atoms[m].items[i] < atoms[n].items[j])
        /\ (n < m => atoms[n].items[j] < atoms[m].items[i])
    <2>1. m \in DOMAIN atoms /\ n \in DOMAIN atoms
      BY <1>1
    <2> QED BY <1>3, <2>1, Zenon DEF ConversationInv
  <1> QED BY <1>1, <1>4, <1>5

\* The place after which the history goes on behind the task.
Behind(k) == IF AnchorAt <= k THEN k ELSE AnchorAt

\* The history after k leaves out the task.
LEMMA RenderedIs ==
    ASSUME ConversationInv, AnchorAt # 0, NEW k \in 0..Len(atoms)
    PROVE  Rendered(SubSeq(atoms, k + 1, Len(atoms)))
             = SubSeq(atoms, k + 1, AnchorAt - 1) \o SubSeq(atoms, Behind(k) + 1, Len(atoms))
  <1> DEFINE L == Len(atoms)
             a == AnchorAt
             u == SubSeq(atoms, k + 1, L)
             anchor == {n \in DOMAIN u : u[n].items[1] = Anchor}
             A == SubSeq(atoms, k + 1, a - 1)
             B == SubSeq(atoms, Behind(k) + 1, L)
  <1>1. atoms \in Seq(Atoms) /\ L \in Nat /\ a \in 1..L /\ Whole(atoms)
    BY AnchorIsLast, ConversationIsWhole DEF ConversationInv
  <1>2. /\ u \in Seq(Atoms) /\ Len(u) = L - k
        /\ \A i \in 1..Len(u) : u[i] = atoms[k + i]
        /\ \A j \in 0..Len(u) : SubSeq(u, 1, j) = SubSeq(atoms, k + 1, k + j)
    <2>1. k + 1 \in 1..(L + 1) /\ L \in 0..L
      BY <1>1
    <2>2. /\ u \in Seq(Atoms) /\ Len(u) = IF k + 1 <= L THEN L - (k + 1) + 1 ELSE 0
          /\ \A i \in 1..(L - (k + 1) + 1) : u[i] = atoms[(k + 1) + i - 1]
          /\ \A j \in 0..Len(u) : SubSeq(u, 1, j) = SubSeq(atoms, k + 1, (k + 1) + j - 1)
      BY <1>1, <2>1, SliceOfAtoms
    <2> HIDE DEF u
    <2>3. Len(u) = L - k
      BY <1>1, <2>2
    <2>4. \A i \in 1..Len(u) : u[i] = atoms[k + i]
      <3> TAKE i \in 1..Len(u)
      <3>1. i \in 1..(L - (k + 1) + 1) /\ (k + 1) + i - 1 = k + i
        BY <1>1, <2>3
      <3> QED BY <2>2, <3>1
    <2>5. \A j \in 0..Len(u) : (k + 1) + j - 1 = k + j
      BY <1>1, <2>3
    <2> QED BY <2>2, <2>3, <2>4, <2>5
  <1> HIDE DEF u
  <1>3. \A i \in 1..Len(u) : u[i].items[1] = Anchor <=> k + i = a
    <2> TAKE i \in 1..Len(u)
    <2>1. k + i \in 1..L
      BY <1>1, <1>2
    <2>2. u[i] = atoms[k + i] /\ Anchor = atoms[a].items[1]
      BY <1>1, <1>2 DEF Anchor
    <2>3. atoms[k + i].items[1] = atoms[a].items[1] => k + i = a
      BY <1>1, <2>1, AtomsDiffer
    <2> QED BY <2>2, <2>3
  <1>4. Rendered(u) = IF anchor = {} THEN u ELSE RemoveAt(u, CHOOSE n \in anchor : TRUE)
    BY DEF Rendered
  <1>5. DOMAIN u = 1..Len(u)
    BY <1>2
  <1>6. CASE a <= k
    <2>1. anchor = {}
      BY <1>1, <1>2, <1>3, <1>5, <1>6
    <2>2. A = <<>>
      BY <1>1, <1>6, SubSeqEmpty
    <2>3. B = u
      BY <1>6 DEF u, Behind
    <2>4. <<>> \o u = u
      BY <1>2, ConcatEmptySeq
    <2> QED BY <1>4, <2>1, <2>2, <2>3, <2>4 DEF u
  <1>7. CASE ~(a <= k)
    <2> DEFINE d == a - k
    <2>0. d \in 1..Len(u) /\ k + d = a /\ Len(u) \in Nat
      BY <1>1, <1>2, <1>7
    <2>1. anchor = {d}
      <3>1. \A i \in 1..Len(u) : k + i = a => i = d
        BY <1>1
      <3> QED BY <1>3, <1>5, <2>0, <3>1
    <2>2. (CHOOSE n \in anchor : TRUE) = d
      BY <2>1
    <2>3. Rendered(u) = SubSeq(u, 1, d - 1) \o SubSeq(u, d + 1, Len(u))
      BY <1>4, <2>1, <2>2 DEF RemoveAt
    <2>4. SubSeq(u, 1, d - 1) = A
      <3>1. d - 1 \in 0..Len(u) /\ k + (d - 1) = a - 1
        BY <1>1, <2>0
      <3> QED BY <1>2, <3>1
    <2>5. SubSeq(u, d + 1, Len(u)) = B
      <3> DEFINE v == SubSeq(u, d + 1, Len(u))
      <3>1. d + 1 \in 1..(Len(u) + 1) /\ Len(u) \in 0..Len(u)
        BY <2>0
      <3>2. /\ v \in Seq(Atoms) /\ Len(v) = (IF d + 1 <= Len(u) THEN Len(u) - (d + 1) + 1 ELSE 0)
            /\ \A i \in 1..(Len(u) - (d + 1) + 1) : v[i] = u[(d + 1) + i - 1]
        BY <1>2, <3>1, SliceOfAtoms
      <3>3. B = SubSeq(atoms, a + 1, L)
        BY <1>7 DEF Behind
      <3>4. a + 1 \in 1..(L + 1) /\ L \in 0..L
        BY <1>1
      <3> DEFINE w == SubSeq(atoms, a + 1, L)
      <3>5. /\ w \in Seq(Atoms) /\ Len(w) = (IF a + 1 <= L THEN L - (a + 1) + 1 ELSE 0)
            /\ \A i \in 1..(L - (a + 1) + 1) : w[i] = atoms[(a + 1) + i - 1]
        BY <1>1, <3>4, SliceOfAtoms
      <3> HIDE DEF v, w, d
      <3>6. Len(v) = L - a /\ Len(w) = L - a
        <4> DEFINE N == Len(u)
        <4>1. N = L - k /\ L \in Nat /\ a \in 1..L /\ k \in 0..L /\ k + d = a /\ d \in 1..N
          BY <1>1, <1>2, <2>0
        <4> HIDE DEF N
        <4>2. (IF d + 1 <= N THEN N - (d + 1) + 1 ELSE 0) = L - a
          BY ONLY <4>1
        <4>3. (IF a + 1 <= L THEN L - (a + 1) + 1 ELSE 0) = L - a
          BY ONLY <4>1
        <4> QED BY <3>2, <3>5, <4>2, <4>3 DEF N
      <3>7. \A i \in 1..(L - a) : v[i] = w[i]
        <4> TAKE i \in 1..(L - a)
        <4>1. i \in 1..(Len(u) - (d + 1) + 1) /\ (d + 1) + i - 1 = d + i /\ d + i \in 1..Len(u)
          BY <1>1, <1>2, <2>0
        <4>2. i \in 1..(L - (a + 1) + 1) /\ (a + 1) + i - 1 = a + i /\ k + (d + i) = a + i
          BY <1>1, <1>2, <2>0
        <4>3. v[i] = u[d + i] /\ u[d + i] = atoms[k + (d + i)]
          BY <1>2, <3>2, <4>1
        <4>4. w[i] = atoms[a + i]
          BY <3>5, <4>2
        <4> QED BY <4>2, <4>3, <4>4
      <3>8. v = w
        BY <3>2, <3>5, <3>6, <3>7, SeqEqual
      <3> QED BY <3>3, <3>8 DEF v, w
    <2> QED BY <2>3, <2>4, <2>5 DEF u
  <1> QED BY <1>6, <1>7

\* The parts of a sequence make it up.
LEMMA PiecesMakeWhole ==
    ASSUME NEW T, NEW s \in Seq(T), NEW m \in 0..Len(s), NEW n \in m..Len(s)
    PROVE  SubSeq(s, 1, m) \o SubSeq(s, m + 1, n) = SubSeq(s, 1, n)
  <1>1. 1 \in 1..(Len(s) + 1) /\ m \in (1 - 1)..Len(s)
    OBVIOUS
  <1> QED BY <1>1, ConcatAdjacentSubSeq

\* The split leaves the items before the task in front of it.
LEMMA HistoryIsSplit ==
    ASSUME ConversationInv, AnchorAt # 0, NEW k \in 0..Len(atoms)
    PROVE  SplitHistory(SubSeq(atoms, k + 1, Len(atoms)))
             = << Items(SubSeq(atoms, k + 1, AnchorAt - 1)),
                  Items(SubSeq(atoms, Behind(k) + 1, Len(atoms))) >>
  <1> DEFINE L == Len(atoms)
             a == AnchorAt
             x == Anchor
             u == SubSeq(atoms, k + 1, L)
             A == SubSeq(atoms, k + 1, a - 1)
             B == SubSeq(atoms, Behind(k) + 1, L)
             s == A \o B
             pre == SumOf([n \in DOMAIN s |-> IF Last(s[n].items) < x THEN MessageCount(s[n]) ELSE 0])
  <1>1. /\ Whole(atoms) /\ atoms \in Seq(Atoms) /\ L \in Nat /\ a \in 1..L
        /\ a - 1 \in 0..L /\ k + 1 \in 1..(L + 1) /\ L \in 0..L
        /\ Behind(k) \in 0..L /\ Behind(k) + 1 \in 1..(L + 1) /\ a <= Behind(k)
    BY AnchorIsLast, ConversationIsWhole DEF Behind, ConversationInv
  <1>2. Whole(A) /\ \A i \in 1..Len(A) : A[i] = atoms[(k + 1) + i - 1]
                                          /\ (k + 1) + i - 1 \in (k + 1)..(a - 1) /\ (k + 1) + i - 1 \in 1..L
    BY <1>1, WholePart
  <1>3. Whole(B) /\ \A i \in 1..Len(B) : B[i] = atoms[(Behind(k) + 1) + i - 1]
                                          /\ (Behind(k) + 1) + i - 1 \in (Behind(k) + 1)..L
                                          /\ (Behind(k) + 1) + i - 1 \in 1..L
    BY <1>1, WholePart
  <1>4. x = atoms[a].items[1] /\ 1 \in 1..Len(atoms[a].items) /\ x \in Nat /\ x # NoEvent
    <2>1. /\ Len(atoms[a].items) \in Nat \ {0}
          /\ \A j \in 1..Len(atoms[a].items) : atoms[a].items[j] \in 1..event_seq
      BY <1>1, AtomIs
    <2>2. 1 \in 1..Len(atoms[a].items) /\ x = atoms[a].items[1]
      BY <1>1, <2>1 DEF Anchor
    <2>3. x \in 1..event_seq /\ event_seq \in Nat
      BY <2>1, <2>2 DEF ConversationInv
    <2> HIDE DEF x
    <2> QED BY <2>2, <2>3 DEF NoEvent
  <1> HIDE DEF x, A, B
  <1>5. ASSUME NEW i \in 1..L
        PROVE  /\ Last(atoms[i].items) = atoms[i].items[Len(atoms[i].items)]
               /\ Len(atoms[i].items) \in 1..Len(atoms[i].items)
               /\ MessageCount(atoms[i]) = Len(atoms[i].items)
    <2>1. /\ Len(atoms[i].items) \in Nat \ {0}
          /\ (~IsStep(atoms[i]) => Len(atoms[i].items) = 1)
      BY AtomIs
    <2>2. MessageCount(atoms[i]) = Len(atoms[i].items)
      BY <2>1 DEF MessageCount, IsStep
    <2>3. Last(atoms[i].items) = atoms[i].items[Len(atoms[i].items)]
      BY DEF Last
    <2>4. \A j \in Nat \ {0} : j \in 1..j
      OBVIOUS
    <2> QED BY <2>1, <2>2, <2>3, <2>4
  <1>6. \A i \in 1..L : (i < a => Last(atoms[i].items) < x) /\ (a < i => ~(Last(atoms[i].items) < x))
    <2> TAKE i \in 1..L
    <2> DEFINE j == Len(atoms[i].items)
    <2>1. j \in 1..Len(atoms[i].items) /\ Last(atoms[i].items) = atoms[i].items[j]
      BY <1>5
    <2>2. atoms[i].items[j] \in Nat /\ x \in Nat
          /\ (i < a => atoms[i].items[j] < x) /\ (a < i => x < atoms[i].items[j])
      BY <1>1, <1>4, <2>1, ItemsDiffer
    <2> HIDE DEF j
    <2> QED BY <2>1, <2>2
  <1>7. \A n \in 1..Len(A) : Last(A[n].items) < x /\ MessageCount(A[n]) = Len(A[n].items)
    <2> TAKE n \in 1..Len(A)
    <2> DEFINE i == (k + 1) + n - 1
    <2>1. A[n] = atoms[i] /\ i \in 1..L /\ i \in (k + 1)..(a - 1)
      BY <1>2
    <2>2. i < a
      BY <1>1, <2>1
    <2> HIDE DEF i
    <2> QED BY <1>5, <1>6, <2>1, <2>2
  <1>8. \A n \in 1..Len(B) : ~(Last(B[n].items) < x)
    <2> TAKE n \in 1..Len(B)
    <2> DEFINE i == (Behind(k) + 1) + n - 1
    <2>1. B[n] = atoms[i] /\ i \in 1..L /\ i \in (Behind(k) + 1)..L
      BY <1>3
    <2>2. a < i
      BY <1>1, <2>1
    <2> HIDE DEF i
    <2> QED BY <1>6, <2>1, <2>2
  <1>9. pre = Len(Items(A))
    BY <1>2, <1>3, <1>4, <1>7, <1>8, SplitIs, ZenonT(60)
  <1>10. Rendered(u) = s
    BY RenderedIs DEF A, B
  <1>11. Items(s) = Items(A) \o Items(B) /\ Items(A) \in Seq(Nat) /\ Items(B) \in Seq(Nat)
    BY <1>2, <1>3, ItemsConcat, ItemsStep DEF Whole
  <1> HIDE DEF s, pre
  <1>12. SplitHistory(u) = <<SubSeq(Items(s), 1, pre), SubSeq(Items(s), pre + 1, Len(Items(s)))>>
    <2>1. Rendered(u) = s /\ Anchor = x /\ x # NoEvent
      BY <1>4, <1>10 DEF x
    <2> HIDE DEF u
    <2> QED BY <2>1 DEF SplitHistory, pre
  <1> DEFINE y == Items(A)
             z == Items(B)
             q == y \o z
  <1>13. SubSeq(q, 1, Len(y)) = y /\ SubSeq(q, Len(y) + 1, Len(q)) = z
    <2>1. y \in Seq(Nat) /\ z \in Seq(Nat) /\ Len(y) \in Nat /\ Len(z) \in Nat
      BY <1>11
    <2> HIDE DEF y, z
    <2>2. q \in Seq(Nat) /\ Len(q) = Len(y) + Len(z)
      BY <2>1
    <2>3. /\ SubSeq((y \o z) \o <<>>, Len(y) + 1, Len(y) + Len(z)) = z
          /\ SubSeq((<<>> \o y) \o z, Len(<<>>) + 1, Len(<<>>) + Len(y)) = y
      <3>1. <<>> \in Seq(Nat)
        OBVIOUS
      <3> QED BY <2>1, <3>1, SliceOfConcat
    <2>4. (y \o z) \o <<>> = q /\ <<>> \o y = y /\ Len(<<>>) = 0
      BY <2>1, <2>2, ConcatEmptySeq
    <2>5. Len(<<>>) + 1 = 1 /\ Len(<<>>) + Len(y) = Len(y)
      BY <2>1
    <2> QED BY <2>2, <2>3, <2>4, <2>5
  <1> HIDE DEF y, z
  <1>14. SplitHistory(u) = <<y, z>>
    BY <1>9, <1>11, <1>12, <1>13 DEF y, z
  <1> QED BY <1>14 DEF u, A, B, y, z

\* The items of the first k atoms are theirs alone.
LEMMA OwnItems ==
    ASSUME ConversationInv, NEW k \in 0..Len(atoms), NEW n \in 1..Len(atoms)
    PROVE  atoms[n].items[1] \in ToSet(Items(SubSeq(atoms, 1, k))) <=> n <= k
  <1> DEFINE t == SubSeq(atoms, 1, k)
             x == atoms[n].items[1]
  <1>1. Whole(atoms) /\ Len(atoms) \in Nat /\ 1 \in 1..(Len(atoms) + 1)
    BY ConversationIsWhole DEF Whole
  <1>2. /\ Whole(t) /\ Len(t) = (IF 1 <= k THEN k - 1 + 1 ELSE 0)
        /\ \A i \in 1..Len(t) : t[i] = atoms[1 + i - 1]
    BY <1>1, WholePart
  <1> HIDE DEF t, x
  <1>3. x \in ToSet(Items(t)) <=> \E m \in 1..Len(t) : \E i \in 1..Len(t[m].items) : x = t[m].items[i]
    <2>1. Whole(t)
      BY <1>2
    <2> QED BY <2>1, ItemOf
  <1>4. Len(t) = k /\ \A i \in 1..k : t[i] = atoms[i]
    <2>1. Len(t) = k
      BY <1>2
    <2>2. \A i \in 1..k : 1 + i - 1 = i
      OBVIOUS
    <2> QED BY <1>2, <2>1, <2>2
  <1>5. 1 \in 1..Len(atoms[n].items)
    <2>1. Len(atoms[n].items) \in Nat \ {0}
      BY AtomIs
    <2> QED BY <2>1
  <1>6. ASSUME n <= k PROVE x \in ToSet(Items(t))
    <2>1. n \in 1..Len(t) /\ t[n] = atoms[n]
      BY <1>4, <1>6
    <2> QED BY <1>3, <1>5, <2>1 DEF x
  <1>7. ASSUME x \in ToSet(Items(t)) PROVE n <= k
    <2>1. PICK m \in 1..Len(t) : \E i \in 1..Len(t[m].items) : x = t[m].items[i]
      BY <1>3, <1>7
    <2>2. m \in 1..Len(atoms) /\ m <= k /\ t[m] = atoms[m]
      BY <1>1, <1>4, <2>1
    <2>3. PICK i \in 1..Len(atoms[m].items) : x = atoms[m].items[i]
      BY <2>1, <2>2
    <2>4. n = m
      BY <1>5, <2>2, <2>3, ItemsDiffer DEF x
    <2> QED BY <2>2, <2>4
  <1> QED BY <1>6, <1>7 DEF t, x

\* What a request that tells everything is made of.
LEMMA TailIs ==
    ASSUME ConversationInv, ChainInv, AnchorAt # 0
    PROVE  \E k \in 0..Len(atoms) :
              /\ Tip = Count(atoms, k) /\ Report.summary = Len(condensed)
              /\ Report.uncovered = SubSeq(atoms, k + 1, Len(atoms))
              /\ Covered(Report.summary) = Items(SubSeq(atoms, 1, k))
              /\ Messages(Report) =
                    [covered |-> Items(SubSeq(atoms, 1, k)),
                     pre |-> Items(SubSeq(atoms, k + 1, AnchorAt - 1)), anchor |-> Anchor,
                     post |-> Items(SubSeq(atoms, Behind(k) + 1, Len(atoms)))]
  <1>1. PICK k \in 0..Settled : /\ Tip = Count(atoms, k)
                                /\ Report.uncovered = SubSeq(atoms, k + 1, Len(atoms))
    BY ReportIs
  <1>2. Report.summary = Len(condensed)
    BY ReportIs
  <1>3. Whole(atoms) /\ Len(atoms) \in Nat /\ Settled \in 0..Len(atoms)
    BY ConversationIsWhole, CountsGrow
  <1>4. k \in 0..Len(atoms)
    BY <1>1, <1>3
  <1>5. Covered(Len(condensed)) = Items(SubSeq(atoms, 1, k))
    <2>1. 0 \in 0..Len(atoms) /\ 0 <= k /\ Count(atoms, 0) = 0
      BY <1>3, <1>4, CountsGrow
    <2>2. Items(SubSeq(atoms, 0 + 1, k)) = SubSeq(Items(atoms), Count(atoms, 0) + 1, Count(atoms, k))
      BY <1>3, <1>4, <2>1, CountsGrow
    <2>3. Covered(Len(condensed)) = SubSeq(Items(atoms), 1, Tip)
      BY LatestIsInUse
    <2> QED BY <1>1, <2>1, <2>2, <2>3
  <1>6. SplitHistory(SubSeq(atoms, k + 1, Len(atoms)))
          = << Items(SubSeq(atoms, k + 1, AnchorAt - 1)),
               Items(SubSeq(atoms, Behind(k) + 1, Len(atoms))) >>
    BY <1>4, HistoryIsSplit
  <1>7. Messages(Report) =
                    [covered |-> Items(SubSeq(atoms, 1, k)),
                     pre |-> Items(SubSeq(atoms, k + 1, AnchorAt - 1)), anchor |-> Anchor,
                     post |-> Items(SubSeq(atoms, Behind(k) + 1, Len(atoms)))]
    BY <1>1, <1>2, <1>5, <1>6 DEF Messages
  <1> QED BY <1>1, <1>2, <1>4, <1>5, <1>7

LEMMA ToldInContext == ContextInv /\ AnchorInv => RequestTellsEverything
  <1> SUFFICES ASSUME ContextInv, AnchorInv, pc = "ready"
               PROVE  LET task == IF request.anchor \in ToSet(request.covered) THEN <<>> ELSE <<request.anchor>>
                      IN /\ request.covered \o request.pre \o task \o request.post = Items(atoms)
                         /\ Len(request.covered) \in {0} \cup Frontiers
                         /\ MandatoryAt # 0 =>
                              atoms[MandatoryAt].items[1] \notin ToSet(request.covered)
    BY DEF RequestTellsEverything
  <1> DEFINE L == Len(atoms)
             a == AnchorAt
  <1>1. ConversationInv /\ ChainInv /\ a # 0 /\ request = Messages(Report)
    BY DEF ContextInv, PlanInv, AnchorInv
  <1>2. PICK k \in 0..L :
              /\ Tip = Count(atoms, k)
              /\ Messages(Report) =
                    [covered |-> Items(SubSeq(atoms, 1, k)),
                     pre |-> Items(SubSeq(atoms, k + 1, a - 1)), anchor |-> Anchor,
                     post |-> Items(SubSeq(atoms, Behind(k) + 1, L))]
    BY <1>1, TailIs
  <1> DEFINE c == Items(SubSeq(atoms, 1, k))
             y == Items(SubSeq(atoms, k + 1, a - 1))
             z == Items(SubSeq(atoms, Behind(k) + 1, L))
             q == Items(atoms)
             C(n) == Count(atoms, n)
  <1>3. request.covered = c /\ request.pre = y /\ request.anchor = Anchor /\ request.post = z
    BY <1>1, <1>2
  <1>4. /\ Whole(atoms) /\ L \in Nat /\ atoms \in Seq(Atoms) /\ a \in 1..L /\ Anchor = atoms[a].items[1]
        /\ IsMessage(atoms[a])
    BY <1>1, AnchorIsLast, ConversationIsWhole DEF Whole, Anchor
  <1>5. /\ q \in Seq(Nat) /\ Len(q) \in Nat /\ C(0) = 0 /\ C(L) = Len(q)
        /\ \A n \in 0..L : C(n) \in Nat /\ C(n) <= Len(q)
        /\ \A n \in 1..L : C(n) = C(n - 1) + Len(atoms[n].items)
        /\ \A m, n \in 0..L : m < n => C(m) < C(n)
        /\ \A m, n \in 0..L : m <= n => Items(SubSeq(atoms, m + 1, n)) = SubSeq(q, C(m) + 1, C(n))
    BY <1>4, CountsGrow
  <1>6. c = SubSeq(q, 1, C(k)) /\ Len(c) = C(k)
    <2>1. 0 \in 0..L /\ 0 <= k /\ 0 + 1 = 1
      BY <1>4
    <2>2. c = SubSeq(q, 1, C(k))
      BY <1>5, <2>1
    <2> QED BY <2>2 DEF Count
  <1>7. atoms[a].items = <<Anchor>>
    <2>1. ~IsStep(atoms[a])
      BY <1>4 DEF IsStep, IsMessage
    <2>2. atoms[a].items \in Seq(Nat) /\ Len(atoms[a].items) = 1
      BY <1>1, <1>4, <2>1, AtomIs
    <2> QED BY <1>4, <2>2
  <1>8. Anchor \in ToSet(c) <=> a <= k
    BY <1>1, <1>4, OwnItems
  <1>9. c \o y \o (IF Anchor \in ToSet(c) THEN <<>> ELSE <<Anchor>>) \o z = q
    <2>1. CASE a <= k
      <3>1. y = <<>>
        <4>1. SubSeq(atoms, k + 1, a - 1) = <<>>
          BY <1>4, <2>1, SubSeqEmpty
        <4>2. Items(<<>>) = <<>>
          BY <1>4, ItemsStep
        <4> QED BY <4>1, <4>2
      <3>2. z = SubSeq(q, C(k) + 1, C(L))
        <4>1. Behind(k) = k /\ L \in 0..L /\ k <= L
          BY <1>4, <2>1 DEF Behind
        <4> QED BY <1>5, <4>1
      <3>3. SubSeq(q, 1, C(k)) \o SubSeq(q, C(k) + 1, C(L)) = SubSeq(q, 1, C(L))
        <4>1. C(k) \in 0..Len(q) /\ C(L) \in C(k)..Len(q)
          BY <1>5
        <4> QED BY <1>5, <4>1, PiecesMakeWhole
      <3>4. SubSeq(q, 1, C(L)) = q
        BY <1>5, SubSeqFull
      <3>5. c \in Seq(Nat)
        BY <1>4, ItemsStep
      <3>6. c \o <<>> \o <<>> \o z = c \o z
        BY <3>5, ConcatEmptySeq
      <3> QED BY <1>6, <1>8, <2>1, <3>1, <3>2, <3>3, <3>4, <3>6
    <2>2. CASE ~(a <= k)
      <3>1. k \in 0..L /\ a - 1 \in 0..L /\ k <= a - 1 /\ a \in 0..L /\ a - 1 < a /\ L \in 0..L /\ a <= L
            /\ (a - 1) + 1 = a /\ (a - 1) <= a
        BY <1>4, <2>2
      <3>2. y = SubSeq(q, C(k) + 1, C(a - 1))
        BY <1>5, <3>1
      <3>3. SubSeq(q, C(a - 1) + 1, C(a)) = <<Anchor>>
        <4>1. Items(SubSeq(atoms, (a - 1) + 1, a)) = SubSeq(q, C(a - 1) + 1, C(a))
          BY <1>5, <3>1
        <4>2. C(a) = C(a - 1) + 1 /\ C(a - 1) \in Nat
          BY <1>4, <1>5, <1>7, <3>1
        <4>3. q[C(a - 1) + 1] = Anchor /\ C(a - 1) + 1 \in 1..Len(q)
          <5>1. 1 \in 1..Len(atoms[a].items) /\ atoms[a].items[1] = Anchor
            BY <1>7
          <5> QED BY <1>4, <5>1, ItemPlaces
        <4>4. ASSUME NEW s \in Seq(Nat), NEW j \in 1..Len(s) PROVE SubSeq(s, j, j) = <<s[j]>>
          <5>1. j \in j..Len(s) /\ j \in Nat /\ j + 1 \in Int /\ j < j + 1
            OBVIOUS
          <5>2. SubSeq(s, j, j) = <<s[j]>> \o SubSeq(s, j + 1, j)
            BY <5>1, SubSeqRecursiveFirst
          <5>3. SubSeq(s, j + 1, j) = <<>>
            BY <5>1, SubSeqEmpty
          <5>4. <<s[j]>> \in Seq(Nat)
            OBVIOUS
          <5> QED BY <5>2, <5>3, <5>4, ConcatEmptySeq
        <4> HIDE DEF q, C
        <4>5. SubSeq(q, C(a - 1) + 1, C(a - 1) + 1) = <<q[C(a - 1) + 1]>>
          BY <1>5, <4>3, <4>4
        <4> QED BY <4>2, <4>3, <4>5
      <3>4. z = SubSeq(q, C(a) + 1, C(L))
        <4>1. Behind(k) = a
          BY <2>2 DEF Behind
        <4> QED BY <1>5, <3>1, <4>1
      <3> HIDE DEF q, C
      <3>5. C(k) <= C(a - 1) /\ C(a - 1) <= C(a) /\ C(a) <= C(L) /\ C(k) \in Nat /\ C(a - 1) \in Nat
            /\ C(a) \in Nat /\ C(L) = Len(q)
        <4>1. \A n \in 0..L : C(n) \in Nat /\ C(n) <= Len(q)
          BY <1>5
        <4>2. \A m, n \in 0..L : m <= n => C(m) <= C(n)
          <5> TAKE m, n \in 0..L
          <5>1. m < n => C(m) < C(n)
            BY <1>5
          <5> QED BY <1>4, <4>1, <5>1
        <4>3. C(k) <= C(a - 1) /\ C(a - 1) <= C(a) /\ C(a) <= C(L)
          BY <3>1, <4>2
        <4> QED BY <1>5, <3>1, <4>1, <4>3
      <3>6. SubSeq(q, 1, C(k)) \o SubSeq(q, C(k) + 1, C(a - 1)) = SubSeq(q, 1, C(a - 1))
        <4>1. C(k) \in 0..Len(q) /\ C(a - 1) \in C(k)..Len(q)
          BY <1>5, <3>5
        <4> QED BY <1>5, <4>1, PiecesMakeWhole
      <3>7. SubSeq(q, 1, C(a - 1)) \o SubSeq(q, C(a - 1) + 1, C(a)) = SubSeq(q, 1, C(a))
        <4>1. C(a - 1) \in 0..Len(q) /\ C(a) \in C(a - 1)..Len(q)
          BY <1>5, <3>5
        <4> QED BY <1>5, <4>1, PiecesMakeWhole
      <3>8. SubSeq(q, 1, C(a)) \o SubSeq(q, C(a) + 1, C(L)) = SubSeq(q, 1, C(L))
        <4>1. C(a) \in 0..Len(q) /\ C(L) \in C(a)..Len(q)
          BY <1>5, <3>5
        <4> QED BY <1>5, <4>1, PiecesMakeWhole
      <3>9. SubSeq(q, 1, C(L)) = q
        BY <1>5, SubSeqFull
      <3> HIDE DEF c, y, z
      <3> QED BY <1>6, <1>8, <2>2, <3>2, <3>3, <3>4, <3>6, <3>7, <3>8, <3>9
    <2> QED BY <2>1, <2>2
  <1>10. Len(c) \in {0} \cup Frontiers
    <2>1. CASE k = 0
      BY <1>5, <1>6, <2>1
    <2>2. CASE k # 0
      <3>1. k \in DOMAIN atoms /\ Consumed(k) = C(k)
        BY <1>1, <1>4, <2>2, ConversationIsWhole
      <3>2. Len(c) \in {Consumed(n) : n \in DOMAIN atoms}
        BY <1>6, <3>1, Zenon
      <3> QED BY <3>2 DEF Frontiers
    <2> QED BY <2>1, <2>2
  <1>11. MandatoryAt # 0 => atoms[MandatoryAt].items[1] \notin ToSet(c)
    <2> SUFFICES ASSUME MandatoryAt # 0 PROVE atoms[MandatoryAt].items[1] \notin ToSet(c)
      OBVIOUS
    <2>1. MandatoryAt \in 1..L
      BY <1>4, MandatoryIs
    <2>2. C(k) <= C(MandatoryAt - 1)
      BY <1>1, <1>2, ConversationIsWhole DEF ChainInv
    <2>3. ~(MandatoryAt <= k)
      <3>1. MandatoryAt - 1 \in 0..L /\ k \in 0..L
        BY <1>4, <2>1
      <3>2. MandatoryAt - 1 < k => C(MandatoryAt - 1) < C(k)
        BY <1>5, <3>1
      <3>3. C(MandatoryAt - 1) \in Nat /\ C(k) \in Nat
        BY <1>5, <3>1
      <3> QED BY <1>4, <2>1, <2>2, <3>2, <3>3
    <2> QED BY <1>1, <2>1, <2>3, OwnItems
  <1> HIDE DEF c, y, z, q
  <1> QED BY <1>3, <1>9, <1>10, <1>11 DEF q

-----------------------------------------------------------------------------
(* A request fits *)

LEMMA PartIs ==
    ASSUME NEW T, NEW s \in Seq(T), NEW c \in Nat, NEW d \in Nat, c <= d, d <= Len(s)
    PROVE  /\ SubSeq(s, c + 1, d) \in Seq(T) /\ Len(SubSeq(s, c + 1, d)) = d - c
           /\ \A i \in 1..(d - c) : SubSeq(s, c + 1, d)[i] = s[c + i]
  OBVIOUS

LEMMA SumOfTwo ==
    ASSUME NEW p \in Seq(Nat), NEW q \in Seq(Nat)
    PROVE  SumOf(p \o q) = SumOf(p) + SumOf(q)
  <1> DEFINE M == Len(p)
             N == Len(q)
             c == [n \in 1..M |-> p[n]]
             d == [n \in 1..N |-> q[n]]
             r == p \o q
  <1>1. M \in Nat /\ N \in Nat /\ c \in [1..M -> Nat] /\ d \in [1..N -> Nat]
        /\ (\A n \in 1..M : c[n] = p[n]) /\ (\A n \in 1..N : d[n] = q[n])
        /\ r \in Seq(Nat) /\ Len(r) = M + N
        /\ (\A n \in 1..M : r[n] = p[n]) /\ (\A n \in 1..(M + N) : n > M => r[n] = q[n - M])
    OBVIOUS
  <1> HIDE DEF M, N, c, d, r
  <1>2. PICK f \in [0..M -> Nat] : f[0] = 0 /\ \A n \in 1..M : f[n] = f[n - 1] + c[n]
    BY <1>1, PartialSums
  <1>3. PICK g \in [0..N -> Nat] : g[0] = 0 /\ \A n \in 1..N : g[n] = g[n - 1] + d[n]
    BY <1>1, PartialSums
  <1> DEFINE h == [n \in 0..(M + N) |-> IF n <= M THEN f[n] ELSE f[M] + g[n - M]]
  <1>4. SumOf(p) = f[M] /\ SumOf(q) = g[N]
    <2>1. (\A n \in 1..M : f[n] = f[n - 1] + p[n]) /\ (\A n \in 1..N : g[n] = g[n - 1] + q[n])
      BY <1>1, <1>2, <1>3
    <2>2. M \in Nat /\ N \in Nat
      BY <1>1
    <2>3. SumOf(p) = f[M]
      BY <1>2, <2>1, <2>2, SumValue DEF M
    <2>4. SumOf(q) = g[N]
      BY <1>3, <2>1, <2>2, SumValue DEF N
    <2> QED BY <2>3, <2>4
  <1>5. (\A n \in 0..M : f[n] \in Nat) /\ (\A n \in 0..N : g[n] \in Nat)
    BY <1>2, <1>3
  <1>6. ASSUME NEW n \in 0..(M + N) PROVE h[n] \in Nat
    <2>1. n <= M => n \in 0..M
      BY <1>1
    <2>2. ~(n <= M) => n - M \in 0..N
      BY <1>1
    <2>3. M \in 0..M
      BY <1>1
    <2> QED BY <1>5, <2>1, <2>2, <2>3
  <1>7. h \in [0..(M + N) -> Nat]
    BY <1>6
  <1>8. h[0] = 0 /\ h[M + N] = f[M] + g[N]
    <2>1. 0 \in 0..(M + N) /\ M + N \in 0..(M + N) /\ 0 <= M /\ (M + N) - M = N
      BY <1>1
    <2>2. M + N <= M => N = 0
      BY <1>1
    <2>3. M \in 0..M /\ f[M] \in Nat
      BY <1>1, <1>5
    <2>4. CASE M + N <= M
      <3>1. M + N = M
        BY <1>1, <2>2, <2>4
      <3> QED BY <1>2, <1>3, <2>1, <2>2, <2>3, <2>4, <3>1
    <2>5. CASE ~(M + N <= M)
      BY <1>2, <2>1, <2>5
    <2> QED BY <2>4, <2>5
  <1>9. ASSUME NEW n \in 1..(M + N) PROVE h[n] = h[n - 1] + r[n]
    <2>1. n \in 0..(M + N) /\ n - 1 \in 0..(M + N)
      BY <1>1
    <2>2. CASE n <= M
      <3>1. n \in 1..M /\ n - 1 <= M
        BY <1>1, <2>2
      <3> QED BY <1>1, <1>2, <2>1, <2>2, <3>1
    <2>3. CASE n = M + 1
      <3>1. h[n] = f[M] + g[n - M] /\ h[n - 1] = f[M] /\ n - M = 1 /\ 1 \in 1..N /\ ~(n <= M)
        BY <1>1, <2>1, <2>3
      <3>2. g[1] = g[0] + d[1] /\ d[1] = q[1] /\ r[n] = q[1]
        <4>1. g[1] = g[1 - 1] + d[1]
          BY <1>3, <3>1
        <4>2. r[n] = q[n - M]
          BY <1>1, <2>3, SMTT(40)
        <4> QED BY <1>1, <3>1, <4>1, <4>2
      <3>3. f[M] \in Nat /\ g[1] \in Nat /\ g[0] = 0
        <4>1. M \in 0..M /\ 1 \in 0..N
          BY <1>1, <3>1
        <4> QED BY <1>3, <1>5, <4>1
      <3>4. g[1] = q[1]
        <4>1. d[1] \in Nat
          BY <1>1, <3>1
        <4> QED BY <3>2, <3>3, <4>1
      <3> QED BY <3>1, <3>2, <3>4
    <2>4. CASE n > M + 1
      <3> DEFINE m == n - M
      <3>1. m \in 1..N /\ m \in 0..N /\ m - 1 \in 0..N /\ (n - 1) - M = m - 1 /\ ~(n - 1 <= M) /\ ~(n <= M) /\ M \in 0..M
        BY <1>1, <2>4
      <3>2. h[n] = f[M] + g[m] /\ h[n - 1] = f[M] + g[m - 1]
        BY <2>1, <3>1
      <3>3. r[n] = q[m]
        <4>1. n > M
          BY <1>1, <2>4
        <4> QED BY <1>1, <4>1
      <3> HIDE DEF m, h
      <3>4. g[m] = g[m - 1] + q[m] /\ d[m] \in Nat /\ d[m] = q[m]
        BY <1>1, <1>3, <3>1
      <3>5. f[M] \in Nat /\ g[m - 1] \in Nat
        BY <1>5, <3>1
      <3> QED BY <3>2, <3>3, <3>4, <3>5
    <2>5. n <= M \/ n = M + 1 \/ n > M + 1
      BY <1>1
    <2> QED BY <2>2, <2>3, <2>4, <2>5
  <1> HIDE DEF h
  <1>10. SumOf(r) = h[M + N]
    <2> DEFINE K == M + N
    <2>1. K \in Nat /\ Len(r) = K /\ h \in [0..K -> Nat] /\ h[0] = 0
      BY <1>1, <1>7, <1>8
    <2>2. \A n \in 1..K : h[n] = h[n - 1] + r[n]
      BY <1>9
    <2> HIDE DEF K
    <2>3. SumOf(r) = h[K]
      BY <2>1, <2>2, SumValue
    <2> QED BY <2>3 DEF K
  <1> QED BY <1>4, <1>8, <1>10 DEF r

LEMMA SumOfNone ==
    ASSUME NEW q \in Seq(Nat), \A i \in 1..Len(q) : q[i] = 0
    PROVE  SumOf(q) = 0
  <1> DEFINE N == Len(q)
             g == [n \in 0..N |-> 0]
  <1>1. N \in Nat
    OBVIOUS
  <1>2. g \in [0..N -> Nat] /\ g[0] = 0 /\ \A n \in 1..N : g[n] = g[n - 1] + q[n]
    BY <1>1
  <1>3. PICK f \in [0..N -> Nat] : f = g
    BY <1>2
  <1>4. f[0] = 0 /\ \A n \in 1..N : f[n] = f[n - 1] + q[n]
    BY <1>2, <1>3
  <1>5. SumOf(q) = f[N]
    BY <1>1, <1>4, SumValue
  <1>6. f[N] = 0
    BY <1>1, <1>3
  <1> QED BY <1>5, <1>6

LEMMA SumOfOne ==
    ASSUME NEW v \in Nat
    PROVE  SumOf(<<v>>) = v
  <1> DEFINE q == <<v>>
             f == [n \in 0..1 |-> IF n = 0 THEN 0 ELSE v]
  <1>1. Len(q) = 1 /\ f \in [0..1 -> Nat] /\ f[0] = 0 /\ f[1] = v /\ q[1] = v /\ 1 \in Nat
    OBVIOUS
  <1> HIDE DEF f, q
  <1>2. \A n \in 1..1 : f[n] = f[n - 1] + q[n]
    BY <1>1
  <1>3. SumOf(q) = f[1]
    BY <1>1, <1>2, SumValue
  <1> QED BY <1>1, <1>3 DEF q

\* The sizes of a conversation are those of its items.
LEMMA SizesOfItems ==
    ASSUME ConversationInv
    PROVE  LET z == FlattenSeq([n \in DOMAIN atoms |-> atoms[n].sizes])
           IN  /\ z \in Seq(Nat) /\ Len(z) = Len(Items(atoms))
               /\ \A n \in 1..Len(atoms) : \A i \in 1..Len(atoms[n].sizes) :
                    z[Count(atoms, n - 1) + i] = atoms[n].sizes[i]
  <1> DEFINE t == [n \in DOMAIN atoms |-> [atoms[n] EXCEPT !.items = atoms[n].sizes]]
             z == FlattenSeq([n \in DOMAIN atoms |-> atoms[n].sizes])
  <1>0. Whole(atoms)
    BY ConversationIsWhole
  <1>1. atoms \in Seq(Atoms) /\ Len(atoms) \in Nat /\ DOMAIN atoms = 1..Len(atoms) /\ \A n \in 1..Len(atoms) : atoms[n].items # <<>>
    BY ConversationIsWhole DEF Whole
  <1>2. ASSUME NEW n \in 1..Len(atoms)
        PROVE  t[n] \in Atoms /\ t[n].items = atoms[n].sizes /\ t[n].items # <<>>
               /\ Len(t[n].items) = Len(atoms[n].items)
    <2>1. atoms[n] \in Atoms
      BY <1>1
    <2>2. atoms[n].sizes \in Seq(Nat) /\ atoms[n].items \in Seq(Nat)
      BY <2>1 DEF Atoms
    <2>3. t[n] = [atoms[n] EXCEPT !.items = atoms[n].sizes]
      BY <1>1
    <2>4. t[n] \in Atoms /\ t[n].items = atoms[n].sizes
      BY <2>1, <2>2, <2>3 DEF Atoms
    <2>5. Len(atoms[n].items) # 0 /\ Len(atoms[n].sizes) = Len(atoms[n].items)
      BY <1>1, <2>2, AtomIs
    <2> HIDE DEF t
    <2>6. Len(t[n].items) = Len(atoms[n].items)
      BY <2>4, <2>5
    <2> QED BY <2>4, <2>5, <2>6
  <1>3. DOMAIN t = 1..Len(atoms)
    BY <1>1
  <1>4. t \in Seq(Atoms) /\ Len(t) = Len(atoms)
    <2>1. t = [n \in 1..Len(atoms) |-> t[n]]
      BY <1>1
    <2> HIDE DEF t
    <2> QED BY <1>1, <1>2, <2>1
  <1>5. Items(t) = z
    <2>1. [n \in DOMAIN t |-> t[n].items] = [n \in DOMAIN atoms |-> atoms[n].sizes]
      <3> HIDE DEF t
      <3> QED BY <1>1, <1>2, <1>3
    <2> HIDE DEF t
    <2> QED BY <2>1 DEF Items
  <1> HIDE DEF t, z
  <1>6. Whole(t)
    BY <1>2, <1>3, <1>4 DEF Whole
  <1>7. \A k \in 0..Len(atoms) : Count(t, k) = Count(atoms, k)
    <2> DEFINE S == {k \in Nat : k <= Len(atoms) => Count(t, k) = Count(atoms, k)}
    <2>1. 0 \in S
      BY <1>0, <1>6, CountsGrow
    <2>2. ASSUME NEW k \in Nat, k \in S PROVE k + 1 \in S
      <3> SUFFICES ASSUME k + 1 <= Len(atoms) PROVE Count(t, k + 1) = Count(atoms, k + 1)
        OBVIOUS
      <3>1. k + 1 \in 1..Len(atoms) /\ k + 1 \in 1..Len(t) /\ (k + 1) - 1 = k /\ k <= Len(atoms)
        BY <1>1, <1>4
      <3>2. Count(t, k) = Count(atoms, k)
        BY <2>2, <3>1
      <3> HIDE DEF S
      <3>3. Count(t, k + 1) = Count(t, k) + Len(t[k + 1].items)
        BY <1>6, <3>1, CountsGrow
      <3>4. Count(atoms, k + 1) = Count(atoms, k) + Len(atoms[k + 1].items)
        BY <1>0, <3>1, CountsGrow
      <3> QED BY <1>2, <3>1, <3>2, <3>3, <3>4
    <2> HIDE DEF S
    <2>3. Nat \subseteq S
      BY <2>1, <2>2, NatInduct
    <2> QED BY <2>3 DEF S
  <1>8. z \in Seq(Nat) /\ Len(z) = Len(Items(atoms))
    <2>1. z \in Seq(Nat) /\ Len(z) = Count(t, Len(t)) /\ Count(atoms, Len(atoms)) = Len(Items(atoms))
      BY <1>0, <1>5, <1>6, CountsGrow
    <2>2. Len(atoms) \in 0..Len(atoms)
      BY <1>1
    <2> QED BY <1>4, <1>7, <2>1, <2>2
  <1>9. ASSUME NEW n \in 1..Len(atoms), NEW i \in 1..Len(atoms[n].sizes)
        PROVE  z[Count(atoms, n - 1) + i] = atoms[n].sizes[i]
    <2>1. n \in 1..Len(t) /\ i \in 1..Len(t[n].items) /\ t[n].items = atoms[n].sizes
      BY <1>2, <1>4
    <2>2. Items(t)[Count(t, n - 1) + i] = t[n].items[i]
      BY <1>6, <2>1, ItemPlaces, SMTT(40)
    <2>3. Count(t, n - 1) = Count(atoms, n - 1)
      <3>1. n - 1 \in 0..Len(atoms)
        BY <1>1
      <3> QED BY <1>7, <3>1
    <2> QED BY <1>5, <2>1, <2>2, <2>3
  <1> QED BY <1>8, <1>9 DEF z

\* A request shows the items after k and the task, each with its atom.
LEMMA ShownIs ==
    ASSUME ConversationInv, AnchorAt # 0, NEW k \in 0..Len(atoms),
           NEW n \in 1..Len(atoms), NEW i \in 1..Len(atoms[n].items)
    PROVE  atoms[n].items[i] \in ToSet(Items(SubSeq(atoms, k + 1, AnchorAt - 1)))
                    \cup ToSet(Items(SubSeq(atoms, Behind(k) + 1, Len(atoms)))) \cup {Anchor}
             <=> n > k \/ n = AnchorAt
  <1> DEFINE L == Len(atoms)
             a == AnchorAt
             A == SubSeq(atoms, k + 1, a - 1)
             B == SubSeq(atoms, Behind(k) + 1, L)
             x == atoms[n].items[i]
  <1>1. /\ Whole(atoms) /\ L \in Nat /\ a \in 1..L /\ a - 1 \in 0..L /\ k + 1 \in 1..(L + 1)
        /\ L \in 0..L /\ Behind(k) \in 0..L /\ Behind(k) + 1 \in 1..(L + 1)
        /\ Anchor = atoms[a].items[1] /\ ~IsStep(atoms[a])
    BY AnchorIsLast, ConversationIsWhole, SMTT(40) DEF Behind, ConversationInv, Anchor, IsStep, IsMessage
  <1>2. 1 \in 1..Len(atoms[a].items) /\ Len(atoms[a].items) = 1
    <2>1. Len(atoms[a].items) = 1
      BY <1>1, AtomIs
    <2> QED BY <2>1
  <1>3. x = Anchor <=> n = a
    <2>1. x = Anchor => n = a
      BY <1>1, <1>2, ItemsDiffer
    <2>2. n = a => i = 1
      <3>1. n = a => Len(atoms[n].items) = 1
        BY <1>2
      <3>2. i \in 1..Len(atoms[n].items)
        OBVIOUS
      <3>3. Len(atoms[n].items) = 1 => i \in 1..1
        BY <3>2
      <3> QED BY <3>1, <3>3
    <2> QED BY <1>1, <2>1, <2>2
  <1> HIDE DEF x
  \* the part from m to h shows the items of the atoms from m to h
  <1>4. ASSUME NEW m \in 1..(L + 1), NEW h \in 0..L
        PROVE  x \in ToSet(Items(SubSeq(atoms, m, h))) <=> m <= n /\ n <= h
    <2> DEFINE t == SubSeq(atoms, m, h)
    <2>1. /\ Whole(t) /\ Len(t) = (IF m <= h THEN h - m + 1 ELSE 0)
          /\ \A j \in 1..Len(t) : t[j] = atoms[m + j - 1] /\ m + j - 1 \in m..h /\ m + j - 1 \in 1..L
      BY <1>1, WholePart
    <2>0. Whole(t)
      BY <2>1
    <2> HIDE DEF t
    <2>2. x \in ToSet(Items(t)) <=> \E j \in 1..Len(t) : \E e \in 1..Len(t[j].items) : x = t[j].items[e]
      BY <2>0, ItemOf, SMTT(40)
    <2>3. ASSUME m <= n, n <= h PROVE x \in ToSet(Items(t))
      <3> DEFINE j == n - m + 1
      <3>1. j \in 1..Len(t) /\ m + j - 1 = n
        BY <1>1, <2>1, <2>3
      <3>2. t[j] = atoms[n]
        BY <2>1, <3>1
      <3> HIDE DEF j
      <3>3. x = t[j].items[i] /\ i \in 1..Len(t[j].items)
        BY <3>2 DEF x
      <3> QED BY <2>2, <3>1, <3>3
    <2>4. ASSUME x \in ToSet(Items(t)) PROVE m <= n /\ n <= h
      <3>1. PICK j \in 1..Len(t) : \E e \in 1..Len(t[j].items) : x = t[j].items[e]
        BY <2>2, <2>4
      <3>2. PICK p \in 1..L : p = m + j - 1 /\ t[j] = atoms[p] /\ p \in m..h
        BY <2>1
      <3>3. PICK e \in 1..Len(atoms[p].items) : x = atoms[p].items[e]
        BY <3>1, <3>2
      <3>4. n = p
        BY <3>3, ItemsDiffer DEF x
      <3> QED BY <3>2, <3>4
    <2> QED BY <2>3, <2>4 DEF t
  <1>5. x \in ToSet(Items(A)) <=> k + 1 <= n /\ n <= a - 1
    BY <1>1, <1>4
  <1>6. x \in ToSet(Items(B)) <=> Behind(k) + 1 <= n /\ n <= L
    BY <1>1, <1>4
  <1> DEFINE inA == x \in ToSet(Items(A))
             inB == x \in ToSet(Items(B))
  <1>7. (k + 1 <= n /\ n <= a - 1) \/ (Behind(k) + 1 <= n /\ n <= L) \/ n = a <=> n > k \/ n = a
    <2>1. L \in Nat /\ a \in 1..L /\ n \in 1..L /\ k \in 0..L
      BY <1>1
    <2> HIDE DEF L, a
    <2> QED BY <2>1 DEF Behind, a
  <1> HIDE DEF A, B
  <1>8. x \in ToSet(Items(A)) \cup ToSet(Items(B)) \cup {Anchor} <=> n > k \/ n = a
    BY <1>3, <1>5, <1>6, <1>7
  <1> QED BY <1>8 DEF A, B, x

\* What the history costs: the atoms after k but the task.
LEMMA HistoryIs ==
    ASSUME ConversationInv, AnchorAt # 0, NEW k \in 0..Len(atoms),
           NEW P \in [0..Len(atoms) -> Nat], P[0] = 0,
           \A n \in 1..Len(atoms) :
              P[n] = P[n - 1] + (IF n > k /\ n # AnchorAt THEN AtomTokens(atoms[n]) ELSE 0)
    PROVE  HistoryTokens(SubSeq(atoms, k + 1, Len(atoms))) = P[Len(atoms)]
  <1> DEFINE L == Len(atoms)
             a == AnchorAt
             u == SubSeq(atoms, k + 1, L)
             b == Behind(k)
             A == SubSeq(atoms, k + 1, a - 1)
             B == SubSeq(atoms, b + 1, L)
             s == A \o B
             M == IF a <= k THEN 0 ELSE a - 1 - k
             N == L - b
             K == M + N
             q == [n \in DOMAIN s |-> AtomTokens(s[n])]
             pos == [n \in 0..K |-> IF n <= M THEN k + n ELSE b + (n - M)]
             f == [n \in 0..K |-> P[pos[n]]]
  <1>1. /\ atoms \in Seq(Atoms) /\ L \in Nat /\ a \in 1..L /\ a - 1 \in 0..L /\ k + 1 \in 1..(L + 1)
        /\ L \in 0..L /\ b \in 0..L /\ b + 1 \in 1..(L + 1) /\ k \in 0..L
        /\ b = IF a <= k THEN k ELSE a
    BY AnchorIsLast, ConversationIsWhole DEF Behind, ConversationInv
  <1>2. /\ A \in Seq(Atoms) /\ Len(A) = M /\ \A i \in 1..M : A[i] = atoms[k + i]
    <2>1. /\ A \in Seq(Atoms) /\ Len(A) = (IF k + 1 <= a - 1 THEN (a - 1) - (k + 1) + 1 ELSE 0)
          /\ \A i \in 1..((a - 1) - (k + 1) + 1) : A[i] = atoms[(k + 1) + i - 1]
      BY <1>1, SliceOfAtoms
    <2> HIDE DEF A
    <2>2. (IF k + 1 <= a - 1 THEN (a - 1) - (k + 1) + 1 ELSE 0) = M
      BY <1>1
    <2>3. \A i \in 1..M : i \in 1..((a - 1) - (k + 1) + 1) /\ (k + 1) + i - 1 = k + i
      BY <1>1
    <2> HIDE DEF M
    <2> QED BY <2>1, <2>2, <2>3
  <1>3. /\ B \in Seq(Atoms) /\ Len(B) = N /\ \A i \in 1..N : B[i] = atoms[b + i]
    <2>1. /\ B \in Seq(Atoms) /\ Len(B) = (IF b + 1 <= L THEN L - (b + 1) + 1 ELSE 0)
          /\ \A i \in 1..(L - (b + 1) + 1) : B[i] = atoms[(b + 1) + i - 1]
      BY <1>1, SliceOfAtoms
    <2> HIDE DEF B
    <2>2. (IF b + 1 <= L THEN L - (b + 1) + 1 ELSE 0) = N
      <3>1. b \in 0..L /\ L \in Nat
        BY <1>1
      <3> HIDE DEF b, L
      <3> QED BY <3>1
    <2>3. \A i \in 1..N : i \in 1..(L - (b + 1) + 1) /\ (b + 1) + i - 1 = b + i
      BY <1>1
    <2> HIDE DEF N
    <2> QED BY <2>1, <2>2, <2>3
  <1> HIDE DEF A, B
  <1>4. M \in Nat /\ N \in Nat /\ K \in Nat /\ k + M = (IF a <= k THEN b ELSE b - 1) /\ b + N = L /\ k + M <= L
    BY <1>1
  <1>5. /\ s \in Seq(Atoms) /\ Len(s) = K /\ DOMAIN s = 1..K
        /\ \A n \in 1..M : s[n] = A[n]
        /\ \A n \in 1..K : n > M => s[n] = B[n - M]
    <2>1. M \in Nat /\ N \in Nat /\ A \in Seq(Atoms) /\ B \in Seq(Atoms) /\ Len(A) = M /\ Len(B) = N
      BY <1>2, <1>3, <1>4
    <2> HIDE DEF M, N
    <2>2. /\ s \in Seq(Atoms) /\ Len(s) = Len(A) + Len(B)
          /\ \A n \in 1..(Len(A) + Len(B)) : s[n] = IF n <= Len(A) THEN A[n] ELSE B[n - Len(A)]
      BY <2>1, ConcatProperties, Zenon
    <2> HIDE DEF s
    <2>3. ASSUME NEW n \in 1..M PROVE s[n] = A[n]
      <3>1. n \in 1..(Len(A) + Len(B)) /\ n <= Len(A)
        BY <2>1
      <3> QED BY <2>2, <3>1
    <2>4. ASSUME NEW n \in 1..(M + N), n > M PROVE s[n] = B[n - M]
      <3>1. n \in 1..(Len(A) + Len(B)) /\ ~(n <= Len(A)) /\ n - M = n - Len(A)
        BY <2>1, <2>4
      <3> QED BY <2>2, <3>1
    <2>5. Len(s) = M + N /\ DOMAIN s = 1..Len(s)
      BY <2>1, <2>2
    <2> QED BY <2>2, <2>3, <2>4, <2>5
  <1>6. HistoryTokens(u) = SumOf(q)
    <2>1. Rendered(u) = s
      BY RenderedIs DEF A, B
    <2> HIDE DEF s, u
    <2> QED BY <2>1 DEF HistoryTokens
  <1> HIDE DEF s, u
  <1>7. \A n \in 1..K : q[n] = AtomTokens(s[n])
    BY <1>5
  <1>8. \A n \in 0..K : pos[n] = (IF n <= M THEN k + n ELSE b + (n - M)) /\ pos[n] \in 0..L
    <2> TAKE n \in 0..K
    <2>1. pos[n] = (IF n <= M THEN k + n ELSE b + (n - M))
      OBVIOUS
    <2> HIDE DEF pos
    <2>2. (IF n <= M THEN k + n ELSE b + (n - M)) \in 0..L
      <3>1. M \in Nat /\ N \in Nat /\ b + N = L /\ k + M <= L /\ n \in 0..(M + N) /\ k \in 0..L /\ b \in 0..L /\ L \in Nat
        BY <1>1, <1>4
      <3> HIDE DEF M, N, L, b
      <3> QED BY <3>1
    <2> QED BY <2>1, <2>2
  <1>9. \A n \in 1..K : s[n] = atoms[pos[n]] /\ pos[n] > k /\ pos[n] # a /\ pos[n] \in 1..L
                        /\ (pos[n - 1] = pos[n] - 1 \/ (a > k /\ pos[n] = a + 1 /\ pos[n - 1] = a - 1))
    <2> TAKE n \in 1..K
    <2>0. n \in 0..K /\ n - 1 \in 0..K
      BY <1>4
    <2>1. pos[n] = (IF n <= M THEN k + n ELSE b + (n - M)) /\ pos[n] \in 0..L
          /\ pos[n - 1] = (IF n - 1 <= M THEN k + (n - 1) ELSE b + ((n - 1) - M))
      BY <1>8, <2>0
    <2> HIDE DEF pos
    <2>2. CASE n <= M
      <3>1. n \in 1..M /\ pos[n] = k + n /\ pos[n - 1] = k + (n - 1)
        BY <1>4, <2>1, <2>2
      <3>2. s[n] = atoms[pos[n]]
        BY <1>2, <1>5, <3>1
      <3>3. k + n > k /\ k + n # a /\ k + (n - 1) = (k + n) - 1
        BY <1>1, <2>2
      <3> QED BY <1>1, <2>1, <3>1, <3>2, <3>3
    <2>3. CASE ~(n <= M)
      <3>1. n - M \in 1..N /\ pos[n] = b + (n - M)
        BY <1>4, <2>1, <2>3
      <3>2. s[n] = atoms[pos[n]]
        <4>1. n > M
          BY <1>4, <2>3
        <4>2. s[n] = B[n - M]
          BY <1>5, <4>1
        <4> QED BY <1>3, <3>1, <4>2
      <3>3. b + (n - M) > k /\ b + (n - M) # a
        BY <1>1, <1>4, <3>1
      <3>4. CASE n - 1 <= M
        <4>0. M \in Nat /\ N \in Nat /\ n \in 1..(M + N) /\ ~(n <= M) /\ n - 1 <= M
              /\ pos[n - 1] = (IF n - 1 <= M THEN k + (n - 1) ELSE b + ((n - 1) - M))
          BY <1>4, <2>1, <2>3, <3>4
        <4>1. n = M + 1 /\ pos[n - 1] = k + M
          <5> HIDE DEF M, N, b
          <5>1. n = M + 1
            BY <4>0
          <5>2. n - 1 = M
            BY <4>0, <5>1
          <5> QED BY <4>0, <5>1, <5>2
        <4>2. pos[n] = b + 1
          BY <1>4, <3>1, <4>1
        <4>3. k + M = b \/ (a > k /\ b = a /\ k + M = a - 1)
          BY <1>1, <1>4
        <4> QED BY <1>1, <2>1, <3>1, <3>2, <3>3, <4>1, <4>2, <4>3
      <3>5. CASE ~(n - 1 <= M)
        <4>1. pos[n - 1] = b + ((n - 1) - M) /\ b + ((n - 1) - M) = (b + (n - M)) - 1
          BY <1>1, <1>4, <2>1, <3>5
        <4> QED BY <1>1, <2>1, <3>1, <3>2, <3>3, <4>1
      <3> QED BY <3>4, <3>5
    <2> QED BY <2>2, <2>3
  <1> HIDE DEF pos, q, K
  <1>10. \A n \in 1..K : f[n] = f[n - 1] + q[n]
    <2> TAKE n \in 1..K
    <2>1. n \in 0..K /\ n - 1 \in 0..K
      BY <1>4
    <2>2. f[n] = P[pos[n]] /\ f[n - 1] = P[pos[n - 1]]
      BY <2>1
    <2> HIDE DEF f
    <2>3. PICK p \in 1..L : p = pos[n] /\ s[n] = atoms[p] /\ p > k /\ p # a
                            /\ (pos[n - 1] = p - 1 \/ (a > k /\ p = a + 1 /\ pos[n - 1] = a - 1))
      BY <1>9
    <2>4. P[p] = P[p - 1] + AtomTokens(atoms[p])
      BY <2>3
    <2>5. a > k /\ p = a + 1 => P[p - 1] = P[a - 1]
      <3> SUFFICES ASSUME p = a + 1 PROVE P[p - 1] = P[a - 1]
        OBVIOUS
      <3>1. P[a] = P[a - 1] + 0
        BY <1>1
      <3>2. P[a - 1] \in Nat /\ p - 1 = a
        BY <1>1, SMTT(40)
      <3> QED BY <3>1, <3>2
    <2>6. P[p - 1] = P[pos[n - 1]]
      BY <2>3, <2>5
    <2> QED BY <1>7, <2>2, <2>3, <2>4, <2>6
  <1>11. P[k] = 0
    <2> DEFINE S == {n \in Nat : n <= k => P[n] = 0}
    <2>1. 0 \in S
      OBVIOUS
    <2>2. ASSUME NEW n \in Nat, n \in S PROVE n + 1 \in S
      <3> SUFFICES ASSUME n + 1 <= k PROVE P[n + 1] = 0
        OBVIOUS
      <3>1. n + 1 \in 1..L /\ ~(n + 1 > k) /\ (n + 1) - 1 = n /\ n <= k
        BY <1>1
      <3>2. P[n] = 0
        BY <2>2, <3>1
      <3>3. P[n + 1] = P[n] + 0
        BY <3>1
      <3> QED BY <3>2, <3>3
    <2> HIDE DEF S
    <2>3. Nat \subseteq S
      BY <2>1, <2>2, NatInduct
    <2>4. k \in S
      BY <1>1, <2>3
    <2> QED BY <1>1, <2>4 DEF S
  <1>12. f[0] = 0 /\ f \in [0..K -> Nat]
    <2>1. 0 \in 0..K /\ 0 <= M /\ k + 0 = k
      BY <1>1, <1>4
    <2>2. pos[0] = k
      BY <1>8, <2>1
    <2>3. \A n \in 0..K : P[pos[n]] \in Nat
      BY <1>8
    <2> QED BY <1>11, <2>1, <2>2, <2>3
  <1>13. f[K] = P[L]
    <2>1. K \in 0..K
      BY <1>4
    <2>2. f[K] = P[pos[K]] /\ pos[K] = (IF K <= M THEN k + K ELSE b + (K - M))
      BY <1>8, <2>1
    <2>3. K = M + N
      BY DEF K
    <2>4. CASE N = 0
      <3>1. K = M /\ pos[K] = k + M
        BY <1>4, <2>2, <2>3, <2>4
      <3>2. b = L
        <4>1. b \in 0..L /\ L \in Nat /\ L - b = 0
          BY <1>1, <2>4
        <4> HIDE DEF b, L
        <4> QED BY <4>1
      <3>3. k + M = L \/ (k + M = a - 1 /\ a = L)
        BY <1>1, <1>4, <3>2
      <3>4. a = L => P[a - 1] = P[L]
        <4> SUFFICES ASSUME a = L PROVE P[a - 1] = P[L]
          OBVIOUS
        <4>1. P[a] = P[a - 1] + 0 /\ P[a - 1] \in Nat
          BY <1>1
        <4> QED BY <4>1
      <3> HIDE DEF f
      <3> QED BY <2>2, <3>1, <3>3, <3>4
    <2>5. CASE N # 0
      <3>1. ~(K <= M) /\ K - M = N
        BY <1>4, <2>3, <2>5
      <3> HIDE DEF f
      <3> QED BY <1>4, <2>2, <3>1
    <2> QED BY <2>4, <2>5
  <1>14. Len(q) = K
    <2>1. q = [n \in 1..K |-> q[n]]
      BY <1>5 DEF q
    <2> QED BY <1>4, <2>1
  <1> HIDE DEF f, L
  <1>15. K \in Nat
    BY <1>4
  <1>16. SumOf(q) = f[K]
    BY <1>10, <1>12, <1>14, <1>15, SumValue, ZenonT(60)
  <1> QED BY <1>6, <1>13, <1>16 DEF u, L

\* The tokens of an atom are its sizes, and its reasoning if it is mandatory.
LEMMA AtomTokensAre ==
    ASSUME ConversationInv, NEW n \in 1..Len(atoms)
    PROVE  /\ SumOf(atoms[n].sizes) \in Nat
           /\ AtomTokens(atoms[n]) = SumOf(atoms[n].sizes)
                + (IF MandatoryAt # 0 /\ MandatoryAt = n THEN 1 ELSE 0)
           /\ n = AnchorAt => SumOf(atoms[n].sizes) = atoms[n].sizes[1]
  <1>1. atoms[n].sizes \in Seq(Nat) /\ Len(atoms[n].sizes) = Len(atoms[n].items)
        /\ (~IsStep(atoms[n]) => Len(atoms[n].items) = 1)
    BY AtomIs
  <1>2. atoms \in Seq(Atoms)
    BY DEF ConversationInv
  <1>3. MandatoryAt # 0 => (atoms[n] = atoms[MandatoryAt] <=> MandatoryAt = n)
    <2> SUFFICES ASSUME MandatoryAt # 0 PROVE atoms[n] = atoms[MandatoryAt] => MandatoryAt = n
      OBVIOUS
    <2>1. MandatoryAt \in 1..Len(atoms)
      BY <1>2, MandatoryIs
    <2> QED BY <2>1, AtomsDiffer
  <1>4. n = AnchorAt => SumOf(atoms[n].sizes) = atoms[n].sizes[1]
    <2> SUFFICES ASSUME n = AnchorAt PROVE SumOf(atoms[n].sizes) = atoms[n].sizes[1]
      OBVIOUS
    <2>1. ~IsStep(atoms[n])
      BY <1>2, AnchorIsLast DEF IsStep, IsMessage
    <2> DEFINE q == atoms[n].sizes
    <2>2. q \in Seq(Nat) /\ Len(q) = 1
      BY <1>1, <2>1
    <2> HIDE DEF q
    <2>3. q = <<q[1]>> /\ q[1] \in Nat
      <3>1. q[1] \in Nat
        BY <2>2
      <3> DEFINE r == <<q[1]>>
      <3>2. r \in Seq(Nat) /\ Len(r) = 1 /\ r[1] = q[1]
        BY <3>1
      <3> HIDE DEF r
      <3>3. \A i \in 1..Len(q) : q[i] = r[i]
        BY <2>2, <3>2
      <3>4. q = r
        BY <2>2, <3>2, <3>3, SeqEqual
      <3> QED BY <3>1, <3>4 DEF r
    <2>4. SumOf(<<q[1]>>) = q[1]
      BY <2>3, SumOfOne
    <2>5. SumOf(q) = q[1]
      BY <2>3, <2>4
    <2> QED BY <2>5 DEF q
  <1>5. AtomTokens(atoms[n]) = SumOf(atoms[n].sizes)
                + (IF MandatoryAt # 0 /\ MandatoryAt = n THEN 1 ELSE 0)
    BY <1>3 DEF AtomTokens
  <1>6. SumOf(atoms[n].sizes) \in Nat
    BY <1>1, SumIsNat
  <1> QED BY <1>4, <1>5, <1>6

\* Item by item, the same is counted as atom by atom.
LEMMA ShownCost ==
    ASSUME ConversationInv, AnchorAt # 0, NEW k \in 0..Len(atoms),
           MandatoryAt # 0 => MandatoryAt > k,
           NEW w \in Seq(Nat), Len(w) = Len(Items(atoms)),
           \A n \in 1..Len(atoms) : \A i \in 1..Len(atoms[n].items) :
              w[Count(atoms, n - 1) + i] = IF n > k \/ n = AnchorAt THEN atoms[n].sizes[i] ELSE 0,
           NEW P \in [0..Len(atoms) -> Nat], P[0] = 0,
           \A n \in 1..Len(atoms) :
              P[n] = P[n - 1] + (IF n > k /\ n # AnchorAt THEN AtomTokens(atoms[n]) ELSE 0)
    PROVE  /\ SumOf(w) \in Nat
           /\ SumOf(w) + (IF MandatoryAt # 0 THEN 1 ELSE 0) = P[Len(atoms)] + atoms[AnchorAt].sizes[1]
  <1> DEFINE L == Len(atoms)
             a == AnchorAt
             m == MandatoryAt
             items == Items(atoms)
             C(n) == Count(atoms, n)
             W(n) == SumOf(SubSeq(w, 1, C(n)))
             v == atoms[a].sizes[1]
             S(n) == SumOf(atoms[n].sizes)
  <1>1. /\ Whole(atoms) /\ L \in Nat /\ atoms \in Seq(Atoms) /\ a \in 1..L
        /\ \A n \in 1..L : Len(atoms[n].sizes) = Len(atoms[n].items)
    BY AnchorIsLast, ConversationIsWhole, AtomIs DEF Whole
  <1>2. /\ items \in Seq(Nat) /\ Len(items) \in Nat /\ C(0) = 0 /\ C(L) = Len(items)
        /\ \A n \in 0..L : C(n) \in Nat /\ C(n) <= Len(items)
        /\ \A n \in 1..L : C(n) = C(n - 1) + Len(atoms[n].items)
    BY <1>1, CountsGrow
  <1>5. m # 0 => m \in 1..L /\ m > k /\ m > a
    BY <1>1, MandatoryIs
  <1>6. w \in Seq(Nat) /\ Len(w) = Len(items)
        /\ \A n \in 1..L : \A i \in 1..Len(atoms[n].items) :
              w[C(n - 1) + i] = IF n > k \/ n = a THEN atoms[n].sizes[i] ELSE 0
    OBVIOUS
  <1> HIDE DEF items, C
  \* the part of one atom
  <1>7. ASSUME NEW n \in 1..L
        PROVE  /\ SubSeq(w, C(n - 1) + 1, C(n)) \in Seq(Nat)
               /\ SumOf(SubSeq(w, C(n - 1) + 1, C(n))) = IF n > k \/ n = a THEN S(n) ELSE 0
    <2> DEFINE x == SubSeq(w, C(n - 1) + 1, C(n))
               c == C(n - 1)
               d == C(n)
               q == atoms[n].sizes
               N == Len(q)
    <2>1. q \in Seq(Nat) /\ N = Len(atoms[n].items) /\ N \in Nat
      BY AtomIs
    <2>2. c \in Nat /\ d \in Nat /\ d = c + N /\ d <= Len(items)
      <3>1. n - 1 \in 0..L /\ n \in 0..L
        BY <1>1
      <3> QED BY <1>2, <2>1, <3>1
    <2>3. x \in Seq(Nat) /\ Len(x) = N /\ \A i \in 1..N : x[i] = w[c + i] /\ c + i \in 1..Len(items)
      <3> HIDE DEF c, d, N, q
      <3>1. c <= d /\ d <= Len(w)
        BY <1>2, <1>6, <2>1, <2>2 DEF N
      <3>2. /\ SubSeq(w, c + 1, d) \in Seq(Nat) /\ Len(SubSeq(w, c + 1, d)) = d - c
            /\ \A i \in 1..(d - c) : SubSeq(w, c + 1, d)[i] = w[c + i]
        BY <1>6, <2>2, <3>1, PartIs, SMTT(40)
      <3>3. x = SubSeq(w, c + 1, d)
        BY DEF c, d
      <3> HIDE DEF x
      <3>4. d - c = N
        BY <2>1, <2>2 DEF N
      <3>5. \A i \in 1..N : c + i \in 1..Len(items)
        <4> DEFINE M == Len(items)
        <4>1. M \in Nat /\ N \in Nat /\ c \in Nat /\ d = c + N /\ d <= M
          BY <1>2, <2>1, <2>2 DEF N
        <4> HIDE DEF M
        <4>2. \A i \in 1..N : c + i \in 1..M
          BY ONLY <4>1
        <4> QED BY <4>2 DEF M
      <3> QED BY <3>2, <3>3, <3>4, <3>5
    <2>4. \A i \in 1..N : x[i] = IF n > k \/ n = a THEN q[i] ELSE 0
      <3> TAKE i \in 1..N
      <3>1. i \in 1..Len(atoms[n].items) /\ i \in 1..Len(atoms[n].sizes)
        BY <2>1
      <3>2. x[i] = w[c + i] /\ w[c + i] = IF n > k \/ n = a THEN q[i] ELSE 0
        BY <1>6, <2>3, <3>1
      <3> QED BY <3>2
    <2> HIDE DEF x, q
    <2>5. CASE n > k \/ n = a
      <3>1. \A i \in 1..N : x[i] = q[i]
        BY <2>4, <2>5
      <3>2. x = q
        BY <2>1, <2>3, <3>1, SeqEqual
      <3> QED BY <2>3, <2>5, <3>2 DEF x, q
    <2>6. CASE ~(n > k \/ n = a)
      <3>1. \A i \in 1..Len(x) : x[i] = 0
        BY <2>3, <2>4, <2>6
      <3>2. SumOf(x) = 0
        BY <2>3, <3>1, SumOfNone
      <3> QED BY <2>3, <2>6, <3>2 DEF x
    <2> QED BY <2>5, <2>6
  <1>8. ASSUME NEW n \in 1..L
        PROVE  /\ W(n - 1) \in Nat /\ W(n) \in Nat
               /\ W(n) = W(n - 1) + IF n > k \/ n = a THEN S(n) ELSE 0
    <2>1. n - 1 \in 0..L /\ n \in 0..L
      BY <1>1
    <2>2. C(n - 1) \in 0..Len(w) /\ C(n) \in C(n - 1)..Len(w)
      <3>1. Len(atoms[n].items) \in Nat
        BY AtomIs
      <3>2. C(n - 1) \in Nat /\ C(n) \in Nat /\ C(n) <= Len(items) /\ C(n) = C(n - 1) + Len(atoms[n].items)
        BY <1>2, <2>1
      <3> QED BY <1>2, <1>6, <3>1, <3>2, SMTT(40)
    <2>3. SubSeq(w, 1, C(n)) = SubSeq(w, 1, C(n - 1)) \o SubSeq(w, C(n - 1) + 1, C(n))
      <3> DEFINE c == C(n - 1)
                 d == C(n)
      <3> HIDE DEF c, d
      <3>1. w \in Seq(Nat) /\ c \in 0..Len(w) /\ d \in c..Len(w)
        BY <1>6, <2>2 DEF c, d
      <3>2. SubSeq(w, 1, c) \o SubSeq(w, c + 1, d) = SubSeq(w, 1, d)
        BY <3>1, PiecesMakeWhole
      <3> QED BY <3>2 DEF c, d
    <2>4. SubSeq(w, 1, C(n - 1)) \in Seq(Nat) /\ SubSeq(w, C(n - 1) + 1, C(n)) \in Seq(Nat)
      <3> DEFINE c == C(n - 1)
      <3> HIDE DEF c
      <3>1. c \in 0..Len(w)
        BY <2>2 DEF c
      <3>2. SubSeq(w, 1, c) \in Seq(Nat)
        BY <1>2, <1>6, <3>1, SMTT(40)
      <3> QED BY <1>7, <3>2 DEF c
    <2>5. W(n) = W(n - 1) + SumOf(SubSeq(w, C(n - 1) + 1, C(n)))
      BY <2>3, <2>4, SumOfTwo
    <2>6. W(n - 1) \in Nat /\ SumOf(SubSeq(w, C(n - 1) + 1, C(n))) \in Nat
      BY <2>4, SumIsNat
    <2>7. SumOf(SubSeq(w, C(n - 1) + 1, C(n))) = IF n > k \/ n = a THEN S(n) ELSE 0
      BY <1>7
    <2> HIDE DEF W, S
    <2> QED BY <2>5, <2>6, <2>7
  <1>9. \A n \in 1..L : /\ S(n) \in Nat
                        /\ AtomTokens(atoms[n]) = S(n) + (IF m # 0 /\ m = n THEN 1 ELSE 0)
                        /\ n = a => S(n) = v
    BY AtomTokensAre
  <1>10. W(0) = 0
    <2>1. SubSeq(w, 1, C(0)) = <<>>
      BY <1>2, SubSeqEmpty
    <2>2. <<>> \in Seq(Nat) /\ \A i \in 1..Len(<<>>) : <<>>[i] = 0
      OBVIOUS
    <2>3. SumOf(<<>>) = 0
      BY <2>2, SumOfNone
    <2> QED BY <2>1, <2>3
  <1>11. v \in Nat
    BY <1>1, <1>9
  <1> HIDE DEF W, S, v, m
  <1> DEFINE I == {n \in Nat : n <= L => W(n) + (IF m # 0 /\ m <= n THEN 1 ELSE 0)
                                           = P[n] + (IF a <= n THEN v ELSE 0)}
  <1>12. 0 \in I
    <2>1. ~(a <= 0) /\ ~(m # 0 /\ m <= 0)
      BY <1>1, <1>5
    <2> QED BY <1>10, <2>1
  <1>13. ASSUME NEW j \in Nat, j \in I PROVE j + 1 \in I
    <2> SUFFICES ASSUME j + 1 <= L
                 PROVE  W(j + 1) + (IF m # 0 /\ m <= j + 1 THEN 1 ELSE 0)
                          = P[j + 1] + (IF a <= j + 1 THEN v ELSE 0)
      OBVIOUS
    <2> DEFINE n == j + 1
    <2>1. n \in 1..L /\ n - 1 = j /\ j <= L /\ j \in 0..L
      BY <1>1
    <2>2. W(j) + (IF m # 0 /\ m <= j THEN 1 ELSE 0) = P[j] + (IF a <= j THEN v ELSE 0)
      BY <1>13, <2>1
    <2> HIDE DEF I, n
    <2>3. W(j) \in Nat /\ W(n) \in Nat /\ W(n) = W(j) + IF n > k \/ n = a THEN S(n) ELSE 0
      BY <1>8, <2>1
    <2>4. P[n] = P[j] + (IF n > k /\ n # a THEN AtomTokens(atoms[n]) ELSE 0) /\ P[j] \in Nat
      BY <2>1
    <2>5. /\ S(n) \in Nat /\ AtomTokens(atoms[n]) = S(n) + (IF m # 0 /\ m = n THEN 1 ELSE 0)
          /\ n = a => S(n) = v
      BY <1>9, <2>1
    <2>6. n = j + 1 /\ a \in 1..L /\ (m # 0 => m \in 1..L /\ m > k /\ m > a) /\ k \in 0..L /\ L \in Nat
      BY <1>1, <1>5 DEF n
    <2> HIDE DEF a, L
    <2>7. CASE n = a
      <3>1. ~(a <= j) /\ a <= n /\ ~(m # 0 /\ m <= n) /\ ~(m # 0 /\ m <= j)
        BY <2>6, <2>7
      <3> QED BY <1>11, <2>2, <2>3, <2>4, <2>5, <2>6, <2>7, <3>1 DEF n
    <2>8. CASE n # a /\ n > k
      <3>0. j \in Nat /\ n = j + 1 /\ a \in Nat /\ a # n /\ (m # 0 => m \in Nat)
        BY <2>6, <2>8
      <3>1. (a <= j <=> a <= n) /\ ((m # 0 /\ m <= n) <=> (m # 0 /\ m <= j) \/ (m # 0 /\ m = n))
            /\ ~((m # 0 /\ m <= j) /\ (m # 0 /\ m = n))
        <4>1. a <= j <=> a <= n
          BY <3>0
        <4>2. m # 0 => ((m <= n) <=> (m <= j) \/ (m = n)) /\ ~(m <= j /\ m = n)
          BY <3>0
        <4> QED BY <4>1, <4>2
      <3> DEFINE before == IF m # 0 /\ m <= j THEN 1 ELSE 0
                 now == IF m # 0 /\ m = n THEN 1 ELSE 0
                 task == IF a <= j THEN v ELSE 0
                 tokens == AtomTokens(atoms[n])
      <3>2. W(n) = W(j) + S(n)
        BY <2>3, <2>8
      <3>3. P[n] = P[j] + tokens /\ tokens = S(n) + now
        BY <2>4, <2>5, <2>8
      <3>4. before \in Nat /\ now \in Nat /\ task \in Nat
        BY <1>11
      <3>5. (IF m # 0 /\ m <= n THEN 1 ELSE 0) = before + now /\ (IF a <= n THEN v ELSE 0) = task
        BY <3>1
      <3>6. W(j) + before = P[j] + task
        BY <2>2
      <3>7. W(j) \in Nat /\ P[j] \in Nat /\ S(n) \in Nat
        BY <2>3, <2>4, <2>5
      <3> HIDE DEF before, now, task, tokens
      <3>8. W(n) + (before + now) = P[n] + task
        <4>1. PICK x \in Nat : x = W(j)
          BY <3>7
        <4>2. PICK y \in Nat : y = P[j]
          BY <3>7
        <4>3. PICK c \in Nat : c = S(n)
          BY <3>7
        <4>4. x + before = y + task
          BY <3>6, <4>1, <4>2
        <4>5. (x + c) + (before + now) = (y + (c + now)) + task
          BY <3>4, <4>4
        <4>6. W(n) = x + c /\ P[n] = y + (c + now)
          BY <3>2, <3>3, <4>1, <4>2, <4>3
        <4> QED BY <4>5, <4>6
      <3>9. W(n) + (IF m # 0 /\ m <= n THEN 1 ELSE 0) = P[n] + (IF a <= n THEN v ELSE 0)
        BY <3>5, <3>8
      <3> QED BY <3>9 DEF n
    <2>9. CASE n # a /\ ~(n > k)
      <3>1. (a <= j <=> a <= n) /\ ~(m # 0 /\ m <= n) /\ ~(m # 0 /\ m <= j)
        BY <2>1, <2>6, <2>9
      <3>2. W(n) = W(j) /\ P[n] = P[j]
        BY <2>3, <2>4, <2>9
      <3> QED BY <2>2, <3>1, <3>2 DEF n
    <2> QED BY <2>7, <2>8, <2>9
  <1> HIDE DEF I
  <1>14. L \in I
    <2>1. Nat \subseteq I
      BY <1>12, <1>13, NatInduct
    <2> QED BY <1>1, <2>1
  <1>15. W(L) + (IF m # 0 /\ m <= L THEN 1 ELSE 0) = P[L] + (IF a <= L THEN v ELSE 0)
    BY <1>1, <1>14 DEF I
  <1>16. a <= L /\ (m # 0 /\ m <= L <=> m # 0)
    BY <1>1, <1>5
  <1>17. W(L) = SumOf(w)
    <2>1. SubSeq(w, 1, Len(w)) = w
      BY <1>6, SubSeqFull
    <2> QED BY <1>2, <1>6, <2>1 DEF W
  <1>18. SumOf(w) \in Nat
    BY <1>6, SumIsNat
  <1>19. SumOf(w) + (IF m # 0 THEN 1 ELSE 0) = P[L] + v
    BY <1>15, <1>16, <1>17
  <1> QED BY <1>18, <1>19 DEF v, m

\* A request costs what its report says, and is sent only if that fits.
LEMMA FitsInContext == ContextInv /\ AnchorInv => RequestFits
  <1> SUFFICES ASSUME ContextInv, AnchorInv, pc = "ready"
               PROVE  ShownTokens <= caps.usable_input_budget
    BY DEF RequestFits
  <1> DEFINE L == Len(atoms)
             a == AnchorAt
             r == Report
             v == atoms[a].sizes[1]
             items == Items(atoms)
             sizes == FlattenSeq([n \in DOMAIN atoms |-> atoms[n].sizes])
             shown == ToSet(request.pre) \cup ToSet(request.post) \cup {request.anchor}
             w == [n \in DOMAIN items |-> IF items[n] \in shown THEN sizes[n] ELSE 0]
             m == IF MandatoryAt # 0 THEN 1 ELSE 0
             memory == IF request.covered # <<>> THEN MemoryFrame + Last(condensed).size ELSE 0
  <1>1. ConversationInv /\ ChainInv /\ a # 0 /\ request = Messages(r) /\ ~Hard(r)
    BY DEF ContextInv, PlanInv, AnchorInv
  <1>2. PICK k \in 0..L :
              /\ Tip = Count(atoms, k) /\ r.summary = Len(condensed)
              /\ r.uncovered = SubSeq(atoms, k + 1, L)
              /\ Covered(r.summary) = Items(SubSeq(atoms, 1, k))
              /\ Messages(r) =
                    [covered |-> Items(SubSeq(atoms, 1, k)),
                     pre |-> Items(SubSeq(atoms, k + 1, a - 1)), anchor |-> Anchor,
                     post |-> Items(SubSeq(atoms, Behind(k) + 1, L))]
    BY <1>1, TailIs
  <1>3. /\ Whole(atoms) /\ L \in Nat /\ atoms \in Seq(Atoms)
        /\ \A n \in 0..L : Count(atoms, n) \in Nat
        /\ \A n, j \in 0..L : n < j => Count(atoms, n) < Count(atoms, j)
    BY <1>1, ConversationIsWhole, CountsGrow DEF Whole
  <1>4. MandatoryAt # 0 => MandatoryAt > k
    <2> SUFFICES ASSUME MandatoryAt # 0 PROVE MandatoryAt > k
      OBVIOUS
    <2>1. MandatoryAt \in 1..L
      BY <1>3, MandatoryIs
    <2>2. Count(atoms, k) <= Count(atoms, MandatoryAt - 1)
      BY <1>1, <1>2, ConversationIsWhole DEF ChainInv
    <2>3. MandatoryAt - 1 \in 0..L /\ k \in 0..L
      BY <1>3, <2>1
    <2>4. MandatoryAt - 1 < k => Count(atoms, MandatoryAt - 1) < Count(atoms, k)
      BY <1>3, <2>3
    <2>5. Count(atoms, MandatoryAt - 1) \in Nat /\ Count(atoms, k) \in Nat
      BY <1>3, <2>3
    <2> QED BY <1>3, <2>1, <2>2, <2>3, <2>4, <2>5
  <1>5. request.covered = Items(SubSeq(atoms, 1, k)) /\ request.anchor = Anchor
        /\ request.pre = Items(SubSeq(atoms, k + 1, a - 1))
        /\ request.post = Items(SubSeq(atoms, Behind(k) + 1, L))
    BY <1>1, <1>2
  <1>6. \A n \in 1..L : \A i \in 1..Len(atoms[n].items) :
            atoms[n].items[i] \in shown <=> n > k \/ n = a
    BY <1>1, <1>5, ShownIs
  <1> DEFINE c == [n \in 1..L |-> IF n > k /\ n # a THEN AtomTokens(atoms[n]) ELSE 0]
  <1>7. PICK P \in [0..L -> Nat] :
              P[0] = 0 /\ \A n \in 1..L :
                P[n] = P[n - 1] + (IF n > k /\ n # a THEN AtomTokens(atoms[n]) ELSE 0)
    <2>1. \A n \in 1..L : AtomTokens(atoms[n]) \in Nat
      BY <1>3, HistoryIsNat
    <2>2. c \in [1..L -> Nat] /\ \A n \in 1..L : c[n] = IF n > k /\ n # a THEN AtomTokens(atoms[n]) ELSE 0
      BY <2>1
    <2> HIDE DEF c
    <2>3. PICK P \in [0..L -> Nat] : P[0] = 0 /\ \A n \in 1..L : P[n] = P[n - 1] + c[n]
      BY <1>3, <2>2, PartialSums
    <2> QED BY <2>2, <2>3
  <1>8. HistoryTokens(r.uncovered) = P[L]
    <2>1. HistoryTokens(SubSeq(atoms, k + 1, L)) = P[L]
      BY <1>1, <1>7, HistoryIs
    <2> QED BY <1>2, <2>1
  <1>9. SumOf(w) \in Nat /\ SumOf(w) + m = P[L] + v
    <2>1. /\ sizes \in Seq(Nat) /\ Len(sizes) = Len(items)
          /\ \A n \in 1..L : \A i \in 1..Len(atoms[n].sizes) :
                sizes[Count(atoms, n - 1) + i] = atoms[n].sizes[i]
      BY <1>1, SizesOfItems
    <2>2. \A n \in 1..L : \A i \in 1..Len(atoms[n].items) :
            Count(atoms, n - 1) + i \in 1..Len(items) /\ items[Count(atoms, n - 1) + i] = atoms[n].items[i]
      BY <1>3, ItemPlaces
    <2>3. \A n \in 1..L : Len(atoms[n].sizes) = Len(atoms[n].items)
      BY <1>1, AtomIs
    <2>4. items \in Seq(Nat) /\ Len(items) \in Nat /\ DOMAIN items = 1..Len(items)
      BY <1>3, ItemsStep
    <2> HIDE DEF items, sizes, shown
    <2>5. \A j \in 1..Len(items) : sizes[j] \in Nat
      BY <2>1, <2>4
    <2>6. \A j \in 1..Len(items) : w[j] = (IF items[j] \in shown THEN sizes[j] ELSE 0) /\ w[j] \in Nat
      BY <2>4, <2>5
    <2>7. w \in Seq(Nat) /\ Len(w) = Len(items)
      <3>1. w = [j \in 1..Len(items) |-> w[j]]
        BY <2>4
      <3> HIDE DEF w
      <3> QED BY <2>4, <2>6, <3>1
    <2> HIDE DEF w
    <2>8. ASSUME NEW n \in 1..L, NEW i \in 1..Len(atoms[n].items)
          PROVE  w[Count(atoms, n - 1) + i] = IF n > k \/ n = a THEN atoms[n].sizes[i] ELSE 0
      <3> DEFINE j == Count(atoms, n - 1) + i
      <3>1. j \in 1..Len(items) /\ items[j] = atoms[n].items[i]
        BY <2>2
      <3>2. sizes[j] = atoms[n].sizes[i]
        <4>1. i \in 1..Len(atoms[n].sizes)
          BY <2>3
        <4> QED BY <2>1, <4>1
      <3>3. items[j] \in shown <=> n > k \/ n = a
        BY <1>6, <3>1
      <3> HIDE DEF j
      <3>4. w[j] = IF n > k \/ n = a THEN atoms[n].sizes[i] ELSE 0
        BY <2>6, <3>1, <3>2, <3>3
      <3> QED BY <3>4 DEF j
    <2>9. Len(w) = Len(Items(atoms))
      BY <2>7 DEF items
    <2> QED BY <1>1, <1>4, <1>7, <2>7, <2>8, <2>9, ShownCost, ZenonT(60)
  <1>10. memory = MemoryTokens(r.summary)
    <2>1. condensed \in Seq(Summaries) /\ Len(condensed) \in Nat
      BY <1>1 DEF ChainInv
    <2>2. request.covered = <<>> <=> Len(condensed) = 0
      <3>1. request.covered = Covered(Len(condensed)) /\ Len(Covered(Len(condensed))) = Tip
            /\ (Len(condensed) = 0 => Tip = 0)
        BY <1>1, <1>2, <1>5, LatestIsInUse
      <3>2. Len(condensed) # 0 => Tip # 0
        <4>1. Len(condensed) # 0 => Tip = condensed[Len(condensed)].count
          BY <2>1 DEF Tip, CountBefore
        <4>2. Len(condensed) # 0 => /\ CountBefore(Len(condensed)) \in Nat
                                    /\ CountBefore(Len(condensed)) < condensed[Len(condensed)].count
                                    /\ condensed[Len(condensed)].count \in Nat
          <5>1. Len(condensed) # 0 => Len(condensed) \in 1..Len(condensed)
            BY <2>1
          <5> QED BY <1>1, <5>1, CoverageGrows
        <4> QED BY <4>1, <4>2
      <3>3. request.covered \in Seq(Nat)
        BY <1>3, <1>5, ItemsStep
      <3> QED BY <3>1, <3>2, <3>3
    <2> QED BY <1>2, <2>2 DEF MemoryTokens, Last
  <1>11. r.total = (Instructions + v) + (MemoryTokens(r.summary) + HistoryTokens(r.uncovered))
    <2>1. r = ReportOn(r.summary, r.uncovered)
      BY DEF Report, ReportWith, ReportOn
    <2> HIDE DEF r
    <2> QED BY <1>1, <2>1 DEF ReportOn
  <1>12. ShownTokens = ((Instructions + SumOf(w)) + m) + memory
    BY DEF ShownTokens
  <1>13. /\ Instructions \in Nat /\ MemoryTokens(r.summary) \in Nat /\ v \in Nat /\ P[L] \in Nat
         /\ m \in Nat
    <2>1. v \in Nat
      <3>1. a \in 1..L
        BY <1>1, <1>3, AnchorIsLast
      <3>2. SumOf(atoms[a].sizes) \in Nat /\ SumOf(atoms[a].sizes) = v
        BY <1>1, <3>1, AtomTokensAre
      <3> QED BY <3>2
    <2>2. MemoryTokens(r.summary) \in Nat
      <3>1. Len(condensed) # 0 => condensed[Len(condensed)].size \in Nat
        <4>1. Len(condensed) # 0 => condensed[Len(condensed)] \in Summaries
          BY <1>1 DEF ChainInv
        <4>2. SummarySizes \subseteq Nat
          BY CapsAssumption
        <4> QED BY <4>1, <4>2 DEF Summaries
      <3>2. MemoryFrame \in Nat
        BY CapsAssumption
      <3> QED BY <1>2, <3>1, <3>2 DEF MemoryTokens
    <2>3. Instructions \in Nat
      BY CapsAssumption
    <2> QED BY <1>3, <1>7, <2>1, <2>2, <2>3
  <1>14. r.total <= caps.usable_input_budget
    <2>1. r.total \in Nat /\ caps.usable_input_budget \in Nat
      BY <1>1, TotalIsNat
    <2>2. ~(r.total > caps.usable_input_budget)
      BY <1>1 DEF Hard
    <2> QED BY <2>1, <2>2
  <1> DEFINE x == SumOf(w)
             y == MemoryTokens(r.summary)
             h == P[L]
  <1> HIDE DEF r, v, w, m, memory, x, y, h, L
  <1>15. ((Instructions + x) + m) + y = (Instructions + v) + (y + h)
    <2>1. x \in Nat /\ x + m = h + v /\ Instructions \in Nat /\ y \in Nat /\ v \in Nat /\ h \in Nat /\ m \in Nat
      BY <1>9, <1>13 DEF x, y, h
    <2> QED BY <2>1
  <1>16. ShownTokens = r.total
    BY <1>8, <1>10, <1>11, <1>12, <1>15 DEF x, y, h
  <1> QED BY <1>14, <1>16

\* A request that goes out tells the whole conversation, once and in order, with
\* the task at its own place; it fits the input budget, everything it shows
\* counted; and the passes that prepare it are limited (ContextManager.build,
\* _prepare_context).
THEOREM RequestsTellEverythingAndFit == ContextSpec => []PreparationIsSound
  <1>1. ContextInv /\ AnchorInv => PreparationIsSound
    BY TypedInContext, BoundedInContext, ToldInContext, FitsInContext DEF PreparationIsSound
  <1> QED BY <1>1, ContextIsInv, AnchorIsThere, PTL
================================================================================
