------------------------------ MODULE MC_Fixtures ------------------------------
EXTENDS Signing, HttpClient, HttpText, HttpProxies,
        ClickParser, ClickParams, ClickContext, ClickHelp, ClickTerminal, ClickTesting

\* The fixture libraries share nothing: a behaviour exercises one of them, the others stay as they
\* are created.
VARIABLE side

Url(s, h) == [scheme |-> s, host |-> h]
MCUrls == {Url("http", "a"), Url("https", "a"), Url("https", "b")}
Ask(m, u, b, a, f, s) == [method |-> m, url |-> u, body |-> b, auth |-> a, follow |-> f, stream |-> s]
MCRequests == {Ask("POST", Url("http", "a"), "generator", "digest", TRUE, FALSE),
               Ask("GET", Url("http", "a"), "none", "digest", TRUE, TRUE),
               Ask("POST", Url("https", "a"), "bytes", "basic", TRUE, FALSE),
               Ask("HEAD", Url("https", "b"), "none", "none", FALSE, FALSE)}
MCSerializers == {[timed |-> TRUE, urlsafe |-> TRUE], [timed |-> FALSE, urlsafe |-> FALSE]}

Entry(f, h, p, s) == [form |-> f, host |-> h, port |-> p, scheme |-> s]
MCHosts == {<<"site", "com">>, <<"www", "site", "com">>, <<"mysite", "com">>, <<"localhost">>}
MCEntries == {Entry("*", <<>>, 0, ""), Entry("name", <<"site", "com">>, 0, ""), Entry("dot", <<"site", "com">>, 0, ""),
              Entry("name", <<"site", "com">>, 8080, ""), Entry("url", <<"site", "com">>, 0, "http"),
              Entry("name", <<"localhost">>, 0, ""), Entry("url", <<"www", "site", "com">>, 8080, "https")}
MCAddresses == {<<"localhost">>}

Opt(d, ns, a, n, m, c) == [dest |-> d, names |-> ns, action |-> a, nargs |-> n, omit |-> m, const |-> c]
Flags == <<Opt("a", {<<"-", "a">>}, "count", 1, FALSE, ""), Opt("n", {<<"-", "n">>, <<"-", "-", "n">>}, "store", 1, TRUE, ""),
           Opt("s", {<<"-", "-", "s">>}, "store_const", 1, FALSE, "on"), Opt("s", {<<"+", "s">>}, "store_const", 1, FALSE, "off")>>
Values == <<Opt("a", {<<"-", "a">>, <<"-", "-", "a">>}, "append", 2, FALSE, ""), Opt("n", {<<"-", "n">>}, "store", 1, FALSE, ""),
            Opt("s", {<<"-", "-", "s">>}, "append_const", 1, FALSE, "on")>>
Grammar(o, args, i, u, f, r) == [options |-> o, args |-> args, interspersed |-> i, ignores |-> u, folds |-> f, resilient |-> r]
MCGrammars == {Grammar(Flags, <<1, -1, 2>>, TRUE, FALSE, TRUE, FALSE), Grammar(Flags, <<1>>, FALSE, TRUE, FALSE, FALSE),
               Grammar(Values, <<2, 1>>, TRUE, TRUE, FALSE, FALSE), Grammar(Values, <<-1, 1, 1>>, TRUE, FALSE, FALSE, TRUE)}
MCWords == {<<"x">>, <<"y">>, <<"-">>, <<"-", "-">>, <<"-", "a">>, <<"-", "n">>, <<"-", "a", "n", "x">>, <<"-", "x", "A", "n">>,
            <<"-", "-", "n">>, <<"-", "-", "n", "=", "x">>, <<"-", "n", "-", "a">>, <<"-", "-", "s">>, <<"+", "s">>,
            <<"-", "-", "a", "=", "x">>, <<"-", "-", "n", "=", "-", "a">>, <<"-", "-", "x">>}

Param(n, f, d) == [name |-> n, flag |-> f, default |-> d, needs |-> FALSE, multiple |-> FALSE, required |-> FALSE,
                   eager |-> FALSE, exposed |-> TRUE, callback |-> FALSE, prompt |-> FALSE, promptRequired |-> TRUE]
MCParamLists == {
    <<Param("x", "value", "unset"), Param("x", "value", "true"), [Param("y", "no", "unset") EXCEPT !.callback = TRUE]>>,
    <<Param("x", "value", "unset"), [Param("x", "value", "given") EXCEPT !.eager = TRUE],
      [Param("x", "no", "unset") EXCEPT !.callback = TRUE]>>,
    <<Param("x", "bool", "unset"), [Param("x", "bool", "given") EXCEPT !.eager = TRUE],
      [Param("y", "bool", "unset") EXCEPT !.multiple = TRUE, !.callback = TRUE]>>,
    <<[Param("x", "no", "none") EXCEPT !.prompt = TRUE, !.promptRequired = FALSE, !.needs = TRUE],
      [Param("y", "bool", "unset") EXCEPT !.callback = TRUE, !.eager = TRUE]>>,
    <<Param("x", "no", "unset"), [Param("x", "no", "given") EXCEPT !.prompt = TRUE],
      [Param("y", "no", "unset") EXCEPT !.required = TRUE, !.exposed = FALSE]>>,
    <<[Param("x", "no", "unset") EXCEPT !.multiple = TRUE, !.required = TRUE],
      [Param("y", "value", "true") EXCEPT !.prompt = TRUE, !.callback = TRUE]>>}
MCReadings == {<<>>, <<"good">>, <<"bad">>, <<"empty", "good">>, <<"no">>}

App(k, n, w, r, s) == [kind |-> k, subcommands |-> n, without |-> w, resultCallback |-> r, standalone |-> s]
MCPrograms == {App("command", 0, FALSE, FALSE, TRUE), App("group", 1, FALSE, TRUE, FALSE), App("group", 0, TRUE, TRUE, TRUE),
               App("chain", 0, FALSE, FALSE, TRUE), App("chain", 2, FALSE, TRUE, TRUE)}

MCBars == {Progressbar(2, 2, 2, 0, TRUE, FALSE), Progressbar(3, 3, 2, 3, TRUE, FALSE), Progressbar(-1, 1, 1, 0, TRUE, FALSE),
           Progressbar(2, 1, 1, 0, FALSE, FALSE), Progressbar(1, 1, 2, 3, TRUE, TRUE)}
Pager(p, ps, w, c, l) == [ttys |-> TRUE, PAGER |-> p, params |-> ps, found |-> TRUE, dumb |-> FALSE, win |-> w,
                          color |-> c, LESS |-> l]
RawChars == [dashes |-> 1, asks |-> "r"]
LongR == [dashes |-> 2, asks |-> "r"]
MCPagers == {Pager("unset", {}, FALSE, "none", {}), Pager("unset", {}, FALSE, "none", {LongR}),
             Pager("less", {RawChars}, FALSE, "none", {LongR}), Pager("most", {}, FALSE, "none", {RawChars}),
             Pager("most", {}, FALSE, "yes", {}), Pager("unset", {}, TRUE, "none", {}),
             [Pager("unset", {}, FALSE, "none", {}) EXCEPT !.ttys = FALSE],
             [Pager("unset", {}, FALSE, "yes", {}) EXCEPT !.dumb = TRUE]}
Named(g, v, e) == [given |-> g, VISUAL |-> v, EDITOR |-> e]
MCEdits == {EditText("text", Text("a", "none", FALSE), TRUE, FALSE, Named("", "", "ed"), <<"nano">>),
            EditText("text", Text("a", "lf", FALSE), FALSE, TRUE, Named("", "", ""), <<>>),
            EditText("bytes", Text("a", "crlf", TRUE), TRUE, TRUE, Named("mine", "", "ed"), <<>>),
            EditText("none", EmptyText, TRUE, FALSE, Named("", "", ""), <<"nano">>)}
MCSaves == {Text("b", "crlf", TRUE), Text("b", "none", FALSE)}

Runner(v, e, c, h, l) == [env |-> [k \in {"K"} |-> v], echo |-> e, capture |-> c, catch |-> h, lines |-> l]
MCRunners == {Runner("x", TRUE, "sys", TRUE, <<"bad", "a", "", "a">>), Runner("", FALSE, "fd", FALSE, <<"a", "yes">>)}
Prompt(k, h, t, d, e) == [kind |-> k, hide |-> h, twice |-> t, default |-> d, err |-> e, abort |-> TRUE, form |-> "word"]
MCPrompts == {Prompt("prompt", TRUE, TRUE, "none", FALSE), Prompt("prompt", FALSE, FALSE, "object", TRUE),
              Prompt("confirm", FALSE, FALSE, "none", FALSE)}

\* What the parts that are not exercised look like.
OneGrammar == CHOOSE g \in Grammars : TRUE
OneProgram == CHOOSE p \in Programs : TRUE
ParserAtRest == /\ grammar = OneGrammar /\ argv = <<>> /\ first = NotParsed /\ parse = ParsingState(OneGrammar, <<>>)
ParamsAtRest == /\ params = <<>> /\ ctx = <<>> /\ todo = <<>> /\ outcome = "parsing" /\ consumed = <<>> /\ seen = {}
                /\ inputs = [cli |-> <<>>, environ |-> <<>>, map |-> <<>>, resilient |-> FALSE]
ContextAtRest == program = OneProgram
HelpAtRest == /\ help = [words |-> <<>>, limit |-> 0] /\ short = NotMade

SymmetricValues == Permutations(Salts) \cup Permutations(Tasks)

BarAtRest == bar = NewBar(CHOOSE a \in Bars : TRUE)
PagerAtRest == pager = NewPager(CHOOSE a \in Pagers : TRUE)
EditAtRest == edit = NewEdit(CHOOSE a \in Edits : TRUE)
TestingAtRest == host = NewHost([k \in Keys |-> CHOOSE v \in Settings : TRUE]) /\ frames = <<>> /\ result = <<>>

clickVars == <<parserVars, paramVars, contextVars, helpVars>>
hostVars == <<terminalVars, testingVars>>
ClickAtRest == ParserAtRest /\ ParamsAtRest /\ ContextInit /\ ContextAtRest /\ HelpAtRest

ClickInit == \/ side = "parser" /\ ParserInit /\ ParamsAtRest /\ ContextInit /\ ContextAtRest /\ HelpAtRest
             \/ side = "params" /\ ParserAtRest /\ ParamsInit /\ ContextInit /\ ContextAtRest /\ HelpAtRest
             \/ side = "context" /\ ParserAtRest /\ ParamsAtRest /\ ContextInit /\ HelpAtRest
             \/ side = "help" /\ ParserAtRest /\ ParamsAtRest /\ ContextInit /\ ContextAtRest /\ HelpInit

ClickNext == \/ side = "parser" /\ ParserNext /\ UNCHANGED <<paramVars, contextVars, helpVars>>
             \/ side = "params" /\ ParamsNext /\ UNCHANGED <<parserVars, contextVars, helpVars>>
             \/ side = "context" /\ ContextNext /\ UNCHANGED <<parserVars, paramVars, helpVars>>
             \/ side = "help" /\ HelpNext /\ UNCHANGED <<parserVars, paramVars, contextVars>>

HostIsAtRest == BarAtRest /\ PagerAtRest /\ EditAtRest /\ TestingAtRest
HostStarts == \/ side = "bar" /\ bar \in {NewBar(a) : a \in Bars} /\ PagerAtRest /\ EditAtRest /\ TestingAtRest
              \/ side = "pager" /\ BarAtRest /\ pager \in {NewPager(a) : a \in Pagers} /\ EditAtRest /\ TestingAtRest
              \/ side = "edit" /\ BarAtRest /\ PagerAtRest /\ edit \in {NewEdit(a) : a \in Edits} /\ TestingAtRest
              \/ side = "testing" /\ BarAtRest /\ PagerAtRest /\ EditAtRest /\ TestingInit

HostNext == \/ side = "bar" /\ BarNext /\ UNCHANGED <<pager, edit, testingVars>>
            \/ side = "pager" /\ PagerNext /\ UNCHANGED <<bar, edit, testingVars>>
            \/ side = "edit" /\ EditNext /\ UNCHANGED <<bar, pager, testingVars>>
            \/ side = "testing" /\ TestingNext /\ UNCHANGED terminalVars

NoBody == size = 0
NoEnviron == environ = [schemes |-> {}, no |-> {}]

Init == /\ \/ side \in {"signing", "client"} /\ NoBody /\ NoEnviron /\ ClickAtRest /\ HostIsAtRest
           \/ side = "text" /\ NoEnviron /\ ClickAtRest /\ HostIsAtRest
           \/ side = "proxies" /\ NoBody /\ ClickAtRest /\ HostIsAtRest
           \/ ClickInit /\ NoBody /\ NoEnviron /\ HostIsAtRest
           \/ HostStarts /\ NoBody /\ NoEnviron /\ ClickAtRest
        /\ SigningInit /\ HttpInit /\ TextInit /\ ProxiesInit

Next == /\ UNCHANGED side
        /\ \/ side = "signing" /\ SigningNext /\ UNCHANGED <<httpVars, textVars, proxyVars, clickVars, hostVars>>
           \/ side = "client" /\ HttpNext /\ UNCHANGED <<signVars, textVars, proxyVars, clickVars, hostVars>>
           \/ side = "text" /\ TextNext /\ UNCHANGED <<signVars, httpVars, proxyVars, clickVars, hostVars>>
           \/ side = "proxies" /\ ProxiesNext /\ UNCHANGED <<signVars, httpVars, textVars, clickVars, hostVars>>
           \/ ClickNext /\ UNCHANGED <<signVars, httpVars, textVars, proxyVars, hostVars>>
           \/ HostNext /\ UNCHANGED <<signVars, httpVars, textVars, proxyVars, clickVars>>

Spec == Init /\ [][Next]_<<signVars, httpVars, textVars, proxyVars, clickVars, hostVars, side>>

\* What goes over the wire is what the caller gave: no credentials or bodies where they do not belong
\* (HttpClient), and every byte of an answer decoded once (HttpText).
HttpIsFaithful == SendsAreSafe /\ BodiesDecodeExactly

\* Two algorithms that evaluation tasks change do what they say before the change: the choice of a proxy
\* (httpx-no-proxy-cidr) and the short help (click-short-help-sentences).
TaskTargetsAreRight == NoProxyIsHonoured /\ ShortHelpIsTheFirstSentence

\* What click takes from its surroundings it gives back: the terminal's line, processes and files
\* (ClickTerminal), and the process that commands are tested in (ClickTesting).
HostIsGivenBack == TerminalIsGivenBack /\ RunsAreIsolated
===============================================================================
