------------------------------ MODULE MC_ModelSide ------------------------------
EXTENDS Tools, Gateway, Condensation

\* What the model is given and what it may ask for.  A behaviour runs one tool, one exchange with
\* a provider, or the context of a conversation; the rest stays as it begins.

MCOrder == <<<<"secrets">>, <<"secrets", "b">>, <<"src">>, <<"src", "a">>, <<"src", "key">>,
             <<"env">>, <<"ln">>, <<"top">>>>
MCSensitiveNames == {"secrets", "env", "key"}
All == {MCOrder[i] : i \in DOMAIN MCOrder}
MCTrees ==
    {t \in [All -> {"dir", "file", "binary", "link", "outlink", "absent"}] :
        /\ t[<<"src">>] = "dir"
        /\ t[<<"src", "a">>] = "file" /\ t[<<"src", "key">>] \in {"file", "absent"}
        /\ t[<<"secrets">>] = "dir" /\ t[<<"secrets", "b">>] = "file"
        /\ t[<<"env">>] = "file" /\ t[<<"ln">>] \in {"link", "outlink"}
        /\ t[<<"top">>] \in {"file", "binary", "absent"}}

BoundedSeqs(S, n) == UNION {[1..k -> S] : k \in 0..n}
MCContents == BoundedSeqs({1, 2, 4}, 5)
Rec(k, p) == [kind |-> k, path |-> p]
MCOutputs == BoundedSeqs({Rec("match", <<"src", "a">>), Rec("match", <<"top">>),
                          Rec("match", <<"secrets", "b">>), Rec("other", <<>>),
                          Rec("bytes", <<"src", "a">>)}, 4)
Entry(s, p, o) == [status |-> s, path |-> p, orig |-> o]
MCStatuses == BoundedSeqs({Entry(<<"M", "_">>, <<"a">>, None), Entry(<<"?", "?">>, <<"a", "b">>, None),
                           Entry(<<"R", "_">>, <<"c">>, <<"M", " ", " ", "d">>),
                           Entry(<<"_", "R">>, <<"a">>, <<"b">>)}, 3)
MCTexts == BoundedSeqs({"a", "CR", "LF"}, 4)
MCSnippets == BoundedSeqs({"a", "CR", "LF"}, 2)
MCCalls == BoundedSeqs({"ok", "badjson", "nonobject"}, 3)
MCModels == {Unset, "glm-5.2", "glm-5.3", "glm-4", "deepseek-v4-flash", "deepseek-v4-pro", "deepseek-v3"}

\* A budget of a dozen tokens, and a condenser that reads seven of them.
Caps == [usable_input_budget |-> 12, condenser_usable_input_budget |-> 7,
         max_events |-> 4, target_events |-> 2, soft_percent |-> 80, target_percent |-> 50,
         summary_max_tokens |-> 2, progress_percent |-> 10]

NoTool == job = "none" /\ input = None /\ phase = "done" /\ out = None
NoExchange == gphase = "none" /\ gin = Unset /\ gout = Unset

Init == /\ ContextInit
        /\ \/ ToolInit /\ NoExchange
           \/ GatewayInit /\ NoTool
           \/ NoTool /\ NoExchange
Next == \/ ToolNext /\ UNCHANGED <<gatewayVars, contextVars>>
        \/ GatewayNext /\ UNCHANGED <<toolVars, contextVars>>
        \/ job = "none" /\ gphase = "none" /\ ContextNext /\ UNCHANGED <<toolVars, gatewayVars>>
Spec == Init /\ [][Next]_<<toolVars, gatewayVars, contextVars>> /\ ToolFairness
================================================================================
