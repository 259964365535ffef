----------------------------- MODULE MC_Workspace -----------------------------
EXTENDS Lifecycle, Sources, Commands

\* A session's workspace from its creation to its removal, the prepared sources of the benchmark,
\* and the commands that run in a worktree: a behaviour exercises one of them, the others stay as
\* they begin.
VARIABLE side

\* A home with the source and a denied directory, a worktree, a cache, /tmp and
\* a host directory "o" with a file that does not exist yet.
MCPaths == {<<>>, <<"h">>, <<"h", "ssh">>, <<"h", "src">>, <<"h", "src", "git">>,
            <<"w">>, <<"w", "git">>, <<"c">>, <<"t">>, <<"o">>, <<"o", "x">>}
MCCandidate == <<"w">>
MCSource == <<"h", "src">>
MCCache == <<"c">>
MCTmp == <<"t">>
MCGitPaths == {<<"h", "src", "git">>, <<"w", "git">>}
MCHardDeny == {<<"h", "ssh">>}
MCInitialFs == [p \in MCPaths |-> IF p = <<"o", "x">> THEN None ELSE [inode |-> 1, stamp |-> 0]]

Ask(c, s, p) == [capability |-> c, scope |-> s, resource |-> p]
WriteOnce == Ask("write", "once", <<"o">>)
WriteSession == Ask("write", "session", <<"o">>)
MCRequests ==
    {{}, {WriteSession}, {Ask("write", "once", <<"o", "x">>)},
     {WriteOnce, Ask("network", "once", None)}, {Ask("write", "once", <<"h">>)},
     {Ask("network", "session", None), Ask("read", "session", <<"h", "src">>),
      Ask("write", "session", <<"w">>)}}

File(d, x) == [data |-> d, exec |-> x]
MCBaseTree == [f \in {"code", "secret", "quoted"} |-> IF f = "code" THEN File("v0", FALSE) ELSE None]
MCEffects == {<<"code", File("v0", FALSE)>>, <<"code", File("v1", TRUE)>>,
              <<"quoted", File("v1", FALSE)>>, <<"secret", File("v1", FALSE)>>}

NoSession == proc = Closed
NoSources == tag = CHOOSE d \in Digests : TRUE
OneBackend == backend = "bwrap"

Init == /\ LifecycleInit /\ SourcesInit /\ CommandsInit
        /\ \/ side = "session" /\ NoSources /\ OneBackend
           \/ side = "sources" /\ NoSession /\ OneBackend
           \/ side = "commands" /\ NoSession /\ NoSources
Next == /\ UNCHANGED side
        /\ \/ side = "session" /\ LifecycleNext /\ UNCHANGED <<sourceVars, commandVars>>
           \/ side = "sources" /\ SourcesNext /\ UNCHANGED <<vars, commandVars>>
           \/ side = "commands" /\ CommandsNext /\ UNCHANGED <<vars, sourceVars>>
Spec == Init /\ [][Next]_<<vars, sourceVars, commandVars, side>>
================================================================================
