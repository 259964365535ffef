------------------------------- MODULE Commands -------------------------------
(***************************************************************************)
(* One run_command call, from its permission requests to its evidence:     *)
(* parsing and policy (permissions.py, sandbox_policy.py), the approval    *)
(* wait (approval.py), the recheck before the start, the two backends      *)
(* (sandbox_executor.py with bubblewrap.py, benchmark/swebench_executor.py)*)
(* and what CommandService makes of the outcome (command_service.py,       *)
(* workspace_audit.py, git_snapshot.py, artifacts.py).                     *)
(* A path is a sequence of names; the file system maps a path to the       *)
(* identity of its object, or to None.  The Candidate is a function from   *)
(* its files to their contents, with the executable bit as part of them.   *)
(***************************************************************************)
EXTENDS Integers, FiniteSets, FiniteSetsExt, SequencesExt

CONSTANTS
    Paths,              \* the host paths told apart, closed under prefixes
    Candidate, Source, Cache, Tmp,      \* active_root, source_root, runtime_cache, /tmp
    GitPaths,           \* protected_readonly_paths
    HardDeny,           \* hard_deny_paths
    Requests,           \* the permission sets a call may carry
    InitialFs,          \* the file system at the start
    Files, Quoted, Sensitive,   \* files of the Candidate; names git quotes; names the guard refuses
    BaseTree,           \* the Candidate's files in the base commit
    Effects,            \* what a command may write: <<file, content>>
    MaxCommands,        \* bound: calls
    MaxDisturbances,    \* bound: crashes, outside changes, writes of stragglers
    None

Names == UNION {Range(p) : p \in Paths}

ASSUME PathsAssumption ==
    /\ Paths \subseteq Seq(Names) /\ None \notin Paths
    /\ \A p \in Paths : \A i \in 0..Len(p) : SubSeq(p, 1, i) \in Paths
    /\ {Candidate, Source, Cache, Tmp} \cup GitPaths \cup HardDeny \subseteq Paths

\* What stat tells of an object: its inode, and size and times as a stamp.
Identities == [inode : Nat, stamp : Nat]

ASSUME FsAssumption ==
    /\ None \notin Identities
    /\ InitialFs \in [Paths -> {None} \cup Identities] /\ InitialFs[<<>>] # None

\* The contents a file of the Candidate can have; no hash of a content is the
\* word that stands for a file that is not there.
Contents == {BaseTree[f] : f \in Files} \cup {e[2] : e \in Effects}

ASSUME FilesAssumption ==
    /\ Quoted \cup Sensitive \subseteq Files
    /\ BaseTree \in [Files -> Contents]
    /\ None \notin Effects /\ \A e \in Effects : e[1] \in Files
    /\ \A c \in Contents \ {None} : c.data # "<missing>"

\* What the arguments of a call can ask for; network has no resource.
PermissionRequests ==
    {r \in [capability : {"read", "write", "network"}, scope : {"once", "session"},
            resource : Paths \cup {None}] : r.capability # "network" => r.resource \in Paths}

ASSUME RequestsAssumption == Requests \subseteq SUBSET PermissionRequests

ASSUME CommandBounds == MaxCommands \in Nat /\ MaxDisturbances \in Nat

VARIABLES
    backend,    \* "bwrap" or "docker": the executor of this session
    fs,         \* path -> identity of the object there
    cand,       \* the Candidate's files
    grants,     \* permission_grants of session.json
    wstate,     \* workspace_state
    revision,   \* candidate_revision
    cmd,        \* the call in progress
    records,    \* command_completed events
    evidence,   \* validation_completed events
    dirs,       \* execution ids with a diagnostics directory
    live,       \* execution ids with processes still running
    approved,   \* history: what the user said yes to
    crashed,    \* history: calls the Runtime died in
    counted     \* history: counters behind the bounds

commandVars == <<backend, fs, cand, grants, wstate, revision, cmd, records, evidence, dirs, live,
          approved, crashed, counted>>

NoCommand == [phase |-> "idle"]

--------------------------------------------------------------------------------
(* Permission requests                                                     *)

\* _inside, _contains and _overlap on resolved paths.
Inside(p, root) == IsPrefix(root, p)
Overlap(p, q) == Inside(p, q) \/ Inside(q, p)

\* Where the parts of a session lie: worktree and cache have directories of their
\* own below the session root (git_worktree.py, artifacts.py), apart from the
\* source and from what is denied, session.json included (_hard_deny_paths); the
\* common Git directory of the worktree is the source's (_protected_git_paths).
ASSUME LayoutAssumption ==
    /\ \A p \in {Candidate, Cache} :
          /\ ~Overlap(p, Source) /\ \A g \in GitPaths : ~Inside(p, g)
          /\ \A d \in HardDeny : ~Overlap(p, d)
    /\ \A g \in GitPaths, d \in HardDeny : ~Overlap(g, d)
    /\ \E g \in GitPaths : Inside(g, Source)

\* Path.resolve(strict=True), or for a missing write target its nearest
\* existing parent.
Existing(f, p) == LET up == {i \in 0..Len(p) : f[SubSeq(p, 1, i)] # None}
                  IN  SubSeq(p, 1, Max(up))

\* The parsed request, or None where parse_permission_request raises.
Parse(f, r) ==
    IF r.capability = "network" THEN [req |-> r, path |-> None, ident |-> None]
    ELSE LET p == Existing(f, r.resource)
         IN  IF \/ p # r.resource /\ (r.capability = "read" \/ p = <<>>)
                \/ \E d \in HardDeny : f[d] # None /\ Overlap(p, d)
             THEN None
             ELSE [req |-> r, path |-> p, ident |-> f[p]]

\* recheck_request: the same path resolves to the same object with the same
\* size and times.
SameObject(f, q) ==
    q.path = None \/ (Existing(f, q.req.resource) = q.path /\ f[q.path] = q.ident)

\* _covered: a session grant of the same object, whatever happened to its
\* content.  The objects must agree even below a granted directory.
Covered(q) ==
    \E g \in grants :
        \/ q.req.capability = "network" /\ g.capability = "network"
        \/ /\ q.path # None /\ g.path # None
           /\ g.capability = q.req.capability \/ (g.capability = "write" /\ q.req.capability = "read")
           /\ g.ident.inode = q.ident.inode
           /\ Inside(q.path, g.path)

\* SandboxPolicy.evaluate
Evaluate(q) ==
    IF Covered(q) THEN "allow"
    ELSE IF q.req.capability = "network" THEN "ask"
    ELSE IF \E d \in HardDeny : fs[d] # None /\ Overlap(q.path, d) THEN "deny"
    ELSE IF q.req.capability = "read" THEN "allow"
    ELSE IF Inside(q.path, Source) \/ \E g \in GitPaths : Overlap(q.path, g) THEN "deny"
    ELSE IF Inside(q.path, Candidate) \/ Inside(q.path, Cache) THEN "allow"
    ELSE "ask"

\* SandboxPolicy.grant; the execution id makes every grant a new one.
Grant(q, exec) == [capability |-> q.req.capability, path |-> q.path, ident |-> q.ident,
                   exec |-> exec]

--------------------------------------------------------------------------------
(* What a command can reach                                                *)

\* SandboxPolicy.effective of the session's grants and the call's own.
Effective(session, once) ==
    LET all == session \cup once
    IN  [reads   |-> {g.path : g \in {h \in all : h.capability = "read"}},
         writes  |-> {g.path : g \in {h \in all : h.capability = "write"}},
         network |-> \E g \in all : g.capability = "network"]

\* MountPlan.build: layers of mounts, each hiding what is below it.  The empty
\* directories made below the private /tmp are left out.
MountPlan(policy) ==
    << [mode |-> "ro", at |-> {<<>>}], [mode |-> "private", at |-> {Tmp}],
       [mode |-> "rw", at |-> policy.writes \cup {Candidate, Cache}],
       [mode |-> "ro", at |-> {Source}], [mode |-> "ro", at |-> GitPaths],
       [mode |-> "mask", at |-> {d \in HardDeny : fs[d] # None}] >>

\* The last mount over a path decides.
BwrapAccess(policy, p) ==
    LET plan == MountPlan(policy)
    IN  plan[Max({i \in DOMAIN plan : \E d \in plan[i].at : Inside(p, d)})].mode

\* _create_argv and _deduplicate_mounts; a mount that is asked for twice is
\* read-only only if both are.  /testbed is the Candidate under another name.
DockerMounts(policy) ==
    {<<Candidate, "rw">>, <<Cache, "rw">>} \cup {<<g, "ro">> : g \in GitPaths}
    \cup {<<p, "rw">> : p \in policy.writes} \cup {<<p, "ro">> : p \in policy.reads \ policy.writes}

\* The deepest mount over a path decides; the rest of the host is not there.
DockerAccess(policy, p) ==
    LET over == {m \in DockerMounts(policy) : Inside(p, m[1])}
        deep == {m \in over : \A n \in over : Len(n[1]) <= Len(m[1])}
    IN  IF over = {} THEN "absent"
        ELSE IF \E m \in deep : m[2] = "rw" THEN "rw" ELSE "ro"

Access(policy, p) == IF backend = "bwrap" THEN BwrapAccess(policy, p) ELSE DockerAccess(policy, p)

\* A backend cannot mount what is not there.
Mountable(policy) ==
    /\ \A p \in policy.writes : fs[p] # None
    /\ backend = "docker" => \A p \in policy.reads : fs[p] # None

--------------------------------------------------------------------------------
(* The audit of the Candidate                                              *)

\* What git status lists.
Changed(tree) == {f \in Files : tree[f] # BaseTree[f]}

\* take_workspace_snapshot refuses a listed name the path guard refuses.
Auditable(tree) == Changed(tree) \cap Sensitive = {}

\* _fingerprints: the hash of the content, without the executable bit; a quoted
\* name is looked up as it was printed and never found.
Fingerprint(tree, f) ==
    IF f \in Quoted \/ tree[f] = None THEN "<missing>" ELSE tree[f].data

\* compare_workspace: listed on one side only, or with another fingerprint.
CompareWorkspace(old, new) ==
    {f \in Changed(old) \cup Changed(new) :
        \/ (f \in Changed(old)) # (f \in Changed(new))
        \/ Fingerprint(old, f) # Fingerprint(new, f)}

--------------------------------------------------------------------------------
(* The call                                                                *)

CommandsInit ==
    /\ backend \in {"bwrap", "docker"}
    /\ fs = InitialFs /\ cand = BaseTree
    /\ grants = {} /\ wstate = "changes_active" /\ revision = 0
    /\ cmd = NoCommand /\ records = <<>> /\ evidence = {} /\ dirs = {} /\ live = {}
    /\ approved = {} /\ crashed = {}
    /\ counted = [commands |-> 0, disturbances |-> 0]

\* run_command refuses a session whose workspace is not trusted.
SessionTakesCommands == wstate \notin {"recovery_required", "workspace_tainted"}

\* run_command, prepare and run_prepared up to the question: the requests are
\* parsed, the tree and the revision noted, the requests evaluated.  A call
\* that is refused on the way leaves nothing behind.
Submit(rs, purpose) ==
    LET qs   == {Parse(fs, r) : r \in rs}
        exec == counted.commands + 1
        asks == {q \in qs : Evaluate(q) = "ask"}
    IN  /\ cmd.phase = "idle" /\ counted.commands < MaxCommands
        /\ SessionTakesCommands
        /\ None \notin qs /\ Auditable(cand)
        /\ \A q \in qs : Evaluate(q) # "deny"
        /\ cmd' = [phase |-> IF asks = {} THEN "granted" ELSE "waiting", exec |-> exec, qs |-> qs,
                   asks |-> asks, purpose |-> purpose, before |-> cand, revision |-> revision]
        /\ counted' = [counted EXCEPT !.commands = exec]
        /\ UNCHANGED <<backend, fs, cand, grants, wstate, revision, records, evidence, dirs, live,
                       approved, crashed>>

\* request_permissions answered yes.
Approve ==
    /\ cmd.phase = "waiting"
    /\ cmd' = [cmd EXCEPT !.phase = "granted"]
    /\ approved' = approved \cup {[exec |-> cmd.exec, q |-> q] : q \in cmd.asks}
    /\ UNCHANGED <<backend, fs, cand, grants, wstate, revision, records, evidence, dirs, live,
                   crashed, counted>>

\* request_permissions answered no, or nobody there to answer.
RefuseCommand ==
    /\ cmd.phase = "waiting"
    /\ cmd' = NoCommand
    /\ UNCHANGED <<backend, fs, cand, grants, wstate, revision, records, evidence, dirs, live,
                   approved, crashed, counted>>

\* The requests of the call whose grants outlive it.
SessionGrants == {q \in cmd.qs : q.req.scope = "session"}

\* Mutant: the tree is not compared again after the answer.
MutStillCurrent == \A q \in cmd.qs : SameObject(fs, q)

\* The recheck before the start: the same objects, the same Candidate.
StillCurrent == /\ \A q \in cmd.qs : SameObject(fs, q)
                /\ Auditable(cand) /\ cand = cmd.before

\* run_prepared from the answer to the start.  Session grants are saved before
\* the recheck, so a call that is refused as stale leaves them.
Proceed ==
    LET saved == grants \cup {Grant(q, cmd.exec) : q \in SessionGrants}
        once  == {Grant(q, cmd.exec) : q \in {p \in cmd.qs : p.req.scope = "once"}}
    IN  /\ cmd.phase = "granted"
        /\ grants' = saved
        /\ IF StillCurrent
           THEN /\ cmd' = [phase |-> "launch", exec |-> cmd.exec, qs |-> cmd.qs,
                           purpose |-> cmd.purpose, before |-> cmd.before,
                           revision |-> cmd.revision, policy |-> Effective(saved, once)]
                /\ dirs' = dirs \cup {cmd.exec}
           ELSE cmd' = NoCommand /\ UNCHANGED dirs
        /\ UNCHANGED <<backend, fs, cand, wstate, revision, records, evidence, live,
                       approved, crashed, counted>>

Result(status, exit, started, stopped) ==
    [status |-> status, exit |-> exit, started |-> started, stopped |-> stopped]

Ended(res) == cmd' = [exec |-> cmd.exec, purpose |-> cmd.purpose, before |-> cmd.before,
                      revision |-> cmd.revision, phase |-> "ended", res |-> res]

\* What a started command writes: at most one file of the Candidate, and the
\* content of what it was given to write.
Written(e) == IF e = None THEN cand ELSE [cand EXCEPT ![e[1]] = e[2]]
Runs(e) ==
    /\ cand' = Written(e)
    /\ fs' = [p \in Paths |-> IF p \in cmd.policy.writes /\ fs[p] # None
                              THEN [fs[p] EXCEPT !.stamp = counted.commands] ELSE fs[p]]

\* SandboxedCommandExecutor.execute where nothing is started: no bwrap, a
\* namespace that fails, a mount without a source, a spawn error.
BwrapFails(status) ==
    /\ backend = "bwrap" /\ cmd.phase = "launch"
    /\ status \in {"sandbox_unavailable", "sandbox_setup_failed", "spawn_failed"}
    /\ Ended(Result(status, None, FALSE, TRUE))
    /\ UNCHANGED <<backend, fs, cand, grants, wstate, revision, records, evidence, dirs, live,
                   approved, crashed, counted>>

\* The command ends by itself.  It may have removed the marker in its HOME that
\* says it was started; a failed exit then reads as a failed set-up.
BwrapCompletes(e, exit, marker) ==
    LET status == IF ~marker /\ exit # 0 THEN "sandbox_setup_failed" ELSE "completed"
    IN  /\ backend = "bwrap" /\ cmd.phase = "launch" /\ Mountable(cmd.policy)
        /\ Runs(e)
        /\ Ended(Result(status, exit, marker, TRUE))
        /\ UNCHANGED <<backend, grants, wstate, revision, records, evidence, dirs, live,
                       approved, crashed, counted>>

\* The time is over and _terminate_group succeeds, or gives up; then the
\* executor waits for the end of the output.
BwrapTimesOut(e, stopped) ==
    /\ backend = "bwrap" /\ cmd.phase = "launch" /\ Mountable(cmd.policy)
    /\ Runs(e)
    /\ IF stopped THEN Ended(Result("execution_timed_out", None, TRUE, TRUE)) /\ UNCHANGED live
       ELSE /\ cmd' = [phase |-> "joining", exec |-> cmd.exec, purpose |-> cmd.purpose,
                       before |-> cmd.before, revision |-> cmd.revision]
            /\ live' = live \cup {cmd.exec}
    /\ UNCHANGED <<backend, grants, wstate, revision, records, evidence, dirs,
                   approved, crashed, counted>>

\* The process that could not be stopped closes its output: _CappedOutput ends.
OutputEnds ==
    /\ cmd.phase = "joining"
    /\ Ended(Result("execution_timed_out", None, TRUE, FALSE))
    /\ UNCHANGED <<backend, fs, cand, grants, wstate, revision, records, evidence, dirs, live,
                   approved, crashed, counted>>

\* SWEbenchDockerCommandExecutor.execute where nothing is started: another
\* identity of the source, an approved network, a mount without a source, a
\* container that cannot be created or started.
DockerFails ==
    /\ backend = "docker" /\ cmd.phase = "launch"
    /\ Ended(Result("sandbox_setup_failed", None, FALSE, TRUE))
    /\ UNCHANGED <<backend, fs, cand, grants, wstate, revision, records, evidence, dirs, live,
                   approved, crashed, counted>>

\* The container ends by itself and is removed, or cannot be removed.
DockerCompletes(e, exit, marker, removed) ==
    LET status == IF marker /\ removed THEN "completed" ELSE "sandbox_setup_failed"
    IN  /\ backend = "docker" /\ cmd.phase = "launch"
        /\ ~cmd.policy.network /\ Mountable(cmd.policy)
        /\ Runs(e)
        /\ Ended(Result(status, exit, marker, TRUE))
        /\ UNCHANGED <<backend, grants, wstate, revision, records, evidence, dirs, live,
                       approved, crashed, counted>>

\* The time is over.  _stop answers for the docker client, not for the
\* container: when docker kill fails, killing the client is enough.
DockerTimesOut(e, killed, client, removed) ==
    LET stopped == killed \/ client
        status  == IF removed THEN "execution_timed_out" ELSE "sandbox_setup_failed"
    IN  /\ backend = "docker" /\ cmd.phase = "launch"
        /\ ~cmd.policy.network /\ Mountable(cmd.policy)
        /\ Runs(e)
        /\ Ended(Result(status, None, TRUE, stopped))
        /\ live' = live \cup (IF killed \/ removed THEN {} ELSE {cmd.exec})
        /\ UNCHANGED <<backend, grants, wstate, revision, records, evidence, dirs,
                       approved, crashed, counted>>

\* Mutant: a process that could not be stopped only taints the result.
MutAfterAudit(audited) ==
    IF cmd.res.started /\ ~audited THEN "workspace_tainted" ELSE wstate

\* The workspace state after the command.
AfterAudit(audited) ==
    IF ~cmd.res.started THEN wstate
    ELSE IF ~cmd.res.stopped THEN "recovery_required"
    ELSE IF ~audited THEN "workspace_tainted"
    ELSE wstate

\* Mutant: whether the command was really started is not asked.
MutValidEvidence(state) ==
    cmd.res.status = "completed" /\ cmd.res.exit = 0 /\ cmd.res.stopped

\* _valid_evidence
ValidEvidence(state) ==
    /\ cmd.res.status = "completed" /\ cmd.res.exit = 0
    /\ cmd.res.started /\ cmd.res.stopped /\ state = "changes_active"

\* _finalize_diagnostics keeps what did not succeed.
KeepsDiagnostics(state) ==
    cmd.res.status # "completed" \/ cmd.res.exit # 0 \/ state # "changes_active"

\* next_candidate_revision, when the audit found something.
NextRevision(changes) == IF changes # {} THEN revision + 1 ELSE revision

\* run_prepared after execute: audit, completion event, evidence, diagnostics.
\* The snapshot may fail by itself.
Record(snapshotOk) ==
    LET audited == snapshotOk /\ Auditable(cand)
        state   == AfterAudit(audited)
        looked  == cmd.res.started /\ cmd.res.stopped /\ audited
        changes == IF looked THEN CompareWorkspace(cmd.before, cand) ELSE {}
        after   == IF looked THEN cand ELSE cmd.before
    IN  /\ cmd.phase = "ended"
        /\ wstate' = state
        /\ revision' = NextRevision(changes)
        /\ records' = Append(records,
               [exec |-> cmd.exec, purpose |-> cmd.purpose, res |-> cmd.res, before |-> cmd.before,
                after |-> after, changes |-> changes, revision |-> revision', state |-> state])
        /\ evidence' = IF cmd.purpose = "validation" /\ ValidEvidence(state)
                       THEN evidence \cup {[exec |-> cmd.exec, tree |-> after]} ELSE evidence
        /\ dirs' = IF KeepsDiagnostics(state) THEN dirs ELSE dirs \ {cmd.exec}
        /\ cmd' = NoCommand
        /\ UNCHANGED <<backend, fs, cand, grants, live, approved, crashed, counted>>

--------------------------------------------------------------------------------
(* What else happens                                                       *)

\* While the user thinks, a granted object or the Candidate is changed.
OutsideObject(p, new) ==
    /\ cmd.phase = "waiting" /\ counted.disturbances < MaxDisturbances
    /\ p \notin {Candidate, Source, Cache, Tmp} \cup GitPaths \cup HardDeny /\ p # <<>>
    /\ fs[Front(p)] # None /\ new # fs[p]
    /\ fs' = [q \in Paths |-> IF q = p THEN new ELSE IF new = None /\ Inside(q, p) THEN None ELSE fs[q]]
    /\ counted' = [counted EXCEPT !.disturbances = @ + 1]
    /\ UNCHANGED <<backend, cand, grants, wstate, revision, cmd, records, evidence, dirs, live,
                   approved, crashed>>

OutsideEdit(e) ==
    /\ cmd.phase = "waiting" /\ counted.disturbances < MaxDisturbances
    /\ Written(e) # cand
    /\ cand' = Written(e)
    /\ counted' = [counted EXCEPT !.disturbances = @ + 1]
    /\ UNCHANGED <<backend, fs, grants, wstate, revision, cmd, records, evidence, dirs, live,
                   approved, crashed>>

\* A process that was not stopped goes on writing.
StragglerWrites(e) ==
    /\ live # {} /\ cmd.phase \in {"idle", "joining"} /\ counted.disturbances < MaxDisturbances
    /\ Written(e) # cand
    /\ cand' = Written(e)
    /\ counted' = [counted EXCEPT !.disturbances = @ + 1]
    /\ UNCHANGED <<backend, fs, grants, wstate, revision, cmd, records, evidence, dirs, live,
                   approved, crashed>>

\* The Runtime dies in a call.  bwrap dies with its parent; a container that
\* was started goes on.
CommandCrash(e) ==
    /\ cmd.phase # "idle" /\ counted.disturbances < MaxDisturbances
    /\ cmd' = NoCommand
    /\ crashed' = crashed \cup {cmd.exec}
    /\ IF cmd.phase = "launch" THEN cand' = Written(e) ELSE e = None /\ UNCHANGED cand
    /\ live' = IF backend = "docker" /\ cmd.phase = "launch" THEN live \cup {cmd.exec} ELSE live
    /\ counted' = [counted EXCEPT !.disturbances = @ + 1]
    /\ UNCHANGED <<backend, fs, grants, wstate, revision, records, evidence, dirs, approved>>

Writes == Effects \cup {None}
Objects == {None} \cup [inode : {1, 2}, stamp : {0, MaxCommands + 1}]

CommandsNext ==
    \/ \E rs \in Requests, purpose \in {"utility", "validation"} : Submit(rs, purpose)
    \/ Approve \/ RefuseCommand \/ Proceed
    \/ \E s \in {"sandbox_unavailable", "sandbox_setup_failed", "spawn_failed"} : BwrapFails(s)
    \/ \E e \in Writes, exit \in {0, 1}, marker \in BOOLEAN : BwrapCompletes(e, exit, marker)
    \/ \E e \in Writes, stopped \in BOOLEAN : BwrapTimesOut(e, stopped)
    \/ OutputEnds \/ DockerFails
    \/ \E e \in Writes, exit \in {0, 1, None}, marker, removed \in BOOLEAN :
           DockerCompletes(e, exit, marker, removed)
    \/ \E e \in Writes, killed, client, removed \in BOOLEAN :
           DockerTimesOut(e, killed, client, removed)
    \/ \E ok \in BOOLEAN : Record(ok)
    \/ \E p \in Paths, new \in Objects : OutsideObject(p, new)
    \/ \E e \in Effects : OutsideEdit(e) \/ StragglerWrites(e)
    \/ \E e \in Writes : CommandCrash(e)

CommandsSpec == CommandsInit /\ [][CommandsNext]_commandVars

--------------------------------------------------------------------------------
(* Properties                                                              *)

\* Type invariant: what session.json and the events may hold, and that a
\* Candidate revision is only ever spent on a recorded command.
CommandsTypeOK ==
    /\ backend \in {"bwrap", "docker"}
    /\ cmd.phase \in {"idle", "waiting", "granted", "launch", "joining", "ended"}
    /\ wstate \in {"changes_active", "workspace_tainted", "recovery_required"}
    /\ \A g \in grants : g.capability \in {"read", "write", "network"} /\ g.exec \in 1..MaxCommands
    /\ revision <= Len(records) /\ Len(records) <= counted.commands
    /\ {e.exec : e \in evidence} \cup dirs \cup live \cup crashed \subseteq 1..MaxCommands

\* What run_prepared starts is what the user saw: after an approval that may
\* have taken hours, every object of the request is still the object it was
\* and the Candidate is the tree the request was prepared on.
LaunchedAsShown ==
    cmd.phase = "launch" =>
        /\ cand = cmd.before
        /\ \A q \in cmd.qs : q.path # None =>
              fs[q.path] = q.ident /\ \A p \in Paths : Inside(q.req.resource, p) /\ Inside(p, q.path) /\ p # q.path
                                                           => fs[p] = None

\* Said yes to writing p, for this call or for the whole session.
UserAllowed(capability, p) ==
    \E a \in approved : /\ a.q.req.capability = capability
                        /\ p = None \/ Inside(p, a.q.path)
                        /\ a.exec = cmd.exec \/ a.q.req.scope = "session"

\* Whatever was granted in whatever order, a started command writes only the
\* Candidate, the cache and what the user allowed for this call or for the
\* session; source, Git metadata and denied paths stay out of its reach
\* (evaluate, effective and MountPlan.build together).
ReachIsWhatWasApproved ==
    cmd.phase = "launch" =>
        /\ cmd.policy.network => UserAllowed("network", None)
        /\ \A p \in Paths : Access(cmd.policy, p) = "rw" =>
              /\ ~Inside(p, Source) /\ \A g \in GitPaths : ~Inside(p, g)
              /\ Inside(p, Candidate) \/ Inside(p, Cache) \/ UserAllowed("write", p)
        /\ \A p \in Paths, d \in HardDeny :
              fs[d] # None /\ Inside(p, d) => Access(cmd.policy, p) \in {"mask", "absent"}

\* A session approval is not asked for again while the object is the same one,
\* although the approved commands keep changing its content (_same_resource).
ApprovedIsNotAskedAgain ==
    cmd.phase = "waiting" =>
        \A q \in cmd.asks, a \in approved :
            a.q.req.scope = "session" /\ a.q.req.capability = q.req.capability /\ a.q.path = q.path
            /\ a.exec \notin crashed
            => q.path # None /\ a.q.ident.inode # q.ident.inode

\* A process the Runtime failed to stop closes the session to further commands,
\* unless its end was never observed: a crash, or a container whose removal
\* failed too, which is reported as a failed set-up.
StragglersCloseTheSession ==
    \A e \in live :
        \/ e \in crashed \/ (cmd.phase # "idle" /\ cmd.exec = e)
        \/ wstate = "recovery_required"
        \/ backend = "docker" /\ \E i \in DOMAIN records :
               records[i].exec = e /\ records[i].res.status = "sandbox_setup_failed"

\* Once a command left the workspace in doubt, no further command starts.
NothingStartsInDoubt == wstate # "changes_active" => cmd'.phase \in {cmd.phase, "idle"}

\* Evidence is only recorded for a validation that ran to a successful end with
\* nothing left running, and it names the tree the command really left.
EvidenceIsOfACompletedRun ==
    \A e \in evidence : e.exec \notin live /\ e.exec \notin crashed /\
        \E i \in DOMAIN records :
            LET r == records[i]
            IN  /\ r.exec = e.exec /\ r.purpose = "validation" /\ r.res.started
                /\ r.res.exit = 0 /\ r.state = "changes_active" /\ e.tree = r.after

\* A command_completed event whose audit ran lists every file whose content the
\* command changed, reverted files included, and moves the revision then; names
\* that git quotes are beyond compare_workspace.
AuditFindsEveryChange ==
    \A i \in DOMAIN records :
        LET r == records[i]
            data(t, f) == IF t[f] = None THEN None ELSE t[f].data
            moved == {f \in Files \ Quoted : data(r.before, f) # data(r.after, f)}
        IN  /\ moved \subseteq r.changes
            /\ moved # {} => \A j \in 1..(i - 1) : records[j].revision < r.revision

\* Exactly the commands that did not succeed, and those the Runtime died in,
\* leave their diagnostics.
DiagnosticsAreOfFailures ==
    cmd.phase = "idle" =>
        /\ dirs \subseteq crashed \cup {records[i].exec : i \in DOMAIN records}
        /\ \A i \in DOMAIN records :
              LET r == records[i]
              IN  r.exec \in dirs <=> ~(r.res.status = "completed" /\ r.res.exit = 0
                                        /\ r.state = "changes_active")

\* A command runs on the files it was shown for and reaches what was approved,
\* for it or for the session, no more and no less.
LaunchIsWhatWasApproved ==
    /\ CommandsTypeOK
    /\ LaunchedAsShown
    /\ ReachIsWhatWasApproved
    /\ ApprovedIsNotAskedAgain

\* What a command leaves behind tells what it did: evidence, the list of changes
\* with the revision, diagnostics.
EvidenceIsSound ==
    /\ EvidenceIsOfACompletedRun
    /\ AuditFindsEveryChange
    /\ DiagnosticsAreOfFailures

\* Processes that may still write take the Session out of use before anything
\* else is done in it, and for good.
DoubtClosesTheSession == [][StragglersCloseTheSession' /\ NothingStartsInDoubt]_commandVars
================================================================================
