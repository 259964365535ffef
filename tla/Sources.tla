-------------------------------- MODULE Sources --------------------------------
(***************************************************************************)
(* SWEbenchSourcePreparer (benchmark/swebench_source.py): processes that   *)
(* share one source cache turn an image of an instance into a Git source.  *)
(* An image tag can move while they work; a digest names its content for   *)
(* good.  The admission probe is a worktree beside the source, in the      *)
(* private staging directory or, for a cached source, in the shared one.   *)
(***************************************************************************)
EXTENDS Integers, FiniteSets

CONSTANTS
    Preparers,      \* processes
    Digests,        \* contents the tag can stand for
    Nothing,
    MaxFaults       \* bound: failing calls, killed processes, moved tags

ASSUME SourcesAssumption ==
    /\ MaxFaults \in Nat
    /\ Nothing \notin Digests \cup {"empty"} \cup [digest : Digests, tree : Digests]
    /\ "empty" \notin Digests

VARIABLES
    tag,        \* the digest the registry serves for the tag
    cache,      \* digest -> the published source, or Nothing
    probe,      \* digest -> its shared .worktree-probe: directory and Git's record
    prep,       \* process -> where it is
    staging,    \* process -> content of its staging directory, or Nothing
    containers, \* processes whose container exists
    stuck,      \* history: processes whose container Docker refused to remove
    faults      \* history: counter behind MaxFaults

sourceVars == <<tag, cache, probe, prep, staging, containers, stuck, faults>>

ProbeState == [there : BOOLEAN, reg : BOOLEAN, full : BOOLEAN]
NoProbe == [there |-> FALSE, reg |-> FALSE, full |-> FALSE]
Ready == [pc |-> "start", digest |-> Nothing]
Running(p) == prep[p].pc \notin {"start", "returned", "failed", "killed"}

Steps == {"start", "lookup", "add", "checkout", "inspect", "sweep", "create",
          "copy", "remove", "admit", "publish", "returned", "failed", "killed"}

SourcesTypeOK ==
    /\ tag \in Digests
    /\ cache \in [Digests -> {Nothing} \cup [digest : Digests, tree : Digests]]
    /\ probe \in [Digests -> ProbeState]
    /\ prep \in [Preparers -> [pc : Steps, digest : Digests \cup {Nothing}]]
    /\ staging \in [Preparers -> Digests \cup {"empty", Nothing}]
    /\ containers \subseteq Preparers /\ stuck \subseteq Preparers
    /\ faults \in 0..MaxFaults

At(p, pc) == prep[p].pc = pc
Goto(p, pc) == prep' = [prep EXCEPT ![p].pc = pc]
Fault == faults < MaxFaults /\ faults' = faults + 1
NoFault == UNCHANGED faults

\* Mutant: the container is created from the tag.
MutImmutable(p) == tag

\* _replace_tag_with_digest: what `docker create` is given.
Immutable(p) == prep[p].digest

\* The finally clause of prepare: the container if its removal works, and staging.
Finally(p, removable) ==
    /\ containers' = IF removable THEN containers \ {p} ELSE containers
    /\ stuck' = IF removable THEN stuck ELSE stuck \cup {p}
    /\ staging' = [staging EXCEPT ![p] = Nothing]

\* SWEbenchPreparationError
Fail(p) ==
    /\ Goto(p, "failed")
    /\ \E removable \in {TRUE, p \notin containers} : Finally(p, removable)

--------------------------------------------------------------------------------
\* _resolve_image_digest: pull and inspect.
Resolve(p) ==
    /\ At(p, "start")
    /\ \/ NoFault /\ prep' = [prep EXCEPT ![p] = [pc |-> "lookup", digest |-> tag]]
       \/ Fault /\ Goto(p, "failed")
    /\ UNCHANGED <<tag, cache, probe, staging, containers, stuck>>

\* _load_cached up to the probe: no entry, or one whose manifest fits.
Lookup(p) ==
    /\ At(p, "lookup")
    /\ LET entry == cache[prep[p].digest]
       IN  IF entry = Nothing
           THEN Goto(p, "create") /\ staging' = [staging EXCEPT ![p] = "empty"]
           ELSE /\ Goto(p, IF entry.digest = prep[p].digest THEN "add" ELSE "failed")
                /\ UNCHANGED staging
    /\ UNCHANGED <<tag, cache, probe, containers, stuck, faults>>

\* The shared probe in _admit_source.  GitWorktreeManager.create: an existing
\* directory is taken over, a directory Git remembers but that is gone is an
\* error, otherwise `git worktree add` starts.
ProbeAdd(p) ==
    /\ At(p, "add")
    /\ LET d == prep[p].digest
       IN  IF probe[d].there THEN Goto(p, "inspect") /\ UNCHANGED <<probe, staging, containers, stuck>>
           ELSE IF probe[d].reg THEN Fail(p) /\ UNCHANGED probe
           ELSE /\ Goto(p, "checkout")
                /\ probe' = [probe EXCEPT ![d] = [there |-> TRUE, reg |-> TRUE, full |-> FALSE]]
                /\ UNCHANGED <<staging, containers, stuck>>
    /\ UNCHANGED <<tag, cache, faults>>

\* The checkout ends, or the timeout kills it: then the locked record stays
\* while the probe directory is removed.
ProbeCheckout(p) ==
    /\ At(p, "checkout")
    /\ LET d == prep[p].digest
       IN  \/ /\ NoFault /\ Goto(p, "inspect")
              /\ probe' = [probe EXCEPT ![d].full = TRUE]
              /\ UNCHANGED <<staging, containers, stuck>>
           \/ /\ Fault
              /\ probe' = [probe EXCEPT ![d] = [NoProbe EXCEPT !.reg = TRUE]]
              /\ Goto(p, "failed") /\ Finally(p, TRUE)
    /\ UNCHANGED <<tag, cache>>

\* inspect and cleanup: a complete worktree is removed, anything else is an error
\* (and `git worktree remove` fails too, so the directory stays).
ProbeInspect(p) ==
    /\ At(p, "inspect")
    /\ LET d == prep[p].digest
       IN  IF probe[d].there /\ probe[d].reg /\ probe[d].full
           THEN /\ probe' = [probe EXCEPT ![d] = NoProbe]
                /\ Goto(p, "sweep") /\ UNCHANGED <<staging, containers, stuck>>
           ELSE Fail(p) /\ UNCHANGED probe
    /\ UNCHANGED <<tag, cache, faults>>

\* head and tree are the manifest's.
SameIdentity(d) == cache[d].tree = d

\* rmtree of the probe root, with whatever another process has put there; then
\* the identity check and the result.
ProbeSweep(p) ==
    /\ At(p, "sweep")
    /\ LET d == prep[p].digest
       IN  /\ probe' = [probe EXCEPT ![d].there = FALSE, ![d].full = FALSE]
           /\ IF SameIdentity(d) THEN Goto(p, "returned") ELSE Goto(p, "failed")
           /\ Finally(p, TRUE)
    /\ UNCHANGED <<tag, cache, faults>>

--------------------------------------------------------------------------------
\* docker create, docker cp, docker rm -f.
Create(p) ==
    /\ At(p, "create")
    /\ \/ NoFault /\ Goto(p, "copy") /\ containers' = containers \cup {p} /\ UNCHANGED <<staging, stuck>>
       \/ Fault /\ Fail(p)
    /\ UNCHANGED <<tag, cache, probe>>
Copy(p) ==
    /\ At(p, "copy")
    /\ \/ /\ NoFault /\ Goto(p, "remove")
          /\ staging' = [staging EXCEPT ![p] = Immutable(p)] /\ UNCHANGED <<containers, stuck>>
       \/ Fault /\ Fail(p)
    /\ UNCHANGED <<tag, cache, probe>>
RemoveContainer(p) ==
    /\ At(p, "remove")
    /\ \/ NoFault /\ Goto(p, "admit") /\ containers' = containers \ {p} /\ UNCHANGED <<staging, stuck>>
       \/ Fault /\ Fail(p)
    /\ UNCHANGED <<tag, cache, probe>>

\* _admit_source on the staged source, whose probe nobody else sees.
Admit(p) ==
    /\ At(p, "admit")
    /\ \/ NoFault /\ Goto(p, "publish") /\ UNCHANGED <<staging, containers, stuck>>
       \/ Fault /\ Fail(p)
    /\ UNCHANGED <<tag, cache, probe>>

\* os.replace succeeds while there is no entry.
Wins(p) == cache[prep[p].digest] = Nothing

\* The manifest and os.replace; the loser loads what the winner published.
Publish(p) ==
    /\ At(p, "publish")
    /\ LET d == prep[p].digest
       IN  IF Wins(p)
           THEN /\ cache' = [cache EXCEPT ![d] = [digest |-> d, tree |-> staging[p]]]
                /\ Goto(p, "returned") /\ Finally(p, TRUE)
           ELSE Goto(p, "add") /\ UNCHANGED <<cache, staging, containers, stuck>>
    /\ UNCHANGED <<tag, probe, faults>>

\* The process is killed and leaves everything where it is.
Kill(p) ==
    /\ Running(p) /\ Fault
    /\ Goto(p, "killed")
    /\ UNCHANGED <<tag, cache, probe, staging, containers, stuck>>

\* The publisher moves the tag; a published file is changed by hand.
MoveTag ==
    /\ Fault /\ tag' \in Digests \ {tag}
    /\ UNCHANGED <<cache, probe, prep, staging, containers, stuck>>
Tamper ==
    /\ Fault
    /\ \E d \in Digests : \E e \in Digests \ {d} :
          cache[d] # Nothing /\ cache' = [cache EXCEPT ![d].tree = e]
    /\ UNCHANGED <<tag, probe, prep, staging, containers, stuck>>

\* The harness asks again after a return or a failure.
Again(p) ==
    /\ prep[p].pc \in {"returned", "failed", "killed"}
    /\ prep' = [prep EXCEPT ![p] = Ready]
    /\ staging' = [staging EXCEPT ![p] = Nothing]       \* a fresh uuid; the old one is out of sight
    /\ containers' = containers \ {p} /\ stuck' = stuck \ {p}
    /\ UNCHANGED <<tag, cache, probe, faults>>

SourcesInit ==
    /\ tag \in Digests
    /\ cache = [d \in Digests |-> Nothing] /\ probe = [d \in Digests |-> NoProbe]
    /\ prep = [p \in Preparers |-> Ready]
    /\ staging = [p \in Preparers |-> Nothing] /\ containers = {}
    /\ stuck = {} /\ faults = 0

SourcesNext ==
    \/ \E p \in Preparers :
        \/ Resolve(p) \/ Lookup(p) \/ ProbeAdd(p) \/ ProbeCheckout(p) \/ ProbeInspect(p) \/ ProbeSweep(p)
        \/ Create(p) \/ Copy(p) \/ RemoveContainer(p) \/ Admit(p) \/ Publish(p) \/ Kill(p) \/ Again(p)
    \/ MoveTag \/ Tamper

SourcesSpec == SourcesInit /\ [][SourcesNext]_sourceVars

--------------------------------------------------------------------------------
(* Properties                                                              *)

\* What a cache entry was published with is the content of the digest it is
\* filed under, although the tag may have moved between pull and create.
EntriesAreTheirDigest ==
    \A p \in Preparers : staging[p] \in Digests => staging[p] = prep[p].digest

\* A process that returns hands out a source whose content is the digest it
\* resolved, at that moment: published by itself or, for a cached one or a
\* lost race, compared with its manifest once more.
ReturnsAsResolved ==
    \A p \in Preparers :
        prep'[p].pc = "returned" /\ prep[p].pc # "returned"
            => cache'[prep[p].digest] # Nothing /\ cache'[prep[p].digest].tree = prep[p].digest

\* A published entry is never replaced by another preparation.
FirstOneWins ==
    \A d \in Digests : \A p \in Preparers :
        cache[d] # Nothing /\ prep'[p] # prep[p] => cache'[d] = cache[d]

\* A preparation that ends by itself leaves no staging directory; it leaves a
\* container only when Docker refused to remove it.
NothingIsLeftBehind ==
    \A p \in Preparers : prep[p].pc \in {"returned", "failed"} =>
        staging[p] = Nothing /\ (p \in containers => p \in stuck)

\* Processes that race for one cache entry, with a tag that moves and calls that
\* fail, publish and hand out what they resolved, once, and clean up.
CacheIsSound ==
    [][/\ SourcesTypeOK' /\ EntriesAreTheirDigest' /\ NothingIsLeftBehind'
       /\ ReturnsAsResolved
       /\ FirstOneWins]_sourceVars
================================================================================
