---------------------------- MODULE BenchmarkProofs ----------------------------
(***************************************************************************)
(* Proofs about the benchmark: the shared store of prepared sources, for   *)
(* any number of preparers, digests and faults; the generation of a        *)
(* selection, for any pool of candidates, any size and any number of       *)
(* starts, failures and images that move.                                  *)
(***************************************************************************)
EXTENDS Sources, Batch, FiniteSetTheorems, TLAPS

-----------------------------------------------------------------------------
(* Prepared sources *)


\* Where a preparation is says what it has resolved, staged and found: nothing
\* is staged before the lookup, what is staged behind the copy is the resolved
\* digest, and the shared probe is only used for an entry that exists.
StepKnows(p) ==
    LET at == prep[p].pc
    IN  /\ Running(p) => prep[p].digest \in Digests
        /\ at \in {"start", "lookup"} => staging[p] = Nothing /\ p \notin containers
        /\ at \in {"remove", "admit", "publish"} => staging[p] = prep[p].digest
        /\ at \in {"add", "checkout", "inspect", "sweep"} => cache[prep[p].digest] # Nothing

CacheInv ==
    /\ SourcesTypeOK
    /\ \A p \in Preparers : StepKnows(p)
    /\ EntriesAreTheirDigest
    /\ NothingIsLeftBehind

\* What a step promises about the step itself.
CacheStep == ReturnsAsResolved /\ FirstOneWins

\* The parts of NothingIsLeftBehind and EntriesAreTheirDigest for one process.
Clean(p) ==
    /\ staging[p] \in Digests => staging[p] = prep[p].digest
    /\ prep[p].pc \in {"returned", "failed"} =>
           staging[p] = Nothing /\ (p \in containers => p \in stuck)

\* A step of one process leaves the others' variables alone; no step removes an
\* entry, and a step that changes one belongs to the preparer that found none,
\* or to somebody who edits the cache by hand.
LEMMA OthersAreLeftAlone ==
    ASSUME CacheInv, NEW p \in Preparers, SourcesTypeOK',
           \A q \in Preparers \ {p} : /\ prep'[q] = prep[q] /\ staging'[q] = staging[q]
                                      /\ q \in containers' <=> q \in containers
                                      /\ q \in stuck' <=> q \in stuck,
           \A d \in Digests : cache[d] # Nothing => cache'[d] = cache[d],
           StepKnows(p)', Clean(p)',
           prep'[p].pc = "returned" /\ prep[p].pc # "returned"
               => cache'[prep[p].digest] # Nothing /\ cache'[prep[p].digest].tree = prep[p].digest
    PROVE  CacheInv' /\ CacheStep
<1>1. \A q \in Preparers \ {p} : StepKnows(q)'
    <2> TAKE q \in Preparers \ {p}
    <2>1. StepKnows(q)
        BY DEF CacheInv
    <2>2. Running(q)' <=> Running(q)
        BY DEF Running
    <2>3. prep[q].pc \in {"add", "checkout", "inspect", "sweep"} => cache'[prep[q].digest] # Nothing
        BY <2>1 DEF StepKnows, Running
    <2> QED BY <2>1, <2>2, <2>3 DEF StepKnows
<1>2. \A q \in Preparers : StepKnows(q)'
    BY <1>1
<1>3. EntriesAreTheirDigest' /\ NothingIsLeftBehind'
    BY DEF CacheInv, Clean, EntriesAreTheirDigest, NothingIsLeftBehind
<1>4. CacheStep
    BY DEF CacheStep, ReturnsAsResolved, FirstOneWins
<1> QED BY <1>2, <1>3, <1>4 DEF CacheInv

\* Where Goto leads.
LEMMA PreparationMoved ==
    ASSUME SourcesTypeOK, NEW p \in Preparers, NEW at \in Steps, Goto(p, at)
    PROVE  /\ prep' \in [Preparers -> [pc : Steps, digest : Digests \cup {Nothing}]]
           /\ prep'[p].pc = at /\ prep'[p].digest = prep[p].digest
           /\ \A q \in Preparers \ {p} : prep'[q] = prep[q]
BY DEF SourcesTypeOK, Goto

\* The finally clause leaves no staging directory, and no container that Docker
\* did not refuse to remove.
LEMMA FinallyCleans ==
    ASSUME CacheInv, NEW p \in Preparers, Fail(p)
    PROVE  /\ Goto(p, "failed")
           /\ staging' = [staging EXCEPT ![p] = Nothing]
           /\ containers' \in {containers, containers \ {p}}
           /\ stuck' \in {stuck, stuck \cup {p}}
           /\ p \in containers' => p \in stuck'
BY DEF Fail, Finally

\* A step that fails leaves a process that knows nothing and owes nothing.
LEMMA FailKeepsInv ==
    ASSUME CacheInv, NEW p \in Preparers, Fail(p), UNCHANGED <<tag, cache, probe>>,
           faults' \in 0..MaxFaults
    PROVE  CacheInv' /\ CacheStep
<1>1. SourcesTypeOK
    BY DEF CacheInv
<1>0. /\ prep' \in [Preparers -> [pc : Steps, digest : Digests \cup {Nothing}]]
      /\ prep'[p].pc = "failed" /\ \A q \in Preparers \ {p} : prep'[q] = prep[q]
    <2>1. Goto(p, "failed") /\ "failed" \in Steps
        BY FinallyCleans DEF Steps
    <2> QED BY <1>1, <2>1, PreparationMoved
<1>2. SourcesTypeOK' /\ staging'[p] = Nothing
    <2>1. tag' \in Digests /\ probe' \in [Digests -> ProbeState]
        BY <1>1 DEF SourcesTypeOK
    <2>2. cache' \in [Digests -> {Nothing} \cup [digest : Digests, tree : Digests]]
        BY <1>1 DEF SourcesTypeOK
    <2>3. staging' \in [Preparers -> Digests \cup {"empty", Nothing}] /\ staging'[p] = Nothing
        BY <1>1, FinallyCleans DEF SourcesTypeOK
    <2>4. containers' \subseteq Preparers /\ stuck' \subseteq Preparers
        BY <1>1, FinallyCleans DEF SourcesTypeOK
    <2> QED BY <1>0, <2>1, <2>2, <2>3, <2>4 DEF SourcesTypeOK
<1>3. \A q \in Preparers \ {p} : /\ prep'[q] = prep[q] /\ staging'[q] = staging[q]
                                 /\ q \in containers' <=> q \in containers
                                 /\ q \in stuck' <=> q \in stuck
    BY <1>0, <1>1, FinallyCleans DEF SourcesTypeOK
<1>4. StepKnows(p)' /\ Clean(p)'
    BY <1>0, <1>2, FinallyCleans, SourcesAssumption DEF StepKnows, Clean, Running
<1> QED BY <1>0, <1>2, <1>3, <1>4, OthersAreLeftAlone

\* What happens to a shared probe leaves a probe.
LEMMA ProbeStates ==
    /\ NoProbe \in ProbeState /\ [NoProbe EXCEPT !.reg = TRUE] \in ProbeState
    /\ [there |-> TRUE, reg |-> TRUE, full |-> FALSE] \in ProbeState
BY DEF ProbeState, NoProbe

\* Marking a probe, or taking its directory away, leaves probes.
LEMMA ProbeMarked ==
    ASSUME NEW f \in [Digests -> ProbeState], NEW d \in Digests
    PROVE  /\ [f EXCEPT ![d].full = TRUE] \in [Digests -> ProbeState]
           /\ [f EXCEPT ![d].there = FALSE, ![d].full = FALSE] \in [Digests -> ProbeState]
BY DEF ProbeState

\* The frame of a step of p: types, and everything that belongs to the others.
Frame(p) ==
    /\ SourcesTypeOK'
    /\ \A q \in Preparers \ {p} : /\ prep'[q] = prep[q] /\ staging'[q] = staging[q]
                                  /\ q \in containers' <=> q \in containers
                                  /\ q \in stuck' <=> q \in stuck
    /\ \A d \in Digests : cache[d] # Nothing => cache'[d] = cache[d]

\* A step of one process keeps the invariant if it keeps that process's part.
LEMMA OneProcess ==
    ASSUME CacheInv, NEW p \in Preparers, Frame(p), StepKnows(p)', Clean(p)',
           prep'[p].pc = "returned" /\ prep[p].pc # "returned"
               => cache'[prep[p].digest] # Nothing /\ cache'[prep[p].digest].tree = prep[p].digest
    PROVE  CacheInv' /\ CacheStep
BY OthersAreLeftAlone DEF Frame

\* The steps of a preparation keep the invariant.
LEMMA PreparerKeepsInv ==
    ASSUME CacheInv, NEW p \in Preparers,
           \/ Resolve(p) \/ Lookup(p) \/ ProbeAdd(p) \/ ProbeCheckout(p) \/ ProbeInspect(p) \/ ProbeSweep(p)
           \/ Create(p) \/ Copy(p) \/ RemoveContainer(p) \/ Admit(p) \/ Publish(p) \/ Kill(p) \/ Again(p)
    PROVE  CacheInv' /\ CacheStep
<1>0. /\ SourcesTypeOK /\ StepKnows(p) /\ Clean(p)
      /\ Nothing \notin Digests /\ "empty" \notin Digests /\ "empty" # Nothing
      /\ MaxFaults \in Nat /\ faults \in 0..MaxFaults
    BY SourcesAssumption DEF CacheInv, Clean, EntriesAreTheirDigest, NothingIsLeftBehind, SourcesTypeOK
<1>00. \A at \in Steps : Goto(p, at) =>
          /\ prep' \in [Preparers -> [pc : Steps, digest : Digests \cup {Nothing}]]
          /\ prep'[p].pc = at /\ prep'[p].digest = prep[p].digest
          /\ \A q \in Preparers \ {p} : prep'[q] = prep[q]
    BY <1>0, PreparationMoved
<1>000. Fail(p) => prep'[p].pc = "failed"
    <2>1. "failed" \in Steps
        BY DEF Steps
    <2> QED BY <1>00, <2>1, FinallyCleans
<1> USE DEF At, Fault, NoFault, Steps
<1>1. CASE Resolve(p)
    <2>2. Frame(p)
        BY <1>0, <1>00, <1>1 DEF Resolve, Frame, SourcesTypeOK
    <2>3. StepKnows(p)' /\ Clean(p)'
        BY <1>0, <1>00, <1>1 DEF Resolve, StepKnows, Clean, Running, SourcesTypeOK
    <2>4. prep'[p].pc # "returned"
        BY <1>0, <1>00, <1>1 DEF Resolve, SourcesTypeOK
    <2> QED BY <2>2, <2>3, <2>4, OneProcess
<1>2. CASE Lookup(p)
    <2>2. Frame(p)
        BY <1>0, <1>00, <1>2 DEF Lookup, Frame, SourcesTypeOK
    <2>3. StepKnows(p)' /\ Clean(p)'
        BY <1>0, <1>00, <1>2 DEF Lookup, StepKnows, Clean, Running, SourcesTypeOK
    <2>4. prep'[p].pc # "returned"
        BY <1>0, <1>00, <1>2 DEF Lookup, SourcesTypeOK
    <2> QED BY <2>2, <2>3, <2>4, OneProcess
<1>3. CASE ProbeAdd(p)
    <2>1. CASE Fail(p)
        <3>1. UNCHANGED <<tag, cache, probe>> /\ faults' \in 0..MaxFaults
            BY <1>0, <1>00, <1>000, <1>3, <2>1 DEF ProbeAdd
        <3> QED BY <2>1, <3>1, FailKeepsInv
    <2> SUFFICES ASSUME ~Fail(p) PROVE CacheInv' /\ CacheStep
        BY <2>1
    <2>2. Frame(p)
        <3>1. prep[p].digest \in Digests
            BY <1>0, <1>3 DEF ProbeAdd, StepKnows, Running
        <3>2. probe' \in [Digests -> ProbeState]
            BY <1>0, <1>3, <3>1, ProbeStates, ProbeMarked DEF ProbeAdd, SourcesTypeOK
        <3> QED BY <1>0, <1>00, <1>3, <3>2 DEF ProbeAdd, Frame, SourcesTypeOK
    <2>3. StepKnows(p)' /\ Clean(p)'
        BY <1>0, <1>00, <1>3 DEF ProbeAdd, StepKnows, Clean, Running, SourcesTypeOK
    <2>4. prep'[p].pc # "returned"
        BY <1>0, <1>00, <1>3 DEF ProbeAdd, SourcesTypeOK
    <2> QED BY <2>2, <2>3, <2>4, OneProcess
<1>4. CASE ProbeCheckout(p)
    <2>2. Frame(p)
        <3>1. prep[p].digest \in Digests
            BY <1>0, <1>4 DEF ProbeCheckout, StepKnows, Running
        <3>2. probe' \in [Digests -> ProbeState]
            <4>1. \/ probe' = [probe EXCEPT ![prep[p].digest].full = TRUE]
                  \/ probe' = [probe EXCEPT ![prep[p].digest] = [NoProbe EXCEPT !.reg = TRUE]]
                BY <1>4 DEF ProbeCheckout
            <4>2. probe \in [Digests -> ProbeState]
                BY <1>0 DEF SourcesTypeOK
            <4>3. CASE probe' = [probe EXCEPT ![prep[p].digest].full = TRUE]
                BY <3>1, <4>2, <4>3, ProbeMarked
            <4>4. CASE probe' = [probe EXCEPT ![prep[p].digest] = [NoProbe EXCEPT !.reg = TRUE]]
                <5> DEFINE r == [NoProbe EXCEPT !.reg = TRUE]
                <5>1. r \in ProbeState
                    BY ProbeStates
                <5> HIDE DEF r
                <5> QED BY <3>1, <4>2, <4>4, <5>1 DEF r
            <4> QED BY <4>1, <4>3, <4>4
        <3> QED BY <1>0, <1>00, <1>4, <3>2 DEF ProbeCheckout, Finally, Frame, SourcesTypeOK
    <2>3. StepKnows(p)' /\ Clean(p)'
        BY <1>0, <1>00, <1>4 DEF ProbeCheckout, Finally, NoProbe, StepKnows, Clean, Running, SourcesTypeOK
    <2>4. prep'[p].pc # "returned"
        BY <1>0, <1>00, <1>4 DEF ProbeCheckout, Finally, NoProbe, SourcesTypeOK
    <2> QED BY <2>2, <2>3, <2>4, OneProcess
<1>5. CASE ProbeInspect(p)
    <2>1. CASE Fail(p)
        <3>1. UNCHANGED <<tag, cache, probe>> /\ faults' \in 0..MaxFaults
            BY <1>0, <1>00, <1>000, <1>5, <2>1 DEF ProbeInspect, NoProbe
        <3> QED BY <2>1, <3>1, FailKeepsInv
    <2> SUFFICES ASSUME ~Fail(p) PROVE CacheInv' /\ CacheStep
        BY <2>1
    <2>2. Frame(p)
        <3>1. prep[p].digest \in Digests
            BY <1>0, <1>5 DEF ProbeInspect, StepKnows, Running
        <3>2. probe' \in [Digests -> ProbeState]
            BY <1>0, <1>5, <3>1, ProbeStates, ProbeMarked DEF ProbeInspect, SourcesTypeOK
        <3> QED BY <1>0, <1>00, <1>5, <3>2 DEF ProbeInspect, Frame, SourcesTypeOK
    <2>3. StepKnows(p)' /\ Clean(p)'
        BY <1>0, <1>00, <1>5 DEF ProbeInspect, NoProbe, StepKnows, Clean, Running, SourcesTypeOK
    <2>4. prep'[p].pc # "returned"
        BY <1>0, <1>00, <1>5 DEF ProbeInspect, NoProbe, SourcesTypeOK
    <2> QED BY <2>2, <2>3, <2>4, OneProcess
<1>6. CASE ProbeSweep(p)
    <2>2. Frame(p)
        <3>1. prep[p].digest \in Digests
            BY <1>0, <1>6 DEF ProbeSweep, StepKnows, Running
        <3>2. probe' \in [Digests -> ProbeState]
            BY <1>0, <1>6, <3>1, ProbeStates, ProbeMarked DEF ProbeSweep, SourcesTypeOK
        <3> QED BY <1>0, <1>00, <1>6, <3>2 DEF ProbeSweep, Finally, Frame, SourcesTypeOK
    <2>3. StepKnows(p)' /\ Clean(p)'
        BY <1>0, <1>00, <1>6 DEF ProbeSweep, Finally, SameIdentity, StepKnows, Clean, Running, SourcesTypeOK
    <2>4. prep'[p].pc = "returned" => cache'[prep[p].digest] # Nothing /\ cache'[prep[p].digest].tree = prep[p].digest
        BY <1>0, <1>00, <1>6, SourcesAssumption DEF ProbeSweep, Finally, SameIdentity, StepKnows, Running, SourcesTypeOK
    <2> QED BY <2>2, <2>3, <2>4, OneProcess
<1>7. CASE Create(p)
    <2>1. CASE Fail(p)
        <3>1. UNCHANGED <<tag, cache, probe>> /\ faults' \in 0..MaxFaults
            BY <1>0, <1>00, <1>000, <1>7, <2>1 DEF Create
        <3> QED BY <2>1, <3>1, FailKeepsInv
    <2> SUFFICES ASSUME ~Fail(p) PROVE CacheInv' /\ CacheStep
        BY <2>1
    <2>2. Frame(p)
        BY <1>0, <1>00, <1>7 DEF Create, Frame, SourcesTypeOK
    <2>3. StepKnows(p)' /\ Clean(p)'
        BY <1>0, <1>00, <1>7 DEF Create, StepKnows, Clean, Running, SourcesTypeOK
    <2>4. prep'[p].pc # "returned"
        BY <1>0, <1>00, <1>7 DEF Create, SourcesTypeOK
    <2> QED BY <2>2, <2>3, <2>4, OneProcess
<1>8. CASE Copy(p)
    <2>1. CASE Fail(p)
        <3>1. UNCHANGED <<tag, cache, probe>> /\ faults' \in 0..MaxFaults
            BY <1>0, <1>00, <1>000, <1>8, <2>1 DEF Copy, Immutable
        <3> QED BY <2>1, <3>1, FailKeepsInv
    <2> SUFFICES ASSUME ~Fail(p) PROVE CacheInv' /\ CacheStep
        BY <2>1
    <2>2. Frame(p)
        BY <1>0, <1>00, <1>8 DEF Copy, Immutable, Frame, SourcesTypeOK
    <2>3. StepKnows(p)' /\ Clean(p)'
        BY <1>0, <1>00, <1>8 DEF Copy, Immutable, StepKnows, Clean, Running, SourcesTypeOK
    <2>4. prep'[p].pc # "returned"
        BY <1>0, <1>00, <1>8 DEF Copy, Immutable, SourcesTypeOK
    <2> QED BY <2>2, <2>3, <2>4, OneProcess
<1>9. CASE RemoveContainer(p)
    <2>1. CASE Fail(p)
        <3>1. UNCHANGED <<tag, cache, probe>> /\ faults' \in 0..MaxFaults
            BY <1>0, <1>00, <1>000, <1>9, <2>1 DEF RemoveContainer
        <3> QED BY <2>1, <3>1, FailKeepsInv
    <2> SUFFICES ASSUME ~Fail(p) PROVE CacheInv' /\ CacheStep
        BY <2>1
    <2>2. Frame(p)
        BY <1>0, <1>00, <1>9 DEF RemoveContainer, Frame, SourcesTypeOK
    <2>3. StepKnows(p)' /\ Clean(p)'
        BY <1>0, <1>00, <1>9 DEF RemoveContainer, StepKnows, Clean, Running, SourcesTypeOK
    <2>4. prep'[p].pc # "returned"
        BY <1>0, <1>00, <1>9 DEF RemoveContainer, SourcesTypeOK
    <2> QED BY <2>2, <2>3, <2>4, OneProcess
<1>10. CASE Admit(p)
    <2>1. CASE Fail(p)
        <3>1. UNCHANGED <<tag, cache, probe>> /\ faults' \in 0..MaxFaults
            BY <1>0, <1>00, <1>000, <1>10, <2>1 DEF Admit
        <3> QED BY <2>1, <3>1, FailKeepsInv
    <2> SUFFICES ASSUME ~Fail(p) PROVE CacheInv' /\ CacheStep
        BY <2>1
    <2>2. Frame(p)
        BY <1>0, <1>00, <1>10 DEF Admit, Frame, SourcesTypeOK
    <2>3. StepKnows(p)' /\ Clean(p)'
        BY <1>0, <1>00, <1>10 DEF Admit, StepKnows, Clean, Running, SourcesTypeOK
    <2>4. prep'[p].pc # "returned"
        BY <1>0, <1>00, <1>10 DEF Admit, SourcesTypeOK
    <2> QED BY <2>2, <2>3, <2>4, OneProcess
<1>11. CASE Publish(p)
    <2>2. Frame(p)
        <3>1. prep[p].digest \in Digests /\ staging[p] \in Digests
            BY <1>0, <1>11 DEF Publish, StepKnows, Running
        <3>2. cache' \in [Digests -> {Nothing} \cup [digest : Digests, tree : Digests]]
            <4> DEFINE new == [digest |-> prep[p].digest, tree |-> staging[p]]
            <4>1. new \in [digest : Digests, tree : Digests]
                BY <3>1
            <4>2. cache' = cache \/ cache' = [cache EXCEPT ![prep[p].digest] = new]
                BY <1>11 DEF Publish
            <4>3. cache \in [Digests -> {Nothing} \cup [digest : Digests, tree : Digests]]
                BY <1>0 DEF SourcesTypeOK
            <4> HIDE DEF new
            <4> QED BY <3>1, <4>1, <4>2, <4>3
        <3>3. \A d \in Digests : cache[d] # Nothing => cache'[d] = cache[d]
            BY <1>0, <1>11, <3>1 DEF Publish, Wins, SourcesTypeOK
        <3> QED BY <1>0, <1>00, <1>11, <3>2, <3>3 DEF Publish, Finally, Frame, SourcesTypeOK
    <2>3. StepKnows(p)' /\ Clean(p)'
        BY <1>0, <1>00, <1>11 DEF Publish, Finally, Wins, StepKnows, Clean, Running, SourcesTypeOK
    <2>4. prep'[p].pc = "returned" => cache'[prep[p].digest] # Nothing /\ cache'[prep[p].digest].tree = prep[p].digest
        BY <1>0, <1>00, <1>11, SourcesAssumption DEF Publish, Finally, Wins, StepKnows, Running, SourcesTypeOK
    <2> QED BY <2>2, <2>3, <2>4, OneProcess
<1>12. CASE Kill(p)
    <2>2. Frame(p)
        BY <1>0, <1>00, <1>12 DEF Kill, Frame, SourcesTypeOK
    <2>3. StepKnows(p)' /\ Clean(p)'
        BY <1>0, <1>00, <1>12 DEF Kill, StepKnows, Clean, Running, SourcesTypeOK
    <2>4. prep'[p].pc # "returned"
        BY <1>0, <1>00, <1>12 DEF Kill, SourcesTypeOK
    <2> QED BY <2>2, <2>3, <2>4, OneProcess
<1>13. CASE Again(p)
    <2>2. Frame(p)
        BY <1>0, <1>00, <1>13 DEF Again, Ready, Frame, SourcesTypeOK
    <2>3. StepKnows(p)' /\ Clean(p)'
        BY <1>0, <1>00, <1>13 DEF Again, Ready, StepKnows, Clean, Running, SourcesTypeOK
    <2>4. prep'[p].pc # "returned"
        BY <1>0, <1>00, <1>13 DEF Again, Ready, SourcesTypeOK
    <2> QED BY <2>2, <2>3, <2>4, OneProcess
<1> QED BY <1>1, <1>2, <1>3, <1>4, <1>5, <1>6, <1>7, <1>8, <1>9, <1>10, <1>11, <1>12, <1>13

\* Every step keeps the invariant and the step promises.
LEMMA NextCacheInv ==
    ASSUME CacheInv, [SourcesNext]_sourceVars
    PROVE  CacheInv' /\ [CacheStep]_sourceVars
<1>1. CASE MoveTag \/ Tamper
    <2>1. SourcesTypeOK
        BY DEF CacheInv
    <2>2. /\ SourcesTypeOK' /\ UNCHANGED <<prep, staging, containers, stuck>>
          /\ \A d \in Digests : cache[d] # Nothing => cache'[d] # Nothing
        BY <1>1, <2>1, SourcesAssumption DEF MoveTag, Tamper, Fault, SourcesTypeOK
    <2>3. \A p \in Preparers : StepKnows(p)'
        BY <2>2 DEF CacheInv, StepKnows, Running
    <2> QED BY <2>2, <2>3 DEF CacheInv, EntriesAreTheirDigest, NothingIsLeftBehind,
                            CacheStep, ReturnsAsResolved, FirstOneWins
<1>2. CASE UNCHANGED sourceVars
    BY <1>2 DEF sourceVars, CacheInv, SourcesTypeOK, StepKnows, Running, EntriesAreTheirDigest,
                NothingIsLeftBehind
<1> QED BY <1>1, <1>2, PreparerKeepsInv DEF SourcesNext

\* Whatever the preparers, moved tags, failing calls and kills: what is staged
\* and published under a digest is that digest's content, a process returns only
\* what it resolved, the first publication stays, and a preparation that ends by
\* itself leaves nothing behind but containers Docker would not remove.
THEOREM PreparedSourcesAreSound == SourcesSpec => CacheIsSound
<1>1. SourcesInit => CacheInv
    <2> SUFFICES ASSUME SourcesInit PROVE CacheInv
        OBVIOUS
    <2>1. SourcesTypeOK
        <3>1. probe \in [Digests -> ProbeState]
            BY ProbeStates DEF SourcesInit
        <3>2. Ready \in [pc : Steps, digest : Digests \cup {Nothing}]
            BY DEF Ready, Steps
        <3> QED BY <3>1, <3>2, SourcesAssumption DEF SourcesInit, SourcesTypeOK
    <2> QED BY <2>1, SourcesAssumption DEF SourcesInit, Ready, CacheInv, StepKnows, Running,
                                           EntriesAreTheirDigest, NothingIsLeftBehind
<1>2. CacheInv /\ [SourcesNext]_sourceVars => CacheInv' /\ [CacheStep]_sourceVars
    BY NextCacheInv
<1>3. CacheInv' /\ [CacheStep]_sourceVars =>
        [/\ SourcesTypeOK' /\ EntriesAreTheirDigest' /\ NothingIsLeftBehind'
         /\ ReturnsAsResolved /\ FirstOneWins]_sourceVars
    BY DEF CacheInv, CacheStep
<1> QED BY <1>1, <1>2, <1>3, PTL DEF SourcesSpec, CacheIsSound

-----------------------------------------------------------------------------
(* The selection of tasks                                                  *)

\* A task of the selection, as the generator keeps it.
Chosen == [id : Candidates, source : Nat]
Evidence == [status : {"running", "completed"}, passed : BOOLEAN, source : Nat \cup {None}]

\* The place of a candidate's tier among the tiers.
TierOf(c) == TierIndex(Tier[c])

Generations ==
    [pc : {"idle", "scan", "preflight", "report"}, seed : Seeds \cup {None}, tier : 1..4,
     pos : Nat \ {0}, accepted : Seq(Chosen), tried : Nat, current : Candidates \cup {None}]

SelectionTypeOK ==
    /\ image \in [Candidates -> Nat]
    /\ candState \in [Candidates -> Evidence \cup {None}]
    /\ selection \in Seq(Chosen)
    /\ gen \in Generations
    /\ gen.pc # "idle" => gen.seed \in Seeds

\* What was accepted so far: every task once and in the order of the tiers, of
\* the present tier only what stands before the position in its queue.
InOrder ==
    /\ \A i \in DOMAIN gen.accepted :
          /\ TierOf(gen.accepted[i].id) <= gen.tier
          /\ TierOf(gen.accepted[i].id) = gen.tier /\ gen.tier <= 3 =>
                \E q \in DOMAIN Queue : q < gen.pos /\ Queue[q] = gen.accepted[i].id
    /\ \A i, j \in DOMAIN gen.accepted : i < j =>
          /\ gen.accepted[i].id # gen.accepted[j].id
          /\ TierOf(gen.accepted[i].id) <= TierOf(gen.accepted[j].id)

\* The tiers that are done have their share, the present one has not more, and
\* no repository is above its cap.
Shared ==
    /\ \A k \in 1..3 :
          /\ k < gen.tier => TierCount(gen.accepted, TIERS[k]) = ProportionalTargets[TIERS[k]]
          /\ k = gen.tier => TierCount(gen.accepted, TIERS[k]) <= ProportionalTargets[TIERS[k]]
    /\ \A c \in Candidates : RepoCount(gen.accepted, Repo[c]) <= RepoCap

\* The candidate under the position may still be accepted.
Wanted ==
    /\ gen.tier \in 1..3 /\ gen.pos \in DOMAIN Queue
    /\ TierCount(gen.accepted, TIERS[gen.tier]) < ProportionalTargets[TIERS[gen.tier]]
    /\ RepoCount(gen.accepted, Repo[Queue[gen.pos]]) < RepoCap

\* Evidence that passed, in memory or in a file, was given by the grader.
EvidenceWasProven ==
    /\ \A c \in Candidates :
          (candState[c] # None /\ candState[c].status = "completed" /\ candState[c].passed)
              => <<c, candState[c].source>> \in proven
    /\ \A i \in DOMAIN gen.accepted : <<gen.accepted[i].id, gen.accepted[i].source>> \in proven

\* No task is selected twice.
TasksDiffer == \A i, j \in DOMAIN selection : i < j => selection[i].id # selection[j].id

SelectionInv ==
    /\ SelectionTypeOK
    /\ TasksDiffer
    /\ InOrder
    /\ Shared
    /\ gen.pc = "preflight" => Wanted /\ gen.current = Queue[gen.pos]
    /\ EvidenceWasProven
    /\ gen.pc = "report" => selection = gen.accepted
    /\ report.completed /\ gen.pc \in {"scan", "preflight"} => gen.accepted = <<>>
    /\ SelectionIsBalanced
    /\ SelectedWasProven
    /\ CompletedReportIsTrue

\* The tiers and their order.
LEMMA TheTiers ==
    /\ Len(TIERS) = 3 /\ DOMAIN TIERS = 1..3
    /\ TIERS[1] = "easy" /\ TIERS[2] = "medium" /\ TIERS[3] = "hard"
    /\ ToSet(TIERS) = {"easy", "medium", "hard"}
<1>1. Len(TIERS) = 3 /\ DOMAIN TIERS = 1..3
    BY DEF TIERS
<1>2. TIERS[1] = "easy" /\ TIERS[2] = "medium" /\ TIERS[3] = "hard"
    BY DEF TIERS
<1>3. ToSet(TIERS) = {TIERS[i] : i \in 1..3}
    BY <1>1 DEF ToSet
<1>4. ToSet(TIERS) = {"easy", "medium", "hard"}
    BY <1>2, <1>3
<1> QED BY <1>1, <1>2, <1>4

LEMMA TierIndexIs == \A i \in 1..3 : TierIndex(TIERS[i]) = i
BY TheTiers DEF TierIndex

LEMMA TierOfIs ==
    ASSUME NEW c \in Candidates
    PROVE  /\ TierOf(c) \in 1..3
           /\ \A i \in 1..3 : Tier[c] = TIERS[i] <=> TierOf(c) = i
<1>1. Tier[c] \in {"easy", "medium", "hard"}
    BY TheTiers, QueuesAreShuffled
<1>2. PICK k \in 1..3 : Tier[c] = TIERS[k]
    BY <1>1, TheTiers
<1>3. \A i, j \in 1..3 : TIERS[i] = TIERS[j] => i = j
    BY TheTiers
<1> QED BY <1>2, <1>3, TierIndexIs DEF TierOf

LEMMA GenerationIs ==
    ASSUME SelectionInv
    PROVE  /\ gen \in Generations
           /\ gen.pc # "idle" => gen.seed \in Seeds
BY DEF SelectionInv, SelectionTypeOK, Generations

LEMMA GenerationHas ==
    ASSUME SelectionInv
    PROVE  /\ gen = [pc |-> gen.pc, seed |-> gen.seed, tier |-> gen.tier, pos |-> gen.pos,
                     accepted |-> gen.accepted, tried |-> gen.tried, current |-> gen.current]
           /\ gen.pc \in {"idle", "scan", "preflight", "report"} /\ gen.seed \in Seeds \cup {None}
           /\ gen.tier \in 1..4 /\ gen.pos \in Nat \ {0} /\ gen.accepted \in Seq(Chosen)
           /\ gen.tried \in Nat /\ gen.current \in Candidates \cup {None}
BY GenerationIs DEF Generations

LEMMA EntryIs ==
    ASSUME NEW s \in Seq(Chosen), NEW i \in DOMAIN s
    PROVE  s[i].id \in Candidates /\ s[i].source \in Nat
<1>1. s[i] \in Chosen
    OBVIOUS
<1> QED BY <1>1 DEF Chosen

\* The queue of a tier holds its candidates, each once.
LEMMA QueueIs ==
    ASSUME SelectionTypeOK, gen.pc # "idle", gen.tier \in 1..3
    PROVE  /\ Queue \in Seq(Candidates) /\ DOMAIN Queue = 1..Len(Queue)
           /\ \A q \in DOMAIN Queue : Queue[q] \in Candidates /\ TierOf(Queue[q]) = gen.tier
           /\ \A q, r \in DOMAIN Queue : Queue[q] = Queue[r] => q = r
<1>1. gen.seed \in Seeds /\ TIERS[gen.tier] \in ToSet(TIERS)
    BY TheTiers DEF SelectionTypeOK, Generations
<1>2. /\ Queue \in Seq(Candidates) /\ IsInjective(Queue)
      /\ ToSet(Queue) = {c \in Candidates : Tier[c] = TIERS[gen.tier]}
    BY <1>1, QueuesAreShuffled DEF Queue
<1>3. \A q \in DOMAIN Queue : Queue[q] \in Candidates /\ Tier[Queue[q]] = TIERS[gen.tier]
    BY <1>2 DEF ToSet
<1> QED BY <1>2, <1>3, TierOfIs DEF IsInjective

\* How many entries of a sequence have a value, and what Append makes of it.
LEMMA OneMore ==
    ASSUME NEW n \in Nat, NEW H \in SUBSET (1..n)
    PROVE  Cardinality(H) \in Nat /\ Cardinality(H \cup {n + 1}) = Cardinality(H) + 1
<1>1. IsFiniteSet(1..n)
    BY FS_Interval
<1>2. IsFiniteSet(H)
    BY <1>1, FS_Subset
<1>3. n + 1 \notin H
    OBVIOUS
<1> QED BY <1>2, <1>3, FS_CardinalityType, FS_AddElement

LEMMA TierCountAppended ==
    ASSUME NEW v, NEW s \in Seq(Chosen), NEW e \in Chosen
    PROVE  /\ TierCount(s, v) \in Nat
           /\ TierCount(Append(s, e), v) =
                 IF Tier[e.id] = v THEN TierCount(s, v) + 1 ELSE TierCount(s, v)
<1> DEFINE t == Append(s, e)
           had == {i \in DOMAIN s : Tier[s[i].id] = v}
           has == {i \in DOMAIN t : Tier[t[i].id] = v}
<1>1. Len(s) \in Nat /\ DOMAIN s = 1..Len(s) /\ DOMAIN t = 1..(Len(s) + 1)
    OBVIOUS
<1>2. t[Len(s) + 1] = e /\ \A i \in DOMAIN s : t[i] = s[i]
    OBVIOUS
<1>3. TierCount(s, v) = Cardinality(had) /\ TierCount(t, v) = Cardinality(has)
    BY DEF TierCount
<1> HIDE DEF t
<1>4. has = IF Tier[e.id] = v THEN had \cup {Len(s) + 1} ELSE had
    <2> SUFFICES ASSUME NEW i
                 PROVE  i \in has <=> (i \in had \/ (Tier[e.id] = v /\ i = Len(s) + 1))
        OBVIOUS
    <2>1. CASE i = Len(s) + 1
        BY <1>1, <1>2, <2>1
    <2>2. CASE i # Len(s) + 1
        <3>1. i \in DOMAIN t <=> i \in DOMAIN s
            BY <1>1, <2>2
        <3> QED BY <1>2, <2>2, <3>1
    <2> QED BY <2>1, <2>2
<1>5. had \in SUBSET (1..Len(s))
    BY <1>1
<1> HIDE DEF had, has
<1>6. Cardinality(had) \in Nat /\ Cardinality(had \cup {Len(s) + 1}) = Cardinality(had) + 1
    BY <1>1, <1>5, OneMore
<1> QED BY <1>3, <1>4, <1>6 DEF t

LEMMA RepoCountAppended ==
    ASSUME NEW v, NEW s \in Seq(Chosen), NEW e \in Chosen
    PROVE  /\ RepoCount(s, v) \in Nat
           /\ RepoCount(Append(s, e), v) =
                 IF Repo[e.id] = v THEN RepoCount(s, v) + 1 ELSE RepoCount(s, v)
<1> DEFINE t == Append(s, e)
           had == {i \in DOMAIN s : Repo[s[i].id] = v}
           has == {i \in DOMAIN t : Repo[t[i].id] = v}
<1>1. Len(s) \in Nat /\ DOMAIN s = 1..Len(s) /\ DOMAIN t = 1..(Len(s) + 1)
    OBVIOUS
<1>2. t[Len(s) + 1] = e /\ \A i \in DOMAIN s : t[i] = s[i]
    OBVIOUS
<1>3. RepoCount(s, v) = Cardinality(had) /\ RepoCount(t, v) = Cardinality(has)
    BY DEF RepoCount
<1> HIDE DEF t
<1>4. has = IF Repo[e.id] = v THEN had \cup {Len(s) + 1} ELSE had
    <2> SUFFICES ASSUME NEW i
                 PROVE  i \in has <=> (i \in had \/ (Repo[e.id] = v /\ i = Len(s) + 1))
        OBVIOUS
    <2>1. CASE i = Len(s) + 1
        BY <1>1, <1>2, <2>1
    <2>2. CASE i # Len(s) + 1
        <3>1. i \in DOMAIN t <=> i \in DOMAIN s
            BY <1>1, <2>2
        <3> QED BY <1>2, <2>2, <3>1
    <2> QED BY <2>1, <2>2
<1>5. had \in SUBSET (1..Len(s))
    BY <1>1
<1> HIDE DEF had, has
<1>6. Cardinality(had) \in Nat /\ Cardinality(had \cup {Len(s) + 1}) = Cardinality(had) + 1
    BY <1>1, <1>5, OneMore
<1> QED BY <1>3, <1>4, <1>6 DEF t

LEMMA TierCountIsNatural ==
    ASSUME NEW s \in Seq(Chosen), NEW v
    PROVE  TierCount(s, v) \in Nat
<1> DEFINE had == {i \in DOMAIN s : Tier[s[i].id] = v}
<1>1. Len(s) \in Nat /\ had \in SUBSET (1..Len(s))
    OBVIOUS
<1> HIDE DEF had
<1>2. Cardinality(had) \in Nat
    BY <1>1, OneMore
<1> QED BY <1>2 DEF TierCount, had

LEMMA NothingCounted ==
    \A t, r : TierCount(<<>>, t) = 0 /\ RepoCount(<<>>, r) = 0
BY FS_EmptySet DEF TierCount, RepoCount

\* No tier's share is negative.
LEMMA PoolIsNatural ==
    /\ Cardinality(Candidates) \in Nat \ {0}
    /\ \A t : Pool(t) \in Nat
<1>1. \A t : {c \in Candidates : Tier[c] = t} \subseteq Candidates
    OBVIOUS
<1>2. \A t : Pool(t) \in Nat /\ Pool(t) <= Cardinality(Candidates)
    BY <1>1, PoolSuffices, FS_Subset, FS_CardinalityType DEF Pool
<1>3. Pool(TIERS[1]) > 0
    BY TheTiers, PoolSuffices
<1>4. Cardinality(Candidates) \in Nat
    BY PoolSuffices, FS_CardinalityType
<1> QED BY <1>2, <1>3, <1>4

LEMMA QuotientIsNatural ==
    ASSUME NEW a \in Nat, NEW b \in Nat \ {0}
    PROVE  a \div b \in Nat
OBVIOUS

LEMMA TargetsAreNatural == \A i \in 1..3 : ProportionalTargets[TIERS[i]] \in Nat
<1> DEFINE low(t) == (Size * Pool(t)) \div Cardinality(Candidates)
<1> SUFFICES ASSUME NEW t \in ToSet(TIERS) PROVE ProportionalTargets[t] \in Nat
    BY TheTiers
<1>1. Size * Pool(t) \in Nat
    BY PoolSuffices, PoolIsNatural
<1>2. low(t) \in Nat
    BY <1>1, PoolIsNatural, QuotientIsNatural
<1>3. ProportionalTargets[t] \in {low(t), low(t) + 1}
    BY <1>2 DEF ProportionalTargets
<1> QED BY <1>2, <1>3

\* What a candidate that is accepted, and one that is passed over, does to the
\* accepted tasks.
LEMMA Accepting ==
    ASSUME SelectionInv, Wanted, gen.pc \in {"scan", "preflight"},
           NEW d \in Nat, <<Queue[gen.pos], d>> \in proven', proven \subseteq proven',
           gen'.accepted = Append(gen.accepted, Accepted(Queue[gen.pos], d)),
           gen'.tier = gen.tier, gen'.seed = gen.seed, gen'.pos = gen.pos + 1
    PROVE  /\ gen'.accepted \in Seq(Chosen) /\ InOrder' /\ Shared'
           /\ \A i \in DOMAIN gen'.accepted :
                 <<gen'.accepted[i].id, gen'.accepted[i].source>> \in proven'
<1> DEFINE c == Queue[gen.pos]
           e == Accepted(c, d)
           s == gen.accepted
           t == gen'.accepted
<1>1. /\ gen.tier \in 1..3 /\ gen.pos \in DOMAIN Queue /\ gen.pc # "idle"
      /\ gen.pos \in Nat \ {0} /\ s \in Seq(Chosen)
    BY DEF Wanted, SelectionInv, SelectionTypeOK, Generations
<1>2. /\ c \in Candidates /\ TierOf(c) = gen.tier /\ DOMAIN Queue \subseteq Nat
      /\ \A q, r \in DOMAIN Queue : Queue[q] = Queue[r] => q = r
    BY <1>1, QueueIs DEF SelectionInv
<1>3. e \in Chosen /\ e.id = c /\ e.source = d
    BY <1>2 DEF Accepted, Chosen
<1>4. t = Append(s, e)
    OBVIOUS
<1>21. gen.tier \in 1..3 /\ gen.pos \in Nat
    BY <1>1
<1> HIDE DEF c, e, s, t
<1>5. /\ t \in Seq(Chosen) /\ Len(s) \in Nat
      /\ DOMAIN s = 1..Len(s) /\ DOMAIN t = 1..(Len(s) + 1)
    BY <1>1, <1>3, <1>4 DEF s
<1>6. t[Len(s) + 1] = e /\ \A i \in DOMAIN s : t[i] = s[i]
    BY <1>1, <1>3, <1>4 DEF s
<1>7. Queue' = Queue
    BY DEF Queue
<1>8. \A i \in DOMAIN s : s[i].id # c
    <2> SUFFICES ASSUME NEW i \in DOMAIN s, s[i].id = c PROVE FALSE
        OBVIOUS
    <2>1. \E q \in DOMAIN Queue : q < gen.pos /\ Queue[q] = c
        BY <1>1, <1>2 DEF SelectionInv, InOrder, s
    <2> QED BY <1>1, <1>2, <2>1 DEF c
<1>9. InOrder'
    <2>1. ASSUME NEW i \in DOMAIN t
          PROVE  /\ TierOf(t[i].id) <= gen'.tier
                 /\ TierOf(t[i].id) = gen'.tier /\ gen'.tier <= 3 =>
                       \E q \in DOMAIN Queue' : q < gen'.pos /\ Queue'[q] = t[i].id
        <3>1. CASE i = Len(s) + 1
            <4>1. gen.pos < gen'.pos
                BY <1>21
            <4>2. t[i].id = c
                BY <1>3, <1>6, <3>1
            <4>3. gen.pos \in DOMAIN Queue /\ Queue[gen.pos] = c
                BY <1>1 DEF c
            <4>4. TierOf(t[i].id) <= gen'.tier
                BY <1>2, <1>4, <1>21, <4>2
            <4> QED BY <1>7, <4>1, <4>2, <4>3, <4>4
        <3>2. CASE i \in DOMAIN s
            <4>1. /\ TierOf(s[i].id) <= gen.tier
                  /\ TierOf(s[i].id) = gen.tier =>
                        \E q \in DOMAIN Queue : q < gen.pos /\ Queue[q] = s[i].id
                BY <1>1, <3>2 DEF SelectionInv, InOrder, s
            <4>2. \A q \in DOMAIN Queue : q < gen.pos => q < gen'.pos
                <5> SUFFICES ASSUME NEW q \in DOMAIN Queue, q < gen.pos PROVE q < gen'.pos
                    OBVIOUS
                <5>1. q \in Nat
                    BY <1>2
                <5> QED BY <1>4, <1>21, <5>1
            <4>3. TierOf(t[i].id) = gen.tier =>
                      \E q \in DOMAIN Queue : q < gen'.pos /\ Queue[q] = t[i].id
                BY <1>6, <3>2, <4>1, <4>2
            <4> QED BY <1>4, <1>6, <1>7, <3>2, <4>1, <4>3
        <3> QED BY <1>5, <3>1, <3>2
    <2>2. ASSUME NEW i \in DOMAIN t, NEW j \in DOMAIN t, i < j
          PROVE  t[i].id # t[j].id /\ TierOf(t[i].id) <= TierOf(t[j].id)
        <3>1. i \in DOMAIN s /\ t[i] = s[i]
            BY <1>5, <1>6, <2>2
        <3>2. CASE j = Len(s) + 1
            <4>1. TierOf(s[i].id) <= gen.tier
                BY <3>1 DEF SelectionInv, InOrder, s
            <4> QED BY <1>2, <1>3, <1>6, <1>8, <3>1, <3>2, <4>1
        <3>3. CASE j \in DOMAIN s
            BY <1>6, <2>2, <3>1, <3>3 DEF SelectionInv, InOrder, s
        <3> QED BY <1>5, <3>2, <3>3
    <2> QED BY <2>1, <2>2 DEF InOrder, t
<1>10. \A v : /\ TierCount(s, v) \in Nat
              /\ TierCount(t, v) = IF Tier[c] = v THEN TierCount(s, v) + 1 ELSE TierCount(s, v)
    <2> TAKE v
    <2>1. /\ TierCount(s, v) \in Nat
          /\ TierCount(Append(s, e), v) =
                IF Tier[e.id] = v THEN TierCount(s, v) + 1 ELSE TierCount(s, v)
        <3>1. s \in Seq(Chosen) /\ e \in Chosen
            BY <1>1, <1>3 DEF s
        <3> QED BY <3>1, TierCountAppended
    <2> QED BY <1>3, <1>4, <2>1
<1>11. \A v : /\ RepoCount(s, v) \in Nat
              /\ RepoCount(t, v) = IF Repo[c] = v THEN RepoCount(s, v) + 1 ELSE RepoCount(s, v)
    <2> TAKE v
    <2>1. /\ RepoCount(s, v) \in Nat
          /\ RepoCount(Append(s, e), v) =
                IF Repo[e.id] = v THEN RepoCount(s, v) + 1 ELSE RepoCount(s, v)
        <3>1. s \in Seq(Chosen) /\ e \in Chosen
            BY <1>1, <1>3 DEF s
        <3> QED BY <3>1, RepoCountAppended
    <2> QED BY <1>3, <1>4, <2>1
<1>12. \A k \in 1..3 : Tier[c] = TIERS[k] <=> k = gen.tier
    BY <1>2, TierOfIs
<1>13. Shared'
    <2>1. ASSUME NEW k \in 1..3
          PROVE  /\ k < gen'.tier => TierCount(t, TIERS[k]) = ProportionalTargets[TIERS[k]]
                 /\ k = gen'.tier => TierCount(t, TIERS[k]) <= ProportionalTargets[TIERS[k]]
        <3>1. CASE k = gen.tier
            <4>1. TierCount(t, TIERS[k]) = TierCount(s, TIERS[k]) + 1
                BY <1>10, <1>12, <3>1
            <4>2. TierCount(s, TIERS[k]) < ProportionalTargets[TIERS[k]]
                BY <3>1 DEF Wanted, s
            <4> QED BY <1>4, <1>10, <3>1, <4>1, <4>2, TargetsAreNatural
        <3>2. CASE k # gen.tier
            <4>1. TierCount(t, TIERS[k]) = TierCount(s, TIERS[k])
                BY <1>10, <1>12, <3>2
            <4> QED BY <1>4, <3>2, <4>1 DEF SelectionInv, Shared, s
        <3> QED BY <3>1, <3>2
    <2>2. ASSUME NEW b \in Candidates
          PROVE  RepoCount(t, Repo[b]) <= RepoCap
        <3>1. RepoCount(s, Repo[b]) <= RepoCap
            BY DEF SelectionInv, Shared, s
        <3>2. RepoCap \in Nat
            BY PoolSuffices DEF RepoCap
        <3>3. Repo[c] = Repo[b] => RepoCount(s, Repo[b]) < RepoCap
            BY DEF Wanted, s, c
        <3> QED BY <1>11, <3>1, <3>2, <3>3
    <2> QED BY <2>1, <2>2 DEF Shared, t
<1>14. ASSUME NEW i \in DOMAIN t PROVE <<t[i].id, t[i].source>> \in proven'
    <2>1. CASE i = Len(s) + 1
        BY <1>3, <1>6, <2>1 DEF c
    <2>2. CASE i \in DOMAIN s
        BY <1>6, <2>2 DEF SelectionInv, EvidenceWasProven, s
    <2> QED BY <1>5, <2>1, <2>2
<1> QED BY <1>5, <1>9, <1>13, <1>14 DEF t

LEMMA PassingOver ==
    ASSUME SelectionInv, gen'.accepted = gen.accepted, gen'.tier = gen.tier,
           gen'.seed = gen.seed, gen'.pos \in {gen.pos, gen.pos + 1},
           gen.pc # "idle"
    PROVE  InOrder' /\ Shared'
<1>1. gen.pos \in Nat \ {0} /\ gen.tier \in 1..4
    BY DEF SelectionInv, SelectionTypeOK, Generations
<1>2. Queue' = Queue
    BY DEF Queue
<1>3. gen.tier <= 3 => \A q \in DOMAIN Queue : q < gen.pos => q < gen'.pos
    BY <1>1, QueueIs DEF SelectionInv
<1>4. InOrder'
    BY <1>2, <1>3 DEF SelectionInv, InOrder
<1>5. Shared'
    BY DEF SelectionInv, Shared
<1> QED BY <1>4, <1>5

LEMMA AdmissibleIsWanted ==
    ASSUME SelectionInv, HasCandidate
    PROVE  /\ gen.pc = "scan" /\ gen.tier \in 1..3 /\ gen.pos \in DOMAIN Queue
           /\ Admissible => Wanted
<1>1. gen.pc = "scan" /\ gen.tier \in 1..3
    BY TheTiers DEF HasCandidate, Scanning, SelectionInv, SelectionTypeOK, Generations
<1>2. gen.pos \in Nat \ {0} /\ gen.accepted \in Seq(Chosen)
    BY DEF SelectionInv, SelectionTypeOK, Generations
<1>3. Queue \in Seq(Candidates) /\ DOMAIN Queue = 1..Len(Queue)
    BY <1>1, QueueIs DEF SelectionInv
<1>4. gen.pos \in DOMAIN Queue
    BY <1>2, <1>3 DEF HasCandidate
<1>5. TierCount(gen.accepted, TIERS[gen.tier]) < ProportionalTargets[TIERS[gen.tier]]
    <2>1. ~ TierCount(gen.accepted, TIERS[gen.tier]) >= ProportionalTargets[TIERS[gen.tier]]
        BY DEF HasCandidate, TierFull
    <2>2. TierCount(gen.accepted, TIERS[gen.tier]) \in Nat
        BY <1>2, TierCountIsNatural
    <2>3. ProportionalTargets[TIERS[gen.tier]] \in Nat
        BY <1>1, TargetsAreNatural
    <2> QED BY <2>1, <2>2, <2>3
<1> QED BY <1>1, <1>4, <1>5 DEF Admissible, Wanted

\* The files stay true while the selection is not written again and the report
\* is not marked completed.
LEMMA FilesStay ==
    ASSUME SelectionInv, selection' = selection, proven \subseteq proven',
           report' = report \/ ~ report'.completed
    PROVE  /\ selection' \in Seq(Chosen) /\ TasksDiffer'
           /\ SelectionIsBalanced' /\ SelectedWasProven' /\ CompletedReportIsTrue'
<1>1. selection' \in Seq(Chosen)
    BY DEF SelectionInv, SelectionTypeOK, Generations
<1>2. SelectionIsBalanced'
    BY DEF SelectionInv, SelectionIsBalanced
<1>3. SelectedWasProven'
    BY DEF SelectionInv, SelectedWasProven
<1>4. CompletedReportIsTrue'
    BY DEF SelectionInv, CompletedReportIsTrue
<1>5. TasksDiffer'
    BY DEF SelectionInv, TasksDiffer
<1> QED BY <1>1, <1>2, <1>3, <1>4, <1>5

\* A generator that begins again has accepted nothing.
LEMMA BeginsAnew ==
    ASSUME gen' = [GenIdle EXCEPT !.pc = "scan", !.seed = gen'.seed] \/ gen' = GenIdle,
           gen'.seed \in Seeds \cup {None}, gen'.pc = "idle" \/ gen'.seed \in Seeds
    PROVE  /\ gen' \in Generations
           /\ gen'.pc # "idle" => gen'.seed \in Seeds
           /\ gen'.pc \in {"idle", "scan"} /\ gen'.accepted = <<>>
           /\ InOrder' /\ Shared'
<1>1. /\ gen'.pc \in {"idle", "scan"} /\ gen'.accepted = <<>> /\ gen'.tier = 1
      /\ gen' \in Generations
    <2>1. CASE gen' = GenIdle
        BY <2>1 DEF GenIdle, Generations
    <2>2. CASE gen' = [GenIdle EXCEPT !.pc = "scan", !.seed = gen'.seed]
        <3>1. gen' = [pc |-> "scan", seed |-> gen'.seed, tier |-> 1, pos |-> 1,
                      accepted |-> <<>>, tried |-> 0, current |-> None]
            BY <2>2 DEF GenIdle
        <3> DEFINE seed == gen'.seed
        <3> HIDE DEF seed
        <3>2. seed \in Seeds \cup {None}
            BY DEF seed
        <3>3. gen' = [pc |-> "scan", seed |-> seed, tier |-> 1, pos |-> 1,
                      accepted |-> <<>>, tried |-> 0, current |-> None]
            BY <3>1 DEF seed
        <3> QED BY <3>2, <3>3 DEF Generations
    <2> QED BY <2>1, <2>2
<1>2. InOrder'
    BY <1>1 DEF InOrder
<1>3. Shared'
    <2>1. RepoCap \in Nat
        BY PoolSuffices DEF RepoCap
    <2>2. \A k \in 1..3 : ProportionalTargets[TIERS[k]] \in Nat
        BY TargetsAreNatural
    <2> QED BY <1>1, <2>1, <2>2, NothingCounted DEF Shared
<1> QED BY <1>1, <1>2, <1>3

\* The part of AcceptedIsCurrent about one step.
CurrentStep ==
    \A c \in Candidates :
        (Len(gen'.accepted) > Len(gen.accepted) /\ Last(gen'.accepted).id = c)
            => Last(gen'.accepted).source = image[c]

LEMMA NothingMoreIsCurrent ==
    ASSUME SelectionInv, gen'.accepted \in {<<>>, gen.accepted}
    PROVE  CurrentStep
<1>1. Len(gen.accepted) \in Nat
    BY DEF SelectionInv, SelectionTypeOK, Generations
<1>2. ~ Len(gen'.accepted) > Len(gen.accepted)
    BY <1>1
<1> QED BY <1>2 DEF CurrentStep

LEMMA LastAppended ==
    ASSUME NEW s \in Seq(Chosen), NEW e \in Chosen
    PROVE  Last(Append(s, e)) = e
<1>1. Len(Append(s, e)) = Len(s) + 1 /\ Append(s, e)[Len(s) + 1] = e
    OBVIOUS
<1> QED BY <1>1 DEF Last

LEMMA OneMoreIsCurrent ==
    ASSUME SelectionInv, NEW c \in Candidates, NEW d \in Nat, d = image[c],
           gen'.accepted = Append(gen.accepted, Accepted(c, d))
    PROVE  CurrentStep
<1> DEFINE e == Accepted(c, d)
<1>1. gen.accepted \in Seq(Chosen)
    BY DEF SelectionInv, SelectionTypeOK, Generations
<1>2. e \in Chosen /\ e.id = c /\ e.source = d
    BY DEF Accepted, Chosen
<1> HIDE DEF e
<1>3. gen'.accepted = Append(gen.accepted, e)
    BY DEF e
<1>4. Last(gen'.accepted) = e
    BY <1>1, <1>2, <1>3, LastAppended
<1> QED BY <1>2, <1>4 DEF CurrentStep

-----------------------------------------------------------------------------
(* The steps of a generation                                               *)

LEMMA InitSelection == SelInit => SelectionInv
<1> SUFFICES ASSUME SelInit PROVE SelectionInv
    OBVIOUS
<1>1. gen.accepted = <<>> /\ gen.pc = "idle" /\ gen.tier = 1 /\ selection = <<>>
    BY DEF SelInit, GenIdle
<1>2. SelectionTypeOK
    BY DEF SelInit, GenIdle, SelectionTypeOK, Generations
<1>3. InOrder
    BY <1>1 DEF InOrder
<1>4. Shared
    <2>1. RepoCap \in Nat
        BY PoolSuffices DEF RepoCap
    <2>2. \A k \in 1..3 : ProportionalTargets[TIERS[k]] \in Nat
        BY TargetsAreNatural
    <2> QED BY <1>1, <2>1, <2>2, NothingCounted DEF Shared
<1>5. EvidenceWasProven
    BY <1>1 DEF SelInit, EvidenceWasProven
<1>6. SelectionIsBalanced /\ SelectedWasProven
    BY <1>1 DEF SelectionIsBalanced, SelectedWasProven
<1>7. ~ report.completed /\ TasksDiffer
    BY <1>1 DEF SelInit, NoReport, TasksDiffer
<1> QED BY <1>1, <1>2, <1>3, <1>4, <1>5, <1>6, <1>7 DEF SelectionInv, CompletedReportIsTrue

\* Steps that forget the generation: a start, a pool that does not suffice, a
\* crash, and the end.
LEMMA ForgettingKeeps ==
    ASSUME SelectionInv, UNCHANGED <<image, candState, selection, proven>>,
           report' = report \/ gen'.pc = "idle",
           CompletedReportIsTrue',
           gen' = [GenIdle EXCEPT !.pc = "scan", !.seed = gen'.seed] \/ gen' = GenIdle,
           gen'.seed \in Seeds \cup {None}, gen'.pc = "idle" \/ gen'.seed \in Seeds
    PROVE  SelectionInv' /\ CurrentStep
<1>1. /\ SelectionTypeOK' /\ InOrder' /\ Shared'
      /\ gen'.pc \in {"idle", "scan"} /\ gen'.accepted = <<>>
    BY BeginsAnew DEF SelectionInv, SelectionTypeOK, Generations
<1>2. EvidenceWasProven'
    BY <1>1 DEF SelectionInv, EvidenceWasProven
<1>3. SelectionIsBalanced' /\ TasksDiffer'
    BY DEF SelectionInv, SelectionIsBalanced, TasksDiffer
<1>4. SelectedWasProven'
    BY DEF SelectionInv, SelectedWasProven
<1>5. CurrentStep
    BY <1>1, NothingMoreIsCurrent
<1> QED BY <1>1, <1>2, <1>3, <1>4, <1>5 DEF SelectionInv

LEMMA StartKeeps ==
    ASSUME SelectionInv, NEW seed \in Seeds, GenStart(seed)
    PROVE  SelectionInv' /\ CurrentStep
<1>1. gen' = [GenIdle EXCEPT !.pc = "scan", !.seed = seed] /\ gen'.seed = seed
    BY DEF GenStart, GenIdle
<1>2. CompletedReportIsTrue'
    BY DEF GenStart, SelectionInv, CompletedReportIsTrue
<1> QED BY <1>1, <1>2, ForgettingKeeps DEF GenStart

LEMMA CrashKeeps ==
    ASSUME SelectionInv, GenCrash
    PROVE  SelectionInv' /\ CurrentStep
<1>1. gen' = GenIdle /\ gen'.seed = None /\ gen'.pc = "idle"
    BY DEF GenCrash, GenIdle
<1>2. CompletedReportIsTrue'
    BY DEF GenCrash, SelectionInv, CompletedReportIsTrue
<1> QED BY <1>1, <1>2, ForgettingKeeps DEF GenCrash

LEMMA ReportKeeps ==
    ASSUME SelectionInv, GenReport
    PROVE  SelectionInv' /\ CurrentStep
<1>1. gen' = GenIdle /\ gen'.seed = None /\ gen'.pc = "idle"
    BY DEF GenReport, GenIdle
<1>2. selection = gen.accepted /\ selection' = selection
    BY DEF GenReport, SelectionInv
<1>3. CompletedReportIsTrue'
    BY <1>2 DEF GenReport, Report, CompletedReportIsTrue
<1> QED BY <1>1, <1>3, ForgettingKeeps DEF GenReport

\* A tier that has its share gives way to the next; a queue that ends before is
\* an error, and the generation is over.
LEMMA NextTierKeeps ==
    ASSUME SelectionInv, GenNextTier
    PROVE  SelectionInv' /\ CurrentStep
<1>1. CASE ~ TierFull
    <2>1. gen' = GenIdle /\ gen'.seed = None /\ gen'.pc = "idle"
        BY <1>1 DEF GenNextTier, GenIdle
    <2>2. CompletedReportIsTrue'
        BY DEF GenNextTier, SelectionInv, CompletedReportIsTrue
    <2> QED BY <2>1, <2>2, ForgettingKeeps DEF GenNextTier
<1>2. CASE TierFull
    <2>1. /\ gen.pc = "scan" /\ gen.tier \in 1..3
          /\ gen.accepted \in Seq(Chosen) /\ gen.seed \in Seeds
        BY TheTiers DEF GenNextTier, Scanning, SelectionInv, SelectionTypeOK, Generations
    <2>2. gen' = [gen EXCEPT !.tier = @ + 1, !.pos = 1]
        BY <1>2 DEF GenNextTier
    <2>3. /\ gen'.pc = "scan" /\ gen'.tier = gen.tier + 1 /\ gen'.pos = 1
          /\ gen'.accepted = gen.accepted /\ gen'.seed = gen.seed
        BY <2>1, <2>2 DEF SelectionInv, SelectionTypeOK, Generations
    <2>4. SelectionTypeOK'
        <3>1. gen' \in Generations
            <4>1. gen' = [pc |-> gen.pc, seed |-> gen.seed, tier |-> gen.tier + 1, pos |-> 1,
                          accepted |-> gen.accepted, tried |-> gen.tried, current |-> gen.current]
                BY <2>2, GenerationHas
            <4> QED BY <2>1, <4>1, GenerationHas DEF Generations
        <3> QED BY <2>1, <2>3, <3>1 DEF GenNextTier, SelectionInv, SelectionTypeOK
    <2>5. \A i \in DOMAIN gen.accepted : TierOf(gen.accepted[i].id) \in 1..gen.tier
        <3> TAKE i \in DOMAIN gen.accepted
        <3>1. gen.accepted[i].id \in Candidates
            BY <2>1, EntryIs
        <3>2. TierOf(gen.accepted[i].id) <= gen.tier
            BY DEF SelectionInv, InOrder
        <3> QED BY <3>1, <3>2, TierOfIs
    <2>6. InOrder'
        BY <2>1, <2>3, <2>5 DEF SelectionInv, InOrder
    <2>7. TierCount(gen.accepted, TIERS[gen.tier]) = ProportionalTargets[TIERS[gen.tier]]
        <3>1. /\ TierCount(gen.accepted, TIERS[gen.tier]) >= ProportionalTargets[TIERS[gen.tier]]
              /\ TierCount(gen.accepted, TIERS[gen.tier]) <= ProportionalTargets[TIERS[gen.tier]]
            BY <1>2, <2>1 DEF TierFull, SelectionInv, Shared
        <3>2. /\ TierCount(gen.accepted, TIERS[gen.tier]) \in Nat
              /\ ProportionalTargets[TIERS[gen.tier]] \in Nat
            BY <2>1, TierCountIsNatural, TargetsAreNatural
        <3> QED BY <3>1, <3>2
    <2>8. Shared'
        <3>1. ASSUME NEW k \in 1..3, k < gen'.tier
              PROVE  TierCount(gen'.accepted, TIERS[k]) = ProportionalTargets[TIERS[k]]
            <4>1. k < gen.tier \/ k = gen.tier
                BY <2>1, <2>3, <3>1
            <4> QED BY <2>3, <2>7, <4>1 DEF SelectionInv, Shared
        <3>2. ASSUME NEW k \in 1..3, k = gen'.tier
              PROVE  TierCount(gen'.accepted, TIERS[k]) <= ProportionalTargets[TIERS[k]]
            <4>1. \A i \in DOMAIN gen.accepted : Tier[gen.accepted[i].id] # TIERS[k]
                <5> TAKE i \in DOMAIN gen.accepted
                <5>1. gen.accepted[i].id \in Candidates
                    BY <2>1, EntryIs
                <5>2. TierOf(gen.accepted[i].id) # k
                    BY <2>1, <2>3, <2>5, <3>2
                <5> QED BY <5>1, <5>2, TierOfIs
            <4>2. {i \in DOMAIN gen.accepted : Tier[gen.accepted[i].id] = TIERS[k]} = {}
                BY <4>1
            <4>3. TierCount(gen.accepted, TIERS[k]) = 0
                BY <4>2, FS_EmptySet DEF TierCount
            <4>4. ProportionalTargets[TIERS[k]] \in Nat
                BY TargetsAreNatural
            <4> QED BY <2>3, <4>3, <4>4
        <3>3. \A c \in Candidates : RepoCount(gen'.accepted, Repo[c]) <= RepoCap
            BY <2>3 DEF SelectionInv, Shared
        <3> QED BY <3>1, <3>2, <3>3 DEF Shared
    <2>9. EvidenceWasProven'
        BY <2>3 DEF GenNextTier, SelectionInv, EvidenceWasProven
    <2>10. TasksDiffer' /\ SelectionIsBalanced' /\ SelectedWasProven' /\ CompletedReportIsTrue'
        BY FilesStay DEF GenNextTier
    <2>11. CurrentStep
        BY <2>3, NothingMoreIsCurrent
    <2>12. report'.completed => gen'.accepted = <<>>
        BY <2>1, <2>3 DEF GenNextTier, SelectionInv
    <2> QED BY <2>3, <2>4, <2>6, <2>8, <2>9, <2>10, <2>11, <2>12 DEF SelectionInv
<1> QED BY <1>1, <1>2

LEMMA RejectRepoKeeps ==
    ASSUME SelectionInv, GenRejectRepo
    PROVE  SelectionInv' /\ CurrentStep
<1>1. gen.pc = "scan"
    BY AdmissibleIsWanted DEF GenRejectRepo
<1>2. gen' = [gen EXCEPT !.pos = @ + 1, !.tried = @ + 1]
    BY DEF GenRejectRepo
<1>3. /\ gen'.pc = "scan" /\ gen'.tier = gen.tier /\ gen'.pos = gen.pos + 1
      /\ gen'.accepted = gen.accepted /\ gen'.seed = gen.seed
    BY <1>1, <1>2 DEF SelectionInv, SelectionTypeOK, Generations
<1>4. SelectionTypeOK'
    <2>1. gen' \in Generations
        <3>1. gen' = [pc |-> gen.pc, seed |-> gen.seed, tier |-> gen.tier, pos |-> gen.pos + 1,
                      accepted |-> gen.accepted, tried |-> gen.tried + 1, current |-> gen.current]
            BY <1>2, GenerationHas
        <3> QED BY <3>1, GenerationHas DEF Generations
    <2> QED BY <1>1, <1>3, <2>1 DEF GenRejectRepo, SelectionInv, SelectionTypeOK
<1>5. InOrder' /\ Shared'
    BY <1>1, <1>3, PassingOver
<1>6. EvidenceWasProven'
    BY <1>3 DEF GenRejectRepo, SelectionInv, EvidenceWasProven
<1>7. ~ report'.completed
    BY DEF GenRejectRepo, Report
<1>8. TasksDiffer' /\ SelectionIsBalanced' /\ SelectedWasProven' /\ CompletedReportIsTrue'
    BY <1>7, FilesStay DEF GenRejectRepo
<1>9. CurrentStep
    BY <1>3, NothingMoreIsCurrent
<1> QED BY <1>3, <1>4, <1>5, <1>6, <1>7, <1>8, <1>9 DEF SelectionInv

LEMMA PreflightKeeps ==
    ASSUME SelectionInv, GenPreflight
    PROVE  SelectionInv' /\ CurrentStep
<1> DEFINE c == Queue[gen.pos]
<1>1. HasCandidate /\ Admissible
    BY DEF GenPreflight, Admissible
<1>2. gen.pc = "scan" /\ gen.tier \in 1..3 /\ gen.pos \in DOMAIN Queue /\ Wanted
    BY <1>1, AdmissibleIsWanted
<1>3. c \in Candidates
    BY <1>2, QueueIs DEF SelectionInv
<1>4. gen' = [gen EXCEPT !.pc = "preflight", !.current = c]
    BY DEF GenPreflight
<1>5. candState' = [candState EXCEPT ![c] = [status |-> "running", passed |-> FALSE, source |-> None]]
    BY DEF GenPreflight
<1> HIDE DEF c
<1>6. /\ gen'.pc = "preflight" /\ gen'.tier = gen.tier /\ gen'.pos = gen.pos /\ gen'.current = c
      /\ gen'.accepted = gen.accepted /\ gen'.seed = gen.seed
    BY <1>4 DEF SelectionInv, SelectionTypeOK, Generations
<1>7. [status |-> "running", passed |-> FALSE, source |-> None] \in Evidence
    BY DEF Evidence
<1>8. SelectionTypeOK'
    <2>1. candState' \in [Candidates -> Evidence \cup {None}]
        BY <1>5, <1>7 DEF SelectionInv, SelectionTypeOK, Generations
    <2>2. gen' \in Generations
        BY <1>3, <1>4 DEF SelectionInv, SelectionTypeOK, Generations
    <2> QED BY <1>2, <1>6, <2>1, <2>2 DEF GenPreflight, SelectionInv, SelectionTypeOK, Generations
<1>9. InOrder' /\ Shared'
    BY <1>2, <1>6, PassingOver
<1>10. Wanted' /\ gen'.current = Queue'[gen'.pos]
    <2>1. Queue' = Queue
        BY <1>6 DEF Queue
    <2> QED BY <1>2, <1>6, <2>1 DEF Wanted, c
<1>11. EvidenceWasProven'
    <2>1. ASSUME NEW b \in Candidates, candState'[b] # None, candState'[b].status = "completed",
                 candState'[b].passed
          PROVE  <<b, candState'[b].source>> \in proven'
        <3>1. b # c
            BY <1>3, <1>5, <2>1 DEF SelectionInv, SelectionTypeOK, Generations
        <3>2. candState'[b] = candState[b]
            BY <1>5, <3>1 DEF SelectionInv, SelectionTypeOK, Generations
        <3> QED BY <2>1, <3>2 DEF GenPreflight, SelectionInv, EvidenceWasProven
    <2> QED BY <1>6, <2>1 DEF GenPreflight, SelectionInv, EvidenceWasProven
<1>12. TasksDiffer' /\ SelectionIsBalanced' /\ SelectedWasProven' /\ CompletedReportIsTrue'
    BY FilesStay DEF GenPreflight
<1>13. CurrentStep
    BY <1>6, NothingMoreIsCurrent
<1>14. report'.completed => gen'.accepted = <<>>
    BY <1>2, <1>6 DEF GenPreflight, SelectionInv
<1> QED BY <1>6, <1>8, <1>9, <1>10, <1>11, <1>12, <1>13, <1>14 DEF SelectionInv

\* What a candidate's evidence does, given that it is true of it.
LEMMA SettlingKeeps ==
    ASSUME SelectionInv, Wanted, gen.pc \in {"scan", "preflight"},
           NEW passed \in BOOLEAN, NEW d \in Nat, d = image[Queue[gen.pos]],
           passed => <<Queue[gen.pos], d>> \in proven', proven \subseteq proven',
           gen'.accepted = IF passed THEN Append(gen.accepted, Accepted(Queue[gen.pos], d))
                                     ELSE gen.accepted,
           gen'.tier = gen.tier, gen'.seed = gen.seed, gen'.pos = gen.pos + 1
    PROVE  /\ InOrder' /\ Shared' /\ CurrentStep /\ gen'.accepted \in Seq(Chosen)
           /\ \A i \in DOMAIN gen'.accepted :
                 <<gen'.accepted[i].id, gen'.accepted[i].source>> \in proven'
<1>1. CASE passed
    <2>1. gen'.accepted = Append(gen.accepted, Accepted(Queue[gen.pos], d))
        BY <1>1
    <2>2. Queue[gen.pos] \in Candidates
        BY QueueIs DEF Wanted, SelectionInv
    <2>3. CurrentStep
        BY <2>1, <2>2, OneMoreIsCurrent
    <2>4. <<Queue[gen.pos], d>> \in proven'
        BY <1>1
    <2>5. /\ gen'.accepted \in Seq(Chosen) /\ InOrder' /\ Shared'
          /\ \A i \in DOMAIN gen'.accepted :
                <<gen'.accepted[i].id, gen'.accepted[i].source>> \in proven'
        BY <2>1, <2>4, Accepting
    <2> QED BY <2>3, <2>5
<1>2. CASE ~ passed
    <2>1. gen'.accepted = gen.accepted
        BY <1>2
    <2>2. gen.accepted \in Seq(Chosen)
        BY GenerationIs DEF Generations
    <2>3. InOrder' /\ Shared'
        BY <2>1, PassingOver
    <2>4. CurrentStep
        BY <2>1, NothingMoreIsCurrent
    <2>5. \A i \in DOMAIN gen.accepted : <<gen.accepted[i].id, gen.accepted[i].source>> \in proven
        BY DEF SelectionInv, EvidenceWasProven
    <2> QED BY <2>1, <2>2, <2>3, <2>4, <2>5
<1> QED BY <1>1, <1>2

LEMMA ReuseKeeps ==
    ASSUME SelectionInv, GenReuse
    PROVE  SelectionInv' /\ CurrentStep
<1> DEFINE c == Queue[gen.pos]
           d == candState[c].source
<1>1. HasCandidate /\ Admissible
    BY DEF GenReuse, Admissible
<1>2. gen.pc = "scan" /\ gen.tier \in 1..3 /\ Wanted
    BY <1>1, AdmissibleIsWanted
<1>3. c \in Candidates
    BY <1>2, QueueIs DEF Wanted, SelectionInv
<1>4. Reusable(c)
    BY DEF GenReuse
<1>5. d = image[c] /\ d \in Nat /\ <<c, d>> \in proven
    BY <1>3, <1>4 DEF Reusable, SelectionInv, SelectionTypeOK, EvidenceWasProven
<1>6. gen' = [gen EXCEPT !.pc = "scan", !.pos = @ + 1, !.tried = @ + 1, !.current = None,
                         !.accepted = Append(@, Accepted(c, d))]
    BY DEF GenReuse, Settle
<1> HIDE DEF d
<1>7. /\ gen'.pc = "scan" /\ gen'.tier = gen.tier /\ gen'.pos = gen.pos + 1
      /\ gen'.seed = gen.seed /\ gen'.accepted = Append(gen.accepted, Accepted(c, d))
    <2> HIDE DEF c
    <2> QED BY <1>6, GenerationIs DEF Generations
<1>8. /\ InOrder' /\ Shared' /\ CurrentStep /\ gen'.accepted \in Seq(Chosen)
      /\ \A i \in DOMAIN gen'.accepted :
            <<gen'.accepted[i].id, gen'.accepted[i].source>> \in proven'
    <2>1. <<c, d>> \in proven' /\ proven \subseteq proven'
        BY <1>5 DEF GenReuse
    <2> QED BY <1>2, <1>5, <1>7, <2>1, SettlingKeeps
<1> HIDE DEF c
<1>9. gen' \in Generations
    <2> DEFINE a == Append(gen.accepted, Accepted(c, d))
    <2>1. a \in Seq(Chosen)
        BY <1>7, <1>8
    <2>2. gen' = [gen EXCEPT !.pc = "scan", !.pos = @ + 1, !.tried = @ + 1, !.current = None,
                             !.accepted = a]
        BY <1>6
    <2> HIDE DEF a
    <2>3. gen' = [pc |-> "scan", seed |-> gen.seed, tier |-> gen.tier, pos |-> gen.pos + 1,
                  accepted |-> a, tried |-> gen.tried + 1, current |-> None]
        BY <2>2, GenerationHas
    <2> QED BY <2>1, <2>3, GenerationHas DEF Generations
<1>10. SelectionTypeOK'
    BY <1>2, <1>7, <1>9 DEF GenReuse, SelectionInv, SelectionTypeOK
<1>11. EvidenceWasProven'
    BY <1>8 DEF GenReuse, SelectionInv, EvidenceWasProven
<1>12. ~ report'.completed
    BY DEF GenReuse, Report
<1>13. TasksDiffer' /\ SelectionIsBalanced' /\ SelectedWasProven' /\ CompletedReportIsTrue'
    BY <1>12, FilesStay DEF GenReuse
<1> QED BY <1>7, <1>8, <1>10, <1>11, <1>12, <1>13 DEF SelectionInv

LEMMA ProveKeeps ==
    ASSUME SelectionInv, NEW prepare \in PrepareEnds, NEW answer \in GraderAnswers,
           GenProve(prepare, answer)
    PROVE  SelectionInv' /\ CurrentStep
<1> DEFINE c == Queue[gen.pos]
           passed == EvidencePassed(prepare, answer)
           d == image[c]
           a == IF passed THEN Append(gen.accepted, Accepted(c, d)) ELSE gen.accepted
<1>1. gen.pc = "preflight" /\ Wanted /\ gen.current = c
    BY DEF GenProve, SelectionInv
<1>2. c \in Candidates /\ d \in Nat /\ passed \in BOOLEAN
    BY <1>1, QueueIs DEF Wanted, SelectionInv, SelectionTypeOK, EvidencePassed
<1>3. gen' = [gen EXCEPT !.pc = "scan", !.pos = @ + 1, !.tried = @ + 1, !.current = None,
                         !.accepted = a]
    BY <1>1 DEF GenProve, Settle
<1>4. candState' = [candState EXCEPT ![c] = [status |-> "completed", passed |-> passed,
                                             source |-> IF passed THEN d ELSE None]]
    BY <1>1 DEF GenProve
<1>5. proven' = IF passed THEN proven \cup {<<c, d>>} ELSE proven
    BY <1>1 DEF GenProve
<1> HIDE DEF passed, a
<1>6. /\ gen'.pc = "scan" /\ gen'.tier = gen.tier /\ gen'.pos = gen.pos + 1
      /\ gen'.seed = gen.seed /\ gen'.accepted = a
    <2> HIDE DEF c, d
    <2> QED BY <1>3, GenerationIs DEF Generations
<1>7. /\ InOrder' /\ Shared' /\ CurrentStep /\ gen'.accepted \in Seq(Chosen)
      /\ \A i \in DOMAIN gen'.accepted :
            <<gen'.accepted[i].id, gen'.accepted[i].source>> \in proven'
    <2>1. passed => <<c, d>> \in proven'
        BY <1>5
    <2>2. proven \subseteq proven'
        BY <1>5
    <2> QED BY <1>1, <1>2, <1>6, <2>1, <2>2, SettlingKeeps DEF a
<1> HIDE DEF c, d
<1>8. gen' \in Generations
    <2>1. gen' = [pc |-> "scan", seed |-> gen.seed, tier |-> gen.tier, pos |-> gen.pos + 1,
                  accepted |-> a, tried |-> gen.tried + 1, current |-> None]
        BY <1>3, GenerationHas
    <2>2. a \in Seq(Chosen)
        BY <1>6, <1>7
    <2> QED BY <2>1, <2>2, GenerationHas DEF Generations
<1>9. [status |-> "completed", passed |-> passed, source |-> IF passed THEN d ELSE None] \in Evidence
    BY <1>2 DEF Evidence
<1>10. SelectionTypeOK'
    <2>1. candState' \in [Candidates -> Evidence \cup {None}]
        BY <1>4, <1>9 DEF SelectionInv, SelectionTypeOK
    <2> QED BY <1>1, <1>6, <1>8, <2>1 DEF GenProve, SelectionInv, SelectionTypeOK
<1>11. EvidenceWasProven'
    <2>1. ASSUME NEW b \in Candidates, candState'[b] # None, candState'[b].status = "completed",
                 candState'[b].passed
          PROVE  <<b, candState'[b].source>> \in proven'
        <3>1. CASE b = c
            <4>1. candState'[c] = [status |-> "completed", passed |-> passed,
                                   source |-> IF passed THEN d ELSE None]
                BY <1>2, <1>4 DEF SelectionInv, SelectionTypeOK
            <4>2. passed /\ candState'[c].source = d
                BY <2>1, <3>1, <4>1
            <4> QED BY <1>5, <3>1, <4>2
        <3>2. CASE b # c
            <4>1. candState'[b] = candState[b]
                BY <1>4, <3>2 DEF SelectionInv, SelectionTypeOK
            <4> QED BY <1>5, <2>1, <4>1 DEF SelectionInv, EvidenceWasProven
        <3> QED BY <3>1, <3>2
    <2> QED BY <1>7, <2>1 DEF EvidenceWasProven
<1>12. ~ report'.completed
    BY DEF GenProve, Report
<1>13. TasksDiffer' /\ SelectionIsBalanced' /\ SelectedWasProven' /\ CompletedReportIsTrue'
    BY <1>5, <1>12, FilesStay DEF GenProve
<1> QED BY <1>6, <1>7, <1>10, <1>11, <1>12, <1>13 DEF SelectionInv

\* As many ids as tasks.
LEMMA DistinctIds ==
    ASSUME NEW s \in Seq(Chosen),
           \A i, j \in DOMAIN s : i < j => s[i].id # s[j].id
    PROVE  Cardinality({s[i].id : i \in DOMAIN s}) = Len(s)
<1> DEFINE n == Len(s)
           ids == {s[i].id : i \in DOMAIN s}
           f == [i \in 1..n |-> s[i].id]
<1>1. n \in Nat /\ DOMAIN s = 1..n
    OBVIOUS
<1>2. f \in [1..n -> ids] /\ \A i \in 1..n : f[i] = s[i].id
    BY <1>1
<1>3. \A i, j \in 1..n : f[i] = f[j] => i = j
    <2> SUFFICES ASSUME NEW i \in 1..n, NEW j \in 1..n, i # j PROVE f[i] # f[j]
        OBVIOUS
    <2>1. i < j \/ j < i
        BY <1>1
    <2> QED BY <1>1, <2>1
<1>4. \A v \in ids : \E i \in 1..n : f[i] = v
    BY <1>1
<1> HIDE DEF f, ids
<1>5. f \in Bijection(1..n, ids)
    BY <1>2, <1>3, <1>4 DEF Bijection, Injection, Surjection, IsInjective
<1>6. ExistsBijection(1..n, ids)
    BY <1>5 DEF ExistsBijection
<1>7. IsFiniteSet(1..n) /\ Cardinality(1..n) = n
    BY <1>1, FS_Interval
<1> QED BY <1>6, <1>7, FS_Bijection DEF ids

LEMMA WriteKeeps ==
    ASSUME SelectionInv, GenWrite
    PROVE  SelectionInv' /\ CurrentStep
<1>1. /\ gen.pc = "scan" /\ gen.tier = 4 /\ Len(gen.accepted) = Size
      /\ selection' = gen.accepted /\ gen.accepted \in Seq(Chosen)
    BY TheTiers, GenerationHas DEF GenWrite
<1>2. gen' = [gen EXCEPT !.pc = "report"]
    BY DEF GenWrite
<1>3. /\ gen'.pc = "report" /\ gen'.tier = gen.tier /\ gen'.pos = gen.pos
      /\ gen'.accepted = gen.accepted /\ gen'.seed = gen.seed
    BY <1>2, GenerationHas
<1>4. SelectionTypeOK'
    <2>1. gen' = [pc |-> "report", seed |-> gen.seed, tier |-> gen.tier, pos |-> gen.pos,
                  accepted |-> gen.accepted, tried |-> gen.tried, current |-> gen.current]
        BY <1>2, GenerationHas
    <2>2. gen' \in Generations
        BY <2>1, GenerationHas DEF Generations
    <2> QED BY <1>1, <1>3, <2>2 DEF GenWrite, SelectionInv, SelectionTypeOK
<1>5. InOrder' /\ Shared'
    BY <1>1, <1>3, PassingOver
<1>6. EvidenceWasProven' /\ SelectedWasProven'
    BY <1>1, <1>3 DEF GenWrite, SelectionInv, EvidenceWasProven, SelectedWasProven
<1>7. SelectionIsBalanced'
    <2> SUFFICES ASSUME selection' # <<>>
                 PROVE  /\ SelectionLoads(gen.accepted)
                        /\ \A k \in 1..3 : TierCount(gen.accepted, TIERS[k]) = ProportionalTargets[TIERS[k]]
                        /\ \A c \in Candidates : RepoCount(gen.accepted, Repo[c]) <= RepoCap
        BY <1>1, TheTiers DEF SelectionIsBalanced
    <2>1. \A i, j \in DOMAIN gen.accepted : i < j =>
             /\ gen.accepted[i].id # gen.accepted[j].id
             /\ TierIndex(Tier[gen.accepted[i].id]) <= TierIndex(Tier[gen.accepted[j].id])
        BY DEF SelectionInv, InOrder, TierOf
    <2>2. Cardinality({gen.accepted[i].id : i \in DOMAIN gen.accepted}) = Len(gen.accepted)
        BY <1>1, <2>1, DistinctIds
    <2>3. SelectionLoads(gen.accepted)
        BY <1>1, <2>1, <2>2 DEF SelectionLoads
    <2> QED BY <1>1, <2>3 DEF SelectionInv, Shared
<1>8. CompletedReportIsTrue'
    <2>1. CASE ~ report.completed
        BY <2>1 DEF GenWrite, CompletedReportIsTrue
    <2>2. CASE report.completed
        <3>1. gen.accepted = <<>> /\ Size = 0
            BY <1>1, <2>2 DEF SelectionInv
        <3>2. selection \in Seq(Chosen) /\ (selection # <<>> => Len(selection) = Size)
            BY DEF SelectionInv, SelectionTypeOK, SelectionIsBalanced
        <3>3. selection = <<>>
            BY <3>1, <3>2
        <3>4. selection' = selection
            BY <1>1, <3>1, <3>3
        <3> QED BY <3>4 DEF GenWrite, SelectionInv, CompletedReportIsTrue
    <2> QED BY <2>1, <2>2
<1>9. CurrentStep
    BY <1>3, NothingMoreIsCurrent
<1>10. selection' = gen'.accepted /\ TasksDiffer'
    BY <1>1, <1>3 DEF SelectionInv, InOrder, TasksDiffer
<1> QED BY <1>3, <1>4, <1>5, <1>6, <1>7, <1>8, <1>9, <1>10 DEF SelectionInv

LEMMA MoveImageKeeps ==
    ASSUME SelectionInv, NEW c \in Candidates, MoveImage(c)
    PROVE  SelectionInv' /\ CurrentStep
<1>1. image' \in [Candidates -> Nat]
    BY DEF MoveImage, SelectionInv, SelectionTypeOK
<1>2. SelectionTypeOK'
    BY <1>1 DEF MoveImage, SelectionInv, SelectionTypeOK
<1>3. InOrder' /\ Shared' /\ EvidenceWasProven'
    <2>1. Queue' = Queue
        BY DEF MoveImage, Queue
    <2>2. InOrder'
        BY <2>1 DEF MoveImage, SelectionInv, InOrder
    <2>3. Shared' /\ EvidenceWasProven'
        BY DEF MoveImage, SelectionInv, Shared, EvidenceWasProven
    <2> QED BY <2>2, <2>3
<1>4. gen'.pc = "preflight" => Wanted' /\ gen'.current = Queue'[gen'.pos]
    <2>1. Queue' = Queue
        BY DEF MoveImage, Queue
    <2> QED BY <2>1 DEF MoveImage, SelectionInv, Wanted
<1>5. TasksDiffer' /\ SelectionIsBalanced' /\ SelectedWasProven' /\ CompletedReportIsTrue'
    BY FilesStay DEF MoveImage
<1>6. CurrentStep
    BY NothingMoreIsCurrent DEF MoveImage
<1> QED BY <1>2, <1>3, <1>4, <1>5, <1>6 DEF MoveImage, SelectionInv

LEMMA StutteringKeeps ==
    ASSUME SelectionInv, UNCHANGED selVars
    PROVE  SelectionInv'
<1>1. UNCHANGED <<image, candState, selection, report, gen, proven>>
    BY DEF selVars
<1>2. SelectionTypeOK' /\ InOrder' /\ Shared' /\ EvidenceWasProven'
    BY <1>1 DEF SelectionInv, SelectionTypeOK, InOrder, Shared, EvidenceWasProven, Queue
<1>3. gen'.pc = "preflight" => Wanted' /\ gen'.current = Queue'[gen'.pos]
    BY <1>1 DEF SelectionInv, Wanted, Queue
<1>4. TasksDiffer' /\ SelectionIsBalanced' /\ SelectedWasProven' /\ CompletedReportIsTrue'
    BY <1>1, FilesStay
<1> QED BY <1>1, <1>2, <1>3, <1>4 DEF SelectionInv

LEMMA SelectionStep ==
    ASSUME SelectionInv, SelNext
    PROVE  SelectionInv' /\ CurrentStep
<1>1. ASSUME NEW seed \in Seeds, GenStart(seed) PROVE SelectionInv' /\ CurrentStep
    BY <1>1, StartKeeps
<1>2. CASE GenNextTier
    BY <1>2, NextTierKeeps
<1>3. CASE GenRejectRepo
    BY <1>3, RejectRepoKeeps
<1>4. CASE GenReuse
    BY <1>4, ReuseKeeps
<1>5. CASE GenPreflight
    BY <1>5, PreflightKeeps
<1>6. ASSUME NEW prepare \in PrepareEnds, NEW answer \in GraderAnswers, GenProve(prepare, answer)
      PROVE  SelectionInv' /\ CurrentStep
    BY <1>6, ProveKeeps
<1>7. CASE GenWrite
    BY <1>7, WriteKeeps
<1>8. CASE GenReport
    BY <1>8, ReportKeeps
<1>9. CASE GenCrash
    BY <1>9, CrashKeeps
<1>10. ASSUME NEW c \in Candidates, MoveImage(c) PROVE SelectionInv' /\ CurrentStep
    BY <1>10, MoveImageKeeps
<1> QED BY <1>1, <1>2, <1>3, <1>4, <1>5, <1>6, <1>7, <1>8, <1>9, <1>10 DEF SelNext

\* However often a generation is killed, fails or is started again while images
\* move, the selection that is written is balanced, every task of it was proven
\* on the source it names, evidence is current when it is accepted, and a report
\* marked completed is the selection's (VerifiedSelectionGenerator.run).
THEOREM SelectionsAreProven == SelectionSpec => SelectionIsProven
<1>1. SelectionInv /\ [SelNext]_selVars => SelectionInv'
    BY SelectionStep, StutteringKeeps
<1>2. SelectionInv /\ [SelNext]_selVars => [CurrentStep]_selVars
    BY SelectionStep
<1>3. SelectionInv => SelectionIsBalanced /\ SelectedWasProven /\ CompletedReportIsTrue
    BY DEF SelectionInv
<1>4. SelectionSpec => []SelectionInv
    BY InitSelection, <1>1, PTL DEF SelectionSpec
<1>5. SelectionSpec => AcceptedIsCurrent
    BY <1>2, <1>4, PTL DEF SelectionSpec, AcceptedIsCurrent, CurrentStep
<1> QED BY <1>3, <1>4, <1>5, PTL DEF SelectionIsProven

-----------------------------------------------------------------------------
(* The account of a batch                                                  *)

\* What an attempt really was, and the memory of the batch process.
LedgerEntries == [task : Candidates, attempt : Nat, requests : Nat, known : Nat,
                  fate : {"open", "scored", "failed", "grader", "killed", "lost"}]
Runs == [pc : {"off", "task", "agent", "grader", "scored", "raised"}, i : Nat \ {0},
         completed : Seq(Entries), attempt : Nat, requests : Nat, known : Nat,
         agent : AgentStatus \cup {None}, outcome : Scored \cup ExceptionOutcomes \cup {None}]

BatchTypeOK ==
    /\ manifest \in Manifests \cup {None}
    /\ taskState \in [Candidates -> TaskStates \cup {None}]
    /\ attempts \subseteq Entries
    /\ evidence \subseteq Candidates
    /\ run \in Runs
    /\ ledger \subseteq LedgerEntries
    /\ spent \in [runs : Nat, losses : Nat]
    /\ summary # None => Len(summary.tasks) \in Nat

\* Before the first start of the batch there is nothing of it.
NothingBefore ==
    manifest = None =>
        /\ \A t \in Candidates : taskState[t] = None
        /\ attempts = {} /\ evidence = {} /\ ledger = {} /\ summary = None /\ run.pc = "off"

\* A task with artifacts has a state, and a completed state its scored result.
StatesAreTrue ==
    \A t \in Candidates :
        /\ t \in evidence => taskState[t] # None
        /\ taskState[t] # None /\ taskState[t].status = "completed" =>
              /\ taskState[t].result \in Entries
              /\ taskState[t].result.task = t /\ taskState[t].result.outcome \in Scored

\* The attempt that runs is the one the process and the files know of; what a
\* scored and a failed attempt cost is in the state and in the artifact.
LedgerIsTrue ==
    \A l \in ledger :
        /\ taskState[l.task] # None /\ l.attempt <= taskState[l.task].attempt
        /\ l.known <= l.requests
        /\ Open(l) =>
              /\ run.pc \in {"agent", "grader"} /\ l.task = Current /\ l.attempt = run.attempt
              /\ l.requests = run.requests /\ l.known = run.known
        /\ l.fate = "scored" =>
              /\ l.task \in evidence /\ taskState[l.task].status = "completed"
              /\ taskState[l.task].result.usage = AggregateUsage(l.requests, l.known)
        /\ l.fate = "failed" =>
              \E a \in attempts : a.usage = UsageFromEvents(l.requests, l.known)

\* The first n tasks are completed, and their results are the entries of s.
Loaded(s, n) ==
    /\ Len(s) = n /\ n <= Len(selection)
    /\ \A j \in 1..n : LoadComplete(TaskIds[j]) /\ s[j] = taskState[TaskIds[j]].result

\* The process has the results of the tasks before the present one, and the
\* state of the present one is that of the attempt.
RunIsTrue ==
    /\ run.known <= run.requests
    /\ run.pc # "off" => Loaded(run.completed, run.i - 1)
    /\ run.pc \notin {"off", "task"} =>
          /\ run.i <= Len(selection)
          /\ taskState[Current] # None /\ taskState[Current].attempt = run.attempt
    /\ run.pc \in {"agent", "grader", "raised"} => taskState[Current].status = "running"
    /\ run.pc = "scored" =>
          /\ taskState[Current].status = "completed" /\ Current \in evidence
          /\ taskState[Current].result = Result(run.outcome)

\* While no artifact was lost, the tasks of the summary are still completed.
SummaryIsTrue ==
    summary # None /\ spent.losses = 0 =>
        /\ Len(summary.tasks) <= Len(selection)
        /\ \A j \in 1..Len(summary.tasks) : LoadComplete(TaskIds[j])
        /\ run.pc \notin {"off", "task"} => Len(summary.tasks) <= run.i - 1

BatchInv ==
    /\ SelectionInv
    /\ BatchTypeOK
    /\ NothingBefore
    /\ StatesAreTrue
    /\ LedgerIsTrue
    /\ RunIsTrue
    /\ SummaryIsTrue
    /\ AttemptNumbersAreUnique
    /\ SpendingIsKnown
    /\ SummaryListsTheTasks

\* The parts of ScoredIsFinal and CompletedNeverShrinks about one step.
ScoredStep ==
    \A t \in evidence : taskState[t].status = "completed" => taskState'[t] = taskState[t]
ShrinkStep ==
    (summary # None /\ spent.losses = 0) => Len(summary'.tasks) >= Len(summary.tasks)

AccountStep == attempts \subseteq attempts' /\ ScoredStep /\ ShrinkStep

\* LoadComplete and Loaded of the next state, for what is named in this one.
CompleteNext(t) ==
    /\ taskState'[t] # None
    /\ taskState'[t].status = "completed"
    /\ taskState'[t].result.outcome \in Scored
    /\ t \in evidence'
LoadedNext(s, n) ==
    /\ Len(s) = n /\ n <= Len(selection)
    /\ \A j \in 1..n : CompleteNext(TaskIds[j]) /\ s[j] = taskState'[TaskIds[j]].result

\* The usage of an attempt, and a cost that is only complete when all is known.
LEMMA UsagesAre ==
    ASSUME NEW n \in Nat, NEW k \in Nat, k <= n
    PROVE  /\ AggregateUsage(n, k) \in Usages /\ UsageFromEvents(n, k) \in Usages
           /\ Cost(AggregateUsage(n, k)).complete => n = k
           /\ Cost(UsageFromEvents(n, k)).complete => n = k
<1>1. Coverage(n, k) \in {"complete", "partial", "unavailable"}
    BY DEF Coverage
<1>2. Coverage(n, k) = "complete" => n = k
    BY DEF Coverage
<1>3. AggregateUsage(n, k) \in Usages /\ (Cost(AggregateUsage(n, k)).complete => n = k)
    <2> DEFINE c == Coverage(n, k)
    <2>1. AggregateUsage(n, k) = [requests |-> n, known |-> k, total |-> IF k = 0 THEN None ELSE k,
                                  coverage |-> c]
        BY DEF AggregateUsage, Usage
    <2> HIDE DEF c
    <2> QED BY <1>1, <1>2, <2>1 DEF Usages, Cost, c
<1>4. ZeroUsage \in Usages
    BY DEF ZeroUsage, Usage, Usages
<1>5. UsageFromEvents(n, k) = IF n = 0 THEN ZeroUsage ELSE AggregateUsage(n, k)
    BY DEF UsageFromEvents
<1>6. n = 0 => n = k
    OBVIOUS
<1> QED BY <1>3, <1>4, <1>5, <1>6

LEMMA StatesAre ==
    ASSUME NEW n \in Nat, NEW status \in {"running", "failed", "completed"},
           NEW phase \in {"agent", "grader", "completed"}, NEW result \in Entries \cup {None}
    PROVE  /\ State(n, status, phase, result) \in TaskStates
           /\ State(n, status, phase, result) # None
BY NoneIsNoFile DEF State, TaskStates

LEMMA TasksAre ==
    ASSUME SelectionInv
    PROVE  /\ Len(selection) \in Nat /\ DOMAIN TaskIds = 1..Len(selection)
           /\ \A j \in 1..Len(selection) : TaskIds[j] \in Candidates
           /\ \A j, k \in 1..Len(selection) : TaskIds[j] = TaskIds[k] => j = k
<1>1. selection \in Seq(Chosen)
    BY DEF SelectionInv, SelectionTypeOK
<1>2. /\ Len(selection) \in Nat /\ DOMAIN selection = 1..Len(selection)
      /\ \A j \in 1..Len(selection) : TaskIds[j] = selection[j].id
    BY <1>1 DEF TaskIds
<1>3. \A j \in 1..Len(selection) : TaskIds[j] \in Candidates
    BY <1>1, <1>2, EntryIs
<1>4. ASSUME NEW j \in 1..Len(selection), NEW k \in 1..Len(selection), j # k
      PROVE  TaskIds[j] # TaskIds[k]
    <2>1. j < k \/ k < j
        BY <1>2, <1>4
    <2> QED BY <1>2, <2>1 DEF SelectionInv, TasksDiffer
<1> QED BY <1>1, <1>2, <1>3, <1>4 DEF TaskIds

LEMMA RunIs ==
    ASSUME BatchTypeOK
    PROVE  /\ run = [pc |-> run.pc, i |-> run.i, completed |-> run.completed, attempt |-> run.attempt,
                     requests |-> run.requests, known |-> run.known, agent |-> run.agent,
                     outcome |-> run.outcome]
           /\ run.pc \in {"off", "task", "agent", "grader", "scored", "raised"}
           /\ run.i \in Nat \ {0} /\ run.completed \in Seq(Entries) /\ run.attempt \in Nat
           /\ run.requests \in Nat /\ run.known \in Nat /\ run.agent \in AgentStatus \cup {None}
           /\ run.outcome \in Scored \cup ExceptionOutcomes \cup {None}
BY DEF BatchTypeOK, Runs

\* The process that is over, and one that has begun.
LEMMA RunOffIs == RunOff \in Runs /\ [RunOff EXCEPT !.pc = "task"] \in Runs
<1> DEFINE Begun(pc) == [pc |-> pc, i |-> 1, completed |-> <<>>, attempt |-> 0, requests |-> 0,
                         known |-> 0, agent |-> None, outcome |-> None]
<1>1. \A pc \in {"off", "task"} : Begun(pc) \in Runs
    <2>1. <<>> \in Seq(Entries) /\ 1 \in Nat \ {0} /\ 0 \in Nat
        OBVIOUS
    <2> QED BY <2>1 DEF Runs
<1>2. RunOff = Begun("off") /\ [RunOff EXCEPT !.pc = "task"] = Begun("task")
    BY DEF RunOff
<1> QED BY <1>1, <1>2

\* The task that runs, and the tasks before it.
LEMMA CurrentIs ==
    ASSUME BatchInv, run.pc # "off", run.i <= Len(selection)
    PROVE  /\ run.i \in 1..Len(selection) /\ Current \in Candidates /\ Current = TaskIds[run.i]
           /\ \A j \in 1..(run.i - 1) : TaskIds[j] \in Candidates /\ TaskIds[j] # Current
<1>1. run.i \in 1..Len(selection) /\ Len(selection) \in Nat
    BY RunIs, TasksAre DEF BatchInv
<1>2. \A j \in 1..(run.i - 1) : j \in 1..Len(selection) /\ j # run.i
    BY <1>1
<1> QED BY <1>1, <1>2, TasksAre DEF BatchInv, Current

\* Results that are loaded stay so while the states of their tasks stay.
LEMMA LoadedStays ==
    ASSUME NEW s, NEW n \in Nat, Loaded(s, n), evidence \subseteq evidence',
           \A j \in 1..n : taskState'[TaskIds[j]] = taskState[TaskIds[j]]
    PROVE  LoadedNext(s, n)
BY DEF Loaded, LoadedNext, LoadComplete, CompleteNext

LEMMA LoadedThen ==
    ASSUME selection' = selection, LoadedNext(run'.completed, run'.i - 1)
    PROVE  Loaded(run.completed, run.i - 1)'
<1>1. TaskIds' = TaskIds
    BY DEF TaskIds
<1> QED BY <1>1 DEF Loaded, LoadedNext, LoadComplete, CompleteNext

LEMMA OneMoreLoaded ==
    ASSUME NEW s \in Seq(Entries), NEW n \in Nat \ {0}, LoadedNext(s, n - 1), n <= Len(selection),
           NEW e \in Entries, CompleteNext(TaskIds[n]), e = taskState'[TaskIds[n]].result
    PROVE  LoadedNext(Append(s, e), n)
<1> DEFINE t == Append(s, e)
<1>1. Len(t) = n /\ t[n] = e /\ \A j \in 1..(n - 1) : t[j] = s[j]
    BY DEF LoadedNext
<1> HIDE DEF t
<1>2. ASSUME NEW j \in 1..n PROVE CompleteNext(TaskIds[j]) /\ t[j] = taskState'[TaskIds[j]].result
    <2>1. CASE j = n
        BY <1>1, <2>1
    <2>2. CASE j # n
        <3>1. j \in 1..(n - 1)
            BY <2>2
        <3> QED BY <1>1, <3>1 DEF LoadedNext
    <2> QED BY <2>1, <2>2
<1>3. LoadedNext(t, n)
    BY <1>1, <1>2 DEF LoadedNext
<1> QED BY <1>3 DEF t

\* A summary that is written now never says less than the one before it.
LEMMA SummaryIsBehind ==
    ASSUME BatchInv, run.pc # "off",
           run.pc = "task" /\ run.i <= Len(selection) => ~ LoadComplete(Current),
           summary # None, spent.losses = 0
    PROVE  Len(summary.tasks) <= run.i - 1
<1>1. CASE run.pc # "task"
    BY <1>1 DEF BatchInv, SummaryIsTrue
<1>2. CASE run.pc = "task"
    <2>1. /\ Len(summary.tasks) <= Len(selection) /\ Len(summary.tasks) \in Nat
          /\ \A j \in 1..Len(summary.tasks) : LoadComplete(TaskIds[j])
        BY DEF BatchInv, SummaryIsTrue, BatchTypeOK
    <2>2. run.i \in Nat \ {0} /\ Len(selection) \in Nat
        BY RunIs, TasksAre DEF BatchInv
    <2>3. ~ run.i \in 1..Len(summary.tasks)
        BY <1>2, <2>1, <2>2 DEF Current
    <2> QED BY <2>1, <2>2, <2>3
<1> QED BY <1>1, <1>2

LEMMA SummaryWritten ==
    ASSUME NEW c \in Seq(Entries), NEW failed, NEW states, NEW finished \in BOOLEAN, NEW reason,
           summary' = Summary(c, failed, states, finished, reason),
           SelectionInv, selection' = selection, StatesAreTrue', LoadedNext(c, Len(c)),
           run'.pc \in {"off", "task"} \/ Len(c) <= run'.i - 1,
           finished => Len(c) = Len(selection)
    PROVE  /\ summary'.tasks = c /\ Len(summary'.tasks) \in Nat
           /\ SummaryIsTrue' /\ SummaryListsTheTasks'
<1>1. summary'.tasks = c /\ summary'.finished = finished
    BY DEF Summary
<1>2. Len(c) \in Nat /\ DOMAIN c = 1..Len(c)
    OBVIOUS
<1>3. TaskIds' = TaskIds
    BY DEF TaskIds
<1>4. SummaryIsTrue'
    BY <1>1, <1>2, <1>3 DEF SummaryIsTrue, LoadedNext, LoadComplete, CompleteNext
<1>5. SummaryListsTheTasks'
    <2> SUFFICES ASSUME finished PROVE [i \in DOMAIN c |-> c[i].task] = TaskIds
        BY <1>1, <1>3 DEF SummaryListsTheTasks
    <2>1. DOMAIN TaskIds = DOMAIN c
        BY <1>2, TasksAre
    <2>2. ASSUME NEW j \in DOMAIN c PROVE c[j].task = TaskIds[j]
        <3>1. CompleteNext(TaskIds[j]) /\ c[j] = taskState'[TaskIds[j]].result
            BY <1>2 DEF LoadedNext
        <3>2. TaskIds[j] \in Candidates
            BY <1>2, <2>1, TasksAre
        <3> QED BY <3>1, <3>2 DEF CompleteNext, StatesAreTrue
    <2>3. TaskIds = [j \in DOMAIN TaskIds |-> TaskIds[j]]
        BY DEF TaskIds
    <2> QED BY <2>1, <2>2, <2>3
<1> QED BY <1>1, <1>2, <1>4, <1>5

\* A summary that is not written stays true while the tasks it lists do.
LEMMA SummaryKept ==
    ASSUME BatchInv, selection' = selection, summary' = summary,
           spent'.losses = spent.losses \/ spent'.losses # 0,
           spent'.losses = 0 /\ summary # None =>
               /\ \A j \in 1..Len(summary.tasks) : LoadComplete(TaskIds[j]) => CompleteNext(TaskIds[j])
               /\ run'.pc \in {"off", "task"} \/ Len(summary.tasks) <= run'.i - 1
    PROVE  /\ summary' # None => Len(summary'.tasks) \in Nat
           /\ SummaryIsTrue' /\ SummaryListsTheTasks' /\ ShrinkStep
<1>1. TaskIds' = TaskIds
    BY DEF TaskIds
<1>2. summary # None => Len(summary.tasks) \in Nat
    BY DEF BatchInv, BatchTypeOK
<1>3. SummaryIsTrue'
    BY <1>1 DEF BatchInv, SummaryIsTrue, LoadComplete, CompleteNext
<1>4. SummaryListsTheTasks'
    BY <1>1 DEF BatchInv, SummaryListsTheTasks
<1> QED BY <1>2, <1>3, <1>4 DEF ShrinkStep

\* Steps that leave the ledger and the states of the tasks, while nothing runs.
LEMMA LedgerKept ==
    ASSUME BatchInv, UNCHANGED <<ledger, taskState, evidence>>, attempts \subseteq attempts',
           run.pc \notin {"agent", "grader"}
    PROVE  LedgerIsTrue' /\ AttemptNumbersAreUnique'
<1>1. \A l \in ledger : ~ Open(l)
    BY DEF BatchInv, LedgerIsTrue
<1>2. LedgerIsTrue'
    BY <1>1 DEF BatchInv, LedgerIsTrue, Open
<1> QED BY <1>2 DEF BatchInv, AttemptNumbersAreUnique

LEMMA StatesKept ==
    ASSUME BatchInv, UNCHANGED <<selVars, taskState, evidence>>
    PROVE  SelectionInv' /\ StatesAreTrue' /\ ScoredStep /\ selection' = selection
<1>1. SelectionInv'
    BY StutteringKeeps DEF BatchInv
<1> QED BY <1>1 DEF BatchInv, StatesAreTrue, ScoredStep, selVars

\* What is left of the ledger when the attempt that runs ends.
LEMMA Closed ==
    ASSUME BatchInv, NEW fate \in {"scored", "failed", "grader", "killed"}, ledger' = Close(fate)
    PROVE  /\ ledger' \subseteq LedgerEntries /\ AttemptNumbersAreUnique'
           /\ \A m \in ledger' :
                 \E l \in ledger : /\ m.task = l.task /\ m.attempt = l.attempt
                                   /\ m.requests = l.requests /\ m.known = l.known
                                   /\ \/ Open(l) /\ m.fate = fate
                                      \/ ~ Open(l) /\ m = l
<1>1. ASSUME NEW m \in ledger'
      PROVE  \E l \in ledger : /\ m = IF Open(l) THEN [l EXCEPT !.fate = fate] ELSE l
                               /\ m.task = l.task /\ m.attempt = l.attempt
                               /\ m.requests = l.requests /\ m.known = l.known
                               /\ \/ Open(l) /\ m.fate = fate
                                  \/ ~ Open(l) /\ m = l
                               /\ m \in LedgerEntries
    <2>1. PICK l \in ledger : m = IF Open(l) THEN [l EXCEPT !.fate = fate] ELSE l
        BY DEF Close
    <2>2. l \in LedgerEntries
        BY DEF BatchInv, BatchTypeOK
    <2> QED BY <2>1, <2>2 DEF LedgerEntries
<1>2. AttemptNumbersAreUnique'
    <2> SUFFICES ASSUME NEW m \in ledger', NEW n \in ledger', m.task = n.task, m.attempt = n.attempt
                 PROVE  m = n
        BY DEF AttemptNumbersAreUnique
    <2>1. PICK l \in ledger : /\ m = IF Open(l) THEN [l EXCEPT !.fate = fate] ELSE l
                              /\ m.task = l.task /\ m.attempt = l.attempt
        BY <1>1
    <2>2. PICK k \in ledger : /\ n = IF Open(k) THEN [k EXCEPT !.fate = fate] ELSE k
                              /\ n.task = k.task /\ n.attempt = k.attempt
        BY <1>1
    <2>3. l = k
        BY <2>1, <2>2 DEF BatchInv, AttemptNumbersAreUnique
    <2> QED BY <2>1, <2>2, <2>3
<1> QED BY <1>1, <1>2

\* What the process holds while it runs.
LEMMA RunHolds ==
    ASSUME BatchInv, run.pc # "off"
    PROVE  /\ Loaded(run.completed, run.i - 1) /\ Len(run.completed) = run.i - 1
           /\ run.i - 1 \in Nat /\ run.completed \in Seq(Entries)
           /\ manifest \in Manifests /\ manifest # None
<1>1. run.i - 1 \in Nat /\ run.completed \in Seq(Entries)
    BY RunIs DEF BatchInv
<1>2. Loaded(run.completed, run.i - 1)
    BY DEF BatchInv, RunIsTrue
<1>3. manifest \in Manifests /\ manifest # None
    BY DEF BatchInv, NothingBefore, BatchTypeOK
<1> QED BY <1>1, <1>2, <1>3 DEF Loaded

\* A process that is over.
LEMMA RunIsOver ==
    ASSUME run' = RunOff
    PROVE  run' \in Runs /\ run'.pc = "off" /\ RunIsTrue' /\ SpendingIsKnown'
<1>1. run'.pc = "off" /\ run'.known = 0 /\ run'.requests = 0
    BY DEF RunOff
<1> QED BY <1>1, RunOffIs DEF RunIsTrue, SpendingIsKnown

\* A summary of the results the process holds.
LEMMA SummaryOfTheRun ==
    ASSUME BatchInv, run.pc # "off",
           run.pc = "task" /\ run.i <= Len(selection) => ~ LoadComplete(Current),
           NEW failed, NEW states, NEW finished \in BOOLEAN, NEW reason,
           summary' = Summary(run.completed, failed, states, finished, reason),
           finished => run.i > Len(selection),
           selection' = selection, StatesAreTrue', evidence \subseteq evidence',
           \A j \in 1..(run.i - 1) : taskState'[TaskIds[j]] = taskState[TaskIds[j]],
           run'.pc \in {"off", "task"} \/ run'.i = run.i
    PROVE  /\ Len(summary'.tasks) \in Nat
           /\ SummaryIsTrue' /\ SummaryListsTheTasks' /\ ShrinkStep
           /\ LoadedNext(run.completed, run.i - 1)
<1>1. /\ Loaded(run.completed, run.i - 1) /\ Len(run.completed) = run.i - 1
      /\ run.i - 1 \in Nat /\ run.completed \in Seq(Entries)
    BY RunHolds
<1>2. LoadedNext(run.completed, run.i - 1)
    BY <1>1, LoadedStays
<1>3. LoadedNext(run.completed, Len(run.completed))
    BY <1>1, <1>2
<1>4. run.i \in Nat /\ Len(selection) \in Nat /\ run.i - 1 <= Len(selection) /\ SelectionInv
    BY <1>1, RunIs, TasksAre DEF BatchInv, Loaded
<1>5. finished => Len(run.completed) = Len(selection)
    BY <1>1, <1>4
<1>6. run'.pc \in {"off", "task"} \/ Len(run.completed) <= run'.i - 1
    BY <1>1
<1>7. /\ summary'.tasks = run.completed /\ Len(summary'.tasks) \in Nat
      /\ SummaryIsTrue' /\ SummaryListsTheTasks'
    BY <1>1, <1>3, <1>4, <1>5, <1>6, SummaryWritten
<1>8. ShrinkStep
    <2> SUFFICES ASSUME summary # None, spent.losses = 0
                 PROVE  Len(summary'.tasks) >= Len(summary.tasks)
        BY DEF ShrinkStep
    <2>1. Len(summary.tasks) <= run.i - 1 /\ Len(summary.tasks) \in Nat
        BY SummaryIsBehind DEF BatchInv, BatchTypeOK
    <2> QED BY <1>1, <1>7, <2>1
<1> QED BY <1>2, <1>7, <1>8

\* A change of the state of the task that runs.
LEMMA CurrentChanges ==
    ASSUME BatchInv, run.pc # "off", run.i <= Len(selection),
           NEW x \in TaskStates, taskState' = [taskState EXCEPT ![Current] = x],
           x.status = "completed" =>
               x.result \in Entries /\ x.result.task = Current /\ x.result.outcome \in Scored,
           evidence' \subseteq evidence \cup {Current}
    PROVE  /\ taskState' \in [Candidates -> TaskStates \cup {None}] /\ StatesAreTrue'
           /\ taskState'[Current] = x /\ x # None
           /\ \A t \in Candidates : t # Current => taskState'[t] = taskState[t]
           /\ \A j \in 1..(run.i - 1) : taskState'[TaskIds[j]] = taskState[TaskIds[j]]
<1>1. /\ Current \in Candidates
      /\ \A j \in 1..(run.i - 1) : TaskIds[j] \in Candidates /\ TaskIds[j] # Current
    BY CurrentIs
<1> DEFINE c == Current
<1> HIDE DEF c
<1>2. /\ taskState \in [Candidates -> TaskStates \cup {None}] /\ c \in Candidates
      /\ taskState' = [taskState EXCEPT ![c] = x]
    BY <1>1 DEF BatchInv, BatchTypeOK, c
<1>3. /\ taskState' \in [Candidates -> TaskStates \cup {None}] /\ taskState'[c] = x
      /\ \A t \in Candidates : t # c => taskState'[t] = taskState[t]
    BY <1>2
<1>4. x # None
    BY NoneIsNoFile
<1>5. StatesAreTrue'
    <2> SUFFICES ASSUME NEW t \in Candidates
                 PROVE  /\ t \in evidence' => taskState'[t] # None
                        /\ taskState'[t] # None /\ taskState'[t].status = "completed" =>
                              /\ taskState'[t].result \in Entries
                              /\ taskState'[t].result.task = t
                              /\ taskState'[t].result.outcome \in Scored
        BY DEF StatesAreTrue
    <2>1. CASE t = c
        BY <1>3, <1>4, <2>1 DEF c
    <2>2. CASE t # c
        BY <1>3, <2>2 DEF BatchInv, StatesAreTrue, c
    <2> QED BY <2>1, <2>2
<1> QED BY <1>1, <1>3, <1>4, <1>5 DEF c

\* What the ledger says of earlier attempts while an attempt comes to its end.
LEMMA EarlierAttempts ==
    ASSUME BatchInv, run.pc \in {"agent", "grader", "raised"},
           NEW x \in TaskStates, x.attempt = taskState[Current].attempt,
           taskState'[Current] = x, \A t \in Candidates : t # Current => taskState'[t] = taskState[t],
           evidence \subseteq evidence', attempts \subseteq attempts'
    PROVE  \A l \in ledger :
              /\ taskState'[l.task] # None /\ l.attempt <= taskState'[l.task].attempt
              /\ l.known <= l.requests
              /\ l.fate = "scored" =>
                    /\ l.task \in evidence' /\ taskState'[l.task].status = "completed"
                    /\ taskState'[l.task].result.usage = AggregateUsage(l.requests, l.known)
              /\ l.fate = "failed" =>
                    \E a \in attempts' : a.usage = UsageFromEvents(l.requests, l.known)
<1>1. taskState[Current].status = "running"
    BY DEF BatchInv, RunIsTrue
<1> SUFFICES ASSUME NEW l \in ledger
             PROVE  /\ taskState'[l.task] # None /\ l.attempt <= taskState'[l.task].attempt
                    /\ l.known <= l.requests
                    /\ l.fate = "scored" =>
                          /\ l.task \in evidence' /\ taskState'[l.task].status = "completed"
                          /\ taskState'[l.task].result.usage = AggregateUsage(l.requests, l.known)
                    /\ l.fate = "failed" =>
                          \E a \in attempts' : a.usage = UsageFromEvents(l.requests, l.known)
    OBVIOUS
<1>2. l \in LedgerEntries
    BY DEF BatchInv, BatchTypeOK
<1>3. l.task \in Candidates
    BY <1>2 DEF LedgerEntries
<1>4. /\ taskState[l.task] # None /\ l.attempt <= taskState[l.task].attempt /\ l.known <= l.requests
      /\ l.fate = "scored" =>
            /\ l.task \in evidence /\ taskState[l.task].status = "completed"
            /\ taskState[l.task].result.usage = AggregateUsage(l.requests, l.known)
      /\ l.fate = "failed" => \E a \in attempts : a.usage = UsageFromEvents(l.requests, l.known)
    BY DEF BatchInv, LedgerIsTrue
<1>5. CASE l.task = Current
    BY <1>1, <1>4, <1>5, NoneIsNoFile
<1>6. CASE l.task # Current
    BY <1>3, <1>4, <1>6
<1> QED BY <1>5, <1>6

\* When the guard lets a task start, every request of the charged attempts is known.
LEMMA GuardKnows ==
    ASSUME BatchInv, run.pc # "off", Verdict = "within_budget"
    PROVE  \A l \in Charged : l.requests = l.known
<1>1. \A e \in ToSet(run.completed) \cup attempts : Cost(e.usage).complete
    BY DEF Verdict, CostGuard
<1> SUFFICES ASSUME NEW l \in Charged PROVE l.requests = l.known
    OBVIOUS
<1>2. l \in ledger /\ (l.fate = "failed" \/ (l.fate = "scored" /\ Before(l)))
    BY DEF Charged, Counted
<1>3. l \in LedgerEntries
    BY <1>2 DEF BatchInv, BatchTypeOK
<1>4. l.requests \in Nat /\ l.known \in Nat /\ l.known <= l.requests
    BY <1>2, <1>3 DEF LedgerEntries, BatchInv, LedgerIsTrue
<1>5. CASE l.fate = "failed"
    <2>1. PICK a \in attempts : a.usage = UsageFromEvents(l.requests, l.known)
        BY <1>2, <1>5 DEF BatchInv, LedgerIsTrue
    <2>2. Cost(UsageFromEvents(l.requests, l.known)).complete
        BY <1>1, <2>1
    <2> QED BY <1>4, <2>2, UsagesAre
<1>6. CASE l.fate = "scored" /\ Before(l)
    <2>1. PICK j \in 1..(run.i - 1) : TaskIds[j] = l.task
        BY <1>6 DEF Before
    <2>2. /\ Loaded(run.completed, run.i - 1) /\ Len(run.completed) = run.i - 1
          /\ run.completed \in Seq(Entries)
        BY RunHolds
    <2>3. run.completed[j] = taskState[l.task].result
        BY <2>1, <2>2 DEF Loaded
    <2>4. run.completed[j] \in ToSet(run.completed)
        BY <2>1, <2>2 DEF ToSet
    <2>5. taskState[l.task].result.usage = AggregateUsage(l.requests, l.known)
        BY <1>2, <1>6 DEF BatchInv, LedgerIsTrue
    <2>6. Cost(AggregateUsage(l.requests, l.known)).complete
        BY <1>1, <2>3, <2>4, <2>5
    <2> QED BY <1>4, <2>6, UsagesAre
<1> QED BY <1>2, <1>5, <1>6

-----------------------------------------------------------------------------
(* The steps of a batch                                                    *)

LEMMA InitBatch == BenchmarkInit => BatchInv
<1> SUFFICES ASSUME BenchmarkInit PROVE BatchInv
    OBVIOUS
<1>1. SelectionInv
    BY InitSelection DEF BenchmarkInit
<1>2. BatchTypeOK
    BY RunOffIs DEF BenchmarkInit, BatchInit, BatchTypeOK
<1>3. NothingBefore /\ run.pc = "off"
    BY DEF BenchmarkInit, BatchInit, NothingBefore, RunOff
<1>4. StatesAreTrue /\ LedgerIsTrue
    BY DEF BenchmarkInit, BatchInit, StatesAreTrue, LedgerIsTrue
<1>5. RunIsTrue
    BY <1>3 DEF BenchmarkInit, BatchInit, RunIsTrue, RunOff
<1>6. SummaryIsTrue /\ AttemptNumbersAreUnique /\ SpendingIsKnown /\ SummaryListsTheTasks
    BY <1>3 DEF BenchmarkInit, BatchInit, SummaryIsTrue, AttemptNumbersAreUnique, SpendingIsKnown,
                SummaryListsTheTasks
<1> QED BY <1>1, <1>2, <1>3, <1>4, <1>5, <1>6 DEF BatchInv

\* The selection is made before the batch begins.
LEMMA SelectingKeeps ==
    ASSUME BatchInv, SelNext, manifest = None, UNCHANGED batchVars
    PROVE  BatchInv' /\ AccountStep
<1>1. SelectionInv'
    BY SelectionStep DEF BatchInv
<1>2. BatchTypeOK' /\ NothingBefore' /\ manifest' = None
    BY DEF batchVars, BatchInv, BatchTypeOK, NothingBefore
<1>3. /\ \A t \in Candidates : taskState'[t] = None
      /\ evidence' = {} /\ ledger' = {} /\ summary' = None /\ run'.pc = "off"
    BY <1>2 DEF NothingBefore
<1>4. StatesAreTrue' /\ LedgerIsTrue' /\ SummaryIsTrue'
    BY <1>3 DEF StatesAreTrue, LedgerIsTrue, SummaryIsTrue
<1>5. RunIsTrue'
    BY <1>3 DEF batchVars, BatchInv, RunIsTrue
<1>6. AttemptNumbersAreUnique' /\ SpendingIsKnown' /\ SummaryListsTheTasks'
    BY <1>3 DEF AttemptNumbersAreUnique, SpendingIsKnown, SummaryListsTheTasks
<1>7. AccountStep
    BY <1>3 DEF batchVars, AccountStep, ScoredStep, ShrinkStep
<1> QED BY <1>1, <1>2, <1>4, <1>5, <1>6, <1>7 DEF BatchInv

LEMMA BatchStartKeeps ==
    ASSUME BatchInv, BatchStart, UNCHANGED selVars
    PROVE  BatchInv' /\ AccountStep
<1>1. SelectionInv' /\ StatesAreTrue' /\ ScoredStep /\ selection' = selection
    BY StatesKept DEF BatchStart
<1>2. run.pc = "off" /\ run' = [RunOff EXCEPT !.pc = "task"]
    BY DEF BatchStart
<1>3. /\ run'.pc = "task" /\ run'.i = 1 /\ run'.completed = <<>>
      /\ run'.requests = 0 /\ run'.known = 0
    BY <1>2 DEF RunOff
<1>4. manifest' \in Manifests /\ manifest' # None
    <2>1. [selection |-> selection, sources |-> {}, finished |-> FALSE] \in Manifests
        BY DEF BatchInv, SelectionInv, SelectionTypeOK, Chosen, Manifests
    <2> QED BY <2>1, NoneIsNoFile DEF BatchStart, BatchInv, BatchTypeOK
<1>5. BatchTypeOK'
    <2>1. run' \in Runs
        BY <1>2, RunOffIs
    <2>2. spent' \in [runs : Nat, losses : Nat]
        BY DEF BatchStart, BatchInv, BatchTypeOK
    <2> QED BY <1>4, <2>1, <2>2 DEF BatchStart, BatchInv, BatchTypeOK
<1>6. NothingBefore'
    BY <1>4 DEF NothingBefore
<1>7. LedgerIsTrue' /\ AttemptNumbersAreUnique'
    BY <1>2, LedgerKept DEF BatchStart
<1>8. RunIsTrue'
    <2>1. LoadedNext(run'.completed, run'.i - 1)
        BY <1>3, TasksAre DEF BatchInv, LoadedNext
    <2>2. Loaded(run.completed, run.i - 1)'
        BY <1>1, <2>1, LoadedThen
    <2> QED BY <1>3, <2>2 DEF RunIsTrue
<1>9. SummaryIsTrue' /\ SummaryListsTheTasks' /\ ShrinkStep
    <2>1. spent'.losses = spent.losses
        BY DEF BatchStart, BatchInv, BatchTypeOK
    <2>2. \A j \in 1..Len(summary.tasks) : LoadComplete(TaskIds[j]) => CompleteNext(TaskIds[j])
        BY DEF BatchStart, LoadComplete, CompleteNext
    <2> QED BY <1>1, <1>3, <2>1, <2>2, SummaryKept DEF BatchStart
<1>10. SpendingIsKnown'
    BY <1>3 DEF SpendingIsKnown
<1> QED BY <1>1, <1>5, <1>6, <1>7, <1>8, <1>9, <1>10 DEF BatchStart, BatchInv, AccountStep

LEMMA ReuseTaskKeeps ==
    ASSUME BatchInv, ReuseTask, UNCHANGED selVars
    PROVE  BatchInv' /\ AccountStep
<1> DEFINE e == taskState[Current].result
<1>1. SelectionInv' /\ StatesAreTrue' /\ ScoredStep /\ selection' = selection
    BY StatesKept DEF ReuseTask
<1>2. /\ run.pc = "task" /\ run.i <= Len(selection) /\ LoadComplete(Current)
      /\ run' = [run EXCEPT !.i = @ + 1, !.completed = Append(@, e)]
    BY DEF ReuseTask, AtTask
<1>3. /\ run.i \in 1..Len(selection) /\ Current \in Candidates /\ Current = TaskIds[run.i]
    BY <1>2, CurrentIs
<1>4. e \in Entries
    BY <1>2, <1>3 DEF LoadComplete, BatchInv, StatesAreTrue
<1> HIDE DEF e
<1>5. run' = [pc |-> "task", i |-> run.i + 1, completed |-> Append(run.completed, e),
              attempt |-> run.attempt, requests |-> run.requests, known |-> run.known,
              agent |-> run.agent, outcome |-> run.outcome]
    BY <1>2, RunIs DEF BatchInv
<1>6. run' \in Runs
    <2>1. Append(run.completed, e) \in Seq(Entries)
        BY <1>4, RunIs DEF BatchInv
    <2> QED BY <1>5, <2>1, RunIs DEF BatchInv, Runs
<1>7. BatchTypeOK' /\ NothingBefore' /\ manifest' # None
    BY <1>2, <1>6 DEF ReuseTask, BatchInv, BatchTypeOK, NothingBefore
<1>8. LedgerIsTrue' /\ AttemptNumbersAreUnique'
    BY <1>2, LedgerKept DEF ReuseTask
<1>9. RunIsTrue'
    <2>1. Loaded(run.completed, run.i - 1)
        BY <1>2 DEF BatchInv, RunIsTrue
    <2>2. run.i - 1 \in Nat /\ run.completed \in Seq(Entries)
        BY <1>3, RunIs DEF BatchInv
    <2>3. LoadedNext(run.completed, run.i - 1)
        BY <2>1, <2>2, LoadedStays DEF ReuseTask
    <2>4. CompleteNext(Current) /\ e = taskState'[Current].result
        BY <1>2 DEF ReuseTask, LoadComplete, CompleteNext, e
    <2>5. LoadedNext(Append(run.completed, e), run.i)
        BY <1>2, <1>3, <1>4, <2>2, <2>3, <2>4, OneMoreLoaded
    <2>6. run'.i - 1 = run.i /\ run'.pc = "task" /\ run'.completed = Append(run.completed, e)
        <3>1. run.i \in Nat
            BY RunIs DEF BatchInv
        <3>2. run'.i = run.i + 1
            BY <1>5
        <3> QED BY <1>5, <3>1, <3>2
    <2>7. Loaded(run.completed, run.i - 1)'
        BY <1>1, <2>5, <2>6, LoadedThen
    <2>8. run'.known <= run'.requests
        BY <1>5 DEF BatchInv, RunIsTrue
    <2> QED BY <2>6, <2>7, <2>8 DEF RunIsTrue
<1>10. SummaryIsTrue' /\ SummaryListsTheTasks' /\ ShrinkStep
    <2>1. \A j \in 1..Len(summary.tasks) : LoadComplete(TaskIds[j]) => CompleteNext(TaskIds[j])
        BY DEF ReuseTask, LoadComplete, CompleteNext
    <2>2. run'.pc = "task"
        BY <1>5
    <2> QED BY <1>1, <2>1, <2>2, SummaryKept DEF ReuseTask
<1>11. SpendingIsKnown'
    BY <1>5 DEF SpendingIsKnown
<1> QED BY <1>1, <1>7, <1>8, <1>9, <1>10, <1>11 DEF ReuseTask, BatchInv, AccountStep

LEMMA GuardStopsKeeps ==
    ASSUME BatchInv, GuardStops, UNCHANGED selVars
    PROVE  BatchInv' /\ AccountStep
<1>1. SelectionInv' /\ StatesAreTrue' /\ ScoredStep /\ selection' = selection
    BY StatesKept DEF GuardStops
<1>2. /\ run.pc = "task" /\ ~ LoadComplete(Current) /\ run' = RunOff
      /\ summary' = Summary(run.completed, attempts, taskState, FALSE, Verdict)
    BY DEF GuardStops, AtTask
<1>3. run' \in Runs /\ run'.pc = "off" /\ RunIsTrue' /\ SpendingIsKnown'
    BY <1>2, RunIsOver
<1>4. /\ Len(summary'.tasks) \in Nat
      /\ SummaryIsTrue' /\ SummaryListsTheTasks' /\ ShrinkStep
    BY <1>1, <1>2, <1>3, SummaryOfTheRun DEF GuardStops
<1>5. LedgerIsTrue' /\ AttemptNumbersAreUnique'
    BY <1>2, LedgerKept DEF GuardStops
<1>6. BatchTypeOK' /\ NothingBefore'
    BY <1>2, <1>3, <1>4, RunHolds DEF GuardStops, BatchInv, BatchTypeOK, NothingBefore
<1> QED BY <1>1, <1>3, <1>4, <1>5, <1>6 DEF GuardStops, BatchInv, AccountStep

LEMMA FinishBatchKeeps ==
    ASSUME BatchInv, FinishBatch, UNCHANGED selVars
    PROVE  BatchInv' /\ AccountStep
<1>1. SelectionInv' /\ StatesAreTrue' /\ ScoredStep /\ selection' = selection
    BY StatesKept DEF FinishBatch
<1>2. /\ run.pc = "task" /\ run.i > Len(selection) /\ run' = RunOff
      /\ summary' = Summary(run.completed, attempts, taskState, TRUE, None)
      /\ manifest' = [manifest EXCEPT !.finished = TRUE]
    BY DEF FinishBatch
<1>3. run' \in Runs /\ run'.pc = "off" /\ RunIsTrue' /\ SpendingIsKnown'
    BY <1>2, RunIsOver
<1>4. /\ Len(summary'.tasks) \in Nat
      /\ SummaryIsTrue' /\ SummaryListsTheTasks' /\ ShrinkStep
    <2>1. ~ run.i <= Len(selection)
        BY <1>2, RunIs, TasksAre DEF BatchInv
    <2> QED BY <1>1, <1>2, <1>3, <2>1, SummaryOfTheRun DEF FinishBatch
<1>5. LedgerIsTrue' /\ AttemptNumbersAreUnique'
    BY <1>2, LedgerKept DEF FinishBatch
<1>6. manifest' \in Manifests /\ manifest' # None
    <2>1. manifest \in Manifests
        BY <1>2, RunHolds
    <2>2. manifest' \in Manifests
        BY <1>2, <2>1 DEF Manifests
    <2> QED BY <2>2, NoneIsNoFile
<1>7. BatchTypeOK' /\ NothingBefore'
    BY <1>3, <1>4, <1>6 DEF FinishBatch, BatchInv, BatchTypeOK, NothingBefore
<1> QED BY <1>1, <1>3, <1>4, <1>5, <1>7 DEF FinishBatch, BatchInv, AccountStep

LEMMA CountTaskKeeps ==
    ASSUME BatchInv, CountTask, UNCHANGED selVars
    PROVE  BatchInv' /\ AccountStep
<1> DEFINE e == Result(run.outcome)
<1>1. SelectionInv' /\ StatesAreTrue' /\ ScoredStep /\ selection' = selection
    BY StatesKept DEF CountTask
<1>2. /\ run.pc = "scored" /\ run.i <= Len(selection)
      /\ taskState[Current] # None /\ taskState[Current].status = "completed"
      /\ Current \in evidence /\ taskState[Current].result = e
    BY DEF CountTask, BatchInv, RunIsTrue
<1>3. /\ run' = [run EXCEPT !.pc = "task", !.i = @ + 1, !.outcome = None, !.agent = None,
                            !.completed = Append(@, e)]
      /\ summary' = Summary(run'.completed, attempts, taskState, FALSE, None)
    BY DEF CountTask
<1>4. /\ run.i \in 1..Len(selection) /\ Current \in Candidates /\ Current = TaskIds[run.i]
    BY <1>2, CurrentIs
<1>5. e \in Entries /\ e.outcome \in Scored
    BY <1>2, <1>4 DEF BatchInv, StatesAreTrue
<1> HIDE DEF e
<1>6. run' = [pc |-> "task", i |-> run.i + 1, completed |-> Append(run.completed, e),
              attempt |-> run.attempt, requests |-> run.requests, known |-> run.known,
              agent |-> None, outcome |-> None]
    BY <1>3, RunIs DEF BatchInv
<1>7. /\ run'.pc = "task" /\ run'.i = run.i + 1 /\ run'.completed = Append(run.completed, e)
      /\ run'.requests = run.requests /\ run'.known = run.known
    BY <1>6
<1>8. /\ Len(run.completed) = run.i - 1 /\ run.i - 1 \in Nat /\ run.i \in Nat \ {0}
      /\ run.completed \in Seq(Entries) /\ Loaded(run.completed, run.i - 1)
    BY <1>2, RunHolds, RunIs DEF BatchInv
<1>9. /\ Append(run.completed, e) \in Seq(Entries) /\ Len(Append(run.completed, e)) = run.i
    BY <1>5, <1>8
<1>10. LoadedNext(Append(run.completed, e), run.i)
    <2>1. LoadedNext(run.completed, run.i - 1)
        BY <1>8, LoadedStays DEF CountTask
    <2>2. CompleteNext(TaskIds[run.i]) /\ e = taskState'[TaskIds[run.i]].result
        BY <1>2, <1>4, <1>5 DEF CountTask, CompleteNext
    <2> QED BY <1>2, <1>5, <1>8, <2>1, <2>2, OneMoreLoaded
<1>11. RunIsTrue'
    <2>1. run'.i - 1 = run.i
        BY <1>7, <1>8
    <2>2. Loaded(run.completed, run.i - 1)'
        BY <1>1, <1>7, <1>10, <2>1, LoadedThen
    <2> QED BY <1>7, <2>2 DEF BatchInv, RunIsTrue
<1>12. BatchTypeOK' /\ NothingBefore'
    <2>1. run' \in Runs
        BY <1>6, <1>8, <1>9, RunIs DEF BatchInv, Runs
    <2>2. Len(summary'.tasks) \in Nat
        BY <1>3, <1>7, <1>9 DEF Summary
    <2> QED BY <1>2, <2>1, <2>2, RunHolds DEF CountTask, BatchInv, BatchTypeOK, NothingBefore
<1>13. SummaryIsTrue' /\ SummaryListsTheTasks' /\ ShrinkStep
    <2>1. LoadedNext(Append(run.completed, e), Len(Append(run.completed, e)))
        BY <1>9, <1>10
    <2>2. summary' = Summary(Append(run.completed, e), attempts, taskState, FALSE, None)
        BY <1>3, <1>7
    <2>3. /\ summary'.tasks = Append(run.completed, e)
          /\ SummaryIsTrue' /\ SummaryListsTheTasks'
        BY <1>1, <1>7, <1>9, <2>1, <2>2, SummaryWritten DEF BatchInv
    <2>4. ShrinkStep
        <3> SUFFICES ASSUME summary # None, spent.losses = 0
                     PROVE  Len(summary'.tasks) >= Len(summary.tasks)
            BY DEF ShrinkStep
        <3>1. Len(summary.tasks) <= run.i - 1 /\ Len(summary.tasks) \in Nat
            BY <1>2, SummaryIsBehind DEF BatchInv, BatchTypeOK
        <3> QED BY <1>8, <1>9, <2>3, <3>1
    <2> QED BY <2>3, <2>4
<1>14. LedgerIsTrue' /\ AttemptNumbersAreUnique'
    BY <1>2, LedgerKept DEF CountTask
<1>15. SpendingIsKnown'
    BY <1>7 DEF SpendingIsKnown
<1> QED BY <1>1, <1>11, <1>12, <1>13, <1>14, <1>15 DEF CountTask, BatchInv, AccountStep

\* The process is killed: its attempt, if there is one, is lost.
LEMMA BatchCrashKeeps ==
    ASSUME BatchInv, BatchCrash, UNCHANGED selVars
    PROVE  BatchInv' /\ AccountStep
<1>1. SelectionInv' /\ StatesAreTrue' /\ ScoredStep /\ selection' = selection
    BY StatesKept DEF BatchCrash
<1>2. run.pc # "off" /\ run' = RunOff /\ ledger' = Close("killed")
    BY DEF BatchCrash
<1>3. run' \in Runs /\ run'.pc = "off" /\ RunIsTrue' /\ SpendingIsKnown'
    BY <1>2, RunIsOver
<1>4. /\ ledger' \subseteq LedgerEntries /\ AttemptNumbersAreUnique'
      /\ \A m \in ledger' :
            \E l \in ledger : /\ m.task = l.task /\ m.attempt = l.attempt
                              /\ m.requests = l.requests /\ m.known = l.known
                              /\ \/ Open(l) /\ m.fate = "killed"
                                 \/ ~ Open(l) /\ m = l
    BY <1>2, Closed
<1>5. LedgerIsTrue'
    <2> SUFFICES ASSUME NEW m \in ledger'
                 PROVE  /\ taskState'[m.task] # None /\ m.attempt <= taskState'[m.task].attempt
                        /\ m.known <= m.requests
                        /\ m.fate # "open"
                        /\ m.fate = "scored" =>
                              /\ m.task \in evidence' /\ taskState'[m.task].status = "completed"
                              /\ taskState'[m.task].result.usage = AggregateUsage(m.requests, m.known)
                        /\ m.fate = "failed" =>
                              \E a \in attempts' : a.usage = UsageFromEvents(m.requests, m.known)
        BY DEF LedgerIsTrue, Open
    <2>1. PICK l \in ledger : /\ m.task = l.task /\ m.attempt = l.attempt
                              /\ m.requests = l.requests /\ m.known = l.known
                              /\ \/ Open(l) /\ m.fate = "killed"
                                 \/ ~ Open(l) /\ m = l
        BY <1>4
    <2> QED BY <2>1 DEF BatchCrash, BatchInv, LedgerIsTrue, Open
<1>6. BatchTypeOK' /\ NothingBefore'
    BY <1>2, <1>3, <1>4, RunHolds DEF BatchCrash, BatchInv, BatchTypeOK, NothingBefore
<1>7. SummaryIsTrue' /\ SummaryListsTheTasks' /\ ShrinkStep
    <2>1. \A j \in 1..Len(summary.tasks) : LoadComplete(TaskIds[j]) => CompleteNext(TaskIds[j])
        BY DEF BatchCrash, LoadComplete, CompleteNext
    <2> QED BY <1>1, <1>3, <2>1, SummaryKept DEF BatchCrash
<1> QED BY <1>1, <1>3, <1>4, <1>5, <1>6, <1>7 DEF BatchCrash, BatchInv, AccountStep

\* Artifacts are lost: what their attempt cost is not accounted for any longer.
LEMMA LoseArtifactsKeeps ==
    ASSUME BatchInv, NEW t \in Candidates, LoseArtifacts(t), UNCHANGED selVars
    PROVE  BatchInv' /\ AccountStep
<1>1. SelectionInv' /\ selection' = selection
    BY StutteringKeeps DEF BatchInv, selVars
<1>2. /\ run.pc = "off" /\ t \in evidence /\ evidence' = evidence \ {t}
      /\ spent' = [spent EXCEPT !.losses = @ + 1] /\ taskState' = taskState /\ run' = run
      /\ manifest' = manifest /\ attempts' = attempts /\ summary' = summary
    BY DEF LoseArtifacts
<1>3. ASSUME NEW m \in ledger'
      PROVE  \E l \in ledger :
                /\ m = IF l.task = t /\ l.fate = "scored" THEN [l EXCEPT !.fate = "lost"] ELSE l
                /\ m.task = l.task /\ m.attempt = l.attempt
                /\ m.requests = l.requests /\ m.known = l.known
                /\ m.fate # "open" \/ Open(l)
                /\ m.fate = "scored" => l.fate = "scored" /\ l.task # t
                /\ m.fate = "failed" => l.fate = "failed"
                /\ m \in LedgerEntries
    <2>1. PICK l \in ledger :
              m = IF l.task = t /\ l.fate = "scored" THEN [l EXCEPT !.fate = "lost"] ELSE l
        BY DEF LoseArtifacts
    <2>2. l \in LedgerEntries
        BY DEF BatchInv, BatchTypeOK
    <2> QED BY <2>1, <2>2 DEF LedgerEntries, Open
<1>4. AttemptNumbersAreUnique'
    <2> SUFFICES ASSUME NEW m \in ledger', NEW n \in ledger', m.task = n.task, m.attempt = n.attempt
                 PROVE  m = n
        BY DEF AttemptNumbersAreUnique
    <2>1. PICK l \in ledger :
              /\ m = IF l.task = t /\ l.fate = "scored" THEN [l EXCEPT !.fate = "lost"] ELSE l
              /\ m.task = l.task /\ m.attempt = l.attempt
        BY <1>3
    <2>2. PICK k \in ledger :
              /\ n = IF k.task = t /\ k.fate = "scored" THEN [k EXCEPT !.fate = "lost"] ELSE k
              /\ n.task = k.task /\ n.attempt = k.attempt
        BY <1>3
    <2>3. l = k
        BY <2>1, <2>2 DEF BatchInv, AttemptNumbersAreUnique
    <2> QED BY <2>1, <2>2, <2>3
<1>5. LedgerIsTrue'
    <2> SUFFICES ASSUME NEW m \in ledger'
                 PROVE  /\ taskState'[m.task] # None /\ m.attempt <= taskState'[m.task].attempt
                        /\ m.known <= m.requests
                        /\ m.fate # "open"
                        /\ m.fate = "scored" =>
                              /\ m.task \in evidence' /\ taskState'[m.task].status = "completed"
                              /\ taskState'[m.task].result.usage = AggregateUsage(m.requests, m.known)
                        /\ m.fate = "failed" =>
                              \E a \in attempts' : a.usage = UsageFromEvents(m.requests, m.known)
        BY DEF LedgerIsTrue, Open
    <2>1. PICK l \in ledger : /\ m.task = l.task /\ m.attempt = l.attempt
                              /\ m.requests = l.requests /\ m.known = l.known
                              /\ m.fate # "open" \/ Open(l)
                              /\ m.fate = "scored" => l.fate = "scored" /\ l.task # t
                              /\ m.fate = "failed" => l.fate = "failed"
        BY <1>3
    <2>2. /\ taskState[l.task] # None /\ l.attempt <= taskState[l.task].attempt
          /\ l.known <= l.requests /\ ~ Open(l)
          /\ l.fate = "scored" =>
                /\ l.task \in evidence /\ taskState[l.task].status = "completed"
                /\ taskState[l.task].result.usage = AggregateUsage(l.requests, l.known)
          /\ l.fate = "failed" => \E a \in attempts : a.usage = UsageFromEvents(l.requests, l.known)
        BY <1>2 DEF BatchInv, LedgerIsTrue
    <2>3. m.fate = "failed" => \E a \in attempts' : a.usage = UsageFromEvents(m.requests, m.known)
        BY <1>2, <2>1, <2>2
    <2>4. m.fate = "scored" =>
              /\ m.task \in evidence' /\ taskState'[m.task].status = "completed"
              /\ taskState'[m.task].result.usage = AggregateUsage(m.requests, m.known)
        BY <1>2, <2>1, <2>2
    <2>5. taskState'[m.task] # None /\ m.attempt <= taskState'[m.task].attempt /\ m.known <= m.requests
        BY <1>2, <2>1, <2>2
    <2>6. m.fate # "open"
        BY <2>1, <2>2 DEF Open
    <2> QED BY <2>3, <2>4, <2>5, <2>6
<1>6. StatesAreTrue' /\ ScoredStep
    BY <1>2 DEF BatchInv, StatesAreTrue, ScoredStep
<1>7. RunIsTrue' /\ SpendingIsKnown'
    BY <1>2 DEF BatchInv, RunIsTrue, SpendingIsKnown
<1>8. BatchTypeOK' /\ NothingBefore' /\ spent'.losses # 0
    <2>1. ledger' \subseteq LedgerEntries
        BY <1>3
    <2>2. spent' \in [runs : Nat, losses : Nat] /\ spent'.losses # 0
        BY <1>2 DEF BatchInv, BatchTypeOK
    <2>3. manifest # None
        BY <1>2 DEF BatchInv, NothingBefore
    <2> QED BY <1>2, <2>1, <2>2, <2>3 DEF BatchInv, BatchTypeOK, NothingBefore
<1>9. SummaryIsTrue' /\ SummaryListsTheTasks' /\ ShrinkStep
    BY <1>1, <1>2, <1>8, SummaryKept
<1> QED BY <1>1, <1>2, <1>4, <1>5, <1>6, <1>7, <1>8, <1>9 DEF BatchInv, AccountStep

LEMMA StartTaskKeeps ==
    ASSUME BatchInv, StartTask, UNCHANGED selVars
    PROVE  BatchInv' /\ AccountStep
<1> DEFINE n == NextAttempt(Current)
           x == State(n, "running", "agent", None)
           new == [task |-> Current, attempt |-> n, requests |-> 0, known |-> 0, fate |-> "open"]
<1>1. SelectionInv' /\ selection' = selection /\ TaskIds' = TaskIds
    BY StutteringKeeps DEF BatchInv, selVars, TaskIds
<1>2. /\ run.pc = "task" /\ run.i <= Len(selection) /\ ~ LoadComplete(Current)
      /\ Verdict = "within_budget"
      /\ taskState' = [taskState EXCEPT ![Current] = x]
      /\ run' = [run EXCEPT !.pc = "agent", !.attempt = n, !.requests = 0, !.known = 0]
      /\ ledger' = ledger \cup {new}
      /\ summary' = Summary(run.completed, attempts, taskState', FALSE, None)
      /\ UNCHANGED <<manifest, attempts, evidence, spent>>
    BY DEF StartTask, AtTask
<1>3. Current \in Candidates
    BY <1>2, CurrentIs
<1>4. n \in Nat /\ (taskState[Current] # None => taskState[Current].attempt < n)
    <2>1. taskState[Current] # None => taskState[Current].attempt \in Nat
        BY <1>3 DEF BatchInv, BatchTypeOK, TaskStates
    <2> QED BY <2>1 DEF NextAttempt
<1>5. x \in TaskStates /\ x.status = "running" /\ x.attempt = n
    BY <1>4, StatesAre DEF State
<1>6. new \in LedgerEntries
    BY <1>3, <1>4 DEF LedgerEntries
<1>7. new.task = Current /\ new.attempt = n /\ new.requests = 0 /\ new.known = 0 /\ new.fate = "open"
    OBVIOUS
<1> HIDE DEF n, x, new
<1>8. run' = [pc |-> "agent", i |-> run.i, completed |-> run.completed, attempt |-> n,
              requests |-> 0, known |-> 0, agent |-> run.agent, outcome |-> run.outcome]
    BY <1>2, RunIs DEF BatchInv
<1>9. /\ run'.pc = "agent" /\ run'.i = run.i /\ run'.completed = run.completed
      /\ run'.attempt = n /\ run'.requests = 0 /\ run'.known = 0
    BY <1>8
<1>10. Current' = Current
    BY <1>1, <1>9 DEF Current
<1>11. /\ taskState' \in [Candidates -> TaskStates \cup {None}] /\ StatesAreTrue'
       /\ taskState'[Current] = x /\ x # None
       /\ \A t \in Candidates : t # Current => taskState'[t] = taskState[t]
       /\ \A j \in 1..(run.i - 1) : taskState'[TaskIds[j]] = taskState[TaskIds[j]]
    BY <1>2, <1>5, CurrentChanges
<1>12. /\ Len(summary'.tasks) \in Nat
       /\ SummaryIsTrue' /\ SummaryListsTheTasks' /\ ShrinkStep
       /\ LoadedNext(run.completed, run.i - 1)
    BY <1>1, <1>2, <1>9, <1>11, SummaryOfTheRun
<1>13. BatchTypeOK' /\ NothingBefore'
    <2>1. run' \in Runs
        BY <1>4, <1>8, RunIs DEF BatchInv, Runs
    <2> QED BY <1>2, <1>6, <1>11, <1>12, <2>1, RunHolds DEF BatchInv, BatchTypeOK, NothingBefore
<1>14. RunIsTrue'
    <2>1. Loaded(run.completed, run.i - 1)'
        BY <1>1, <1>9, <1>12, LoadedThen
    <2>2. Current' = Current /\ taskState'[Current] # None /\ taskState'[Current].attempt = run'.attempt
        BY <1>5, <1>9, <1>10, <1>11
    <2> QED BY <1>1, <1>2, <1>5, <1>9, <1>11, <2>1, <2>2 DEF RunIsTrue
<1>15. \A l \in ledger :
          /\ l.task \in Candidates /\ ~ Open(l)
          /\ taskState[l.task] # None /\ l.attempt <= taskState[l.task].attempt
          /\ l.known <= l.requests /\ l.attempt \in Nat
          /\ l.fate = "scored" =>
                /\ l.task \in evidence /\ taskState[l.task].status = "completed"
                /\ taskState[l.task].result.usage = AggregateUsage(l.requests, l.known)
          /\ l.fate = "failed" => \E a \in attempts : a.usage = UsageFromEvents(l.requests, l.known)
    <2> TAKE l \in ledger
    <2>1. l.task \in Candidates /\ l.attempt \in Nat
        BY DEF BatchInv, BatchTypeOK, LedgerEntries
    <2> QED BY <1>2, <2>1 DEF BatchInv, LedgerIsTrue
<1>16. \A l \in ledger : l.task = Current => l.fate # "scored" /\ l.attempt < n
    <2> SUFFICES ASSUME NEW l \in ledger, l.task = Current PROVE l.fate # "scored" /\ l.attempt < n
        OBVIOUS
    <2>1. l.attempt < n
        <3>1. taskState[Current].attempt \in Nat
            BY <1>3, <1>15 DEF BatchInv, BatchTypeOK, TaskStates
        <3> QED BY <1>4, <1>15, <3>1
    <2>2. l.fate # "scored"
        <3> SUFFICES ASSUME l.fate = "scored" PROVE LoadComplete(Current)
            BY <1>2
        <3> QED BY <1>15 DEF LoadComplete, BatchInv, StatesAreTrue
    <2> QED BY <2>1, <2>2
<1>17. LedgerIsTrue'
    <2> SUFFICES ASSUME NEW l \in ledger'
                 PROVE  /\ taskState'[l.task] # None /\ l.attempt <= taskState'[l.task].attempt
                        /\ l.known <= l.requests
                        /\ Open(l) =>
                              /\ l.task = Current /\ l.attempt = run'.attempt
                              /\ l.requests = run'.requests /\ l.known = run'.known
                        /\ l.fate = "scored" =>
                              /\ l.task \in evidence' /\ taskState'[l.task].status = "completed"
                              /\ taskState'[l.task].result.usage = AggregateUsage(l.requests, l.known)
                        /\ l.fate = "failed" =>
                              \E a \in attempts' : a.usage = UsageFromEvents(l.requests, l.known)
        BY <1>9, <1>10 DEF LedgerIsTrue, Open
    <2>1. CASE l = new
        BY <1>4, <1>5, <1>7, <1>9, <1>11, <2>1
    <2>2. CASE l \in ledger /\ l.task = Current
        BY <1>2, <1>4, <1>5, <1>11, <1>15, <1>16, <2>2
    <2>3. CASE l \in ledger /\ l.task # Current
        BY <1>2, <1>11, <1>15, <2>3
    <2> QED BY <1>2, <2>1, <2>2, <2>3
<1>18. AttemptNumbersAreUnique'
    <2> SUFFICES ASSUME NEW l \in ledger', NEW m \in ledger', l.task = m.task, l.attempt = m.attempt
                 PROVE  l = m
        BY DEF AttemptNumbersAreUnique
    <2>1. CASE l \in ledger /\ m \in ledger
        BY <2>1 DEF BatchInv, AttemptNumbersAreUnique
    <2>2. CASE l = new /\ m \in ledger
        BY <1>4, <1>7, <1>15, <1>16, <2>2
    <2>3. CASE l \in ledger /\ m = new
        BY <1>4, <1>7, <1>15, <1>16, <2>3
    <2> QED BY <1>2, <2>1, <2>2, <2>3
<1>19. SpendingIsKnown'
    <2> SUFFICES ASSUME NEW l \in Charged' PROVE l.requests = l.known
        BY DEF SpendingIsKnown
    <2>1. l \in ledger' /\ (l.fate = "failed" \/ (l.fate = "scored" /\ Before(l)))
        BY <1>1, <1>9 DEF Charged, Counted, Before
    <2>2. l \in ledger
        BY <1>2, <1>7, <2>1
    <2>3. l \in Charged
        BY <2>1, <2>2 DEF Charged, Counted
    <2> QED BY <1>2, <2>3, GuardKnows
<1>20. AccountStep
    <2>1. ScoredStep
        <3> SUFFICES ASSUME NEW t \in evidence, taskState[t].status = "completed"
                     PROVE  taskState'[t] = taskState[t]
            BY DEF ScoredStep
        <3>1. t \in Candidates
            BY DEF BatchInv, BatchTypeOK
        <3>2. LoadComplete(t)
            BY <3>1 DEF LoadComplete, BatchInv, StatesAreTrue
        <3>3. t # Current
            BY <1>2, <3>2
        <3> QED BY <1>11, <3>1, <3>3
    <2> QED BY <1>2, <1>12, <2>1 DEF AccountStep
<1> QED BY <1>1, <1>11, <1>12, <1>13, <1>14, <1>17, <1>18, <1>19, <1>20 DEF BatchInv

\* No step changes the state of a scored task while an attempt of another runs.
LEMMA RunningIsNotScored ==
    ASSUME BatchInv, run.pc \in {"agent", "grader", "raised"},
           \A t \in Candidates : t # Current => taskState'[t] = taskState[t]
    PROVE  ScoredStep
<1> SUFFICES ASSUME NEW t \in evidence, taskState[t].status = "completed"
             PROVE  taskState'[t] = taskState[t]
    BY DEF ScoredStep
<1>1. t \in Candidates
    BY DEF BatchInv, BatchTypeOK
<1>2. taskState[Current].status = "running"
    BY DEF BatchInv, RunIsTrue
<1> QED BY <1>1, <1>2

LEMMA AgentRequestKeeps ==
    ASSUME BatchInv, NEW known \in BOOLEAN, AgentRequest(known), UNCHANGED selVars
    PROVE  BatchInv' /\ AccountStep
<1> DEFINE k == IF known THEN 1 ELSE 0
<1>1. SelectionInv' /\ StatesAreTrue' /\ ScoredStep /\ selection' = selection
    BY StatesKept DEF AgentRequest
<1>2. /\ run.pc = "agent" /\ k \in {0, 1}
      /\ run' = [run EXCEPT !.requests = @ + 1, !.known = @ + k]
      /\ ledger' = {IF Open(l) THEN [l EXCEPT !.requests = @ + 1, !.known = @ + k] ELSE l : l \in ledger}
      /\ UNCHANGED <<manifest, taskState, attempts, evidence, summary, spent>>
    BY DEF AgentRequest
<1>14. k \in Nat /\ k <= 1
    OBVIOUS
<1> HIDE DEF k
<1>3. run' = [pc |-> "agent", i |-> run.i, completed |-> run.completed, attempt |-> run.attempt,
              requests |-> run.requests + 1, known |-> run.known + k, agent |-> run.agent,
              outcome |-> run.outcome]
    BY <1>2, RunIs DEF BatchInv
<1>4. /\ run'.pc = "agent" /\ run'.i = run.i /\ run'.completed = run.completed
      /\ run'.attempt = run.attempt /\ run'.requests = run.requests + 1 /\ run'.known = run.known + k
    BY <1>3
<1>5. run.requests \in Nat /\ run.known \in Nat /\ run.known <= run.requests
    BY RunIs DEF BatchInv, RunIsTrue
<1>6. TaskIds' = TaskIds /\ Current' = Current
    BY <1>1, <1>4 DEF TaskIds, Current
<1>7. ASSUME NEW m \in ledger'
      PROVE  \E l \in ledger :
                /\ m = IF Open(l) THEN [l EXCEPT !.requests = @ + 1, !.known = @ + k] ELSE l
                /\ m.task = l.task /\ m.attempt = l.attempt /\ m.fate = l.fate
                /\ Open(l) => m.requests = l.requests + 1 /\ m.known = l.known + k
                /\ ~ Open(l) => m = l
                /\ l \in LedgerEntries /\ m \in LedgerEntries
    <2>1. PICK l \in ledger :
              m = IF Open(l) THEN [l EXCEPT !.requests = @ + 1, !.known = @ + k] ELSE l
        BY <1>2
    <2>2. l \in LedgerEntries
        BY DEF BatchInv, BatchTypeOK
    <2>3. l = [task |-> l.task, attempt |-> l.attempt, requests |-> l.requests, known |-> l.known,
               fate |-> l.fate]
          /\ l.requests \in Nat /\ l.known \in Nat
        BY <2>2 DEF LedgerEntries
    <2>4. CASE Open(l)
        <3>1. m = [task |-> l.task, attempt |-> l.attempt, requests |-> l.requests + 1,
                   known |-> l.known + k, fate |-> l.fate]
            BY <2>1, <2>3, <2>4
        <3>2. m \in LedgerEntries
            BY <1>14, <2>2, <2>3, <3>1 DEF LedgerEntries
        <3> QED BY <2>1, <2>2, <2>4, <3>1, <3>2
    <2>5. CASE ~ Open(l)
        BY <2>1, <2>2, <2>5
    <2> QED BY <2>4, <2>5
<1>8. AttemptNumbersAreUnique'
    <2> SUFFICES ASSUME NEW m \in ledger', NEW n \in ledger', m.task = n.task, m.attempt = n.attempt
                 PROVE  m = n
        BY DEF AttemptNumbersAreUnique
    <2>1. PICK l \in ledger :
              /\ m = IF Open(l) THEN [l EXCEPT !.requests = @ + 1, !.known = @ + k] ELSE l
              /\ m.task = l.task /\ m.attempt = l.attempt
        BY <1>7
    <2>2. PICK j \in ledger :
              /\ n = IF Open(j) THEN [j EXCEPT !.requests = @ + 1, !.known = @ + k] ELSE j
              /\ n.task = j.task /\ n.attempt = j.attempt
        BY <1>7
    <2>3. l = j
        BY <2>1, <2>2 DEF BatchInv, AttemptNumbersAreUnique
    <2> QED BY <2>1, <2>2, <2>3
<1>9. LedgerIsTrue'
    <2> SUFFICES ASSUME NEW m \in ledger'
                 PROVE  /\ taskState[m.task] # None /\ m.attempt <= taskState[m.task].attempt
                        /\ m.known <= m.requests
                        /\ Open(m) =>
                              /\ m.task = Current /\ m.attempt = run.attempt
                              /\ m.requests = run.requests + 1 /\ m.known = run.known + k
                        /\ m.fate = "scored" =>
                              /\ m.task \in evidence /\ taskState[m.task].status = "completed"
                              /\ taskState[m.task].result.usage = AggregateUsage(m.requests, m.known)
                        /\ m.fate = "failed" =>
                              \E a \in attempts : a.usage = UsageFromEvents(m.requests, m.known)
        BY <1>2, <1>4, <1>6 DEF LedgerIsTrue, Open
    <2>1. PICK l \in ledger :
              /\ m.task = l.task /\ m.attempt = l.attempt /\ m.fate = l.fate
              /\ Open(l) => m.requests = l.requests + 1 /\ m.known = l.known + k
              /\ ~ Open(l) => m = l
              /\ l \in LedgerEntries /\ m \in LedgerEntries
        BY <1>7
    <2>2. /\ taskState[l.task] # None /\ l.attempt <= taskState[l.task].attempt
          /\ l.known <= l.requests
          /\ Open(l) => /\ l.task = Current /\ l.attempt = run.attempt
                        /\ l.requests = run.requests /\ l.known = run.known
          /\ l.fate = "scored" =>
                /\ l.task \in evidence /\ taskState[l.task].status = "completed"
                /\ taskState[l.task].result.usage = AggregateUsage(l.requests, l.known)
          /\ l.fate = "failed" => \E a \in attempts : a.usage = UsageFromEvents(l.requests, l.known)
        BY DEF BatchInv, LedgerIsTrue
    <2>3. CASE Open(l)
        <3>1. m.fate = "open" /\ m.requests = l.requests + 1 /\ m.known = l.known + k
            BY <2>1, <2>3 DEF Open
        <3>2. m.known <= m.requests
            <4>1. l.requests \in Nat /\ l.known \in Nat
                BY <2>1 DEF LedgerEntries
            <4> QED BY <1>14, <2>2, <3>1, <4>1
        <3> QED BY <2>1, <2>2, <2>3, <3>1, <3>2
    <2>4. CASE ~ Open(l)
        BY <2>1, <2>2, <2>4
    <2> QED BY <2>3, <2>4
<1>10. BatchTypeOK' /\ NothingBefore'
    <2>1. run' \in Runs
        <3>1. run.requests + 1 \in Nat /\ run.known + k \in Nat
            BY <1>14, <1>5
        <3> QED BY <1>3, <3>1, RunIs DEF BatchInv, Runs
    <2>2. ledger' \subseteq LedgerEntries
        BY <1>7
    <2> QED BY <1>2, <2>1, <2>2, RunHolds DEF BatchInv, BatchTypeOK, NothingBefore
<1>11. RunIsTrue'
    <2>1. LoadedNext(run.completed, run.i - 1)
        BY <1>2, RunHolds, LoadedStays
    <2>2. Loaded(run.completed, run.i - 1)'
        BY <1>1, <1>4, <2>1, LoadedThen
    <2>3. run'.known <= run'.requests
        BY <1>14, <1>4, <1>5
    <2> QED BY <1>1, <1>2, <1>4, <1>6, <2>2, <2>3 DEF BatchInv, RunIsTrue
<1>12. SummaryIsTrue' /\ SummaryListsTheTasks' /\ ShrinkStep
    <2>1. \A j \in 1..Len(summary.tasks) : LoadComplete(TaskIds[j]) => CompleteNext(TaskIds[j])
        BY <1>2 DEF LoadComplete, CompleteNext
    <2>2. summary # None /\ spent.losses = 0 => Len(summary.tasks) <= run'.i - 1
        BY <1>2, <1>4 DEF BatchInv, SummaryIsTrue
    <2> QED BY <1>1, <1>2, <2>1, <2>2, SummaryKept
<1>13. SpendingIsKnown'
    <2>1. run'.requests # 0
        BY <1>4, <1>5
    <2> QED BY <2>1 DEF SpendingIsKnown
<1> QED BY <1>1, <1>2, <1>8, <1>9, <1>10, <1>11, <1>12, <1>13 DEF BatchInv, AccountStep

LEMMA AgentEndsKeeps ==
    ASSUME BatchInv, NEW status \in AgentStatus, AgentEnds(status), UNCHANGED selVars
    PROVE  BatchInv' /\ AccountStep
<1> DEFINE x == [taskState[Current] EXCEPT !.phase = "grader"]
<1>1. SelectionInv' /\ selection' = selection /\ TaskIds' = TaskIds
    BY StutteringKeeps DEF BatchInv, selVars, TaskIds
<1>2. /\ run.pc = "agent"
      /\ run' = [run EXCEPT !.pc = "grader", !.agent = status]
      /\ taskState' = [taskState EXCEPT ![Current].phase = "grader"]
      /\ summary' = Summary(run.completed, attempts, taskState', FALSE, None)
      /\ UNCHANGED <<manifest, attempts, evidence, ledger, spent>>
    BY DEF AgentEnds
<1>3. /\ run.i <= Len(selection) /\ taskState[Current] # None
      /\ taskState[Current].attempt = run.attempt /\ taskState[Current].status = "running"
    BY <1>2 DEF BatchInv, RunIsTrue
<1>4. Current \in Candidates /\ taskState[Current] \in TaskStates
    BY <1>2, <1>3, CurrentIs DEF BatchInv, BatchTypeOK
<1>5. taskState' = [taskState EXCEPT ![Current] = x]
    BY <1>2
<1>6. x \in TaskStates /\ x.status = "running" /\ x.attempt = run.attempt
    BY <1>3, <1>4 DEF TaskStates
<1> HIDE DEF x
<1>7. run' = [pc |-> "grader", i |-> run.i, completed |-> run.completed, attempt |-> run.attempt,
              requests |-> run.requests, known |-> run.known, agent |-> status,
              outcome |-> run.outcome]
    BY <1>2, RunIs DEF BatchInv
<1>8. /\ run'.pc = "grader" /\ run'.i = run.i /\ run'.completed = run.completed
      /\ run'.attempt = run.attempt /\ run'.requests = run.requests /\ run'.known = run.known
    BY <1>7
<1>9. Current' = Current
    BY <1>1, <1>8 DEF Current
<1>10. /\ taskState' \in [Candidates -> TaskStates \cup {None}] /\ StatesAreTrue'
       /\ taskState'[Current] = x /\ x # None
       /\ \A t \in Candidates : t # Current => taskState'[t] = taskState[t]
       /\ \A j \in 1..(run.i - 1) : taskState'[TaskIds[j]] = taskState[TaskIds[j]]
    BY <1>2, <1>3, <1>5, <1>6, CurrentChanges
<1>11. /\ Len(summary'.tasks) \in Nat
       /\ SummaryIsTrue' /\ SummaryListsTheTasks' /\ ShrinkStep
       /\ LoadedNext(run.completed, run.i - 1)
    BY <1>1, <1>2, <1>8, <1>10, SummaryOfTheRun
<1>12. BatchTypeOK' /\ NothingBefore'
    <2>1. run' \in Runs
        BY <1>7, RunIs DEF BatchInv, Runs
    <2> QED BY <1>2, <1>10, <1>11, <2>1, RunHolds DEF BatchInv, BatchTypeOK, NothingBefore
<1>13. RunIsTrue'
    <2>1. Loaded(run.completed, run.i - 1)'
        BY <1>1, <1>8, <1>11, LoadedThen
    <2>2. run'.known <= run'.requests
        BY <1>8 DEF BatchInv, RunIsTrue
    <2> QED BY <1>1, <1>3, <1>6, <1>8, <1>9, <1>10, <2>1, <2>2 DEF RunIsTrue
<1>14. LedgerIsTrue' /\ AttemptNumbersAreUnique'
    <2>1. \A l \in ledger :
              /\ taskState'[l.task] # None /\ l.attempt <= taskState'[l.task].attempt
              /\ l.known <= l.requests
              /\ l.fate = "scored" =>
                    /\ l.task \in evidence' /\ taskState'[l.task].status = "completed"
                    /\ taskState'[l.task].result.usage = AggregateUsage(l.requests, l.known)
              /\ l.fate = "failed" =>
                    \E a \in attempts' : a.usage = UsageFromEvents(l.requests, l.known)
        BY <1>2, <1>3, <1>6, <1>10, EarlierAttempts
    <2>2. \A l \in ledger : Open(l) =>
              /\ run'.pc \in {"agent", "grader"} /\ l.task = Current' /\ l.attempt = run'.attempt
              /\ l.requests = run'.requests /\ l.known = run'.known
        BY <1>8, <1>9 DEF BatchInv, LedgerIsTrue
    <2>3. LedgerIsTrue'
        BY <1>2, <2>1, <2>2 DEF LedgerIsTrue, Open
    <2> QED BY <1>2, <2>3 DEF BatchInv, AttemptNumbersAreUnique
<1>15. SpendingIsKnown'
    BY <1>8 DEF SpendingIsKnown
<1>16. AccountStep
    BY <1>2, <1>10, <1>11, RunningIsNotScored DEF AccountStep
<1> QED BY <1>1, <1>10, <1>11, <1>12, <1>13, <1>14, <1>15, <1>16 DEF BatchInv

\* The artifact of a failed attempt says what the attempt cost.
LEMMA HarnessRaisesKeeps ==
    ASSUME BatchInv, NEW outcome \in ExceptionOutcomes, HarnessRaises(outcome), UNCHANGED selVars
    PROVE  BatchInv' /\ AccountStep
<1> DEFINE a == Entry(Current, run.attempt, UsageFromEvents(run.requests, run.known), outcome)
<1>1. SelectionInv' /\ StatesAreTrue' /\ ScoredStep /\ selection' = selection
    BY StatesKept DEF HarnessRaises
<1>2. /\ run.pc \in {"agent", "grader"}
      /\ attempts' = attempts \cup {a}
      /\ ledger' = Close("failed")
      /\ run' = [run EXCEPT !.pc = "raised", !.outcome = outcome]
      /\ UNCHANGED <<manifest, taskState, evidence, summary, spent>>
    BY DEF HarnessRaises
<1>3. /\ run.i <= Len(selection) /\ taskState[Current] # None
      /\ taskState[Current].attempt = run.attempt /\ taskState[Current].status = "running"
    BY <1>2 DEF BatchInv, RunIsTrue
<1>4. Current \in Candidates
    BY <1>2, <1>3, CurrentIs
<1>5. a \in Entries /\ a.usage = UsageFromEvents(run.requests, run.known)
    <2>1. run.requests \in Nat /\ run.known \in Nat /\ run.known <= run.requests /\ run.attempt \in Nat
        BY RunIs DEF BatchInv, RunIsTrue
    <2>2. UsageFromEvents(run.requests, run.known) \in Usages
        BY <2>1, UsagesAre
    <2>3. outcome \in Scored \cup {"provider_error", "infra_error"}
        BY DEF ExceptionOutcomes
    <2> DEFINE u == UsageFromEvents(run.requests, run.known)
    <2>4. a = [task |-> Current, attempt |-> run.attempt, usage |-> u, outcome |-> outcome]
        BY DEF Entry
    <2> HIDE DEF u, a
    <2>5. u \in Usages
        BY <2>2 DEF u
    <2>6. a \in Entries /\ a.usage = u
        BY <1>4, <2>1, <2>3, <2>4, <2>5 DEF Entries
    <2> QED BY <2>6 DEF u
<1> HIDE DEF a
<1>6. run' = [pc |-> "raised", i |-> run.i, completed |-> run.completed, attempt |-> run.attempt,
              requests |-> run.requests, known |-> run.known, agent |-> run.agent,
              outcome |-> outcome]
    BY <1>2, RunIs DEF BatchInv
<1>7. /\ run'.pc = "raised" /\ run'.i = run.i /\ run'.completed = run.completed
      /\ run'.attempt = run.attempt /\ run'.requests = run.requests /\ run'.known = run.known
    BY <1>6
<1>8. Current' = Current
    BY <1>1, <1>7 DEF Current, TaskIds
<1>9. /\ ledger' \subseteq LedgerEntries /\ AttemptNumbersAreUnique'
      /\ \A m \in ledger' :
            \E l \in ledger :
                /\ m.task = l.task /\ m.attempt = l.attempt
                /\ m.requests = l.requests /\ m.known = l.known
                /\ \/ Open(l) /\ m.fate = "failed"
                   \/ ~ Open(l) /\ m = l
    BY <1>2, Closed
<1>10. LedgerIsTrue'
    <2> SUFFICES ASSUME NEW m \in ledger'
                 PROVE  /\ taskState[m.task] # None /\ m.attempt <= taskState[m.task].attempt
                        /\ m.known <= m.requests
                        /\ m.fate # "open"
                        /\ m.fate = "scored" =>
                              /\ m.task \in evidence /\ taskState[m.task].status = "completed"
                              /\ taskState[m.task].result.usage = AggregateUsage(m.requests, m.known)
                        /\ m.fate = "failed" =>
                              \E b \in attempts' : b.usage = UsageFromEvents(m.requests, m.known)
        BY <1>2 DEF LedgerIsTrue, Open
    <2>1. PICK l \in ledger :
              /\ m.task = l.task /\ m.attempt = l.attempt
              /\ m.requests = l.requests /\ m.known = l.known
              /\ \/ Open(l) /\ m.fate = "failed"
                 \/ ~ Open(l) /\ m = l
        BY <1>9
    <2>2. /\ taskState[l.task] # None /\ l.attempt <= taskState[l.task].attempt
          /\ l.known <= l.requests
          /\ Open(l) => l.requests = run.requests /\ l.known = run.known
          /\ l.fate = "scored" =>
                /\ l.task \in evidence /\ taskState[l.task].status = "completed"
                /\ taskState[l.task].result.usage = AggregateUsage(l.requests, l.known)
          /\ l.fate = "failed" => \E b \in attempts : b.usage = UsageFromEvents(l.requests, l.known)
        BY DEF BatchInv, LedgerIsTrue
    <2>3. CASE Open(l)
        BY <1>2, <1>5, <2>1, <2>2, <2>3
    <2>4. CASE ~ Open(l)
        <3>1. m = l /\ m.fate # "open"
            BY <2>1, <2>4 DEF Open
        <3> QED BY <1>2, <2>2, <3>1
    <2> QED BY <2>3, <2>4
<1>11. BatchTypeOK' /\ NothingBefore'
    <2>1. run' \in Runs
        BY <1>6, RunIs DEF BatchInv, Runs
    <2> QED BY <1>2, <1>5, <1>9, <2>1, RunHolds DEF BatchInv, BatchTypeOK, NothingBefore
<1>12. RunIsTrue'
    <2>1. LoadedNext(run.completed, run.i - 1)
        BY <1>2, RunHolds, LoadedStays
    <2>2. Loaded(run.completed, run.i - 1)'
        BY <1>1, <1>7, <2>1, LoadedThen
    <2>3. run'.known <= run'.requests
        BY <1>7 DEF BatchInv, RunIsTrue
    <2> QED BY <1>1, <1>2, <1>3, <1>7, <1>8, <2>2, <2>3 DEF RunIsTrue
<1>13. SummaryIsTrue' /\ SummaryListsTheTasks' /\ ShrinkStep
    <2>1. \A j \in 1..Len(summary.tasks) : LoadComplete(TaskIds[j]) => CompleteNext(TaskIds[j])
        BY <1>2 DEF LoadComplete, CompleteNext
    <2>2. summary # None /\ spent.losses = 0 => Len(summary.tasks) <= run'.i - 1
        BY <1>2, <1>7 DEF BatchInv, SummaryIsTrue
    <2> QED BY <1>1, <1>2, <2>1, <2>2, SummaryKept
<1>14. SpendingIsKnown'
    BY <1>7 DEF SpendingIsKnown
<1> QED BY <1>1, <1>2, <1>9, <1>10, <1>11, <1>12, <1>13, <1>14 DEF BatchInv, AccountStep

LEMMA RaiseOutKeeps ==
    ASSUME BatchInv, RaiseOut, UNCHANGED selVars
    PROVE  BatchInv' /\ AccountStep
<1> DEFINE x == State(run.attempt, "failed", "completed", None)
<1>1. SelectionInv' /\ selection' = selection
    BY StutteringKeeps DEF BatchInv, selVars
<1>2. /\ run.pc = "raised" /\ run' = RunOff
      /\ taskState' = [taskState EXCEPT ![Current] = x]
      /\ summary' = Summary(run.completed, attempts, taskState', FALSE, run.outcome)
      /\ UNCHANGED <<manifest, attempts, evidence, ledger, spent>>
    BY DEF RaiseOut
<1>3. /\ run.i <= Len(selection) /\ taskState[Current].attempt = run.attempt
    BY <1>2 DEF BatchInv, RunIsTrue
<1>4. x \in TaskStates /\ x.status = "failed" /\ x.attempt = run.attempt
    BY StatesAre, RunIs DEF BatchInv, State
<1> HIDE DEF x
<1>5. run' \in Runs /\ run'.pc = "off" /\ RunIsTrue' /\ SpendingIsKnown'
    BY <1>2, RunIsOver
<1>6. /\ taskState' \in [Candidates -> TaskStates \cup {None}] /\ StatesAreTrue'
      /\ taskState'[Current] = x /\ x # None
      /\ \A t \in Candidates : t # Current => taskState'[t] = taskState[t]
      /\ \A j \in 1..(run.i - 1) : taskState'[TaskIds[j]] = taskState[TaskIds[j]]
    BY <1>2, <1>3, <1>4, CurrentChanges
<1>7. /\ Len(summary'.tasks) \in Nat
      /\ SummaryIsTrue' /\ SummaryListsTheTasks' /\ ShrinkStep
    BY <1>1, <1>2, <1>5, <1>6, SummaryOfTheRun
<1>8. BatchTypeOK' /\ NothingBefore'
    BY <1>2, <1>5, <1>6, <1>7, RunHolds DEF BatchInv, BatchTypeOK, NothingBefore
<1>9. LedgerIsTrue' /\ AttemptNumbersAreUnique'
    <2>1. \A l \in ledger :
              /\ taskState'[l.task] # None /\ l.attempt <= taskState'[l.task].attempt
              /\ l.known <= l.requests
              /\ l.fate = "scored" =>
                    /\ l.task \in evidence' /\ taskState'[l.task].status = "completed"
                    /\ taskState'[l.task].result.usage = AggregateUsage(l.requests, l.known)
              /\ l.fate = "failed" =>
                    \E a \in attempts' : a.usage = UsageFromEvents(l.requests, l.known)
        BY <1>2, <1>3, <1>4, <1>6, EarlierAttempts
    <2>2. \A l \in ledger : ~ Open(l)
        BY <1>2 DEF BatchInv, LedgerIsTrue
    <2>3. LedgerIsTrue'
        BY <1>2, <2>1, <2>2 DEF LedgerIsTrue, Open
    <2> QED BY <1>2, <2>3 DEF BatchInv, AttemptNumbersAreUnique
<1>10. AccountStep
    BY <1>2, <1>6, <1>7, RunningIsNotScored DEF AccountStep
<1> QED BY <1>1, <1>5, <1>6, <1>7, <1>8, <1>9, <1>10 DEF BatchInv

\* A grader's answer: the state keeps what the attempt cost, unless the
\* infrastructure failed.
LEMMA GradeKeeps ==
    ASSUME BatchInv, NEW answer \in GraderAnswers, Grade(answer), UNCHANGED selVars
    PROVE  BatchInv' /\ AccountStep
<1> DEFINE outcome == CompletedOutcome(run.agent, Oracle(answer))
           broken == outcome = "infra_error"
           fate == IF broken THEN "grader" ELSE "scored"
           r == Result(outcome)
           x == State(run.attempt, IF broken THEN "failed" ELSE "completed", "completed", r)
<1>1. SelectionInv' /\ selection' = selection /\ TaskIds' = TaskIds
    BY StutteringKeeps DEF BatchInv, selVars, TaskIds
<1>2. /\ run.pc = "grader"
      /\ manifest' = [manifest EXCEPT !.sources = @ \cup {Current}]
      /\ taskState' = [taskState EXCEPT ![Current] = x]
      /\ evidence' = evidence \cup {Current}
      /\ ledger' = Close(fate)
      /\ summary' = IF broken THEN Summary(run.completed, attempts, taskState', FALSE, "infra_error")
                              ELSE summary
      /\ run' = IF broken THEN RunOff ELSE [run EXCEPT !.pc = "scored", !.outcome = outcome]
      /\ UNCHANGED <<attempts, spent>>
    BY DEF Grade
<1>3. /\ run.i <= Len(selection) /\ taskState[Current] # None
      /\ taskState[Current].attempt = run.attempt /\ taskState[Current].status = "running"
    BY <1>2 DEF BatchInv, RunIsTrue
<1>4. Current \in Candidates
    BY <1>2, <1>3, CurrentIs
<1>5. outcome \in Scored \cup {"infra_error"}
    BY DEF CompletedOutcome, Scored
<1>6. broken \in BOOLEAN /\ (broken <=> outcome = "infra_error")
      /\ fate \in {"grader", "scored"} /\ (fate = "grader" <=> broken)
    OBVIOUS
<1> HIDE DEF outcome
<1>7. r \in Entries /\ r.task = Current /\ r.outcome = outcome
      /\ r.usage = AggregateUsage(run.requests, run.known)
    <2>1. run.requests \in Nat /\ run.known \in Nat /\ run.known <= run.requests /\ run.attempt \in Nat
        BY RunIs DEF BatchInv, RunIsTrue
    <2> DEFINE u == AggregateUsage(run.requests, run.known)
    <2>2. u \in Usages
        BY <2>1, UsagesAre
    <2>3. r = [task |-> Current, attempt |-> run.attempt, usage |-> u, outcome |-> outcome]
        BY DEF Result, Entry
    <2> HIDE DEF u, r
    <2>4. r \in Entries /\ r.task = Current /\ r.outcome = outcome /\ r.usage = u
        BY <1>4, <1>5, <2>1, <2>2, <2>3 DEF Entries
    <2> QED BY <2>4 DEF u
<1>8. r = Result(outcome)
    OBVIOUS
<1> HIDE DEF r, broken, fate
<1>9. /\ x \in TaskStates /\ x.attempt = run.attempt /\ x.result = r
      /\ x.status = IF broken THEN "failed" ELSE "completed"
    <2>1. run.attempt \in Nat
        BY RunIs DEF BatchInv
    <2>2. (IF broken THEN "failed" ELSE "completed") \in {"running", "failed", "completed"}
        OBVIOUS
    <2>3. x \in TaskStates
        BY <1>7, <2>1, <2>2, StatesAre
    <2> QED BY <2>3 DEF State
<1> HIDE DEF x
<1>10. x.status = "completed" =>
           x.result \in Entries /\ x.result.task = Current /\ x.result.outcome \in Scored
    BY <1>5, <1>6, <1>7, <1>9
<1>11. /\ taskState' \in [Candidates -> TaskStates \cup {None}] /\ StatesAreTrue'
       /\ taskState'[Current] = x /\ x # None
       /\ \A t \in Candidates : t # Current => taskState'[t] = taskState[t]
       /\ \A j \in 1..(run.i - 1) : taskState'[TaskIds[j]] = taskState[TaskIds[j]]
    BY <1>2, <1>3, <1>9, <1>10, CurrentChanges
<1>12. /\ ledger' \subseteq LedgerEntries /\ AttemptNumbersAreUnique'
       /\ \A m \in ledger' :
             \E l \in ledger :
                 /\ m.task = l.task /\ m.attempt = l.attempt
                 /\ m.requests = l.requests /\ m.known = l.known
                 /\ \/ Open(l) /\ m.fate = fate
                    \/ ~ Open(l) /\ m = l
    BY <1>2, <1>6, Closed
<1>13. \A l \in ledger :
          /\ taskState'[l.task] # None /\ l.attempt <= taskState'[l.task].attempt
          /\ l.known <= l.requests
          /\ l.fate = "scored" =>
                /\ l.task \in evidence' /\ taskState'[l.task].status = "completed"
                /\ taskState'[l.task].result.usage = AggregateUsage(l.requests, l.known)
          /\ l.fate = "failed" =>
                \E a \in attempts' : a.usage = UsageFromEvents(l.requests, l.known)
    BY <1>2, <1>3, <1>9, <1>11, EarlierAttempts
<1>14. LedgerIsTrue'
    <2> SUFFICES ASSUME NEW m \in ledger'
                 PROVE  /\ taskState'[m.task] # None /\ m.attempt <= taskState'[m.task].attempt
                        /\ m.known <= m.requests
                        /\ m.fate # "open"
                        /\ m.fate = "scored" =>
                              /\ m.task \in evidence' /\ taskState'[m.task].status = "completed"
                              /\ taskState'[m.task].result.usage = AggregateUsage(m.requests, m.known)
                        /\ m.fate = "failed" =>
                              \E b \in attempts' : b.usage = UsageFromEvents(m.requests, m.known)
        BY DEF LedgerIsTrue, Open
    <2>1. PICK l \in ledger :
              /\ m.task = l.task /\ m.attempt = l.attempt
              /\ m.requests = l.requests /\ m.known = l.known
              /\ \/ Open(l) /\ m.fate = fate
                 \/ ~ Open(l) /\ m = l
        BY <1>12
    <2>2. taskState'[m.task] # None /\ m.attempt <= taskState'[m.task].attempt /\ m.known <= m.requests
        BY <1>13, <2>1
    <2>3. CASE Open(l)
        <3>1. /\ l.task = Current /\ l.requests = run.requests /\ l.known = run.known
            BY <2>3 DEF BatchInv, LedgerIsTrue
        <3>2. m.fate = fate /\ m.task = Current /\ m.requests = run.requests /\ m.known = run.known
            BY <2>1, <2>3, <3>1
        <3>3. m.fate \in {"grader", "scored"} /\ (m.fate = "scored" => ~ broken)
            BY <1>6, <3>2
        <3>4. m.fate = "scored" =>
                  /\ m.task \in evidence' /\ taskState'[m.task].status = "completed"
                  /\ taskState'[m.task].result.usage = AggregateUsage(m.requests, m.known)
            BY <1>2, <1>7, <1>9, <1>11, <3>2, <3>3
        <3> QED BY <2>2, <3>3, <3>4
    <2>4. CASE ~ Open(l)
        <3>1. m = l /\ m.fate # "open"
            BY <2>1, <2>4 DEF Open
        <3> QED BY <1>13, <3>1
    <2> QED BY <2>3, <2>4
<1>15. manifest' \in Manifests /\ manifest' # None
    <2>1. manifest \in Manifests
        BY <1>2, RunHolds
    <2> DEFINE c == Current
    <2>2. c \in Candidates /\ manifest' = [manifest EXCEPT !.sources = @ \cup {c}]
        BY <1>2, <1>4
    <2> HIDE DEF c
    <2>3. manifest' \in Manifests
        BY <2>1, <2>2 DEF Manifests
    <2> QED BY <2>3, NoneIsNoFile
<1>16. ScoredStep
    BY <1>2, <1>11, RunningIsNotScored
<1>17. NothingBefore'
    BY <1>15 DEF NothingBefore
<1>18. CASE broken
    <2>1. run' = RunOff /\ summary' = Summary(run.completed, attempts, taskState', FALSE, "infra_error")
        BY <1>2, <1>18
    <2>2. run' \in Runs /\ run'.pc = "off" /\ RunIsTrue' /\ SpendingIsKnown'
        BY <2>1, RunIsOver
    <2>3. /\ Len(summary'.tasks) \in Nat
          /\ SummaryIsTrue' /\ SummaryListsTheTasks' /\ ShrinkStep
        <3>1. run.pc = "grader" /\ evidence \subseteq evidence'
            BY <1>2
        <3>2. summary' = Summary(run.completed, attempts, taskState', FALSE, "infra_error")
            BY <2>1
        <3>3. FALSE \in BOOLEAN /\ run.pc # "off" /\ run.pc # "task" /\ run'.pc = "off"
            BY <2>2, <3>1
        <3> QED BY <1>1, <1>11, <3>1, <3>2, <3>3, SummaryOfTheRun
    <2>4. BatchTypeOK'
        BY <1>2, <1>4, <1>11, <1>12, <1>15, <2>2, <2>3 DEF BatchInv, BatchTypeOK
    <2> QED BY <1>1, <1>2, <1>11, <1>12, <1>14, <1>16, <1>17, <2>2, <2>3, <2>4 DEF BatchInv, AccountStep
<1>19. CASE ~ broken
    <2>1. run' = [run EXCEPT !.pc = "scored", !.outcome = outcome] /\ summary' = summary
        BY <1>2, <1>19
    <2>2. run' = [pc |-> "scored", i |-> run.i, completed |-> run.completed, attempt |-> run.attempt,
                  requests |-> run.requests, known |-> run.known, agent |-> run.agent,
                  outcome |-> outcome]
        BY <2>1, RunIs DEF BatchInv
    <2>3. /\ run'.pc = "scored" /\ run'.i = run.i /\ run'.completed = run.completed
          /\ run'.attempt = run.attempt /\ run'.requests = run.requests /\ run'.known = run.known
          /\ run'.outcome = outcome
        BY <2>2
    <2>4. Current' = Current
        BY <1>1, <2>3 DEF Current
    <2>5. Result(run.outcome)' = r
        BY <1>8, <2>3, <2>4 DEF Result, Entry
    <2>6. BatchTypeOK'
        <3>1. outcome \in Scored
            BY <1>5, <1>6, <1>19
        <3>2. run' \in Runs
            BY <2>2, <3>1, RunIs DEF BatchInv, Runs
        <3> QED BY <1>2, <1>4, <1>11, <1>12, <1>15, <2>1, <3>2 DEF BatchInv, BatchTypeOK
    <2>7. RunIsTrue'
        <3>1. LoadedNext(run.completed, run.i - 1)
            BY <1>2, <1>11, RunHolds, LoadedStays
        <3>2. Loaded(run.completed, run.i - 1)'
            BY <1>1, <2>3, <3>1, LoadedThen
        <3>3. run'.known <= run'.requests
            BY <2>3 DEF BatchInv, RunIsTrue
        <3>4. x.status = "completed" /\ x.result = r
            BY <1>9, <1>19
        <3> QED BY <1>1, <1>2, <1>3, <1>9, <1>11, <2>3, <2>4, <2>5, <3>2, <3>3, <3>4 DEF RunIsTrue
    <2>8. SummaryIsTrue' /\ SummaryListsTheTasks' /\ ShrinkStep
        <3>1. summary # None /\ spent.losses = 0 =>
                  /\ Len(summary.tasks) <= run.i - 1 /\ Len(summary.tasks) \in Nat
            BY <1>2 DEF BatchInv, SummaryIsTrue, BatchTypeOK
        <3>2. summary # None /\ spent.losses = 0 =>
                  \A j \in 1..Len(summary.tasks) : LoadComplete(TaskIds[j]) => CompleteNext(TaskIds[j])
            <4> SUFFICES ASSUME summary # None, spent.losses = 0, NEW j \in 1..Len(summary.tasks),
                                LoadComplete(TaskIds[j])
                         PROVE  CompleteNext(TaskIds[j])
                OBVIOUS
            <4>1. j \in 1..(run.i - 1)
                BY <3>1, RunIs DEF BatchInv
            <4> QED BY <1>2, <1>11, <4>1 DEF LoadComplete, CompleteNext
        <3> QED BY <1>1, <1>2, <2>1, <2>3, <3>1, <3>2, SummaryKept
    <2>9. SpendingIsKnown'
        BY <2>3 DEF SpendingIsKnown
    <2> QED BY <1>1, <1>2, <1>11, <1>12, <1>14, <1>16, <1>17, <2>6, <2>7, <2>8, <2>9 DEF BatchInv, AccountStep
<1> QED BY <1>18, <1>19

LEMMA BatchStutters ==
    ASSUME BatchInv, UNCHANGED benchVars
    PROVE  BatchInv' /\ AccountStep
<1>1. UNCHANGED selVars /\ UNCHANGED batchVars
    BY DEF benchVars
<1>2. SelectionInv' /\ TaskIds' = TaskIds /\ selection' = selection
    BY <1>1, StutteringKeeps DEF BatchInv, selVars, TaskIds
<1>3. BatchTypeOK' /\ NothingBefore' /\ StatesAreTrue'
    BY <1>1 DEF batchVars, BatchInv, BatchTypeOK, NothingBefore, StatesAreTrue
<1>4. Current' = Current
    BY <1>1, <1>2 DEF batchVars, Current
<1>5. LedgerIsTrue'
    BY <1>1, <1>4 DEF batchVars, BatchInv, LedgerIsTrue, Open
<1>6. RunIsTrue'
    <2>1. Result(run.outcome)' = Result(run.outcome)
        BY <1>1, <1>4 DEF batchVars, Result, Entry
    <2>2. Loaded(run.completed, run.i - 1)' <=> Loaded(run.completed, run.i - 1)
        BY <1>1, <1>2 DEF batchVars, Loaded, LoadComplete
    <2> QED BY <1>1, <1>2, <1>4, <2>1, <2>2 DEF batchVars, BatchInv, RunIsTrue
<1>7. SummaryIsTrue' /\ SummaryListsTheTasks' /\ ShrinkStep
    BY <1>1, <1>2, <1>3 DEF batchVars, BatchInv, SummaryIsTrue, SummaryListsTheTasks, ShrinkStep,
                            LoadComplete, BatchTypeOK
<1>8. AttemptNumbersAreUnique' /\ SpendingIsKnown'
    BY <1>1, <1>2 DEF batchVars, BatchInv, AttemptNumbersAreUnique, SpendingIsKnown, Charged, Counted, Before
<1>9. AccountStep
    BY <1>1, <1>7 DEF batchVars, AccountStep, ScoredStep
<1> QED BY <1>2, <1>3, <1>5, <1>6, <1>7, <1>8, <1>9 DEF BatchInv

LEMMA BatchSteps ==
    ASSUME BatchInv, BenchmarkNext
    PROVE  BatchInv' /\ AccountStep
<1>1. CASE SelNext /\ run.pc = "off" /\ manifest = None /\ UNCHANGED batchVars
    BY <1>1, SelectingKeeps
<1>2. CASE BatchNext /\ gen.pc = "idle" /\ UNCHANGED selVars
    <2> USE <1>2
    <2>1. CASE BatchStart
        BY <2>1, BatchStartKeeps
    <2>2. CASE ReuseTask
        BY <2>2, ReuseTaskKeeps
    <2>3. CASE GuardStops
        BY <2>3, GuardStopsKeeps
    <2>4. CASE StartTask
        BY <2>4, StartTaskKeeps
    <2>5. ASSUME NEW known \in BOOLEAN, AgentRequest(known) PROVE BatchInv' /\ AccountStep
        BY <2>5, AgentRequestKeeps
    <2>6. ASSUME NEW status \in AgentStatus, AgentEnds(status) PROVE BatchInv' /\ AccountStep
        BY <2>6, AgentEndsKeeps
    <2>7. ASSUME NEW answer \in GraderAnswers, Grade(answer) PROVE BatchInv' /\ AccountStep
        BY <2>7, GradeKeeps
    <2>8. CASE CountTask
        BY <2>8, CountTaskKeeps
    <2>9. ASSUME NEW outcome \in ExceptionOutcomes, HarnessRaises(outcome)
          PROVE  BatchInv' /\ AccountStep
        BY <2>9, HarnessRaisesKeeps
    <2>10. CASE RaiseOut
        BY <2>10, RaiseOutKeeps
    <2>11. CASE FinishBatch
        BY <2>11, FinishBatchKeeps
    <2>12. CASE BatchCrash
        BY <2>12, BatchCrashKeeps
    <2>13. ASSUME NEW t \in Candidates, LoseArtifacts(t) PROVE BatchInv' /\ AccountStep
        BY <2>13, LoseArtifactsKeeps
    <2> QED BY <2>1, <2>2, <2>3, <2>4, <2>5, <2>6, <2>7, <2>8, <2>9, <2>10, <2>11, <2>12, <2>13 DEF BatchNext
<1> QED BY <1>1, <1>2 DEF BenchmarkNext

\* However often a batch is killed, fails, loses artifacts and is resumed, no
\* attempt shares its number with another, the artifacts of failed attempts are
\* kept, a scored task is not run again while its artifacts exist, a task starts
\* only when every request charged so far was reported, a finished summary lists
\* the tasks of the selection, and no summary takes back a completed task
\* (BenchmarkBatchRunner.run).
THEOREM BatchKeepsItsAccount ==
    BenchmarkSpec => /\ [](AttemptNumbersAreUnique /\ SpendingIsKnown /\ SummaryListsTheTasks)
                     /\ AttemptsAreKept
                     /\ ScoredIsFinal
                     /\ CompletedNeverShrinks
<1>1. BatchInv /\ [BenchmarkNext]_benchVars => BatchInv' /\ AccountStep
    BY BatchSteps, BatchStutters
<1>2. BatchInv => AttemptNumbersAreUnique /\ SpendingIsKnown /\ SummaryListsTheTasks
    BY DEF BatchInv
<1>3. BenchmarkSpec => []BatchInv
    BY InitBatch, <1>1, PTL DEF BenchmarkSpec
<1>4. AccountStep => /\ [attempts \subseteq attempts']_attempts
                     /\ [ScoredStep]_taskState /\ [ShrinkStep]_summary
    BY DEF AccountStep
<1>5. BenchmarkSpec => AttemptsAreKept
    BY <1>1, <1>3, <1>4, PTL DEF BenchmarkSpec, AttemptsAreKept
<1>6. BenchmarkSpec => ScoredIsFinal
    BY <1>1, <1>3, <1>4, PTL DEF BenchmarkSpec, ScoredIsFinal, ScoredStep
<1>7. BenchmarkSpec => CompletedNeverShrinks
    BY <1>1, <1>3, <1>4, PTL DEF BenchmarkSpec, CompletedNeverShrinks, ShrinkStep
<1> QED BY <1>2, <1>3, <1>5, <1>6, <1>7, PTL

=============================================================================
