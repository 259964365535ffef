------------------------------- MODULE Selection -------------------------------
(***************************************************************************)
(* Generation of a benchmark selection (src/codeagent/benchmark/           *)
(* selection.py, with the preflight and source preparation it drives).     *)
(* The generator walks the shuffled queue of each difficulty tier, proves  *)
(* each candidate with the official gold grader, accepts it or goes to the *)
(* next one, and writes the selection that the batch (module Batch) runs.  *)
(* Every candidate's evidence is a file, so that an interrupted generation *)
(* is resumed; evidence is reused only while the image it was produced     *)
(* from still resolves to the same source.                                 *)
(***************************************************************************)
EXTENDS Integers, Sequences, FiniteSets, SequencesExt

CONSTANTS
    Candidates,         \* instance ids of the pool, exclusions removed
    Tier, Repo,         \* [Candidates -> ...]: difficulty and repository
    Seeds, Shuffle,     \* Shuffle[seed][tier]: the queue random.Random gives
    Size,               \* number of tasks asked for
    MaxGenRuns,         \* bound: starts of the generator
    MaxImageMoves,      \* bound: times an image tag moves to another digest
    MaxFailures,        \* bound: failing preflights
    None

TIERS == <<"easy", "medium", "hard">>

VARIABLES
    image,      \* [Candidates -> Nat]: digest the image tag resolves to (external)
    candState,  \* candidates/<id>.json
    identity,   \* generation-identity.json: the seed it was started with
    selection,  \* the selection file: <<>> until written
    report,     \* the report file
    gen,        \* memory of the generator process
    proven,     \* history: <<candidate, digest>> whose gold patch resolved
    spentGen    \* history: counters behind the three bounds

selVars == <<image, candState, identity, selection, report, gen, proven, spentGen>>

--------------------------------------------------------------------------------
(* Targets                                                                 *)

Pool(t) == Cardinality({c \in Candidates : Tier[c] = t})
TierIndex(t) == CHOOSE i \in DOMAIN TIERS : TIERS[i] = t

\* Largest-remainder apportionment of Size over the tiers.
ProportionalTargets ==
    LET total   == Cardinality(Candidates)
        low(t)  == (Size * Pool(t)) \div total
        rest(t) == (Size * Pool(t)) % total
        before(u, t) == rest(u) > rest(t) \/ (rest(u) = rest(t) /\ TierIndex(u) < TierIndex(t))
        left    == Size - (low("easy") + low("medium") + low("hard"))
        rank(t) == Cardinality({u \in ToSet(TIERS) : before(u, t)})
    IN  [t \in ToSet(TIERS) |-> low(t) + (IF rank(t) < left THEN 1 ELSE 0)]

ASSUME PoolSuffices ==
    /\ IsFiniteSet(Candidates) /\ Size \in Nat
    /\ Cardinality(Candidates) >= Size
    /\ \A i \in DOMAIN TIERS : Pool(TIERS[i]) > 0

\* candidate_queues: the pool sorted into the tiers, each of them shuffled.
ASSUME QueuesAreShuffled ==
    /\ Tier \in [Candidates -> ToSet(TIERS)]
    /\ \A seed \in Seeds, t \in ToSet(TIERS) :
          /\ Shuffle[seed][t] \in Seq(Candidates)
          /\ ToSet(Shuffle[seed][t]) = {c \in Candidates : Tier[c] = t}
          /\ IsInjective(Shuffle[seed][t])

RepoCap == LET cap == (Size * 3) \div 10 IN IF cap < 1 THEN 1 ELSE cap

--------------------------------------------------------------------------------
(* One generation                                                          *)

Accepted(c, digest) == [id |-> c, source |-> digest]
RepoCount(acc, r) == Cardinality({i \in DOMAIN acc : Repo[acc[i].id] = r})
TierCount(acc, t) == Cardinality({i \in DOMAIN acc : Tier[acc[i].id] = t})

GenIdle == [pc |-> "idle", seed |-> None, tier |-> 1, pos |-> 1,
            accepted |-> <<>>, tried |-> 0, current |-> None]
NoReport == [completed |-> FALSE, accepted |-> <<>>, tried |-> 0]
Report(g, done) == [completed |-> done, tried |-> g.tried,
                    accepted |-> [i \in DOMAIN g.accepted |-> g.accepted[i].id]]

SelInit ==
    /\ image = [c \in Candidates |-> 1]
    /\ candState = [c \in Candidates |-> None]
    /\ identity = None
    /\ selection = <<>>
    /\ report = NoReport
    /\ gen = GenIdle
    /\ proven = {}
    /\ spentGen = [runs |-> 0, moves |-> 0, failures |-> 0]

\* run(): the identity file decides whether the directory may be resumed.
GenStart(seed) ==
    /\ gen.pc = "idle"
    /\ spentGen.runs < MaxGenRuns
    /\ identity \in {None, seed}            \* otherwise "identity 不兼容" is raised
    /\ identity' = seed
    /\ gen' = [GenIdle EXCEPT !.pc = "scan", !.seed = seed]
    /\ spentGen' = [spentGen EXCEPT !.runs = @ + 1]
    /\ UNCHANGED <<image, candState, selection, report, proven>>

Queue == Shuffle[gen.seed][TIERS[gen.tier]]
TierFull == TierCount(gen.accepted, TIERS[gen.tier]) >= ProportionalTargets[TIERS[gen.tier]]
Scanning == gen.pc = "scan" /\ gen.tier <= Len(TIERS)
HasCandidate == Scanning /\ ~TierFull /\ gen.pos <= Len(Queue)

\* End of a tier's queue: the next tier, or the error "候选池不足".
GenNextTier ==
    /\ Scanning
    /\ TierFull \/ gen.pos > Len(Queue)
    /\ gen' = IF TierFull THEN [gen EXCEPT !.tier = @ + 1, !.pos = 1] ELSE GenIdle
    /\ UNCHANGED <<image, candState, identity, selection, report, proven, spentGen>>

\* A candidate whose repository already has its share is rejected unproven.
GenRejectRepo ==
    /\ HasCandidate
    /\ RepoCount(gen.accepted, Repo[Queue[gen.pos]]) >= RepoCap
    /\ gen' = [gen EXCEPT !.pos = @ + 1, !.tried = @ + 1]
    /\ report' = Report(gen', FALSE)
    /\ UNCHANGED <<image, candState, identity, selection, proven, spentGen>>

Admissible == HasCandidate /\ RepoCount(gen.accepted, Repo[Queue[gen.pos]]) < RepoCap

\* Mutant: evidence is reused without preparing the source again.
MutReusableUnchecked(c) ==
    /\ candState[c] # None
    /\ candState[c].status = "completed"
    /\ candState[c].passed

\* _load_reusable and validate_reuse: a completed, passed file whose source is
\* the one the image resolves to now.
Reusable(c) ==
    /\ candState[c] # None
    /\ candState[c].status = "completed"
    /\ candState[c].passed
    /\ candState[c].source = image[c]

\* What the loop body does with a candidate's evidence.
Settle(g, c, passed, digest) ==
    [g EXCEPT !.pc = "scan", !.pos = @ + 1, !.tried = @ + 1, !.current = None,
              !.accepted = IF passed THEN Append(@, Accepted(c, digest)) ELSE @]

GenReuse ==
    /\ Admissible
    /\ LET c == Queue[gen.pos] IN
        /\ Reusable(c)
        /\ gen' = Settle(gen, c, TRUE, candState[c].source)
        /\ report' = Report(gen', FALSE)
    /\ UNCHANGED <<image, candState, identity, selection, proven, spentGen>>

\* Not reusable (or its preparation fails now): the file says running.
GenPreflight ==
    /\ Admissible
    /\ LET c == Queue[gen.pos] IN
        /\ ~Reusable(c) \/ spentGen.failures < MaxFailures
        /\ candState' = [candState EXCEPT ![c] =
                [status |-> "running", passed |-> FALSE, source |-> None]]
        /\ gen' = [gen EXCEPT !.pc = "preflight", !.current = c]
        /\ spentGen' = IF Reusable(c) THEN [spentGen EXCEPT !.failures = @ + 1] ELSE spentGen
    /\ UNCHANGED <<image, identity, selection, report, proven>>

\* Names of the report groups the official grader may list an instance in.
ReportGroups == {"resolved", "unresolved", "empty_patch", "infra"}

\* What a run of the grader process may come to: it cannot be started, it fails,
\* or it leaves a report that lists the instance in some groups.
GraderAnswers ==
    {[process |-> p, groups |-> {}] : p \in {"raises", "fails"}} \cup
    {[process |-> "report", groups |-> g] : g \in {h \in SUBSET ReportGroups : Cardinality(h) <= 2}}

\* _classify_gold: infrastructure goes before unresolved, a missing instance is
\* an infrastructure failure.
ClassifyGold(groups) ==
    CASE "resolved" \in groups -> "gold_passed"
      [] "resolved" \notin groups /\ "infra" \in groups -> "environment_failed"
      [] groups \cap {"resolved", "infra"} = {} /\ "unresolved" \in groups -> "gold_failed"
      [] OTHER -> "environment_failed"

\* SWEbenchGoldPreflight.run: only a process that ended well and left a readable
\* report is classified.
GoldPreflight(answer) ==
    IF answer.process = "report" THEN ClassifyGold(answer.groups) ELSE "environment_failed"

\* How SWEbenchSourcePreparer.prepare may end: the image, its digest, the export
\* and the Git admission, each of which may be refused.
PrepareEnds == {"prepared", "image_pull", "image_identity", "source_export", "git_admission"}

\* OfficialCandidatePreflight.run: the source is prepared, then the gold patch is
\* graded; anything but a resolved gold patch is a failed evidence.
EvidencePassed(prepare, answer) ==
    prepare = "prepared" /\ GoldPreflight(answer) = "gold_passed"

\* The end of a preflight; an exception of it is caught and is an evidence too.
GenProve(prepare, answer) ==
    /\ gen.pc = "preflight"
    /\ LET c == gen.current
           passed == EvidencePassed(prepare, answer) IN
        /\ passed \/ spentGen.failures < MaxFailures
        /\ candState' = [candState EXCEPT ![c] =
                [status |-> "completed", passed |-> passed,
                 source |-> IF passed THEN image[c] ELSE None]]
        /\ proven' = IF passed THEN proven \cup {<<c, image[c]>>} ELSE proven
        /\ gen' = Settle(gen, c, passed, image[c])
        /\ report' = Report(gen', FALSE)
        /\ spentGen' = IF passed THEN spentGen ELSE [spentGen EXCEPT !.failures = @ + 1]
    /\ UNCHANGED <<image, identity, selection>>

\* The selection file is written first ...
GenWrite ==
    /\ gen.pc = "scan" /\ gen.tier > Len(TIERS)
    /\ Len(gen.accepted) = Size
    /\ selection' = gen.accepted
    /\ gen' = [gen EXCEPT !.pc = "report"]
    /\ UNCHANGED <<image, candState, identity, report, proven, spentGen>>

\* ... and then the completed report.
GenReport ==
    /\ gen.pc = "report"
    /\ report' = Report(gen, TRUE)
    /\ gen' = GenIdle
    /\ UNCHANGED <<image, candState, identity, selection, proven, spentGen>>

\* The process is killed between two of its writes.
GenCrash ==
    /\ gen.pc # "idle"
    /\ gen' = GenIdle
    /\ UNCHANGED <<image, candState, identity, selection, report, proven, spentGen>>

\* The registry moves an image tag; the cached source of the old digest stays.
MoveImage(c) ==
    /\ spentGen.moves < MaxImageMoves
    /\ image' = [image EXCEPT ![c] = @ + 1]
    /\ spentGen' = [spentGen EXCEPT !.moves = @ + 1]
    /\ UNCHANGED <<candState, identity, selection, report, gen, proven>>

SelNext ==
    \/ \E seed \in Seeds : GenStart(seed)
    \/ GenNextTier \/ GenRejectRepo \/ GenReuse \/ GenPreflight
    \/ \E prepare \in PrepareEnds, answer \in GraderAnswers : GenProve(prepare, answer)
    \/ GenWrite \/ GenReport \/ GenCrash
    \/ \E c \in Candidates : MoveImage(c)

SelectionSpec == SelInit /\ [][SelNext]_selVars

--------------------------------------------------------------------------------
(* Properties                                                              *)

\* SWEbenchSelection: what the batch demands of the file it is given.
SelectionLoads(s) ==
    /\ s # <<>>
    /\ Cardinality({s[i].id : i \in DOMAIN s}) = Len(s)
    /\ \A i, j \in DOMAIN s : i < j => TierIndex(Tier[s[i].id]) <= TierIndex(Tier[s[j].id])

\* Whatever was interrupted, resumed or retried, a selection that was written
\* has the size asked for, the share of every tier, no repository above its cap,
\* and an order the batch loader accepts (run and SWEbenchSelection).
SelectionIsBalanced ==
    selection # <<>> =>
        /\ SelectionLoads(selection)
        /\ Len(selection) = Size
        /\ \A i \in DOMAIN TIERS :
              TierCount(selection, TIERS[i]) = ProportionalTargets[TIERS[i]]
        /\ \A c \in Candidates : RepoCount(selection, Repo[c]) <= RepoCap

\* Every selected task carries the identity of a source on which the official
\* grader resolved the gold patch, also when its evidence came from a file an
\* earlier run left behind or the image has moved in between (_load_reusable).
SelectedWasProven ==
    \A i \in DOMAIN selection : <<selection[i].id, selection[i].source>> \in proven

\* No generation accepts a source other than the one the image resolved to at
\* some moment of that very generation: reused evidence is prepared again.
AcceptedIsCurrent ==
    [][\A c \in Candidates :
         (Len(gen'.accepted) > Len(gen.accepted) /\ Last(gen'.accepted).id = c)
            => Last(gen'.accepted).source = image[c]]_selVars

\* A report marked completed lists exactly the tasks of the selection file.
CompletedReportIsTrue ==
    report.completed => report.accepted = [i \in DOMAIN selection |-> selection[i].id]

\* However often a generation was interrupted and images moved, the selection it
\* writes is balanced, proven on the sources it names, current when accepted,
\* and what the report says.
SelectionIsProven ==
    /\ [](SelectionIsBalanced /\ SelectedWasProven /\ CompletedReportIsTrue)
    /\ AcceptedIsCurrent
================================================================================
