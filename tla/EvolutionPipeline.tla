-------------------------- MODULE EvolutionPipeline --------------------------
(***************************************************************************)
(* EvolutionPipeline.run of                                                *)
(* src/src/research/evolution/evolution_pipeline.py, one action per step:  *)
(* findings, extraction of principles, their lifecycle, feedback,          *)
(* conflicts, frameworks.  Between runs the stores' other operations.      *)
(***************************************************************************)
EXTENDS ConflictResolver, FrameworkSet

CONSTANTS
  NoRegime,             \* current_regime = None
  Offered,              \* the findings reports are made of
  MaxReport,            \* bound on the findings of a report
  MinObservations,      \* below 3 observations a finding is temporary
  MinClusterSize,       \* min_cluster_size of extract_candidates
  CoactivationCycles,   \* cycles before clusters are detected
  FrameworkSize,        \* MIN_CLUSTER_SIZE of the cluster detector
  SignalCycles,         \* accuracies of a framework that tell of the thesis
  MaxCycles             \* bound on the runs

ASSUME EvolutionAssumption ==
  /\ MaxReport \in Nat /\ MinObservations \in Nat /\ MinClusterSize \in Nat \ {0}
  /\ CoactivationCycles \in Nat /\ FrameworkSize \in Nat \ {0}
  /\ SignalCycles \in 1..RetirementCycles /\ MaxCycles \in Nat
  /\ NoRegime \notin Regime

VARIABLES
  pc,          \* the step of run that comes next
  cycle,       \* _cycle_count
  regime,      \* current_regime of this run
  heard,       \* _domain_findings: findings of a cluster and their observations
  pending,     \* _candidates of the CandidateManager
  graduated    \* _graduated

runVars == <<pc, cycle, regime, heard, pending, graduated>>

evolutionVars == <<principleVars, competitions, frameworkVars, runVars>>

Finding == [cluster : Cluster, observations : Nat]

ASSUME OfferedAssumption == Offered \subseteq Finding /\ IsFiniteSet(Offered)

EvolutionInit ==
  /\ PrincipleInit /\ ConflictInit /\ FrameworkInit
  /\ pc = "idle" /\ cycle = 0 /\ regime = NoRegime
  /\ heard = [c \in Cluster |-> [findings |-> 0, observations |-> 0]]
  /\ pending = {} /\ graduated = {}

-----------------------------------------------------------------------------
(* Step 1: findings *)

IsTemporary(f) == f.observations < MinObservations

ObservationsOf(c, findings) ==
  Capped(FoldSet(LAMBDA f, sum : sum + f.observations, 0, {f \in findings : f.cluster = c}))

CountUpTo(n, limit) == IF n <= limit THEN n ELSE limit

(* The scheduler's run after failed predictions has no regime.             *)
ProcessFindings ==
  /\ pc = "idle" /\ cycle < MaxCycles
  /\ \E report \in SUBSET Offered :
       /\ Cardinality(report) <= MaxReport
       /\ LET fed == {f \in report : ~IsTemporary(f)}
          IN heard' = [c \in Cluster |->
               [findings |-> CountUpTo(heard[c].findings + Cardinality({f \in fed : f.cluster = c}),
                                       MinClusterSize),
                observations |-> Added(heard[c].observations, ObservationsOf(c, fed))]]
  /\ regime' \in Regime \cup {NoRegime}
  /\ cycle' = cycle + 1
  /\ pc' = "extract"
  /\ UNCHANGED <<principleVars, competitions, frameworkVars, pending, graduated>>

-----------------------------------------------------------------------------
(* Step 2: extract_candidates, and the admission of its principles *)

Ripe == {c \in Cluster : heard[c].findings >= MinClusterSize}

Born == stored \cup retired

(* Every ripe cluster is told all its findings again: to the principle it  *)
(* matches, or to a new one.  New ones are not in the store to be matched  *)
(* before all clusters had their turn.                                     *)
Extractions ==
  LET unmatched == {c \in Ripe : MatchesFor(c) = {}}
      fresh == {p \in Principle \ Born :
                  Cardinality({q \in Principle \ Born : q <= p}) <= Cardinality(unmatched)}
  IN {told \in [Ripe -> stored \cup fresh] :
        /\ \A c \in Ripe \ unmatched : told[c] \in MatchesFor(c)
        /\ \A c \in unmatched : told[c] \in fresh
        /\ \A c, d \in unmatched : told[c] = told[d] => c = d}

TellsOf(told, p) == {c \in DOMAIN told : told[c] = p}

Evidence(told, p) ==
  Capped(FoldSet(LAMBDA c, sum : sum + heard[c].observations, 0, TellsOf(told, p)))

Observed(r) ==
  IF regime = NoRegime THEN r ELSE [r EXCEPT !.regimes = @ \cup {regime}]

Extracted(told, p) ==
  CASE TellsOf(told, p) = {} -> principles[p]
    [] TellsOf(told, p) # {} /\ p \in stored ->
         Observed([principles[p] EXCEPT !.observations = Added(@, Evidence(told, p))])
    [] OTHER ->
         Observed(NewPrinciple(CHOOSE c \in TellsOf(told, p) : TRUE, Evidence(told, p), cycle))

ExtractPrinciples ==
  /\ pc = "extract"
  /\ \E told \in Extractions :
       LET touched == {told[c] : c \in Ripe}
       IN /\ principles' = [p \in Principle |-> Extracted(told, p)]
          /\ stored' = stored \cup touched
          /\ listed' = Saved(listed, touched, principles')
          /\ pending' = pending \cup (touched \ stored)
  /\ pc' = "lifecycle"
  /\ UNCHANGED <<retired, competitions, frameworkVars, cycle, regime, heard, graduated>>

-----------------------------------------------------------------------------
(* Steps 2b and 2c: _evaluate_lifecycle and _run_evidence_feedback *)

Climbers == {p \in stored : Graduates(principles[p], cycle) \/ Matures(principles[p])}

Outworn == {p \in stored : principles[p].contradictions >= RetireAt}

EvaluateKeepingCandidates ==   \* mutant: the candidate manager is not told of promotions
  /\ pc = "lifecycle"
  /\ principles' = [p \in Principle |->
       IF p \in stored THEN Judged(Promoted(principles[p], cycle)) ELSE principles[p]]
  /\ listed' = Delisted(Relisted(listed, Climbers, principles, principles'), Outworn, principles')
  /\ stored' = stored \ Outworn
  /\ retired' = retired \cup Outworn
  /\ pc' = "feedback"
  /\ UNCHANGED <<competitions, frameworkVars, cycle, regime, heard, pending, graduated>>

EvaluateLifecycle ==
  /\ pc = "lifecycle"
  /\ principles' = [p \in Principle |->
       IF p \in stored THEN Judged(Promoted(principles[p], cycle)) ELSE principles[p]]
  /\ listed' = Delisted(Relisted(listed, Climbers, principles, principles'), Outworn, principles')
  /\ stored' = stored \ Outworn
  /\ retired' = retired \cup Outworn
  /\ LET promoted == {p \in stored : Graduates(principles[p], cycle)}
     IN /\ pending' = pending \ promoted
        /\ graduated' = graduated \cup (promoted \cap pending)
  /\ pc' = "feedback"
  /\ UNCHANGED <<competitions, frameworkVars, cycle, regime, heard>>

(* _determine_thesis_correctness: the frameworks' accuracies if there are  *)
(* any; else yes, since conflicts are detected only after the feedback.    *)
Signals ==
  UNION {{f} \X {i \in DOMAIN Trajectory(f) : i > Len(Trajectory(f)) - SignalCycles} :
           f \in {g \in Range(activeSet) : IsStored(Shelf, g)}}

(* A framework that is in the set twice is counted twice. *)
Votes(signals) ==
  FoldSet(LAMBDA s, n : n + Len(SelectSeq(activeSet, LAMBDA f : f = s[1])), 0, signals)

ThesisCorrect ==
  Votes(Signals) = 0
    \/ 10 * Votes({s \in Signals : Trajectory(s[1])[s[2]] < 50}) <= 4 * Votes(Signals)

(* _get_relevant_principles *)
Relevant ==
  LET linked == UNION {frameworks[f].principles : f \in {g \in Range(activeSet) : IsStored(Shelf, g)}}
  IN IF linked = {} THEN stored ELSE linked \cap stored

(* PrincipleEvidence.record_outcome *)
Outcome(r, correct) ==
  [r EXCEPT !.observations = Added(@, 1),
            !.correct = IF correct THEN @ + 1 ELSE @,
            !.incorrect = IF correct THEN @ ELSE @ + 1]

RunEvidenceFeedback ==
  /\ pc = "feedback"
  /\ principles' = [p \in Principle |->
       IF p \in Relevant THEN Outcome(principles[p], ThesisCorrect) ELSE principles[p]]
  /\ pc' = "conflicts"
  /\ UNCHANGED <<stored, retired, listed, competitions, frameworkVars,
                 cycle, regime, heard, pending, graduated>>

-----------------------------------------------------------------------------
(* Steps 3 and 4: conflicts and frameworks *)

FindConflicts ==
  /\ pc = "conflicts"
  /\ DetectConflicts
  /\ pc' = "frameworks"
  /\ UNCHANGED <<frameworkVars, cycle, regime, heard, pending, graduated>>

Eligible == {p \in stored : principles[p].strength \in {"validated", "mature"}}

(* Which of the eligible principles have been active together often enough *)
(* is left open, but a cluster that is found once is found in every run.   *)
Formations ==
  LET free == {f \in Framework : frameworks[f].status = "none"}
  IN {Shelf} \cup
     {FormCandidate(Shelf, CHOOSE f \in free : \A g \in free : f <= g, members, initial) :
        members \in {m \in SUBSET Eligible :
                       /\ Cardinality(m) >= FrameworkSize
                       /\ cycle >= CoactivationCycles /\ free # {}},
        initial \in Accuracy}

EvolveFrameworks ==
  /\ pc = "frameworks"
  /\ \E shelf \in Formations : BecomesShelf(EvaluateActive(ValidateCandidates(shelf)))
  /\ pc' = "idle"
  /\ UNCHANGED <<principleVars, competitions, cycle, regime, heard, pending, graduated>>

-----------------------------------------------------------------------------
(* Between runs *)

RetireInPlace(p) ==   \* mutant: a retired principle stays in the store
  /\ pc = "idle" /\ p \in stored
  /\ LET r == [principles[p] EXCEPT !.contradictions = @ + 1]
         gone == {q \in {p} : r.contradictions >= RetireAt}
     IN /\ principles' = [principles EXCEPT ![p] = Judged(r)]
        /\ retired' = retired \cup gone
        /\ listed' = Delisted(listed, gone, principles')
  /\ UNCHANGED <<stored, competitions, frameworkVars, runVars>>

(* record_contradiction *)
RecordContradiction(p) ==
  /\ pc = "idle" /\ p \in stored
  /\ LET r == [principles[p] EXCEPT !.contradictions = @ + 1]
         gone == {q \in {p} : r.contradictions >= RetireAt}
     IN /\ principles' = [principles EXCEPT ![p] = Judged(r)]
        /\ stored' = stored \ gone
        /\ retired' = retired \cup gone
        /\ listed' = Delisted(listed, gone, principles')
  /\ UNCHANGED <<competitions, frameworkVars, runVars>>

RecordConflictEvidence ==
  /\ pc = "idle" /\ competitions # {}
  /\ \E p \in Born, correct \in BOOLEAN : RecordEvidence(p, correct)
  /\ UNCHANGED <<frameworkVars, runVars>>

RecordFrameworkAccuracy ==
  /\ pc = "idle"
  /\ \E f \in Framework, accuracy \in Accuracy : RecordAccuracy(f, accuracy)
  /\ UNCHANGED <<principleVars, competitions, runVars>>

EvolutionNext ==
  \/ ProcessFindings \/ ExtractPrinciples \/ EvaluateLifecycle
  \/ RunEvidenceFeedback \/ FindConflicts \/ EvolveFrameworks
  \/ \E p \in Principle : RecordContradiction(p)
  \/ RecordConflictEvidence
  \/ RecordFrameworkAccuracy

EvolutionSpec == EvolutionInit /\ [][EvolutionNext]_evolutionVars

-----------------------------------------------------------------------------
(* Properties *)

PrinciplesTypeOK ==
  /\ principles \in [Principle -> ResearchPrinciple]
  /\ stored \subseteq Principle /\ retired \subseteq Principle \ stored
  /\ listed \in [Strength -> [Principle -> 0..2]]
  /\ competitions \subseteq Competition
  /\ pc \in {"idle", "extract", "lifecycle", "feedback", "conflicts", "frameworks"}
  /\ cycle \in 0..MaxCycles /\ regime \in Regime \cup {NoRegime}
  /\ heard \in [Cluster -> [findings : 0..MinClusterSize, observations : 0..MatureObservations]]
  /\ pending \subseteq Born /\ graduated \subseteq Born

(* Every variable of the pipeline and its stores has its type. *)
EvolutionTypeOK ==
  /\ PrinciplesTypeOK
  /\ frameworks \in [Framework -> [status : FrameworkStatus, principles : SUBSET Principle,
                                   initial : Accuracy \cup {0}, history : Seq(Accuracy)]]
  /\ byStatus \in [IndexedStatus -> Seq(Framework)]
  /\ activeSet \in Seq(Framework)

(* A strength is earned over cycles: a validated principle has lived for   *)
(* the required cycles and with enough observations, a mature one for a    *)
(* cycle more, in the regimes and with the observations of its own; being  *)
(* weakened or retired takes nothing of it back.  The regimes of a         *)
(* validated principle are the matter of ValidatedAcrossRegimes.           *)
RankEarned ==
  \A p \in Born :
    LET r == principles[p] IN
    /\ r.strength # "candidate" =>
         cycle - r.born >= CandidateCycles /\ r.observations >= ValidatedObservations
    /\ r.strength = "mature" =>
         /\ cycle - r.born >= CandidateCycles + 1
         /\ Cardinality(r.regimes) >= MatureRegimes
         /\ r.observations >= MatureObservations

(* "VALIDATED_MIN_REGIMES = 2  # Minimum regimes for validated"            *)
(* (evolution_pipeline.py:55): what holds more than a candidate's rank has *)
(* been observed in that many regimes.  _evaluate_lifecycle asks for the   *)
(* regimes of a candidate, CANDIDATE_MIN_REGIMES, and reads no other.      *)
ValidatedAcrossRegimes ==
  \A p \in Born :
    principles[p].strength # "candidate" => Cardinality(principles[p].regimes) >= ValidatedRegimes

(* The index always has a stored principle under its strength, although    *)
(* update_strength purges the wrong list: no principle is missed by the    *)
(* scan for conflicts.                                                     *)
IndexComplete == \A p \in stored : listed[principles[p].strength][p] > 0

(* The candidate manager and the store agree on who is a candidate. *)
CandidatesTracked ==
  /\ {p \in stored : principles[p].strength = "candidate"} = pending \cap stored
  /\ {p \in stored : principles[p].strength # "candidate"} = graduated \cap stored

(* Extraction tells a claim apart from those it knows: two principles that *)
(* make the same claim about a domain come out of one and the same run.    *)
TwinsAreBornTogether ==
  \A p, q \in stored :
    DomainFor(p) = DomainFor(q) /\ ClaimFor(p) = ClaimFor(q) => principles[p].born = principles[q].born

(* Once conflicts were sought, all contradictory principles from validated *)
(* upwards that are in the store compete.                                  *)
ConflictsFound ==
  pc = "frameworks" =>
    \A p, q \in Eligible : p # q /\ Contradictory(p, q) => {p, q} \in Competing

(* Who competes knows it: each side of a competition names the other,      *)
(* through retirements, weakening and the outcomes of other competitions.  *)
RivalsKnown ==
  \A c \in competitions :
    /\ c.b \in principles[c.a].competesWith
    /\ c.a \in principles[c.b].competesWith

Ladder == INSTANCE PrincipleLadder WITH
  Id <- Principle,
  rung <- [p \in Principle |->
    IF p \in retired THEN "retired" ELSE IF p \in stored THEN principles[p].strength ELSE "none"]

(* The strengths implement the ladder: no run lets a principle skip a rung *)
(* or fall, and a retired principle never comes back.                      *)
ImplementsLadder == Ladder!LadderSpec

(* The set and the store agree: a framework the store has as active or     *)
(* under review is in the FrameworkSet.                                    *)
ActiveInSet ==
  \A f \in Framework :
    frameworks[f].status \in {"active", "under_review"} => f \in Range(activeSet)

(* A framework waiting for validation or under review is found by the      *)
(* steps that would move it on, although retire leaves ids in the index.   *)
FrameworksIndexed ==
  \A f \in Framework :
    frameworks[f].status \in {"candidate", "under_review"}
      => f \in Range(byStatus[frameworks[f].status])
=============================================================================
