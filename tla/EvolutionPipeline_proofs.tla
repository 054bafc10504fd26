----------------------- MODULE EvolutionPipeline_proofs -----------------------
(***************************************************************************)
(* Theorems about EvolutionPipeline, for every set of clusters, principles *)
(* and regimes and all thresholds.  What the steps do to frameworks comes  *)
(* from the lemmas of FrameworkSet_proofs.                                 *)
(***************************************************************************)
EXTENDS EvolutionPipeline, FrameworkSet_proofs, TLAPS, FiniteSetTheorems

USE DEF principleVars, runVars

-----------------------------------------------------------------------------
(* The inductive invariant *)

(* A principle that is validated when a run begins is older than the       *)
(* cycles it needed.                                                       *)
Aged ==
  \A p \in Born :
    LET r == principles[p] IN
    /\ r.born <= cycle
    /\ pc \in {"extract", "lifecycle"} /\ r.strength = "validated"
         => cycle - r.born >= CandidateCycles + 1

(* Contradictions retire a principle at once: the retirement of            *)
(* _evaluate_lifecycle never finds one.                                    *)
Enduring == \A p \in stored : principles[p].contradictions < RetireAt

OnePerPair == \A c, d \in competitions : Pair(c) = Pair(d) => c = d

Grounded == PrinciplesTypeOK /\ Enduring

-----------------------------------------------------------------------------
(* Counts *)

LEMMA CappedType == \A n : Capped(n) \in 0..MatureObservations
BY PrincipleStoreAssumption DEF Capped

LEMMA AddedGrows ==
  ASSUME NEW count \in 0..MatureObservations, NEW more \in Nat
  PROVE  Added(count, more) \in 0..MatureObservations /\ Added(count, more) >= count
BY PrincipleStoreAssumption DEF Added, Capped

LEMMA RegimesFinite ==
  ASSUME NEW small \in SUBSET Regime, NEW large \in SUBSET Regime, small \subseteq large
  PROVE  /\ Cardinality(small) \in Nat /\ Cardinality(large) \in Nat
         /\ Cardinality(small) <= Cardinality(large)
BY PrincipleStoreAssumption, FS_Subset, FS_CardinalityType

-----------------------------------------------------------------------------
(* Extraction *)

Touched(told) == {told[c] : c \in Ripe}

(* A principle that is told more findings only gains.                      *)
Gains(r, s) ==
  /\ s.cluster = r.cluster /\ s.strength = r.strength /\ s.status = r.status
  /\ s.contradictions = r.contradictions
  /\ s.correct = r.correct /\ s.incorrect = r.incorrect
  /\ s.born = r.born /\ s.competesWith = r.competesWith
  /\ s.observations >= r.observations /\ r.regimes \subseteq s.regimes

(* A new one is the first to make its claim.                               *)
Newborn(s) ==
  /\ s.strength = "candidate" /\ s.contradictions = 0
  /\ s.correct = 0 /\ s.incorrect = 0 /\ s.born = cycle
  /\ \A q \in stored : ~(DomainFor(q) = DomainOf[s.cluster] /\ ClaimFor(q) = ClaimOf[s.cluster])

(* A cluster is told to a principle that matches it or to a new one.       *)
LEMMA ToldOf ==
  ASSUME PrinciplesTypeOK, NEW told \in Extractions
  PROVE  /\ told \in [Ripe -> Principle] /\ Ripe \subseteq Cluster
         /\ \A c \in Ripe :
              \/ told[c] \in MatchesFor(c)
              \/ MatchesFor(c) = {} /\ told[c] \in Principle \ Born
<1>1. Ripe \subseteq Cluster
  BY DEF Ripe
<1> DEFINE unmatched == {c \in Ripe : MatchesFor(c) = {}}
           fresh == {p \in Principle \ Born :
                       Cardinality({q \in Principle \ Born : q <= p}) <= Cardinality(unmatched)}
<1>2. /\ told \in [Ripe -> stored \cup fresh]
      /\ \A c \in Ripe \ unmatched : told[c] \in MatchesFor(c)
      /\ \A c \in unmatched : told[c] \in fresh
  BY DEF Extractions
<1>3. stored \cup fresh \subseteq Principle /\ fresh \subseteq Principle \ Born
  BY DEF PrinciplesTypeOK
<1> HIDE DEF fresh
<1>4. told \in [Ripe -> Principle]
  BY <1>2, <1>3
<1> QED
  BY <1>1, <1>2, <1>3, <1>4

(* What extraction makes of each principle.                                *)
LEMMA ExtractedKinds ==
  ASSUME PrinciplesTypeOK, NEW told \in Extractions, NEW p \in Principle
  PROVE  /\ Extracted(told, p) \in ResearchPrinciple
         /\ p \notin Touched(told) => Extracted(told, p) = principles[p]
         /\ p \in Touched(told) /\ p \in stored => Gains(principles[p], Extracted(told, p))
         /\ p \in Touched(told) /\ p \notin stored => p \notin Born /\ Newborn(Extracted(told, p))
<1> DEFINE r == principles[p]
           gained == [r EXCEPT !.observations = Added(@, Evidence(told, p))]
           named == CHOOSE c \in TellsOf(told, p) : TRUE
           new == NewPrinciple(named, Evidence(told, p), cycle)
<1>1. /\ r \in ResearchPrinciple /\ cycle \in Nat
      /\ regime \in Regime \cup {NoRegime} /\ stored \subseteq Principle
  BY EvolutionAssumption DEF PrinciplesTypeOK
<1>2. Evidence(told, p) \in 0..MatureObservations
  BY CappedType DEF Evidence
<1>3. /\ DOMAIN told = Ripe
      /\ TellsOf(told, p) = {c \in Ripe : told[c] = p}
  BY ToldOf DEF TellsOf
<1>4. p \in Touched(told) <=> TellsOf(told, p) # {}
  BY <1>3 DEF Touched
<1>5. ASSUME NEW s \in ResearchPrinciple
      PROVE  Observed(s) \in ResearchPrinciple /\ Gains(s, Observed(s))
  <2>1. s.regimes \subseteq Regime /\ s.observations \in Nat
    BY PrincipleStoreAssumption DEF ResearchPrinciple
  <2>2. CASE regime = NoRegime
    BY <2>1, <2>2 DEF Observed, Gains
  <2>3. CASE regime \in Regime
    BY <1>1, <2>1, <2>3, EvolutionAssumption DEF Observed, Gains, ResearchPrinciple
  <2> QED
    BY <1>1, <2>2, <2>3
<1>6. CASE p \notin Touched(told)
  <2>1. Extracted(told, p) = r
    BY <1>4, <1>6 DEF Extracted
  <2> QED
    BY <1>1, <1>6, <2>1
<1>7. CASE p \in Touched(told) /\ p \in stored
  <2>1. Extracted(told, p) = Observed(gained)
    BY <1>4, <1>7 DEF Extracted
  <2>2. r.observations \in 0..MatureObservations
    BY <1>1 DEF ResearchPrinciple
  <2>9. Evidence(told, p) \in Nat
    BY <1>2, PrincipleStoreAssumption
  <2>3. /\ Added(r.observations, Evidence(told, p)) \in 0..MatureObservations
        /\ Added(r.observations, Evidence(told, p)) >= r.observations
    BY <2>9, <2>2, AddedGrows
  <2>4. gained \in ResearchPrinciple /\ Gains(r, gained)
    BY <1>1, <2>3 DEF ResearchPrinciple, Gains
  <2>5. Observed(gained) \in ResearchPrinciple /\ Gains(gained, Observed(gained))
    BY <1>5, <2>4
  <2>6. Gains(r, Observed(gained))
    <3>1. /\ r.observations \in Nat /\ gained.observations \in Nat
          /\ Observed(gained).observations \in Nat
      BY <1>1, <2>4, <2>5, PrincipleStoreAssumption DEF ResearchPrinciple
    <3> HIDE DEF gained, r
    <3> QED
      BY <2>4, <2>5, <3>1 DEF Gains
  <2> QED
    BY <1>7, <2>1, <2>5, <2>6
<1>8. CASE p \in Touched(told) /\ p \notin stored
  <2>1. Extracted(told, p) = Observed(new)
    BY <1>4, <1>8 DEF Extracted
  <2>2. named \in Ripe /\ told[named] = p
    BY <1>3, <1>4, <1>8
  <2>3. named \in Cluster /\ MatchesFor(named) = {} /\ p \in Principle \ Born
    BY <1>8, <2>2, ToldOf DEF MatchesFor
  <2> HIDE DEF named
  <2>4. new \in ResearchPrinciple
    BY <1>1, <1>2, <2>3, PrincipleStoreAssumption DEF NewPrinciple, ResearchPrinciple, Strength, Status
  <2>5. Newborn(new) /\ new.cluster = named
    BY <2>3 DEF Newborn, NewPrinciple, MatchesFor
  <2>6. Observed(new) \in ResearchPrinciple /\ Gains(new, Observed(new))
    BY <1>5, <2>4
  <2>7. Newborn(Observed(new))
    BY <2>5, <2>6 DEF Newborn, Gains
  <2> QED
    BY <1>8, <2>1, <2>3, <2>6, <2>7
<1> QED
  BY <1>6, <1>7, <1>8

-----------------------------------------------------------------------------
(* The other steps, principle by principle *)

(* Everything but strength and status is the same.                         *)
SameRecord(r, s) ==
  /\ s.cluster = r.cluster /\ s.observations = r.observations /\ s.regimes = r.regimes
  /\ s.contradictions = r.contradictions
  /\ s.correct = r.correct /\ s.incorrect = r.incorrect
  /\ s.born = r.born /\ s.competesWith = r.competesWith

(* Promotion gives one rung at most, and judgement none.                   *)
LEMMA JudgedKinds ==
  ASSUME NEW r \in ResearchPrinciple
  PROVE  /\ Judged(r) \in ResearchPrinciple /\ SameRecord(r, Judged(r))
         /\ Judged(r).strength = r.strength
<1>1. \A st \in Status : /\ [r EXCEPT !.status = st] \in ResearchPrinciple
                         /\ SameRecord(r, [r EXCEPT !.status = st])
                         /\ [r EXCEPT !.status = st].strength = r.strength
  BY DEF ResearchPrinciple, SameRecord
<1>2. Judged(r) = r \/ \E st \in Status : Judged(r) = [r EXCEPT !.status = st]
  <2>1. CASE r.contradictions >= RetireAt
    BY <2>1 DEF Judged, Status, ResearchPrinciple
  <2>2. CASE r.contradictions < RetireAt /\ r.contradictions \in WeakenAt..(RetireAt - 1)
    BY <2>2 DEF Judged, Status, ResearchPrinciple
  <2>3. CASE r.contradictions < RetireAt /\ r.contradictions \notin WeakenAt..(RetireAt - 1)
    BY <2>3 DEF Judged, Status, ResearchPrinciple
  <2> QED
    BY <2>1, <2>2, <2>3, PrincipleStoreAssumption DEF ResearchPrinciple
<1>3. CASE Judged(r) = r
  BY <1>3 DEF SameRecord
<1>4. CASE \E st \in Status : Judged(r) = [r EXCEPT !.status = st]
  <2>1. PICK st \in Status : Judged(r) = [r EXCEPT !.status = st]
    BY <1>4
  <2> QED
    BY <1>1, <2>1
<1> QED
  BY <1>2, <1>3, <1>4

LEMMA PromotedKinds ==
  ASSUME NEW r \in ResearchPrinciple, NEW n \in Nat
  PROVE  /\ Promoted(r, n) \in ResearchPrinciple /\ SameRecord(r, Promoted(r, n))
         /\ Graduates(r, n) => r.strength = "candidate" /\ Promoted(r, n).strength = "validated"
         /\ Matures(r) => r.strength = "validated" /\ Promoted(r, n).strength = "mature"
         /\ ~Graduates(r, n) /\ ~Matures(r) => Promoted(r, n).strength = r.strength
<1>1. CASE Graduates(r, n)
  <2>1. ~Matures(r) /\ r.strength = "candidate"
    BY <1>1 DEF Graduates, Matures
  <2>2. Promoted(r, n) = [r EXCEPT !.strength = "validated", !.status = "active"]
    BY <1>1, <2>1 DEF Promoted
  <2> QED
    BY <1>1, <2>1, <2>2 DEF ResearchPrinciple, SameRecord, Strength, Status
<1>2. CASE ~Graduates(r, n) /\ Matures(r)
  <2>1. r.strength = "validated"
    BY <1>2 DEF Matures
  <2>2. Promoted(r, n) = [r EXCEPT !.strength = "mature"]
    BY <1>2 DEF Promoted
  <2> QED
    BY <1>2, <2>1, <2>2 DEF ResearchPrinciple, SameRecord, Strength, Status
<1>3. CASE ~Graduates(r, n) /\ ~Matures(r)
  BY <1>3 DEF Promoted, SameRecord
<1> QED
  BY <1>1, <1>2, <1>3

LEMMA OutcomeKinds ==
  ASSUME NEW r \in ResearchPrinciple, NEW correct \in BOOLEAN
  PROVE  LET s == Outcome(r, correct) IN
         /\ s \in ResearchPrinciple
         /\ s.cluster = r.cluster /\ s.strength = r.strength /\ s.status = r.status
         /\ s.observations >= r.observations /\ s.regimes = r.regimes
         /\ s.contradictions = r.contradictions /\ s.born = r.born
         /\ s.competesWith = r.competesWith
         /\ s.correct + s.incorrect = r.correct + r.incorrect + 1
<1>1. r.observations \in 0..MatureObservations /\ r.correct \in Nat /\ r.incorrect \in Nat
  BY DEF ResearchPrinciple
<1>2. /\ Added(r.observations, 1) \in 0..MatureObservations
      /\ Added(r.observations, 1) >= r.observations
  BY <1>1, AddedGrows
<1> DEFINE right == IF correct THEN r.correct + 1 ELSE r.correct
           wrong == IF correct THEN r.incorrect ELSE r.incorrect + 1
<1>3. right \in Nat /\ wrong \in Nat /\ right + wrong = r.correct + r.incorrect + 1
  BY <1>1
<1>4. Outcome(r, correct) =
        [r EXCEPT !.observations = Added(@, 1), !.correct = right, !.incorrect = wrong]
  BY DEF Outcome
<1> HIDE DEF right, wrong
<1> QED
  BY <1>1, <1>2, <1>3, <1>4 DEF ResearchPrinciple

-----------------------------------------------------------------------------
(* Types and endurance *)

LEMMA InitGrounded == EvolutionInit => Grounded
<1> SUFFICES ASSUME EvolutionInit PROVE Grounded
  OBVIOUS
<1> DEFINE first == NewPrinciple(CHOOSE c \in Cluster : TRUE, 0, 0)
<1>1. (CHOOSE c \in Cluster : TRUE) \in Cluster
  BY PrincipleStoreAssumption
<1>2. first \in ResearchPrinciple
  BY <1>1, PrincipleStoreAssumption DEF NewPrinciple, ResearchPrinciple, Strength, Status
<1>3. principles \in [Principle -> ResearchPrinciple]
  BY <1>2 DEF EvolutionInit, PrincipleInit
<1>4. /\ stored = {} /\ retired = {} /\ competitions = {} /\ pending = {} /\ graduated = {}
      /\ pc = "idle" /\ cycle = 0 /\ regime = NoRegime
      /\ listed = [st \in Strength |-> [p \in Principle |-> 0]]
      /\ heard = [c \in Cluster |-> [findings |-> 0, observations |-> 0]]
  BY DEF EvolutionInit, PrincipleInit, ConflictInit
<1>5. heard \in [Cluster -> [findings : 0..MinClusterSize, observations : 0..MatureObservations]]
  BY <1>4, PrincipleStoreAssumption, EvolutionAssumption
<1> QED
  BY <1>3, <1>4, <1>5, EvolutionAssumption DEF Grounded, PrinciplesTypeOK, Enduring

LEMMA ProcessGrounded == Grounded /\ ProcessFindings => Grounded'
<1> SUFFICES ASSUME Grounded, ProcessFindings PROVE Grounded'
  OBVIOUS
<1> USE DEF Grounded
<1>1. PICK report \in SUBSET Offered :
        LET fed == {f \in report : ~IsTemporary(f)}
        IN heard' = [c \in Cluster |->
             [findings |-> CountUpTo(heard[c].findings + Cardinality({f \in fed : f.cluster = c}),
                                     MinClusterSize),
              observations |-> Added(heard[c].observations, ObservationsOf(c, fed))]]
  BY DEF ProcessFindings
<1> DEFINE fed == {f \in report : ~IsTemporary(f)}
           of(c) == {f \in fed : f.cluster = c}
<1>2. \A c \in Cluster : Cardinality(of(c)) \in Nat
  <2> SUFFICES ASSUME NEW c \in Cluster PROVE Cardinality(of(c)) \in Nat
    OBVIOUS
  <2>1. of(c) \subseteq Offered
    OBVIOUS
  <2> QED
    BY <2>1, OfferedAssumption, FS_Subset, FS_CardinalityType
<1>3. \A c \in Cluster :
        /\ CountUpTo(heard[c].findings + Cardinality(of(c)), MinClusterSize) \in 0..MinClusterSize
        /\ Added(heard[c].observations, ObservationsOf(c, fed)) \in 0..MatureObservations
  <2> SUFFICES ASSUME NEW c \in Cluster
      PROVE /\ CountUpTo(heard[c].findings + Cardinality(of(c)), MinClusterSize) \in 0..MinClusterSize
            /\ Added(heard[c].observations, ObservationsOf(c, fed)) \in 0..MatureObservations
    OBVIOUS
  <2>1. heard[c].findings \in 0..MinClusterSize /\ Cardinality(of(c)) \in Nat
    BY <1>2 DEF PrinciplesTypeOK
  <2> HIDE DEF of
  <2>2. CountUpTo(heard[c].findings + Cardinality(of(c)), MinClusterSize) \in 0..MinClusterSize
    BY <2>1, EvolutionAssumption DEF CountUpTo
  <2> QED
    BY <2>2, CappedType DEF Added
<1> HIDE DEF of
<1>4. heard' \in [Cluster -> [findings : 0..MinClusterSize, observations : 0..MatureObservations]]
  <2>1. heard' = [c \in Cluster |->
             [findings |-> CountUpTo(heard[c].findings + Cardinality(of(c)), MinClusterSize),
              observations |-> Added(heard[c].observations, ObservationsOf(c, fed))]]
    BY <1>1 DEF of
  <2> HIDE DEF fed
  <2> QED
    BY <2>1, <1>3
<1>5. /\ UNCHANGED <<principles, stored, retired, listed, competitions, pending, graduated>>
      /\ cycle < MaxCycles /\ cycle' = cycle + 1
      /\ regime' \in Regime \cup {NoRegime} /\ pc' = "extract"
  BY DEF ProcessFindings
<1> QED
  BY <1>4, <1>5, EvolutionAssumption DEF PrinciplesTypeOK, Enduring, Born

(* What one step of extraction does to the store.                          *)
LEMMA ExtractStep ==
  ASSUME PrinciplesTypeOK, ExtractPrinciples
  PROVE  \E told \in Extractions :
           /\ principles' = [p \in Principle |-> Extracted(told, p)]
           /\ stored' = stored \cup Touched(told)
           /\ Touched(told) \subseteq Principle \ retired
           /\ listed' = Saved(listed, Touched(told), principles')
           /\ pending' = pending \cup (Touched(told) \ stored)
           /\ UNCHANGED <<retired, competitions, cycle, regime, heard, graduated>>
           /\ pc = "extract" /\ pc' = "lifecycle"
<1>1. PICK told \in Extractions :
        /\ principles' = [p \in Principle |-> Extracted(told, p)]
        /\ stored' = stored \cup Touched(told)
        /\ listed' = Saved(listed, Touched(told), principles')
        /\ pending' = pending \cup (Touched(told) \ stored)
  BY DEF ExtractPrinciples, Touched
<1>2. Touched(told) \subseteq Principle \ retired
  <2> SUFFICES ASSUME NEW c \in Ripe PROVE told[c] \in Principle \ retired
    BY DEF Touched
  <2> QED
    BY ToldOf DEF MatchesFor, Born, PrinciplesTypeOK
<1> QED
  BY <1>1, <1>2 DEF ExtractPrinciples

LEMMA ExtractGrounded == Grounded /\ ExtractPrinciples => Grounded'
<1> SUFFICES ASSUME Grounded, ExtractPrinciples PROVE Grounded'
  OBVIOUS
<1> USE DEF Grounded
<1>1. PICK told \in Extractions :
           /\ principles' = [p \in Principle |-> Extracted(told, p)]
           /\ stored' = stored \cup Touched(told)
           /\ Touched(told) \subseteq Principle \ retired
           /\ listed' = Saved(listed, Touched(told), principles')
           /\ pending' = pending \cup (Touched(told) \ stored)
           /\ UNCHANGED <<retired, competitions, cycle, regime, heard, graduated>>
           /\ pc' = "lifecycle"
  BY ExtractStep
<1>2. principles' \in [Principle -> ResearchPrinciple]
  BY <1>1, ExtractedKinds
<1>3. listed' \in [Strength -> [Principle -> 0..2]]
  BY <1>1 DEF Saved, ListedAgain, PrinciplesTypeOK
<1>4. PrinciplesTypeOK'
  BY <1>1, <1>2, <1>3 DEF PrinciplesTypeOK, Born
<1>5. ASSUME NEW p \in stored' PROVE principles'[p].contradictions < RetireAt
  <2>1. p \in Principle /\ principles'[p] = Extracted(told, p)
    BY <1>1 DEF PrinciplesTypeOK
  <2>2. CASE p \notin Touched(told)
    BY <1>1, <2>1, <2>2, ExtractedKinds DEF Enduring
  <2>3. CASE p \in Touched(told) /\ p \in stored
    BY <2>1, <2>3, ExtractedKinds DEF Enduring, Gains
  <2>4. CASE p \in Touched(told) /\ p \notin stored
    BY <2>1, <2>4, ExtractedKinds, PrincipleStoreAssumption DEF Newborn
  <2> QED
    BY <2>2, <2>3, <2>4
<1> QED
  BY <1>4, <1>5 DEF Enduring

(* Nobody is retired by _evaluate_lifecycle: what is left is the climbing. *)
LEMMA LifecycleStep ==
  ASSUME Grounded, EvaluateLifecycle
  PROVE  /\ \A p \in stored : principles'[p] = Judged(Promoted(principles[p], cycle))
         /\ \A p \in Principle \ stored : principles'[p] = principles[p]
         /\ principles' \in [Principle -> ResearchPrinciple]
         /\ UNCHANGED <<stored, retired, competitions, cycle, regime, heard>>
         /\ listed' \in [Strength -> [Principle -> 0..2]]
         /\ \A st \in Strength, p \in Principle :
              listed'[st][p] =
                IF p \in Climbers /\ principles'[p].strength = st THEN 1 ELSE listed[st][p]
         /\ LET promoted == {p \in stored : Graduates(principles[p], cycle)}
            IN pending' = pending \ promoted /\ graduated' = graduated \cup (promoted \cap pending)
         /\ pc = "lifecycle" /\ pc' = "feedback"
<1> USE DEF Grounded
<1>1. Outworn = {}
  <2> SUFFICES ASSUME NEW p \in stored PROVE ~(principles[p].contradictions >= RetireAt)
    BY DEF Outworn
  <2>1. principles[p].contradictions \in Int /\ RetireAt \in Int
    BY PrincipleStoreAssumption DEF PrinciplesTypeOK, ResearchPrinciple
  <2> QED
    BY <2>1 DEF Enduring
<1>2. principles' = [p \in Principle |->
        IF p \in stored THEN Judged(Promoted(principles[p], cycle)) ELSE principles[p]]
  BY DEF EvaluateLifecycle
<1>3. \A p \in Principle : /\ principles[p] \in ResearchPrinciple
                            /\ Judged(Promoted(principles[p], cycle)) \in ResearchPrinciple
  BY PromotedKinds, JudgedKinds, EvolutionAssumption DEF PrinciplesTypeOK
<1>4. principles' \in [Principle -> ResearchPrinciple]
  BY <1>2, <1>3
<1>5. listed' = Delisted(Relisted(listed, Climbers, principles, principles'), {}, principles')
  BY <1>1 DEF EvaluateLifecycle
<1>6. /\ listed' \in [Strength -> [Principle -> 0..2]]
      /\ \A st \in Strength, p \in Principle :
           listed'[st][p] =
             IF p \in Climbers /\ principles'[p].strength = st THEN 1 ELSE listed[st][p]
  BY <1>5 DEF Delisted, Relisted, PrinciplesTypeOK
<1>7. UNCHANGED <<stored, retired, competitions, cycle, regime, heard>>
  BY <1>1 DEF EvaluateLifecycle
<1>8. stored \subseteq Principle
  BY DEF PrinciplesTypeOK
<1> QED
  BY <1>2, <1>4, <1>6, <1>7, <1>8 DEF EvaluateLifecycle

LEMMA LifecycleGrounded == Grounded /\ EvaluateLifecycle => Grounded'
<1> SUFFICES ASSUME Grounded, EvaluateLifecycle PROVE Grounded'
  OBVIOUS
<1>1. PrinciplesTypeOK'
  BY LifecycleStep DEF PrinciplesTypeOK, Born, Grounded
<1>2. ASSUME NEW p \in stored PROVE principles'[p].contradictions = principles[p].contradictions
  <2>1. principles[p] \in ResearchPrinciple /\ cycle \in Nat
    BY EvolutionAssumption DEF Grounded, PrinciplesTypeOK
  <2> QED
    BY <2>1, LifecycleStep, PromotedKinds, JudgedKinds DEF SameRecord
<1> QED
  BY <1>1, <1>2, LifecycleStep DEF Grounded, Enduring

LEMMA FeedbackStep ==
  ASSUME PrinciplesTypeOK, RunEvidenceFeedback
  PROVE  \E correct \in BOOLEAN :
           /\ Relevant \subseteq stored
           /\ principles' = [p \in Principle |->
                IF p \in Relevant THEN Outcome(principles[p], correct) ELSE principles[p]]
           /\ UNCHANGED <<stored, retired, listed, competitions, cycle, regime, heard,
                          pending, graduated>>
           /\ pc = "feedback" /\ pc' = "conflicts"
<1>1. ThesisCorrect \in BOOLEAN
  BY DEF ThesisCorrect
<1>2. Relevant \subseteq stored
  BY DEF Relevant
<1> QED
  BY <1>1, <1>2 DEF RunEvidenceFeedback

LEMMA FeedbackGrounded == Grounded /\ RunEvidenceFeedback => Grounded'
<1> SUFFICES ASSUME Grounded, RunEvidenceFeedback PROVE Grounded'
  OBVIOUS
<1> USE DEF Grounded
<1>1. PICK correct \in BOOLEAN :
        /\ principles' = [p \in Principle |->
             IF p \in Relevant THEN Outcome(principles[p], correct) ELSE principles[p]]
        /\ UNCHANGED <<stored, retired, listed, competitions, cycle, regime, heard,
                       pending, graduated>>
        /\ pc' = "conflicts"
  BY FeedbackStep
<1>2. principles' \in [Principle -> ResearchPrinciple]
  BY <1>1, OutcomeKinds DEF PrinciplesTypeOK
<1>3. \A p \in stored : principles'[p].contradictions = principles[p].contradictions
  BY <1>1, OutcomeKinds DEF PrinciplesTypeOK
<1> QED
  BY <1>1, <1>2, <1>3 DEF PrinciplesTypeOK, Enduring, Born

(* A competition is between the two it is named after, the older first.    *)
LEMMA NewCompetitionKinds ==
  ASSUME NEW p \in Principle, NEW q \in Principle
  PROVE  NewCompetition({p, q}) \in Competition /\ Pair(NewCompetition({p, q})) = {p, q}
<1> DEFINE pair == {p, q}
           a == CHOOSE x \in pair : \A y \in pair : x <= y
           b == CHOOSE x \in pair : \A y \in pair : y <= x
<1>1. p \in Nat /\ q \in Nat
  BY PrincipleStoreAssumption
<1>2. a \in pair /\ \A y \in pair : a <= y
  <2>1. \E x \in pair : \A y \in pair : x <= y
    BY <1>1
  <2> QED
    BY <2>1
<1>3. b \in pair /\ \A y \in pair : y <= b
  <2>1. \E x \in pair : \A y \in pair : y <= x
    BY <1>1
  <2> QED
    BY <2>1
<1>4. NewCompetition(pair) = [a |-> a, b |-> b, forA |-> 0, forB |-> 0, cycles |-> 0]
  BY DEF NewCompetition
<1> HIDE DEF a, b
<1>5. {a, b} = pair
  BY <1>1, <1>2, <1>3
<1> QED
  BY <1>2, <1>3, <1>4, <1>5 DEF Competition, Pair

(* Everything but the status and the rivals is the same.                   *)
SameDeeds(r, s) ==
  /\ s.cluster = r.cluster /\ s.strength = r.strength
  /\ s.observations = r.observations /\ s.regimes = r.regimes
  /\ s.contradictions = r.contradictions
  /\ s.correct = r.correct /\ s.incorrect = r.incorrect /\ s.born = r.born

LEMMA ConflictsStep ==
  ASSUME PrinciplesTypeOK, FindConflicts
  PROVE  /\ \A p \in Principle :
              /\ principles'[p] \in ResearchPrinciple
              /\ principles[p].competesWith \subseteq principles'[p].competesWith
              /\ \A q \in Principle : {p, q} \in Conflicts \ Competing
                   => q \in principles'[p].competesWith
              /\ SameDeeds(principles[p], principles'[p])
         /\ principles' \in [Principle -> ResearchPrinciple]
         /\ competitions' = competitions \cup {NewCompetition(pair) : pair \in Conflicts \ Competing}
         /\ Conflicts \subseteq {{p, q} : p \in Principle, q \in Principle}
         /\ UNCHANGED <<stored, retired, listed, cycle, regime, heard, pending, graduated>>
         /\ pc = "conflicts" /\ pc' = "frameworks"
<1> DEFINE new == Conflicts \ Competing
           rivals(p) == {q \in Principle : {p, q} \in new}
<1>1. principles' = [p \in Principle |->
          IF \E pair \in new : p \in pair
          THEN [principles[p] EXCEPT !.status = "competing", !.competesWith = @ \cup rivals(p)]
          ELSE principles[p]]
  BY DEF FindConflicts, DetectConflicts
<1>2. \A p, q \in Principle : {p, q} \in new => \E pair \in new : p \in pair
  OBVIOUS
<1> HIDE DEF new
<1>3. ASSUME NEW p \in Principle
      PROVE  /\ principles'[p] \in ResearchPrinciple
             /\ principles[p].competesWith \subseteq principles'[p].competesWith
             /\ \A q \in Principle : {p, q} \in new => q \in principles'[p].competesWith
             /\ SameDeeds(principles[p], principles'[p])
  <2>1. principles[p] \in ResearchPrinciple
    BY DEF PrinciplesTypeOK
  <2>2. CASE \E pair \in new : p \in pair
    <3>1. principles'[p] = [principles[p] EXCEPT !.status = "competing",
                                                !.competesWith = @ \cup rivals(p)]
      BY <1>1, <2>2
    <3>2. rivals(p) \subseteq Principle
      OBVIOUS
    <3> HIDE DEF rivals
    <3>3. /\ principles'[p] \in ResearchPrinciple
          /\ principles'[p].competesWith = principles[p].competesWith \cup rivals(p)
          /\ SameDeeds(principles[p], principles'[p])
      BY <2>1, <3>1, <3>2 DEF ResearchPrinciple, Status, SameDeeds
    <3> QED
      BY <3>3 DEF rivals
  <2>3. CASE ~\E pair \in new : p \in pair
    BY <1>1, <1>2, <2>1, <2>3 DEF SameDeeds
  <2> QED
    BY <2>2, <2>3
<1>4. principles' \in [Principle -> ResearchPrinciple]
  BY <1>1, <1>3
<1>5. Conflicts \subseteq {{p, q} : p \in Principle, q \in Principle}
  BY DEF Conflicts
<1>6. competitions' = competitions \cup {NewCompetition(pair) : pair \in new}
  BY DEF FindConflicts, DetectConflicts, new
<1>7. /\ UNCHANGED <<stored, retired, listed, cycle, regime, heard, pending, graduated>>
      /\ pc = "conflicts" /\ pc' = "frameworks"
  BY DEF FindConflicts, DetectConflicts
<1> QED
  BY <1>3, <1>4, <1>5, <1>6, <1>7 DEF new

LEMMA ConflictsGrounded == Grounded /\ FindConflicts => Grounded'
<1> SUFFICES ASSUME Grounded, FindConflicts PROVE Grounded'
  OBVIOUS
<1> USE DEF Grounded
<1>1. competitions' \subseteq Competition
  <2> SUFFICES ASSUME NEW pair \in Conflicts \ Competing PROVE NewCompetition(pair) \in Competition
    BY ConflictsStep DEF PrinciplesTypeOK
  <2>1. PICK p \in Principle, q \in Principle : pair = {p, q}
    BY ConflictsStep
  <2> QED
    BY <2>1, NewCompetitionKinds
<1>2. \A p \in stored : principles'[p].contradictions = principles[p].contradictions
  BY ConflictsStep DEF PrinciplesTypeOK, SameDeeds
<1> QED
  BY <1>1, <1>2, ConflictsStep DEF PrinciplesTypeOK, Enduring, Born

(* Between runs a contradiction is counted, and the tenth retires.         *)
LEMMA ContradictionStep ==
  ASSUME Grounded, NEW p \in Principle, RecordContradiction(p)
  PROVE  \E gone \in SUBSET {p} :
           LET r == [principles[p] EXCEPT !.contradictions = @ + 1] IN
           /\ p \in stored /\ pc = "idle"
           /\ r \in ResearchPrinciple
           /\ p \notin gone => r.contradictions < RetireAt
           /\ principles' = [principles EXCEPT ![p] = Judged(r)]
           /\ stored' = stored \ gone /\ retired' = retired \cup gone
           /\ listed' = Delisted(listed, gone, principles')
           /\ UNCHANGED <<competitions, pc, cycle, regime, heard, pending, graduated>>
<1> DEFINE r == [principles[p] EXCEPT !.contradictions = @ + 1]
           gone == {q \in {p} : r.contradictions >= RetireAt}
<1>1. p \in stored /\ principles[p] \in ResearchPrinciple
  BY DEF RecordContradiction, Grounded, PrinciplesTypeOK
<1>2. principles[p].contradictions \in 0..RetireAt /\ principles[p].contradictions < RetireAt
  BY <1>1 DEF ResearchPrinciple, Grounded, Enduring
<1>3. r \in ResearchPrinciple /\ r.contradictions \in 0..RetireAt
  BY <1>1, <1>2, PrincipleStoreAssumption DEF ResearchPrinciple
<1>4. /\ principles' = [principles EXCEPT ![p] = Judged(r)]
      /\ stored' = stored \ gone /\ retired' = retired \cup gone
      /\ listed' = Delisted(listed, gone, principles')
      /\ UNCHANGED <<competitions, pc, cycle, regime, heard, pending, graduated>>
      /\ pc = "idle"
  BY DEF RecordContradiction
<1>5. p \notin gone => r.contradictions < RetireAt
  BY <1>3, PrincipleStoreAssumption
<1>6. gone \in SUBSET {p}
  OBVIOUS
<1> HIDE DEF gone
<1> QED
  BY <1>1, <1>3, <1>4, <1>5, <1>6

LEMMA DelistedType ==
  ASSUME NEW index \in [Strength -> [Principle -> 0..2]], NEW ids, NEW objects
  PROVE  /\ Delisted(index, ids, objects) \in [Strength -> [Principle -> 0..2]]
         /\ \A st \in Strength, p \in Principle :
              p \notin ids => Delisted(index, ids, objects)[st][p] = index[st][p]
BY DEF Delisted

LEMMA ContradictionGrounded ==
  ASSUME Grounded, NEW p \in Principle, RecordContradiction(p)
  PROVE  Grounded'
<1> DEFINE r == [principles[p] EXCEPT !.contradictions = @ + 1]
<1>1. PICK gone \in SUBSET {p} :
           /\ p \in stored /\ r \in ResearchPrinciple
           /\ p \notin gone => r.contradictions < RetireAt
           /\ principles' = [principles EXCEPT ![p] = Judged(r)]
           /\ stored' = stored \ gone /\ retired' = retired \cup gone
           /\ listed' = Delisted(listed, gone, principles')
           /\ UNCHANGED <<competitions, pc, cycle, regime, heard, pending, graduated>>
  BY ContradictionStep
<1> HIDE DEF r
<1>2. Judged(r) \in ResearchPrinciple /\ Judged(r).contradictions = r.contradictions
  BY <1>1, JudgedKinds DEF SameRecord
<1>3. principles' \in [Principle -> ResearchPrinciple]
  BY <1>1, <1>2 DEF Grounded, PrinciplesTypeOK
<1>4. listed' \in [Strength -> [Principle -> 0..2]]
  BY <1>1, DelistedType DEF Grounded, PrinciplesTypeOK
<1>5. PrinciplesTypeOK'
  BY <1>1, <1>3, <1>4 DEF Grounded, PrinciplesTypeOK, Born
<1>6. Enduring'
  BY <1>1, <1>2 DEF Grounded, Enduring, PrinciplesTypeOK
<1> QED
  BY <1>5, <1>6 DEF Grounded

(* A score is kept for the same pair.                                      *)
LEMMA ScoredKinds ==
  ASSUME NEW c \in Competition, NEW p \in Pair(c), NEW correct \in BOOLEAN
  PROVE  /\ Scored(c, p, correct) \in Competition
         /\ Scored(c, p, correct).a = c.a /\ Scored(c, p, correct).b = c.b
<1> DEFINE forA == IF c.a = p THEN correct ELSE ~correct
           more == IF forA THEN c.forA + 1 ELSE c.forA
           less == IF forA THEN c.forB ELSE c.forB + 1
<1>1. more \in Nat /\ less \in Nat
  BY DEF Competition
<1>2. Scored(c, p, correct) = [c EXCEPT !.forA = more, !.forB = less, !.cycles = @ + 1]
  <2>1. CASE forA
    BY <2>1 DEF Scored, Competition
  <2>2. CASE ~forA
    BY <2>2 DEF Scored, Competition
  <2> QED
    BY <2>1, <2>2
<1> HIDE DEF more, less
<1>3. Scored(c, p, correct) = [a |-> c.a, b |-> c.b, forA |-> more, forB |-> less, cycles |-> c.cycles + 1]
  BY <1>2 DEF Competition
<1> QED
  BY <1>1, <1>3 DEF Competition

(* What evidence does: the undecided competitions of p stay, some of their *)
(* sides are retired together, and whoever wins forgets the loser.         *)
LEMMA EvidenceStep ==
  ASSUME PrinciplesTypeOK, RecordConflictEvidence
  PROVE  \E p \in Born, correct \in BOOLEAN, gone \in SUBSET stored :
           LET of == {c \in competitions : p \in Pair(c)}
               scored == {Scored(c, p, correct) : c \in of}
               decided == {c \in scored : Decisive(c)}
           IN
           /\ competitions' \subseteq (competitions \ of) \cup (scored \ decided)
           /\ principles' \in [Principle -> ResearchPrinciple]
           /\ \A q \in Principle :
                /\ SameDeeds(principles[q], principles'[q])
                /\ \A rival \in principles[q].competesWith :
                     \/ rival \in principles'[q].competesWith
                     \/ \E d \in decided : Winner(d) = q /\ Loser(d) = rival
           /\ stored' = stored \ gone /\ retired' = retired \cup gone
           /\ listed' = Delisted(listed, gone, principles)
           /\ UNCHANGED <<pc, cycle, regime, heard, pending, graduated>>
           /\ pc = "idle"
<1>1. PICK p \in Born, correct \in BOOLEAN : RecordEvidence(p, correct)
  BY DEF RecordConflictEvidence
<1> DEFINE of == {c \in competitions : p \in Pair(c)}
           scored == {Scored(c, p, correct) : c \in of}
           decided == {c \in scored : Decisive(c)}
           stale == {c \in scored : Stalemate(c)}
           gone == stored \cap UNION {Pair(c) : c \in stale}
           Resolving(q) == {c \in decided : q \in Pair(c)}
           Forgotten(q) == {Loser(c) : c \in {d \in decided : Winner(d) = q}}
           verdict(q, last) == Verdict(q, IF q = p THEN last ELSE CHOOSE c \in Resolving(q) : TRUE)
<1>2. /\ competitions' = (competitions \ of) \cup (scored \ (decided \cup stale))
      /\ stored' = stored \ gone
      /\ retired' = retired \cup gone
      /\ listed' = Delisted(listed, gone, principles)
  BY <1>1 DEF RecordEvidence
<1>3. \E last \in IF decided # {} THEN decided ELSE scored :
          principles' = [q \in Principle |->
            CASE q \in gone -> [principles[q] EXCEPT !.status = "retired"]
              [] q \in stored \ gone /\ Resolving(q) # {} ->
                   [principles[q] EXCEPT !.status = verdict(q, last),
                                         !.competesWith = @ \ Forgotten(q)]
              [] OTHER -> principles[q]]
  BY <1>1 DEF RecordEvidence
<1>4. PICK last :
          principles' = [q \in Principle |->
            CASE q \in gone -> [principles[q] EXCEPT !.status = "retired"]
              [] q \in stored \ gone /\ Resolving(q) # {} ->
                   [principles[q] EXCEPT !.status = verdict(q, last),
                                         !.competesWith = @ \ Forgotten(q)]
              [] OTHER -> principles[q]]
  BY <1>3
<1>5. \A q : verdict(q, last) \in Status
  BY DEF Verdict, Status
<1>6. \A q, rival : rival \in Forgotten(q) => \E d \in decided : Winner(d) = q /\ Loser(d) = rival
  OBVIOUS
<1>7. gone \in SUBSET stored /\ stored \subseteq Principle
  BY DEF PrinciplesTypeOK
<1> HIDE DEF of, scored, stale, gone, verdict, Resolving, Forgotten
<1>8. ASSUME NEW q \in Principle
      PROVE  /\ principles'[q] \in ResearchPrinciple
             /\ SameDeeds(principles[q], principles'[q])
             /\ \A rival \in principles[q].competesWith :
                  rival \in principles'[q].competesWith \/ rival \in Forgotten(q)
  <2>1. principles[q] \in ResearchPrinciple
    BY DEF PrinciplesTypeOK
  <2>2. CASE q \in gone
    <3>1. principles'[q] = [principles[q] EXCEPT !.status = "retired"]
      BY <1>4, <2>2
    <3> QED
      BY <2>1, <3>1 DEF ResearchPrinciple, Status, SameDeeds
  <2>3. CASE q \in stored \ gone /\ Resolving(q) # {}
    <3>1. principles'[q] = [principles[q] EXCEPT !.status = verdict(q, last),
                                                !.competesWith = @ \ Forgotten(q)]
      BY <1>4, <2>3
    <3>2. verdict(q, last) \in Status
      BY <1>5
    <3> QED
      BY <2>1, <3>1, <3>2 DEF ResearchPrinciple, SameDeeds
  <2>4. CASE q \notin gone /\ ~(q \in stored \ gone /\ Resolving(q) # {})
    <3>1. principles'[q] = principles[q]
      BY <1>4, <2>4
    <3> QED
      BY <2>1, <3>1 DEF SameDeeds
  <2> QED
    BY <2>2, <2>3, <2>4
<1>9. principles' \in [Principle -> ResearchPrinciple]
  BY <1>4, <1>8
<1>10. UNCHANGED <<pc, cycle, regime, heard, pending, graduated>> /\ pc = "idle"
  BY DEF RecordConflictEvidence
<1>11. competitions' \subseteq (competitions \ of) \cup (scored \ decided)
  BY <1>2
<1> HIDE DEF decided
<1>12. \A q \in Principle :
         /\ SameDeeds(principles[q], principles'[q])
         /\ \A rival \in principles[q].competesWith :
              \/ rival \in principles'[q].competesWith
              \/ \E d \in decided : Winner(d) = q /\ Loser(d) = rival
  BY <1>6, <1>8
<1> USE DEF of, scored, decided
<1> QED
  BY <1>2, <1>7, <1>9, <1>10, <1>11, <1>12

LEMMA EvidenceGrounded == Grounded /\ RecordConflictEvidence => Grounded'
<1> SUFFICES ASSUME Grounded, RecordConflictEvidence PROVE Grounded'
  OBVIOUS
<1> USE DEF Grounded
<1>1. PICK p \in Born, correct \in BOOLEAN, gone \in SUBSET stored :
        LET of == {c \in competitions : p \in Pair(c)}
            scored == {Scored(c, p, correct) : c \in of}
            decided == {c \in scored : Decisive(c)}
        IN
        /\ competitions' \subseteq (competitions \ of) \cup (scored \ decided)
        /\ principles' \in [Principle -> ResearchPrinciple]
        /\ \A q \in Principle : SameDeeds(principles[q], principles'[q])
        /\ stored' = stored \ gone /\ retired' = retired \cup gone
        /\ listed' = Delisted(listed, gone, principles)
        /\ UNCHANGED <<pc, cycle, regime, heard, pending, graduated>>
  BY EvidenceStep
<1>2. competitions' \subseteq Competition
  <2>1. \A c \in competitions : p \in Pair(c) => Scored(c, p, correct) \in Competition
    BY ScoredKinds DEF PrinciplesTypeOK
  <2> QED
    BY <1>1, <2>1 DEF PrinciplesTypeOK
<1>3. listed' \in [Strength -> [Principle -> 0..2]]
  BY <1>1, DelistedType DEF PrinciplesTypeOK
<1>4. PrinciplesTypeOK'
  BY <1>1, <1>2, <1>3 DEF PrinciplesTypeOK, Born
<1>5. Enduring'
  BY <1>1 DEF Enduring, SameDeeds, PrinciplesTypeOK
<1> QED
  BY <1>4, <1>5

LEMMA GroundedStep == Grounded /\ [EvolutionNext]_evolutionVars => Grounded'
<1> SUFFICES ASSUME Grounded, [EvolutionNext]_evolutionVars PROVE Grounded'
  OBVIOUS
<1>1. CASE EvolveFrameworks \/ RecordFrameworkAccuracy \/ UNCHANGED evolutionVars
  <2>1. /\ UNCHANGED <<principles, stored, retired, listed, competitions,
                       cycle, regime, heard, pending, graduated>>
        /\ pc' \in {pc, "idle"}
    BY <1>1 DEF EvolveFrameworks, RecordFrameworkAccuracy, evolutionVars
  <2> QED
    BY <2>1 DEF Grounded, PrinciplesTypeOK, Enduring, Born
<1>2. CASE \E p \in Principle : RecordContradiction(p)
  BY <1>2, ContradictionGrounded
<1> QED
  BY <1>1, <1>2, ProcessGrounded, ExtractGrounded, LifecycleGrounded, FeedbackGrounded,
     ConflictsGrounded, EvidenceGrounded DEF EvolutionNext

(* EvolutionPipeline.run and the stores it changes keep their types.       *)
THEOREM GroundedAlways == EvolutionSpec => []Grounded
<1>1. EvolutionInit => Grounded
  BY InitGrounded
<1>2. Grounded /\ [EvolutionNext]_evolutionVars => Grounded'
  BY GroundedStep
<1> QED
  BY <1>1, <1>2, PTL DEF EvolutionSpec

-----------------------------------------------------------------------------
(* The steps that leave every principle its rank and its record            *)

SameStanding(r, s) ==
  /\ s.cluster = r.cluster /\ s.strength = r.strength
  /\ s.observations = r.observations /\ s.regimes = r.regimes
  /\ s.correct = r.correct /\ s.incorrect = r.incorrect /\ s.born = r.born

Working == pc \in {"extract", "lifecycle", "feedback"}

Quiet ==
  /\ \A p \in Principle : SameStanding(principles[p], principles'[p])
  /\ stored' \subseteq stored /\ Born' = Born
  /\ \A p \in stored', st \in Strength : listed'[st][p] = listed[st][p]
  /\ UNCHANGED <<cycle, pending, graduated>>
  /\ ~Working' \/ pc' = pc

LEMMA QuietSteps ==
  ASSUME Grounded, [EvolutionNext]_evolutionVars,
         ~ProcessFindings, ~ExtractPrinciples, ~EvaluateLifecycle, ~RunEvidenceFeedback
  PROVE  Quiet
<1> USE DEF Grounded
<1>1. CASE FindConflicts
  BY <1>1, ConflictsStep DEF Quiet, SameDeeds, SameStanding, Working, Born
<1>2. CASE EvolveFrameworks \/ RecordFrameworkAccuracy \/ UNCHANGED evolutionVars
  <2>1. /\ UNCHANGED <<principles, stored, retired, listed, cycle, pending, graduated>>
        /\ pc' \in {pc, "idle"}
    BY <1>2 DEF EvolveFrameworks, RecordFrameworkAccuracy, evolutionVars
  <2> QED
    BY <2>1 DEF Quiet, SameStanding, Working, Born
<1>3. CASE \E p \in Principle : RecordContradiction(p)
  <2>1. PICK p \in Principle : RecordContradiction(p)
    BY <1>3
  <2> DEFINE r == [principles[p] EXCEPT !.contradictions = @ + 1]
  <2>2. PICK gone \in SUBSET {p} :
           /\ p \in stored /\ r \in ResearchPrinciple
           /\ principles' = [principles EXCEPT ![p] = Judged(r)]
           /\ stored' = stored \ gone /\ retired' = retired \cup gone
           /\ listed' = Delisted(listed, gone, principles')
           /\ UNCHANGED <<pc, cycle, pending, graduated>>
    BY <2>1, ContradictionStep
  <2>3. SameStanding(principles[p], r)
    BY DEF SameStanding, PrinciplesTypeOK, ResearchPrinciple
  <2> HIDE DEF r
  <2>4. SameStanding(principles[p], Judged(r))
    BY <2>2, <2>3, JudgedKinds DEF SameStanding, SameRecord
  <2>5. \A q \in Principle : SameStanding(principles[q], principles'[q])
    BY <2>2, <2>4 DEF SameStanding, PrinciplesTypeOK
  <2>6. \A q \in stored', st \in Strength : listed'[st][q] = listed[st][q]
    BY <2>2, DelistedType DEF PrinciplesTypeOK
  <2> QED
    BY <2>2, <2>5, <2>6 DEF Quiet, Born
<1>4. CASE RecordConflictEvidence
  <2>1. PICK gone \in SUBSET stored :
           /\ \A q \in Principle : SameDeeds(principles[q], principles'[q])
           /\ stored' = stored \ gone /\ retired' = retired \cup gone
           /\ listed' = Delisted(listed, gone, principles)
           /\ UNCHANGED <<pc, cycle, pending, graduated>>
    BY <1>4, EvidenceStep
  <2>2. \A q \in stored', st \in Strength : listed'[st][q] = listed[st][q]
    BY <2>1, DelistedType DEF PrinciplesTypeOK
  <2> QED
    BY <2>1, <2>2 DEF Quiet, Born, SameDeeds, SameStanding
<1> QED
  BY <1>1, <1>2, <1>3, <1>4 DEF EvolutionNext

-----------------------------------------------------------------------------
(* Ranks and ages *)

Graded == RankEarned /\ Aged

LEMMA QuietGraded == Grounded /\ Graded /\ Quiet => Graded'
<1> SUFFICES ASSUME Grounded, Graded, Quiet PROVE Graded'
  OBVIOUS
<1>1. Born \subseteq Principle /\ cycle \in Nat
  BY EvolutionAssumption DEF Grounded, PrinciplesTypeOK, Born
<1>2. RankEarned'
  BY <1>1 DEF Graded, RankEarned, Quiet, SameStanding
<1>3. Aged'
  <2> SUFFICES ASSUME NEW p \in Born
      PROVE LET r == principles'[p] IN
            /\ r.born <= cycle
            /\ pc' \in {"extract", "lifecycle"} /\ r.strength = "validated"
                 => cycle - r.born >= CandidateCycles + 1
    BY DEF Aged, Quiet
  <2>1. /\ SameStanding(principles[p], principles'[p])
        /\ principles[p] \in ResearchPrinciple
    BY <1>1 DEF Quiet, Grounded, PrinciplesTypeOK
  <2>2. /\ principles[p].born \in Nat /\ principles[p].correct \in Nat
        /\ principles[p].incorrect \in Nat
    BY <2>1 DEF ResearchPrinciple
  <2> QED
    BY <1>1, <2>1, <2>2 DEF Graded, Aged, Quiet, SameStanding, Working
<1> QED
  BY <1>2, <1>3 DEF Graded

LEMMA ProcessGraded == Grounded /\ Graded /\ ProcessFindings => Graded'
<1> SUFFICES ASSUME Grounded, Graded, ProcessFindings PROVE Graded'
  OBVIOUS
<1>1. /\ UNCHANGED <<principles, stored, retired>> /\ Born' = Born
      /\ cycle' = cycle + 1 /\ pc = "idle" /\ pc' = "extract"
  BY DEF ProcessFindings, Born
<1>2. ASSUME NEW p \in Born
      PROVE  /\ principles[p].born \in Nat /\ principles[p].correct \in Nat
             /\ principles[p].incorrect \in Nat /\ cycle \in Nat
  BY EvolutionAssumption DEF Grounded, PrinciplesTypeOK, Born, ResearchPrinciple
<1>3. RankEarned'
  BY <1>1, <1>2, PrincipleStoreAssumption DEF Graded, RankEarned
<1>4. Aged'
  <2> SUFFICES ASSUME NEW p \in Born
      PROVE LET r == principles'[p] IN
            /\ r.born <= cycle'
            /\ r.strength = "validated" => cycle' - r.born >= CandidateCycles + 1
    BY <1>1 DEF Aged
  <2> QED
    BY <1>1, <1>2, PrincipleStoreAssumption DEF Graded, RankEarned, Aged
<1> QED
  BY <1>3, <1>4 DEF Graded

LEMMA ExtractGraded == Grounded /\ Graded /\ ExtractPrinciples => Graded'
<1> SUFFICES ASSUME Grounded, Graded, ExtractPrinciples PROVE Graded'
  OBVIOUS
<1> USE DEF Grounded
<1>1. PICK told \in Extractions :
           /\ principles' = [p \in Principle |-> Extracted(told, p)]
           /\ stored' = stored \cup Touched(told)
           /\ Touched(told) \subseteq Principle \ retired
           /\ UNCHANGED <<retired, cycle>>
           /\ pc = "extract" /\ pc' = "lifecycle"
  BY ExtractStep
<1>2. cycle \in Nat
  BY EvolutionAssumption DEF PrinciplesTypeOK
<1>3. ASSUME NEW p \in Born'
      PROVE  /\ p \in Principle /\ principles[p] \in ResearchPrinciple
             /\ principles'[p] \in ResearchPrinciple
             /\ \/ p \in Born /\ principles'[p] = principles[p]
                \/ p \in Born /\ Gains(principles[p], principles'[p])
                \/ Newborn(principles'[p])
  BY <1>1, ExtractedKinds DEF Born, PrinciplesTypeOK
<1>4. RankEarned'
  <2> SUFFICES ASSUME NEW p \in Born', principles'[p].strength # "candidate"
      PROVE  LET r == principles'[p] IN
             /\ cycle - r.born >= CandidateCycles
             /\ r.observations >= ValidatedObservations
             /\ r.strength = "mature" =>
                  /\ cycle - r.born >= CandidateCycles + 1
                  /\ Cardinality(r.regimes) >= MatureRegimes
                  /\ r.observations >= MatureObservations
    BY <1>1 DEF RankEarned
  <2>1. CASE p \in Born /\ principles'[p] = principles[p]
    BY <2>1 DEF Graded, RankEarned
  <2>2. CASE p \in Born /\ Gains(principles[p], principles'[p])
    <3> DEFINE r == principles[p]
               s == principles'[p]
    <3>1. r \in ResearchPrinciple /\ s \in ResearchPrinciple
      BY <1>3
    <3> HIDE DEF r, s
    <3>2. Gains(r, s)
      BY <2>2 DEF r, s
    <3>3. /\ r.regimes \in SUBSET Regime /\ s.regimes \in SUBSET Regime
          /\ r.observations \in Int /\ s.observations \in Int
      BY <3>1, PrincipleStoreAssumption DEF ResearchPrinciple
    <3>4. /\ Cardinality(r.regimes) \in Nat /\ Cardinality(s.regimes) \in Nat
          /\ Cardinality(r.regimes) <= Cardinality(s.regimes)
          /\ r.observations <= s.observations
          /\ s.born = r.born /\ s.strength = r.strength
      BY <3>2, <3>3, RegimesFinite DEF Gains
    <3>5. /\ cycle - r.born >= CandidateCycles
          /\ r.observations >= ValidatedObservations
          /\ r.strength = "mature" =>
               /\ cycle - r.born >= CandidateCycles + 1
               /\ Cardinality(r.regimes) >= MatureRegimes
               /\ r.observations >= MatureObservations
      BY <2>2, <3>4 DEF Graded, RankEarned, r, s
    <3>6. /\ cycle - s.born >= CandidateCycles
          /\ s.observations >= ValidatedObservations
          /\ s.strength = "mature" =>
               /\ cycle - s.born >= CandidateCycles + 1
               /\ Cardinality(s.regimes) >= MatureRegimes
               /\ s.observations >= MatureObservations
      BY <3>3, <3>4, <3>5, PrincipleStoreAssumption
    <3> QED
      BY <3>6 DEF s
  <2>3. CASE Newborn(principles'[p])
    BY <2>3 DEF Newborn
  <2> QED
    BY <1>3, <2>1, <2>2, <2>3
<1>5. Aged'
  <2> SUFFICES ASSUME NEW p \in Born'
      PROVE  LET r == principles'[p] IN
             /\ r.born <= cycle
             /\ r.strength = "validated" => cycle - r.born >= CandidateCycles + 1
    BY <1>1 DEF Aged
  <2>1. CASE p \in Born /\ principles'[p] = principles[p]
    BY <1>1, <2>1 DEF Graded, Aged
  <2>2. CASE p \in Born /\ Gains(principles[p], principles'[p])
    BY <1>1, <2>2 DEF Graded, Aged, Gains
  <2>3. CASE Newborn(principles'[p])
    BY <1>2, <2>3 DEF Newborn
  <2> QED
    BY <1>3, <2>1, <2>2, <2>3
<1> QED
  BY <1>4, <1>5 DEF Graded

LEMMA LifecycleGraded == Grounded /\ Graded /\ EvaluateLifecycle => Graded'
<1> SUFFICES ASSUME Grounded, Graded, EvaluateLifecycle PROVE Graded'
  OBVIOUS
<1>1. /\ Born' = Born /\ Born \subseteq Principle /\ stored \subseteq Born
      /\ cycle' = cycle /\ cycle \in Nat /\ pc = "lifecycle" /\ pc' = "feedback"
  BY LifecycleStep, EvolutionAssumption DEF Born, Grounded, PrinciplesTypeOK
<1>2. ASSUME NEW p \in Born
      PROVE  LET r == principles[p]
                 s == principles'[p]
             IN /\ r \in ResearchPrinciple /\ SameRecord(r, s)
                /\ \/ s.strength = r.strength
                   \/ Graduates(r, cycle) /\ s.strength = "validated"
                   \/ Matures(r) /\ s.strength = "mature"
  <2>1. principles[p] \in ResearchPrinciple
    BY <1>1 DEF Grounded, PrinciplesTypeOK
  <2>2. CASE p \notin stored
    BY <1>1, <2>1, <2>2, LifecycleStep DEF SameRecord
  <2>3. CASE p \in stored
    <3>1. principles'[p] = Judged(Promoted(principles[p], cycle))
      BY <2>3, LifecycleStep
    <3>2. /\ Promoted(principles[p], cycle) \in ResearchPrinciple
          /\ SameRecord(principles[p], Promoted(principles[p], cycle))
      BY <1>1, <2>1, PromotedKinds
    <3>3. /\ SameRecord(Promoted(principles[p], cycle), principles'[p])
          /\ principles'[p].strength = Promoted(principles[p], cycle).strength
      BY <3>1, <3>2, JudgedKinds
    <3>4. SameRecord(principles[p], principles'[p])
      BY <3>2, <3>3 DEF SameRecord
    <3> QED
      BY <1>1, <2>1, <3>3, <3>4, PromotedKinds
  <2> QED
    BY <2>2, <2>3
<1>3. RankEarned'
  <2> SUFFICES ASSUME NEW p \in Born, principles'[p].strength # "candidate"
      PROVE  LET r == principles'[p] IN
             /\ cycle - r.born >= CandidateCycles
             /\ r.observations >= ValidatedObservations
             /\ r.strength = "mature" =>
                  /\ cycle - r.born >= CandidateCycles + 1
                  /\ Cardinality(r.regimes) >= MatureRegimes
                  /\ r.observations >= MatureObservations
    BY <1>1 DEF RankEarned
  <2> DEFINE r == principles[p]
             s == principles'[p]
  <2>1. /\ s.born = r.born /\ s.regimes = r.regimes /\ s.observations = r.observations
        /\ \/ s.strength = r.strength
           \/ Graduates(r, cycle) /\ s.strength = "validated"
           \/ Matures(r) /\ s.strength = "mature"
    BY <1>2 DEF SameRecord
  <2>2. CASE s.strength = r.strength
    BY <1>1, <2>1, <2>2 DEF Graded, RankEarned
  <2>3. CASE Graduates(r, cycle) /\ s.strength = "validated"
    BY <2>1, <2>3 DEF Graduates
  <2>4. CASE Matures(r) /\ s.strength = "mature"
    <3>1. r.strength = "validated"
      BY <2>4 DEF Matures
    <3>2. /\ cycle - r.born >= CandidateCycles
          /\ r.observations >= ValidatedObservations
      BY <3>1 DEF Graded, RankEarned
    <3>3. cycle - r.born >= CandidateCycles + 1
      BY <1>1, <3>1 DEF Graded, Aged
    <3> QED
      BY <2>1, <2>4, <3>2, <3>3 DEF Matures
  <2> QED
    BY <2>1, <2>2, <2>3, <2>4
<1>4. Aged'
  BY <1>1, <1>2 DEF Graded, Aged, SameRecord
<1> QED
  BY <1>3, <1>4 DEF Graded

LEMMA FeedbackGraded == Grounded /\ Graded /\ RunEvidenceFeedback => Graded'
<1> SUFFICES ASSUME Grounded, Graded, RunEvidenceFeedback PROVE Graded'
  OBVIOUS
<1>1. PICK correct \in BOOLEAN :
        /\ principles' = [p \in Principle |->
             IF p \in Relevant THEN Outcome(principles[p], correct) ELSE principles[p]]
        /\ UNCHANGED <<stored, retired, cycle>>
        /\ pc = "feedback" /\ pc' = "conflicts"
  BY FeedbackStep DEF Grounded
<1>2. Born' = Born /\ Born \subseteq Principle /\ cycle \in Nat
  BY <1>1, EvolutionAssumption DEF Born, Grounded, PrinciplesTypeOK
<1>3. ASSUME NEW p \in Born
      PROVE  LET r == principles[p]
                 s == principles'[p]
             IN /\ r \in ResearchPrinciple /\ s \in ResearchPrinciple
                /\ s.strength = r.strength /\ s.born = r.born /\ s.regimes = r.regimes
                /\ s.observations >= r.observations
  <2>1. principles[p] \in ResearchPrinciple
    BY <1>2 DEF Grounded, PrinciplesTypeOK
  <2>2. CASE p \in Relevant
    <3>1. principles'[p] = Outcome(principles[p], correct)
      BY <1>1, <1>2, <2>2
    <3>2. /\ Outcome(principles[p], correct) \in ResearchPrinciple
          /\ Outcome(principles[p], correct).strength = principles[p].strength
          /\ Outcome(principles[p], correct).born = principles[p].born
          /\ Outcome(principles[p], correct).regimes = principles[p].regimes
          /\ Outcome(principles[p], correct).observations >= principles[p].observations
          /\ Outcome(principles[p], correct).correct + Outcome(principles[p], correct).incorrect
               = principles[p].correct + principles[p].incorrect + 1
      BY <2>1, OutcomeKinds
    <3>3. principles[p].correct \in Nat /\ principles[p].incorrect \in Nat
      BY <2>1 DEF ResearchPrinciple
    <3> QED
      BY <2>1, <3>1, <3>2, <3>3
  <2>3. CASE p \notin Relevant
    <3>1. principles'[p] = principles[p]
      BY <1>1, <1>2, <2>3
    <3> QED
      BY <2>1, <3>1, PrincipleStoreAssumption DEF ResearchPrinciple
  <2> QED
    BY <2>2, <2>3
<1>4. RankEarned'
  <2> SUFFICES ASSUME NEW p \in Born, principles'[p].strength # "candidate"
      PROVE  LET r == principles'[p] IN
             /\ cycle - r.born >= CandidateCycles
             /\ r.observations >= ValidatedObservations
             /\ r.strength = "mature" =>
                  /\ cycle - r.born >= CandidateCycles + 1
                  /\ Cardinality(r.regimes) >= MatureRegimes
                  /\ r.observations >= MatureObservations
    BY <1>1, <1>2 DEF RankEarned
  <2>1. principles[p].observations \in Int /\ principles'[p].observations \in Int
    BY <1>3, PrincipleStoreAssumption DEF ResearchPrinciple
  <2> QED
    BY <1>3, <2>1, PrincipleStoreAssumption DEF Graded, RankEarned
<1>5. Aged'
  BY <1>1, <1>2, <1>3 DEF Graded, Aged
<1> QED
  BY <1>4, <1>5 DEF Graded

LEMMA InitGraded == EvolutionInit => Graded
BY DEF EvolutionInit, PrincipleInit, Graded, RankEarned, Aged, Born

LEMMA GradedStep ==
  Grounded /\ Graded /\ [EvolutionNext]_evolutionVars => Graded'
BY QuietSteps, QuietGraded, ProcessGraded, ExtractGraded, LifecycleGraded, FeedbackGraded

(* However often a run tells, grades, promotes or retires it, a principle  *)
(* of some strength has lived and seen what the strength requires.         *)
THEOREM RankEarnedAlways == EvolutionSpec => []RankEarned
<1>1. EvolutionInit => Grounded /\ Graded
  BY InitGrounded, InitGraded
<1>2. Grounded /\ Graded /\ [EvolutionNext]_evolutionVars => Grounded' /\ Graded'
  BY GroundedStep, GradedStep
<1>3. Graded => RankEarned
  BY DEF Graded
<1> QED
  BY <1>1, <1>2, <1>3, PTL DEF EvolutionSpec

-----------------------------------------------------------------------------
(* The index, the candidate manager, and claims                            *)

LEMMA IndexStep ==
  Grounded /\ IndexComplete /\ [EvolutionNext]_evolutionVars => IndexComplete'
<1> SUFFICES ASSUME Grounded, IndexComplete, [EvolutionNext]_evolutionVars, NEW p \in stored'
    PROVE  listed'[principles'[p].strength][p] > 0
  BY DEF IndexComplete
<1> USE DEF Grounded
<1>1. CASE ProcessFindings
  BY <1>1 DEF ProcessFindings, IndexComplete
<1>2. CASE ExtractPrinciples
  <2>1. PICK told \in Extractions :
           /\ principles' = [q \in Principle |-> Extracted(told, q)]
           /\ stored' = stored \cup Touched(told)
           /\ Touched(told) \subseteq Principle
           /\ listed' = Saved(listed, Touched(told), principles')
    BY <1>2, ExtractStep
  <2>2. p \in Principle /\ principles'[p] = Extracted(told, p)
    BY <2>1 DEF PrinciplesTypeOK
  <2>3. principles'[p].strength \in Strength
    BY <2>2, ExtractedKinds DEF ResearchPrinciple
  <2> DEFINE st == principles'[p].strength
  <2>4. CASE p \in Touched(told)
    <3>1. listed'[st][p] = ListedAgain(listed[st][p])
      BY <2>1, <2>2, <2>3, <2>4 DEF Saved
    <3> QED
      BY <3>1 DEF ListedAgain
  <2>5. CASE p \notin Touched(told)
    <3>1. p \in stored /\ principles'[p] = principles[p]
      BY <2>1, <2>2, <2>5, ExtractedKinds
    <3>2. listed'[st][p] = listed[st][p]
      BY <2>1, <2>2, <2>3, <2>5 DEF Saved
    <3> QED
      BY <3>1, <3>2 DEF IndexComplete
  <2> QED
    BY <2>4, <2>5
<1>3. CASE EvaluateLifecycle
  <2>1. p \in stored /\ p \in Principle /\ stored' = stored
    BY <1>3, LifecycleStep DEF PrinciplesTypeOK
  <2>2. principles'[p].strength \in Strength
    BY <1>3, <2>1, LifecycleStep DEF ResearchPrinciple
  <2>3. CASE p \in Climbers
    BY <1>3, <2>1, <2>2, <2>3, LifecycleStep
  <2>4. CASE p \notin Climbers
    <3>1. principles[p] \in ResearchPrinciple /\ cycle \in Nat
      BY <2>1, EvolutionAssumption DEF PrinciplesTypeOK
    <3>2. ~Graduates(principles[p], cycle) /\ ~Matures(principles[p])
      BY <2>1, <2>4 DEF Climbers
    <3>3. principles'[p] = Judged(Promoted(principles[p], cycle))
      BY <1>3, <2>1, LifecycleStep
    <3>4. principles'[p].strength = principles[p].strength
      BY <3>1, <3>2, <3>3, PromotedKinds, JudgedKinds
    <3>5. listed'[principles'[p].strength][p] = listed[principles'[p].strength][p]
      BY <1>3, <2>1, <2>2, <2>4, LifecycleStep
    <3> QED
      BY <2>1, <3>4, <3>5 DEF IndexComplete
  <2> QED
    BY <2>3, <2>4
<1>4. CASE RunEvidenceFeedback
  <2>1. PICK correct \in BOOLEAN :
        /\ principles' = [q \in Principle |->
             IF q \in Relevant THEN Outcome(principles[q], correct) ELSE principles[q]]
        /\ UNCHANGED <<stored, listed>>
    BY <1>4, FeedbackStep
  <2>2. p \in stored /\ p \in Principle /\ principles[p] \in ResearchPrinciple
    BY <2>1 DEF PrinciplesTypeOK
  <2>3. principles'[p].strength = principles[p].strength
    BY <2>1, <2>2, OutcomeKinds
  <2> QED
    BY <2>1, <2>2, <2>3 DEF IndexComplete
<1>5. CASE Quiet
  <2>1. p \in stored /\ p \in Principle
    BY <1>5 DEF Quiet, PrinciplesTypeOK
  <2>2. principles'[p].strength = principles[p].strength /\ principles[p].strength \in Strength
    BY <1>5, <2>1 DEF Quiet, SameStanding, PrinciplesTypeOK, ResearchPrinciple
  <2> QED
    BY <1>5, <2>1, <2>2 DEF Quiet, IndexComplete
<1> QED
  BY <1>1, <1>2, <1>3, <1>4, <1>5, QuietSteps

(* The scan for conflicts misses no stored principle.                      *)
THEOREM IndexCompleteAlways == EvolutionSpec => []IndexComplete
<1>1. EvolutionInit => Grounded /\ IndexComplete
  <2>1. EvolutionInit => IndexComplete
    BY DEF EvolutionInit, PrincipleInit, IndexComplete
  <2> QED
    BY <2>1, InitGrounded
<1>2. Grounded /\ IndexComplete /\ [EvolutionNext]_evolutionVars => Grounded' /\ IndexComplete'
  BY GroundedStep, IndexStep
<1> QED
  BY <1>1, <1>2, PTL DEF EvolutionSpec

LEMMA TrackedStep ==
  Grounded /\ CandidatesTracked /\ [EvolutionNext]_evolutionVars => CandidatesTracked'
<1> SUFFICES ASSUME Grounded, CandidatesTracked, [EvolutionNext]_evolutionVars
    PROVE  CandidatesTracked'
  OBVIOUS
<1> USE DEF Grounded
<1>0. \A p \in stored : /\ p \in pending <=> principles[p].strength = "candidate"
                        /\ p \in graduated <=> principles[p].strength # "candidate"
  BY DEF CandidatesTracked
<1> SUFFICES ASSUME NEW p \in stored'
    PROVE  /\ p \in pending' <=> principles'[p].strength = "candidate"
           /\ p \in graduated' <=> principles'[p].strength # "candidate"
  BY DEF CandidatesTracked
<1>1. CASE ProcessFindings
  BY <1>0, <1>1 DEF ProcessFindings
<1>2. CASE ExtractPrinciples
  <2>1. PICK told \in Extractions :
           /\ principles' = [q \in Principle |-> Extracted(told, q)]
           /\ stored' = stored \cup Touched(told)
           /\ Touched(told) \subseteq Principle \ retired
           /\ pending' = pending \cup (Touched(told) \ stored)
           /\ graduated' = graduated
    BY <1>2, ExtractStep
  <2>2. p \in Principle /\ principles'[p] = Extracted(told, p)
    BY <2>1 DEF PrinciplesTypeOK
  <2>3. CASE p \notin Touched(told)
    <3>1. p \in stored /\ principles'[p] = principles[p]
      BY <2>1, <2>2, <2>3, ExtractedKinds
    <3> QED
      BY <1>0, <2>1, <3>1
  <2>4. CASE p \in Touched(told) /\ p \in stored
    <3>1. Gains(principles[p], principles'[p])
      BY <2>2, <2>4, ExtractedKinds
    <3> QED
      BY <1>0, <2>1, <2>4, <3>1 DEF Gains
  <2>5. CASE p \in Touched(told) /\ p \notin stored
    <3>1. p \notin Born /\ Newborn(principles'[p])
      BY <2>2, <2>5, ExtractedKinds
    <3>2. p \notin graduated
      BY <3>1 DEF PrinciplesTypeOK
    <3> QED
      BY <2>1, <2>5, <3>1, <3>2 DEF Newborn
  <2> QED
    BY <2>3, <2>4, <2>5
<1>3. CASE EvaluateLifecycle
  <2> DEFINE promoted == {q \in stored : Graduates(principles[q], cycle)}
  <2>1. /\ p \in stored /\ stored' = stored
        /\ pending' = pending \ promoted /\ graduated' = graduated \cup (promoted \cap pending)
        /\ principles'[p] = Judged(Promoted(principles[p], cycle))
    BY <1>3, LifecycleStep
  <2>2. principles[p] \in ResearchPrinciple /\ cycle \in Nat
    BY <2>1, EvolutionAssumption DEF PrinciplesTypeOK
  <2>3. principles'[p].strength = Promoted(principles[p], cycle).strength
    BY <2>1, <2>2, PromotedKinds, JudgedKinds
  <2>4. CASE Graduates(principles[p], cycle)
    <3>1. principles[p].strength = "candidate" /\ principles'[p].strength = "validated"
      BY <2>2, <2>3, <2>4, PromotedKinds
    <3>2. p \in promoted /\ p \in pending
      BY <1>0, <2>1, <2>4, <3>1
    <3> HIDE DEF promoted
    <3> QED
      BY <2>1, <3>1, <3>2
  <2>5. CASE ~Graduates(principles[p], cycle)
    <3>1. principles'[p].strength = "candidate" <=> principles[p].strength = "candidate"
      BY <2>2, <2>3, <2>5, PromotedKinds
    <3>2. p \notin promoted
      BY <2>5
    <3> HIDE DEF promoted
    <3> QED
      BY <1>0, <2>1, <3>1, <3>2
  <2> QED
    BY <2>4, <2>5
<1>4. CASE RunEvidenceFeedback
  <2>1. PICK correct \in BOOLEAN :
        /\ principles' = [q \in Principle |->
             IF q \in Relevant THEN Outcome(principles[q], correct) ELSE principles[q]]
        /\ UNCHANGED <<stored, pending, graduated>>
    BY <1>4, FeedbackStep
  <2>2. p \in stored /\ p \in Principle /\ principles[p] \in ResearchPrinciple
    BY <2>1 DEF PrinciplesTypeOK
  <2>3. principles'[p].strength = principles[p].strength
    BY <2>1, <2>2, OutcomeKinds
  <2> QED
    BY <1>0, <2>1, <2>2, <2>3
<1>5. CASE Quiet
  <2>1. p \in stored /\ p \in Principle
    BY <1>5 DEF Quiet, PrinciplesTypeOK
  <2>2. principles'[p].strength = principles[p].strength
    BY <1>5, <2>1 DEF Quiet, SameStanding
  <2> QED
    BY <1>0, <1>5, <2>1, <2>2 DEF Quiet
<1> QED
  BY <1>1, <1>2, <1>3, <1>4, <1>5, QuietSteps

(* The candidate manager and the store agree on who is a candidate.        *)
THEOREM CandidatesTrackedAlways == EvolutionSpec => []CandidatesTracked
<1>1. EvolutionInit => Grounded /\ CandidatesTracked
  <2>1. EvolutionInit => CandidatesTracked
    BY DEF EvolutionInit, PrincipleInit, CandidatesTracked
  <2> QED
    BY <2>1, InitGrounded
<1>2. Grounded /\ CandidatesTracked /\ [EvolutionNext]_evolutionVars
        => Grounded' /\ CandidatesTracked'
  BY GroundedStep, TrackedStep
<1> QED
  BY <1>1, <1>2, PTL DEF EvolutionSpec

(* No step changes the cluster or the birth of a stored principle; a new   *)
(* one makes a claim that no stored one makes.                             *)
LEMMA BirthStep ==
  ASSUME Grounded, [EvolutionNext]_evolutionVars
  PROVE  /\ cycle \in Nat /\ stored \subseteq Principle
         /\ \A p \in stored' :
              /\ p \in Principle
              /\ \/ /\ p \in stored
                    /\ principles'[p].cluster = principles[p].cluster
                    /\ principles'[p].born = principles[p].born
                 \/ p \notin stored /\ Newborn(principles'[p])
<1> SUFFICES ASSUME NEW p \in stored'
    PROVE  /\ p \in Principle
           /\ \/ /\ p \in stored
                 /\ principles'[p].cluster = principles[p].cluster
                 /\ principles'[p].born = principles[p].born
              \/ p \notin stored /\ Newborn(principles'[p])
  BY EvolutionAssumption DEF Grounded, PrinciplesTypeOK
<1> USE DEF Grounded
<1>0. p \in Principle
  BY GroundedStep DEF PrinciplesTypeOK
<1>1. CASE ProcessFindings
  BY <1>0, <1>1 DEF ProcessFindings
<1>2. CASE ExtractPrinciples
  <2>1. PICK told \in Extractions :
           /\ principles' = [q \in Principle |-> Extracted(told, q)]
           /\ stored' = stored \cup Touched(told)
    BY <1>2, ExtractStep
  <2>2. principles'[p] = Extracted(told, p)
    BY <1>0, <2>1
  <2> QED
    BY <1>0, <2>1, <2>2, ExtractedKinds DEF Gains
<1>3. CASE EvaluateLifecycle
  <2>1. p \in stored /\ principles'[p] = Judged(Promoted(principles[p], cycle))
    BY <1>3, LifecycleStep
  <2>2. principles[p] \in ResearchPrinciple /\ cycle \in Nat
    BY <1>0, EvolutionAssumption DEF PrinciplesTypeOK
  <2> QED
    BY <1>0, <2>1, <2>2, PromotedKinds, JudgedKinds DEF SameRecord
<1>4. CASE RunEvidenceFeedback
  <2>1. PICK correct \in BOOLEAN :
        /\ principles' = [q \in Principle |->
             IF q \in Relevant THEN Outcome(principles[q], correct) ELSE principles[q]]
        /\ UNCHANGED stored
    BY <1>4, FeedbackStep
  <2>2. p \in stored /\ principles[p] \in ResearchPrinciple
    BY <1>0, <2>1 DEF PrinciplesTypeOK
  <2> QED
    BY <1>0, <2>1, <2>2, OutcomeKinds
<1>5. CASE Quiet
  BY <1>0, <1>5 DEF Quiet, SameStanding
<1> QED
  BY <1>1, <1>2, <1>3, <1>4, <1>5, QuietSteps

LEMMA TwinsStep ==
  Grounded /\ TwinsAreBornTogether /\ [EvolutionNext]_evolutionVars => TwinsAreBornTogether'
<1> SUFFICES ASSUME Grounded, TwinsAreBornTogether, [EvolutionNext]_evolutionVars,
                    NEW p \in stored', NEW q \in stored',
                    DomainOf[principles'[p].cluster] = DomainOf[principles'[q].cluster],
                    ClaimOf[principles'[p].cluster] = ClaimOf[principles'[q].cluster]
    PROVE  principles'[p].born = principles'[q].born
  BY DEF TwinsAreBornTogether, DomainFor, ClaimFor
<1> DEFINE Held(r) == /\ r \in stored /\ principles'[r].cluster = principles[r].cluster
                      /\ principles'[r].born = principles[r].born
<1>1. Held(p) \/ Newborn(principles'[p])
  BY BirthStep
<1>2. Held(q) \/ Newborn(principles'[q])
  BY BirthStep
<1>3. CASE Held(p) /\ Held(q)
  BY <1>3 DEF TwinsAreBornTogether, DomainFor, ClaimFor
<1>4. CASE Newborn(principles'[p]) /\ Newborn(principles'[q])
  BY <1>4 DEF Newborn
<1>5. CASE Newborn(principles'[p]) /\ Held(q)
  BY <1>5 DEF Newborn, DomainFor, ClaimFor
<1>6. CASE Held(p) /\ Newborn(principles'[q])
  BY <1>6 DEF Newborn, DomainFor, ClaimFor
<1> QED
  BY <1>1, <1>2, <1>3, <1>4, <1>5, <1>6

(* Two principles with one claim are of one and the same run.              *)
THEOREM TwinsAreBornTogetherAlways == EvolutionSpec => []TwinsAreBornTogether
<1>1. EvolutionInit => Grounded /\ TwinsAreBornTogether
  <2>1. EvolutionInit => TwinsAreBornTogether
    BY DEF EvolutionInit, PrincipleInit, TwinsAreBornTogether
  <2> QED
    BY <2>1, InitGrounded
<1>2. Grounded /\ TwinsAreBornTogether /\ [EvolutionNext]_evolutionVars
        => Grounded' /\ TwinsAreBornTogether'
  BY GroundedStep, TwinsStep
<1> QED
  BY <1>1, <1>2, PTL DEF EvolutionSpec

-----------------------------------------------------------------------------
(* Conflicts *)

Rivals == OnePerPair /\ RivalsKnown /\ (\A c \in competitions : Pair(c) \subseteq Born)

(* Only stored principles are scanned for conflicts.                       *)
LEMMA ConflictsOfStored == \A pair \in Conflicts : pair \subseteq stored
BY DEF Conflicts, TimesScanned

(* The competitions change in two steps only.                              *)
LEMMA OtherSteps ==
  ASSUME Grounded, [EvolutionNext]_evolutionVars, ~FindConflicts, ~RecordConflictEvidence
  PROVE  /\ competitions' = competitions
         /\ \A p \in Born : p \in Principle /\ p \in Born'
                            /\ principles'[p].competesWith = principles[p].competesWith
<1> USE DEF Grounded
<1>0. Born \subseteq Principle /\ cycle \in Nat /\ \A p \in Born : principles[p] \in ResearchPrinciple
  BY EvolutionAssumption DEF PrinciplesTypeOK, Born
<1>1. CASE ProcessFindings
  BY <1>0, <1>1 DEF ProcessFindings, Born
<1>2. CASE ExtractPrinciples
  <2>1. PICK told \in Extractions :
           /\ principles' = [q \in Principle |-> Extracted(told, q)]
           /\ stored' = stored \cup Touched(told)
           /\ UNCHANGED <<retired, competitions>>
    BY <1>2, ExtractStep
  <2> QED
    BY <1>0, <2>1, ExtractedKinds DEF Gains, Born
<1>3. CASE EvaluateLifecycle
  <2>1. /\ \A p \in stored : principles'[p] = Judged(Promoted(principles[p], cycle))
        /\ \A p \in Principle \ stored : principles'[p] = principles[p]
        /\ UNCHANGED <<stored, retired, competitions>>
    BY <1>3, LifecycleStep
  <2> QED
    BY <1>0, <2>1, PromotedKinds, JudgedKinds DEF SameRecord, Born
<1>4. CASE RunEvidenceFeedback
  <2>1. PICK correct \in BOOLEAN :
        /\ principles' = [q \in Principle |->
             IF q \in Relevant THEN Outcome(principles[q], correct) ELSE principles[q]]
        /\ UNCHANGED <<stored, retired, competitions>>
    BY <1>4, FeedbackStep
  <2> QED
    BY <1>0, <2>1, OutcomeKinds DEF Born
<1>5. CASE EvolveFrameworks \/ RecordFrameworkAccuracy \/ UNCHANGED evolutionVars
  BY <1>0, <1>5 DEF EvolveFrameworks, RecordFrameworkAccuracy, evolutionVars, Born
<1>6. CASE \E p \in Principle : RecordContradiction(p)
  <2>1. PICK p \in Principle : RecordContradiction(p)
    BY <1>6
  <2> DEFINE r == [principles[p] EXCEPT !.contradictions = @ + 1]
  <2>2. PICK gone \in SUBSET {p} :
           /\ p \in stored /\ r \in ResearchPrinciple
           /\ principles' = [principles EXCEPT ![p] = Judged(r)]
           /\ stored' = stored \ gone /\ retired' = retired \cup gone
           /\ competitions' = competitions
    BY <2>1, ContradictionStep
  <2>3. r.competesWith = principles[p].competesWith
    BY <1>0, <2>2 DEF ResearchPrinciple, Born
  <2> HIDE DEF r
  <2>4. Judged(r).competesWith = principles[p].competesWith
    BY <2>2, <2>3, JudgedKinds DEF SameRecord
  <2> QED
    BY <1>0, <2>2, <2>4 DEF Born, PrinciplesTypeOK
<1> QED
  BY <1>1, <1>2, <1>3, <1>4, <1>5, <1>6 DEF EvolutionNext

LEMMA ConflictsRivals == Grounded /\ Rivals /\ FindConflicts => Rivals'
<1> SUFFICES ASSUME Grounded, Rivals, FindConflicts PROVE Rivals'
  OBVIOUS
<1> USE DEF Grounded
<1>1. \A pair \in Conflicts \ Competing :
        Pair(NewCompetition(pair)) = pair /\ NewCompetition(pair) \in Competition
  <2> SUFFICES ASSUME NEW pair \in Conflicts \ Competing
      PROVE  Pair(NewCompetition(pair)) = pair /\ NewCompetition(pair) \in Competition
    OBVIOUS
  <2>1. PICK p \in Principle, q \in Principle : pair = {p, q}
    BY ConflictsStep
  <2> QED
    BY <2>1, NewCompetitionKinds
<1>2. \A c \in competitions' :
        \/ c \in competitions
        \/ \E pair \in Conflicts \ Competing : c = NewCompetition(pair)
  BY ConflictsStep
<1>3. \A c \in competitions : Pair(c) \in Competing
  BY DEF Competing
<1>4. OnePerPair'
  <2> SUFFICES ASSUME NEW c \in competitions', NEW d \in competitions', Pair(c) = Pair(d)
      PROVE  c = d
    BY DEF OnePerPair, Pair
  <2>1. CASE c \in competitions /\ d \in competitions
    BY <2>1 DEF Rivals, OnePerPair
  <2>2. CASE c \notin competitions \/ d \notin competitions
    BY <1>1, <1>2, <1>3, <2>2
  <2> QED
    BY <2>1, <2>2
<1>5. RivalsKnown'
  <2> SUFFICES ASSUME NEW c \in competitions'
      PROVE  c.b \in principles'[c.a].competesWith /\ c.a \in principles'[c.b].competesWith
    BY DEF RivalsKnown
  <2>1. CASE c \in competitions
    <3>1. c.a \in Principle /\ c.b \in Principle
      BY <2>1 DEF PrinciplesTypeOK, Competition
    <3> QED
      BY <2>1, <3>1, ConflictsStep DEF Rivals, RivalsKnown
  <2>2. CASE c \notin competitions
    <3>1. PICK pair \in Conflicts \ Competing : c = NewCompetition(pair)
      BY <1>2, <2>2
    <3>2. c.a \in Principle /\ c.b \in Principle /\ {c.a, c.b} = pair
      BY <1>1, <3>1 DEF Competition, Pair
    <3>3. {c.b, c.a} = pair
      BY <3>2
    <3> QED
      BY <3>1, <3>2, <3>3, ConflictsStep
  <2> QED
    BY <2>1, <2>2
<1>6. \A c \in competitions' : Pair(c) \subseteq Born'
  <2> SUFFICES ASSUME NEW c \in competitions' PROVE Pair(c) \subseteq Born
    BY ConflictsStep DEF Born, Pair
  <2>1. CASE c \in competitions
    BY <2>1 DEF Rivals
  <2>2. CASE c \notin competitions
    BY <1>1, <1>2, <2>2, ConflictsOfStored DEF Born
  <2> QED
    BY <2>1, <2>2
<1> QED
  BY <1>4, <1>5, <1>6 DEF Rivals, Pair

LEMMA EvidenceRivals == Grounded /\ Rivals /\ RecordConflictEvidence => Rivals'
<1> SUFFICES ASSUME Grounded, Rivals, RecordConflictEvidence PROVE Rivals'
  OBVIOUS
<1> USE DEF Grounded
<1>1. PICK p \in Born, correct \in BOOLEAN :
        LET of == {c \in competitions : p \in Pair(c)}
            scored == {Scored(c, p, correct) : c \in of}
            decided == {c \in scored : Decisive(c)}
        IN
        /\ competitions' \subseteq (competitions \ of) \cup (scored \ decided)
        /\ \A q \in Principle :
             \A rival \in principles[q].competesWith :
               \/ rival \in principles'[q].competesWith
               \/ \E d \in decided : Winner(d) = q /\ Loser(d) = rival
  BY EvidenceStep
<1> DEFINE of == {c \in competitions : p \in Pair(c)}
           score(c) == Scored(c, p, correct)
<1>2. \A c \in of : /\ c \in competitions /\ score(c).a = c.a /\ score(c).b = c.b
                    /\ Pair(score(c)) = Pair(c)
  <2>1. \A c \in of : c \in Competition /\ p \in Pair(c) /\ c \in competitions
    BY DEF PrinciplesTypeOK
  <2>2. \A c \in of : score(c).a = c.a /\ score(c).b = c.b
    BY <2>1, ScoredKinds
  <2> QED
    BY <2>1, <2>2 DEF Pair
<1>3. \A c \in competitions' :
        \/ c \in competitions \ of
        \/ \E e \in of : c = score(e) /\ ~Decisive(c)
  BY <1>1
<1>4. \A q \in Principle :
        \A rival \in principles[q].competesWith :
          \/ rival \in principles'[q].competesWith
          \/ \E e \in of : /\ Decisive(score(e)) /\ Winner(score(e)) = q
                           /\ Loser(score(e)) = rival
  BY <1>1
<1>5. of \subseteq competitions
  OBVIOUS
<1> HIDE DEF of, score
<1>6. \A c \in competitions' : \E e \in competitions :
        /\ Pair(c) = Pair(e) /\ c.a = e.a /\ c.b = e.b
        /\ e \notin of => c = e
        /\ e \in of => c = score(e) /\ ~Decisive(c)
  BY <1>2, <1>3
<1>7. OnePerPair'
  <2> SUFFICES ASSUME NEW c \in competitions', NEW d \in competitions', Pair(c) = Pair(d)
      PROVE  c = d
    BY DEF OnePerPair, Pair
  <2>1. PICK e \in competitions : /\ Pair(c) = Pair(e)
                                  /\ e \notin of => c = e
                                  /\ e \in of => c = score(e)
    BY <1>6
  <2>2. PICK f \in competitions : /\ Pair(d) = Pair(f)
                                  /\ f \notin of => d = f
                                  /\ f \in of => d = score(f)
    BY <1>6
  <2>3. e = f
    BY <2>1, <2>2 DEF Rivals, OnePerPair
  <2> QED
    BY <2>1, <2>2, <2>3
<1>8. RivalsKnown'
  <2> SUFFICES ASSUME NEW c \in competitions'
      PROVE  c.b \in principles'[c.a].competesWith /\ c.a \in principles'[c.b].competesWith
    BY DEF RivalsKnown
  <2>1. PICK e \in competitions :
          /\ Pair(c) = Pair(e) /\ c.a = e.a /\ c.b = e.b
          /\ e \notin of => c = e
          /\ e \in of => c = score(e) /\ ~Decisive(c)
    BY <1>6
  <2>2. /\ e.a \in Principle /\ e.b \in Principle
        /\ e.b \in principles[e.a].competesWith /\ e.a \in principles[e.b].competesWith
    BY DEF PrinciplesTypeOK, Competition, Rivals, RivalsKnown
  <2>3. ASSUME NEW f \in of, Decisive(score(f)), {Winner(score(f)), Loser(score(f))} = Pair(e)
        PROVE  FALSE
    <3>1. {Winner(score(f)), Loser(score(f))} = Pair(score(f))
      BY DEF Winner, Loser, Pair
    <3>2. Pair(f) = Pair(e)
      BY <1>2, <2>3, <3>1
    <3>3. f = e
      BY <1>5, <3>2 DEF Rivals, OnePerPair
    <3> QED
      BY <2>1, <2>3, <3>3
  <2>4. c.b \in principles'[c.a].competesWith
    <3>1. CASE \E f \in of : Decisive(score(f)) /\ Winner(score(f)) = e.a /\ Loser(score(f)) = e.b
      BY <2>3, <3>1 DEF Pair
    <3> QED
      BY <1>4, <2>1, <2>2, <3>1
  <2>5. c.a \in principles'[c.b].competesWith
    <3>1. CASE \E f \in of : Decisive(score(f)) /\ Winner(score(f)) = e.b /\ Loser(score(f)) = e.a
      <4>1. {e.b, e.a} = Pair(e)
        BY DEF Pair
      <4> QED
        BY <2>3, <3>1, <4>1
    <3> QED
      BY <1>4, <2>1, <2>2, <3>1
  <2> QED
    BY <2>4, <2>5
<1>9. \A c \in competitions' : Pair(c) \subseteq Born'
  <2>1. Born' = Born
    BY EvidenceStep DEF Born
  <2> QED
    BY <1>6, <2>1 DEF Rivals
<1> QED
  BY <1>7, <1>8, <1>9 DEF Rivals, Pair

(* Each side of a competition names the other.                             *)
THEOREM RivalsKnownAlways == EvolutionSpec => []RivalsKnown
<1>1. EvolutionInit => Grounded /\ Rivals
  <2>1. EvolutionInit => Rivals
    BY DEF EvolutionInit, ConflictInit, Rivals, OnePerPair, RivalsKnown, Pair
  <2> QED
    BY <2>1, InitGrounded
<1>2. Grounded /\ Rivals /\ [EvolutionNext]_evolutionVars => Grounded' /\ Rivals'
  <2> SUFFICES ASSUME Grounded, Rivals, [EvolutionNext]_evolutionVars PROVE Rivals'
    BY GroundedStep
  <2>1. CASE ~FindConflicts /\ ~RecordConflictEvidence
    <3>1. /\ competitions' = competitions
          /\ \A p \in Born : p \in Born' /\ principles'[p].competesWith = principles[p].competesWith
      BY <2>1, OtherSteps
    <3>2. \A c \in competitions : c.a \in Born /\ c.b \in Born
      BY DEF Rivals, Pair
    <3> QED
      BY <3>1, <3>2 DEF Rivals, OnePerPair, RivalsKnown, Pair
  <2> QED
    BY <2>1, ConflictsRivals, EvidenceRivals
<1>3. Rivals => RivalsKnown
  BY DEF Rivals
<1> QED
  BY <1>1, <1>2, <1>3, PTL DEF EvolutionSpec

LEMMA ConflictsFoundStep ==
  Grounded /\ IndexComplete /\ ConflictsFound /\ [EvolutionNext]_evolutionVars => ConflictsFound'
<1> SUFFICES ASSUME Grounded, IndexComplete, ConflictsFound, [EvolutionNext]_evolutionVars,
                    pc' = "frameworks"
    PROVE  \A p, q \in Eligible' : p # q /\ Contradictory(p, q)' => {p, q} \in Competing'
  BY DEF ConflictsFound
<1> USE DEF Grounded
<1>1. CASE FindConflicts
  <2> SUFFICES ASSUME NEW p \in Eligible', NEW q \in Eligible', p # q, Contradictory(p, q)'
      PROVE  {p, q} \in Competing'
    OBVIOUS
  <2>1. /\ p \in stored /\ q \in stored /\ stored \subseteq Principle
        /\ SameDeeds(principles[p], principles'[p]) /\ SameDeeds(principles[q], principles'[q])
    BY <1>1, ConflictsStep DEF Eligible, PrinciplesTypeOK
  <2>2. /\ principles[p].strength \in {"validated", "mature"}
        /\ principles[q].strength \in {"validated", "mature"}
        /\ \A x, y \in {p, q} : Contradictory(x, y)
    BY <2>1 DEF Eligible, SameDeeds, Contradictory, DomainFor, ClaimFor
  <2>3. ASSUME NEW x \in stored, principles[x].strength \in {"validated", "mature"}
        PROVE  TimesScanned(x) > 0
    <3>1. /\ listed["validated"][x] \in 0..2 /\ listed["mature"][x] \in 0..2
          /\ listed[principles[x].strength][x] > 0
      BY <2>1 DEF IndexComplete, PrinciplesTypeOK, Strength
    <3> QED
      BY <2>3, <3>1 DEF TimesScanned
  <2>4. Cardinality({p, q}) # 1
    <3>1. IsFiniteSet({p, q})
      <4>1. IsFiniteSet({p}) /\ {p} \cup {q} = {p, q}
        BY FS_Singleton
      <4> QED
        BY <4>1, FS_AddElement
    <3>2. \A x : {p, q} # {x}
      OBVIOUS
    <3> QED
      BY <3>1, <3>2, FS_Singleton
  <2>5. {p, q} \in Conflicts
    BY <2>1, <2>2, <2>3, <2>4 DEF Conflicts
  <2>6. /\ Pair(NewCompetition({p, q})) = {p, q}
        /\ competitions' = competitions \cup {NewCompetition(pair) : pair \in Conflicts \ Competing}
    BY <1>1, <2>1, ConflictsStep, NewCompetitionKinds
  <2>7. CASE {p, q} \in Competing
    BY <2>6, <2>7 DEF Competing, Pair
  <2>8. CASE {p, q} \notin Competing
    <3>1. NewCompetition({p, q}) \in competitions'
      BY <2>5, <2>6, <2>8
    <3> QED
      BY <2>6, <3>1 DEF Competing, Pair
  <2> QED
    BY <2>7, <2>8
<1>2. CASE UNCHANGED evolutionVars
  BY <1>2 DEF evolutionVars, ConflictsFound, Eligible, Contradictory, DomainFor, ClaimFor,
     Competing, Pair
<1>3. ASSUME ~FindConflicts, ~UNCHANGED evolutionVars PROVE FALSE
  BY <1>3, ContradictionStep, EvidenceStep
     DEF EvolutionNext, ProcessFindings, ExtractPrinciples, EvaluateLifecycle,
     RunEvidenceFeedback, EvolveFrameworks, RecordContradiction, RecordConflictEvidence,
     RecordFrameworkAccuracy
<1> QED
  BY <1>1, <1>2, <1>3

(* After detect_conflicts every contradiction among stored principles of   *)
(* rank is a competition.                                                  *)
THEOREM ConflictsFoundAlways == EvolutionSpec => []ConflictsFound
<1>1. EvolutionInit => Grounded /\ IndexComplete /\ ConflictsFound
  <2>1. EvolutionInit => IndexComplete /\ ConflictsFound
    BY DEF EvolutionInit, PrincipleInit, IndexComplete, ConflictsFound
  <2> QED
    BY <2>1, InitGrounded
<1>2. Grounded /\ IndexComplete /\ ConflictsFound /\ [EvolutionNext]_evolutionVars
        => Grounded' /\ IndexComplete' /\ ConflictsFound'
  BY GroundedStep, IndexStep, ConflictsFoundStep
<1> QED
  BY <1>1, <1>2, PTL DEF EvolutionSpec

-----------------------------------------------------------------------------
(* The ladder *)

Rung(p) == IF p \in retired THEN "retired" ELSE IF p \in stored THEN principles[p].strength ELSE "none"

Rungs == [p \in Principle |-> Rung(p)]

LEMMA RungsInitially == EvolutionInit => Ladder!LadderInit
BY DEF EvolutionInit, PrincipleInit, Ladder!LadderInit

LEMMA RungsOfLadder ==
  ASSUME NEW ids \in SUBSET Principle,
         \/ /\ \A p \in ids : Rung(p) = "none"
            /\ Rungs' = [p \in Principle |-> IF p \in ids THEN "candidate" ELSE Rung(p)]
         \/ /\ \A p \in ids : Rung(p) \in {"candidate", "validated"}
            /\ Rungs' = [p \in Principle |->
                 IF p \notin ids THEN Rung(p)
                 ELSE IF Rung(p) = "candidate" THEN "validated" ELSE "mature"]
         \/ /\ \A p \in ids : Rung(p) \notin {"none", "retired"}
            /\ Rungs' = [p \in Principle |-> IF p \in ids THEN "retired" ELSE Rung(p)]
  PROVE  Ladder!LadderNext
<1>1. Ladder!Start(ids) \/ Ladder!Climb(ids) \/ Ladder!Leave(ids)
  BY DEF Ladder!Start, Ladder!Climb, Ladder!Leave, Rungs, Rung
<1> QED
  BY <1>1 DEF Ladder!LadderNext

LEMMA LadderStep ==
  ASSUME Grounded, [EvolutionNext]_evolutionVars
  PROVE  Ladder!LadderNext \/ Rungs' = Rungs
<1> USE DEF Grounded
<1>0. /\ stored \subseteq Principle /\ retired \subseteq Principle \ stored /\ cycle \in Nat
      /\ \A p \in Principle : principles[p] \in ResearchPrinciple
      /\ \A p \in Principle : principles[p].strength \in Strength
  BY EvolutionAssumption DEF PrinciplesTypeOK, ResearchPrinciple
<1>1. CASE ProcessFindings
  BY <1>1 DEF ProcessFindings, Rungs, Rung
<1>2. CASE ExtractPrinciples
  <2>1. PICK told \in Extractions :
           /\ principles' = [q \in Principle |-> Extracted(told, q)]
           /\ stored' = stored \cup Touched(told)
           /\ Touched(told) \subseteq Principle \ retired
           /\ retired' = retired
    BY <1>2, ExtractStep
  <2> DEFINE ids == Touched(told) \ stored
  <2>2. ids \in SUBSET Principle /\ \A p \in ids : Rung(p) = "none"
    BY <2>1 DEF Rung
  <2>3. \A p \in ids : principles'[p].strength = "candidate"
    BY <2>1, ExtractedKinds DEF Newborn
  <2>4. \A p \in stored : principles'[p].strength = principles[p].strength
    <3> SUFFICES ASSUME NEW p \in stored
        PROVE  Extracted(told, p).strength = principles[p].strength
      BY <1>0, <2>1
    <3> QED
      BY <1>0, ExtractedKinds DEF Gains
  <2>5. Rungs' = [p \in Principle |-> IF p \in ids THEN "candidate" ELSE Rung(p)]
    BY <1>0, <2>1, <2>3, <2>4 DEF Rungs, Rung
  <2> HIDE DEF ids
  <2> QED
    BY <2>2, <2>5, RungsOfLadder
<1>3. CASE EvaluateLifecycle
  <2>1. Climbers \in SUBSET Principle /\ Climbers \subseteq stored
    BY <1>0 DEF Climbers
  <2>2. UNCHANGED <<stored, retired>>
    BY <1>3, LifecycleStep
  <2>3. ASSUME NEW p \in stored
        PROVE  /\ p \in Climbers => principles[p].strength \in {"candidate", "validated"}
               /\ principles'[p].strength =
                    IF p \notin Climbers THEN principles[p].strength
                    ELSE IF principles[p].strength = "candidate" THEN "validated" ELSE "mature"
    <3>1. principles[p] \in ResearchPrinciple
      BY <1>0
    <3>2. principles'[p].strength = Promoted(principles[p], cycle).strength
      BY <1>0, <1>3, <3>1, LifecycleStep, PromotedKinds, JudgedKinds
    <3>3. p \in Climbers <=> Graduates(principles[p], cycle) \/ Matures(principles[p])
      BY DEF Climbers
    <3> QED
      BY <1>0, <3>1, <3>2, <3>3, PromotedKinds
  <2>4. \A p \in Climbers : Rung(p) \in {"candidate", "validated"}
    BY <1>0, <2>1, <2>3 DEF Rung
  <2>5. Rungs' = [p \in Principle |->
                    IF p \notin Climbers THEN Rung(p)
                    ELSE IF Rung(p) = "candidate" THEN "validated" ELSE "mature"]
    BY <1>0, <2>1, <2>2, <2>3 DEF Rungs, Rung
  <2> QED
    BY <2>1, <2>4, <2>5, RungsOfLadder
<1>4. CASE RunEvidenceFeedback
  <2>1. PICK correct \in BOOLEAN :
        /\ principles' = [q \in Principle |->
             IF q \in Relevant THEN Outcome(principles[q], correct) ELSE principles[q]]
        /\ UNCHANGED <<stored, retired>>
    BY <1>4, FeedbackStep
  <2>2. \A p \in Principle : principles'[p].strength = principles[p].strength
    BY <1>0, <2>1, OutcomeKinds
  <2> QED
    BY <2>1, <2>2 DEF Rungs, Rung
<1>5. CASE Quiet
  <2> DEFINE ids == stored \ stored'
  <2>1. ids \in SUBSET Principle /\ \A p \in ids : Rung(p) \notin {"none", "retired"}
    BY <1>0 DEF Rung, Strength
  <2>2. PrinciplesTypeOK'
    BY GroundedStep
  <2>3. retired' = retired \cup ids /\ stored' = stored \ ids
    BY <1>0, <1>5, <2>2 DEF Quiet, Born, PrinciplesTypeOK
  <2>4. \A p \in Principle : principles'[p].strength = principles[p].strength
    BY <1>5 DEF Quiet, SameStanding
  <2>5. Rungs' = [p \in Principle |-> IF p \in ids THEN "retired" ELSE Rung(p)]
    BY <1>0, <2>3, <2>4 DEF Rungs, Rung
  <2> HIDE DEF ids
  <2> QED
    BY <2>1, <2>5, RungsOfLadder
<1> QED
  BY <1>1, <1>2, <1>3, <1>4, <1>5, QuietSteps

(* The store implements the ladder: no principle skips a rung, falls, or   *)
(* returns from retirement.                                                *)
THEOREM LadderImplemented == EvolutionSpec => ImplementsLadder
<1>1. EvolutionInit => Grounded /\ Ladder!LadderInit
  BY InitGrounded, RungsInitially
<1>2. Grounded /\ [EvolutionNext]_evolutionVars => Grounded'
  BY GroundedStep
<1>3. Grounded /\ [EvolutionNext]_evolutionVars => [Ladder!LadderNext]_Rungs
  BY LadderStep
<1>4. Grounded /\ [EvolutionNext]_evolutionVars
        => [Ladder!LadderNext]_([p \in Principle |->
             IF p \in retired THEN "retired" ELSE IF p \in stored THEN principles[p].strength ELSE "none"])
  BY <1>3 DEF Rungs, Rung
<1> QED
  BY <1>1, <1>2, <1>4, PTL DEF EvolutionSpec, ImplementsLadder, Ladder!LadderSpec

-----------------------------------------------------------------------------
(* Frameworks: the store, its index and the FrameworkSet                   *)

InOrder == Shelf \in Shelves(Born)

(* A formed framework takes the first free id, and joins only principles   *)
(* that are in the store.                                                  *)
LEMMA FormationsStay ==
  ASSUME Grounded, InOrder, NEW shelf \in Formations
  PROVE  shelf \in Shelves(Born) /\ Keeps(Shelf, shelf)
<1>1. CASE shelf = Shelf
  BY <1>1, KeepsSame DEF InOrder
<1>2. CASE shelf # Shelf
  <2> DEFINE free == {f \in Framework : frameworks[f].status = "none"}
             first == CHOOSE f \in free : \A g \in free : f <= g
             M == {m \in SUBSET Eligible : /\ Cardinality(m) >= FrameworkSize
                                           /\ cycle >= CoactivationCycles /\ free # {}}
  <2>1. PICK members \in SUBSET Eligible, initial \in Accuracy :
           free # {} /\ shelf = FormCandidate(Shelf, first, members, initial)
    <3>1. Formations =
            {Shelf} \cup {FormCandidate(Shelf, first, members, initial) : members \in M, initial \in Accuracy}
      BY DEF Formations
    <3> HIDE DEF first, M
    <3>2. PICK members \in M, initial \in Accuracy : shelf = FormCandidate(Shelf, first, members, initial)
      BY <1>2, <3>1
    <3>3. members \in SUBSET Eligible /\ free # {}
      BY DEF M
    <3> QED
      BY <3>2, <3>3
  <2>2. first \in free
    <3>1. free \in SUBSET Nat
      BY FrameworkSetAssumption DEF Framework
    <3> HIDE DEF free
    <3>2. \E f \in free : \A g \in free : f <= g
      BY <2>1, <3>1, SmallestInSet
    <3> QED
      BY <3>2
  <2>3. first \in Framework /\ StatusOf(Shelf, first) = "none"
    BY <2>2 DEF StatusOf, Shelf
  <2>4. members \in SUBSET Born
    BY DEF Eligible, Born
  <2> HIDE DEF first
  <2> QED
    BY <2>1, <2>3, <2>4, FormCandidateStays DEF InOrder
<1> QED
  BY <1>1, <1>2

(* No step makes a principle unborn.                                       *)
LEMMA BornStay ==
  ASSUME Grounded, [EvolutionNext]_evolutionVars
  PROVE  Born \subseteq Born'
<1>1. CASE ProcessFindings
  BY <1>1 DEF ProcessFindings, Born
<1>2. CASE ExtractPrinciples
  BY <1>2 DEF ExtractPrinciples, Born
<1>3. CASE EvaluateLifecycle
  BY <1>3 DEF EvaluateLifecycle, Born
<1>4. CASE RunEvidenceFeedback
  BY <1>4 DEF RunEvidenceFeedback, Born
<1>5. CASE ~ProcessFindings /\ ~ExtractPrinciples /\ ~EvaluateLifecycle /\ ~RunEvidenceFeedback
  BY <1>5, QuietSteps DEF Quiet
<1> QED
  BY <1>1, <1>2, <1>3, <1>4, <1>5

LEMMA ShelfStep ==
  ASSUME Grounded, InOrder, [EvolutionNext]_evolutionVars
  PROVE  InOrder' /\ Keeps(Shelf, Shelf')
<1> SUFFICES Shelf' \in Shelves(Born) /\ Keeps(Shelf, Shelf')
  <2>1. Shelves(Born) \subseteq Shelves(Born')
    BY BornStay, MoreShelves
  <2> QED
    BY <2>1 DEF InOrder
<1>1. CASE EvolveFrameworks
  <2>1. PICK shelf \in Formations : BecomesShelf(EvaluateActive(ValidateCandidates(shelf)))
    BY <1>1 DEF EvolveFrameworks
  <2> DEFINE validated == ValidateCandidates(shelf)
             new == EvaluateActive(validated)
  <2>2. shelf \in Shelves(Born) /\ Keeps(Shelf, shelf)
    BY FormationsStay
  <2>3. validated \in Shelves(Born) /\ Keeps(shelf, validated)
    BY <2>2, ValidateCandidatesStays
  <2>4. new \in Shelves(Born) /\ Keeps(validated, new)
    BY <2>3, EvaluateActiveStays
  <2> HIDE DEF new, validated
  <2>5. new = [frameworks |-> new.frameworks, byStatus |-> new.byStatus, activeSet |-> new.activeSet]
    BY <2>4, ShelfParts DEF Shelves
  <2>6. Shelf' = new
    BY <2>1, <2>5 DEF BecomesShelf, Shelf, new, validated
  <2> QED
    BY <2>2, <2>3, <2>4, <2>6, KeepsOn
<1>2. CASE RecordFrameworkAccuracy
  <2>1. PICK f \in Framework, accuracy \in Accuracy : RecordAccuracy(f, accuracy)
    BY <1>2 DEF RecordFrameworkAccuracy
  <2> QED
    BY <2>1, RecordAccuracyStays DEF InOrder
<1>3. CASE UNCHANGED frameworkVars
  <2>1. Shelf' = Shelf
    BY <1>3 DEF frameworkVars, Shelf
  <2> QED
    BY <2>1, KeepsSame DEF InOrder
<1>4. ~EvolveFrameworks /\ ~RecordFrameworkAccuracy => UNCHANGED frameworkVars
  BY DEF EvolutionNext, evolutionVars, ProcessFindings, ExtractPrinciples, EvaluateLifecycle,
         RunEvidenceFeedback, FindConflicts, RecordContradiction, RecordConflictEvidence
<1> QED
  BY <1>1, <1>2, <1>3, <1>4

LEMMA InitInOrder == EvolutionInit => InOrder
BY InitialShelf DEF EvolutionInit, InOrder

LEMMA OrderAlways == EvolutionSpec => [](Grounded /\ InOrder)
<1>1. EvolutionInit => Grounded /\ InOrder
  BY InitGrounded, InitInOrder
<1>2. Grounded /\ InOrder /\ [EvolutionNext]_evolutionVars => (Grounded /\ InOrder)'
  BY GroundedStep, ShelfStep
<1> QED
  BY <1>1, <1>2, PTL DEF EvolutionSpec

LEMMA InOrderParts ==
  ASSUME InOrder
  PROVE  /\ Shelf \in ShelfType(Born)
         /\ Sound(Shelf) /\ Indexed(Shelf) /\ Rostered(Shelf) /\ Earned(Shelf)
         /\ Shelf.frameworks = frameworks /\ Shelf.byStatus = byStatus /\ Shelf.activeSet = activeSet
         /\ \A f : StatusOf(Shelf, f) = frameworks[f].status
BY DEF InOrder, Shelves, Shelf, StatusOf

(* The FrameworkSet has every framework that the store has as active or    *)
(* under review, at every capacity.                                        *)
THEOREM ActiveInSetAlways == EvolutionSpec => []ActiveInSet
<1>1. InOrder => ActiveInSet
  BY InOrderParts DEF ActiveInSet, Rostered
<1> QED
  BY <1>1, OrderAlways, PTL

(* The index has every framework that waits for validation or is under     *)
(* review, whatever ids of retired ones it still has.                      *)
THEOREM FrameworksIndexedAlways == EvolutionSpec => []FrameworksIndexed
<1>1. InOrder => FrameworksIndexed
  <2> SUFFICES ASSUME InOrder, NEW f \in Framework,
                      frameworks[f].status \in {"candidate", "under_review"}
               PROVE  f \in Range(byStatus[frameworks[f].status])
    BY DEF FrameworksIndexed
  <2> QED
    BY InOrderParts DEF Indexed, IndexedStatus
<1> QED
  BY <1>1, OrderAlways, PTL

(* The FrameworkSet never has more frameworks than max_active, and none    *)
(* that was not activated.                                                 *)
SetBounded ==
  /\ Len(activeSet) <= MaxActive
  /\ \A f \in Range(activeSet) : frameworks[f].status \in {"active", "under_review", "retired"}

THEOREM SetBoundedAlways == EvolutionSpec => []SetBounded
<1>1. InOrder => SetBounded
  BY InOrderParts DEF SetBounded, Rostered
<1> QED
  BY <1>1, OrderAlways, PTL

(* A framework was activated on as many accuracies as validation asks for, *)
(* and retired on a whole window of bad ones; its history still shows it.  *)
RecordsEarned ==
  \A f \in Framework :
    LET r == frameworks[f] IN
    /\ r.status \in {"active", "under_review", "retired"} => Len(r.history) >= ValidationCycles
    /\ r.status = "retired" => Failed(r.history)

THEOREM RecordsEarnedAlways == EvolutionSpec => []RecordsEarned
<1>1. InOrder => RecordsEarned
  BY InOrderParts DEF RecordsEarned, Earned
<1> QED
  BY <1>1, OrderAlways, PTL

(* A framework is made of principles that the store has admitted, and may  *)
(* since have retired.                                                     *)
MembersBorn == \A f \in Framework : frameworks[f].principles \subseteq Born

THEOREM MembersBornAlways == EvolutionSpec => []MembersBorn
<1>1. InOrder => MembersBorn
  BY InOrderParts, ShelfParts DEF MembersBorn
<1> QED
  BY <1>1, OrderAlways, PTL

(* A retired framework is never touched again, although the index and the  *)
(* set may still have its id; no framework goes back to an earlier stage;  *)
(* and one that is formed keeps its principles.                            *)
FrameworksAdvance ==
  \A f \in Framework :
    LET old == frameworks[f]
        new == frameworks'[f]
    IN /\ old.status = "retired" => new = old
       /\ Stage(old.status) <= Stage(new.status)
       /\ old.status # "none" => new.principles = old.principles

THEOREM FrameworksAdvanceAlways == EvolutionSpec => [][FrameworksAdvance]_evolutionVars
<1>1. Grounded /\ InOrder /\ [EvolutionNext]_evolutionVars => FrameworksAdvance
  <2>1. ASSUME Keeps(Shelf, Shelf') PROVE FrameworksAdvance
    BY <2>1 DEF Keeps, Shelf, StatusOf, FrameworksAdvance
  <2> QED
    BY <2>1, ShelfStep
<1>2. Grounded /\ InOrder /\ [EvolutionNext]_evolutionVars => [FrameworksAdvance]_evolutionVars
  BY <1>1
<1> QED
  BY <1>2, OrderAlways, PTL DEF EvolutionSpec

-----------------------------------------------------------------------------
(* Types *)

(* Every variable of the pipeline and of its stores keeps its type, the    *)
(* histories and the index that the framework loops rewrite included.      *)
THEOREM EvolutionTypeOKAlways == EvolutionSpec => []EvolutionTypeOK
<1>1. Grounded /\ InOrder => EvolutionTypeOK
  <2> SUFFICES ASSUME Grounded, InOrder PROVE EvolutionTypeOK
    OBVIOUS
  <2>1. Born \subseteq Principle
    BY DEF Grounded, PrinciplesTypeOK, Born
  <2>2. Shelf \in Shelves(Principle)
    BY <2>1, MoreShelves DEF InOrder
  <2>3. /\ frameworks \in [Framework -> [status : FrameworkStatus, principles : SUBSET Principle,
                                         initial : Accuracy \cup {0}, history : Seq(Accuracy)]]
        /\ byStatus \in [IndexedStatus -> Seq(Framework)]
        /\ activeSet \in Seq(Framework)
    BY <2>2, InOrderParts, ShelfParts DEF Shelves
  <2> QED
    BY <2>3 DEF EvolutionTypeOK, Grounded
<1> QED
  BY <1>1, OrderAlways, PTL DEF EvolutionSpec
=============================================================================
