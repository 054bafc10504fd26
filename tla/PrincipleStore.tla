--------------------------- MODULE PrincipleStore ---------------------------
(***************************************************************************)
(* PrincipleStore of src/src/research/principles/principle_store.py and    *)
(* the ResearchPrinciple of src/src/schemas/research.py: the principles    *)
(* the agent holds, by id, and the index of their ids by strength.  The    *)
(* extractor builds only two claims per domain: that the domain            *)
(* "consistently transmits", or that its transmission "is unreliable".     *)
(***************************************************************************)
EXTENDS Integers, FiniteSets

CONSTANTS
  Principle,               \* the ids, numbered in the order of creation
  Cluster,                 \* findings with one title pattern in one domain
  Domain, DomainOf,        \* the domain of a cluster
  ClaimOf,                 \* "transmits" or "unreliable"
  Regime,
  CandidateCycles,         \* CANDIDATE_MIN_CYCLES
  CandidateRegimes,        \* CANDIDATE_MIN_REGIMES
  ValidatedRegimes,        \* VALIDATED_MIN_REGIMES, which no code reads
  ValidatedObservations,   \* VALIDATED_MIN_OBS
  MatureObservations,      \* MATURE_MIN_OBS; counts stop here
  MatureRegimes,           \* MATURE_MIN_REGIMES
  MatureContradictions,    \* MATURE_MAX_CONTRADICTIONS
  MatureAccuracy,          \* MATURE_MIN_ACCURACY, in percent
  WeakenAt, RetireAt       \* 5 and 10 contradictions

ASSUME PrincipleStoreAssumption ==
  /\ Principle \subseteq Nat
  /\ Cluster # {} /\ DomainOf \in [Cluster -> Domain]
  /\ ClaimOf \in [Cluster -> {"transmits", "unreliable"}]
  /\ IsFiniteSet(Regime)
  /\ CandidateCycles \in Nat /\ CandidateRegimes \in Nat /\ ValidatedRegimes \in Nat
  /\ ValidatedObservations \in Nat /\ MatureObservations \in Nat
  /\ ValidatedObservations <= MatureObservations
  /\ MatureRegimes \in Nat /\ CandidateRegimes <= MatureRegimes
  /\ MatureContradictions \in Nat /\ MatureAccuracy \in 0..100
  /\ WeakenAt \in Nat /\ RetireAt \in Nat /\ WeakenAt < RetireAt

VARIABLES
  principles,   \* the ResearchPrinciple objects
  stored,       \* the ids in _principles
  retired,      \* the ids in _retired
  listed        \* how often _by_strength lists an id under a strength: 0, 1, 2 or more

principleVars == <<principles, stored, retired, listed>>

Strength == {"candidate", "validated", "mature"}

Status == {"active", "competing", "weakening", "retired"}

ResearchPrinciple ==
  [cluster : Cluster, strength : Strength, status : Status,
   observations : 0..MatureObservations, regimes : SUBSET Regime,
   contradictions : 0..RetireAt, correct : Nat, incorrect : Nat,
   born : Nat, competesWith : SUBSET Principle]

NewPrinciple(cluster, observations, cycle) ==
  [cluster |-> cluster, strength |-> "candidate", status |-> "active",
   observations |-> observations, regimes |-> {}, contradictions |-> 0,
   correct |-> 0, incorrect |-> 0, born |-> cycle, competesWith |-> {}]

PrincipleInit ==
  /\ principles \in [Principle -> {NewPrinciple(CHOOSE c \in Cluster : TRUE, 0, 0)}]
  /\ stored = {} /\ retired = {}
  /\ listed = [s \in Strength |-> [p \in Principle |-> 0]]

-----------------------------------------------------------------------------
(* Observations, and what a principle claims *)

(* Counts are compared to thresholds only: they stop at the largest.       *)
Capped(n) == IF n \in 0..MatureObservations THEN n ELSE MatureObservations

Added(count, more) == Capped(count + more)

DomainFor(p) == DomainOf[principles[p].cluster]

ClaimFor(p) == ClaimOf[principles[p].cluster]

MatchesProven(c) ==   \* mutant: only principles that have graduated are compared
  {p \in stored : /\ DomainFor(p) = DomainOf[c] /\ ClaimFor(p) = ClaimOf[c]
                  /\ principles[p].strength # "candidate"}

(* _find_matching_principle: within a domain, the same claim always        *)
(* reaches the threshold of similarity; the other claim does not, nor does *)
(* another domain.  Only stored principles are compared.  The claim is     *)
(* built anew in every run, from the findings heard so far: that a cluster *)
(* goes over from one claim to the other, and its new claim comes close to *)
(* the threshold for the old principle, is left out.                       *)
MatchesFor(c) == {p \in stored : DomainFor(p) = DomainOf[c] /\ ClaimFor(p) = ClaimOf[c]}

(* _are_contradictory: "reliable" is a part of "unreliable", so that two   *)
(* claims of unreliability contradict each other, and no other pair does.  *)
Contradictory(p, q) ==
  DomainFor(p) = DomainFor(q) /\ ClaimFor(p) = "unreliable" /\ ClaimFor(q) = "unreliable"

-----------------------------------------------------------------------------
(* The index *)

ListedAgain(times) == IF times = 0 THEN 1 ELSE 2

(* save: the id is appended, whether it is there or not. *)
Saved(index, ids, objects) ==
  [s \in Strength |-> [p \in Principle |->
     IF p \in ids /\ objects[p].strength = s THEN ListedAgain(index[s][p]) ELSE index[s][p]]]

(* retire: the id is removed under the strength the principle has now. *)
Delisted(index, ids, objects) ==
  [s \in Strength |-> [p \in Principle |->
     IF p \in ids /\ objects[p].strength = s THEN 0 ELSE index[s][p]]]

RelistedInVain(index, ids, before, after) ==   \* mutant: the old list is purged, the new one not appended to
  [s \in Strength |-> [p \in Principle |->
     IF p \in ids /\ before[p].strength = s THEN 0 ELSE index[s][p]]]

(* update_strength, called when the object has its new strength already:   *)
(* it is the new list that is purged before the id is appended to it.      *)
Relisted(index, ids, before, after) ==
  [s \in Strength |-> [p \in Principle |->
     IF p \in ids /\ after[p].strength = s THEN 1 ELSE index[s][p]]]

(* get_validated_or_higher: what is listed, if it is still stored. *)
TimesScanned(p) ==
  IF p \in stored THEN listed["validated"][p] + listed["mature"][p] ELSE 0

-----------------------------------------------------------------------------
(* The ladder of strengths, as _evaluate_lifecycle climbs it *)

GraduatesYoung(r, cycle) ==   \* mutant: no minimal age
  /\ r.strength = "candidate"
  /\ Cardinality(r.regimes) >= CandidateRegimes
  /\ r.observations >= ValidatedObservations

Graduates(r, cycle) ==
  /\ r.strength = "candidate"
  /\ cycle - r.born >= CandidateCycles
  /\ Cardinality(r.regimes) >= CandidateRegimes
  /\ r.observations >= ValidatedObservations

(* Without any outcome the accuracy counts as one half. *)
Accurate(r) ==
  LET outcomes == r.correct + r.incorrect
  IN IF outcomes = 0 THEN 50 >= MatureAccuracy ELSE 100 * r.correct >= MatureAccuracy * outcomes

MaturesDirectly(r) ==   \* mutant: a candidate may skip a rung
  /\ r.strength \in {"candidate", "validated"}
  /\ r.observations >= MatureObservations
  /\ r.contradictions <= MatureContradictions
  /\ Accurate(r)

Matures(r) ==
  /\ r.strength = "validated"
  /\ r.observations >= MatureObservations
  /\ Cardinality(r.regimes) >= MatureRegimes
  /\ r.contradictions <= MatureContradictions
  /\ Accurate(r)

Promoted(r, cycle) ==
  CASE Graduates(r, cycle) -> [r EXCEPT !.strength = "validated", !.status = "active"]
    [] Matures(r) -> [r EXCEPT !.strength = "mature"]
    [] OTHER -> r

Judged(r) ==
  CASE r.contradictions >= RetireAt -> [r EXCEPT !.status = "retired"]
    [] r.contradictions \in WeakenAt..(RetireAt - 1) -> [r EXCEPT !.status = "weakening"]
    [] OTHER -> r
=============================================================================
