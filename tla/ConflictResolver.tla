-------------------------- MODULE ConflictResolver --------------------------
(***************************************************************************)
(* ConflictResolver of src/src/research/evolution/conflict_resolver.py:    *)
(* principles with contradictory claims compete until evidence decides.    *)
(***************************************************************************)
EXTENDS PrincipleStore

CONSTANTS
  ResolutionMinCycles,   \* RESOLUTION_MIN_CYCLES
  MaxUnresolvedCycles,   \* MAX_UNRESOLVED_CYCLES
  WinRate                \* RESOLUTION_WIN_RATE, in percent

ASSUME ConflictResolverAssumption ==
  /\ ResolutionMinCycles \in Nat /\ MaxUnresolvedCycles \in Nat
  /\ WinRate \in 51..100

VARIABLE competitions    \* _active_competitions; there is one for a pair

ConflictInit == competitions = {}

(* CompetingPrinciple.  Which of the two is a and which is b makes no      *)
(* difference: a is the older one.                                         *)
Competition == [a : Principle, b : Principle, forA : Nat, forB : Nat, cycles : Nat]

Pair(c) == {c.a, c.b}

Competing == {Pair(c) : c \in competitions}

-----------------------------------------------------------------------------
(* detect_conflicts *)

ConflictsOfActive ==    \* mutant: principles that weaken are not scanned
  {pair \in {{p, q} : p, q \in Principle} :
     /\ \A p \in pair : TimesScanned(p) > 0 /\ principles[p].status # "weakening"
     /\ \A p, q \in pair : Contradictory(p, q)
     /\ Cardinality(pair) = 1 => \A p \in pair : TimesScanned(p) > 1}

(* The pairs of positions of the scanned list that hold contradictory      *)
(* claims.  An id the list has twice meets itself.                         *)
Conflicts ==
  {pair \in {{p, q} : p, q \in Principle} :
     /\ \A p \in pair : TimesScanned(p) > 0
     /\ \A p, q \in pair : Contradictory(p, q)
     /\ Cardinality(pair) = 1 => \A p \in pair : TimesScanned(p) > 1}

NewCompetition(pair) ==
  LET a == CHOOSE p \in pair : \A q \in pair : p <= q
      b == CHOOSE p \in pair : \A q \in pair : q <= p
  IN [a |-> a, b |-> b, forA |-> 0, forB |-> 0, cycles |-> 0]

DetectConflictsAnew ==   \* mutant: the rivals of earlier conflicts are forgotten
  LET new == Conflicts \ Competing
  IN /\ competitions' = competitions \cup {NewCompetition(pair) : pair \in new}
     /\ principles' = [p \in Principle |->
          IF \E pair \in new : p \in pair
          THEN [principles[p] EXCEPT !.status = "competing",
                                     !.competesWith = {q \in Principle : {p, q} \in new}]
          ELSE principles[p]]
     /\ UNCHANGED <<stored, retired, listed>>

DetectConflicts ==
  LET new == Conflicts \ Competing
  IN /\ competitions' = competitions \cup {NewCompetition(pair) : pair \in new}
     /\ principles' = [p \in Principle |->
          IF \E pair \in new : p \in pair
          THEN [principles[p] EXCEPT
                  !.status = "competing",
                  !.competesWith = @ \cup {q \in Principle : {p, q} \in new}]
          ELSE principles[p]]
     /\ UNCHANGED <<stored, retired, listed>>

-----------------------------------------------------------------------------
(* record_evidence *)

(* Evidence for or against p, in one of its competitions. *)
Scored(c, p, correct) ==
  LET forA == IF c.a = p THEN correct ELSE ~correct
  IN [c EXCEPT !.forA = IF forA THEN @ + 1 ELSE @,
               !.forB = IF forA THEN @ ELSE @ + 1,
               !.cycles = @ + 1]

Wins(score, other) == 100 * score >= WinRate * (score + other)

Decisive(c) ==
  c.cycles >= ResolutionMinCycles /\ (Wins(c.forA, c.forB) \/ Wins(c.forB, c.forA))

Stalemate(c) ==
  /\ c.cycles >= ResolutionMinCycles /\ c.cycles >= MaxUnresolvedCycles
  /\ ~Decisive(c)

Winner(c) == IF Wins(c.forA, c.forB) THEN c.a ELSE c.b

Loser(c) == IF Winner(c) = c.a THEN c.b ELSE c.a

(* _apply_resolution: first the loser weakens, then the winner is restored.*)
Verdict(p, c) == IF Winner(c) = p THEN "active" ELSE "weakening"

(* All competitions of p, in an order that is left open: its status is     *)
(* that of the last one resolved; its rivals are in one of them each.      *)
(* Statuses go to stored principles only, and a stalemate retires both.    *)
(* What a principle that leaves remembers of its rivals is read by nobody.  *)
RecordEvidence(p, correct) ==
  LET of == {c \in competitions : p \in Pair(c)}
      scored == {Scored(c, p, correct) : c \in of}
      decided == {c \in scored : Decisive(c)}
      stale == {c \in scored : Stalemate(c)}
      gone == stored \cap UNION {Pair(c) : c \in stale}
      Resolving(q) == {c \in decided : q \in Pair(c)}
      Forgotten(q) == {Loser(c) : c \in {d \in decided : Winner(d) = q}}
  IN /\ competitions' = (competitions \ of) \cup (scored \ (decided \cup stale))
     /\ stored' = stored \ gone
     /\ retired' = retired \cup gone
     /\ listed' = Delisted(listed, gone, principles)
     /\ \E last \in IF decided # {} THEN decided ELSE scored :
          principles' = [q \in Principle |->
            CASE q \in gone -> [principles[q] EXCEPT !.status = "retired"]
              [] q \in stored \ gone /\ Resolving(q) # {} ->
                   [principles[q] EXCEPT
                      !.status = Verdict(q, IF q = p THEN last ELSE CHOOSE c \in Resolving(q) : TRUE),
                      !.competesWith = @ \ Forgotten(q)]
              [] OTHER -> principles[q]]
=============================================================================
