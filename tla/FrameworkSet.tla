----------------------------- MODULE FrameworkSet -----------------------------
(***************************************************************************)
(* Research frameworks: FrameworkStore and FrameworkEvaluator of           *)
(* src/src/research/framework, the FrameworkSet of schemas/research.py and *)
(* the orchestrator that moves a framework from candidate to active, under *)
(* review and retired.                                                     *)
(***************************************************************************)
EXTENDS Integers, SequencesExt

CONSTANTS
  MaxFrameworks,        \* bound on the frameworks ever formed
  MaxActive, MinActive, \* max_active and min_active
  Accuracy,             \* the accuracies recorded, in percent
  ValidationCycles,     \* MIN_VALIDATION_CYCLES
  ReviewCycles,         \* the 20 cycles of the review and of the trend
  RetirementCycles,     \* RETIREMENT_CYCLES: the longest window
  ValidationAccuracy, ReviewAccuracy, RetirementAccuracy

ASSUME FrameworkSetAssumption ==
  /\ MaxFrameworks \in Nat /\ MaxActive \in Nat \ {0} /\ MinActive \in 1..MaxActive
  /\ Accuracy \subseteq 0..100
  /\ ReviewCycles \in Nat \ {0} /\ ReviewCycles % 2 = 0
  /\ ValidationCycles \in Nat \ {0}
  /\ ReviewCycles <= RetirementCycles /\ ValidationCycles <= RetirementCycles
  /\ RetirementCycles \in Nat

VARIABLES
  frameworks,   \* ResearchFramework objects and the evaluator's history of each
  byStatus,     \* _by_status of the store
  activeSet     \* active_frameworks of the FrameworkSet

frameworkVars == <<frameworks, byStatus, activeSet>>

Framework == 1..MaxFrameworks

IndexedStatus == {"candidate", "active", "under_review"}

FrameworkStatus == {"none", "retired"} \cup IndexedStatus

FrameworkInit ==
  /\ frameworks = [f \in Framework |-> [status |-> "none", principles |-> {}, initial |-> 0, history |-> <<>>]]
  /\ byStatus = [s \in IndexedStatus |-> <<>>]
  /\ activeSet = <<>>

Shelf == [frameworks |-> frameworks, byStatus |-> byStatus, activeSet |-> activeSet]

BecomesShelf(shelf) ==
  /\ frameworks' = shelf.frameworks
  /\ byStatus' = shelf.byStatus
  /\ activeSet' = shelf.activeSet

(* _frameworks: a retired framework is popped, its id stays in the index. *)
IsStored(shelf, f) == shelf.frameworks[f].status \in IndexedStatus

(* The members of a list that are in a set, in the order of the list.      *)
Kept(seq, set) ==
  LET kept[n \in 0..Len(seq)] ==
        IF n = 0 THEN <<>>
        ELSE IF seq[n] \in set THEN Append(kept[n - 1], seq[n]) ELSE kept[n - 1]
  IN kept[Len(seq)]

StoredAmong(shelf, list) == Kept(list, {f \in Framework : IsStored(shelf, f)})

StoredOf(shelf, status) == StoredAmong(shelf, shelf.byStatus[status])

-----------------------------------------------------------------------------
(* FrameworkEvaluator *)

LastOf(seq, n) == SubSeq(seq, Len(seq) - n + 1, Len(seq))

Total(seq) == FoldSeq(+, 0, seq)

(* The average of the last n accuracies, if there are as many.             *)
Averages(history, n, Holds(_)) ==
  Len(history) >= n /\ Holds(Total(LastOf(history, n)))

Evaluate(r) ==
  CASE /\ r.status = "candidate"
       /\ Averages(r.history, ValidationCycles, LAMBDA t : t >= ValidationAccuracy * ValidationCycles)
         -> "active"
    [] /\ r.status \in {"active", "under_review"}
       /\ Averages(r.history, RetirementCycles, LAMBDA t : t < RetirementAccuracy * RetirementCycles)
         -> "retired"
    [] /\ r.status \in {"active", "under_review"}
       /\ ~Averages(r.history, RetirementCycles, LAMBDA t : t < RetirementAccuracy * RetirementCycles)
       /\ Averages(r.history, ReviewCycles, LAMBDA t : t < ReviewAccuracy * ReviewCycles)
         -> "under_review"
    [] OTHER -> r.status

(* trend = "improving": the halves of the window differ by more than 3%. *)
Improving(history) ==
  /\ Len(history) >= ReviewCycles
  /\ LET half == ReviewCycles \div 2
         second == Total(LastOf(history, half))
         first == Total(LastOf(history, ReviewCycles)) - second
     IN second - first > 3 * half

-----------------------------------------------------------------------------
(* FrameworkStore and FrameworkSet *)

Without(seq, f) == Kept(seq, Framework \ {f})

UpdateStatusOnly(shelf, f, status) ==   \* mutant: the index is not told the new status
  LET old == shelf.frameworks[f].status
  IN [shelf EXCEPT !.frameworks[f].status = status, !.byStatus[old] = Without(@, f)]

(* _update_status: activate and mark_review. *)
UpdateStatus(shelf, f, status) ==
  LET old == shelf.frameworks[f].status
      purged == [shelf.byStatus EXCEPT ![old] = Without(@, f)]
  IN [shelf EXCEPT !.frameworks[f].status = status,
                   !.byStatus = [purged EXCEPT ![status] = Append(@, f)]]

(* retire_framework of the set: a minimum remains, even if it is retired. *)
LeftBy(set, f) ==
  IF Len(set) <= MinActive THEN set ELSE RemoveFirst(set, f)

(* _retire_framework.  The status is "retired" when the index is asked,    *)
(* which removes nothing from it.                                          *)
Retire(shelf, f) ==
  [shelf EXCEPT !.frameworks[f].status = "retired",
                !.activeSet = LeftBy(@, f)]

-----------------------------------------------------------------------------
(* FrameworkOrchestrator *)

(* attempt_formation of one cluster: form_candidate saves the framework    *)
(* and the pipeline saves it again, which lists it twice.                  *)
FormCandidate(shelf, f, members, initial) ==
  [shelf EXCEPT
     !.frameworks[f] = [status |-> "candidate", principles |-> members,
                        initial |-> initial, history |-> <<>>],
     !.byStatus["candidate"] = @ \o <<f, f>>]

(* The loops go over a list that was made before: the shelf after as many  *)
(* rounds as the list is long.                                             *)
Rounds(shelf, list, Round(_, _)) ==
  LET after[n \in 0..Len(list)] ==
        IF n = 0 THEN shelf ELSE Round(after[n - 1], list[n])
  IN after[Len(list)]

ValidateOverCapacity(now, f) ==   \* mutant: a full set does not take the framework, which is active all the same
  IF Evaluate(now.frameworks[f]) = "active"
  THEN LET activated == UpdateStatus(now, f, "active")
       IN [activated EXCEPT !.activeSet = IF Len(@) < MaxActive THEN Append(@, f) ELSE @]
  ELSE now

(* At capacity the two compared accuracies are both computed from no       *)
(* principles at all, so that nothing is replaced.                         *)
Validate(now, f) ==
  IF Evaluate(now.frameworks[f]) = "active" /\ Len(now.activeSet) < MaxActive
  THEN LET activated == UpdateStatus(now, f, "active")
       IN [activated EXCEPT !.activeSet = Append(@, f)]
  ELSE now

ValidateCandidates(shelf) == Rounds(shelf, StoredOf(shelf, "candidate"), Validate)

Review(now, f) ==
  CASE Evaluate(now.frameworks[f]) = "under_review" -> UpdateStatus(now, f, "under_review")
    [] Evaluate(now.frameworks[f]) = "retired" -> Retire(now, f)
    [] OTHER -> now

Recover(now, f) ==
  IF Improving(now.frameworks[f].history) THEN UpdateStatus(now, f, "active") ELSE now

(* evaluate_active: statuses first, then the recovery of those in review. *)
EvaluateActive(shelf) ==
  LET reviewed == Rounds(shelf, StoredAmong(shelf, [f \in Framework |-> f]), Review)
  IN Rounds(reviewed, StoredOf(reviewed, "under_review"), Recover)

(* record_accuracy: the evaluator's history, of which the windows read the *)
(* last RetirementCycles, and the trajectory, which starts with `initial'. *)
RecordAccuracy(f, accuracy) ==
  /\ IsStored(Shelf, f)
  /\ frameworks' = [frameworks EXCEPT ![f].history =
       LET longer == Append(@, accuracy)
       IN IF Len(longer) > RetirementCycles THEN Tail(longer) ELSE longer]
  /\ UNCHANGED <<byStatus, activeSet>>

Trajectory(f) == <<frameworks[f].initial>> \o frameworks[f].history
=============================================================================
