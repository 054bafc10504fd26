------------------------ MODULE PredictionLifecycle ------------------------
(***************************************************************************)
(* What the daily loop promises about a prediction, with no word of how:   *)
(* it is registered together with the other predictions of a new thesis,   *)
(* it is judged in a run on or after its due day (or by request between    *)
(* runs), or withdrawn in a run that found the thesis's due predictions    *)
(* broken, and what was once decided is neither changed nor forgotten.     *)
(***************************************************************************)
EXTENDS Integers, FiniteSets, ResearchDomain

CONSTANT Horizon   \* Horizon[s]: days until the prediction in slot s is due

VARIABLES
  life,      \* what has become of each prediction
  due,       \* the day each registered prediction is due
  today,     \* the day of the latest run
  running    \* TRUE during a run

lifeVars == <<life, due, today, running>>

Prediction == Thesis \X Slot
Decided == {"success", "failed", "invalidated"}
Batch(t) == {p \in Prediction : p[1] = t}

LifeInit ==
  /\ life = [p \in Prediction |-> "absent"]
  /\ due = [p \in Prediction |-> 0]
  /\ today = 0
  /\ running = FALSE

Begin ==
  /\ ~running /\ running' = TRUE
  /\ today' \in Nat /\ today' >= today
  /\ UNCHANGED <<life, due>>

End == running /\ running' = FALSE /\ UNCHANGED <<life, due, today>>

(* A thesis registers once.  It may be that only part of its batch arrives,*)
(* and that the run ends there.                                            *)
Arrive(t, S) ==
  /\ running /\ running' \in BOOLEAN
  /\ \A p \in Batch(t) : life[p] = "absent"
  /\ life' = [p \in Prediction |-> IF p[1] = t /\ p[2] \in S THEN "pending" ELSE life[p]]
  /\ due' = [p \in Prediction |->
               IF p[1] = t /\ p[2] \in S THEN today + Horizon[p[2]] ELSE due[p]]
  /\ UNCHANGED today

JudgeDue(p, verdict) ==
  /\ running /\ life[p] = "pending" /\ due[p] <= today
  /\ life' = [life EXCEPT ![p] = verdict]
  /\ UNCHANGED <<due, today, running>>

JudgeOnRequest(p, verdict) ==
  /\ ~running /\ life[p] = "pending"
  /\ life' = [life EXCEPT ![p] = verdict]
  /\ UNCHANGED <<due, today, running>>

(* Withdrawing a thesis takes all its pending predictions, and there must  *)
(* have been a due one to find it broken by.                               *)
Withdraw(t) ==
  /\ running
  /\ \E p \in Batch(t) : life[p] # "absent" /\ due[p] <= today
  /\ life' = [p \in Prediction |->
                IF p[1] = t /\ life[p] = "pending" THEN "invalidated" ELSE life[p]]
  /\ UNCHANGED <<due, today, running>>

(* A stop of the process may take undecided predictions with it.           *)
Stop(S) ==
  /\ \A p \in S : life[p] = "pending"
  /\ life' = [p \in Prediction |-> IF p \in S THEN "absent" ELSE life[p]]
  /\ due' = [p \in Prediction |-> IF p \in S THEN 0 ELSE due[p]]
  /\ running' = FALSE
  /\ UNCHANGED today

LifeNext ==
  \/ Begin
  \/ End
  \/ \E t \in Thesis, S \in SUBSET Slot : Arrive(t, S)
  \/ \E p \in Prediction, v \in {"success", "failed"} : JudgeDue(p, v) \/ JudgeOnRequest(p, v)
  \/ \E t \in Thesis : Withdraw(t)
  \/ \E S \in SUBSET Prediction : Stop(S)

LifeSpec == LifeInit /\ [][LifeNext]_lifeVars
=============================================================================
