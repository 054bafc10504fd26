------------------------- MODULE PredictionRegistry -------------------------
(***************************************************************************)
(* The SQLite table of predictions, src/src/runtime/prediction_registry.py.*)
(* A row is identified by its thesis and its slot in the thesis's batch;   *)
(* each method of the class that writes is one operator on rows'.  Reads   *)
(* see the uncommitted rows of their own connection, so "open" tells the   *)
(* rows a crash would roll back from those that are durable.               *)
(***************************************************************************)
EXTENDS Integers, FiniteSets, ResearchDomain

CONSTANTS
  Horizon,   \* Horizon[s]: days until the prediction in slot s is due
  Asset,     \* Asset[s]: the indicator that prediction is about
  Window,    \* how far back "recently" reaches (the code uses 7 days)
  Replay,    \* TRUE: dates are historical, the wall clock is at Now
  Now        \* the wall-clock day in replay mode

ASSUME RegistryAssumption ==
  /\ Horizon \in [Slot -> Nat]
  /\ Asset \in [Slot -> STRING]
  /\ Window \in Nat
  /\ Replay \in BOOLEAN
  /\ Now \in Nat

VARIABLES
  rows,   \* the table, as the program's connection reads it
  open    \* the rows inserted in a transaction that was never committed

registryVars == <<rows, open>>

Prediction == Thesis \X Slot
Status == {"absent", "pending", "success", "failed", "invalidated"}
Terminal == {"success", "failed", "invalidated"}

(* expected: expected_date.  stamp: actual_date for an evaluated row,      *)
(* evaluated_at for an invalidated one.  valued: actual_value is not NULL. *)
Row == [status : Status, expected : Nat, stamp : Nat, valued : BOOLEAN]

NoRow == [status |-> "absent", expected |-> 0, stamp |-> 0, valued |-> FALSE]

RegistryTypeOK ==
  /\ rows \in [Prediction -> Row]
  /\ open \subseteq Prediction

RegistryInit ==
  /\ rows = [p \in Prediction |-> NoRow]
  /\ open = {}

RowsOf(t) == {p \in Prediction : p[1] = t}
Pending(p) == rows[p].status = "pending"

(* date_type.today(), the default of every date the caller does not pass.  *)
Today(d) == IF Replay THEN Now ELSE d

-----------------------------------------------------------------------------
(* Queries *)

(* Mutant: off by one, predictions are judged the day before they are due. *)
DueTomorrow(d) == {p \in Prediction : Pending(p) /\ rows[p].expected <= d + 1}

Due(d) == {p \in Prediction : Pending(p) /\ rows[p].expected <= d}

Recent(p, d) == rows[p].stamp + Window >= Today(d)

(* Mutant: the query forgets to look at the status.                        *)
RecentlyEvaluated(d) ==
  {p \in Prediction : rows[p].status \in {"success", "failed"} /\ Recent(p, d)}

RecentlyInvalidated(d) ==
  {p \in Prediction : rows[p].status = "invalidated" /\ Recent(p, d)}

-----------------------------------------------------------------------------
(* Updates.  Each ends in commit(), which also makes durable whatever an   *)
(* earlier call left in the open transaction.                              *)

NewRow(s, d) ==
  [status |-> "pending", expected |-> d + Horizon[s], stamp |-> 0, valued |-> FALSE]

Insert(t, S, d) ==
  rows' = [p \in Prediction |->
             IF p[1] = t /\ p[2] \in S THEN NewRow(p[2], d) ELSE rows[p]]

RegisterPredictions(t, S, d) == Insert(t, S, d) /\ open' = {}

(* A prediction that cannot be converted or inserted raises in the middle  *)
(* of the loop: the rows before it stay in the open transaction.           *)
RegisterBreaksOff(t, S, d) ==
  /\ Insert(t, S, d)
  /\ open' = open \cup {p \in RowsOf(t) : p[2] \in S}

MarkOutcome(p, success, withValue, d) ==
  /\ rows' = [rows EXCEPT ![p].status = IF success THEN "success" ELSE "failed",
                          ![p].stamp = d,
                          ![p].valued = withValue]
  /\ open' = {}

(* Mutant: the status is spelt as ThesisStatus's name, not its value.      *)
InvalidateMisspelt(t, d) ==
  /\ rows' = [p \in Prediction |->
                IF p[1] = t /\ Pending(p)
                THEN [rows[p] EXCEPT !.status = "INVALIDATED", !.stamp = Today(d)]
                ELSE rows[p]]
  /\ open' = {}

(* Mutant: the UPDATE has lost "AND status = 'pending'".                   *)
InvalidateAllRows(t, d) ==
  /\ rows' = [p \in Prediction |->
                IF p[1] = t /\ rows[p].status # "absent"
                THEN [rows[p] EXCEPT !.status = "invalidated", !.stamp = Today(d)]
                ELSE rows[p]]
  /\ open' = {}

(* Mutant: only the rows that are due are withdrawn.                       *)
InvalidateDueRows(t, d) ==
  /\ rows' = [p \in Prediction |->
                IF p[1] = t /\ p \in Due(d)
                THEN [rows[p] EXCEPT !.status = "invalidated", !.stamp = Today(d)]
                ELSE rows[p]]
  /\ open' = {}

InvalidateByThesis(t, d) ==
  /\ rows' = [p \in Prediction |->
                IF p[1] = t /\ Pending(p)
                THEN [rows[p] EXCEPT !.status = "invalidated", !.stamp = Today(d)]
                ELSE rows[p]]
  /\ open' = {}

(* The process ends without close(): SQLite rolls the transaction back.    *)
RollBack ==
  /\ rows' = [p \in Prediction |-> IF p \in open THEN NoRow ELSE rows[p]]
  /\ open' = {}
=============================================================================
