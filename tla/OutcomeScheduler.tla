-------------------------- MODULE OutcomeScheduler --------------------------
(***************************************************************************)
(* OutcomeScheduler.run of src/src/runtime/outcome_scheduler.py, from the  *)
(* query for due predictions to the invalidation of broken theses, and     *)
(* force_evaluate.  The loop over predictions is one action per iteration: *)
(* every iteration commits, so a crash between two of them is observable.  *)
(* The diagnosis and evolution that follow (step 4 of run) swallow their   *)
(* exceptions and write to no variable of this module.                     *)
(***************************************************************************)
EXTENDS PredictionRegistry, RunControl

VARIABLES
  report,   \* the run's SchedulerReport, and the loop's local variables
  torn      \* history: theses whose invalidation was cut short or never tried

schedulerVars == <<report, torn>>

(* priced: the run was given a non-empty market_data.  due, todo: the      *)
(* predictions the query returned, and those the loop has still to visit.  *)
(* evaluated, correct, incorrect, errors: the report's counters, kept as   *)
(* the predictions they count.  broken: the local set invalidated_theses;  *)
(* left: those of them still to be invalidated.                            *)
Report == [priced : BOOLEAN, due : SUBSET Prediction, todo : SUBSET Prediction,
           evaluated : SUBSET Prediction, correct : SUBSET Prediction,
           incorrect : SUBSET Prediction, errors : SUBSET Prediction,
           broken : SUBSET Thesis, left : SUBSET Thesis]

NewReport(data, D) ==
  [priced |-> data, due |-> D, todo |-> D, evaluated |-> {}, correct |-> {},
   incorrect |-> {}, errors |-> {}, broken |-> {}, left |-> {}]

NoReport == NewReport(FALSE, {})

SchedulerTypeOK ==
  /\ report \in Report
  /\ torn \subseteq Thesis

SchedulerInit ==
  /\ report = NoReport
  /\ torn = {}

-----------------------------------------------------------------------------
(* The loop's order: theses by their earliest due row, the rows of a       *)
(* thesis by expected date.  Rows of one date come in any order.           *)

Untouched(t) == \A q \in report.due : q[1] = t => q \in report.todo

OpensBefore(t, u) ==
  \E p \in report.due : p[1] = t /\
    \A q \in report.due : q[1] = u => rows[p].expected <= rows[q].expected

NextInLoop(p) ==
  /\ p \in report.todo
  /\ \A q \in report.todo :
       IF q[1] = p[1] THEN rows[p].expected <= rows[q].expected
                      ELSE Untouched(q[1]) /\ OpensBefore(p[1], q[1])

(* The report after _evaluate_prediction returned a verdict on p.          *)
Counted(p, correct) ==
  [report EXCEPT !.todo = @ \ {p},
                 !.evaluated = @ \cup {p},
                 !.correct = IF correct THEN @ \cup {p} ELSE @,
                 !.incorrect = IF correct THEN @ ELSE @ \cup {p},
                 !.broken = IF correct THEN @ ELSE @ \cup {p[1]}]

-----------------------------------------------------------------------------
(* run(date_str, market_data): the query; nothing due returns at once.     *)
SchedulerRun(d, data) ==
  /\ report' = NewReport(data, Due(d))
  /\ pc' = IF Due(d) = {} THEN "gather" ELSE "evaluate"
  /\ UNCHANGED <<registryVars, torn>>

EvaluateOne(p, correct) ==
  /\ pc = "evaluate" /\ report.priced /\ NextInLoop(p)
  /\ report' = Counted(p, correct)
  /\ MarkOutcome(p, correct, TRUE, day)
  /\ Goto("evaluate")
  /\ UNCHANGED torn

(* _evaluate_prediction raises: the except clause records it and goes on.  *)
EvaluationError(p) ==
  /\ pc = "evaluate" /\ report.priced /\ NextInLoop(p)
  /\ report' = [report EXCEPT !.todo = @ \ {p}, !.errors = @ \cup {p}]
  /\ Raise("evaluate")
  /\ UNCHANGED <<registryVars, torn>>

(* Mutant: the except clause forgets report.errors.append.                 *)
WriteErrorUnreported(p, correct) ==
  /\ pc = "evaluate" /\ report.priced /\ NextInLoop(p)
  /\ report' = Counted(p, correct)
  /\ Raise("evaluate")
  /\ UNCHANGED <<registryVars, torn>>

(* mark_outcome raises, after the counters and the broken set were updated.*)
WriteError(p, correct) ==
  /\ pc = "evaluate" /\ report.priced /\ NextInLoop(p)
  /\ report' = [Counted(p, correct) EXCEPT !.errors = @ \cup {p}]
  /\ Raise("evaluate")
  /\ UNCHANGED <<registryVars, torn>>

(* Mutant: an overdue row is counted and reported but not written.         *)
CountOverdue(p) ==
  /\ pc = "evaluate" /\ ~report.priced /\ NextInLoop(p)
  /\ report' = [report EXCEPT !.todo = @ \ {p}, !.incorrect = @ \cup {p}]
  /\ Goto("evaluate")
  /\ UNCHANGED <<registryVars, torn>>

(* Without market data the row is failed, with no value and no evaluation. *)
MarkOverdue(p) ==
  /\ pc = "evaluate" /\ ~report.priced /\ NextInLoop(p)
  /\ report' = [report EXCEPT !.todo = @ \ {p}, !.incorrect = @ \cup {p}]
  /\ MarkOutcome(p, FALSE, FALSE, Today(day))
  /\ Goto("evaluate")
  /\ UNCHANGED torn

(* Here no try surrounds mark_outcome: the exception ends the run.         *)
OverdueWriteError(p) ==
  /\ pc = "evaluate" /\ ~report.priced /\ NextInLoop(p)
  /\ Raise("idle")
  /\ UNCHANGED <<registryVars, schedulerVars>>

EvaluationDone ==
  /\ pc = "evaluate" /\ report.todo = {}
  /\ report' = [report EXCEPT !.left = report.broken]
  /\ Goto("invalidate")
  /\ UNCHANGED <<registryVars, torn>>

(* Mutant: the loop never moves on to the next thesis.                     *)
InvalidateForever(t) ==
  /\ pc = "invalidate" /\ t \in report.left
  /\ InvalidateByThesis(t, day)
  /\ torn' = torn \ {t}
  /\ Goto("invalidate")
  /\ UNCHANGED report

InvalidateThesis(t) ==
  /\ pc = "invalidate" /\ t \in report.left
  /\ InvalidateByThesis(t, day)
  /\ report' = [report EXCEPT !.left = @ \ {t}]
  /\ torn' = torn \ {t}
  /\ Goto("invalidate")

(* Nor does one surround invalidate_by_thesis: the rest is never tried.    *)
InvalidateError(t) ==
  /\ pc = "invalidate" /\ t \in report.left
  /\ torn' = torn \cup report.left
  /\ Raise("idle")
  /\ UNCHANGED <<registryVars, report>>

InvalidationDone ==
  /\ pc = "invalidate" /\ report.left = {}
  /\ Goto("gather")
  /\ UNCHANGED <<registryVars, schedulerVars>>

(* force_evaluate judges one pending row, due or not, and leaves the other *)
(* rows of its thesis alone whatever the verdict.                          *)
ForceEvaluate(p, correct) ==
  /\ pc = "idle" /\ Pending(p)
  /\ MarkOutcome(p, correct, TRUE, Today(day))
  /\ torn' = IF correct THEN torn ELSE torn \cup {p[1]}
  /\ UNCHANGED <<report, runVars>>

(* What a crash in the scheduler leaves behind: broken theses whose        *)
(* pending rows nobody will invalidate.                                    *)
TornByCrash ==
  CASE pc = "evaluate" -> report.broken
    [] pc = "invalidate" -> report.left
    [] OTHER -> {}

SchedulerWork ==
  \/ \E p \in report.todo, correct \in BOOLEAN : EvaluateOne(p, correct)
  \/ \E p \in report.todo : MarkOverdue(p)
  \/ EvaluationDone
  \/ \E t \in report.left : InvalidateThesis(t)
  \/ InvalidationDone

SchedulerFault ==
  \/ \E p \in report.todo : EvaluationError(p)
  \/ \E p \in report.todo, correct \in BOOLEAN : WriteError(p, correct)
  \/ \E p \in report.todo : OverdueWriteError(p)
  \/ \E t \in report.left : InvalidateError(t)
=============================================================================
