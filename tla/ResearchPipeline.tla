-------------------------- MODULE ResearchPipeline --------------------------
(***************************************************************************)
(* MacroResearchPipeline.run of src/src/pipeline.py: plan the goal,        *)
(* execute the plan, track outcomes and learn from them, render, answer.   *)
(* One pipeline object serves several runs, one after the other.  Every    *)
(* exception of planning and execution becomes an answer with the status   *)
(* FAILED; the steps after the execution swallow their own.                *)
(***************************************************************************)
EXTENDS Planner, Executor

CONSTANTS
  Produces,       \* Produces[t]: names of the artifacts the handler of task t leaves
  MaxRequests     \* bound on the calls of run

VARIABLES
  handlers,  \* "none", "partly" or "all" handlers registered with the executor
  goal,      \* argument of the current run, or of the last one
  answer,    \* PipelineResult of the last run, NoAnswer during a run
  requests,  \* history: calls of run so far
  file       \* history: the rules file the planner was made from

pipeVars == <<templates, handlers, goal, answer, requests, file, execVars>>

(* PipelineResult: the status, and which of the fields that the steps      *)
(* after the execution fill are not None.                                  *)
Field == {"outcome_summary", "learning_summary", "calibrated_confidence", "composite_signals"}

NoAnswer == [status |-> "none", fields |-> {}]

Failure == [status |-> "failed", fields |-> {}]

PipeInit ==
  /\ file \in RuleFiles /\ templates = file
  /\ handlers = "none"
  /\ goal = <<>> /\ answer = NoAnswer /\ requests = 0
  /\ ExecInit

Idle == epc = "idle" /\ (requests = 0 \/ answer # NoAnswer)

(* Registration that raises half-way leaves the first handlers with the    *)
(* executor, which refuses them when they come again.                      *)
RegistrationFails(g) ==
  /\ Idle /\ requests < MaxRequests /\ handlers # "all"
  /\ requests' = requests + 1 /\ goal' = g
  /\ handlers' = "partly" /\ answer' = Failure
  /\ UNCHANGED <<templates, file, execVars>>

HandlersUsable == handlers # "partly"

(* The engines of the later steps are built lazily after the handlers;     *)
(* what raises there is tried again by the next run.                       *)
EnginesFail(g) ==
  /\ Idle /\ requests < MaxRequests /\ HandlersUsable
  /\ requests' = requests + 1 /\ goal' = g
  /\ handlers' = "all" /\ answer' = Failure
  /\ UNCHANGED <<templates, file, execVars>>

(* create_plan validates what it has merged; a plan that fails is an       *)
(* error of the run, and the merged templates stay.                        *)
Run(g) ==
  /\ Idle /\ requests < MaxRequests /\ HandlersUsable
  /\ requests' = requests + 1 /\ goal' = g
  /\ handlers' = IF handlers = "none" THEN "all" ELSE handlers
  /\ Retain(g)
  /\ LET p == PlanFor(templates, g)
     IN IF Validates(p)
        THEN Execute(p) /\ answer' = NoAnswer
        ELSE answer' = Failure /\ UNCHANGED execVars
  /\ UNCHANGED file

ExecutorWorks == ExecWork /\ UNCHANGED <<templates, handlers, goal, answer, requests, file>>

Artifacts == UNION {Produces[t] : t \in {u \in TaskId : results[u] = "success"}}

(* The queries the belief store has: outcome tracking begins with get_all, *)
(* whose AttributeError is logged as "outcome_tracking_skipped".           *)
BeliefQueries ==
  {"last_belief", "recent_beliefs", "all_beliefs", "has_reversal", "belief_count"}

(* The artifacts each later step asks for, under these names.              *)
Filled ==
  {f \in Field :
     CASE f \in {"outcome_summary", "learning_summary"} -> "get_all" \in BeliefQueries
       [] f = "calibrated_confidence" -> {"hypothesis_set", "reflection_set"} \subseteq Artifacts
       [] f = "composite_signals" -> "signal_snapshot" \in Artifacts}

Answer ==
  /\ epc = "returned"
  /\ answer' = [status |-> status, fields |-> Filled]
  /\ Return
  /\ UNCHANGED <<templates, handlers, goal, requests, file>>

AnswerLateFailure ==       \* mutant: the executor's refusal escapes from run
  /\ epc = "returned"
  /\ answer' = Failure
  /\ Return
  /\ UNCHANGED <<templates, handlers, goal, requests, file>>

(* The executor refused the plan, or a renderer raised: run answers FAILED *)
(* although in the second case the tasks have been executed.               *)
AnswerFailure ==
  /\ epc \in {"raised", "returned"}
  /\ answer' = Failure
  /\ Return
  /\ UNCHANGED <<templates, handlers, goal, requests, file>>

PipeNext ==
  \/ \E g \in Goal : RegistrationFails(g) \/ EnginesFail(g) \/ Run(g)
  \/ ExecutorWorks
  \/ Answer
  \/ AnswerFailure

PipeSpec == PipeInit /\ [][PipeNext]_pipeVars

(* run is one coroutine whose every await ends. *)
FairPipeSpec == PipeSpec /\ WF_pipeVars(ExecutorWorks \/ Answer \/ AnswerFailure)

-----------------------------------------------------------------------------
(* Properties *)

(* The plan being executed has every task that the rules of the goal name  *)
(* in the rules file, with at least the dependencies each of these rules   *)
(* gives it, and the settings of the rule that matched best: whatever      *)
(* earlier goals have left in the templates, nothing is run before what a  *)
(* matched rule wants to come first.                                       *)
PlanHonoursRules ==
  epc \in {"executing", "returned"} =>
    LET offered == Offered(file, Matches(goal))
    IN \A n \in DOMAIN offered :
         /\ offered[n].id \in Ids(plan)
         /\ offered[n].deps \subseteq TaskOf(plan, offered[n].id).deps
         /\ IsFirst(offered, n) =>
              /\ TaskOf(plan, offered[n].id).critical = offered[n].critical
              /\ TaskOf(plan, offered[n].id).retries = offered[n].retries

(* A run answers COMPLETED only if every task that the rules file names    *)
(* for the goal has succeeded.                                             *)
CompletedMeansAll ==
  [][answer'.status = "completed" /\ answer # answer' =>
       LET offered == Offered(file, Matches(goal))
       IN \A n \in DOMAIN offered : results[offered[n].id] = "success"]_pipeVars

(* Every run is answered. *)
RunAnswered == (requests > 0 /\ answer = NoAnswer) ~> (answer # NoAnswer)
=============================================================================
