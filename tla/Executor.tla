------------------------------ MODULE Executor ------------------------------
(***************************************************************************)
(* AgentExecutor.execute of src/src/executor/executor.py with its          *)
(* ExecutionContext (context.py).  Execution goes in rounds: the tasks     *)
(* ready at the start of a round are run one after the other, in plan      *)
(* order, each with its attempts; then the next round is computed.  One    *)
(* action per attempt, because a handler is awaited under a timeout.       *)
(***************************************************************************)
EXTENDS TaskPlans

CONSTANT Plans      \* the plans execute() is called with

ASSUME PlansAssumption == Plans \subseteq Seq(Task)

VARIABLES
  plan,      \* argument of execute
  results,   \* ExecutionContext._task_results: status per task, "none" before
  batch,     \* tasks of the current round still to be run
  attempt,   \* attempts the task at hand has had
  epc,       \* "idle", "executing", "returned", "raised"
  status,    \* ExecutionResult.status, "none" before
  ends       \* history: how the attempts of each task ended

execVars == <<plan, results, batch, attempt, epc, status, ends>>

(* TaskResultStatus; ExecutionStatus *)
ResultStatus == {"success", "failed", "timed_out", "skipped"}
ExecutionStatus == {"completed", "partially_completed", "failed"}

Critical(t) == TaskOf(plan, t).critical
Retries(t) == TaskOf(plan, t).retries

-----------------------------------------------------------------------------
(* execute: validation, then an empty context *)

ExecInit ==
  /\ plan = <<>> /\ epc = "idle" /\ status = "none"
  /\ results = [t \in TaskId |-> "none"]
  /\ ends = [t \in TaskId |-> <<>>]
  /\ batch = {} /\ attempt = 0

HandlersCover(p) == \A i \in DOMAIN p : p[i].handled

Execute(p) ==
  /\ epc = "idle"
  /\ plan' = p
  /\ epc' = IF Validates(p) /\ HandlersCover(p) THEN "executing" ELSE "raised"
  /\ UNCHANGED <<results, batch, attempt, status, ends>>

(* The caller has the result or the exception; the context, a local of     *)
(* execute, is gone.                                                       *)
Return ==
  /\ epc \in {"returned", "raised"}
  /\ plan' = <<>> /\ epc' = "idle" /\ status' = "none"
  /\ results' = [t \in TaskId |-> "none"]
  /\ ends' = [t \in TaskId |-> <<>>]
  /\ UNCHANGED <<batch, attempt>>

-----------------------------------------------------------------------------
(* The round *)

DepIgnoredIfSoft(d) ==          \* mutant: a non-critical dependency is not waited for
  Critical(d) => results[d] = "success"

DepDone(d) == results[d] # "none"    \* mutant: critical failures block nothing

DepResolved(d) ==
  IF Critical(d) THEN results[d] = "success" ELSE results[d] # "none"

AllDepsResolved(t) == \A d \in TaskOf(plan, t).deps : DepResolved(d)

ReadyTasks == {t \in Ids(plan) : results[t] = "none" /\ AllDepsResolved(t)}

NextRound ==
  /\ epc = "executing" /\ batch = {} /\ ReadyTasks # {}
  /\ batch' = ReadyTasks
  /\ UNCHANGED <<plan, results, attempt, epc, status, ends>>

(* The loop over a round follows the order of the plan. *)
AtHand(t) == t \in batch /\ \A u \in batch : At(plan, t) <= At(plan, u)

-----------------------------------------------------------------------------
(* _execute_one *)

Record(t, result) ==
  /\ results' = [results EXCEPT ![t] = result]
  /\ batch' = batch \ {t}
  /\ attempt' = 0

(* Failures of a non-critical task are recorded as skipped. *)
Degraded(t, result) == IF Critical(t) THEN result ELSE "skipped"

Ended(t, how) == ends' = [ends EXCEPT ![t] = Append(@, how)]

AtWork(t) == epc = "executing" /\ AtHand(t)

NoAttemptUnrecorded(t) ==   \* mutant: the empty loop leaves no result
  /\ AtWork(t) /\ attempt >= Retries(t)
  /\ batch' = batch \ {t}
  /\ UNCHANGED <<plan, results, attempt, epc, status, ends>>

(* max_retries of 0: the loop over the attempts is empty. *)
NoAttempt(t) ==
  /\ AtWork(t) /\ attempt >= Retries(t)
  /\ Record(t, Degraded(t, "failed"))
  /\ UNCHANGED <<plan, epc, status, ends>>

(* The handler returns a TaskResult: handlers report their own errors with *)
(* the status FAILED, which is not degraded and not retried.               *)
HandlerReturns(t) ==
  /\ AtWork(t) /\ attempt < Retries(t)
  /\ \E result \in {"success", "failed"} : Record(t, result) /\ Ended(t, result)
  /\ UNCHANGED <<plan, epc, status>>

LastButOne(t) == attempt + 2 >= Retries(t)     \* mutant: off by one

LastAttempt(t) == attempt + 1 >= Retries(t)

AttemptsLeft == attempt - 1                    \* mutant: counted down from nothing

AttemptsCounted == attempt + 1

(* A timeout or a transient error is retried after a pause, up to the      *)
(* configured number of attempts.                                          *)
TimesOut(t) ==
  /\ AtWork(t) /\ attempt < Retries(t)
  /\ IF LastAttempt(t)
     THEN Record(t, Degraded(t, "timed_out"))
     ELSE attempt' = AttemptsCounted /\ UNCHANGED <<results, batch>>
  /\ Ended(t, "timeout")
  /\ UNCHANGED <<plan, epc, status>>

TransientError(t) ==
  /\ AtWork(t) /\ attempt < Retries(t)
  /\ IF LastAttempt(t)
     THEN Record(t, Degraded(t, "failed"))
     ELSE attempt' = AttemptsCounted /\ UNCHANGED <<results, batch>>
  /\ Ended(t, "transient")
  /\ UNCHANGED <<plan, epc, status>>

OtherError(t) ==
  /\ AtWork(t) /\ attempt < Retries(t)
  /\ Record(t, Degraded(t, "failed")) /\ Ended(t, "error")
  /\ UNCHANGED <<plan, epc, status>>

-----------------------------------------------------------------------------
(* to_execution_result *)

SucceededOrSkipped ==      \* mutant: a degraded task counts as a success
  Cardinality({t \in Ids(plan) : results[t] \in {"success", "skipped"}})

Succeeded == Cardinality({t \in Ids(plan) : results[t] = "success"})

OverallStatus ==
  IF Succeeded = Len(plan) THEN "completed"
  ELSE IF Succeeded > 0 THEN "partially_completed"
  ELSE "failed"

Finish ==
  /\ epc = "executing" /\ batch = {} /\ ReadyTasks = {}
  /\ epc' = "returned" /\ status' = OverallStatus
  /\ UNCHANGED <<plan, results, batch, attempt, ends>>

-----------------------------------------------------------------------------
RunTask(t) ==
  \/ NoAttempt(t)
  \/ HandlerReturns(t)
  \/ TimesOut(t)
  \/ TransientError(t)
  \/ OtherError(t)

ExecWork == NextRound \/ (\E t \in TaskId : RunTask(t)) \/ Finish

ExecNext == (\E p \in Plans : Execute(p)) \/ ExecWork \/ Return

ExecSpec == ExecInit /\ [][ExecNext]_execVars

(* execute is one coroutine whose every await ends: the handlers run under *)
(* wait_for, the pauses are finite.                                        *)
FairExecSpec == ExecSpec /\ WF_execVars(ExecWork)

-----------------------------------------------------------------------------
(* Properties *)

(* Every variable of the executor has its type, batch only tasks of the    *)
(* plan.                                                                   *)
ExecTypeOK ==
  /\ plan \in Seq(Task)
  /\ results \in [TaskId -> ResultStatus \cup {"none"}]
  /\ batch \subseteq Ids(plan)
  /\ attempt \in Nat
  /\ epc \in {"idle", "executing", "returned", "raised"}
  /\ status \in ExecutionStatus \cup {"none"}
  /\ DOMAIN ends = TaskId

(* A plan is executed exactly if its dependencies are an acyclic relation  *)
(* on its tasks and every capability has a handler: Kahn's algorithm of    *)
(* the validator refuses no good plan and lets no bad one pass.            *)
ValidatedExactly ==
  /\ epc = "executing" => WellFormed(plan) /\ HandlersCover(plan)
  /\ epc = "raised" => ~(WellFormed(plan) /\ HandlersCover(plan))

(* When execution ends, the tasks without a result are those that have a   *)
(* critical task that did not succeed before them, at any distance; every  *)
(* other task was run, whatever happened to non-critical ones.             *)
BlockedExactly ==
  epc = "returned" =>
    \A t \in Ids(plan) :
      results[t] = "none" <=>
        \E u \in Ancestors(plan, t) : Critical(u) /\ results[u] \notin {"success", "none"}

(* No attempt is made beyond max_retries, none after an attempt that is    *)
(* not to be retried, and a task is given up after a timeout or a          *)
(* transient error only when its attempts are spent.                       *)
AttemptsRespected ==
  \A t \in Ids(plan) :
    /\ Len(ends[t]) <= Retries(t)
    /\ \A i \in DOMAIN ends[t] :
         ends[t][i] \notin {"timeout", "transient"} => i = Len(ends[t]) /\ results[t] # "none"
    /\ (/\ results[t] # "none"
        /\ \A i \in DOMAIN ends[t] : ends[t][i] \in {"timeout", "transient"})
       => Len(ends[t]) = Retries(t)

(* Execution of a plan that was accepted comes to an end. *)
ExecutionEnds == (epc = "executing") ~> (epc = "returned")

(* The executor implements the abstract task graph.  A task is settled     *)
(* when its result is recorded, not when its round was computed.           *)
Graph == INSTANCE TaskGraph WITH
  graph <- plan, settled <- results,
  phase <- IF epc = "executing" THEN "open" ELSE "closed",
  verdict <- IF epc = "raised" THEN "refused" ELSE status

ImplementsTaskGraph == Graph!GraphSpec
=============================================================================
