-------------------------- MODULE Executor_proofs --------------------------
(***************************************************************************)
(* Theorems about the executor, for any set of task ids and any plans: the *)
(* attempts of a task stay within its retries, the executor implements the *)
(* abstract task graph, the validator accepts exactly the plans whose      *)
(* dependencies are acyclic, and an execution leaves exactly the blocked   *)
(* tasks undone.  The first two use of the validator only that ids are     *)
(* unique and references known.                                            *)
(***************************************************************************)
EXTENDS Executor, LoopLemmas, FiniteSetTheorems, SequenceTheorems, TLAPS

(* The task found by its id. *)
LEMMA TaskFound ==
  ASSUME NEW p \in Seq(Task), NEW t \in Ids(p)
  PROVE  /\ At(p, t) \in DOMAIN p
         /\ TaskOf(p, t) \in Task
         /\ TaskOf(p, t).id = t
  <1>1. PICK i \in DOMAIN p : p[i].id = t
    BY DEF Ids
  <1>2. At(p, t) \in DOMAIN p /\ p[At(p, t)].id = t
    BY <1>1 DEF At
  <1>3. QED
    BY <1>2 DEF TaskOf

LEMMA TaskFields ==
  ASSUME NEW p \in Seq(Task), NEW t \in Ids(p)
  PROVE  /\ t \in TaskId
         /\ TaskOf(p, t).retries \in Nat
         /\ TaskOf(p, t).critical \in BOOLEAN
         /\ TaskOf(p, t).deps \subseteq TaskId
  <1>1. TaskOf(p, t) \in Task /\ TaskOf(p, t).id = t
    BY TaskFound
  <1>2. QED
    BY <1>1 DEF Task

(* With references checked, dependencies are tasks of the plan. *)
LEMMA DepsInPlan ==
  ASSUME NEW p \in Seq(Task), ReferencesExist(p), NEW t \in Ids(p)
  PROVE  TaskOf(p, t).deps \subseteq Ids(p)
  BY TaskFound DEF ReferencesExist, TaskOf

(* Two tasks are not at the same place. *)
LEMMA PlacesDiffer ==
  ASSUME NEW p \in Seq(Task), NEW t \in Ids(p), NEW u \in Ids(p), At(p, t) = At(p, u)
  PROVE  t = u
  BY TaskFound DEF TaskOf

(* With unique ids there are as many ids as tasks. *)
LEMMA AsManyIdsAsTasks ==
  ASSUME NEW p \in Seq(Task), UniqueIds(p)
  PROVE  IsFiniteSet(Ids(p)) /\ Cardinality(Ids(p)) = Len(p)
  <1> DEFINE f == [i \in 1..Len(p) |-> p[i].id]
  <1>1. f \in Bijection(1..Len(p), Ids(p))
    <2>1. DOMAIN p = 1..Len(p)
      OBVIOUS
    <2>2. f \in [1..Len(p) -> Ids(p)]
      BY <2>1 DEF Ids
    <2>3. \A i, j \in 1..Len(p) : f[i] = f[j] => i = j
      BY <2>1 DEF UniqueIds
    <2>4. \A t \in Ids(p) : \E i \in 1..Len(p) : f[i] = t
      BY <2>1 DEF Ids
    <2>5. QED
      BY <2>2, <2>3, <2>4, Zenon DEF Bijection, Injection, Surjection, IsInjective
  <1>2. Len(p) \in Nat /\ IsFiniteSet(1..Len(p)) /\ Cardinality(1..Len(p)) = Len(p)
    <2>1. Len(p) \in Nat
      OBVIOUS
    <2>2. IsFiniteSet(1..Len(p)) /\ Cardinality(1..Len(p)) = IF 1 > Len(p) THEN 0 ELSE Len(p) - 1 + 1
      BY <2>1, FS_Interval
    <2>3. QED
      BY <2>1, <2>2
  <1>3. ExistsBijection(1..Len(p), Ids(p))
    BY <1>1 DEF ExistsBijection
  <1>4. QED
    BY <1>2, <1>3, FS_Bijection

(* The status by counting is the status by looking at every task. *)
LEMMA StatusByTasks ==
  ASSUME plan \in Seq(Task), UniqueIds(plan)
  PROVE  OverallStatus = IF \A t \in Ids(plan) : results[t] = "success" THEN "completed"
                         ELSE IF \E t \in Ids(plan) : results[t] = "success"
                              THEN "partially_completed"
                         ELSE "failed"
  <1> DEFINE S == {t \in Ids(plan) : results[t] = "success"}
  <1>1. IsFiniteSet(Ids(plan)) /\ Cardinality(Ids(plan)) = Len(plan)
    BY AsManyIdsAsTasks
  <1>2. IsFiniteSet(S) /\ (Cardinality(Ids(plan)) = Cardinality(S) => Ids(plan) = S)
    BY <1>1, FS_Subset
  <1>3. Cardinality(S) \in Nat /\ (Cardinality(S) = 0 <=> S = {})
    BY <1>2, FS_EmptySet, FS_CardinalityType
  <1>4. Succeeded = Cardinality(S)
    BY DEF Succeeded
  <1>5. CASE \A t \in Ids(plan) : results[t] = "success"
    <2>1. S = Ids(plan)
      BY <1>5
    <2>2. QED
      BY <1>1, <1>4, <1>5, <2>1 DEF OverallStatus
  <1>6. CASE ~\A t \in Ids(plan) : results[t] = "success"
    <2>1. S # Ids(plan)
      BY <1>6
    <2>2. Succeeded # Len(plan)
      BY <1>1, <1>2, <1>4, <2>1
    <2>3. Succeeded > 0 <=> \E t \in Ids(plan) : results[t] = "success"
      BY <1>3, <1>4
    <2>4. QED
      BY <1>6, <2>2, <2>3 DEF OverallStatus
  <1>7. QED
    BY <1>5, <1>6

-----------------------------------------------------------------------------
(* The inductive invariant *)

Retryable == {"timeout", "transient"}

End == {"success", "failed", "timeout", "transient", "error"}

TypeInv ==
  /\ ExecTypeOK
  /\ ends \in [TaskId -> Seq(End)]

(* The plan in execution has passed the checks of the validator. *)
PlanInv ==
  epc \in {"executing", "returned"} => UniqueIds(plan) /\ ReferencesExist(plan)

(* Outside an execution there is no context. *)
ContextInv ==
  /\ epc \in {"idle", "raised"} =>
       /\ results = [t \in TaskId |-> "none"]
       /\ ends = [t \in TaskId |-> <<>>]
  /\ epc \in {"idle", "raised", "executing"} => status = "none"
  /\ epc = "idle" => plan = <<>>
  /\ epc # "executing" => batch = {}

(* What a round has still to run is without result, and stays ready: the   *)
(* results it was waiting for do not change any more.                      *)
RoundInv == \A t \in batch : results[t] = "none" /\ AllDepsResolved(t)

(* Only the task at hand has had attempts without a result, and they all   *)
(* may be repeated.                                                        *)
AttemptInv ==
  /\ \A t \in Ids(plan) :
       results[t] = "none" =>
         /\ \A i \in DOMAIN ends[t] : ends[t][i] \in Retryable
         /\ ~AtHand(t) => ends[t] = <<>>
  /\ \A t \in batch :
       AtHand(t) => Len(ends[t]) = attempt /\ attempt <= Retries(t)
  /\ batch = {} => attempt = 0

Inv == TypeInv /\ PlanInv /\ ContextInv /\ RoundInv

AInv == AttemptInv /\ AttemptsRespected

-----------------------------------------------------------------------------
(* The steps of a task *)

(* A task at hand is a task of the plan, without result, and ready.        *)
LEMMA AtHandFacts ==
  ASSUME Inv, NEW t \in TaskId, AtWork(t)
  PROVE  /\ epc = "executing" /\ t \in batch /\ t \in Ids(plan)
         /\ results[t] = "none" /\ AllDepsResolved(t)
         /\ UniqueIds(plan) /\ ReferencesExist(plan)
         /\ plan \in Seq(Task) /\ Retries(t) \in Nat /\ Critical(t) \in BOOLEAN
  <1>1. epc = "executing" /\ t \in batch
    BY DEF AtWork, AtHand
  <1>2. plan \in Seq(Task) /\ t \in Ids(plan)
    BY <1>1 DEF Inv, TypeInv, ExecTypeOK
  <1>3. Retries(t) \in Nat /\ Critical(t) \in BOOLEAN
    BY <1>2, TaskFields DEF Retries, Critical
  <1>4. QED
    BY <1>1, <1>2, <1>3 DEF Inv, PlanInv, RoundInv

(* Recording the result of a task leaves the others of the round ready.    *)
LEMMA RecordKeepsRound ==
  ASSUME Inv, NEW t \in TaskId, AtWork(t), NEW r \in ResultStatus, Record(t, r), plan' = plan
  PROVE  /\ results' \in [TaskId -> ResultStatus \cup {"none"}]
         /\ batch' \subseteq Ids(plan') /\ attempt' \in Nat
         /\ RoundInv'
  <1>1. results \in [TaskId -> ResultStatus \cup {"none"}] /\ batch \subseteq Ids(plan)
    BY DEF Inv, TypeInv, ExecTypeOK
  <1>2. results' \in [TaskId -> ResultStatus \cup {"none"}]
    BY <1>1 DEF Record
  <1>3. batch' \subseteq Ids(plan') /\ attempt' \in Nat
    BY <1>1 DEF Record
  <1>4. ASSUME NEW u \in batch' PROVE results'[u] = "none" /\ AllDepsResolved(u)'
    <2>1. u \in batch /\ u # t
      BY <1>4 DEF Record
    <2>2. results[u] = "none" /\ AllDepsResolved(u)
      BY <2>1 DEF Inv, RoundInv
    <2>3. u \in Ids(plan) /\ u \in TaskId /\ plan \in Seq(Task)
      BY <1>1, <2>1, AtHandFacts, TaskFields
    <2>4. results'[u] = "none"
      BY <1>1, <2>1, <2>2, <2>3 DEF Record
    <2>5. ASSUME NEW d \in TaskOf(plan, u).deps PROVE DepResolved(d)'
      <3>1. DepResolved(d) /\ d \in TaskId
        BY <2>2, <2>3, <2>5, TaskFields DEF AllDepsResolved
      <3>2. results[d] # "none"
        BY <3>1 DEF DepResolved
      <3>3. d # t
        BY <3>2, AtHandFacts
      <3>4. results'[d] = results[d]
        BY <1>1, <3>1, <3>3 DEF Record
      <3>5. QED
        BY <3>1, <3>4 DEF DepResolved, Critical
    <2>6. QED
      BY <2>4, <2>5 DEF AllDepsResolved
  <1>5. QED
    BY <1>2, <1>3, <1>4 DEF RoundInv

(* Noting how an attempt ended keeps the history well typed.               *)
LEMMA EndedType ==
  ASSUME TypeInv, NEW t \in TaskId, NEW e \in End, Ended(t, e)
  PROVE  /\ ends' \in [TaskId -> Seq(End)]
         /\ ends'[t] = Append(ends[t], e)
         /\ \A u \in TaskId \ {t} : ends'[u] = ends[u]
  <1>1. ends \in [TaskId -> Seq(End)]
    BY DEF TypeInv
  <1>2. ends[t] \in Seq(End)
    BY <1>1
  <1>3. Append(ends[t], e) \in Seq(End)
    BY <1>2
  <1>4. QED
    BY <1>1, <1>3 DEF Ended

(* What an attempt of a task may do: settle the task or leave it for       *)
(* another attempt.                                                        *)
Settles(t, r) ==
  /\ r \in ResultStatus
  /\ r = "skipped" => ~Critical(t)
  /\ r = "timed_out" => Critical(t)
  /\ Record(t, r)

Repeats(t) ==
  /\ attempt < Retries(t) /\ ~LastAttempt(t)
  /\ attempt' = attempt + 1
  /\ UNCHANGED <<results, batch>>
  /\ \E e \in Retryable : Ended(t, e)

LEMMA RunTaskCases ==
  ASSUME Inv, NEW t \in TaskId, RunTask(t)
  PROVE  /\ AtWork(t)
         /\ UNCHANGED <<plan, epc, status>>
         /\ (\E r \in ResultStatus : Settles(t, r)) \/ Repeats(t)
         /\ UNCHANGED ends \/ \E e \in End : Ended(t, e)
  <1>1. AtWork(t)
    BY DEF RunTask, NoAttempt, HandlerReturns, TimesOut, TransientError, OtherError
  <1>2. Critical(t) \in BOOLEAN
    BY <1>1, AtHandFacts
  <1>3. CASE NoAttempt(t)
    BY <1>1, <1>2, <1>3 DEF NoAttempt, Degraded, Settles, ResultStatus
  <1>4. CASE HandlerReturns(t)
    BY <1>1, <1>4 DEF HandlerReturns, Settles, ResultStatus, End
  <1>5. CASE TimesOut(t)
    BY <1>1, <1>2, <1>5
       DEF TimesOut, Degraded, Settles, Repeats, AttemptsCounted, ResultStatus, End, Retryable
  <1>6. CASE TransientError(t)
    BY <1>1, <1>2, <1>6
       DEF TransientError, Degraded, Settles, Repeats, AttemptsCounted, ResultStatus, End, Retryable
  <1>7. CASE OtherError(t)
    BY <1>1, <1>2, <1>7 DEF OtherError, Degraded, Settles, ResultStatus, End
  <1>8. QED
    BY <1>3, <1>4, <1>5, <1>6, <1>7 DEF RunTask

LEMMA RunTaskInv ==
  ASSUME Inv, NEW t \in TaskId, RunTask(t)
  PROVE  Inv'
  <1>1. AtWork(t) /\ UNCHANGED <<plan, epc, status>>
    BY RunTaskCases
  <1>2. epc = "executing" /\ UniqueIds(plan) /\ ReferencesExist(plan)
    BY <1>1, AtHandFacts
  <1>3. ends' \in [TaskId -> Seq(End)]
    <2>1. CASE UNCHANGED ends
      BY <2>1 DEF Inv, TypeInv
    <2>2. CASE \E e \in End : Ended(t, e)
      BY <2>2, EndedType DEF Inv
    <2>3. QED
      BY <2>1, <2>2, RunTaskCases
  <1>4. /\ results' \in [TaskId -> ResultStatus \cup {"none"}]
        /\ batch' \subseteq Ids(plan') /\ attempt' \in Nat /\ RoundInv'
    <2>1. CASE \E r \in ResultStatus : Settles(t, r)
      BY <1>1, <2>1, RecordKeepsRound DEF Settles
    <2>2. CASE Repeats(t)
      <3>1. attempt' \in Nat /\ UNCHANGED <<results, batch, plan>>
        BY <1>1, <2>2 DEF Repeats, Inv, TypeInv, ExecTypeOK
      <3>2. RoundInv'
        BY <3>1 DEF Inv, RoundInv, AllDepsResolved, DepResolved, Critical
      <3>3. QED
        BY <3>1, <3>2 DEF Inv, TypeInv, ExecTypeOK
    <2>3. QED
      BY <2>1, <2>2, RunTaskCases
  <1>5. TypeInv'
    BY <1>1, <1>3, <1>4 DEF Inv, TypeInv, ExecTypeOK
  <1>6. PlanInv' /\ ContextInv'
    BY <1>1, <1>2 DEF Inv, PlanInv, ContextInv
  <1>7. QED
    BY <1>4, <1>5, <1>6 DEF Inv

-----------------------------------------------------------------------------
(* The other steps *)

LEMMA InitInv == ExecInit => Inv
  <1>1. ASSUME ExecInit PROVE Inv
    <2>1. TypeInv
      <3>1. <<>> \in Seq(Task) /\ <<>> \in Seq(End) /\ Ids(<<>>) = {}
        BY DEF Ids
      <3>2. QED
        BY <1>1, <3>1 DEF ExecInit, TypeInv, ExecTypeOK
    <2>2. PlanInv /\ ContextInv /\ RoundInv
      BY <1>1 DEF ExecInit, PlanInv, ContextInv, RoundInv
    <2>3. QED
      BY <2>1, <2>2 DEF Inv
  <1>2. QED
    BY <1>1

LEMMA ExecuteInv ==
  ASSUME Inv, NEW p \in Seq(Task), Execute(p)
  PROVE  Inv'
  <1>1. epc = "idle" /\ batch = {} /\ plan' = p /\ p \in Seq(Task)
    BY DEF Execute, Inv, ContextInv
  <1>2. TypeInv'
    BY <1>1 DEF Execute, Inv, TypeInv, ExecTypeOK
  <1>3. PlanInv'
    BY <1>1 DEF Execute, PlanInv, Validates
  <1>4. ContextInv' /\ RoundInv'
    BY <1>1 DEF Execute, Inv, ContextInv, RoundInv
  <1>5. QED
    BY <1>2, <1>3, <1>4 DEF Inv

LEMMA NextRoundInv ==
  ASSUME Inv, NextRound
  PROVE  Inv'
  <1>1. ReadyTasks \subseteq Ids(plan) /\ batch' = ReadyTasks
    BY DEF NextRound, ReadyTasks
  <1>2. TypeInv'
    BY <1>1 DEF NextRound, Inv, TypeInv, ExecTypeOK
  <1>3. PlanInv' /\ ContextInv'
    BY DEF NextRound, Inv, PlanInv, ContextInv
  <1>4. RoundInv'
    BY <1>1 DEF NextRound, RoundInv, ReadyTasks, AllDepsResolved, DepResolved, Critical
  <1>5. QED
    BY <1>2, <1>3, <1>4 DEF Inv

LEMMA FinishInv ==
  ASSUME Inv, Finish
  PROVE  Inv'
  <1>1. OverallStatus \in ExecutionStatus
    BY DEF OverallStatus, ExecutionStatus
  <1>2. TypeInv'
    BY <1>1 DEF Finish, Inv, TypeInv, ExecTypeOK
  <1>3. PlanInv' /\ ContextInv' /\ RoundInv'
    BY DEF Finish, Inv, PlanInv, ContextInv, RoundInv
  <1>4. QED
    BY <1>2, <1>3 DEF Inv

LEMMA ReturnInv ==
  ASSUME Inv, Return
  PROVE  Inv'
  <1>1. <<>> \in Seq(Task) /\ <<>> \in Seq(End) /\ batch = {} /\ batch' = {}
    BY DEF Return, Inv, ContextInv
  <1>2. TypeInv'
    BY <1>1 DEF Return, Inv, TypeInv, ExecTypeOK
  <1>3. PlanInv' /\ ContextInv' /\ RoundInv'
    BY <1>1 DEF Return, PlanInv, ContextInv, RoundInv
  <1>4. QED
    BY <1>2, <1>3 DEF Inv

LEMMA StutterInv ==
  ASSUME Inv, UNCHANGED execVars
  PROVE  Inv'
  BY DEF execVars, Inv, TypeInv, ExecTypeOK, PlanInv, ContextInv, RoundInv,
         AllDepsResolved, DepResolved, Critical

LEMMA WorkInv == Inv /\ [ExecWork]_execVars => Inv'
  BY RunTaskInv, NextRoundInv, FinishInv, StutterInv DEF ExecWork

LEMMA NextInv == Inv /\ [ExecNext]_execVars => Inv'
  BY WorkInv, ExecuteInv, ReturnInv, PlansAssumption DEF ExecNext

-----------------------------------------------------------------------------
(* The executor implements the abstract task graph *)

(* The copies of the operators on plans in the instance. *)
LEMMA SameOperators ==
  ASSUME NEW p
  PROVE  /\ Graph!Ids(p) = Ids(p)
         /\ \A t : Graph!TaskOf(p, t) = TaskOf(p, t)
         /\ Graph!UniqueIds(p) = UniqueIds(p)
         /\ Graph!ReferencesExist(p) = ReferencesExist(p)
  BY DEF Graph!Ids, Ids, Graph!TaskOf, TaskOf, Graph!At, At, Graph!UniqueIds, UniqueIds,
         Graph!ReferencesExist, ReferencesExist

(* A task is settleable in the graph if it is ready for the executor. *)
LEMMA SettleableIsReady ==
  ASSUME Inv, epc = "executing", NEW t
  PROVE  Graph!Settleable(t) <=> t \in ReadyTasks
  <1>1. plan \in Seq(Task)
    BY DEF Inv, TypeInv, ExecTypeOK
  <1>2. ASSUME NEW d, t \in Ids(plan), d \in TaskOf(plan, t).deps
        PROVE  DepResolved(d) <=> /\ results[d] # "none"
                                  /\ TaskOf(plan, d).critical => results[d] = "success"
    <2>1. d \in Ids(plan)
      BY <1>1, <1>2, DepsInPlan DEF Inv, PlanInv
    <2>2. TaskOf(plan, d).critical \in BOOLEAN
      BY <1>1, <2>1, TaskFields
    <2>3. QED
      BY <2>2 DEF DepResolved, Critical
  <1>3. QED
    BY <1>2, SameOperators DEF Graph!Settleable, ReadyTasks, AllDepsResolved

LEMMA InitRefines == ExecInit => Graph!GraphInit
  BY DEF ExecInit, Graph!GraphInit

LEMMA ExecuteRefines ==
  ASSUME Inv, NEW p \in Plans, Execute(p)
  PROVE  Graph!GraphNext
  <1>1. epc = "idle" /\ status = "none" /\ status' = "none" /\ UNCHANGED results
    BY DEF Execute, Inv, ContextInv
  <1>2. CASE epc' = "executing"
    <2>1. UniqueIds(plan') /\ ReferencesExist(plan')
      BY <1>2 DEF Execute, Validates
    <2>2. Graph!Open
      BY <1>1, <1>2, <2>1, SameOperators DEF Graph!Open
    <2>3. QED
      BY <2>2 DEF Graph!GraphNext
  <1>3. CASE epc' = "raised"
    <2>1. Graph!Refuse
      BY <1>1, <1>3 DEF Graph!Refuse
    <2>2. QED
      BY <2>1 DEF Graph!GraphNext
  <1>4. QED
    BY <1>2, <1>3 DEF Execute

(* Recording a result settles the task; an attempt to be repeated, and the *)
(* computation of a round, are not seen.                                   *)
LEMMA RunTaskRefines ==
  ASSUME Inv, NEW t \in TaskId, RunTask(t)
  PROVE  Graph!GraphNext \/ UNCHANGED Graph!graphVars
  <1>1. AtWork(t) /\ UNCHANGED <<plan, epc, status>>
    BY RunTaskCases
  <1>2. /\ epc = "executing" /\ t \in Ids(plan)
        /\ results[t] = "none" /\ AllDepsResolved(t) /\ plan \in Seq(Task)
    BY <1>1, AtHandFacts
  <1>3. CASE Repeats(t)
    BY <1>1, <1>3 DEF Repeats, Graph!graphVars
  <1>4. ASSUME NEW r \in ResultStatus, Settles(t, r) PROVE Graph!GraphNext
    <2>1. Graph!Settleable(t)
      BY <1>2, SettleableIsReady DEF ReadyTasks
    <2>2. results' = [results EXCEPT ![t] = r]
      BY <1>4 DEF Settles, Record
    <2>3. /\ r = "skipped" => ~TaskOf(plan, t).critical
          /\ r = "timed_out" => TaskOf(plan, t).critical
      BY <1>4 DEF Settles, Critical
    <2>4. Graph!Settle(t, r)
      BY <1>1, <1>2, <2>1, <2>2, <2>3, SameOperators DEF Graph!Settle
    <2>5. r \in Graph!Outcome
      BY DEF ResultStatus, Graph!Outcome
    <2>6. QED
      BY <2>4, <2>5 DEF Graph!GraphNext
  <1>5. QED
    BY <1>3, <1>4, RunTaskCases

LEMMA FinishRefines ==
  ASSUME Inv, Finish
  PROVE  Graph!GraphNext
  <1>1. epc = "executing" /\ epc' = "returned" /\ UNCHANGED <<plan, results>>
    BY DEF Finish
  <1>2. \A t \in Ids(plan) : ~Graph!Settleable(t)
    BY <1>1, SettleableIsReady DEF Finish
  <1>3. plan \in Seq(Task) /\ UniqueIds(plan)
    BY <1>1 DEF Inv, TypeInv, ExecTypeOK, PlanInv
  <1>4. status' = IF \A t \in Ids(plan) : results[t] = "success" THEN "completed"
                  ELSE IF \E t \in Ids(plan) : results[t] = "success"
                       THEN "partially_completed"
                  ELSE "failed"
    BY <1>3, StatusByTasks DEF Finish
  <1>5. Graph!Close
    BY <1>1, <1>2, <1>4, SameOperators DEF Graph!Close
  <1>6. QED
    BY <1>5 DEF Graph!GraphNext

LEMMA NextRefines == Inv /\ [ExecNext]_execVars => [Graph!GraphNext]_(Graph!graphVars)
  <1>1. ASSUME Inv, NextRound PROVE UNCHANGED Graph!graphVars
    BY <1>1 DEF NextRound, Graph!graphVars
  <1>2. ASSUME Inv, Return PROVE Graph!GraphNext
    <2>1. Graph!Forget
      BY <1>2 DEF Return, Graph!Forget
    <2>2. QED
      BY <2>1 DEF Graph!GraphNext
  <1>3. ASSUME UNCHANGED execVars PROVE UNCHANGED Graph!graphVars
    BY <1>3 DEF execVars, Graph!graphVars
  <1>4. QED
    BY <1>1, <1>2, <1>3, ExecuteRefines, RunTaskRefines, FinishRefines
       DEF ExecNext, ExecWork

-----------------------------------------------------------------------------
(* Attempts *)

(* There is one task at hand. *)
LEMMA OneAtHand ==
  ASSUME Inv, NEW t, NEW u, AtHand(t), AtHand(u)
  PROVE  t = u
  <1>1. t \in Ids(plan) /\ u \in Ids(plan) /\ plan \in Seq(Task)
    BY DEF AtHand, Inv, TypeInv, ExecTypeOK
  <1>2. At(plan, t) <= At(plan, u) /\ At(plan, u) <= At(plan, t)
    BY DEF AtHand
  <1>3. At(plan, t) \in Int /\ At(plan, u) \in Int
    BY <1>1, TaskFound
  <1>4. At(plan, t) = At(plan, u)
    BY <1>2, <1>3
  <1>5. QED
    BY <1>1, <1>4, PlacesDiffer

(* Where a task stands between two attempts. *)
LEMMA BeforeAttempt ==
  ASSUME Inv, AInv, NEW t \in TaskId, AtWork(t)
  PROVE  /\ t \in Ids(plan) /\ t \in batch /\ results[t] = "none"
         /\ ends[t] \in Seq(End) /\ Len(ends[t]) = attempt
         /\ attempt \in Nat /\ Retries(t) \in Nat /\ attempt <= Retries(t)
         /\ \A i \in DOMAIN ends[t] : ends[t][i] \in Retryable
         /\ \A u \in TaskId : u \in Ids(plan) /\ u # t /\ results[u] = "none" => ends[u] = <<>>
  <1>1. AtHand(t)
    BY DEF AtWork
  <1>2. \A u \in TaskId : u # t => ~AtHand(u)
    BY <1>1, OneAtHand
  <1>3. t \in Ids(plan) /\ t \in batch /\ results[t] = "none" /\ Retries(t) \in Nat
    BY AtHandFacts
  <1>4. ends[t] \in Seq(End) /\ attempt \in Nat
    BY DEF Inv, TypeInv, ExecTypeOK
  <1>5. QED
    BY <1>1, <1>2, <1>3, <1>4 DEF AInv, AttemptInv

(* How the attempts of a task and its result go together, for one task.    *)
Respected(t) ==
  /\ Len(ends[t]) <= Retries(t)
  /\ \A i \in DOMAIN ends[t] :
       ends[t][i] \notin Retryable => i = Len(ends[t]) /\ results[t] # "none"
  /\ (/\ results[t] # "none"
      /\ \A i \in DOMAIN ends[t] : ends[t][i] \in Retryable)
     => Len(ends[t]) = Retries(t)

LEMMA RespectedAll == AttemptsRespected <=> \A t \in Ids(plan) : Respected(t)
  BY DEF AttemptsRespected, Respected, Retryable

(* A settled task: spent, or stopped by something that is not repeated.    *)
LEMMA SettlesHow ==
  ASSUME Inv, NEW t \in TaskId, RunTask(t), ~Repeats(t)
  PROVE  /\ \E r \in ResultStatus : Record(t, r)
         /\ \/ attempt >= Retries(t) /\ UNCHANGED ends
            \/ /\ attempt < Retries(t)
               /\ \E e \in End : /\ Ended(t, e)
                                 /\ e \in Retryable => attempt + 1 >= Retries(t)
  <1>1. PICK r \in ResultStatus : Settles(t, r)
    BY RunTaskCases
  <1>2. Record(t, r)
    BY <1>1 DEF Settles
  <1>3. CASE NoAttempt(t)
    BY <1>2, <1>3 DEF NoAttempt
  <1>4. CASE HandlerReturns(t)
    BY <1>2, <1>4 DEF HandlerReturns, End, Retryable
  <1>5. CASE TimesOut(t)
    BY <1>2, <1>5 DEF TimesOut, LastAttempt, AttemptsCounted, Repeats, End, Retryable
  <1>6. CASE TransientError(t)
    BY <1>2, <1>6 DEF TransientError, LastAttempt, AttemptsCounted, Repeats, End, Retryable
  <1>7. CASE OtherError(t)
    BY <1>2, <1>7 DEF OtherError, End, Retryable
  <1>8. QED
    BY <1>3, <1>4, <1>5, <1>6, <1>7 DEF RunTask

LEMMA RunTaskAttempts ==
  ASSUME Inv, AInv, NEW t \in TaskId, RunTask(t)
  PROVE  AInv'
  <1>1. AtWork(t) /\ UNCHANGED <<plan, epc, status>>
    BY RunTaskCases
  <1>2. /\ t \in Ids(plan) /\ t \in batch /\ results[t] = "none"
        /\ ends[t] \in Seq(End) /\ Len(ends[t]) = attempt
        /\ attempt \in Nat /\ Retries(t) \in Nat /\ attempt <= Retries(t)
        /\ \A i \in DOMAIN ends[t] : ends[t][i] \in Retryable
        /\ \A u \in TaskId : u \in Ids(plan) /\ u # t /\ results[u] = "none" => ends[u] = <<>>
    BY <1>1, BeforeAttempt
  <1>3. /\ plan \in Seq(Task) /\ Ids(plan) \subseteq TaskId /\ batch \subseteq Ids(plan)
        /\ results \in [TaskId -> ResultStatus \cup {"none"}]
    BY TaskFields DEF Inv, TypeInv, ExecTypeOK
  <1>4. \A u : Retries(u)' = Retries(u)
    BY <1>1 DEF Retries
  <1>5. \A u \in Ids(plan) : Respected(u)
    BY RespectedAll DEF AInv
  <1>6. \A u \in TaskId \ {t} : ends'[u] = ends[u]
    <2>1. CASE UNCHANGED ends
      BY <2>1
    <2>2. CASE \E e \in End : Ended(t, e)
      BY <2>2, EndedType DEF Inv
    <2>3. QED
      BY <2>1, <2>2, RunTaskCases
  <1>7. CASE Repeats(t)
    <2>1. PICK e \in Retryable : Ended(t, e)
      BY <1>7 DEF Repeats
    <2>2. ends'[t] = Append(ends[t], e)
      BY <2>1, EndedType DEF Inv, End, Retryable
    <2>3. /\ UNCHANGED <<results, batch>> /\ attempt' = attempt + 1
          /\ attempt + 1 < Retries(t)
      BY <1>2, <1>7 DEF Repeats, LastAttempt
    <2>4. /\ Len(ends'[t]) = attempt + 1
          /\ \A i \in DOMAIN ends'[t] : ends'[t][i] \in Retryable
      BY <1>2, <2>2
    <2>5. \A u : AtHand(u)' <=> AtHand(u)
      BY <1>1, <2>3 DEF AtHand
    <2>6. AtHand(t)
      BY <1>1 DEF AtWork
    <2>7. AttemptInv'
      <3>1. ASSUME NEW u \in Ids(plan), results[u] = "none"
            PROVE  /\ \A i \in DOMAIN ends'[u] : ends'[u][i] \in Retryable
                   /\ ~AtHand(u) => ends'[u] = <<>>
        BY <1>2, <1>3, <1>6, <2>4, <2>6, <3>1
      <3>2. ASSUME NEW u \in batch, AtHand(u)
            PROVE  Len(ends'[u]) = attempt' /\ attempt' <= Retries(u)
        <4>1. u = t
          BY <2>6, <3>2, OneAtHand
        <4>2. QED
          BY <1>2, <2>3, <2>4, <4>1
      <3>3. batch' # {}
        BY <1>2, <2>3
      <3>4. QED
        BY <1>1, <1>4, <2>3, <2>5, <3>1, <3>2, <3>3 DEF AttemptInv
    <2>8. \A u \in Ids(plan) : Respected(u)'
      <3>1. Respected(t)'
        BY <1>2, <1>4, <2>3, <2>4 DEF Respected
      <3>2. ASSUME NEW u \in Ids(plan), u # t PROVE Respected(u)'
        <4>1. ends'[u] = ends[u] /\ results'[u] = results[u]
          BY <1>3, <1>6, <2>3, <3>2
        <4>2. QED
          BY <1>4, <1>5, <4>1 DEF Respected
      <3>3. QED
        BY <3>1, <3>2
    <2>9. AttemptsRespected'
      BY <1>1, <2>8 DEF AttemptsRespected, Respected, Retryable
    <2>10. QED
      BY <2>7, <2>9 DEF AInv
  <1>8. CASE ~Repeats(t)
    <2>1. PICK r \in ResultStatus : Record(t, r)
      BY <1>8, SettlesHow
    <2>2. /\ results'[t] # "none" /\ batch' = batch \ {t} /\ attempt' = 0
          /\ \A u \in TaskId \ {t} : results'[u] = results[u]
      BY <1>3, <2>1 DEF Record, ResultStatus
    <2>3. \A u \in Ids(plan) : results'[u] = "none" => ends'[u] = <<>>
      BY <1>2, <1>3, <1>6, <2>2
    <2>4. AttemptInv'
      <3>1. ASSUME NEW u \in batch'
            PROVE  Len(ends'[u]) = attempt' /\ attempt' <= Retries(u)
        <4>1. u \in Ids(plan) /\ u \in TaskId /\ u # t /\ results[u] = "none"
          BY <1>3, <2>2, <3>1 DEF Inv, RoundInv
        <4>2. ends'[u] = <<>>
          BY <2>2, <2>3, <4>1
        <4>3. Retries(u) \in Nat
          BY <1>3, <4>1, TaskFields DEF Retries
        <4>4. QED
          BY <2>2, <4>2, <4>3
      <3>2. QED
        BY <1>1, <1>4, <2>2, <2>3, <3>1 DEF AttemptInv
    <2>5. Respected(t)'
      <3>1. CASE attempt >= Retries(t) /\ UNCHANGED ends
        BY <1>2, <1>4, <2>2, <3>1 DEF Respected
      <3>2. ASSUME attempt < Retries(t), NEW e \in End, Ended(t, e),
                   e \in Retryable => attempt + 1 >= Retries(t)
            PROVE  Respected(t)'
        <4>1. ends'[t] = Append(ends[t], e)
          BY <3>2, EndedType DEF Inv
        <4>2. /\ Len(ends'[t]) = attempt + 1 /\ DOMAIN ends'[t] = 1..(attempt + 1)
              /\ ends'[t][attempt + 1] = e
              /\ \A i \in 1..attempt : ends'[t][i] \in Retryable
          BY <1>2, <4>1
        <4>3. Len(ends'[t]) <= Retries(t)
          BY <1>2, <3>2, <4>2
        <4>4. \A i \in DOMAIN ends'[t] : ends'[t][i] \notin Retryable => i = Len(ends'[t])
          BY <1>2, <4>2
        <4>5. (\A i \in DOMAIN ends'[t] : ends'[t][i] \in Retryable) => Len(ends'[t]) = Retries(t)
          <5>1. attempt + 1 \in DOMAIN ends'[t]
            BY <1>2, <4>2
          <5>2. CASE e \in Retryable
            <6>1. attempt + 1 >= Retries(t)
              BY <3>2, <5>2
            <6>2. attempt + 1 = Retries(t)
              BY <1>2, <3>2, <6>1
            <6>3. QED
              BY <4>2, <6>2
          <5>3. CASE e \notin Retryable
            BY <4>2, <5>1, <5>3
          <5>4. QED
            BY <5>2, <5>3
        <4>6. QED
          BY <1>4, <2>2, <4>3, <4>4, <4>5 DEF Respected
      <3>3. QED
        BY <1>8, <3>1, <3>2, SettlesHow
    <2>6. \A u \in Ids(plan) : Respected(u)'
      <3>1. ASSUME NEW u \in Ids(plan), u # t PROVE Respected(u)'
        <4>1. ends'[u] = ends[u] /\ results'[u] = results[u]
          BY <1>3, <1>6, <2>2, <3>1
        <4>2. QED
          BY <1>4, <1>5, <4>1 DEF Respected
      <3>2. QED
        BY <2>5, <3>1
    <2>7. AttemptsRespected'
      BY <1>1, <2>6 DEF AttemptsRespected, Respected, Retryable
    <2>8. QED
      BY <2>4, <2>7 DEF AInv
  <1>9. QED
    BY <1>7, <1>8

(* Where no task has had an attempt and none has a result.                 *)
LEMMA FreshAttempts ==
  ASSUME plan \in Seq(Task), \A t \in Ids(plan) : ends[t] = <<>> /\ results[t] = "none",
         batch = {}, attempt = 0
  PROVE  AInv
  <1>1. \A t \in Ids(plan) : Retries(t) \in Nat
    BY TaskFields DEF Retries
  <1>2. AttemptInv
    BY DEF AttemptInv
  <1>3. AttemptsRespected
    BY <1>1 DEF AttemptsRespected
  <1>4. QED
    BY <1>2, <1>3 DEF AInv

LEMMA InitAttempts == ExecInit => AInv
  <1>1. ASSUME ExecInit PROVE AInv
    <2>1. plan \in Seq(Task) /\ Ids(plan) = {} /\ batch = {} /\ attempt = 0
      BY <1>1 DEF ExecInit, Ids
    <2>2. QED
      BY <2>1, FreshAttempts
  <1>2. QED
    BY <1>1

LEMMA ExecuteAttempts ==
  ASSUME Inv, AInv, NEW p \in Plans, Execute(p)
  PROVE  AInv'
  <1>1. /\ plan' = p /\ p \in Seq(Task) /\ batch' = {} /\ attempt' = 0
        /\ results' = [t \in TaskId |-> "none"] /\ ends' = [t \in TaskId |-> <<>>]
    BY PlansAssumption DEF Execute, Inv, ContextInv, AInv, AttemptInv
  <1>2. Ids(p) \subseteq TaskId
    BY <1>1, TaskFields
  <1>3. \A t \in Ids(plan') : ends'[t] = <<>> /\ results'[t] = "none"
    BY <1>1, <1>2
  <1>4. \A t \in Ids(p) : TaskOf(p, t).retries \in Nat
    BY <1>1, TaskFields
  <1>5. AttemptInv'
    BY <1>1, <1>3 DEF AttemptInv
  <1>6. AttemptsRespected'
    BY <1>1, <1>3, <1>4 DEF AttemptsRespected, Retries
  <1>7. QED
    BY <1>5, <1>6 DEF AInv

LEMMA NextRoundAttempts ==
  ASSUME Inv, AInv, NextRound
  PROVE  AInv'
  <1>1. /\ batch = {} /\ attempt = 0 /\ attempt' = 0
        /\ UNCHANGED <<plan, results, ends>> /\ batch' = ReadyTasks
    BY DEF NextRound, AInv, AttemptInv
  <1>2. plan \in Seq(Task)
    BY DEF Inv, TypeInv, ExecTypeOK
  <1>3. \A t \in Ids(plan) : results[t] = "none" => ends[t] = <<>>
    BY <1>1 DEF AInv, AttemptInv, AtHand
  <1>4. ASSUME NEW t \in batch' PROVE Len(ends'[t]) = attempt' /\ attempt' <= Retries(t)'
    <2>1. t \in Ids(plan) /\ results[t] = "none"
      BY <1>1, <1>4 DEF ReadyTasks
    <2>2. Retries(t)' \in Nat
      BY <1>1, <1>2, <2>1, TaskFields DEF Retries
    <2>3. QED
      BY <1>1, <1>3, <2>1, <2>2
  <1>5. AttemptInv'
    BY <1>1, <1>3, <1>4 DEF AttemptInv
  <1>6. AttemptsRespected'
    BY <1>1 DEF AInv, AttemptsRespected, Retries
  <1>7. QED
    BY <1>5, <1>6 DEF AInv

LEMMA FinishAttempts ==
  ASSUME Inv, AInv, Finish
  PROVE  AInv'
  BY DEF Finish, AInv, AttemptInv, AttemptsRespected, AtHand, Retries

LEMMA ReturnAttempts ==
  ASSUME Inv, AInv, Return
  PROVE  AInv'
  <1>1. Ids(plan') = {} /\ batch' = {} /\ attempt' = 0
    BY DEF Return, Ids, Inv, ContextInv, AInv, AttemptInv
  <1>2. QED
    BY <1>1 DEF AInv, AttemptInv, AttemptsRespected

LEMMA StutterAttempts ==
  ASSUME AInv, UNCHANGED execVars
  PROVE  AInv'
  BY DEF execVars, AInv, AttemptInv, AttemptsRespected, AtHand, Retries

LEMMA NextAttempts == Inv /\ AInv /\ [ExecNext]_execVars => AInv'
  BY RunTaskAttempts, ExecuteAttempts, NextRoundAttempts, FinishAttempts, ReturnAttempts,
     StutterAttempts DEF ExecNext, ExecWork

-----------------------------------------------------------------------------
(* The theorems *)

(* The type invariant of the executor, with what its execution rests on.   *)
THEOREM ExecTypeCorrect == ExecSpec => []ExecTypeOK
  <1>1. ExecSpec => []Inv
    BY InitInv, NextInv, PTL DEF ExecSpec
  <1>2. Inv => ExecTypeOK
    BY DEF Inv, TypeInv
  <1>3. QED
    BY <1>1, <1>2, PTL

(* No task is attempted more often than configured, or again after an end  *)
(* that is final, or given up before its attempts are spent.               *)
THEOREM AttemptsAreRespected == ExecSpec => []AttemptsRespected
  <1>1. ExecSpec => [](Inv /\ AInv)
    BY InitInv, InitAttempts, NextInv, NextAttempts, PTL DEF ExecSpec
  <1>2. AInv => AttemptsRespected
    BY DEF AInv
  <1>3. QED
    BY <1>1, <1>2, PTL

(* Every behaviour of the executor, seen through its results, is one of    *)
(* the abstract task graph: dependencies first, no task settled twice,     *)
(* nothing left that could be settled, an honest status.                   *)
THEOREM ExecutorImplementsTaskGraph == ExecSpec => ImplementsTaskGraph
  <1>1. ExecSpec => []Inv
    BY InitInv, NextInv, PTL DEF ExecSpec
  <1>2. QED
    BY <1>1, InitRefines, NextRefines, PTL DEF ExecSpec, ImplementsTaskGraph, Graph!GraphSpec

-----------------------------------------------------------------------------
(* The queue *)

IdsIn(seq) == {seq[i] : i \in DOMAIN seq}

Distinct(seq) == \A i, k \in DOMAIN seq : seq[i] = seq[k] => i = k

(* Append, tail and concatenation keep the members of a queue distinct.    *)
LEMMA DistinctAppend ==
  ASSUME NEW V, NEW seq \in Seq(V), NEW x \in V
  PROVE  /\ Append(seq, x) \in Seq(V) /\ IdsIn(Append(seq, x)) = IdsIn(seq) \cup {x}
         /\ Distinct(seq) /\ x \notin IdsIn(seq) => Distinct(Append(seq, x))
<1> DEFINE longer == Append(seq, x)
<1>1. /\ longer \in Seq(V) /\ Len(longer) = Len(seq) + 1 /\ longer[Len(seq) + 1] = x
      /\ \A i \in 1..Len(seq) : longer[i] = seq[i]
  BY AppendProperties
<1>2. Len(seq) \in Nat /\ DOMAIN seq = 1..Len(seq) /\ DOMAIN longer = 1..(Len(seq) + 1)
  BY <1>1, LenProperties
<1> HIDE DEF longer
<1>3. IdsIn(longer) = IdsIn(seq) \cup {x}
  <2>1. \A i \in 1..(Len(seq) + 1) : i \in 1..Len(seq) \/ i = Len(seq) + 1
    BY <1>2
  <2> QED
    BY <1>1, <1>2, <2>1 DEF IdsIn
<1>4. Distinct(seq) /\ x \notin IdsIn(seq) => Distinct(longer)
  <2>1. \A i \in 1..(Len(seq) + 1) : i \in 1..Len(seq) \/ i = Len(seq) + 1
    BY <1>2
  <2> QED
    BY <1>1, <1>2, <2>1 DEF IdsIn, Distinct
<1> QED
  BY <1>1, <1>3, <1>4 DEF longer

LEMMA DistinctHead ==
  ASSUME NEW V, NEW seq \in Seq(V), seq # <<>>
  PROVE  /\ Head(seq) \in V /\ Tail(seq) \in Seq(V)
         /\ IdsIn(seq) = IdsIn(Tail(seq)) \cup {Head(seq)}
         /\ Distinct(seq) => Distinct(Tail(seq)) /\ Head(seq) \notin IdsIn(Tail(seq))
<1>1. DOMAIN seq = 1..Len(seq) /\ Len(seq) \in Nat
  BY LenProperties
<1>2. /\ Tail(seq) \in Seq(V) /\ Len(Tail(seq)) = Len(seq) - 1 /\ Head(seq) \in V
      /\ \A i \in 1..Len(Tail(seq)) : Tail(seq)[i] = seq[i + 1]
  BY HeadTailProperties
<1>3. DOMAIN Tail(seq) = 1..Len(Tail(seq)) /\ Len(seq) >= 1 /\ Head(seq) = seq[1]
  BY <1>1, <1>2, LenProperties, EmptySeq
<1>4. /\ \A i \in 1..Len(Tail(seq)) : i + 1 \in 1..Len(seq) /\ i + 1 # 1
      /\ \A i \in 1..Len(seq) : i = 1 \/ (i - 1 \in 1..Len(Tail(seq)) /\ (i - 1) + 1 = i)
  BY <1>1, <1>2
<1>5. \A i \in 1..Len(seq) : i = 1 \/ (i - 1 \in 1..Len(Tail(seq)) /\ seq[i] = Tail(seq)[i - 1])
  BY <1>2, <1>4
<1>6. IdsIn(seq) = IdsIn(Tail(seq)) \cup {Head(seq)}
  <2>1. ASSUME NEW x \in IdsIn(seq) PROVE x \in IdsIn(Tail(seq)) \cup {Head(seq)}
    BY <1>1, <1>3, <1>5 DEF IdsIn
  <2>2. ASSUME NEW x \in IdsIn(Tail(seq)) \cup {Head(seq)} PROVE x \in IdsIn(seq)
    BY <1>1, <1>2, <1>3, <1>4 DEF IdsIn
  <2> QED
    BY <2>1, <2>2
<1>7. ASSUME Distinct(seq)
      PROVE  Distinct(Tail(seq)) /\ Head(seq) \notin IdsIn(Tail(seq))
  <2>1. ASSUME NEW i \in 1..Len(Tail(seq)), NEW k \in 1..Len(Tail(seq)),
               Tail(seq)[i] = Tail(seq)[k]
        PROVE  i = k
    <3>1. i + 1 = k + 1
      BY <1>1, <1>2, <1>4, <1>7, <2>1 DEF Distinct
    <3> QED
      BY <1>1, <1>2, <3>1
  <2>2. ASSUME NEW i \in 1..Len(Tail(seq)), Tail(seq)[i] = Head(seq)
        PROVE  FALSE
    <3>1. seq[i + 1] = seq[1] /\ i + 1 \in DOMAIN seq /\ 1 \in DOMAIN seq
      BY <1>1, <1>2, <1>3, <1>4, <2>2
    <3> QED
      BY <1>4, <1>7, <3>1 DEF Distinct
  <2> QED
    BY <1>3, <2>1, <2>2 DEF Distinct, IdsIn
<1> QED
  BY <1>2, <1>6, <1>7

LEMMA DistinctJoined ==
  ASSUME NEW V, NEW first \in Seq(V), NEW second \in Seq(V)
  PROVE  /\ first \o second \in Seq(V)
         /\ IdsIn(first \o second) = IdsIn(first) \cup IdsIn(second)
         /\ Distinct(first) /\ Distinct(second) /\ IdsIn(first) \cap IdsIn(second) = {}
              => Distinct(first \o second)
<1> DEFINE both == first \o second
<1>1. /\ both \in Seq(V) /\ Len(both) = Len(first) + Len(second)
      /\ \A i \in 1..Len(first) + Len(second) :
           both[i] = IF i <= Len(first) THEN first[i] ELSE second[i - Len(first)]
  BY ConcatProperties
<1>2. /\ Len(first) \in Nat /\ DOMAIN first = 1..Len(first)
      /\ Len(second) \in Nat /\ DOMAIN second = 1..Len(second)
      /\ DOMAIN both = 1..Len(both)
  BY <1>1, LenProperties
<1> HIDE DEF both
<1>3. ASSUME NEW i \in 1..Len(both)
      PROVE  \/ i \in DOMAIN first /\ both[i] = first[i]
             \/ i - Len(first) \in DOMAIN second /\ both[i] = second[i - Len(first)]
  BY <1>1, <1>2
<1>4. /\ \A i \in DOMAIN first : i \in DOMAIN both /\ both[i] = first[i]
      /\ \A i \in DOMAIN second : \E k \in DOMAIN both : both[k] = second[i]
  <2>1. \A i \in DOMAIN first : i \in DOMAIN both /\ both[i] = first[i]
    BY <1>1, <1>2
  <2>2. ASSUME NEW i \in DOMAIN second PROVE \E k \in DOMAIN both : both[k] = second[i]
    <3>1. /\ Len(first) + i \in 1..(Len(first) + Len(second))
          /\ ~(Len(first) + i <= Len(first)) /\ (Len(first) + i) - Len(first) = i
      BY <1>2
    <3> QED
      BY <1>1, <1>2, <3>1
  <2> QED
    BY <2>1, <2>2
<1>5. IdsIn(both) = IdsIn(first) \cup IdsIn(second)
  <2>1. IdsIn(both) \subseteq IdsIn(first) \cup IdsIn(second)
    BY <1>2, <1>3 DEF IdsIn
  <2>2. IdsIn(first) \cup IdsIn(second) \subseteq IdsIn(both)
    BY <1>4 DEF IdsIn
  <2> QED
    BY <2>1, <2>2
<1>6. ASSUME Distinct(first), Distinct(second), IdsIn(first) \cap IdsIn(second) = {},
             NEW i \in 1..Len(both), NEW k \in 1..Len(both), both[i] = both[k]
      PROVE  i = k
  <2>1. CASE i \in DOMAIN first /\ both[i] = first[i]
    <3>1. both[k] \notin IdsIn(second)
      BY <1>6, <2>1 DEF IdsIn
    <3>2. k \in DOMAIN first /\ both[k] = first[k]
      BY <1>3, <3>1 DEF IdsIn
    <3> QED
      BY <1>6, <2>1, <3>2 DEF Distinct
  <2>2. CASE i - Len(first) \in DOMAIN second /\ both[i] = second[i - Len(first)]
    <3>1. both[k] \notin IdsIn(first)
      BY <1>6, <2>2 DEF IdsIn
    <3>2. k - Len(first) \in DOMAIN second /\ both[k] = second[k - Len(first)]
      BY <1>3, <3>1 DEF IdsIn
    <3>3. i - Len(first) = k - Len(first)
      BY <1>6, <2>2, <3>2 DEF Distinct
    <3> QED
      BY <1>2, <3>3
  <2> QED
    BY <1>3, <2>1, <2>2
<1> QED
  BY <1>1, <1>2, <1>5, <1>6 DEF Distinct, both

(* The ids chosen come once each.                                          *)
LEMMA AmongFacts ==
  ASSUME NEW p \in Seq(Task), UniqueIds(p), NEW set
  PROVE  /\ IdsAmong(p, set) \in Seq(TaskId)
         /\ IdsIn(IdsAmong(p, set)) = Ids(p) \cap set
         /\ Distinct(IdsAmong(p, set))
<1> DEFINE N == Len(p)
           V == Seq(TaskId)
           step == [n \in 1..N |-> [q \in V |-> IF p[n].id \in set THEN Append(q, p[n].id) ELSE q]]
           Solves(f) == f = [n \in 0..N |->
                               IF n = 0 THEN <<>>
                               ELSE IF p[n].id \in set THEN Append(f[n - 1], p[n].id)
                               ELSE f[n - 1]]
           ids == CHOOSE f : Solves(f)
<1>1. N \in Nat /\ DOMAIN p = 1..N /\ \A n \in 1..N : p[n].id \in TaskId
  <2>1. \A n \in 1..N : p[n] \in Task
    BY ElementOfSeq
  <2>2. \A task \in Task : task.id \in TaskId
    BY DEF Task
  <2> QED
    BY <2>1, <2>2, LenProperties
<1>2. IdsAmong(p, set) = ids[N]
  BY DEF IdsAmong
<1>3. \E f : Solves(f)
  <2>1. step \in [1..N -> [V -> V]] /\ <<>> \in V
    <3>1. \A n \in 1..N, q \in V : (IF p[n].id \in set THEN Append(q, p[n].id) ELSE q) \in V
      BY <1>1, AppendProperties
    <3> QED
      BY <3>1, EmptySeq
  <2> DEFINE base == <<>>
  <2>0. base \in V
    BY <2>1
  <2> HIDE DEF step, V, base, N, Solves, ids
  <2>2. PICK f : /\ f \in [0..N -> V] /\ f[0] = base
                 /\ \A n \in 1..N : f[n] = step[n][f[n - 1]]
    <3>1. PICK f : Follows(f, V, base, N, step)
      BY <1>1, <2>0, <2>1, Recursion
    <3> QED
      BY <3>1 DEF Follows
  <2>3. \A n \in 1..N : n - 1 \in 0..N /\ f[n - 1] \in V
    BY <1>1, <2>2
  <2>4. \A n \in 1..N : f[n] = IF p[n].id \in set THEN Append(f[n - 1], p[n].id) ELSE f[n - 1]
    BY <2>2, <2>3 DEF step
  <2>5. Solves(f)
    <3>1. \A n \in 0..N : n = 0 \/ n \in 1..N
      BY <1>1
    <3>2. \A n \in 0..N : f[n] = IF n = 0 THEN <<>>
                                 ELSE IF p[n].id \in set THEN Append(f[n - 1], p[n].id)
                                 ELSE f[n - 1]
      BY <2>2, <2>4, <3>1 DEF base
    <3> QED
      BY <2>2, <3>2 DEF Solves
  <2> QED
    BY <2>5
<1>4. Solves(ids)
  BY <1>3
<1> HIDE DEF ids, N, step
<1>5. /\ ids[0] = <<>>
      /\ \A n \in 1..N : ids[n] = IF p[n].id \in set THEN Append(ids[n - 1], p[n].id) ELSE ids[n - 1]
  <2>1. \A n \in 0..N : ids[n] = IF n = 0 THEN <<>>
                                ELSE IF p[n].id \in set THEN Append(ids[n - 1], p[n].id)
                                ELSE ids[n - 1]
    BY <1>4
  <2>2. 0 \in 0..N /\ \A n \in 1..N : n \in 0..N /\ n # 0
    BY <1>1
  <2> QED
    BY <2>1, <2>2
<1> HIDE DEF Solves
<1> DEFINE Good(n) == /\ ids[n] \in V /\ Distinct(ids[n])
                      /\ IdsIn(ids[n]) = {p[i].id : i \in 1..n} \cap set
           S == {n \in Nat : n <= N => Good(n)}
<1>6. 0 \in S
  <2>1. <<>> \in V /\ Distinct(<<>>) /\ IdsIn(<<>>) = {}
    BY EmptySeq DEF Distinct, IdsIn
  <2>2. {p[i].id : i \in 1..0} = {}
    OBVIOUS
  <2> QED
    BY <1>5, <2>1, <2>2
<1>7. ASSUME NEW m \in Nat, m \in S PROVE m + 1 \in S
  <2> SUFFICES ASSUME m + 1 <= N PROVE Good(m + 1)
    OBVIOUS
  <2> DEFINE x == p[m + 1].id
  <2>1. Good(m) /\ m + 1 \in 1..N /\ (m + 1) - 1 = m
    BY <1>1, <1>7
  <2>2. ids[m + 1] = IF x \in set THEN Append(ids[m], x) ELSE ids[m]
    BY <1>5, <2>1
  <2>3. {p[i].id : i \in 1..(m + 1)} = {p[i].id : i \in 1..m} \cup {x}
    <3>1. \A i \in 1..(m + 1) : i \in 1..m \/ i = m + 1
      OBVIOUS
    <3>2. \A i \in 1..m : i \in 1..(m + 1)
      OBVIOUS
    <3> QED
      BY <2>1, <3>1, <3>2
  <2>4. x \notin {p[i].id : i \in 1..m} /\ x \in TaskId
    <3>1. ASSUME NEW i \in 1..m, p[i].id = x PROVE FALSE
      <4>1. i \in DOMAIN p /\ m + 1 \in DOMAIN p /\ i # m + 1
        BY <1>1, <2>1
      <4> QED
        BY <3>1, <4>1 DEF UniqueIds
    <3> QED
      BY <1>1, <2>1, <3>1
  <2> HIDE DEF x, V
  <2>5. CASE x \in set
    <3>1. ids[m + 1] = Append(ids[m], x) /\ x \notin IdsIn(ids[m])
      BY <2>1, <2>2, <2>4, <2>5
    <3>2. ids[m + 1] \in V /\ Distinct(ids[m + 1]) /\ IdsIn(ids[m + 1]) = IdsIn(ids[m]) \cup {x}
      BY <2>1, <2>4, <3>1, DistinctAppend DEF V
    <3> QED
      BY <2>1, <2>3, <2>5, <3>2
  <2>6. CASE x \notin set
    BY <2>1, <2>2, <2>3, <2>6
  <2> QED
    BY <2>5, <2>6
<1>8. Good(N)
  <2>1. N \in S
    <3> HIDE DEF S
    <3> QED
      BY <1>1, <1>6, <1>7, Induction
  <2> QED
    BY <1>1, <2>1
<1>9. Ids(p) = {p[i].id : i \in 1..N}
  BY <1>1 DEF Ids
<1> QED
  BY <1>2, <1>8, <1>9

-----------------------------------------------------------------------------
(* Kahn's algorithm *)

State(p) == [degree : [Ids(p) -> Int], queue : Seq(TaskId), order : Seq(TaskId)]

Deps(p, t) == TaskOf(p, t).deps

(* What has been ordered, how many dependencies are left, and that a task  *)
(* waits in the queue, or has been ordered, when none are.                 *)
Sorted(p, k) ==
  LET done == IdsIn(k.order)
      next == IdsIn(k.queue)
  IN /\ k \in State(p)
     /\ done \cup next \subseteq Ids(p) /\ done \cap next = {} /\ Distinct(k.queue)
     /\ Cardinality(done) = Len(k.order)
     /\ \A t \in Ids(p) : k.degree[t] = Cardinality(Deps(p, t) \ done)
     /\ \A t \in Ids(p) : t \in done \cup next <=> Deps(p, t) \subseteq done
     /\ \A S \in SUBSET done : S # {} => \E t \in S : Deps(p, t) \cap S = {}

(* The dependencies of a task are finitely many tasks of the plan.         *)
LEMMA DepsFinite ==
  ASSUME NEW p \in Seq(Task), UniqueIds(p), ReferencesExist(p), NEW t \in Ids(p)
  PROVE  Deps(p, t) \subseteq Ids(p) /\ IsFiniteSet(Deps(p, t)) /\ t \in TaskId
<1>1. Deps(p, t) \subseteq Ids(p) /\ t \in TaskId
  BY DepsInPlan, TaskFields DEF Deps
<1> QED
  BY <1>1, AsManyIdsAsTasks, FS_Subset

(* It holds at the start, and each pop passes it on.                       *)
LEMMA StartSorted ==
  ASSUME NEW p \in Seq(Task), UniqueIds(p), ReferencesExist(p)
  PROVE  Sorted(p, KahnStart(p))
<1> DEFINE k == KahnStart(p)
           free == {t \in Ids(p) : Deps(p, t) = {}}
<1>1. \A t \in Ids(p) : IsFiniteSet(Deps(p, t)) /\ t \in TaskId /\ Cardinality(Deps(p, t)) \in Nat
  BY DepsFinite, FS_CardinalityType
<1>2. /\ IdsAmong(p, free) \in Seq(TaskId) /\ IdsIn(IdsAmong(p, free)) = free
      /\ Distinct(IdsAmong(p, free))
  BY AmongFacts
<1>3. <<>> \in Seq(TaskId) /\ IdsIn(<<>>) = {} /\ Len(<<>>) = 0 /\ Cardinality({}) = 0
  BY EmptySeq, FS_EmptySet DEF IdsIn
<1>4. /\ k.order = <<>> /\ k.queue = IdsAmong(p, free)
      /\ k.degree = [t \in Ids(p) |-> Cardinality(Deps(p, t))]
      /\ k = [degree |-> k.degree, queue |-> k.queue, order |-> k.order]
  BY DEF KahnStart, Deps
<1> HIDE DEF k
<1>5. k \in State(p)
  <2>1. k.degree \in [Ids(p) -> Int]
    BY <1>1, <1>4
  <2>2. k.queue \in Seq(TaskId) /\ k.order \in Seq(TaskId)
    BY <1>2, <1>3, <1>4
  <2> QED
    BY <1>4, <2>1, <2>2 DEF State
<1>6. \A t \in Ids(p) : Deps(p, t) \ {} = Deps(p, t)
  OBVIOUS
<1> QED
  BY <1>2, <1>3, <1>4, <1>5, <1>6 DEF Sorted, k

(* A count of one is the count of the last dependency.                     *)
LEMMA OneLess ==
  ASSUME NEW X, IsFiniteSet(X), NEW x \in X
  PROVE  Cardinality(X \ {x}) = Cardinality(X) - 1 /\ (Cardinality(X) = 1 <=> X = {x})
<1>1. IsFiniteSet(X \ {x}) /\ Cardinality(X \ {x}) = Cardinality(X) - 1 /\ Cardinality(X) \in Nat
  BY FS_RemoveElement, FS_CardinalityType
<1>2. Cardinality(X \ {x}) = 0 <=> X \ {x} = {}
  BY <1>1, FS_EmptySet
<1>3. X \ {x} = {} <=> X = {x}
  OBVIOUS
<1> QED
  BY <1>1, <1>2, <1>3

LEMMA PopSorted ==
  ASSUME NEW p \in Seq(Task), UniqueIds(p), ReferencesExist(p), NEW k, Sorted(p, k),
         k.queue # <<>>
  PROVE  Sorted(p, Pop(p, k)) /\ Len(Pop(p, k).order) = Len(k.order) + 1
<1> DEFINE node == Head(k.queue)
           rest == IdsIn(Tail(k.queue))
           done == IdsIn(k.order)
           I == Ids(p)
           D(t) == Deps(p, t)
           waiting == {t \in I : node \in D(t)}
           ready == {t \in waiting : k.degree[t] = 1}
           new == Pop(p, k)
<1>1. /\ k.queue \in Seq(TaskId) /\ k.order \in Seq(TaskId) /\ k.degree \in [I -> Int]
      /\ done \cup IdsIn(k.queue) \subseteq I /\ done \cap IdsIn(k.queue) = {}
      /\ Distinct(k.queue) /\ Cardinality(done) = Len(k.order)
  BY DEF Sorted, State
<1>2. /\ \A t \in I : k.degree[t] = Cardinality(D(t) \ done)
      /\ \A t \in I : t \in done \cup IdsIn(k.queue) <=> D(t) \subseteq done
      /\ \A S \in SUBSET done : S # {} => \E t \in S : D(t) \cap S = {}
  BY DEF Sorted
<1>3. /\ node \in TaskId /\ Tail(k.queue) \in Seq(TaskId) /\ IdsIn(k.queue) = rest \cup {node}
      /\ Distinct(Tail(k.queue)) /\ node \notin rest
  BY <1>1, DistinctHead
<1>4. node \in I /\ node \notin done /\ rest \subseteq I /\ rest \cap done = {}
  BY <1>1, <1>3
<1>5. \A t \in I : D(t) \subseteq I /\ IsFiniteSet(D(t) \ done)
  <2>1. \A t \in I : D(t) \subseteq I /\ IsFiniteSet(D(t))
    BY DepsFinite
  <2> QED
    BY <2>1, FS_Subset
<1>6. /\ IdsAmong(p, ready) \in Seq(TaskId) /\ Distinct(IdsAmong(p, ready))
      /\ IdsIn(IdsAmong(p, ready)) = ready
  BY AmongFacts
<1>7. /\ new.degree = [t \in I |-> IF t \in waiting THEN k.degree[t] - 1 ELSE k.degree[t]]
      /\ new.queue = Tail(k.queue) \o IdsAmong(p, ready)
      /\ new.order = Append(k.order, node)
      /\ new = [degree |-> new.degree, queue |-> new.queue, order |-> new.order]
  BY DEF Pop, Deps
<1> HIDE DEF new, node, rest, done, I, D
<1>8. ready \cap (done \cup rest \cup {node}) = {}
  <2> SUFFICES ASSUME NEW t \in I, t \in ready PROVE t \notin done \cup rest \cup {node}
    OBVIOUS
  <2>1. node \in D(t)
    OBVIOUS
  <2>2. ~(D(t) \subseteq done)
    BY <1>4, <2>1
  <2>3. t \notin done \cup IdsIn(k.queue)
    BY <1>2, <2>2
  <2> QED
    BY <1>3, <2>3
<1>9. /\ new.queue \in Seq(TaskId) /\ Distinct(new.queue) /\ IdsIn(new.queue) = rest \cup ready
  <2>1. IdsIn(Tail(k.queue)) \cap IdsIn(IdsAmong(p, ready)) = {} /\ rest = IdsIn(Tail(k.queue))
    BY <1>6, <1>8 DEF rest
  <2> DEFINE first == Tail(k.queue)
             second == IdsAmong(p, ready)
  <2>2. /\ first \in Seq(TaskId) /\ second \in Seq(TaskId) /\ Distinct(first) /\ Distinct(second)
        /\ IdsIn(first) \cap IdsIn(second) = {} /\ rest = IdsIn(first) /\ ready = IdsIn(second)
        /\ new.queue = first \o second
    BY <1>3, <1>6, <1>7, <2>1
  <2> HIDE DEF ready, first, second
  <2> QED
    BY <2>2, DistinctJoined
<1>10. /\ new.order \in Seq(TaskId) /\ IdsIn(new.order) = done \cup {node}
       /\ Len(new.order) = Len(k.order) + 1
  BY <1>1, <1>3, <1>7, DistinctAppend, AppendProperties DEF done
<1>11. ASSUME NEW t \in I, t \in waiting
       PROVE  /\ D(t) \ (done \cup {node}) = (D(t) \ done) \ {node}
              /\ Cardinality(D(t) \ (done \cup {node})) = k.degree[t] - 1
              /\ t \in ready <=> D(t) \subseteq done \cup {node}
  <2>1. node \in D(t) \ done /\ IsFiniteSet(D(t) \ done)
    BY <1>4, <1>5, <1>11
  <2>2. /\ Cardinality((D(t) \ done) \ {node}) = Cardinality(D(t) \ done) - 1
        /\ Cardinality(D(t) \ done) = 1 <=> D(t) \ done = {node}
    BY <2>1, OneLess
  <2>3. D(t) \ (done \cup {node}) = (D(t) \ done) \ {node}
    OBVIOUS
  <2>4. k.degree[t] = Cardinality(D(t) \ done)
    BY <1>2
  <2>5. D(t) \ done = {node} <=> D(t) \subseteq done \cup {node}
    BY <2>1
  <2> QED
    BY <1>11, <2>2, <2>3, <2>4, <2>5
<1>12. ASSUME NEW t \in I, t \notin waiting
       PROVE  /\ D(t) \ (done \cup {node}) = D(t) \ done
              /\ D(t) \subseteq done \cup {node} <=> D(t) \subseteq done
  BY <1>12
<1>13. new.degree \in [I -> Int] /\ \A t \in I : new.degree[t] = Cardinality(D(t) \ (done \cup {node}))
  BY <1>1, <1>2, <1>7, <1>11, <1>12
<1>14. \A t \in I : t \in (done \cup {node}) \cup (rest \cup ready)
                      <=> D(t) \subseteq done \cup {node}
  <2>1. ASSUME NEW t \in I, t \in waiting
        PROVE  t \in (done \cup {node}) \cup (rest \cup ready) <=> t \in ready
    BY <1>2, <1>3, <1>4, <2>1
  <2>2. ASSUME NEW t \in I, t \notin waiting
        PROVE  t \in (done \cup {node}) \cup (rest \cup ready) <=> D(t) \subseteq done
    BY <1>2, <1>3, <2>2
  <2> QED
    BY <1>11, <1>12, <2>1, <2>2
<1>15. Cardinality(done \cup {node}) = Len(new.order)
  <2>1. IsFiniteSet(done)
    BY <1>1, AsManyIdsAsTasks, FS_Subset DEF I
  <2> QED
    BY <1>1, <1>4, <1>10, <2>1, FS_AddElement
<1>16. ASSUME NEW S \in SUBSET (done \cup {node}), S # {}
       PROVE  \E t \in S : D(t) \cap S = {}
  <2>1. CASE S \cap done = {}
    <3>1. S = {node} /\ D(node) \subseteq done
      BY <1>2, <1>3, <1>4, <1>16, <2>1
    <3> QED
      BY <1>4, <3>1
  <2>2. CASE S \cap done # {}
    <3>1. PICK t \in S \cap done : D(t) \cap (S \cap done) = {}
      BY <1>2, <2>2
    <3>2. D(t) \subseteq done
      BY <1>1, <1>2, <3>1
    <3> QED
      BY <3>1, <3>2
  <2> QED
    BY <2>1, <2>2
<1>17. new \in State(p)
  BY <1>7, <1>9, <1>10, <1>13 DEF State, I
<1>18. /\ (done \cup {node}) \cup (rest \cup ready) \subseteq I
       /\ (done \cup {node}) \cap (rest \cup ready) = {}
  BY <1>1, <1>3, <1>4, <1>8
<1>19. Sorted(p, new)
  BY <1>9, <1>10, <1>13, <1>14, <1>15, <1>16, <1>17, <1>18 DEF Sorted, I, D
<1> QED
  BY <1>10, <1>19 DEF new

(* What the algorithm has computed when it ends.                           *)
LEMMA KahnFacts ==
  ASSUME NEW p \in Seq(Task), UniqueIds(p), ReferencesExist(p)
  PROVE  \E k : /\ Sorted(p, k) /\ TopologicalOrder(p) = k.order
                /\ k.queue = <<>> \/ Len(k.order) = Len(p)
<1> DEFINE N == Len(p)
           V == {k \in State(p) : Sorted(p, k)}
           base == KahnStart(p)
           step == [n \in 1..N |-> [k \in V |-> IF k.queue = <<>> THEN k ELSE Pop(p, k)]]
           Solves(f) == f = [n \in 0..N |-> IF n = 0 THEN KahnStart(p)
                                            ELSE IF f[n - 1].queue = <<>> THEN f[n - 1]
                                            ELSE Pop(p, f[n - 1])]
           kahn == CHOOSE f : Solves(f)
<1>1. N \in Nat
  OBVIOUS
<1>2. TopologicalOrder(p) = kahn[N].order
  BY DEF TopologicalOrder
<1>3. base \in V
  BY StartSorted DEF Sorted
<1>4. ASSUME NEW k \in V, k.queue # <<>>
      PROVE  Pop(p, k) \in V /\ Len(Pop(p, k).order) = Len(k.order) + 1
  BY <1>4, PopSorted DEF Sorted
<1>5. step \in [1..N -> [V -> V]]
  <2>1. \A k \in V : (IF k.queue = <<>> THEN k ELSE Pop(p, k)) \in V
    BY <1>4
  <2> HIDE DEF V
  <2> QED
    BY <2>1
<1>6. \E f : Solves(f)
  <2> HIDE DEF step, V, base, N, Solves, kahn
  <2>1. PICK f : /\ f \in [0..N -> V] /\ f[0] = base
                 /\ \A n \in 1..N : f[n] = step[n][f[n - 1]]
    <3>1. PICK f : Follows(f, V, base, N, step)
      BY <1>1, <1>3, <1>5, Recursion
    <3> QED
      BY <3>1 DEF Follows
  <2>2. \A n \in 1..N : n - 1 \in 0..N /\ f[n - 1] \in V
    BY <1>1, <2>1
  <2>3. \A n \in 1..N : f[n] = IF f[n - 1].queue = <<>> THEN f[n - 1] ELSE Pop(p, f[n - 1])
    BY <2>1, <2>2 DEF step
  <2>4. \A n \in 0..N : n = 0 \/ n \in 1..N
    BY <1>1
  <2>5. \A n \in 0..N : f[n] = IF n = 0 THEN KahnStart(p)
                               ELSE IF f[n - 1].queue = <<>> THEN f[n - 1]
                               ELSE Pop(p, f[n - 1])
    BY <2>1, <2>3, <2>4 DEF base
  <2> QED
    BY <2>1, <2>5 DEF Solves
<1>7. Solves(kahn)
  BY <1>6
<1> HIDE DEF kahn, N, step
<1>8. /\ kahn[0] = KahnStart(p)
      /\ \A n \in 1..N : kahn[n] = IF kahn[n - 1].queue = <<>> THEN kahn[n - 1]
                                   ELSE Pop(p, kahn[n - 1])
  <2>1. \A n \in 0..N : kahn[n] = IF n = 0 THEN KahnStart(p)
                                  ELSE IF kahn[n - 1].queue = <<>> THEN kahn[n - 1]
                                  ELSE Pop(p, kahn[n - 1])
    BY <1>7
  <2>2. 0 \in 0..N /\ \A n \in 1..N : n \in 0..N /\ n # 0
    BY <1>1
  <2> QED
    BY <2>1, <2>2
<1> HIDE DEF Solves
<1> DEFINE Good(n) == kahn[n] \in V /\ (kahn[n].queue = <<>> \/ Len(kahn[n].order) = n)
           S == {n \in Nat : n <= N => Good(n)}
<1>9. 0 \in S
  <2>1. Len(KahnStart(p).order) = 0
    BY EmptySeq DEF KahnStart
  <2> HIDE DEF V
  <2> QED
    BY <1>3, <1>8, <2>1
<1>10. ASSUME NEW m \in Nat, m \in S PROVE m + 1 \in S
  <2> SUFFICES ASSUME m + 1 <= N PROVE Good(m + 1)
    OBVIOUS
  <2>1. Good(m) /\ m + 1 \in 1..N /\ (m + 1) - 1 = m
    BY <1>1, <1>10
  <2>2. kahn[m + 1] = IF kahn[m].queue = <<>> THEN kahn[m] ELSE Pop(p, kahn[m])
    BY <1>8, <2>1
  <2> HIDE DEF V
  <2> QED
    BY <1>4, <2>1, <2>2
<1>11. Good(N)
  <2>1. N \in S
    <3> HIDE DEF S
    <3> QED
      BY <1>1, <1>9, <1>10, Induction
  <2> QED
    BY <1>1, <2>1
<1> QED
  BY <1>2, <1>11 DEF N

(* The order is complete exactly if every set of tasks of the plan has one *)
(* that depends on none of the set.                                        *)
LEMMA AcyclicExactly ==
  ASSUME NEW p \in Seq(Task), UniqueIds(p), ReferencesExist(p)
  PROVE  NoCycles(p) <=> \A S \in SUBSET Ids(p) : S # {} => \E t \in S : Deps(p, t) \cap S = {}
<1>1. PICK k : /\ Sorted(p, k) /\ TopologicalOrder(p) = k.order
               /\ k.queue = <<>> \/ Len(k.order) = Len(p)
  BY KahnFacts
<1> DEFINE done == IdsIn(k.order)
<1>2. /\ done \subseteq Ids(p) /\ Cardinality(done) = Len(k.order)
      /\ \A t \in Ids(p) : t \in done \cup IdsIn(k.queue) <=> Deps(p, t) \subseteq done
      /\ \A S \in SUBSET done : S # {} => \E t \in S : Deps(p, t) \cap S = {}
  BY <1>1 DEF Sorted
<1>3. IsFiniteSet(Ids(p)) /\ Cardinality(Ids(p)) = Len(p)
  BY AsManyIdsAsTasks
<1>4. NoCycles(p) <=> Len(k.order) = Len(p)
  BY <1>1 DEF NoCycles
<1> HIDE DEF done
<1>5. ASSUME NoCycles(p), NEW S \in SUBSET Ids(p), S # {}
      PROVE  \E t \in S : Deps(p, t) \cap S = {}
  <2>1. done = Ids(p)
    BY <1>2, <1>3, <1>4, <1>5, FS_Subset
  <2> QED
    BY <1>2, <1>5, <2>1
<1>6. ASSUME ~NoCycles(p)
      PROVE  \E S \in SUBSET Ids(p) : S # {} /\ \A t \in S : Deps(p, t) \cap S # {}
  <2>1. IdsIn(k.queue) = {}
    BY <1>1, <1>4, <1>6, EmptySeq DEF IdsIn
  <2>2. Ids(p) \ done # {}
    <3>1. done # Ids(p)
      BY <1>2, <1>3, <1>4, <1>6
    <3> QED
      BY <1>2, <3>1
  <2>3. ASSUME NEW t \in Ids(p) \ done PROVE Deps(p, t) \cap (Ids(p) \ done) # {}
    <3>1. ~(Deps(p, t) \subseteq done)
      BY <1>2, <2>1, <2>3
    <3>2. Deps(p, t) \subseteq Ids(p)
      BY DepsFinite
    <3> QED
      BY <3>1, <3>2
  <2> QED
    BY <2>2, <2>3
<1> QED
  BY <1>5, <1>6

(* The validator accepts a plan exactly if it is well formed.              *)
LEMMA ValidatesExactly ==
  ASSUME NEW p \in Seq(Task)
  PROVE  Validates(p) <=> WellFormed(p)
<1>1. CASE UniqueIds(p) /\ ReferencesExist(p)
  BY <1>1, AcyclicExactly DEF Validates, WellFormed, Deps
<1>2. CASE ~(UniqueIds(p) /\ ReferencesExist(p))
  BY <1>2 DEF Validates, WellFormed
<1> QED
  BY <1>1, <1>2

-----------------------------------------------------------------------------
(* What the executor makes of the validation *)

(* The plan was executed because it validates, or refused because not.     *)
DecidedInv ==
  /\ epc \in {"executing", "returned"} => Validates(plan) /\ HandlersCover(plan)
  /\ epc = "raised" => ~(Validates(plan) /\ HandlersCover(plan))

LEMMA InitDecided == ExecInit => DecidedInv
  BY DEF ExecInit, DecidedInv

LEMMA NextDecided ==
  ASSUME Inv, DecidedInv, [ExecNext]_execVars
  PROVE  DecidedInv'
<1>1. ASSUME NEW p \in Plans, Execute(p) PROVE DecidedInv'
  BY <1>1 DEF Execute, DecidedInv
<1>2. CASE NextRound
  BY <1>2 DEF NextRound, DecidedInv
<1>3. ASSUME NEW t \in TaskId, RunTask(t) PROVE DecidedInv'
  <2>1. plan' = plan /\ epc' = epc
    BY <1>3, RunTaskCases
  <2> QED
    BY <2>1 DEF DecidedInv
<1>4. CASE Finish
  BY <1>4 DEF Finish, DecidedInv
<1>5. CASE Return
  BY <1>5 DEF Return, DecidedInv
<1>6. CASE UNCHANGED execVars
  BY <1>6 DEF execVars, DecidedInv
<1> QED
  BY <1>1, <1>2, <1>3, <1>4, <1>5, <1>6 DEF ExecNext, ExecWork

LEMMA DecidedValidates ==
  ASSUME Inv, DecidedInv
  PROVE  ValidatedExactly
<1>1. plan \in Seq(Task)
  BY DEF Inv, TypeInv, ExecTypeOK
<1> QED
  BY <1>1, ValidatesExactly DEF DecidedInv, ValidatedExactly

(* A plan is executed exactly if its dependencies are an acyclic relation  *)
(* on its tasks and every capability has a handler: Kahn's algorithm in    *)
(* validator.py decides that, for every plan.                              *)
THEOREM ValidatedExactlyAlways == ExecSpec => []ValidatedExactly
<1>1. ExecInit => Inv /\ DecidedInv
  BY InitInv, InitDecided
<1>2. Inv /\ DecidedInv /\ [ExecNext]_execVars => (Inv /\ DecidedInv)'
  BY NextInv, NextDecided
<1>3. Inv /\ DecidedInv => ValidatedExactly
  BY DecidedValidates
<1> QED
  BY <1>1, <1>2, <1>3, PTL DEF ExecSpec

-----------------------------------------------------------------------------
(* Which tasks get no result *)

(* A task has a result only when what it depends on is resolved, and that  *)
(* is so for good.                                                         *)
SettledInv ==
  \A t \in Ids(plan) : results[t] # "none" => AllDepsResolved(t)

LEMMA InitSettled == ExecInit => SettledInv
  BY DEF ExecInit, SettledInv, Ids

LEMMA RunTaskSettled ==
  ASSUME Inv, SettledInv, NEW t \in TaskId, RunTask(t)
  PROVE  SettledInv'
<1>1. plan' = plan /\ AtWork(t)
  BY RunTaskCases
<1>2. /\ plan \in Seq(Task) /\ results[t] = "none" /\ AllDepsResolved(t)
      /\ results \in [TaskId -> ResultStatus \cup {"none"}]
  BY <1>1, AtHandFacts DEF Inv, TypeInv, ExecTypeOK
<1>3. \A u \in TaskId : u # t => results'[u] = results[u]
  <2>1. CASE Repeats(t)
    BY <2>1 DEF Repeats
  <2>2. ASSUME NEW r \in ResultStatus, Settles(t, r)
        PROVE  \A u \in TaskId : u # t => results'[u] = results[u]
    BY <1>2, <2>2 DEF Settles, Record
  <2> QED
    BY <2>1, <2>2, RunTaskCases
<1> SUFFICES ASSUME NEW u \in Ids(plan), results'[u] # "none"
             PROVE  AllDepsResolved(u)'
  BY <1>1 DEF SettledInv
<1>4. u \in TaskId /\ TaskOf(plan, u).deps \subseteq TaskId
  BY <1>2, TaskFields
<1>5. AllDepsResolved(u)
  <2>1. CASE u = t
    BY <1>2, <2>1
  <2>2. CASE u # t
    BY <1>3, <1>4, <2>2 DEF SettledInv
  <2> QED
    BY <2>1, <2>2
<1>6. ASSUME NEW d \in TaskOf(plan, u).deps PROVE DepResolved(d)'
  <2>1. DepResolved(d) /\ d \in TaskId
    BY <1>4, <1>5 DEF AllDepsResolved
  <2>2. d # t
    BY <1>2, <2>1 DEF DepResolved
  <2>3. results'[d] = results[d]
    BY <1>3, <2>1, <2>2
  <2> QED
    BY <1>1, <2>1, <2>3 DEF DepResolved, Critical
<1> QED
  BY <1>1, <1>6 DEF AllDepsResolved

LEMMA NextSettled ==
  ASSUME Inv, SettledInv, [ExecNext]_execVars
  PROVE  SettledInv'
<1>1. ASSUME NEW p \in Plans, Execute(p) PROVE SettledInv'
  <2>1. results' = [t \in TaskId |-> "none"] /\ plan' = p /\ p \in Seq(Task)
    BY <1>1, PlansAssumption DEF Execute, Inv, ContextInv
  <2>2. \A t \in Ids(p) : results'[t] = "none"
    BY <2>1, TaskFields
  <2> QED
    BY <2>1, <2>2 DEF SettledInv
<1>2. CASE Return
  <2>1. Ids(plan') = {}
    BY <1>2 DEF Return, Ids
  <2> QED
    BY <2>1 DEF SettledInv
<1>3. ASSUME plan' = plan, results' = results PROVE SettledInv'
  BY <1>3 DEF SettledInv, AllDepsResolved, DepResolved, Critical
<1>4. NextRound \/ Finish \/ UNCHANGED execVars => plan' = plan /\ results' = results
  BY DEF NextRound, Finish, execVars
<1> QED
  BY <1>1, <1>2, <1>3, <1>4, RunTaskSettled DEF ExecNext, ExecWork

(* A dependency, and what it depends on, come before the task.             *)
LEMMA AncestorsOfDep ==
  ASSUME NEW p \in Seq(Task), ReferencesExist(p), NEW t \in Ids(p), NEW d \in Deps(p, t)
  PROVE  d \in Ancestors(p, t) /\ Ancestors(p, d) \subseteq Ancestors(p, t)
<1>1. d \in Ids(p)
  BY DepsInPlan DEF Deps
<1>2. d \in Ancestors(p, t)
  BY <1>1 DEF Ancestors, Deps
<1>3. ASSUME NEW u \in Ancestors(p, d) PROVE u \in Ancestors(p, t)
  <2>1. /\ u \in Ids(p)
        /\ \A S \in SUBSET Ids(p) :
             (/\ Deps(p, d) \subseteq S
              /\ \A v \in S : Deps(p, v) \subseteq S) => u \in S
    BY DEF Ancestors, Deps
  <2>2. ASSUME NEW S \in SUBSET Ids(p), Deps(p, t) \subseteq S,
               \A v \in S : Deps(p, v) \subseteq S
        PROVE  u \in S
    <3>1. Deps(p, d) \subseteq S
      BY <2>2
    <3> QED
      BY <2>1, <2>2, <3>1
  <2> QED
    BY <2>1, <2>2 DEF Ancestors, Deps
<1> QED
  BY <1>2, <1>3

(* What blocks a task: a critical task before it that did not succeed.     *)
Blocks(u) == Critical(u) /\ results[u] \notin {"success", "none"}

LEMMA BlockedAtEnd ==
  ASSUME Inv, SettledInv, WellFormed(plan), ReadyTasks = {}
  PROVE  \A t \in Ids(plan) :
           results[t] = "none" <=> \E u \in Ancestors(plan, t) : Blocks(u)
<1>1. plan \in Seq(Task) /\ ReferencesExist(plan)
  BY DEF Inv, TypeInv, ExecTypeOK, WellFormed
<1>2. \A t \in Ids(plan) : Critical(t) \in BOOLEAN /\ Deps(plan, t) \subseteq Ids(plan)
  BY <1>1, TaskFields, DepsInPlan DEF Critical, Deps
<1>3. ASSUME NEW t \in Ids(plan), results[t] # "none", NEW u \in Ancestors(plan, t), Blocks(u)
      PROVE  FALSE
  <2> DEFINE S == {v \in Ids(plan) : DepResolved(v)}
  <2>1. ASSUME NEW v \in Ids(plan), results[v] # "none" PROVE Deps(plan, v) \subseteq S
    <3>1. AllDepsResolved(v)
      BY <2>1 DEF SettledInv
    <3> QED
      BY <1>2, <3>1 DEF AllDepsResolved, Deps
  <2>2. \A v \in S : results[v] # "none"
    BY DEF DepResolved
  <2>3. S \in SUBSET Ids(plan) /\ Deps(plan, t) \subseteq S
        /\ \A v \in S : Deps(plan, v) \subseteq S
    BY <1>3, <2>1, <2>2
  <2>4. u \in S
    <3> HIDE DEF S
    <3> QED
      BY <1>3, <2>3 DEF Ancestors, Deps
  <2> QED
    BY <1>3, <2>4 DEF DepResolved, Blocks
<1>4. ASSUME NEW t \in Ids(plan), results[t] = "none", ~\E u \in Ancestors(plan, t) : Blocks(u)
      PROVE  FALSE
  <2> DEFINE B == {v \in Ids(plan) : /\ results[v] = "none"
                                     /\ ~\E u \in Ancestors(plan, v) : Blocks(u)}
  <2>1. B \in SUBSET Ids(plan) /\ B # {}
    BY <1>4
  <2>2. PICK v \in B : Deps(plan, v) \cap B = {}
    <3> HIDE DEF B
    <3> QED
      BY <2>1 DEF WellFormed, Deps
  <2>3. PICK d \in Deps(plan, v) : ~DepResolved(d)
    BY <2>2 DEF ReadyTasks, AllDepsResolved, Deps
  <2>4. d \in Ids(plan) /\ d \in Ancestors(plan, v) /\ Ancestors(plan, d) \subseteq Ancestors(plan, v)
    BY <1>1, <1>2, <2>3, AncestorsOfDep
  <2>5. results[d] = "none" \/ Blocks(d)
    BY <1>2, <2>3, <2>4 DEF DepResolved, Blocks
  <2>6. CASE results[d] = "none"
    <3>1. d \notin B
      BY <2>2, <2>3
    <3>2. \E u \in Ancestors(plan, d) : Blocks(u)
      BY <2>4, <2>6, <3>1
    <3> QED
      BY <2>2, <2>4, <3>2
  <2>7. CASE Blocks(d)
    BY <2>2, <2>4, <2>7
  <2> QED
    BY <2>5, <2>6, <2>7
<1> QED
  BY <1>3, <1>4

LEMMA InitBlocked == ExecInit => BlockedExactly
  BY DEF ExecInit, BlockedExactly

LEMMA NextBlocked ==
  ASSUME Inv, DecidedInv, SettledInv, BlockedExactly, [ExecNext]_execVars
  PROVE  BlockedExactly'
<1>1. CASE Finish
  <2>1. WellFormed(plan)
    <3>1. plan \in Seq(Task) /\ Validates(plan)
      BY <1>1 DEF Finish, DecidedInv, Inv, TypeInv, ExecTypeOK
    <3> QED
      BY <3>1, ValidatesExactly
  <2>2. \A t \in Ids(plan) :
          results[t] = "none" <=> \E u \in Ancestors(plan, t) : Blocks(u)
    BY <1>1, <2>1, BlockedAtEnd DEF Finish
  <2>3. plan' = plan /\ results' = results
    BY <1>1 DEF Finish
  <2> QED
    BY <2>2, <2>3 DEF BlockedExactly, Blocks, Critical
<1>2. CASE UNCHANGED execVars
  BY <1>2 DEF execVars, BlockedExactly, Critical
<1>3. ASSUME NEW t \in TaskId, RunTask(t) PROVE epc' # "returned"
  <2>1. AtWork(t) /\ epc' = epc
    BY <1>3, RunTaskCases
  <2> QED
    BY <2>1 DEF AtWork
<1>4. (\E p \in Plans : Execute(p)) \/ NextRound \/ Return => epc' # "returned"
  BY DEF Execute, NextRound, Return
<1>5. epc' # "returned" => BlockedExactly'
  BY DEF BlockedExactly
<1> QED
  BY <1>1, <1>2, <1>3, <1>4, <1>5 DEF ExecNext, ExecWork

(* When execution ends, the tasks without a result are those with a        *)
(* critical task before them, at any distance, that did not succeed: the   *)
(* rounds of executor.py run every other task, for every plan.             *)
THEOREM BlockedExactlyAlways == ExecSpec => []BlockedExactly
<1> DEFINE I == Inv /\ DecidedInv /\ SettledInv /\ BlockedExactly
<1>1. ExecInit => I
  BY InitInv, InitDecided, InitSettled, InitBlocked
<1>2. I /\ [ExecNext]_execVars => I'
  BY NextInv, NextDecided, NextSettled, NextBlocked
<1> QED
  BY <1>1, <1>2, PTL DEF ExecSpec
=============================================================================
