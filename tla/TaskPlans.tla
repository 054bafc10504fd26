----------------------------- MODULE TaskPlans -----------------------------
(***************************************************************************)
(* Execution plans (ExecutionPlan and Task of                              *)
(* src/src/schemas/planning.py) and PlanValidator of                       *)
(* src/src/planning/validator.py.  A plan is a sequence of tasks; of a     *)
(* task there remains what the executor reads: its id, the ids it depends  *)
(* on, whether its failure blocks others (config["critical"]), how many    *)
(* attempts it gets (config["max_retries"]), and whether a handler is      *)
(* registered for its capability.                                          *)
(***************************************************************************)
EXTENDS Integers, Sequences, FiniteSets

CONSTANT TaskId

Task == [id : TaskId, deps : SUBSET TaskId, critical : BOOLEAN,
         retries : Nat, handled : BOOLEAN]

Ids(plan) == {plan[i].id : i \in DOMAIN plan}

At(plan, t) == CHOOSE i \in DOMAIN plan : plan[i].id = t

TaskOf(plan, t) == plan[At(plan, t)]

-----------------------------------------------------------------------------
(* The validator *)

UniqueIds(plan) == \A i, j \in DOMAIN plan : plan[i].id = plan[j].id => i = j

ReferencesExist(plan) == \A i \in DOMAIN plan : plan[i].deps \subseteq Ids(plan)

(* The ids of the plan that are in a set, in the order of the plan.        *)
IdsAmong(plan, set) ==
  LET ids[n \in 0..Len(plan)] ==
        IF n = 0 THEN <<>>
        ELSE IF plan[n].id \in set THEN Append(ids[n - 1], plan[n].id)
        ELSE ids[n - 1]
  IN ids[Len(plan)]

(* Kahn's algorithm: the in-degree of every task, the queue of tasks whose *)
(* dependencies have all been passed, and the order so far.                *)
KahnStart(plan) ==
  [degree |-> [t \in Ids(plan) |-> Cardinality(TaskOf(plan, t).deps)],
   queue  |-> IdsAmong(plan, {t \in Ids(plan) : TaskOf(plan, t).deps = {}}),
   order  |-> <<>>]

PopKeepsDegree(plan, k) ==      \* mutant: the in-degree is not written back
  LET node == Head(k.queue)
      waiting == {t \in Ids(plan) : node \in TaskOf(plan, t).deps}
  IN [degree |-> k.degree,
      queue  |-> Tail(k.queue) \o IdsAmong(plan, {t \in waiting : k.degree[t] = 1}),
      order  |-> Append(k.order, node)]

Pop(plan, k) ==
  LET node == Head(k.queue)
      waiting == {t \in Ids(plan) : node \in TaskOf(plan, t).deps}
  IN [degree |-> [t \in Ids(plan) |-> IF t \in waiting THEN k.degree[t] - 1 ELSE k.degree[t]],
      queue  |-> Tail(k.queue) \o IdsAmong(plan, {t \in waiting : k.degree[t] = 1}),
      order  |-> Append(k.order, node)]

(* Every task enters the queue at most once: as many pops as there are     *)
(* tasks empty it.                                                         *)
TopologicalOrder(plan) ==
  LET kahn[n \in 0..Len(plan)] ==
        IF n = 0 THEN KahnStart(plan)
        ELSE IF kahn[n - 1].queue = <<>> THEN kahn[n - 1]
        ELSE Pop(plan, kahn[n - 1])
  IN kahn[Len(plan)].order

NoCycles(plan) == Len(TopologicalOrder(plan)) = Len(plan)

Validates(plan) ==
  /\ plan # <<>>
  /\ UniqueIds(plan)
  /\ ReferencesExist(plan)
  /\ NoCycles(plan)

-----------------------------------------------------------------------------
(* What the validator is for: the dependencies are an acyclic relation on  *)
(* the tasks of the plan.                                                  *)

WellFormed(plan) ==
  /\ plan # <<>>
  /\ UniqueIds(plan)
  /\ ReferencesExist(plan)
  /\ \A S \in SUBSET Ids(plan) :
       S # {} => \E t \in S : TaskOf(plan, t).deps \cap S = {}

(* The tasks t depends on, directly or through others: the least set that  *)
(* has the dependencies of t and of its own members.                       *)
Ancestors(plan, t) ==
  {u \in Ids(plan) :
     \A S \in SUBSET Ids(plan) :
       (/\ TaskOf(plan, t).deps \subseteq S
        /\ \A v \in S : TaskOf(plan, v).deps \subseteq S) => u \in S}
=============================================================================
