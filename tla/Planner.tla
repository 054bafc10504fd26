------------------------------ MODULE Planner ------------------------------
(***************************************************************************)
(* RuleBasedPlanner of src/src/planning/planner.py: the rules a goal       *)
(* matches, the merging of their task templates, and the plan made of      *)
(* them.  Which words match which rule is data: a goal is the sequence of  *)
(* rules it matches, best score first.                                     *)
(***************************************************************************)
EXTENDS TaskPlans, Functions

CONSTANTS
  Rule,        \* the rules of the rules file
  Fallback,    \* the rule with the keyword __default__
  RuleFiles    \* the rules files: task templates per rule

ASSUME PlannerAssumption ==
  /\ IsFiniteSet(Rule) /\ Fallback \in Rule
  /\ RuleFiles \subseteq [Rule -> Seq(Task)]

VARIABLE templates    \* RuleBasedPlanner._rules: the templates in memory

Goal == {g \in UNION {[1..n -> Rule \ {Fallback}] : n \in 0..Cardinality(Rule)} : IsInjective(g)}

(* _match_rules.  A file without a default rule is one whose default rule  *)
(* has no tasks: both end in PlanCreationError.                            *)
Matches(goal) == IF goal = <<>> THEN <<Fallback>> ELSE goal

(* The tasks of the first k matched rules, in the order _merge_tasks sees  *)
(* them.                                                                   *)
OfferedUpTo(rules, matches) ==
  LET upTo[k \in 0..Len(matches)] ==
        IF k = 0 THEN <<>> ELSE upTo[k - 1] \o rules[matches[k]]
  IN upTo

Offered(rules, matches) == OfferedUpTo(rules, matches)[Len(matches)]

IsFirst(tasks, n) == \A m \in 1..(n - 1) : tasks[m].id # tasks[n].id

MergeDropsDeps(tasks, n) == tasks[n]     \* mutant: duplicates are ignored altogether

(* The first task of an id stays, and gets the dependencies of the others. *)
Merge(tasks, n) ==
  [tasks[n] EXCEPT !.deps = UNION {tasks[m].deps : m \in {j \in DOMAIN tasks : tasks[j].id = tasks[n].id}}]

PlanFor(rules, goal) ==
  LET tasks == Offered(rules, Matches(goal))
      firsts == {n \in DOMAIN tasks : IsFirst(tasks, n)}
      Nth(i) == CHOOSE n \in firsts : Cardinality({m \in firsts : m < n}) = i - 1
  IN [i \in 1..Cardinality(firsts) |-> Merge(tasks, Nth(i))]

(* _merge_tasks assigns the united dependencies to the template object     *)
(* itself, not to a copy.                                                  *)
Retain(goal) ==
  LET matches == Matches(goal)
      tasks == Offered(templates, matches)
      Place(k, i) == Len(OfferedUpTo(templates, matches)[k - 1]) + i
      retained(k) == [i \in DOMAIN templates[matches[k]] |->
                        IF IsFirst(tasks, Place(k, i)) THEN Merge(tasks, Place(k, i))
                        ELSE templates[matches[k]][i]]
  IN templates' = [r \in Rule |->
                     IF \E k \in DOMAIN matches : matches[k] = r
                     THEN retained(CHOOSE k \in DOMAIN matches : matches[k] = r)
                     ELSE templates[r]]
=============================================================================
