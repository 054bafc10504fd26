----------------------------- MODULE TaskGraph -----------------------------
(***************************************************************************)
(* What executing a plan promises, with no word of rounds, attempts or     *)
(* timeouts: every task is settled at most once, and only when nothing it  *)
(* needs is missing; the execution is closed only when no further task can *)
(* be settled, with a status that tells how it went.                       *)
(***************************************************************************)
EXTENDS TaskPlans

VARIABLES
  graph,     \* the plan
  settled,   \* the outcome of each task, "none" until there is one
  phase,     \* "closed" or "open"
  verdict    \* status of the last execution that was closed

graphVars == <<graph, settled, phase, verdict>>

Outcome == {"success", "failed", "timed_out", "skipped"}

GraphInit ==
  /\ graph = <<>>
  /\ settled = [t \in TaskId |-> "none"]
  /\ phase = "closed"
  /\ verdict = "none"

Settleable(t) ==
  /\ t \in Ids(graph) /\ settled[t] = "none"
  /\ \A d \in TaskOf(graph, t).deps :
       /\ settled[d] # "none"
       /\ TaskOf(graph, d).critical => settled[d] = "success"

Open ==
  /\ phase = "closed" /\ verdict = "none" /\ phase' = "open"
  /\ UniqueIds(graph') /\ ReferencesExist(graph')
  /\ UNCHANGED <<settled, verdict>>

(* Only a task that blocks nobody may be skipped, and it does not time out.*)
Settle(t, outcome) ==
  /\ phase = "open" /\ Settleable(t)
  /\ outcome = "skipped" => ~TaskOf(graph, t).critical
  /\ outcome = "timed_out" => TaskOf(graph, t).critical
  /\ settled' = [settled EXCEPT ![t] = outcome]
  /\ UNCHANGED <<graph, phase, verdict>>

Close ==
  /\ phase = "open" /\ phase' = "closed"
  /\ \A t \in Ids(graph) : ~Settleable(t)
  /\ verdict' = IF \A t \in Ids(graph) : settled[t] = "success" THEN "completed"
                ELSE IF \E t \in Ids(graph) : settled[t] = "success" THEN "partially_completed"
                ELSE "failed"
  /\ UNCHANGED <<graph, settled>>

Refuse ==
  /\ phase = "closed" /\ verdict = "none" /\ verdict' = "refused"
  /\ UNCHANGED <<settled, phase>>

(* The caller has the verdict. *)
Forget ==
  /\ phase = "closed"
  /\ graph' = <<>> /\ settled' = [t \in TaskId |-> "none"] /\ verdict' = "none"
  /\ UNCHANGED phase

GraphNext ==
  \/ Open
  \/ \E t \in TaskId, outcome \in Outcome : Settle(t, outcome)
  \/ Close
  \/ Refuse
  \/ Forget

GraphSpec == GraphInit /\ [][GraphNext]_graphVars
=============================================================================
