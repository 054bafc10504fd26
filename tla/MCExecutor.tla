----------------------------- MODULE MCExecutor -----------------------------
(***************************************************************************)
(* Every plan of three tasks, well-formed or not: any dependencies among   *)
(* them (and, for the third, on a task that is not in the plan), any of    *)
(* them critical or not, attempts from 0 to 2.                             *)
(***************************************************************************)
EXTENDS Executor

CONSTANTS a, b, c, x

Entry(t, deps, critical, retries, handled) ==
  [id |-> t, deps |-> deps, critical |-> critical, retries |-> retries, handled |-> handled]

Three == {a, b, c}

(* Plans whose dependencies go backwards or forwards in the plan. *)
Graphs3 ==
  {<<Entry(a, da, ca, 1, TRUE), Entry(b, db, cb, 2, TRUE), Entry(c, dc, cc, rc, TRUE)>> :
     da \in SUBSET {b, c}, db \in SUBSET {a, c}, dc \in SUBSET {a, b},
     ca \in BOOLEAN, cb \in BOOLEAN, cc \in BOOLEAN, rc \in 0..1}

(* What the validator and the coverage check are there to refuse: tasks    *)
(* that depend on themselves, unknown and repeated ids, missing handlers,  *)
(* no tasks at all.                                                        *)
Malformed ==
  {<<>>, <<Entry(a, {a}, TRUE, 1, TRUE)>>, <<Entry(a, {x}, TRUE, 1, TRUE)>>,
   <<Entry(a, {}, TRUE, 1, TRUE), Entry(a, {}, TRUE, 1, TRUE)>>,
   <<Entry(a, {}, TRUE, 1, TRUE), Entry(b, {a}, TRUE, 1, FALSE)>>}

MCPlans == Graphs3 \cup Malformed
=============================================================================
