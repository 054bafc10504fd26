--------------------------- MODULE PrincipleLadder ---------------------------
(***************************************************************************)
(* What the evolution of principles promises: a principle starts as a      *)
(* candidate, climbs one rung at a time, never falls, and once retired     *)
(* stays retired.                                                          *)
(***************************************************************************)
CONSTANT Id

VARIABLE rung

LadderInit == rung = [p \in Id |-> "none"]

Start(ids) ==
  /\ \A p \in ids : rung[p] = "none"
  /\ rung' = [p \in Id |-> IF p \in ids THEN "candidate" ELSE rung[p]]

Climb(ids) ==
  /\ \A p \in ids : rung[p] \in {"candidate", "validated"}
  /\ rung' = [p \in Id |->
       IF p \notin ids THEN rung[p]
       ELSE IF rung[p] = "candidate" THEN "validated" ELSE "mature"]

Leave(ids) ==
  /\ \A p \in ids : rung[p] \notin {"none", "retired"}
  /\ rung' = [p \in Id |-> IF p \in ids THEN "retired" ELSE rung[p]]

LadderNext == \E ids \in SUBSET Id : Start(ids) \/ Climb(ids) \/ Leave(ids)

LadderSpec == LadderInit /\ [][LadderNext]_rung
=============================================================================
