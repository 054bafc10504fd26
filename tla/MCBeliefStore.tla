--------------------------- MODULE MCBeliefStore ---------------------------
(***************************************************************************)
(* Two dimensions and directions, confidences 0.5, 0.6 and 0.7: equal, at  *)
(* the threshold of 0.10 and beyond it.                                    *)
(***************************************************************************)
EXTENDS BeliefStore
=============================================================================
