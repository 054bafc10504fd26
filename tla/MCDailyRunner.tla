--------------------------- MODULE MCDailyRunner ---------------------------
(***************************************************************************)
(* Small instances of the daily loop: two slots, one due a day after the   *)
(* other, about the indicators the prediction engine names SPX and HYG.    *)
(***************************************************************************)
EXTENDS DailyRunner, TLC

CONSTANTS t1, t2, t3, t4, near, far

MCHorizon == [s \in Slot |-> IF s = near THEN 1 ELSE 2]
MCAsset == [s \in Slot |-> IF s = near THEN "SPX" ELSE "HYG"]

MCBatches == {{}, Slot}

Symmetry == Permutations(Thesis)
=============================================================================
