-------------------------- MODULE MCLiveIngestion --------------------------
(***************************************************************************)
(* Reports of one story, with two texts: the second report matches the     *)
(* first and the other way round, a later copy of the first only the       *)
(* second.                                                                 *)
(***************************************************************************)
EXTENDS LiveIngestion, TLC

CONSTANTS r1, r2, r3, t1, t2

MCTextIn == [r \in Report |-> IF r = r2 THEN t2 ELSE t1]

MCSimilar == {<<r, s>> \in Report \X Report : {r, s} # {r1, r3} /\ <<r, s>> # <<r2, r3>>}
=============================================================================
