---------------------------- MODULE MCEvolution ----------------------------
(***************************************************************************)
(* Two clusters of one domain.  Findings with too few and with enough      *)
(* observations; the thresholds of the source, scaled so that a principle  *)
(* can climb the ladder, compete, weaken and be retired within the runs.   *)
(***************************************************************************)
EXTENDS EvolutionPipeline

CONSTANTS c1, c2, d1

MCDomainOf == (c1 :> d1) @@ (c2 :> d1)

MCClaimOf == (c1 :> "unreliable") @@ (c2 :> "unreliable")

(* Regimes are only collected and counted. *)
MCRegimes == Permutations(Regime)

MCOneDomain == (c1 :> d1)

MCOneClaim == (c1 :> "transmits")

MCOne == {[cluster |-> c1, observations |-> 3]}

MCOffered ==
  {[cluster |-> c, observations |-> 3] : c \in Cluster}
  \cup {[cluster |-> c1, observations |-> 1]}
=============================================================================
