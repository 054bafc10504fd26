------------------------- MODULE MCResearchPipeline -------------------------
(***************************************************************************)
(* Rules files with two rules and a default rule over three tasks: the     *)
(* first rule has the tasks a and b, the second c or again a or b, each    *)
(* with any dependencies.  The file whose second rule has no handler has   *)
(* no default tasks either.                                                *)
(***************************************************************************)
EXTENDS ResearchPipeline

CONSTANTS a, b, c, r1, r2, rd

Template(t, deps, critical, retries, handled) ==
  [id |-> t, deps |-> deps, critical |-> critical, retries |-> retries, handled |-> handled]

FileOf(da, db, t, dt, soft, handled) ==
  [r \in Rule |->
     CASE r = r1 -> <<Template(a, da, TRUE, 1, TRUE), Template(b, db, soft, 1, TRUE)>>
       [] r = r2 -> <<Template(t, dt, TRUE, 2, handled)>>
       [] OTHER  -> IF handled THEN <<Template(c, {}, FALSE, 1, TRUE)>> ELSE <<>>]

(* The artifacts of the shipped handlers, shared out among three tasks.     *)
MCProduces ==
  [t \in TaskId |->
     CASE t = a -> {"signals"}
       [] t = b -> {"hypotheses"}
       [] t = c -> {"reflections", "memory_records", "narrative"}]

MCRuleFiles ==
  {FileOf(da, db, t, dt, soft, handled) :
     da \in SUBSET {b}, db \in SUBSET {a, c}, t \in {a, b, c}, dt \in SUBSET {a, b, c},
     soft \in BOOLEAN, handled \in BOOLEAN}
=============================================================================
