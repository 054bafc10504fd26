--------------------------- MODULE ResearchDomain ---------------------------
(***************************************************************************)
(* The identifiers the parts of the research loop have in common.          *)
(***************************************************************************)
CONSTANTS
  Thesis,    \* thesis identifiers (ResearchThesis.thesis_id, a fresh uuid)
  Slot,      \* positions in a prediction batch
  None       \* no thesis

ASSUME DomainAssumption == None \notin Thesis
=============================================================================
