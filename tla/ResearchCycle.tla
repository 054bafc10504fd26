---------------------------- MODULE ResearchCycle ----------------------------
(***************************************************************************)
(* ResearchCycleEngine.run_cycle (src/src/research_cycle/cycle_engine.py)  *)
(* with its OutcomeTracker: judge the previous thesis, research a new one, *)
(* predict, record the cycle in memory.  The outcome of a thesis moves the *)
(* transmission graph: "applied" counts how often a thesis has done so.    *)
(***************************************************************************)
EXTENDS ResearchMemory, RunControl

CONSTANT Batches   \* the batches, as sets of slots, that a cycle may come up with

ASSUME CycleAssumption == Batches \subseteq SUBSET Slot

VARIABLES
  status,      \* ResearchThesis.status of every thesis, "unborn" before it exists
  previous,    \* _previous_thesis: the last completed cycle's thesis
  tracking,    \* OutcomeTracker._pending: theses whose conditions are watched
  cycleCount,  \* _cycle_count: cycles begun by this process
  cycle,       \* what the current (or latest) cycle has produced
  applied,     \* history: graph updates each thesis's outcome has caused
  redo         \* history: cycles that judged the thesis and then failed

cycleVars == <<status, previous, tracking, cycleCount, cycle, applied, redo>>

ThesisStatus == {"unborn", "draft", "active", "validated", "invalidated"}
Verdicts == {"none", "verified", "triggered", "unmet"}

CycleResult == [thesis : Thesis \cup {None}, batch : SUBSET Slot,
                outcomeOf : Thesis \cup {None}, verdict : Verdicts]

NewResult == [thesis |-> None, batch |-> {}, outcomeOf |-> None, verdict |-> "none"]

CycleTypeOK ==
  /\ status \in [Thesis -> ThesisStatus]
  /\ previous \in Thesis \cup {None}
  /\ tracking \subseteq Thesis
  /\ cycleCount \in Nat
  /\ cycle \in CycleResult
  /\ applied \in [Thesis -> Nat]
  /\ redo \in [Thesis -> Nat]

CycleInit ==
  /\ status = [t \in Thesis |-> "unborn"]
  /\ previous = None
  /\ tracking = {}
  /\ cycleCount = 0
  /\ cycle = NewResult
  /\ applied = [t \in Thesis |-> 0]
  /\ redo = [t \in Thesis |-> 0]

-----------------------------------------------------------------------------
(* _check_direction reads these names and takes a missing one for 0: the   *)
(* only data on which its comparison can come out true.                    *)
CanVerify(names) ==
  \/ names \cap {"gdp", "gdp_qoq", "prev_gdp"} # {}
  \/ "prev_hyg" \in names /\ names \cap {"hyg", "credit"} # {}
  \/ {"spx", "prev_spx"} \subseteq names

(* check_invalidation looks the conditions up among the tracked theses.    *)
CanReach(verdict, t, names) ==
  CASE verdict = "verified" -> CanVerify(names)
    [] verdict = "triggered" -> t \in tracking
    [] verdict = "unmet" -> TRUE
    [] OTHER -> FALSE

(* determine_outcome, then _update_graph_from_outcome: reinforce on        *)
(* "verified", weaken otherwise.                                           *)
Judge(t, verdict) ==
  /\ status' = [status EXCEPT ![t] = IF verdict = "verified" THEN "validated"
                                     ELSE "invalidated"]
  /\ applied' = [applied EXCEPT ![t] = @ + 1]
  /\ tracking' = tracking \ {t}
  /\ cycle' = [NewResult EXCEPT !.outcomeOf = t, !.verdict = verdict]

(* Steps 1 to 7.  Only the previous thesis is looked up in the outcomes.   *)
BeginCycle(fed, data) ==
  /\ pc = "cycle"
  /\ cycleCount' = cycleCount + 1
  /\ IF previous \in fed
     THEN \E verdict \in Verdicts :
            /\ CanReach(verdict, previous, data[previous])
            /\ Judge(previous, verdict)
     ELSE /\ cycle' = NewResult
          /\ UNCHANGED <<status, applied, tracking>>
  /\ Goto("research")
  /\ UNCHANGED <<previous, redo, memoryVars>>

(* Steps 8 to 11: a new thesis and its batch, which is empty when there    *)
(* were no signals or a sub-engine failed.  A thesis without predictions   *)
(* is not tracked.                                                         *)
Research(t, batch) ==
  /\ pc = "research"
  /\ status[t] = "unborn"
  /\ status' = [status EXCEPT ![t] = "draft"]
  /\ tracking' = IF batch = {} THEN tracking ELSE tracking \cup {t}
  /\ cycle' = [cycle EXCEPT !.thesis = t, !.batch = batch]
  /\ Goto("store")
  /\ UNCHANGED <<previous, cycleCount, applied, redo, memoryVars>>

(* Mutant: run_today goes on after a failed cycle.                         *)
CycleFailsUnnoticed ==
  /\ pc \in {"research", "store"}
  /\ redo' = IF cycle.outcomeOf = None THEN redo
             ELSE [redo EXCEPT ![cycle.outcomeOf] = @ + 1]
  /\ Raise("register")
  /\ UNCHANGED <<status, previous, tracking, cycleCount, cycle, applied, memoryVars>>

(* An exception anywhere before the memory entry is recorded: the cycle    *)
(* reports "failed", and run_today returns.                                *)
CycleFails ==
  /\ pc \in {"research", "store"}
  /\ redo' = IF cycle.outcomeOf = None THEN redo
             ELSE [redo EXCEPT ![cycle.outcomeOf] = @ + 1]
  /\ Raise("idle")
  /\ UNCHANGED <<status, previous, tracking, cycleCount, cycle, applied, memoryVars>>

(* _build_memory_entry and record_entry.                                   *)
StoreEntry ==
  /\ pc = "store"
  /\ RecordEntry(cycleCount, [thesis |-> cycle.thesis,
                              outcomeOf |-> cycle.outcomeOf,
                              verified |-> cycle.verdict = "verified"])
  /\ Goto("save")
  /\ UNCHANGED cycleVars

(* Mutant: the first thesis stays the previous one.                        *)
CompleteOnce ==
  /\ status' = [status EXCEPT ![cycle.thesis] = "active"]
  /\ previous' = IF previous = None THEN cycle.thesis ELSE previous
  /\ UNCHANGED <<tracking, cycleCount, cycle, applied, redo>>

(* record_entry has returned: activate the thesis; it is now the previous  *)
(* one, and the cycle is completed.                                        *)
Complete ==
  /\ status' = [status EXCEPT ![cycle.thesis] = "active"]
  /\ previous' = cycle.thesis
  /\ UNCHANGED <<tracking, cycleCount, cycle, applied, redo>>

FinishCycle == pc = "save" /\ SaveCompletes /\ Complete /\ Goto("register")

SaveError == pc = "save" /\ SaveBreaksOff /\ Complete /\ Raise("register")

(* Mutant: the previous thesis survives the process, its entry does not.   *)
EngineRestartKeepingPrevious ==
  /\ tracking' = {}
  /\ cycleCount' = 0
  /\ cycle' = NewResult
  /\ Load
  /\ UNCHANGED <<status, previous, applied, redo>>

(* A new engine in a new process: only the memory file outlives the old.   *)
EngineRestart ==
  /\ previous' = None
  /\ tracking' = {}
  /\ cycleCount' = 0
  /\ cycle' = NewResult
  /\ Load
  /\ UNCHANGED <<status, applied, redo>>
=============================================================================
