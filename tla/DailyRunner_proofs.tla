------------------------- MODULE DailyRunner_proofs -------------------------
(***************************************************************************)
(* What holds of the daily loop for every set of theses, slots, horizons,  *)
(* batches and bounds: its type invariant, the finality of verdicts, the   *)
(* settlement of sibling predictions; that the scheduler reports what the  *)
(* table has, that only completed cycles register, that outcomes are       *)
(* applied once per cycle that processed them, that the table shows the    *)
(* lives that PredictionLifecycle allows, and that the memory recalls what *)
(* this process recorded.                                                  *)
(***************************************************************************)
EXTENDS DailyRunner, FiniteSetTheorems, TLAPS

(* From the record of the cycle to the report the cycle has a thesis.      *)
ThesisKnown == pc \in {"store", "save", "register", "report"} => cycle.thesis \in Thesis

TypeInv == TypeOK /\ ThesisKnown

-----------------------------------------------------------------------------
(* What the registry's operators do to the table's type. *)

(* Marking an outcome writes a well-formed row.                            *)
LEMMA MarkOutcomeType ==
  ASSUME RegistryTypeOK, NEW p \in Prediction, NEW success \in BOOLEAN,
         NEW withValue \in BOOLEAN, NEW d \in Nat, MarkOutcome(p, success, withValue, d)
  PROVE  RegistryTypeOK'
<1> DEFINE verdict == IF success THEN "success" ELSE "failed"
           marked == [rows[p] EXCEPT !.status = verdict, !.stamp = d, !.valued = withValue]
<1>1. rows[p] \in Row
  BY DEF RegistryTypeOK
<1>2. marked \in Row
  BY <1>1 DEF Row, Status
<1>3. rows' = [rows EXCEPT ![p] = marked]
  BY <1>1 DEF MarkOutcome, RegistryTypeOK, Row
<1> QED
  BY <1>2, <1>3 DEF RegistryTypeOK, MarkOutcome

(* Registering a batch writes well-formed rows, committed or not.          *)
LEMMA InsertType ==
  ASSUME RegistryTypeOK, NEW t \in Thesis, NEW S \in SUBSET Slot, NEW d \in Nat,
         Insert(t, S, d)
  PROVE  rows' \in [Prediction -> Row]
<1>1. \A s \in Slot : NewRow(s, d) \in Row
  BY RegistryAssumption DEF NewRow, Row, Status
<1> QED
  BY <1>1 DEF RegistryTypeOK, Insert, Prediction

(* The wall clock is a day.                                                *)
LEMMA TodayType == \A d \in Nat : Today(d) \in Nat
BY RegistryAssumption DEF Today

(* Invalidating a thesis writes well-formed rows.                          *)
LEMMA InvalidateType ==
  ASSUME RegistryTypeOK, NEW t \in Thesis, NEW d \in Nat, InvalidateByThesis(t, d)
  PROVE  RegistryTypeOK'
<1>1. \A p \in Prediction :
        [rows[p] EXCEPT !.status = "invalidated", !.stamp = Today(d)] \in Row
  BY TodayType DEF RegistryTypeOK, Row, Status
<1> QED
  BY <1>1 DEF RegistryTypeOK, InvalidateByThesis

(* So does rolling the open transaction back.                              *)
LEMMA RollBackType ==
  ASSUME RegistryTypeOK, RollBack
  PROVE  RegistryTypeOK'
BY DEF RegistryTypeOK, RollBack, NoRow, Row, Status

-----------------------------------------------------------------------------
(* The report and the memory keep their types. *)

(* Counting a verdict keeps the report well formed.                        *)
LEMMA CountedType ==
  ASSUME report \in Report, NEW p \in Prediction, NEW correct \in BOOLEAN
  PROVE  Counted(p, correct) \in Report
BY DEF Counted, Report, Prediction

(* The report of a run that has just queried its due rows is well formed.  *)
LEMMA NewReportType == \A data \in BOOLEAN, D \in SUBSET Prediction : NewReport(data, D) \in Report
BY DEF NewReport, Report

(* So is the report between runs.                                          *)
LEMMA NoReportType == NoReport \in Report
BY NewReportType DEF NoReport

(* A memory file that has never been written holds no entries.             *)
LEMMA EmptyFileType == EntryMap(NoEntries) /\ <<>> \in Seq(Nat)
BY DEF EntryMap, NoEntries

(* Recording an entry leaves the memory and its truncated file well formed. *)
LEMMA RecordEntryType ==
  ASSUME MemoryTypeOK, NEW id \in Nat, NEW entry \in Entry, RecordEntry(id, entry)
  PROVE  MemoryTypeOK'
<1>1. EntryMap(entries')
  BY DEF MemoryTypeOK, RecordEntry, EntryMap
<1>2. byDate' \in Seq(Nat)
  BY DEF MemoryTypeOK, RecordEntry
<1>3. file'.readable \in BOOLEAN /\ EntryMap(file'.entries) /\ file'.byDate \in Seq(Nat)
  BY EmptyFileType DEF RecordEntry, Truncated, EmptyFile
<1> QED
  BY <1>1, <1>2, <1>3 DEF MemoryTypeOK, EntryMap

(* So do saving it, failing to, and loading it in a new process.           *)
LEMMA SaveType ==
  ASSUME MemoryTypeOK, SaveCompletes \/ SaveBreaksOff \/ Load
  PROVE  MemoryTypeOK'
<1>1. CASE SaveCompletes
  BY <1>1 DEF MemoryTypeOK, SaveCompletes, EntryMap
<1>2. CASE SaveBreaksOff
  BY <1>2 DEF MemoryTypeOK, SaveBreaksOff, memoryVars, EntryMap
<1>3. CASE Load
  BY <1>3, EmptyFileType DEF MemoryTypeOK, Load, EntryMap
<1> QED
  BY <1>1, <1>2, <1>3
-----------------------------------------------------------------------------
(* Steps that leave a part alone keep its type; Goto and Raise keep that   *)
(* of the run's control.                                                   *)

(* Goto and Raise move the run to the step they name.                      *)
LEMMA RunControlType ==
  ASSUME RunTypeOK, NEW step \in Phases, Goto(step) \/ Raise(step)
  PROVE  RunTypeOK' /\ pc' = step
BY DEF RunTypeOK, Goto, Raise

(* A step that leaves the registry alone keeps its type.                   *)
LEMMA RegistryFrame == RegistryTypeOK /\ UNCHANGED registryVars => RegistryTypeOK'
BY DEF RegistryTypeOK, registryVars

(* A step that leaves the scheduler's report alone keeps its type.         *)
LEMMA SchedulerFrame == SchedulerTypeOK /\ UNCHANGED schedulerVars => SchedulerTypeOK'
BY DEF SchedulerTypeOK, schedulerVars

(* A step that leaves the memory alone keeps its type.                     *)
LEMMA MemoryFrame == MemoryTypeOK /\ UNCHANGED memoryVars => MemoryTypeOK'
BY DEF MemoryTypeOK, memoryVars, EntryMap

(* A step that leaves the engine alone keeps its type.                     *)
LEMMA CycleFrame == CycleTypeOK /\ UNCHANGED cycleVars => CycleTypeOK'
BY DEF CycleTypeOK, cycleVars

(* A step that leaves the runner's own state alone keeps its type.         *)
LEMMA RunnerFrame == RunnerTypeOK /\ UNCHANGED runnerVars => RunnerTypeOK'
BY DEF RunnerTypeOK, runnerVars

(* The scheduler's actions, which leave the cycle and the runner alone.    *)
LEMMA SchedulerStepType ==
  ASSUME TypeInv, SchedulerWork \/ SchedulerFault, UNCHANGED <<memoryVars, cycleVars, runnerVars>>
  PROVE  TypeInv'
<1> USE DEF TypeInv, TypeOK
<1>1. report \in Report /\ torn \subseteq Thesis /\ day \in Nat
  BY DEF SchedulerTypeOK, RunTypeOK
<1>2. MemoryTypeOK' /\ CycleTypeOK' /\ RunnerTypeOK' /\ cycle' = cycle
  BY MemoryFrame, CycleFrame, RunnerFrame DEF cycleVars
<1>3. ASSUME NEW p \in report.todo, NEW correct \in BOOLEAN, EvaluateOne(p, correct)
      PROVE  TypeInv'
  <2>1. p \in Prediction
    BY <1>1, <1>3 DEF Report
  <2>2. RegistryTypeOK'
    BY <1>1, <1>3, <2>1, MarkOutcomeType DEF EvaluateOne
  <2>3. SchedulerTypeOK'
    BY <1>1, <1>3, <2>1, CountedType DEF EvaluateOne, SchedulerTypeOK
  <2> QED
    BY <1>2, <1>3, <2>2, <2>3, RunControlType DEF EvaluateOne, Phases, ThesisKnown
<1>4. ASSUME NEW p \in report.todo, MarkOverdue(p)
      PROVE  TypeInv'
  <2>1. p \in Prediction
    BY <1>1, <1>4 DEF Report
  <2>2. RegistryTypeOK'
    BY <1>1, <1>4, <2>1, MarkOutcomeType, TodayType DEF MarkOverdue
  <2>3. SchedulerTypeOK'
    BY <1>1, <1>4, <2>1 DEF MarkOverdue, SchedulerTypeOK, Report
  <2> QED
    BY <1>2, <1>4, <2>2, <2>3, RunControlType DEF MarkOverdue, Phases, ThesisKnown
<1>5. CASE EvaluationDone
  BY <1>1, <1>2, <1>5, RunControlType, RegistryFrame
  DEF EvaluationDone, SchedulerTypeOK, Report, Phases, ThesisKnown
<1>6. ASSUME NEW t \in report.left, InvalidateThesis(t)
      PROVE  TypeInv'
  <2>1. t \in Thesis
    BY <1>1, <1>6 DEF Report
  <2>2. RegistryTypeOK'
    BY <1>1, <1>6, <2>1, InvalidateType DEF InvalidateThesis
  <2>3. SchedulerTypeOK'
    BY <1>1, <1>6 DEF InvalidateThesis, SchedulerTypeOK, Report
  <2> QED
    BY <1>2, <1>6, <2>2, <2>3, RunControlType DEF InvalidateThesis, Phases, ThesisKnown
<1>7. CASE InvalidationDone
  BY <1>2, <1>7, RunControlType, RegistryFrame, SchedulerFrame
  DEF InvalidationDone, Phases, ThesisKnown
<1>8. ASSUME NEW p \in report.todo, EvaluationError(p)
      PROVE  TypeInv'
  <2>1. p \in Prediction
    BY <1>1, <1>8 DEF Report
  <2> QED
    BY <1>1, <1>2, <1>8, <2>1, RunControlType, RegistryFrame
    DEF EvaluationError, SchedulerTypeOK, Report, Phases, ThesisKnown
<1>9. ASSUME NEW p \in report.todo, NEW correct \in BOOLEAN, WriteError(p, correct)
      PROVE  TypeInv'
  <2>1. p \in Prediction
    BY <1>1, <1>9 DEF Report
  <2>2. Counted(p, correct) \in Report
    BY <1>1, <2>1, CountedType
  <2>3. SchedulerTypeOK'
    BY <1>1, <1>9, <2>1, <2>2 DEF WriteError, SchedulerTypeOK, Report
  <2> QED
    BY <1>2, <1>9, <2>3, RunControlType, RegistryFrame
    DEF WriteError, Phases, ThesisKnown
<1>10. ASSUME NEW p \in report.todo, OverdueWriteError(p)
       PROVE  TypeInv'
  BY <1>2, <1>10, RunControlType, RegistryFrame, SchedulerFrame
  DEF OverdueWriteError, Phases, ThesisKnown
<1>11. ASSUME NEW t \in report.left, InvalidateError(t)
       PROVE  TypeInv'
  <2>1. SchedulerTypeOK'
    BY <1>1, <1>11 DEF InvalidateError, SchedulerTypeOK, Report
  <2> QED
    BY <1>2, <1>11, <2>1, RunControlType, RegistryFrame
    DEF InvalidateError, Phases, ThesisKnown
<1> QED
  BY <1>3, <1>4, <1>5, <1>6, <1>7, <1>8, <1>9, <1>10, <1>11 DEF SchedulerWork, SchedulerFault
(* The engine's actions, which leave the scheduler and the runner alone.   *)
LEMMA EngineStepType ==
  ASSUME TypeInv, UNCHANGED <<registryVars, schedulerVars, runnerVars>>,
         \/ \E t \in Thesis, batch \in Batches : Research(t, batch)
         \/ StoreEntry \/ FinishCycle \/ SaveError \/ CycleFails
  PROVE  TypeInv'
<1> USE DEF TypeInv, TypeOK
<1>1. RegistryTypeOK' /\ SchedulerTypeOK' /\ RunnerTypeOK'
  BY RegistryFrame, SchedulerFrame, RunnerFrame
<1>2. ASSUME NEW t \in Thesis, NEW batch \in Batches, Research(t, batch)
      PROVE  TypeInv'
  <2>1. batch \in SUBSET Slot
    BY CycleAssumption
  <2>2. CycleTypeOK' /\ cycle'.thesis = t
    BY <1>2, <2>1 DEF Research, CycleTypeOK, ThesisStatus, CycleResult
  <2> QED
    BY <1>1, <1>2, <2>2, RunControlType, MemoryFrame DEF Research, Phases, ThesisKnown
<1>3. CASE StoreEntry
  <2>1. cycle.thesis \in Thesis /\ cycleCount \in Nat /\ cycle \in CycleResult
    BY <1>3 DEF StoreEntry, ThesisKnown, CycleTypeOK
  <2>2. [thesis |-> cycle.thesis, outcomeOf |-> cycle.outcomeOf,
         verified |-> cycle.verdict = "verified"] \in Entry
    BY <2>1 DEF Entry, CycleResult
  <2>3. MemoryTypeOK'
    BY <1>3, <2>1, <2>2, RecordEntryType DEF StoreEntry
  <2> QED
    BY <1>1, <1>3, <2>1, <2>3, RunControlType, CycleFrame
    DEF StoreEntry, cycleVars, Phases, ThesisKnown
<1>4. ASSUME pc = "save", Complete, Goto("register") \/ Raise("register")
      PROVE  CycleTypeOK' /\ RunTypeOK' /\ ThesisKnown'
  <2>1. cycle.thesis \in Thesis /\ cycle' = cycle
    BY <1>4 DEF ThesisKnown, Complete
  <2>2. CycleTypeOK'
    BY <1>4, <2>1 DEF Complete, CycleTypeOK, ThesisStatus
  <2> QED
    BY <1>4, <2>1, <2>2, RunControlType DEF Phases, ThesisKnown
<1>5. CASE FinishCycle
  BY <1>1, <1>4, <1>5, SaveType DEF FinishCycle
<1>6. CASE SaveError
  BY <1>1, <1>4, <1>6, SaveType DEF SaveError
<1>7. CASE CycleFails
  <2>1. CycleTypeOK'
    BY <1>7 DEF CycleFails, CycleTypeOK, CycleResult
  <2> QED
    BY <1>1, <1>7, <2>1, RunControlType, MemoryFrame DEF CycleFails, Phases, ThesisKnown
<1> QED
  BY <1>2, <1>3, <1>5, <1>6, <1>7

(* What one of the runner's maps hands to the engine is about assets.      *)
LEMMA AssetType == \A p \in Prediction : Asset[p[2]] \in AssetNames
BY DEF AssetNames, Prediction

(* Every step of the loop keeps the type invariant.                        *)
LEMMA StepType == TypeInv /\ [Next]_vars => TypeInv'
<1> SUFFICES ASSUME TypeInv, [Next]_vars PROVE TypeInv'
  OBVIOUS
<1> USE DEF TypeInv, TypeOK
<1>1. day \in Nat /\ cycle \in CycleResult
  BY DEF RunTypeOK, CycleTypeOK
<1>2. CASE Gather
  <2>1. outcomes' \in Outcomes
    <3> PICK first \in [FedByCheck2 -> Prediction] :
          outcomes' =
            [fed |-> FedByCheck1 \cup FedByCheck2 \cup FedByCheck3,
             data |-> [t \in Thesis |->
                CASE t \in FedByCheck1 -> ValuesOf(t)
                  [] t \in FedByCheck2 -> {Asset[p[2]] : p \in {q \in {first[t]} : rows[q].valued}}
                  [] OTHER -> {}]]
      BY <1>2 DEF Gather
    <3>1. FedByCheck1 \cup FedByCheck2 \cup FedByCheck3 \subseteq Thesis
      BY DEF FedByCheck1, FedByCheck2, FedByCheck3, RecentlyEvaluated, RecentlyInvalidated,
             Prediction, RunnerTypeOK
    <3>2. \A t \in Thesis : ValuesOf(t) \subseteq AssetNames
      BY AssetType DEF ValuesOf, RowsOf
    <3>3. \A t \in FedByCheck2 :
            {Asset[p[2]] : p \in {q \in {first[t]} : rows[q].valued}} \subseteq AssetNames
      BY AssetType
    <3> QED
      BY <3>1, <3>2, <3>3 DEF Outcomes
  <2>2. SchedulerTypeOK' /\ RunnerTypeOK'
    BY <1>2, <2>1, NoReportType DEF Gather, SchedulerTypeOK, RunnerTypeOK
  <2> QED
    BY <1>2, <2>2, RunControlType, RegistryFrame, MemoryFrame, CycleFrame
    DEF Gather, cycleVars, Phases, ThesisKnown
<1>3. CASE RunCycle
  <2>1. RunTypeOK' /\ pc' = "research"
    BY <1>3, RunControlType DEF RunCycle, BeginCycle, Phases
  <2>2. CycleTypeOK'
    <3>1. outcomes.fed \subseteq Thesis
      BY DEF RunnerTypeOK, Outcomes
    <3>2. NewResult \in CycleResult
      BY DEF NewResult, CycleResult, Verdicts
    <3>3. CASE previous \in outcomes.fed
      <4> PICK verdict \in Verdicts : Judge(previous, verdict)
        BY <1>3, <3>3 DEF RunCycle, BeginCycle
      <4>1. cycle' \in CycleResult
        BY <3>1, <3>2, <3>3 DEF Judge, CycleResult
      <4>2. previous \in Thesis /\ cycleCount' \in Nat /\ previous' = previous /\ redo' = redo
        BY <1>3, <3>1, <3>3 DEF RunCycle, BeginCycle, CycleTypeOK
      <4>3. status' \in [Thesis -> ThesisStatus]
        BY DEF Judge, CycleTypeOK, ThesisStatus
      <4>4. applied' \in [Thesis -> Nat] /\ tracking' \subseteq Thesis
        BY <4>2 DEF Judge, CycleTypeOK
      <4> QED
        BY <4>1, <4>2, <4>3, <4>4 DEF CycleTypeOK
    <3>4. CASE previous \notin outcomes.fed
      BY <1>3, <3>2, <3>4 DEF RunCycle, BeginCycle, CycleTypeOK
    <3> QED
      BY <3>3, <3>4
  <2>3. RunnerTypeOK'
    BY <1>3 DEF RunCycle, RunnerTypeOK, Outcomes, NoOutcomes
  <2> QED
    BY <1>3, <2>1, <2>2, <2>3, RegistryFrame, SchedulerFrame, MemoryFrame
    DEF RunCycle, BeginCycle, ThesisKnown
<1>4. CASE Register
  <2>1. cycle.thesis \in Thesis /\ cycle.batch \in SUBSET Slot
    BY <1>1, <1>4 DEF Register, ThesisKnown, CycleResult
  <2>2. RegistryTypeOK'
    BY <1>1, <1>4, <2>1, InsertType, RegistryFrame
    DEF Register, RegisterPredictions, RegistryTypeOK
  <2> QED
    BY <1>4, <2>1, <2>2, RunControlType, SchedulerFrame, MemoryFrame, CycleFrame, RunnerFrame
    DEF Register, cycleVars, Phases, ThesisKnown
<1>5. ASSUME NEW written \in SUBSET Slot, RegisterError(written)
      PROVE  TypeInv'
  <2>1. cycle.thesis \in Thesis
    BY <1>5 DEF RegisterError, ThesisKnown
  <2>2. RegistryTypeOK'
    BY <1>1, <1>5, <2>1, InsertType
    DEF RegisterError, RegisterBreaksOff, RegistryTypeOK, RowsOf
  <2> QED
    BY <1>5, <2>2, RunControlType, SchedulerFrame, MemoryFrame, CycleFrame, RunnerFrame
    DEF RegisterError, Phases, ThesisKnown
<1>6. CASE FinishRun
  <2>1. CycleTypeOK' /\ RunnerTypeOK'
    BY <1>6 DEF FinishRun, CycleTypeOK, RunnerTypeOK, NewResult, CycleResult, Verdicts
  <2> QED
    BY <1>6, <2>1, RunControlType, RegistryFrame, SchedulerFrame, MemoryFrame
    DEF FinishRun, Phases, ThesisKnown
<1>7. CASE GatherError \/ ReportError
  BY <1>7, RunControlType, RegistryFrame, SchedulerFrame, MemoryFrame, CycleFrame, RunnerFrame
  DEF GatherError, ReportError, Phases, ThesisKnown
<1>8. CASE Restart
  <2>1. SchedulerTypeOK'
    BY <1>8, NoReportType DEF Restart, TornByCrash, SchedulerTypeOK, Report
  <2>2. CycleTypeOK'
    BY <1>8 DEF Restart, EngineRestart, CycleTypeOK, NewResult, CycleResult, Verdicts
  <2>3. RunnerTypeOK'
    BY <1>8 DEF Restart, RunnerTypeOK, Outcomes, NoOutcomes
  <2> QED
    BY <1>8, <2>1, <2>2, <2>3, RunControlType, RollBackType, SaveType
    DEF Restart, EngineRestart, Phases, ThesisKnown
<1>9. ASSUME NEW d \in day..MaxDay, NEW data \in BOOLEAN, StartRun(d, data)
      PROVE  TypeInv'
  <2>1. RunTypeOK' /\ pc' \in {"gather", "evaluate"}
    BY <1>1, <1>9, DailyRunnerAssumption DEF StartRun, SchedulerRun, RunTypeOK, Phases
  <2>2. SchedulerTypeOK'
    BY <1>9, NewReportType DEF StartRun, SchedulerRun, SchedulerTypeOK, Due
  <2>3. RunnerTypeOK'
    BY <1>9 DEF StartRun, RunnerTypeOK
  <2> QED
    BY <1>9, <2>1, <2>2, <2>3, RegistryFrame, MemoryFrame, CycleFrame
    DEF StartRun, SchedulerRun, ThesisKnown
<1>10. ASSUME NEW p \in Prediction, NEW correct \in BOOLEAN, ForceEvaluate(p, correct),
              UNCHANGED <<memoryVars, cycleVars, runnerVars>>
       PROVE  TypeInv'
  <2>1. RegistryTypeOK'
    BY <1>1, <1>10, TodayType, MarkOutcomeType DEF ForceEvaluate
  <2>2. SchedulerTypeOK' /\ RunTypeOK' /\ pc' = "idle"
    BY <1>10 DEF ForceEvaluate, SchedulerTypeOK, RunTypeOK, runVars, Prediction
  <2> QED
    BY <1>10, <2>1, <2>2, MemoryFrame, CycleFrame, RunnerFrame DEF ThesisKnown
<1>11. CASE UNCHANGED vars
  BY <1>11, RegistryFrame, SchedulerFrame, MemoryFrame, CycleFrame, RunnerFrame
  DEF vars, runVars, RunTypeOK, cycleVars, ThesisKnown
<1> QED
  BY <1>2, <1>3, <1>4, <1>5, <1>6, <1>7, <1>8, <1>9, <1>10, <1>11, SchedulerStepType, EngineStepType
  DEF Next, Work, Fault, Request, CycleStep

(* A new database, memory file and process are well formed.                *)
LEMMA InitType == Init => TypeInv
<1> SUFFICES ASSUME Init PROVE TypeInv
  OBVIOUS
<1>1. RunTypeOK /\ RegistryTypeOK /\ RunnerTypeOK /\ ThesisKnown
  BY DEF Init, RunInit, RunTypeOK, Phases, RegistryInit, RegistryTypeOK, NoRow, Row, Status,
         RunnerInit, RunnerTypeOK, NoOutcomes, Outcomes, ThesisKnown
<1>2. SchedulerTypeOK
  BY NoReportType DEF Init, SchedulerInit, SchedulerTypeOK
<1>3. MemoryTypeOK
  BY EmptyFileType DEF Init, MemoryInit, MemoryTypeOK, EmptyFile
<1>4. CycleTypeOK
  BY DEF Init, CycleInit, CycleTypeOK, ThesisStatus, NewResult, CycleResult, Verdicts
<1> QED
  BY <1>1, <1>2, <1>3, <1>4 DEF TypeInv, TypeOK

(* The strengthened type invariant holds in every reachable state.         *)
LEMMA TypeInvariant == Spec => []TypeInv
BY InitType, StepType, PTL DEF Spec

(* The variables of the loop keep their types in every behaviour.          *)
THEOREM TypeCorrect == Spec => []TypeOK
<1>1. TypeInv => TypeOK
  BY DEF TypeInv
<1> QED
  BY <1>1, TypeInvariant, PTL
-----------------------------------------------------------------------------
(* The inductive invariant behind the finality of verdicts and the         *)
(* settlement of siblings.  A thesis has no rows before it is registered,  *)
(* and it is registered once.                                              *)

Absent(p) == rows[p].status = "absent"

UnbornAbsent == \A p \in Prediction : status[p[1]] = "unborn" => Absent(p)

FreshBatch ==
  pc \in {"store", "save", "register"} =>
    /\ \A p \in RowsOf(cycle.thesis) : Absent(p)
    /\ status[cycle.thesis] # "unborn"

(* What a crash can roll back, and what the loop has still to write, are   *)
(* rows without a verdict.                                                 *)
OpenPending == \A p \in open : Pending(p)
TodoPending == pc = "evaluate" => \A p \in report.todo : Pending(p)

(* A run without market data finds no thesis broken.                       *)
UnpricedUnbroken == pc = "evaluate" /\ ~report.priced => report.broken = {}

(* A half-settled thesis is one the run has still to invalidate.           *)
HalfKnown ==
  \A t \in Thesis :
    Half(t) => \/ t \in torn
               \/ pc = "evaluate" /\ t \in report.broken
               \/ pc = "invalidate" /\ t \in report.left

RowsInv == UnbornAbsent /\ FreshBatch /\ OpenPending
LoopInv == TodoPending /\ UnpricedUnbroken /\ HalfKnown
SettleInv == RowsInv /\ LoopInv

Looping == pc \in {"evaluate", "invalidate"}

(* Steps outside the loops that write no row.                              *)
LEMMA QuietStep ==
  ASSUME LoopInv, OpenPending, ~Looping, ~Looping', UNCHANGED <<registryVars, torn>>
  PROVE  LoopInv' /\ OpenPending'
BY DEF LoopInv, OpenPending, TodoPending, UnpricedUnbroken, HalfKnown, Looping, Half, RowsOf,
       Pending, registryVars

(* A step that leaves the cycle alone, registers nothing and leaves absent *)
(* rows absent.                                                            *)
LEMMA RowsStep ==
  ASSUME RowsInv, UNCHANGED status, pc' \notin {"store", "save", "register"},
         \A p \in Prediction : Absent(p) => Absent(p)'
  PROVE  UnbornAbsent' /\ FreshBatch'
BY DEF RowsInv, UnbornAbsent, FreshBatch

(* A verdict on one pending row: the other rows keep theirs, and only a    *)
(* wrong, valued one can leave a thesis half settled.                      *)
LEMMA MarkOutcomeEffect ==
  ASSUME RegistryTypeOK, NEW p \in Prediction, NEW success \in BOOLEAN,
         NEW withValue \in BOOLEAN, NEW d, MarkOutcome(p, success, withValue, d), Pending(p)
  PROVE  /\ \A q \in Prediction : q # p => rows'[q] = rows[q]
         /\ rows'[p].status = IF success THEN "success" ELSE "failed"
         /\ rows'[p].valued = withValue
         /\ \A q \in Prediction : Absent(q) => Absent(q)'
         /\ OpenPending'
         /\ \A t \in Thesis :
              Half(t)' => Half(t) \/ (t = p[1] /\ ~success /\ withValue)
<1> DEFINE verdict == IF success THEN "success" ELSE "failed"
           marked == [rows[p] EXCEPT !.status = verdict, !.stamp = d, !.valued = withValue]
<1>1. rows[p] \in Row
  BY DEF RegistryTypeOK
<1>2. rows' = [rows EXCEPT ![p] = marked]
  BY <1>1 DEF MarkOutcome, RegistryTypeOK, Row
<1>3. marked.status = verdict /\ marked.valued = withValue
  BY <1>1 DEF Row
<1>4. \A q \in Prediction : q # p => rows'[q] = rows[q]
  BY <1>2 DEF RegistryTypeOK
<1>5. rows'[p] = marked
  BY <1>2 DEF RegistryTypeOK
<1>6. \A q \in Prediction : Absent(q) => Absent(q)'
  BY <1>4 DEF Absent, Pending
<1>7. OpenPending'
  BY DEF MarkOutcome, OpenPending
<1>8. ASSUME NEW t \in Thesis, Half(t)'
      PROVE  Half(t) \/ (t = p[1] /\ ~success /\ withValue)
  <2>1. PICK q \in RowsOf(t) : rows'[q].status = "failed" /\ rows'[q].valued
    BY <1>8 DEF Half, RowsOf
  <2>2. PICK r \in RowsOf(t) : rows'[r].status = "pending"
    BY <1>8 DEF Half, RowsOf, Pending
  <2>3. r # p /\ Pending(r)
    <3>1. r \in Prediction
      BY DEF RowsOf
    <3>2. rows'[p].status # "pending"
      BY <1>3, <1>5
    <3> QED
      BY <2>2, <3>1, <3>2, <1>4 DEF Pending
  <2>4. CASE q = p
    BY <2>1, <2>4, <1>3, <1>5 DEF RowsOf
  <2>5. CASE q # p
    BY <2>1, <2>3, <2>5, <1>4 DEF Half, RowsOf
  <2> QED
    BY <2>4, <2>5
<1> QED
  BY <1>3, <1>4, <1>5, <1>6, <1>7, <1>8

(* Invalidating a thesis settles it and leaves the others as they were.    *)
LEMMA InvalidateEffect ==
  ASSUME RegistryTypeOK, NEW t \in Thesis, NEW d \in Nat, InvalidateByThesis(t, d)
  PROVE  /\ \A p \in Prediction : ~Pending(p) => rows'[p] = rows[p]
         /\ \A p \in Prediction : Absent(p) => Absent(p)'
         /\ OpenPending'
         /\ \A u \in Thesis : Half(u)' => Half(u) /\ u # t
<1>1. \A p \in Prediction :
        IF p[1] = t /\ Pending(p) THEN rows'[p].status = "invalidated"
                                  ELSE rows'[p] = rows[p]
  BY DEF InvalidateByThesis, RegistryTypeOK, Row
<1>2. \A p \in Prediction : ~Pending(p) => rows'[p] = rows[p]
  BY <1>1
<1>3. \A p \in Prediction : Absent(p) => Absent(p)'
  BY <1>2 DEF Absent, Pending
<1>4. OpenPending'
  BY DEF InvalidateByThesis, OpenPending
<1>5. \A u \in Thesis : Half(u)' => Half(u) /\ u # t
  BY <1>1 DEF Half, RowsOf, Pending
<1> QED
  BY <1>2, <1>3, <1>4, <1>5
(* The scheduler's steps keep the invariant.                               *)
LEMMA SchedulerStepSettles ==
  ASSUME TypeInv, SettleInv, SchedulerWork \/ SchedulerFault,
         UNCHANGED <<memoryVars, cycleVars, runnerVars>>
  PROVE  SettleInv'
<1> USE DEF SettleInv
<1>1. RegistryTypeOK /\ report \in Report /\ day \in Nat /\ UNCHANGED status
  BY DEF TypeInv, TypeOK, SchedulerTypeOK, RunTypeOK, cycleVars
<1>2. ASSUME NEW p \in report.todo, NEW correct \in BOOLEAN, EvaluateOne(p, correct)
      PROVE  SettleInv'
  <2>1. p \in Prediction /\ Pending(p) /\ pc = "evaluate" /\ pc' = "evaluate" /\ torn' = torn
    BY <1>1, <1>2 DEF EvaluateOne, LoopInv, TodoPending, Report, Goto
  <2>2. MarkOutcome(p, correct, TRUE, day) /\ report' = Counted(p, correct) /\ report.priced
    BY <1>2 DEF EvaluateOne
  <2>3. report'.todo = report.todo \ {p} /\ report'.priced
    BY <1>1, <2>2 DEF Counted, Report
  <2>4. report'.broken = IF correct THEN report.broken ELSE report.broken \cup {p[1]}
    BY <1>1, <2>2 DEF Counted, Report
  <2>5. RowsInv'
    BY <1>1, <2>1, <2>2, MarkOutcomeEffect, RowsStep DEF RowsInv
  <2>6. TodoPending'
    <3>1. \A q \in report.todo \ {p} : rows'[q] = rows[q]
      BY <1>1, <2>1, <2>2, MarkOutcomeEffect DEF Report
    <3> QED
      BY <2>1, <2>3, <3>1 DEF LoopInv, TodoPending, Pending
  <2>7. HalfKnown'
    BY <1>1, <2>1, <2>2, <2>4, MarkOutcomeEffect DEF LoopInv, HalfKnown
  <2> QED
    BY <2>3, <2>5, <2>6, <2>7 DEF LoopInv, UnpricedUnbroken
<1>3. ASSUME NEW p \in report.todo, MarkOverdue(p)
      PROVE  SettleInv'
  <2>1. p \in Prediction /\ Pending(p) /\ pc = "evaluate" /\ pc' = "evaluate" /\ torn' = torn
    BY <1>1, <1>3 DEF MarkOverdue, LoopInv, TodoPending, Report, Goto
  <2>2. MarkOutcome(p, FALSE, FALSE, Today(day))
    BY <1>3 DEF MarkOverdue
  <2>3. report'.todo = report.todo \ {p} /\ report'.broken = report.broken
        /\ report'.priced = report.priced
    BY <1>1, <1>3 DEF MarkOverdue, Report
  <2>4. RowsInv'
    BY <1>1, <2>1, <2>2, MarkOutcomeEffect, RowsStep DEF RowsInv
  <2>5. TodoPending'
    <3>1. \A q \in report.todo \ {p} : rows'[q] = rows[q]
      BY <1>1, <2>1, <2>2, MarkOutcomeEffect DEF Report
    <3> QED
      BY <2>1, <2>3, <3>1 DEF LoopInv, TodoPending, Pending
  <2>6. HalfKnown'
    BY <1>1, <2>1, <2>2, <2>3, MarkOutcomeEffect DEF LoopInv, HalfKnown
  <2> QED
    BY <2>1, <2>3, <2>4, <2>5, <2>6 DEF LoopInv, UnpricedUnbroken
<1>4. ASSUME UNCHANGED <<registryVars, torn>>, pc = "evaluate",
             pc' = "evaluate", report'.todo \subseteq report.todo,
             report.broken \subseteq report'.broken, report'.priced = report.priced,
             report.priced \/ report'.broken = report.broken
      PROVE  SettleInv'
  <2>1. RowsInv'
    BY <1>1, <1>4, RowsStep DEF RowsInv, OpenPending, registryVars, Absent, Pending
  <2>2. TodoPending' /\ UnpricedUnbroken'
    BY <1>4 DEF LoopInv, TodoPending, UnpricedUnbroken, registryVars, Pending
  <2>3. HalfKnown'
    BY <1>4 DEF LoopInv, HalfKnown, Half, RowsOf, Pending, registryVars
  <2> QED
    BY <2>1, <2>2, <2>3 DEF LoopInv
<1>5. ASSUME NEW p \in report.todo, EvaluationError(p)
      PROVE  SettleInv'
  BY <1>1, <1>4, <1>5 DEF EvaluationError, Raise, Report
<1>6. ASSUME NEW p \in report.todo, NEW correct \in BOOLEAN, WriteError(p, correct)
      PROVE  SettleInv'
  <2>1. report'.todo = report.todo \ {p} /\ report'.priced = report.priced
        /\ report.broken \subseteq report'.broken
    BY <1>1, <1>6 DEF WriteError, Counted, Report
  <2> QED
    BY <1>4, <1>6, <2>1 DEF WriteError, Raise
<1>7. ASSUME NEW p \in report.todo, OverdueWriteError(p)
      PROVE  SettleInv'
  <2>1. RowsInv'
    BY <1>1, <1>7, RowsStep
    DEF RowsInv, OverdueWriteError, Raise, OpenPending, registryVars, Absent, Pending
  <2>2. report.broken = {} /\ pc = "evaluate" /\ pc' = "idle"
    BY <1>7 DEF OverdueWriteError, Raise, LoopInv, UnpricedUnbroken
  <2> QED
    BY <1>7, <2>1, <2>2
    DEF OverdueWriteError, schedulerVars, registryVars, LoopInv, TodoPending,
        UnpricedUnbroken, HalfKnown, Half, RowsOf, Pending
<1>8. CASE EvaluationDone
  <2>1. RowsInv'
    BY <1>1, <1>8, RowsStep
    DEF RowsInv, EvaluationDone, Goto, OpenPending, registryVars, Absent, Pending
  <2>2. report'.left = report.broken /\ pc = "evaluate" /\ pc' = "invalidate"
    BY <1>1, <1>8 DEF EvaluationDone, Goto, Report
  <2> QED
    BY <1>8, <2>1, <2>2
    DEF EvaluationDone, registryVars, LoopInv, TodoPending, UnpricedUnbroken, HalfKnown, Half,
        RowsOf, Pending
<1>9. ASSUME NEW t \in report.left, InvalidateThesis(t)
      PROVE  SettleInv'
  <2>1. t \in Thesis /\ pc = "invalidate" /\ pc' = "invalidate" /\ torn' = torn \ {t}
    BY <1>1, <1>9 DEF InvalidateThesis, Report, Goto
  <2>2. InvalidateByThesis(t, day)
    BY <1>9 DEF InvalidateThesis
  <2>3. report'.left = report.left \ {t}
    BY <1>1, <1>9 DEF InvalidateThesis, Report
  <2>4. RowsInv'
    BY <1>1, <2>1, <2>2, InvalidateEffect, RowsStep DEF RowsInv
  <2>5. HalfKnown'
    BY <1>1, <2>1, <2>2, <2>3, InvalidateEffect DEF LoopInv, HalfKnown
  <2> QED
    BY <2>1, <2>4, <2>5 DEF LoopInv, TodoPending, UnpricedUnbroken
<1>10. ASSUME NEW t \in report.left, InvalidateError(t)
       PROVE  SettleInv'
  <2>1. RowsInv'
    BY <1>1, <1>10, RowsStep
    DEF RowsInv, InvalidateError, Raise, OpenPending, registryVars, Absent, Pending
  <2> QED
    BY <1>10, <2>1
    DEF InvalidateError, Raise, registryVars, LoopInv, TodoPending, UnpricedUnbroken,
        HalfKnown, Half, RowsOf, Pending
<1>11. CASE InvalidationDone
  <2>1. RowsInv'
    BY <1>1, <1>11, RowsStep
    DEF RowsInv, InvalidationDone, Goto, OpenPending, registryVars, Absent, Pending
  <2> QED
    BY <1>11, <2>1
    DEF InvalidationDone, Goto, registryVars, schedulerVars, LoopInv, TodoPending,
        UnpricedUnbroken, HalfKnown, Half, RowsOf, Pending
<1> QED
  BY <1>2, <1>3, <1>5, <1>6, <1>7, <1>8, <1>9, <1>10, <1>11 DEF SchedulerWork, SchedulerFault
(* Registering a batch of a fresh thesis: its rows come out pending, so    *)
(* the thesis is not half settled, and the other rows stay as they were.   *)
LEMMA InsertEffect ==
  ASSUME RegistryTypeOK, NEW t \in Thesis, NEW S, NEW d \in Nat, Insert(t, S, d),
         \A p \in RowsOf(t) : Absent(p)
  PROVE  /\ \A p \in Prediction : p[1] # t => rows'[p] = rows[p]
         /\ \A p \in RowsOf(t) : p[2] \in S => Pending(p)'
         /\ \A p \in RowsOf(t) : Absent(p)' \/ Pending(p)'
         /\ \A p \in Prediction : Pending(p) => Pending(p)'
         /\ \A u \in Thesis : Half(u)' => Half(u)
<1>1. \A p \in Prediction :
        rows'[p] = IF p[1] = t /\ p[2] \in S THEN NewRow(p[2], d) ELSE rows[p]
  BY DEF Insert
<1>2. \A s : NewRow(s, d).status = "pending"
  BY DEF NewRow
<1>3. \A p \in Prediction : p[1] # t => rows'[p] = rows[p]
  BY <1>1
<1>4. \A p \in RowsOf(t) : IF p[2] \in S THEN Pending(p)' ELSE Absent(p)'
  BY <1>1, <1>2 DEF RowsOf, Pending, Absent
<1>5. \A p \in Prediction : Pending(p) => Pending(p)'
  BY <1>1, <1>2 DEF Pending
<1>6. ~Half(t)'
  BY <1>4 DEF Half, RowsOf, Pending, Absent
<1>7. \A u \in Thesis : Half(u)' => Half(u)
  BY <1>3, <1>6 DEF Half, RowsOf, Pending
<1> QED
  BY <1>3, <1>4, <1>5, <1>7

(* The engine's steps keep the invariant.                                  *)
LEMMA EngineStepSettles ==
  ASSUME TypeInv, SettleInv, UNCHANGED <<registryVars, schedulerVars, runnerVars>>,
         \/ \E t \in Thesis, batch \in Batches : Research(t, batch)
         \/ StoreEntry \/ FinishCycle \/ SaveError \/ CycleFails
  PROVE  SettleInv'
<1> USE DEF SettleInv
<1>1. status \in [Thesis -> ThesisStatus] /\ cycle \in CycleResult
  BY DEF TypeInv, TypeOK, CycleTypeOK
<1>2. LoopInv' /\ OpenPending'
  <2>1. ~Looping /\ ~Looping' /\ UNCHANGED <<registryVars, torn>>
    BY DEF Research, StoreEntry, FinishCycle, SaveError, CycleFails, Goto, Raise, Looping,
           schedulerVars
  <2> QED
    BY <2>1, QuietStep DEF RowsInv
<1> SUFFICES UnbornAbsent' /\ FreshBatch'
  BY <1>2 DEF RowsInv
<1>3. UNCHANGED rows
  BY DEF registryVars
<1>4. ASSUME NEW t \in Thesis, NEW batch \in Batches, Research(t, batch)
      PROVE  UnbornAbsent' /\ FreshBatch'
  <2>1. cycle'.thesis = t /\ status[t] = "unborn" /\ status' = [status EXCEPT ![t] = "draft"]
    BY <1>1, <1>4 DEF Research, CycleResult
  <2>2. status'[t] = "draft" /\ \A p \in RowsOf(t) : Absent(p)'
    BY <1>1, <1>3, <2>1 DEF RowsInv, UnbornAbsent, Absent, RowsOf
  <2>3. FreshBatch'
    BY <2>1, <2>2 DEF FreshBatch, RowsOf
  <2>4. UnbornAbsent'
    BY <1>1, <1>3, <2>1 DEF RowsInv, UnbornAbsent, Absent, Prediction
  <2> QED
    BY <2>3, <2>4
<1>5. CASE StoreEntry
  BY <1>3, <1>5
  DEF StoreEntry, cycleVars, RowsInv, UnbornAbsent, FreshBatch, Absent, RowsOf
<1>6. ASSUME Complete, pc = "save", pc' = "register"
      PROVE  UnbornAbsent' /\ FreshBatch'
  <2>1. cycle.thesis \in Thesis /\ cycle' = cycle
    BY <1>6 DEF Complete, TypeInv, ThesisKnown
  <2>2. \A t \in Thesis : status'[t] = "unborn" => status[t] = "unborn"
    BY <1>1, <1>6 DEF Complete
  <2>3. status'[cycle.thesis] # "unborn"
    BY <1>1, <1>6, <2>1 DEF Complete
  <2> QED
    BY <1>3, <1>6, <2>1, <2>2, <2>3 DEF RowsInv, UnbornAbsent, FreshBatch, Absent, RowsOf, Prediction
<1>7. CASE FinishCycle
  BY <1>6, <1>7 DEF FinishCycle, Goto
<1>8. CASE SaveError
  BY <1>6, <1>8 DEF SaveError, Raise
<1>9. CASE CycleFails
  BY <1>3, <1>9, RowsStep DEF CycleFails, Raise, Absent
<1> QED
  BY <1>4, <1>5, <1>7, <1>8, <1>9

(* Steps outside the loops that touch neither rows nor theses keep it.     *)
LEMMA IdleStepSettles ==
  ASSUME SettleInv, ~Looping, ~Looping', UNCHANGED <<registryVars, torn, status>>,
         pc' \notin {"store", "save", "register"}
  PROVE  SettleInv'
<1>1. LoopInv' /\ OpenPending'
  BY QuietStep DEF SettleInv, RowsInv
<1>2. \A p \in Prediction : Absent(p) => Absent(p)'
  BY DEF Absent, registryVars
<1> QED
  BY <1>1, <1>2, RowsStep DEF SettleInv, RowsInv

(* Every step of the loop keeps it.                                        *)
LEMMA StepSettles == TypeInv /\ SettleInv /\ [Next]_vars => SettleInv'
<1> SUFFICES ASSUME TypeInv, SettleInv, [Next]_vars PROVE SettleInv'
  OBVIOUS
<1> USE DEF SettleInv
<1>1. /\ RegistryTypeOK /\ day \in Nat /\ cycle \in CycleResult /\ report \in Report
      /\ status \in [Thesis -> ThesisStatus]
  BY DEF TypeInv, TypeOK, RunTypeOK, CycleTypeOK, SchedulerTypeOK
<1>2. CASE Gather
  BY <1>2, IdleStepSettles DEF Gather, Goto, Looping, cycleVars
<1>3. CASE RunCycle
  <2>1. LoopInv' /\ OpenPending'
    BY <1>3, QuietStep DEF RunCycle, BeginCycle, Goto, Looping, schedulerVars, RowsInv
  <2>2. \A t \in Thesis : status'[t] = "unborn" => status[t] = "unborn"
    BY <1>1, <1>3 DEF RunCycle, BeginCycle, Judge
  <2> QED
    BY <1>3, <2>1, <2>2
    DEF RunCycle, BeginCycle, Goto, registryVars, RowsInv, UnbornAbsent, FreshBatch, Absent,
        Prediction
<1>4. ASSUME cycle.thesis \in Thesis, pc = "register", pc' \in {"report", "idle"},
             UNCHANGED <<schedulerVars, cycleVars>>, NEW S \in SUBSET Slot,
             \/ RegisterPredictions(cycle.thesis, S, day)
             \/ RegisterBreaksOff(cycle.thesis, S, day)
      PROVE  SettleInv'
  <2>1. Insert(cycle.thesis, S, day) /\ \A p \in RowsOf(cycle.thesis) : Absent(p)
    BY <1>4 DEF RegisterPredictions, RegisterBreaksOff, RowsInv, FreshBatch
  <2>2. OpenPending'
    <3>1. \A p \in open : p \in Prediction /\ Pending(p)'
      BY <1>1, <1>4, <2>1, InsertEffect DEF RowsInv, OpenPending, RegistryTypeOK
    <3>2. \A p \in open' : p \in open \/ (p \in RowsOf(cycle.thesis) /\ p[2] \in S)
      BY <1>4 DEF RegisterPredictions, RegisterBreaksOff
    <3> QED
      BY <1>1, <1>4, <2>1, <3>1, <3>2, InsertEffect DEF OpenPending
  <2>3. UnbornAbsent'
    <3>1. \A p \in Prediction : p[1] # cycle.thesis => rows'[p] = rows[p]
      BY <1>1, <1>4, <2>1, InsertEffect
    <3> QED
      BY <1>4, <3>1 DEF RowsInv, UnbornAbsent, FreshBatch, Absent, cycleVars
  <2>4. HalfKnown'
    <3>1. \A u \in Thesis : Half(u)' => Half(u)
      BY <1>1, <1>4, <2>1, InsertEffect
    <3> QED
      BY <1>4, <3>1 DEF LoopInv, HalfKnown, schedulerVars
  <2> QED
    BY <1>4, <2>2, <2>3, <2>4 DEF RowsInv, FreshBatch, LoopInv, TodoPending, UnpricedUnbroken
<1>5. CASE Register
  <2>1. cycle.thesis \in Thesis /\ cycle.batch \in SUBSET Slot /\ pc' = "report" /\ pc = "register"
    BY <1>1, <1>5 DEF Register, Goto, CycleResult, TypeInv, ThesisKnown
  <2>2. CASE cycle.batch = {}
    BY <1>5, <2>1, <2>2, IdleStepSettles DEF Register, Looping, schedulerVars, cycleVars
  <2>3. CASE cycle.batch # {}
    BY <1>4, <1>5, <2>1, <2>3 DEF Register
  <2> QED
    BY <2>2, <2>3
<1>6. ASSUME NEW written \in SUBSET Slot, RegisterError(written)
      PROVE  SettleInv'
  BY <1>4, <1>6 DEF RegisterError, Raise, TypeInv, ThesisKnown
<1>7. CASE FinishRun
  BY <1>7, IdleStepSettles DEF FinishRun, Goto, Looping, schedulerVars
<1>8. CASE GatherError \/ ReportError
  BY <1>8, IdleStepSettles
  DEF GatherError, ReportError, Raise, Looping, schedulerVars, cycleVars
<1>9. CASE Restart
  <2>1. \A p \in Prediction : rows'[p] = IF p \in open THEN NoRow ELSE rows[p]
    BY <1>9 DEF Restart, RollBack
  <2>2. pc' = "idle" /\ open' = {} /\ status' = status /\ torn' = torn \cup TornByCrash
    BY <1>9 DEF Restart, RollBack, EngineRestart, Goto
  <2>3. RowsInv'
    BY <2>1, <2>2, RowsStep DEF RowsInv, OpenPending, Absent, NoRow
  <2>4. \A t \in Thesis : Half(t)' => Half(t)
    BY <2>1 DEF Half, RowsOf, Pending, NoRow
  <2>5. HalfKnown'
    BY <2>2, <2>4 DEF LoopInv, HalfKnown, TornByCrash
  <2> QED
    BY <2>2, <2>3, <2>5 DEF LoopInv, TodoPending, UnpricedUnbroken
<1>10. ASSUME NEW d \in day..MaxDay, NEW data \in BOOLEAN, StartRun(d, data)
       PROVE  SettleInv'
  <2>1. /\ pc = "idle" /\ pc' \in {"gather", "evaluate"} /\ UNCHANGED <<registryVars, torn>>
        /\ UNCHANGED status /\ report' = NewReport(data, Due(d))
    BY <1>10 DEF StartRun, SchedulerRun, cycleVars
  <2>2. report'.todo = Due(d) /\ report'.broken = {}
    BY <2>1 DEF NewReport
  <2>3. RowsInv'
    BY <2>1, RowsStep DEF RowsInv, OpenPending, registryVars, Absent, Pending
  <2>4. TodoPending' /\ UnpricedUnbroken'
    BY <2>1, <2>2 DEF TodoPending, UnpricedUnbroken, Due, Pending, registryVars
  <2>5. HalfKnown'
    BY <2>1 DEF LoopInv, HalfKnown, Half, RowsOf, Pending, registryVars
  <2> QED
    BY <2>3, <2>4, <2>5 DEF LoopInv
<1>11. ASSUME NEW p \in Prediction, NEW correct \in BOOLEAN, ForceEvaluate(p, correct),
              UNCHANGED <<memoryVars, cycleVars, runnerVars>>
       PROVE  SettleInv'
  <2>1. /\ pc = "idle" /\ pc' = "idle" /\ UNCHANGED status /\ Pending(p)
        /\ MarkOutcome(p, correct, TRUE, Today(day))
        /\ torn' = IF correct THEN torn ELSE torn \cup {p[1]}
    BY <1>11 DEF ForceEvaluate, runVars, cycleVars
  <2>2. RowsInv'
    BY <1>1, <2>1, MarkOutcomeEffect, RowsStep DEF RowsInv
  <2>3. HalfKnown'
    BY <1>1, <2>1, MarkOutcomeEffect DEF LoopInv, HalfKnown
  <2> QED
    BY <2>1, <2>2, <2>3 DEF LoopInv, TodoPending, UnpricedUnbroken
<1>12. CASE UNCHANGED vars
  BY <1>12
  DEF vars, registryVars, schedulerVars, cycleVars, runVars, RowsInv, LoopInv, UnbornAbsent,
      FreshBatch, OpenPending, TodoPending, UnpricedUnbroken, HalfKnown, Half, RowsOf, Absent, Pending
<1> QED
  BY <1>2, <1>3, <1>5, <1>6, <1>7, <1>8, <1>9, <1>10, <1>11, <1>12,
     SchedulerStepSettles, EngineStepSettles
  DEF Next, Work, Fault, Request, CycleStep

(* The inductive invariant holds of an empty database.                     *)
LEMMA InitSettles == Init => SettleInv
BY DEF Init, RunInit, RegistryInit, SettleInv, RowsInv, LoopInv, UnbornAbsent, FreshBatch,
       OpenPending, TodoPending, UnpricedUnbroken, HalfKnown, Half, RowsOf, Absent, Pending, NoRow

(* It holds, with the types, in every reachable state.                     *)
LEMMA SettleInvariant == Spec => [](TypeInv /\ SettleInv)
<1>1. Init => TypeInv /\ SettleInv
  BY InitType, InitSettles
<1>2. TypeInv /\ SettleInv /\ [Next]_vars => (TypeInv /\ SettleInv)'
  BY StepType, StepSettles
<1> QED
  BY <1>1, <1>2, PTL DEF Spec

(* No thesis is left half judged: outside the scheduler's loops, a thesis  *)
(* with a wrong prediction has none still pending, unless its invalidation *)
(* was cut short or the wrong one was forced.                              *)
THEOREM SiblingsAreSettled == Spec => []SiblingsSettled
<1>1. TypeInv /\ SettleInv => SiblingsSettled
  BY DEF SettleInv, LoopInv, HalfKnown, SiblingsSettled
<1> QED
  BY <1>1, SettleInvariant, PTL
(* One step never rewrites a row that has a verdict.                       *)
LEMMA StepKeepsVerdicts ==
  TypeInv /\ SettleInv /\ [Next]_vars =>
    \A p \in Prediction : rows[p].status \in Terminal => rows'[p] = rows[p]
<1> SUFFICES ASSUME TypeInv, SettleInv, [Next]_vars,
                    NEW p \in Prediction, rows[p].status \in Terminal
             PROVE  rows'[p] = rows[p]
  OBVIOUS
<1>1. ~Pending(p) /\ ~Absent(p)
  BY DEF Terminal, Pending, Absent
<1>2. RegistryTypeOK /\ day \in Nat /\ report \in Report /\ cycle \in CycleResult
  BY DEF TypeInv, TypeOK, RunTypeOK, SchedulerTypeOK, CycleTypeOK
<1>3. CASE UNCHANGED registryVars
  BY <1>3 DEF registryVars
<1>4. ASSUME NEW q \in Prediction, NEW ok \in BOOLEAN, NEW v \in BOOLEAN, NEW d \in Nat,
             MarkOutcome(q, ok, v, d), Pending(q)
      PROVE  rows'[p] = rows[p]
  BY <1>1, <1>2, <1>4, MarkOutcomeEffect
<1>5. ASSUME NEW q \in report.todo, NEW correct \in BOOLEAN, EvaluateOne(q, correct)
      PROVE  rows'[p] = rows[p]
  BY <1>2, <1>4, <1>5 DEF EvaluateOne, SettleInv, LoopInv, TodoPending, Report
<1>6. ASSUME NEW q \in report.todo, MarkOverdue(q)
      PROVE  rows'[p] = rows[p]
  BY <1>2, <1>4, <1>6, TodayType DEF MarkOverdue, SettleInv, LoopInv, TodoPending, Report
<1>7. ASSUME NEW t \in report.left, InvalidateThesis(t)
      PROVE  rows'[p] = rows[p]
  BY <1>1, <1>2, <1>7, InvalidateEffect DEF InvalidateThesis, Report
<1>8. ASSUME pc = "register", NEW S, Insert(cycle.thesis, S, day)
      PROVE  rows'[p] = rows[p]
  <2>1. p[1] # cycle.thesis
    BY <1>1, <1>8 DEF SettleInv, RowsInv, FreshBatch, RowsOf
  <2> QED
    BY <1>8, <2>1 DEF Insert
<1>9. CASE Register
  BY <1>3, <1>8, <1>9 DEF Register, RegisterPredictions
<1>10. ASSUME NEW written \in SUBSET Slot, RegisterError(written)
       PROVE  rows'[p] = rows[p]
  BY <1>8, <1>10 DEF RegisterError, RegisterBreaksOff
<1>11. CASE Restart
  BY <1>1, <1>11 DEF Restart, RollBack, SettleInv, RowsInv, OpenPending
<1>12. ASSUME NEW q \in Prediction, NEW correct \in BOOLEAN, ForceEvaluate(q, correct)
       PROVE  rows'[p] = rows[p]
  BY <1>2, <1>4, <1>12, TodayType DEF ForceEvaluate
<1>13. CASE SchedulerWork \/ SchedulerFault
  BY <1>3, <1>5, <1>6, <1>7, <1>13
  DEF SchedulerWork, SchedulerFault, EvaluationDone, InvalidationDone, EvaluationError,
      WriteError, OverdueWriteError, InvalidateError
<1> QED
  BY <1>3, <1>9, <1>10, <1>11, <1>12, <1>13
  DEF Next, Work, Fault, Request, CycleStep, Gather, RunCycle, FinishRun, GatherError,
      ReportError,       StartRun, SchedulerRun, vars

(* A prediction that has got its verdict keeps it, with the date and the   *)
(* value it was judged by, through every later run, crash and restart.     *)
THEOREM VerdictsAreFinal == Spec => VerdictFinal
<1>1. TypeInv /\ SettleInv /\ [Next]_vars =>
        [\A p \in Prediction : rows[p].status \in Terminal => rows'[p] = rows[p]]_vars
  BY StepKeepsVerdicts
<1> QED
  BY <1>1, SettleInvariant, PTL DEF Spec, VerdictFinal

-----------------------------------------------------------------------------
(* What the engine does to the theses in one step *)

InCycle == pc \in {"research", "store", "save"}

(* A thesis that is not complete has not been judged, and the thesis about *)
(* to register is complete.                                                *)
Unjudged == \A t \in Thesis : status[t] \in {"unborn", "draft"} => applied[t] = 0

CurrentStatus ==
  /\ pc \in {"store", "save"} => status[cycle.thesis] = "draft"
  /\ pc = "register" => status[cycle.thesis] = "active"

(* The cycle at hand judges nobody but the previous thesis, and as long as *)
(* it has not judged it, the previous thesis was judged only by cycles     *)
(* that failed.                                                            *)
JudgesPrevious ==
  /\ InCycle => cycle.outcomeOf \in {None, previous}
  /\ previous # None /\ ~(InCycle /\ cycle.outcomeOf = previous)
       => applied[previous] <= redo[previous]
  /\ previous # None => status[previous] \notin {"unborn", "draft"}

Counts == Unjudged /\ CurrentStatus /\ JudgesPrevious /\ AppliedOncePerCycle

(* Every step of the loop is one of the engine's, or leaves the theses and *)
(* what they were applied for alone.                                       *)
LEMMA EngineOrQuiet ==
  ASSUME TypeInv, [Next]_vars
  PROVE  \/ RunCycle
         \/ \E t \in Thesis, batch \in Batches : Research(t, batch)
         \/ StoreEntry
         \/ pc = "save" /\ pc' = "register" /\ Complete
         \/ CycleFails
         \/ Restart
         \/ /\ UNCHANGED <<status, applied, redo, previous>>
            /\ cycle' = cycle \/ pc' = "idle"
            /\ pc' = pc \/ (~InCycle /\ pc' \notin {"research", "store", "save", "register"})
BY DEF Next, Work, Fault, Request, CycleStep, SchedulerWork, SchedulerFault, EvaluateOne,
       MarkOverdue, EvaluationDone, InvalidateThesis, InvalidationDone, EvaluationError,
       WriteError, OverdueWriteError, InvalidateError, Gather, GatherError, Register,
       RegisterError, FinishRun, ReportError, StartRun, SchedulerRun, ForceEvaluate,
       FinishCycle, SaveError, Goto, Raise, InCycle, cycleVars, runVars, vars

LEMMA InitCounts == Init => Counts
BY DEF Init, RunInit, CycleInit, Counts, Unjudged, CurrentStatus, JudgesPrevious,
       AppliedOncePerCycle, InCycle

LEMMA StepCounts ==
  ASSUME TypeInv, Counts, [Next]_vars
  PROVE  Counts'
<1> USE DEF Counts, Unjudged, CurrentStatus, JudgesPrevious, AppliedOncePerCycle, InCycle
<1>1. /\ status \in [Thesis -> ThesisStatus] /\ cycle \in CycleResult
      /\ applied \in [Thesis -> Nat] /\ redo \in [Thesis -> Nat]
      /\ previous \in Thesis \cup {None} /\ None \notin Thesis
      /\ outcomes.fed \subseteq Thesis
  BY DomainAssumption DEF TypeInv, TypeOK, CycleTypeOK, RunnerTypeOK, Outcomes
<1>2. CASE RunCycle
  <2>0. pc = "cycle" /\ pc' = "research" /\ previous' = previous /\ redo' = redo
    BY <1>2 DEF RunCycle, BeginCycle, Goto
  <2>1. CASE previous \in outcomes.fed
    <3> PICK verdict \in Verdicts : Judge(previous, verdict)
      BY <1>2, <2>1 DEF RunCycle, BeginCycle
    <3>1. previous \in Thesis
      BY <1>1, <2>1
    <3>2. /\ \A t \in Thesis : t # previous => status'[t] = status[t] /\ applied'[t] = applied[t]
          /\ status'[previous] \in {"validated", "invalidated"}
          /\ applied'[previous] = applied[previous] + 1
          /\ cycle'.outcomeOf = previous
      BY <1>1, <3>1 DEF Judge, NewResult
    <3>3. applied[previous] \in Nat /\ redo[previous] \in Nat /\ applied[previous] <= redo[previous]
      BY <1>1, <2>0, <3>1
    <3> QED
      BY <1>1, <2>0, <3>1, <3>2, <3>3
  <2>2. CASE previous \notin outcomes.fed
    <3>1. UNCHANGED <<status, applied>> /\ cycle'.outcomeOf = None
      BY <1>2, <2>2 DEF RunCycle, BeginCycle, NewResult
    <3> QED
      BY <1>1, <2>0, <3>1
  <2> QED
    BY <2>1, <2>2
<1>3. ASSUME NEW t \in Thesis, NEW batch \in Batches, Research(t, batch)
      PROVE  Counts'
  <2>1. /\ pc = "research" /\ pc' = "store" /\ UNCHANGED <<previous, applied, redo>>
        /\ status[t] = "unborn" /\ cycle'.thesis = t /\ cycle'.outcomeOf = cycle.outcomeOf
        /\ status'[t] = "draft" /\ \A u \in Thesis : u # t => status'[u] = status[u]
    BY <1>1, <1>3 DEF Research, Goto, CycleResult
  <2> QED
    BY <1>1, <2>1
<1>4. CASE StoreEntry
  BY <1>1, <1>4 DEF StoreEntry, Goto, cycleVars
<1>5. CASE pc = "save" /\ pc' = "register" /\ Complete
  <2>1. cycle.thesis \in Thesis /\ status[cycle.thesis] = "draft"
    BY <1>5 DEF TypeInv, ThesisKnown
  <2>2. /\ previous' = cycle.thesis /\ UNCHANGED <<cycle, applied, redo>>
        /\ status'[cycle.thesis] = "active"
        /\ \A u \in Thesis : u # cycle.thesis => status'[u] = status[u]
    BY <1>1, <1>5, <2>1 DEF Complete
  <2>3. applied[cycle.thesis] = 0 /\ redo[cycle.thesis] \in Nat
    BY <1>1, <2>1
  <2> QED
    BY <1>1, <1>5, <2>1, <2>2, <2>3
<1>6. CASE CycleFails
  <2>1. /\ pc \in {"research", "store"} /\ pc' = "idle" /\ UNCHANGED <<status, previous, cycle, applied>>
    BY <1>6 DEF CycleFails, Raise
  <2>2. CASE cycle.outcomeOf = None
    <3>1. redo' = redo
      BY <1>6, <2>2 DEF CycleFails
    <3> QED
      BY <1>1, <2>1, <2>2, <3>1
  <2>3. CASE cycle.outcomeOf # None
    <3>1. cycle.outcomeOf = previous /\ previous \in Thesis
      BY <1>1, <2>1, <2>3
    <3>2. /\ redo'[previous] = redo[previous] + 1
          /\ \A u \in Thesis : u # previous => redo'[u] = redo[u]
      BY <1>1, <1>6, <2>3, <3>1 DEF CycleFails
    <3>3. \A u \in Thesis : applied[u] \in Nat /\ redo[u] \in Nat /\ applied[u] <= 1 + redo[u]
      BY <1>1
    <3> QED
      BY <1>1, <2>1, <3>1, <3>2, <3>3
  <2> QED
    BY <2>2, <2>3
<1>7. CASE Restart
  BY <1>1, <1>7 DEF Restart, EngineRestart, Goto
<1>8. CASE /\ UNCHANGED <<status, applied, redo, previous>>
           /\ cycle' = cycle \/ pc' = "idle"
           /\ pc' = pc \/ (~InCycle /\ pc' \notin {"research", "store", "save", "register"})
  BY <1>1, <1>8
<1> QED
  BY <1>2, <1>3, <1>4, <1>5, <1>6, <1>7, <1>8, EngineOrQuiet

(* The outcome of a thesis moves the graph once, and once more for every   *)
(* cycle that processed it and then failed, whatever fails or restarts.    *)
THEOREM AppliedOncePerCycleAlways == Spec => []AppliedOncePerCycle
<1>1. Init => TypeInv /\ Counts
  BY InitType, InitCounts
<1>2. TypeInv /\ Counts /\ [Next]_vars => TypeInv' /\ Counts'
  BY StepType, StepCounts
<1>3. Counts => AppliedOncePerCycle
  BY DEF Counts
<1> QED
  BY <1>1, <1>2, <1>3, PTL DEF Spec

-----------------------------------------------------------------------------
(* What a step does to the rows *)

(* One step of the loop writes the table in one of five ways: verdict,     *)
(* invalidation, batch, rollback, or not at all.                           *)
LEMMA RowsWritten ==
  ASSUME TypeInv, SettleInv, [Next]_vars
  PROVE  \/ \E p \in Prediction, success \in BOOLEAN, valued \in BOOLEAN, d \in Nat :
              /\ MarkOutcome(p, success, valued, d) /\ Pending(p)
              /\ pc = "idle" \/ (pc = "evaluate" /\ p \in report.todo)
         \/ \E t \in report.left : InvalidateByThesis(t, day) /\ pc = "invalidate"
         \/ \E S \in SUBSET Slot :
              /\ Insert(cycle.thesis, S, day) /\ pc = "register" /\ cycle.thesis \in Thesis
              /\ UNCHANGED cycleVars
         \/ RollBack /\ UNCHANGED <<status, applied, redo>>
         \/ UNCHANGED rows
<1>1. /\ report \in Report /\ day \in Nat /\ cycle \in CycleResult /\ RegistryTypeOK
      /\ \A d \in Nat : Today(d) \in Nat
  BY TodayType DEF TypeInv, TypeOK, SchedulerTypeOK, RunTypeOK, CycleTypeOK
<1>2. ASSUME NEW p \in report.todo, NEW correct \in BOOLEAN, EvaluateOne(p, correct)
      PROVE  /\ p \in Prediction /\ Pending(p) /\ pc = "evaluate"
             /\ MarkOutcome(p, correct, TRUE, day)
  BY <1>1, <1>2 DEF EvaluateOne, Report, SettleInv, LoopInv, TodoPending
<1>3. ASSUME NEW p \in report.todo, MarkOverdue(p)
      PROVE  /\ p \in Prediction /\ Pending(p) /\ pc = "evaluate"
             /\ MarkOutcome(p, FALSE, FALSE, Today(day))
  BY <1>1, <1>3 DEF MarkOverdue, Report, SettleInv, LoopInv, TodoPending
<1>4. ASSUME NEW p \in Prediction, NEW correct \in BOOLEAN, ForceEvaluate(p, correct)
      PROVE  Pending(p) /\ pc = "idle" /\ MarkOutcome(p, correct, TRUE, Today(day))
  BY <1>4 DEF ForceEvaluate
<1>5. ASSUME NEW t \in report.left, InvalidateThesis(t)
      PROVE  InvalidateByThesis(t, day) /\ pc = "invalidate"
  BY <1>5 DEF InvalidateThesis
<1>6. CASE Register
  <2>1. pc = "register" /\ cycle.thesis \in Thesis /\ UNCHANGED cycleVars /\ cycle.batch \in SUBSET Slot
    BY <1>1, <1>6 DEF Register, TypeInv, ThesisKnown, CycleResult
  <2>2. UNCHANGED rows \/ Insert(cycle.thesis, cycle.batch, day)
    BY <1>6 DEF Register, RegisterPredictions, registryVars
  <2> QED
    BY <2>1, <2>2
<1>7. ASSUME NEW written \in SUBSET Slot, RegisterError(written)
      PROVE  /\ Insert(cycle.thesis, written, day) /\ pc = "register" /\ cycle.thesis \in Thesis
             /\ UNCHANGED cycleVars
  BY <1>7 DEF RegisterError, RegisterBreaksOff, TypeInv, ThesisKnown
<1>8. CASE Restart
  BY <1>8 DEF Restart, EngineRestart
<1>9. CASE SchedulerWork \/ SchedulerFault
  <2>1. ASSUME UNCHANGED registryVars
        PROVE  UNCHANGED rows
    BY <2>1 DEF registryVars
  <2> QED
    BY <1>1, <1>2, <1>3, <1>5, <1>9, <2>1
    DEF SchedulerWork, SchedulerFault, EvaluationDone, InvalidationDone, EvaluationError,
        WriteError, OverdueWriteError, InvalidateError
<1>10. CASE \/ Gather \/ GatherError \/ RunCycle \/ FinishRun \/ ReportError \/ UNCHANGED vars
            \/ \E d \in day..MaxDay, data \in BOOLEAN : StartRun(d, data)
  BY <1>10 DEF Gather, GatherError, RunCycle, FinishRun, ReportError, StartRun, SchedulerRun, vars,
               registryVars
<1>11. ASSUME UNCHANGED registryVars
       PROVE  UNCHANGED rows
  BY <1>11 DEF registryVars
<1> QED
  BY <1>1, <1>4, <1>6, <1>7, <1>8, <1>9, <1>10, <1>11 DEF Next, Work, Fault, Request, CycleStep

(* A row appears only when the thesis at hand registers.                   *)
LEMMA RowsAppear ==
  ASSUME TypeInv, SettleInv, [Next]_vars, NEW p \in Prediction, Absent(p), ~Absent(p)'
  PROVE  pc = "register" /\ p[1] = cycle.thesis /\ UNCHANGED status
<1>1. RegistryTypeOK /\ report \in Report /\ day \in Nat
  BY DEF TypeInv, TypeOK, SchedulerTypeOK, RunTypeOK
<1>2. ASSUME NEW q \in Prediction, NEW success \in BOOLEAN, NEW valued \in BOOLEAN, NEW d \in Nat,
             MarkOutcome(q, success, valued, d), Pending(q)
      PROVE  FALSE
  BY <1>1, <1>2, MarkOutcomeEffect
<1>3. ASSUME NEW t \in report.left, InvalidateByThesis(t, day)
      PROVE  FALSE
  BY <1>1, <1>3, InvalidateEffect DEF Report
<1>4. ASSUME NEW S \in SUBSET Slot, Insert(cycle.thesis, S, day), p[1] # cycle.thesis
      PROVE  FALSE
  BY <1>4 DEF Insert, Absent
<1>5. CASE RollBack
  BY <1>5 DEF RollBack, Absent, NoRow
<1>6. CASE UNCHANGED rows
  BY <1>6 DEF Absent
<1> QED
  BY <1>2, <1>3, <1>4, <1>5, <1>6, RowsWritten DEF cycleVars

(* Only the theses of completed cycles have rows.                          *)
LEMMA StepRegisters ==
  ASSUME TypeInv, SettleInv, Counts, RegisteredOnlyCompleted, [Next]_vars
  PROVE  RegisteredOnlyCompleted'
<1> SUFFICES ASSUME NEW p \in Prediction, ~Absent(p)'
             PROVE  status'[p[1]] \in {"active", "validated", "invalidated"}
  BY DEF RegisteredOnlyCompleted, Absent
<1> DEFINE t == p[1]
           Completed == {"active", "validated", "invalidated"}
<1>1. t \in Thesis /\ status \in [Thesis -> ThesisStatus]
  BY DEF Prediction, TypeInv, TypeOK, CycleTypeOK
<1>2. CASE Absent(p)
  <2>1. pc = "register" /\ t = cycle.thesis /\ UNCHANGED status
    BY <1>2, RowsAppear
  <2> QED
    BY <2>1 DEF Counts, CurrentStatus
<1>3. CASE ~Absent(p)
  <2>1. status[t] \in Completed
    BY <1>3 DEF RegisteredOnlyCompleted, Absent
  <2>2. ASSUME NEW u \in Thesis, NEW batch \in Batches, Research(u, batch)
        PROVE  status'[t] \in Completed
    BY <1>1, <2>1, <2>2 DEF Research
  <2>3. CASE Complete
    BY <1>1, <2>1, <2>3 DEF Complete
  <2>4. CASE RunCycle
    BY <1>1, <2>1, <2>4 DEF RunCycle, BeginCycle, Judge
  <2>5. CASE StoreEntry \/ CycleFails \/ Restart
    BY <2>1, <2>5 DEF StoreEntry, CycleFails, Restart, EngineRestart, cycleVars
  <2> QED
    BY <2>1, <2>2, <2>3, <2>4, <2>5, EngineOrQuiet
<1> QED
  BY <1>2, <1>3

(* The registry never holds a prediction of a thesis whose cycle failed.   *)
THEOREM RegisteredOnlyCompletedAlways == Spec => []RegisteredOnlyCompleted
<1>1. Init => TypeInv /\ SettleInv /\ Counts /\ RegisteredOnlyCompleted
  <2>1. Init => RegisteredOnlyCompleted
    BY DEF Init, RegistryInit, RegisteredOnlyCompleted, NoRow
  <2> QED
    BY <2>1, InitType, InitSettles, InitCounts
<1>2. TypeInv /\ SettleInv /\ Counts /\ RegisteredOnlyCompleted /\ [Next]_vars
        => TypeInv' /\ SettleInv' /\ Counts' /\ RegisteredOnlyCompleted'
  BY StepType, StepSettles, StepCounts, StepRegisters
<1> QED
  BY <1>1, <1>2, PTL DEF Spec
-----------------------------------------------------------------------------
(* The report *)

(* What the loop has still to visit has been counted in no way.            *)
TodoUncounted ==
  report.todo \cap (report.correct \cup report.incorrect \cup report.errors) = {}

Visited == report.due \ (report.todo \cup report.errors)

(* A step either leaves the report's counters alone, begins a report, or   *)
(* visits one prediction: without an error, with its verdict in the table, *)
(* or with an error.                                                       *)
LEMMA ReportStep ==
  ASSUME TypeInv, SettleInv, [Next]_vars
  PROVE  \/ /\ report'.due = report.due /\ report'.todo = report.todo
            /\ report'.errors = report.errors
            /\ report'.correct = report.correct /\ report'.incorrect = report.incorrect
         \/ report'.due = report'.todo /\ report'.errors = {} /\ report'.correct = {}
            /\ report'.incorrect = {}
         \/ \E p \in report.todo, correct \in BOOLEAN :
              /\ report'.due = report.due /\ report'.todo = report.todo \ {p}
              /\ report'.errors = report.errors
              /\ report'.correct = IF correct THEN report.correct \cup {p} ELSE report.correct
              /\ report'.incorrect = IF correct THEN report.incorrect ELSE report.incorrect \cup {p}
              /\ rows'[p].status = IF correct THEN "success" ELSE "failed"
         \/ \E p \in report.todo :
              /\ report'.due = report.due /\ report'.todo = report.todo \ {p}
              /\ report'.errors = report.errors \cup {p}
              /\ report'.correct \in {report.correct, report.correct \cup {p}}
              /\ report'.incorrect \in {report.incorrect, report.incorrect \cup {p}}
<1>1. report \in Report /\ day \in Nat /\ RegistryTypeOK /\ Today(day) \in Nat
  BY TodayType DEF TypeInv, TypeOK, SchedulerTypeOK, RunTypeOK
<1>2. ASSUME NEW p \in report.todo, NEW correct \in BOOLEAN, EvaluateOne(p, correct)
      PROVE  /\ report'.due = report.due /\ report'.todo = report.todo \ {p}
             /\ report'.errors = report.errors
             /\ report'.correct = IF correct THEN report.correct \cup {p} ELSE report.correct
             /\ report'.incorrect = IF correct THEN report.incorrect ELSE report.incorrect \cup {p}
             /\ rows'[p].status = IF correct THEN "success" ELSE "failed"
  <2>1. p \in Prediction /\ Pending(p) /\ MarkOutcome(p, correct, TRUE, day)
    BY <1>1, <1>2 DEF EvaluateOne, Report, SettleInv, LoopInv, TodoPending
  <2>2. rows'[p].status = IF correct THEN "success" ELSE "failed"
    BY <1>1, <2>1, MarkOutcomeEffect
  <2> QED
    BY <1>1, <1>2, <2>2 DEF EvaluateOne, Counted, Report
<1>3. ASSUME NEW p \in report.todo, MarkOverdue(p)
      PROVE  /\ report'.due = report.due /\ report'.todo = report.todo \ {p}
             /\ report'.errors = report.errors /\ report'.correct = report.correct
             /\ report'.incorrect = report.incorrect \cup {p}
             /\ rows'[p].status = "failed"
  <2>1. p \in Prediction /\ Pending(p) /\ MarkOutcome(p, FALSE, FALSE, Today(day))
    BY <1>1, <1>3 DEF MarkOverdue, Report, SettleInv, LoopInv, TodoPending
  <2>2. rows'[p].status = "failed"
    BY <1>1, <2>1, MarkOutcomeEffect
  <2> QED
    BY <1>1, <1>3, <2>2 DEF MarkOverdue, Report
<1>4. ASSUME NEW p \in report.todo, EvaluationError(p)
      PROVE  /\ report'.due = report.due /\ report'.todo = report.todo \ {p}
             /\ report'.errors = report.errors \cup {p}
             /\ report'.correct = report.correct /\ report'.incorrect = report.incorrect
  BY <1>1, <1>4 DEF EvaluationError, Report
<1>5. ASSUME NEW p \in report.todo, NEW correct \in BOOLEAN, WriteError(p, correct)
      PROVE  /\ report'.due = report.due /\ report'.todo = report.todo \ {p}
             /\ report'.errors = report.errors \cup {p}
             /\ report'.correct \in {report.correct, report.correct \cup {p}}
             /\ report'.incorrect \in {report.incorrect, report.incorrect \cup {p}}
  <2>1. Counted(p, correct) \in Report
    BY <1>1, <1>5, CountedType DEF Report
  <2> QED
    BY <1>1, <1>5, <2>1 DEF WriteError, Counted, Report
<1>6. CASE EvaluationDone \/ \E t \in report.left : InvalidateThesis(t)
  BY <1>1, <1>6 DEF EvaluationDone, InvalidateThesis, Report
<1>7. CASE Gather \/ Restart \/ \E d \in day..MaxDay, data \in BOOLEAN : StartRun(d, data)
  <2>1. PICK data, D : report' = NewReport(data, D)
    BY <1>7 DEF Gather, Restart, StartRun, SchedulerRun, NoReport
  <2>2. report'.due = report'.todo /\ report'.errors = {} /\ report'.correct = {}
        /\ report'.incorrect = {}
    BY <2>1 DEF NewReport
  <2> QED
    BY <2>2
<1>8. ASSUME report' = report
      PROVE  /\ report'.due = report.due /\ report'.todo = report.todo
             /\ report'.errors = report.errors
             /\ report'.correct = report.correct /\ report'.incorrect = report.incorrect
  BY <1>8
<1>9. CASE report' = report
  BY <1>8, <1>9
<1>10. CASE SchedulerWork \/ SchedulerFault
  <2>1. CASE \E p \in report.todo, correct \in BOOLEAN : EvaluateOne(p, correct)
    BY <1>2, <2>1
  <2>2. CASE \E p \in report.todo : MarkOverdue(p)
    BY <1>3, <2>2
  <2>3. CASE \E p \in report.todo : EvaluationError(p)
    BY <1>4, <2>3
  <2>4. CASE \E p \in report.todo, correct \in BOOLEAN : WriteError(p, correct)
    BY <1>5, <2>4
  <2>5. CASE \/ InvalidationDone \/ \E p \in report.todo : OverdueWriteError(p)
             \/ \E t \in report.left : InvalidateError(t)
    BY <1>9, <2>5 DEF InvalidationDone, OverdueWriteError, InvalidateError, schedulerVars
  <2> QED
    BY <1>6, <1>10, <2>1, <2>2, <2>3, <2>4, <2>5 DEF SchedulerWork, SchedulerFault
<1>11. CASE \/ GatherError \/ RunCycle \/ Register \/ FinishRun \/ ReportError \/ UNCHANGED vars
            \/ \E written \in SUBSET Slot : RegisterError(written)
            \/ \E p \in Prediction, correct \in BOOLEAN : ForceEvaluate(p, correct)
  BY <1>9, <1>11 DEF GatherError, RunCycle, Register, FinishRun, ReportError, RegisterError,
                     ForceEvaluate, schedulerVars, vars
<1> QED
  BY <1>7, <1>9, <1>10, <1>11 DEF Next, Work, Fault, Request, CycleStep, schedulerVars

LEMMA StepReports ==
  ASSUME TypeInv, SettleInv, ReportHonest, TodoUncounted, [Next]_vars
  PROVE  ReportHonest' /\ TodoUncounted'
<1> USE DEF ReportHonest, TodoUncounted
<1>1. report \in Report
  BY DEF TypeInv, TypeOK, SchedulerTypeOK
<1>2. \A p \in Visited : rows'[p].status = rows[p].status
  <2> SUFFICES ASSUME NEW p \in Visited PROVE rows'[p].status = rows[p].status
    OBVIOUS
  <2>1. p \in Prediction /\ rows[p].status \in Terminal
    BY <1>1 DEF Visited, Report, Terminal
  <2> QED
    BY <2>1, StepKeepsVerdicts
<1>3. CASE /\ report'.due = report.due /\ report'.todo = report.todo
           /\ report'.errors = report.errors
           /\ report'.correct = report.correct /\ report'.incorrect = report.incorrect
  BY <1>2, <1>3 DEF Visited
<1>4. CASE report'.due = report'.todo /\ report'.errors = {} /\ report'.correct = {}
           /\ report'.incorrect = {}
  BY <1>4
<1>5. ASSUME NEW p \in report.todo, NEW correct \in BOOLEAN,
             report'.due = report.due, report'.todo = report.todo \ {p},
             report'.errors = report.errors,
             report'.correct = IF correct THEN report.correct \cup {p} ELSE report.correct,
             report'.incorrect = IF correct THEN report.incorrect ELSE report.incorrect \cup {p},
             rows'[p].status = IF correct THEN "success" ELSE "failed"
      PROVE  ReportHonest' /\ TodoUncounted'
  <2>1. p \notin report.correct \cup report.incorrect \cup report.errors
    OBVIOUS
  <2>2. TodoUncounted'
    BY <1>5
  <2>3. ASSUME NEW q \in Visited'
        PROVE  q = p \/ (q # p /\ q \in Visited)
    BY <1>5 DEF Visited
  <2>4. ASSUME NEW q \in Visited', q = p
        PROVE  /\ q \in report'.correct <=> rows'[q].status = "success"
               /\ q \in report'.incorrect <=> rows'[q].status = "failed"
               /\ q \in report'.correct \cup report'.incorrect
    BY <1>5, <2>1, <2>4
  <2>5. ASSUME NEW q \in Visited, q # p
        PROVE  /\ q \in report'.correct <=> rows'[q].status = "success"
               /\ q \in report'.incorrect <=> rows'[q].status = "failed"
               /\ q \in report'.correct \cup report'.incorrect
    BY <1>2, <1>5, <2>5 DEF Visited
  <2> QED
    BY <2>2, <2>3, <2>4, <2>5 DEF Visited
<1>6. ASSUME NEW p \in report.todo,
             report'.due = report.due, report'.todo = report.todo \ {p},
             report'.errors = report.errors \cup {p},
             report'.correct \in {report.correct, report.correct \cup {p}},
             report'.incorrect \in {report.incorrect, report.incorrect \cup {p}}
      PROVE  ReportHonest' /\ TodoUncounted'
  <2>1. TodoUncounted'
    BY <1>6
  <2>2. ASSUME NEW q \in Visited'
        PROVE  q \in Visited /\ q # p
    BY <1>6 DEF Visited
  <2> QED
    BY <1>2, <1>6, <2>1, <2>2 DEF Visited
<1> QED
  BY <1>3, <1>4, <1>5, <1>6, ReportStep

(* What the report counts as correct and incorrect is what the table has,  *)
(* whatever write raised before and whatever the run does after.           *)
THEOREM ReportHonestAlways == Spec => []ReportHonest
<1>1. Init => TypeInv /\ SettleInv /\ ReportHonest /\ TodoUncounted
  <2>1. Init => ReportHonest /\ TodoUncounted
    BY DEF Init, SchedulerInit, NoReport, NewReport, ReportHonest, TodoUncounted
  <2> QED
    BY <2>1, InitType, InitSettles
<1>2. TypeInv /\ SettleInv /\ ReportHonest /\ TodoUncounted /\ [Next]_vars
        => TypeInv' /\ SettleInv' /\ ReportHonest' /\ TodoUncounted'
  BY StepType, StepSettles, StepReports
<1> QED
  BY <1>1, <1>2, PTL DEF Spec
-----------------------------------------------------------------------------
(* The lives of predictions *)

(* A prediction of the thesis is due: what an invalidation may rest on.    *)
Found(t) == \E p \in RowsOf(t) : ~Absent(p) /\ rows[p].expected <= day

(* What the loop visits is due, and what it breaks has something due.      *)
DueFound ==
  /\ pc = "evaluate" => /\ \A p \in report.todo : rows[p].expected <= day
                        /\ \A t \in report.broken : Found(t)
  /\ pc = "invalidate" => \A t \in report.left : Found(t)

(* Neither verdicts nor invalidations move the day a prediction is due.    *)
LEMMA MarkOutcomeDates ==
  ASSUME RegistryTypeOK, NEW p \in Prediction, NEW success \in BOOLEAN,
         NEW withValue \in BOOLEAN, NEW d, MarkOutcome(p, success, withValue, d)
  PROVE  \A q \in Prediction : rows'[q].expected = rows[q].expected
<1> DEFINE verdict == IF success THEN "success" ELSE "failed"
           marked == [rows[p] EXCEPT !.status = verdict, !.stamp = d, !.valued = withValue]
<1>1. rows[p] \in Row
  BY DEF RegistryTypeOK
<1>2. rows' = [rows EXCEPT ![p] = marked] /\ marked.expected = rows[p].expected
  BY <1>1 DEF MarkOutcome, RegistryTypeOK, Row
<1> QED
  BY <1>2 DEF RegistryTypeOK

LEMMA InvalidateDates ==
  ASSUME RegistryTypeOK, NEW t \in Thesis, NEW d \in Nat, InvalidateByThesis(t, d)
  PROVE  /\ \A p \in Prediction : rows'[p].expected = rows[p].expected
         /\ \A p \in Prediction : rows'[p].status =
              IF p[1] = t /\ Pending(p) THEN "invalidated" ELSE rows[p].status
BY DEF InvalidateByThesis, RegistryTypeOK, Row

(* What is due and in the table stays so while the day is the same and     *)
(* nothing is rolled back.                                                 *)
LEMMA FoundStays ==
  ASSUME day' = day,
         \A p \in Prediction : ~Absent(p) => ~Absent(p)' /\ rows'[p].expected = rows[p].expected
  PROVE  \A t : Found(t) => Found(t)'
BY DEF Found, RowsOf

LEMMA StepFinds ==
  ASSUME TypeInv, SettleInv, DueFound, [Next]_vars
  PROVE  DueFound'
<1> USE DEF DueFound
<1>1. report \in Report /\ day \in Nat /\ RegistryTypeOK /\ Today(day) \in Nat
  BY TodayType DEF TypeInv, TypeOK, SchedulerTypeOK, RunTypeOK
<1>2. ASSUME NEW p \in report.todo, NEW correct \in BOOLEAN, NEW valued \in BOOLEAN, NEW d \in Nat,
             MarkOutcome(p, correct, valued, d), pc = "evaluate", pc' = "evaluate", day' = day,
             report'.todo \subseteq report.todo, report'.broken \subseteq report.broken \cup {p[1]}
      PROVE  DueFound'
  <2>1. p \in Prediction /\ Pending(p)
    BY <1>1, <1>2 DEF Report, SettleInv, LoopInv, TodoPending
  <2>2. \A q \in Prediction : rows'[q].expected = rows[q].expected
    BY <1>1, <1>2, <2>1, MarkOutcomeDates
  <2>3. \A q \in Prediction : ~Absent(q) => ~Absent(q)'
    BY <1>1, <1>2, <2>1, MarkOutcomeEffect DEF Absent
  <2>4. Found(p[1])
    BY <1>2, <2>1 DEF Found, RowsOf, Absent, Pending
  <2>5. \A u : Found(u) => Found(u)'
    BY <1>2, <2>2, <2>3, FoundStays
  <2> QED
    BY <1>1, <1>2, <2>2, <2>4, <2>5 DEF Report
<1>3. ASSUME NEW p \in report.todo, NEW correct \in BOOLEAN, EvaluateOne(p, correct)
      PROVE  DueFound'
  <2>1. report'.todo \subseteq report.todo /\ report'.broken \subseteq report.broken \cup {p[1]}
    BY <1>1, <1>3 DEF EvaluateOne, Counted, Report
  <2> QED
    BY <1>1, <1>2, <1>3, <2>1 DEF EvaluateOne, Goto
<1>4. ASSUME NEW p \in report.todo, MarkOverdue(p)
      PROVE  DueFound'
  <2>1. report'.todo \subseteq report.todo /\ report'.broken \subseteq report.broken \cup {p[1]}
    BY <1>1, <1>4 DEF MarkOverdue, Report
  <2> QED
    BY <1>1, <1>2, <1>4, <2>1 DEF MarkOverdue, Goto
<1>5. ASSUME UNCHANGED <<rows, day>>
      PROVE  \A t : Found(t) => Found(t)'
  BY <1>5 DEF Found, Absent, RowsOf
<1>6. ASSUME NEW p \in report.todo, EvaluationError(p)
      PROVE  DueFound'
  <2>1. report'.todo \subseteq report.todo /\ report'.broken = report.broken
    BY <1>1, <1>6 DEF EvaluationError, Report
  <2> QED
    BY <1>5, <1>6, <2>1 DEF EvaluationError, Raise, registryVars
<1>7. ASSUME NEW p \in report.todo, NEW correct \in BOOLEAN, WriteError(p, correct)
      PROVE  DueFound'
  <2>1. Counted(p, correct) \in Report
    BY <1>1, <1>7, CountedType DEF Report
  <2>2. report'.todo \subseteq report.todo /\ report'.broken \subseteq report.broken \cup {p[1]}
    BY <1>1, <1>7, <2>1 DEF WriteError, Counted, Report
  <2>3. pc = "evaluate" /\ pc' = "evaluate" /\ UNCHANGED <<rows, day>>
    BY <1>7 DEF WriteError, Raise, registryVars
  <2>4. p \in Prediction /\ Pending(p)
    BY <1>1, <2>3 DEF Report, SettleInv, LoopInv, TodoPending
  <2>5. Found(p[1])
    BY <2>3, <2>4 DEF Found, RowsOf, Absent, Pending
  <2> QED
    BY <1>5, <2>2, <2>3, <2>5
<1>8. CASE EvaluationDone
  <2>1. report'.left = report.broken /\ pc = "evaluate" /\ pc' = "invalidate" /\ UNCHANGED <<rows, day>>
    BY <1>1, <1>8 DEF EvaluationDone, Report, Goto, registryVars
  <2> QED
    BY <1>5, <2>1
<1>9. ASSUME NEW t \in report.left, InvalidateThesis(t)
      PROVE  DueFound'
  <2>1. /\ report'.left \subseteq report.left /\ t \in Thesis
        /\ pc = "invalidate" /\ pc' = "invalidate" /\ day' = day
        /\ InvalidateByThesis(t, day)
    BY <1>1, <1>9 DEF InvalidateThesis, Report, Goto
  <2>2. \A p \in Prediction : ~Absent(p) => ~Absent(p)' /\ rows'[p].expected = rows[p].expected
    BY <1>1, <2>1, InvalidateDates DEF Absent
  <2> QED
    BY <2>1, <2>2, FoundStays
<1>10. ASSUME NEW d \in day..MaxDay, NEW data \in BOOLEAN, StartRun(d, data)
       PROVE  DueFound'
  <2>1. /\ report'.todo = Due(d) /\ report'.broken = {} /\ UNCHANGED rows /\ day' = d
        /\ pc' # "invalidate"
    BY <1>10 DEF StartRun, SchedulerRun, NewReport, registryVars
  <2> QED
    BY <2>1 DEF Due
<1>11. CASE pc' \notin {"evaluate", "invalidate"}
  BY <1>11
<1>12. CASE UNCHANGED vars
  BY <1>5, <1>12 DEF vars, runVars, registryVars, schedulerVars
<1> QED
  BY <1>3, <1>4, <1>6, <1>7, <1>8, <1>9, <1>10, <1>11, <1>12
  DEF Next, Work, Fault, Request, CycleStep, SchedulerWork, SchedulerFault, InvalidationDone,
      OverdueWriteError, InvalidateError, Gather, GatherError, RunCycle, BeginCycle, Research,
      StoreEntry, FinishCycle, CycleFails, SaveError, Register, RegisterError, FinishRun,
      ReportError, Restart, ForceEvaluate, Goto, Raise, runVars
-----------------------------------------------------------------------------
(* The simulation: one lemma per kind of abstract step *)

Lives == [p \in Prediction |-> rows[p].status]
DueDays == [p \in Prediction |-> rows[p].expected]
Running == pc # "idle"
LifeState == <<Lives, DueDays, day, Running>>

LEMMA SamePredictions == Life!Prediction = Prediction /\ \A t : Life!Batch(t) = RowsOf(t)
BY DEF Life!Prediction, Prediction, Life!Batch, RowsOf

LEMMA LifeInitially == Init => Life!LifeInit
BY SamePredictions DEF Init, RunInit, RegistryInit, NoRow, Life!LifeInit

(* A verdict on a pending row is a judgement: of a due one in a run, of    *)
(* any one on request.                                                     *)
LEMMA VerdictIsJudgement ==
  ASSUME RegistryTypeOK, NEW p \in Prediction, NEW success \in BOOLEAN,
         NEW withValue \in BOOLEAN, NEW d, MarkOutcome(p, success, withValue, d), Pending(p),
         day' = day, Running' = Running,
         Running => rows[p].expected <= day
  PROVE  Life!LifeNext
<1> DEFINE v == IF success THEN "success" ELSE "failed"
<1>1. /\ \A q \in Prediction : q # p => rows'[q] = rows[q]
      /\ rows'[p].status = v
  BY MarkOutcomeEffect
<1>2. \A q \in Prediction : rows'[q].expected = rows[q].expected
  BY MarkOutcomeDates
<1>3. Lives' = [Lives EXCEPT ![p] = v]
  BY <1>1 DEF Lives
<1>4. DueDays' = DueDays
  BY <1>2 DEF DueDays
<1>5. Lives[p] = "pending" /\ DueDays[p] = rows[p].expected
  BY DEF Lives, DueDays, Pending
<1>6. Life!JudgeDue(p, v) \/ Life!JudgeOnRequest(p, v)
  BY <1>3, <1>4, <1>5 DEF Life!JudgeDue, Life!JudgeOnRequest, Lives, DueDays, Running
<1> QED
  BY <1>6, SamePredictions DEF Life!LifeNext

(* Invalidating a thesis of which something was due is a withdrawal.       *)
LEMMA InvalidationIsWithdrawal ==
  ASSUME RegistryTypeOK, NEW t \in Thesis, day \in Nat, InvalidateByThesis(t, day), Found(t),
         day' = day, Running, Running'
  PROVE  Life!LifeNext
<1>1. DueDays' = DueDays
  BY InvalidateDates DEF DueDays
<1>2. Lives' = [p \in Prediction |->
                  IF p[1] = t /\ Lives[p] = "pending" THEN "invalidated" ELSE Lives[p]]
  BY InvalidateDates DEF Lives, Pending
<1>3. \E p \in RowsOf(t) : Lives[p] # "absent" /\ DueDays[p] <= day
  BY DEF Found, RowsOf, Absent, Lives, DueDays
<1>4. Life!Withdraw(t)
  BY <1>1, <1>2, <1>3, SamePredictions DEF Life!Withdraw, Lives, DueDays, Running
<1> QED
  BY <1>4 DEF Life!LifeNext

(* Registering the fresh thesis at hand is an arrival.                     *)
LEMMA InsertIsArrival ==
  ASSUME NEW t \in Thesis, NEW S \in SUBSET Slot, Insert(t, S, day),
         \A p \in RowsOf(t) : Absent(p), day' = day, Running
  PROVE  Life!LifeNext
<1>1. Lives' = [p \in Prediction |->
                  IF p[1] = t /\ p[2] \in S THEN "pending" ELSE Lives[p]]
  BY DEF Insert, NewRow, Lives
<1>2. DueDays' = [p \in Prediction |->
                    IF p[1] = t /\ p[2] \in S THEN day + Horizon[p[2]] ELSE DueDays[p]]
  BY DEF Insert, NewRow, DueDays
<1>3. \A p \in RowsOf(t) : Lives[p] = "absent"
  BY DEF RowsOf, Absent, Lives
<1>4. Running' \in BOOLEAN
  BY DEF Running
<1>5. Life!Arrive(t, S)
  BY <1>1, <1>2, <1>3, <1>4, SamePredictions DEF Life!Arrive, Lives, DueDays, Running
<1> QED
  BY <1>5 DEF Life!LifeNext

(* A new process finds what the old one had committed.                     *)
LEMMA RestartIsStop ==
  ASSUME RegistryTypeOK, OpenPending, RollBack, day' = day, ~Running'
  PROVE  Life!LifeNext
<1>0. PICK S : S = open
  OBVIOUS
<1>1. S \in SUBSET Prediction /\ \A p \in S : Lives[p] = "pending"
  BY <1>0 DEF RegistryTypeOK, OpenPending, Pending, Lives
<1>2. Lives' = [p \in Prediction |-> IF p \in S THEN "absent" ELSE Lives[p]]
  BY <1>0 DEF RollBack, NoRow, Lives
<1>3. DueDays' = [p \in Prediction |-> IF p \in S THEN 0 ELSE DueDays[p]]
  BY <1>0 DEF RollBack, NoRow, DueDays
<1>4. Life!Stop(S)
  BY <1>1, <1>2, <1>3, SamePredictions DEF Life!Stop, Lives, DueDays, Running
<1> QED
  BY <1>1, <1>4, SamePredictions DEF Life!LifeNext

(* What writes no row begins or ends a run, or changes nothing to be seen. *)
LEMMA QuietIsControl ==
  ASSUME UNCHANGED rows, day \in Nat, day' \in Nat,
         day' = day \/ (~Running /\ Running' /\ day' >= day)
  PROVE  Life!LifeNext \/ UNCHANGED LifeState
<1>1. Lives' = Lives /\ DueDays' = DueDays
  BY DEF Lives, DueDays
<1>2. CASE ~Running /\ Running'
  <2>1. Life!Begin
    BY <1>1, <1>2 DEF Life!Begin, Lives, DueDays, Running
  <2> QED
    BY <2>1 DEF Life!LifeNext
<1>3. CASE Running /\ ~Running' /\ day' = day
  <2>1. Life!End
    BY <1>1, <1>3 DEF Life!End, Lives, DueDays, Running
  <2> QED
    BY <2>1 DEF Life!LifeNext
<1>4. CASE Running' = Running /\ day' = day
  BY <1>1, <1>4 DEF LifeState
<1> QED
  BY <1>2, <1>3, <1>4 DEF Running

(* The day of a step that does not begin a run is that of the last one.    *)
LEMMA DayMoves ==
  ASSUME TypeInv, [Next]_vars
  PROVE  /\ day' = day \/ (pc = "idle" /\ pc' # "idle" /\ day' >= day /\ UNCHANGED rows)
         /\ day' \in Nat
<1>1. day \in Nat
  BY DEF TypeInv, TypeOK, RunTypeOK
<1>2. ASSUME NEW d \in day..MaxDay, NEW data \in BOOLEAN, StartRun(d, data)
      PROVE  pc = "idle" /\ pc' # "idle" /\ day' >= day /\ day' \in Nat /\ UNCHANGED rows
  BY <1>1, <1>2, DailyRunnerAssumption DEF StartRun, SchedulerRun, registryVars
<1>3. CASE day' = day
  BY <1>1, <1>3
<1> QED
  BY <1>2, <1>3
  DEF Next, Work, Fault, Request, CycleStep, SchedulerWork, SchedulerFault, EvaluateOne,
      MarkOverdue, EvaluationDone, InvalidateThesis, InvalidationDone, EvaluationError, WriteError,
      OverdueWriteError, InvalidateError, Gather, GatherError, RunCycle, BeginCycle, Research,
      StoreEntry, FinishCycle, CycleFails, SaveError, Register, RegisterError, FinishRun,
      ReportError, Restart, ForceEvaluate, Goto, Raise, runVars, vars

(* Every step of the loop is a step in the lives of predictions, or shows  *)
(* nothing.                                                                *)
LEMMA StepLives ==
  ASSUME TypeInv, SettleInv, DueFound, [Next]_vars
  PROVE  Life!LifeNext \/ UNCHANGED LifeState
<1>1. /\ report \in Report /\ day \in Nat /\ RegistryTypeOK /\ OpenPending
      /\ cycle \in CycleResult /\ Today(day) \in Nat
  BY TodayType DEF TypeInv, TypeOK, SchedulerTypeOK, RunTypeOK, CycleTypeOK, SettleInv, RowsInv
<1>2. ASSUME NEW p \in report.todo, NEW correct \in BOOLEAN, EvaluateOne(p, correct)
      PROVE  Life!LifeNext
  <2>1. p \in Prediction /\ Pending(p) /\ rows[p].expected <= day
    BY <1>1, <1>2 DEF EvaluateOne, Report, SettleInv, LoopInv, TodoPending, DueFound
  <2>2. MarkOutcome(p, correct, TRUE, day) /\ day' = day /\ Running' = Running
    BY <1>2 DEF EvaluateOne, Goto, Running
  <2> QED
    BY <1>1, <2>1, <2>2, VerdictIsJudgement
<1>3. ASSUME NEW p \in report.todo, MarkOverdue(p)
      PROVE  Life!LifeNext
  <2>1. p \in Prediction /\ Pending(p) /\ rows[p].expected <= day
    BY <1>1, <1>3 DEF MarkOverdue, Report, SettleInv, LoopInv, TodoPending, DueFound
  <2>2. MarkOutcome(p, FALSE, FALSE, Today(day)) /\ day' = day /\ Running' = Running
    BY <1>3 DEF MarkOverdue, Goto, Running
  <2> QED
    BY <1>1, <2>1, <2>2, VerdictIsJudgement
<1>4. ASSUME NEW p \in Prediction, NEW correct \in BOOLEAN, ForceEvaluate(p, correct)
      PROVE  Life!LifeNext
  <2>1. Pending(p) /\ MarkOutcome(p, correct, TRUE, Today(day)) /\ day' = day
        /\ ~Running /\ Running' = Running
    BY <1>4 DEF ForceEvaluate, runVars, Running
  <2> QED
    BY <1>1, <2>1, VerdictIsJudgement
<1>5. ASSUME NEW t \in report.left, InvalidateThesis(t)
      PROVE  Life!LifeNext
  <2>1. /\ t \in Thesis /\ Found(t) /\ InvalidateByThesis(t, day)
        /\ day' = day /\ Running /\ Running'
    BY <1>1, <1>5 DEF InvalidateThesis, Report, DueFound, Goto, Running
  <2> QED
    BY <1>1, <2>1, InvalidationIsWithdrawal
<1>6. ASSUME pc = "register", NEW S \in SUBSET Slot, Insert(cycle.thesis, S, day), day' = day
      PROVE  Life!LifeNext
  <2>1. cycle.thesis \in Thesis /\ \A p \in RowsOf(cycle.thesis) : Absent(p)
    BY <1>6 DEF TypeInv, ThesisKnown, SettleInv, RowsInv, FreshBatch
  <2>2. Running
    BY <1>6 DEF Running
  <2> QED
    BY <1>6, <2>1, <2>2, InsertIsArrival
<1>7. CASE Restart
  <2>1. RollBack /\ day' = day /\ ~Running'
    BY <1>7 DEF Restart, Goto, Running
  <2> QED
    BY <1>1, <2>1, RestartIsStop
<1>8. CASE UNCHANGED rows
  <2>1. day' \in Nat /\ (day' = day \/ (~Running /\ Running' /\ day' >= day))
    BY DayMoves DEF Running
  <2> QED
    BY <1>1, <1>8, <2>1, QuietIsControl
<1>9. CASE Register
  <2>1. pc = "register" /\ day' = day /\ cycle.batch \in SUBSET Slot
    BY <1>1, <1>9 DEF Register, Goto, CycleResult
  <2>2. UNCHANGED rows \/ Insert(cycle.thesis, cycle.batch, day)
    BY <1>9 DEF Register, RegisterPredictions, registryVars
  <2> QED
    BY <1>6, <1>8, <2>1, <2>2
<1>10. ASSUME NEW written \in SUBSET Slot, RegisterError(written)
       PROVE  Life!LifeNext
  BY <1>6, <1>10 DEF RegisterError, RegisterBreaksOff, Raise
<1>11. CASE SchedulerWork \/ SchedulerFault
  BY <1>2, <1>3, <1>5, <1>8, <1>11
  DEF SchedulerWork, SchedulerFault, EvaluationDone, InvalidationDone, EvaluationError, WriteError,
      OverdueWriteError, InvalidateError, registryVars
<1>12. CASE UNCHANGED registryVars
  BY <1>8, <1>12 DEF registryVars
<1> QED
  BY <1>4, <1>7, <1>9, <1>10, <1>11, <1>12
  DEF Next, Work, Fault, Request, CycleStep, Gather, GatherError, RunCycle, FinishRun, ReportError,
      StartRun, SchedulerRun, vars

(* The loop implements the promise: registered once, judged when due or on *)
(* request, withdrawn only when found broken, lost only while undecided.   *)
THEOREM LoopImplementsLifecycle == Spec => ImplementsLifecycle
<1>1. Init => TypeInv /\ SettleInv /\ DueFound /\ Life!LifeInit
  <2>1. Init => DueFound
    BY DEF Init, RunInit, DueFound
  <2> QED
    BY <2>1, InitType, InitSettles, LifeInitially
<1>2. TypeInv /\ SettleInv /\ DueFound /\ [Next]_vars => TypeInv' /\ SettleInv' /\ DueFound'
  BY StepType, StepSettles, StepFinds
<1>3. TypeInv /\ SettleInv /\ DueFound /\ [Next]_vars => [Life!LifeNext]_(Life!lifeVars)
  BY StepLives DEF Life!lifeVars, LifeState, Lives, DueDays, Running
<1> QED
  BY <1>1, <1>2, <1>3, PTL DEF Spec, ImplementsLifecycle, Life!LifeSpec

-----------------------------------------------------------------------------
(* What the memory says of outcomes *)

(* The ids of this process are its cycles; the one at hand has none yet.   *)
IdsBehind ==
  \A id \in DOMAIN entries :
    /\ id \in Nat /\ id <= cycleCount
    /\ pc \in {"research", "store"} => id < cycleCount

LatestIs(t) ==
  \E id \in DOMAIN entries :
    /\ entries[id].thesis = t
    /\ \A other \in DOMAIN entries : other <= id

(* The newest entry is that of the previous thesis, except for the moment  *)
(* in which its successor's is being saved.                                *)
LatestEntry ==
  /\ previous # None /\ pc # "save" => LatestIs(previous)
  /\ pc = "save" => LatestIs(cycle.thesis)

Remembered == IdsBehind /\ LatestEntry /\ OutcomeOfPredecessor

LEMMA StepRemembers ==
  ASSUME TypeInv, Counts, Remembered, [Next]_vars
  PROVE  Remembered'
<1> USE DEF Remembered, IdsBehind, LatestEntry
<1>1. cycleCount \in Nat /\ cycle \in CycleResult /\ None \notin Thesis
  BY DomainAssumption DEF TypeInv, TypeOK, CycleTypeOK
<1>2. ASSUME UNCHANGED entries
      PROVE  OutcomeOfPredecessor' /\ \A t : LatestIs(t)' <=> LatestIs(t)
  BY <1>2 DEF OutcomeOfPredecessor, LatestIs
<1>3. CASE RunCycle
  <2>1. /\ UNCHANGED <<entries, previous>> /\ cycleCount' = cycleCount + 1
        /\ pc = "cycle" /\ pc' = "research"
    BY <1>3 DEF RunCycle, BeginCycle, Goto, memoryVars
  <2> QED
    BY <1>1, <1>2, <2>1
<1>4. ASSUME NEW t \in Thesis, NEW batch \in Batches, Research(t, batch)
      PROVE  Remembered'
  <2>1. UNCHANGED <<entries, previous, cycleCount>> /\ pc = "research" /\ pc' = "store"
    BY <1>4 DEF Research, Goto, memoryVars
  <2> QED
    BY <1>2, <2>1
<1>5. CASE StoreEntry
  <2> DEFINE id == cycleCount
             entry == [thesis |-> cycle.thesis, outcomeOf |-> cycle.outcomeOf,
                       verified |-> cycle.verdict = "verified"]
  <2>1. /\ pc = "store" /\ pc' = "save" /\ UNCHANGED cycleVars
        /\ entries' = [i \in DOMAIN entries \cup {id} |-> IF i = id THEN entry ELSE entries[i]]
    BY <1>5 DEF StoreEntry, RecordEntry, Goto
  <2>2. \A i \in DOMAIN entries : i \in Nat /\ i < id
    BY <2>1
  <2>3. /\ DOMAIN entries' = DOMAIN entries \cup {id}
        /\ entries'[id] = entry
        /\ \A i \in DOMAIN entries : entries'[i] = entries[i]
    BY <1>1, <2>1, <2>2
  <2>4. IdsBehind' /\ LatestEntry'
    BY <1>1, <2>1, <2>2, <2>3 DEF LatestIs, cycleVars
  <2>5. ASSUME NEW i \in DOMAIN entries', entries'[i].outcomeOf # None
        PROVE  \E before \in DOMAIN entries' :
                 /\ before < i
                 /\ \A other \in DOMAIN entries' : other < i => other <= before
                 /\ entries'[before].thesis = entries'[i].outcomeOf
    <3>1. CASE i \in DOMAIN entries
      <4>1. PICK before \in DOMAIN entries :
              /\ before < i
              /\ \A other \in DOMAIN entries : other < i => other <= before
              /\ entries[before].thesis = entries[i].outcomeOf
        BY <2>3, <2>5, <3>1 DEF OutcomeOfPredecessor
      <4>2. ~(id < i)
        BY <1>1, <2>2, <3>1
      <4> QED
        BY <2>3, <3>1, <4>1, <4>2
    <3>2. CASE i = id
      <4>1. cycle.outcomeOf = previous /\ previous # None
        BY <2>1, <2>3, <2>5, <3>2 DEF Counts, JudgesPrevious, InCycle
      <4>2. PICK before \in DOMAIN entries :
              entries[before].thesis = previous /\ \A other \in DOMAIN entries : other <= before
        BY <2>1, <4>1 DEF LatestIs
      <4> QED
        BY <1>1, <2>2, <2>3, <3>2, <4>1, <4>2
    <3> QED
      BY <2>3, <3>1, <3>2
  <2> QED
    BY <2>4, <2>5 DEF OutcomeOfPredecessor
<1>6. CASE FinishCycle \/ SaveError
  <2>1. /\ UNCHANGED <<entries, cycleCount>> /\ pc = "save" /\ pc' = "register"
        /\ previous' = cycle.thesis
    BY <1>6 DEF FinishCycle, SaveError, SaveCompletes, SaveBreaksOff, Complete, Goto, Raise, memoryVars
  <2> QED
    BY <1>2, <2>1
<1>7. CASE Restart
  <2>1. DOMAIN entries' = {} /\ previous' = None /\ pc' = "idle"
    BY <1>7 DEF Restart, EngineRestart, Load, NoEntries, Goto
  <2> QED
    BY <2>1 DEF OutcomeOfPredecessor
<1>8. CASE /\ UNCHANGED <<entries, previous, cycleCount>>
           /\ pc' \notin {"research", "store", "save"} /\ pc # "save"
  BY <1>2, <1>8
<1>9. CASE UNCHANGED vars
  BY <1>2, <1>9 DEF vars, memoryVars, cycleVars, runVars
<1> QED
  BY <1>3, <1>4, <1>5, <1>6, <1>7, <1>8, <1>9
  DEF Next, Work, Fault, Request, CycleStep, SchedulerWork, SchedulerFault, EvaluateOne,
      MarkOverdue, EvaluationDone, InvalidateThesis, InvalidationDone, EvaluationError, WriteError,
      OverdueWriteError, InvalidateError, Gather, GatherError, CycleFails, Register, RegisterError,
      FinishRun, ReportError, StartRun, SchedulerRun, ForceEvaluate, Goto, Raise, runVars,
      memoryVars, cycleVars

(* An outcome in memory always belongs to the thesis of the entry before   *)
(* it: cycles that fail in between leave no entry and no previous thesis.  *)
THEOREM OutcomeOfPredecessorAlways == Spec => []OutcomeOfPredecessor
<1>1. Init => TypeInv /\ Counts /\ Remembered
  <2>1. Init => Remembered
    BY DEF Init, RunInit, MemoryInit, NoEntries, CycleInit, Remembered, IdsBehind, LatestEntry,
           OutcomeOfPredecessor
  <2> QED
    BY <2>1, InitType, InitCounts
<1>2. TypeInv /\ Counts /\ Remembered /\ [Next]_vars => TypeInv' /\ Counts' /\ Remembered'
  BY StepType, StepCounts, StepRemembers
<1>3. Remembered => OutcomeOfPredecessor
  BY DEF Remembered
<1> QED
  BY <1>1, <1>2, <1>3, PTL DEF Spec

-----------------------------------------------------------------------------
(* What get_recent recalls *)

(* The ids after place b are those of this process, in increasing order.   *)
EndsWithEntries(b) ==
  /\ b \in 0..Len(byDate)
  /\ DOMAIN entries = {byDate[i] : i \in (b + 1)..Len(byDate)}
  /\ \A i, k \in (b + 1)..Len(byDate) : i < k => byDate[i] < byDate[k]

OrderKept == byDate \in Seq(Nat) /\ \E b \in Nat : EndsWithEntries(b)

LEMMA StepKeepsOrder ==
  ASSUME TypeInv, Remembered, OrderKept, [Next]_vars
  PROVE  OrderKept'
<1>1. CASE StoreEntry
  <2> DEFINE id == cycleCount
             L == Len(byDate)
  <2>1. PICK b \in Nat : EndsWithEntries(b)
    BY DEF OrderKept
  <2>2. /\ pc = "store" /\ byDate' = Append(byDate, id)
        /\ DOMAIN entries' = DOMAIN entries \cup {id} /\ id \in Nat
    BY <1>1 DEF StoreEntry, RecordEntry, TypeInv, TypeOK, CycleTypeOK
  <2>3. \A e \in DOMAIN entries : e \in Nat /\ e < id
    BY <2>2 DEF Remembered, IdsBehind
  <2>4. /\ byDate' \in Seq(Nat) /\ L \in Nat /\ Len(byDate') = L + 1
        /\ byDate'[L + 1] = id /\ \A i \in 1..L : byDate'[i] = byDate[i]
    BY <2>2 DEF OrderKept
  <2>5. b \in 0..L /\ DOMAIN entries = {byDate[i] : i \in (b + 1)..L}
        /\ \A i, k \in (b + 1)..L : i < k => byDate[i] < byDate[k]
    BY <2>1 DEF EndsWithEntries
  <2> HIDE DEF id, L
  <2>6. \A i \in (b + 1)..(L + 1) : i = L + 1 \/ (i \in (b + 1)..L /\ i \in 1..L)
    BY <2>4, <2>5
  <2>7. \A i \in (b + 1)..L : i \in (b + 1)..(L + 1) /\ i \in 1..L /\ i < L + 1
    BY <2>4, <2>5
  <2>8. DOMAIN entries' = {byDate'[i] : i \in (b + 1)..(L + 1)}
    <3>1. {byDate'[i] : i \in (b + 1)..(L + 1)} = {byDate[i] : i \in (b + 1)..L} \cup {id}
      <4>1. L + 1 \in (b + 1)..(L + 1)
        BY <2>4, <2>5
      <4> QED
        BY <2>4, <2>6, <2>7, <4>1
    <3> QED
      BY <2>2, <2>5, <3>1
  <2>9. ASSUME NEW i \in (b + 1)..(L + 1), NEW k \in (b + 1)..(L + 1), i < k
        PROVE  byDate'[i] < byDate'[k]
    <3>1. i \in (b + 1)..L /\ byDate'[i] = byDate[i]
      BY <2>4, <2>6, <2>9
    <3>2. CASE k = L + 1
      BY <2>3, <2>4, <2>5, <3>1, <3>2
    <3>3. CASE k # L + 1
      BY <2>4, <2>5, <2>6, <2>9, <3>1, <3>3
    <3> QED
      BY <3>2, <3>3
  <2>10. EndsWithEntries(b)'
    BY <2>4, <2>5, <2>8, <2>9 DEF EndsWithEntries
  <2> QED
    BY <2>4, <2>10 DEF OrderKept
<1>2. CASE Restart
  <2>1. DOMAIN entries' = {} /\ byDate' \in Seq(Nat)
    BY <1>2 DEF Restart, EngineRestart, Load, NoEntries, TypeInv, TypeOK, MemoryTypeOK
  <2>2. Len(byDate') \in Nat /\ (Len(byDate') + 1)..Len(byDate') = {}
    BY <2>1
  <2>3. EndsWithEntries(Len(byDate))'
    BY <2>1, <2>2 DEF EndsWithEntries
  <2> QED
    BY <2>1, <2>2, <2>3 DEF OrderKept
<1>3. CASE UNCHANGED <<entries, byDate>>
  BY <1>3 DEF OrderKept, EndsWithEntries
<1>4. StoreEntry \/ Restart \/ UNCHANGED <<entries, byDate>>
  BY DEF Next, Work, Fault, Request, CycleStep, RunCycle, BeginCycle, Research, SchedulerWork,
         SchedulerFault, FinishCycle, SaveError, SaveCompletes, SaveBreaksOff, CycleFails, Gather,
         GatherError, Register, RegisterError, FinishRun, ReportError, StartRun, SchedulerRun,
         ForceEvaluate, memoryVars, vars
<1> QED
  BY <1>1, <1>2, <1>3, <1>4

(* How many of the last places are after a given one.                      *)
LEMMA PlacesAfter ==
  ASSUME NEW b \in Nat, NEW L \in Nat, b <= L
  PROVE  IsFiniteSet((b + 1)..L) /\ Cardinality((b + 1)..L) = L - b
<1>1. IsFiniteSet((b + 1)..L)
      /\ Cardinality((b + 1)..L) = IF b + 1 > L THEN 0 ELSE L - (b + 1) + 1
  BY FS_Interval
<1> QED
  BY <1>1

(* As many ids as places, when the order increases.                        *)
LEMMA IdsAfter ==
  ASSUME NEW b \in Nat, NEW L \in Nat, b <= L, NEW seq,
         \A i \in (b + 1)..L : seq[i] \in Nat,
         \A i, k \in (b + 1)..L : i < k => seq[i] < seq[k]
  PROVE  Cardinality({seq[i] : i \in (b + 1)..L}) = L - b
<1> DEFINE P == (b + 1)..L
           I == {seq[i] : i \in P}
           f == [i \in P |-> seq[i]]
<1>1. \A i, k \in P : f[i] = f[k] => i = k
  <2>1. \A i, k \in P : i < k \/ k < i \/ i = k
    OBVIOUS
  <2> QED
    BY <2>1
<1>2. f \in Bijection(P, I)
  <2>1. f \in [P -> I] /\ \A x \in I : \E i \in P : f[i] = x
    OBVIOUS
  <2> HIDE DEF f, P, I
  <2> QED
    BY <1>1, <2>1, Zenon DEF Bijection, Injection, Surjection, IsInjective
<1>3. IsFiniteSet(P) /\ Cardinality(P) = L - b
  BY PlacesAfter
<1> HIDE DEF f, P, I
<1>4. ExistsBijection(P, I)
  BY <1>2 DEF ExistsBijection
<1>5. Cardinality(I) = L - b
  BY <1>3, <1>4, FS_Bijection
<1> QED
  BY <1>5 DEF I, P

LEMMA RecallIsExact ==
  ASSUME OrderKept
  PROVE  RecallExact
<1> DEFINE n == Cardinality(DOMAIN entries)
           L == Len(byDate)
           first == IF n \in 1..L THEN L - n + 1 ELSE 1
           known == {i \in first..L : byDate[i] \in DOMAIN entries}
           Place(k) == CHOOSE i \in known : Cardinality({later \in known : later > i}) = k - 1
           recalled == Recall(n)
<1>1. PICK b \in Nat : EndsWithEntries(b)
  BY DEF OrderKept
<1>2. /\ L \in Nat /\ b <= L /\ \A i \in 1..L : byDate[i] \in Nat
      /\ DOMAIN entries = {byDate[i] : i \in (b + 1)..L}
      /\ \A i, k \in (b + 1)..L : i < k => byDate[i] < byDate[k]
  <2>1. byDate \in Seq(Nat)
    BY DEF OrderKept
  <2>2. L \in Nat /\ \A i \in 1..L : byDate[i] \in Nat
    BY <2>1
  <2>3. b \in 0..L
    BY <1>1 DEF EndsWithEntries
  <2>4. /\ DOMAIN entries = {byDate[i] : i \in (b + 1)..L}
        /\ \A i, k \in (b + 1)..L : i < k => byDate[i] < byDate[k]
    BY <1>1 DEF EndsWithEntries
  <2> HIDE DEF L
  <2> QED
    BY <2>2, <2>3, <2>4
<1>3. recalled = [k \in 1..Cardinality(known) |-> entries[byDate[Place(k)]].thesis]
  BY DEF Recall
<1> HIDE DEF recalled, L
<1>4. ASSUME NEW a \in Nat, b <= a, a <= L
      PROVE  Cardinality({byDate[i] : i \in (a + 1)..L}) = L - a
  <2>1. \A i \in (a + 1)..L : i \in (b + 1)..L /\ i \in 1..L
    BY <1>2, <1>4
  <2>2. /\ \A i \in (a + 1)..L : byDate[i] \in Nat
        /\ \A i, k \in (a + 1)..L : i < k => byDate[i] < byDate[k]
    BY <1>2, <2>1
  <2> QED
    BY <1>2, <1>4, <2>2, IdsAfter
<1>5. n = L - b
  BY <1>2, <1>4
<1> HIDE DEF n
<1>6. known = (b + 1)..L
  <2>1. CASE n = 0
    <3>1. DOMAIN entries = {} /\ (b + 1)..L = {}
      BY <1>2, <1>5, <2>1
    <3> QED
      BY <3>1
  <2>2. CASE n # 0
    <3>1. first = b + 1
      BY <1>2, <1>5, <2>2
    <3> QED
      BY <1>2, <3>1
  <2> QED
    BY <2>1, <2>2
<1> HIDE DEF known
<1>7. Cardinality(known) = n
  BY <1>2, <1>5, <1>6, PlacesAfter
<1>8. ASSUME NEW i \in known
      PROVE  Cardinality({later \in known : later > i}) = L - i
  <2>1. {later \in known : later > i} = (i + 1)..L /\ i \in Nat /\ i <= L
    BY <1>2, <1>6
  <2> QED
    BY <1>2, <2>1, PlacesAfter
<1>9. ASSUME NEW k \in 1..n
      PROVE  Place(k) \in known /\ Place(k) = L - k + 1
  <2>1. L - k + 1 \in known /\ L - (L - k + 1) = k - 1
    BY <1>2, <1>5, <1>6
  <2>2. \E i \in known : Cardinality({later \in known : later > i}) = k - 1
    BY <1>8, <2>1
  <2>3. Place(k) \in known /\ Cardinality({later \in known : later > Place(k)}) = k - 1
    BY <2>2
  <2>4. \A i \in known : Cardinality({later \in known : later > i}) = k - 1 => i = L - k + 1
    BY <1>2, <1>6, <1>8
  <2> HIDE DEF Place
  <2> QED
    BY <2>3, <2>4
<1> HIDE DEF Place
<1>10. n \in Nat /\ Len(recalled) = n /\ \A k \in 1..n : recalled[k] = entries[byDate[Place(k)]].thesis
  <2>1. n \in Nat
    BY <1>2, <1>5
  <2> QED
    BY <1>3, <1>7, <2>1
<1>11. ASSUME NEW k \in 1..n
       PROVE  \E id \in DOMAIN entries :
                /\ entries[id].thesis = recalled[k]
                /\ Cardinality({later \in DOMAIN entries : later > id}) = k - 1
  <2> DEFINE i == Place(k)
             id == byDate[i]
  <2>1. i \in (b + 1)..L /\ L - i = k - 1 /\ i \in Nat /\ b <= i /\ i <= L
    BY <1>2, <1>5, <1>6, <1>9
  <2>2. id \in DOMAIN entries /\ entries[id].thesis = recalled[k]
    BY <1>2, <1>10, <2>1
  <2>3. {later \in DOMAIN entries : later > id} = {byDate[j] : j \in (i + 1)..L}
    <3> HIDE DEF i
    <3>1. \A j \in (i + 1)..L : j \in (b + 1)..L /\ byDate[j] > id
      BY <1>2, <2>1
    <3>2. \A j \in (b + 1)..L : byDate[j] > id => j \in (i + 1)..L
      <4>1. ASSUME NEW j \in (b + 1)..L, byDate[j] > id, ~(j > i) PROVE FALSE
        <5>1. j = i \/ j < i
          BY <2>1, <4>1
        <5>2. byDate[j] \in Nat /\ byDate[i] \in Nat
          BY <1>2, <2>1
        <5> QED
          BY <1>2, <2>1, <4>1, <5>1, <5>2
      <4> QED
        BY <1>2, <2>1, <4>1
    <3> QED
      BY <1>2, <3>1, <3>2
  <2> HIDE DEF id
  <2>4. Cardinality({later \in DOMAIN entries : later > id}) = k - 1
    BY <1>4, <2>1, <2>3
  <2> QED
    BY <2>2, <2>4
<1> QED
  BY <1>10, <1>11 DEF RecallExact, n, recalled

(* get_recent, asked for as many entries as this process has recorded,     *)
(* gives just these, newest first: also when ids of an earlier process,    *)
(* read back from the file, are the same.                                  *)
THEOREM RecallExactAlways == Spec => []RecallExact
<1> DEFINE I == TypeInv /\ Counts /\ Remembered /\ OrderKept
<1>1. Init => I
  <2>1. Init => Remembered
    BY DEF Init, RunInit, MemoryInit, NoEntries, CycleInit, Remembered, IdsBehind, LatestEntry,
           OutcomeOfPredecessor
  <2>2. ASSUME Init PROVE OrderKept
    <3>1. byDate = <<>> /\ DOMAIN entries = {} /\ Len(<<>>) = 0 /\ <<>> \in Seq(Nat) /\ 1..0 = {}
      BY <2>2 DEF Init, MemoryInit, NoEntries
    <3>2. EndsWithEntries(0)
      BY <3>1 DEF EndsWithEntries
    <3> QED
      BY <3>1, <3>2 DEF OrderKept
  <2> QED
    BY <2>1, <2>2, InitType, InitCounts
<1>2. I /\ [Next]_vars => I'
  BY StepType, StepCounts, StepRemembers, StepKeepsOrder
<1>3. I => RecallExact
  BY RecallIsExact
<1> QED
  BY <1>1, <1>2, <1>3, PTL DEF Spec
=============================================================================
