---------------------------- MODULE DailyRunner ----------------------------
(***************************************************************************)
(* The daily research loop, src/src/runtime/daily_runner.py: one run of    *)
(* run_today composes the outcome scheduler, the research cycle and the    *)
(* prediction registry, and hands what the scheduler judged back to the    *)
(* engine.  The process may be stopped at any step and started again.      *)
(***************************************************************************)
EXTENDS OutcomeScheduler, ResearchCycle

CONSTANTS
  MaxDay,        \* bound: the last day of a behaviour
  MaxRuns,       \* bound: calls of run_today
  MaxRestarts,   \* bound: new processes
  MayForce       \* whether anyone calls force_evaluate (nothing in src/ does)

ASSUME DailyRunnerAssumption ==
  MaxDay \in Nat /\ MaxRuns \in Nat /\ MaxRestarts \in Nat /\ MayForce \in BOOLEAN

VARIABLES
  lastResult,   \* _previous_result, as its thesis
  outcomes,     \* what _gather_previous_outcomes returned
  runs,         \* calls of run_today so far
  restarts      \* new processes so far

runnerVars == <<lastResult, outcomes, runs, restarts>>

vars == <<registryVars, schedulerVars, memoryVars, cycleVars, runVars, runnerVars>>

AssetNames == {Asset[s] : s \in Slot}

(* fed: the theses in the returned map.  data: their actual_data, as the   *)
(* names it has values for.                                                *)
Outcomes == [fed : SUBSET Thesis, data : [Thesis -> SUBSET AssetNames]]

NoOutcomes == [fed |-> {}, data |-> [t \in Thesis |-> {}]]

RunnerTypeOK ==
  /\ lastResult \in Thesis \cup {None}
  /\ outcomes \in Outcomes
  /\ runs \in Nat
  /\ restarts \in Nat

(* The type invariant of the composed system.                              *)
TypeOK == RunTypeOK /\ RegistryTypeOK /\ SchedulerTypeOK /\ MemoryTypeOK
          /\ CycleTypeOK /\ RunnerTypeOK

RunnerInit ==
  /\ lastResult = None
  /\ outcomes = NoOutcomes
  /\ runs = 0
  /\ restarts = 0

Init == RunInit /\ RegistryInit /\ SchedulerInit /\ MemoryInit /\ CycleInit /\ RunnerInit

-----------------------------------------------------------------------------
(* run_today, one call a day or several; it begins with scheduler.run.     *)
StartRun(d, data) ==
  /\ pc = "idle" /\ runs < MaxRuns
  /\ runs' = runs + 1
  /\ day' = d
  /\ SchedulerRun(d, data)
  /\ UNCHANGED <<faults, memoryVars, cycleVars, lastResult, outcomes, restarts>>

(* Check 1 of _gather_previous_outcomes: the values of every judged row of *)
(* the last result's thesis.                                               *)
ValuesOf(t) == {Asset[p[2]] : p \in {q \in RowsOf(t) : rows[q].valued}}

FedByCheck1 ==
  IF lastResult # None THEN {t \in {lastResult} : ValuesOf(t) # {}} ELSE {}

(* Check 2: the recently judged rows of other theses, newest first.  The   *)
(* first row of a thesis adds it to the map, and from then on the test     *)
(* "if tid in outcomes" skips the thesis's other rows.                     *)
FedByCheck2 == {p[1] : p \in RecentlyEvaluated(day)} \ FedByCheck1

ComesFirst(p) ==
  /\ p \in RecentlyEvaluated(day)
  /\ \A q \in RecentlyEvaluated(day) : q[1] = p[1] => rows[q].stamp <= rows[p].stamp

(* Check 3: theses with recently invalidated rows, without a value.        *)
FedByCheck3 == {p[1] : p \in RecentlyInvalidated(day)}

Gather ==
  /\ pc = "gather"
  /\ report' = NoReport   \* the scheduler has returned, its locals are gone
  /\ \E first \in [FedByCheck2 -> Prediction] :
       /\ \A t \in FedByCheck2 : first[t][1] = t /\ ComesFirst(first[t])
       /\ outcomes' =
            [fed |-> FedByCheck1 \cup FedByCheck2 \cup FedByCheck3,
             data |-> [t \in Thesis |->
                CASE t \in FedByCheck1 -> ValuesOf(t)
                  [] t \in FedByCheck2 -> {Asset[p[2]] : p \in {q \in {first[t]} : rows[q].valued}}
                  [] OTHER -> {}]]
  /\ Goto("cycle")
  /\ UNCHANGED <<registryVars, torn, memoryVars, cycleVars, lastResult, runs, restarts>>

(* One of its queries raises.                                              *)
GatherError ==
  /\ pc = "gather"
  /\ Raise("idle")
  /\ UNCHANGED <<registryVars, schedulerVars, memoryVars, cycleVars, runnerVars>>

(* Step 4: the engine's cycle; the outcomes map is not kept after it.      *)
RunCycle ==
  /\ BeginCycle(outcomes.fed, outcomes.data)
  /\ outcomes' = NoOutcomes
  /\ UNCHANGED <<registryVars, schedulerVars, lastResult, runs, restarts>>

CycleStep(A) == A /\ UNCHANGED <<registryVars, schedulerVars, runnerVars>>

(* Step 5.  A cycle without a batch registers nothing.                     *)
Register ==
  /\ pc = "register"
  /\ IF cycle.batch = {} THEN UNCHANGED registryVars
     ELSE RegisterPredictions(cycle.thesis, cycle.batch, day)
  /\ Goto("report")
  /\ UNCHANGED <<schedulerVars, memoryVars, cycleVars, runnerVars>>

RegisterError(written) ==
  /\ pc = "register" /\ written \subseteq cycle.batch /\ written # cycle.batch
  /\ RegisterBreaksOff(cycle.thesis, written, day)
  /\ Raise("idle")
  /\ UNCHANGED <<schedulerVars, memoryVars, cycleVars, runnerVars>>

(* Steps 6 and 7: once the report is written the result is the last one.   *)
FinishRun ==
  /\ pc = "report"
  /\ lastResult' = cycle.thesis
  /\ cycle' = NewResult   \* run_today has returned, its locals are gone
  /\ Goto("idle")
  /\ UNCHANGED <<registryVars, schedulerVars, memoryVars, status, previous, tracking,
                 cycleCount, applied, redo, outcomes, runs, restarts>>

ReportError ==
  /\ pc = "report"
  /\ Raise("idle")
  /\ UNCHANGED <<registryVars, schedulerVars, memoryVars, cycleVars, runnerVars>>

(* The process stops, between runs or in the middle of one, and a new      *)
(* DailyRunner is built on the same database and memory file.              *)
Restart ==
  /\ restarts < MaxRestarts
  /\ restarts' = restarts + 1
  /\ torn' = torn \cup TornByCrash
  /\ report' = NoReport
  /\ RollBack
  /\ EngineRestart
  /\ lastResult' = None /\ outcomes' = NoOutcomes
  /\ Goto("idle")
  /\ UNCHANGED runs

-----------------------------------------------------------------------------
(* What an uninterrupted run does, step by step.                           *)
Work ==
  \/ SchedulerWork /\ UNCHANGED <<memoryVars, cycleVars, runnerVars>>
  \/ Gather
  \/ RunCycle
  \/ \E t \in Thesis, batch \in Batches : CycleStep(Research(t, batch))
  \/ CycleStep(StoreEntry)
  \/ CycleStep(FinishCycle)
  \/ Register
  \/ FinishRun

Fault ==
  \/ SchedulerFault /\ UNCHANGED <<memoryVars, cycleVars, runnerVars>>
  \/ GatherError
  \/ CycleStep(CycleFails)
  \/ CycleStep(SaveError)
  \/ \E written \in SUBSET Slot : RegisterError(written)
  \/ ReportError
  \/ Restart

(* What the callers decide: when to run, on what data, what to force.      *)
Request ==
  \/ \E d \in day..MaxDay, data \in BOOLEAN : StartRun(d, data)
  \/ \E p \in Prediction, correct \in BOOLEAN :
       MayForce /\ ForceEvaluate(p, correct) /\ UNCHANGED <<memoryVars, cycleVars, runnerVars>>

Next == Work \/ Fault \/ Request

Spec == Init /\ [][Next]_vars

(* A run is one sequential procedure: begun, it takes its next step unless *)
(* the process is stopped.  Nothing obliges anyone to begin another.       *)
FairSpec == Spec /\ WF_vars(Work)

-----------------------------------------------------------------------------
(* PROPERTIES *)

(* Mark_outcome has no guard on the row's status, and a run queries its    *)
(* due rows once and writes them one by one: still, a row that has got a   *)
(* verdict is never written again.                                         *)
VerdictFinal ==
  [][\A p \in Prediction : rows[p].status \in Terminal => rows'[p] = rows[p]]_vars

(* Outside the scheduler's loops no thesis has both a prediction that      *)
(* market data proved wrong and one still pending, unless its invalidation *)
(* was cut short by a failure or the wrong one was forced.                 *)
Half(t) ==
  /\ \E p \in RowsOf(t) : rows[p].status = "failed" /\ rows[p].valued
  /\ \E p \in RowsOf(t) : Pending(p)

SiblingsSettled ==
  pc \notin {"evaluate", "invalidate"} => \A t \in Thesis : Half(t) => t \in torn

(* The counters of the report are those of the table: of the predictions   *)
(* the loop has visited without an error, the ones counted correct are     *)
(* stored as successes, the ones counted incorrect as failures, and no     *)
(* prediction is counted neither way.                                      *)
ReportHonest ==
  \A p \in report.due \ (report.todo \cup report.errors) :
    /\ p \in report.correct <=> rows[p].status = "success"
    /\ p \in report.incorrect <=> rows[p].status = "failed"
    /\ p \in report.correct \cup report.incorrect

(* The registry holds predictions only of theses whose cycle completed: a  *)
(* failed cycle leaves nothing to be judged later.                         *)
RegisteredOnlyCompleted ==
  \A p \in Prediction :
    rows[p].status # "absent" => status[p[1]] \in {"active", "validated", "invalidated"}

(* The outcome of a thesis moves the graph once, and once more for every   *)
(* cycle that processed it and then failed: such a cycle does not advance  *)
(* _previous_thesis, so the next one finds the same outcome again.         *)
AppliedOncePerCycle == \A t \in Thesis : applied[t] <= 1 + redo[t]

(* An outcome stored in memory is that of the thesis stored just before it *)
(* by the same process, whatever cycles failed in between.                 *)
OutcomeOfPredecessor ==
  \A id \in DOMAIN entries :
    entries[id].outcomeOf # None =>
      \E before \in DOMAIN entries :
        /\ before < id
        /\ \A other \in DOMAIN entries : other < id => other <= before
        /\ entries[before].thesis = entries[id].outcomeOf

(* get_recent(n), for as many entries as this process recorded, returns    *)
(* exactly those, newest first - also when the ids collide with the ones   *)
(* an earlier process left in _by_date.                                    *)
RecallExact ==
  LET recalled == Recall(Cardinality(DOMAIN entries))
  IN  /\ Len(recalled) = Cardinality(DOMAIN entries)
      /\ \A i \in 1..Len(recalled) :
           \E id \in DOMAIN entries :
             /\ entries[id].thesis = recalled[i]
             /\ Cardinality({later \in DOMAIN entries : later > id}) = i - 1

(* The loop implements the promise: what the table shows is the life of    *)
(* each prediction.                                                        *)
Life == INSTANCE PredictionLifecycle WITH
  life <- [p \in Prediction |-> rows[p].status],
  due <- [p \in Prediction |-> rows[p].expected],
  today <- day,
  running <- pc # "idle"

ImplementsLifecycle == Life!LifeSpec

(* Every due prediction a run has begun to evaluate is decided by the time *)
(* that run is over, unless a call failed or the process was stopped.      *)
DueSettled ==
  \A p \in Prediction :
    (pc = "evaluate" /\ p \in report.todo)
      ~> (pc = "idle" /\ (faults + restarts > 0 \/ rows[p].status \in Terminal))

(* A run that has begun ends.                                              *)
RunEnds == pc # "idle" ~> pc = "idle"

-----------------------------------------------------------------------------
(* A statement of the documentation that the code departs from *)

(* _gather_previous_outcomes: the outcomes it gathers "are fed back to the *)
(* cycle engine [...] completing the learning feedback loop".  So once the *)
(* engine was given observed values of a thesis, the graph has learnt from *)
(* them.                                                                   *)
FeedbackReachesEngine ==
  [][pc = "cycle" /\ pc' = "research" =>
       \A t \in outcomes.fed : outcomes.data[t] # {} => applied'[t] > 0]_vars
=============================================================================
