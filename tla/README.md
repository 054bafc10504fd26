# A TLA+ model of the Macro Cognitive Agent

This directory specifies the parts of the Macro Cognitive Agent that keep state
from one call to the next, checks them with TLC on small instances and proves the
most important of their invariants with TLAPS. Paths below are relative to the
repository's root; line numbers are those of the commit the model was written from
and are listed, definition by definition, in `PROJECT.json`.

## 1. The system

The repository is a research agent for macroeconomic data. Two entry points drive it:

* the **daily loop** (`src/runtime/`, `src/research_cycle/`): one call of
  `DailyRunner.run_today` a day, which judges the predictions that have become due,
  researches a new thesis, predicts, remembers and reports;
* the **pipeline** (`src/pipeline.py`): a planner turns a goal into a graph of tasks
  and an executor runs it; the results are beliefs, kept in a file.

Both run in one thread; what is hard there is not shared memory but sequences: what is
written before a call that can raise, what a new process finds, what one run leaves for
the next. Two more parts keep state of their own:

* the **evolution pipeline** (`src/research/evolution/`): findings become principles,
  principles climb a ladder of strengths, contradict each other and are bundled into
  frameworks; run after run judges the same objects again;
* **live ingestion** (`src/live_intelligence/`): news is polled by daemon threads and by
  the foreground, de-duplicated and fed to an evidence graph. Here threads do share
  memory, without a lock.

### Inventory

| Component | State | Operations | Interacts with | What is hard | What makes it correct |
|---|---|---|---|---|---|
| Prediction registry `runtime/prediction_registry.py` | the SQLite table, the connection's open transaction | register, mark outcome, invalidate by thesis, queries | called by scheduler and runner | a batch that breaks off in an open transaction; a process that stops before the commit; updates without a status guard | a verdict is final; a batch is all there, or none, after a restart |
| Outcome scheduler `runtime/outcome_scheduler.py` | the report and the set of broken theses, both local to a run | `run`, `force_evaluate` | registry | exceptions caught in one branch and not in the other; counters updated before the write; invalidation after the loop | the report says what the table says; no refuted thesis keeps pending predictions; every due row is decided |
| Cycle engine `research_cycle/cycle_engine.py` | `_previous_thesis`, `_cycle_count` | `run_cycle` | tracker, memory, transmission graph | a cycle that fails after it has applied an outcome; a restart that forgets the previous thesis | an outcome is applied once per cycle that processed it, and only after something was judged |
| Outcome tracker `research_cycle/outcome_tracker.py` | theses whose conditions are watched | `register_thesis`, `determine_outcome` | engine | missing values read as 0 | a thesis is refuted by data |
| Research memory `research_cycle/research_memory.py` | entries, their order, the JSON file | `record_entry`, `get_recent`, load, save | engine | the file is truncated before it is written; only half of it is read back; ids repeat after a restart | recall is exact for this process; nothing recorded is lost |
| Daily runner `runtime/daily_runner.py` | `_previous_result` | `run_today` | all of the above | the early return of a failed cycle; the three sources of previous outcomes | only completed cycles register predictions; what was judged reaches the engine |
| Paper trader `runtime/paper_trader.py` | none of its own | `replay` | runner | historical dates, wall-clock "today" | as the runner |
| Planner, validator `planning/` | the loaded rule templates | `create_plan`, `validate` | pipeline | merging rules updates the templates in place | a plan honours what the rules of its goal demand, whatever came before; exactly the well-formed plans are accepted |
| Executor `executor/` | handlers; one context per run | `register`, `execute` | pipeline, handlers | timeouts, retries, critical and non-critical failures | no task before its dependencies; one result per task; exactly the tasks behind a critical failure stay undone; it ends |
| Belief store `memory/store.py` | records, dirty flag, file | `record`, `record_batch`, `commit`, queries | pipeline, API | a failed write clears the dirty flag; several stores on one file | what was recorded is on disk after a commit |
| Pipeline, API `pipeline.py`, `api/` | handlers, lazily built engines, one belief store | `run` | planner, executor, belief store | registration that fails half-way; steps that swallow their exceptions | plans honour the rules whatever came before; COMPLETED means all of it; every run is answered |
| Evolution pipeline `research/evolution/evolution_pipeline.py` | `_cycle_count`, the extractor's findings by cluster, candidates and graduates | `run`, `record_contradiction` | stores, resolver, frameworks | every run judges everything again; bookkeeping in several places; thresholds that nothing reads | a strength is earned over cycles, regimes and observations; store and candidate manager agree |
| Principle store `research/principles/` | principles, the retired ones, the index by strength | save, retire, update_strength, matching | pipeline, resolver | the object changes before the index that is computed from it | the index never misses a stored principle; no claim is held twice |
| Conflict resolver `research/evolution/conflict_resolver.py` | active competitions | detect, record evidence, resolve | principle store | a principle in several competitions | every contradiction competes; both sides know it |
| Framework store, evaluator, orchestrator `research/framework/` | frameworks, index by status, the active set, accuracy windows | form, validate, review, recover, retire | pipeline | status and set written one after the other, a set that may refuse | what is active is in the set; nobody waits where no step looks |
| Live ingestion `live_intelligence/ingestion_pipeline.py`, `event_scheduler.py`, `duplicate_detector.py`, `freshness_monitor.py` | schedule, flag and threads, event buffer, recent events and their hashes | ingest, poll, buffer, flush, reset, start, stop | pollers, evidence graph | loops and foreground on one detector without a lock; a failed batch that leaves its events in the detector, where a retry meets itself; hashes looked up under the wrong id | a story is kept once; nothing is fed twice; what was accepted is accounted for; no source starves; intervals are honoured; a stopped loop ends |
| Research beliefs `research/beliefs/` | beliefs, indices by domain and stage, dated snapshots | ingest evidence, evaluate, retire | belief graph, timeline | two ladders of stages; objects shared with snapshots | (not modelled, section 11) |
| Outcome engine, learning, calibration | bounded histories, weights | update | pipeline | clamps and windows over floats | weights stay in range |
| Reasoning, corpus, collectors, narrative, rendering, schemas | none between calls | - | - | - | content, not state |

The hazards this code has, each at its line with the property that would catch it,
are the `hazards` of `PROJECT.json`.

## 2. Plan

1. **The daily loop** (done): `ResearchDomain`, `RunControl`, `PredictionRegistry`,
   `OutcomeScheduler`, `ResearchMemory`, `ResearchCycle`, composed by `DailyRunner`,
   which implements `PredictionLifecycle`; proofs in `DailyRunner_proofs`.
2. **Plan execution** (done): `TaskPlans` (plans and the validator), `Executor`, which
   implements `TaskGraph`; `Planner` and `ResearchPipeline`, which composes both with
   handler registration and the steps after the execution; proofs in `Executor_proofs` and
   `ResearchPipeline_proofs`.
3. **Belief store** (done): `BeliefStore`, which implements `DurableLog` when it is
   alone on its file; proofs in `BeliefStore_proofs`.
4. **Evolution** (done): `PrincipleStore`, `ConflictResolver` and `FrameworkSet`, composed
   by `EvolutionPipeline`, which implements `PrincipleLadder`; proofs in
   `FrameworkSet_proofs` and `EvolutionPipeline_proofs`.
5. **Live ingestion** (done): `LiveIngestion`; proofs in `LiveIngestion_proofs`.
6. **More proofs about the loop** (done): `ReportHonest`, `AppliedOncePerCycle`,
   `RegisteredOnlyCompleted`, `OutcomeOfPredecessor`, `RecallExact`, and that every step of the loop is a
   step of `PredictionLifecycle` or a stutter, in `DailyRunner_proofs`.
7. **More proofs about plans** (done): the validator decides acyclicity and executions
   leave exactly the blocked tasks undone, in `Executor_proofs`; plans honour the rules file
   and COMPLETED means all of it, in `ResearchPipeline_proofs`.
8. **Proofs about frameworks** (done): the orchestrator's loops keep store, index and set in
   agreement, in `FrameworkSet_proofs`, with the lemmas on loops in `LoopLemmas`.
9. **The rest of the pipeline**: `run_with_prediction`, outcome tracking and the
   bounded histories of outcome engine and learning.

## 3. The modules of the daily loop

| Module | Models | Correspondence |
|---|---|---|
| `ResearchDomain` | the identifiers the modules share | theses are fresh uuids; a prediction is a thesis and a slot of its batch |
| `RunControl` | where `run_today` stands | `pc`: the step that comes next; `Raise` is "a call raised and the code catches it there" |
| `PredictionRegistry` | the table | one operator on `rows'` per writing method, one set per query; `open` is the part of the table a process stop takes back |
| `OutcomeScheduler` | `run`, `force_evaluate` | one action per iteration of the loops, because each iteration commits; separate actions for each call that may raise |
| `ResearchMemory` | entries, order, file | recording leaves the file truncated, saving fills it: two steps, with a stop or an error between |
| `ResearchCycle` | `run_cycle`, the tracker | `BeginCycle` (the previous outcome), `Research` (thesis, batch), `StoreEntry`/`FinishCycle` (memory, activation, `_previous_thesis`), `CycleFails`, `EngineRestart` |
| `DailyRunner` | `run_today`, `_gather_previous_outcomes`, restart | sequences the others through `pc`; states the properties of the composition |
| `PredictionLifecycle` | nothing in the code: the promise | what a user of the loop may rely on about each prediction |
| `MCDailyRunner` | - | the instances for TLC |
| `DailyRunner_proofs` | - | the theorems about types, verdicts and siblings; about what is counted, applied and remembered; the refinement |

What is abstracted, and why nothing that the properties distinguish is lost:

* **Prices.** The verdict of `_evaluate_prediction` is a choice; a row remembers only
  whether it has a value. The verdict of the tracker is a choice among those the
  code can reach: "verified" only when the gathered data has a name that
  `_check_direction` reads (the names are lower-case, the registry's assets are
  upper-case, so with the shipped indicators it is never reached), "triggered" only
  while the thesis is tracked. It does not depend on the data being there, because the
  code compares a missing S&P value, taken as 0, with the threshold.
* **Dates** are day numbers. In replay `date.today()` is a constant after all of them.
  The seven-day window is the constant `Window`.
* **Order.** The loop visits theses by their earliest due row and the rows of a thesis
  by expected date; ties are a choice, as SQLite leaves them. The order matters to
  `_gather_previous_outcomes`, where the first row of a thesis wins.
* **Report.** The counters are kept as the sets of predictions they count. In the
  branch without market data the code adds a thesis's count after its rows; here
  each row counts as it is written. The difference shows only in a report that an
  exception discards.
* **Locals.** `report` is reset when the scheduler has returned and `cycle` when the
  run has: nothing reads them afterwards.
* **A write that raises** has not changed the table. (A statement that succeeds and
  whose commit then fails, leaving the update in the open transaction, is not
  distinguished.)
* **Exceptions** of `_build_snapshot` and of the scheduler's first query end a run
  that has changed nothing; they are the run that was not started.
* **Batches.** A thesis without predictions is not in the registry; whether the tracker
  watches it cannot be seen, since no outcome of it is ever gathered.
* **Evolution** (step 4 of the scheduler, step 13 of the cycle) and the snapshot export
  swallow their exceptions and write to components of their own.
* **History variables**: `torn` (theses whose invalidation was cut short or never
  tried), `applied` (graph updates per thesis), `redo` (cycles that applied an outcome
  and then failed). No action's guard reads them.

## 4. The modules of plan execution

| Module | Models | Correspondence |
|---|---|---|
| `TaskPlans` | `schemas/planning.py`, `PlanValidator` | a plan is a sequence of tasks; Kahn's algorithm is a recursive function over the queue, the in-degrees and the order; `WellFormed` is what the validator is for, stated without an algorithm |
| `Executor` | `AgentExecutor.execute`, `ExecutionContext` | `NextRound` is `_get_ready_tasks`; one action per attempt and per way it ends (`HandlerReturns`, `TimesOut`, `TransientError`, `OtherError`, `NoAttempt` for `max_retries` 0); `Finish` is `to_execution_result` |
| `TaskGraph` | nothing in the code: the promise | each task settled at most once and only when nothing it needs is missing; closed only when nothing more can be settled, with an honest status |
| `Planner` | `RuleBasedPlanner` | a goal is the sequence of rules it matches; `PlanFor` is the merge and the plan made of it, `Retain` the assignment to the loaded templates |
| `ResearchPipeline` | `MacroResearchPipeline.run` | `Run` (plan, hand over), `ExecutorWorks`, `Answer`; `RegistrationFails` and `EnginesFail` for what raises before; `AnswerFailure` for the outer `except` |
| `MCExecutor`, `MCResearchPipeline` | - | the instances for TLC |
| `Executor_proofs` | - | the theorems about types, attempts, the refinement, the validator, and what an execution leaves undone |
| `ResearchPipeline_proofs` | - | the theorems about the plans of a goal and the answer COMPLETED |
| `LoopLemmas` | - | the lemmas about loops that the proofs of executor, pipeline and frameworks share |

What is abstracted:

* **Tasks.** Of a task there remain its id, its dependencies, `critical`,
  `max_retries` and whether a handler has its capability. Dependencies are a set: the
  planner removes duplicates, and Kahn's algorithm counts a duplicate on both sides.
* **Time.** A timeout is one of the ends an attempt can have. Pauses between attempts
  are not steps: nothing else happens during them, since one run executes one task at
  a time.
* **Handlers** return what they like: success, or a result they marked as failed
  themselves, which the executor neither retries nor degrades to "skipped" - so a
  failed result of a non-critical task is "failed" when its handler reported it and
  "skipped" when its handler raised.
* **Artifacts** are the names that the pipeline's later steps ask for. Only the
  handlers of the repository are assumed: failed ones leave none.
* **The status.** `failed` is what a plan gets whenever no task succeeded, also when
  tasks ran and failed (the docstring of `to_execution_result` has "some failure" as
  partially completed).
* **The default rule.** A rules file without one is modelled by an empty one: both
  end in the same error.
* **Shared templates.** Merging writes the united dependencies into the loaded rule.
  A later plan can therefore have more dependencies than its rules give it, or be
  refused for one its plan does not contain; `PlanHonoursRules` says that it never has
  fewer. The shipped rules share no task ids, so there it cannot happen.

## 5. The modules of the belief store

`BeliefStore` models `memory/store.py`: `_ensure_loaded` (`Loaded`, `Load`), `record` and
`record_batch` up to the flush (`RecordBatch`), the flush (`Replace`, or `WriteFails` inside
its `try`, or `OpenFails` before it), `commit`, and the end of the process or of the
object that holds a store (`NewStore`). `Build` is the caller's step before, in which the
beliefs get their timestamps. Several stores may share the file; `DurableLog` is the
promise to one that is alone.

A step of a store ends where another process can see or miss its effect: at the
replacement of the file. Confidences are tenths, so that a difference of exactly the
threshold occurs. Timestamps of different beliefs differ and grow with the order in
which they are built; the clock of the code may return the same time twice in a row on
a coarse system clock, which is not modelled. Temporary files left behind are not
looked at again by anyone. A file damaged by others, which the store reads as empty and
then overwrites, is not modelled.

## 6. The modules of evolution

| Module | Models | Correspondence |
|---|---|---|
| `PrincipleStore` | `PrincipleStore`, `ResearchPrinciple`, the thresholds of the ladder | `stored`, `retired`, `listed` are the two dictionaries and the lists by strength; `Saved`, `Relisted`, `Delisted` what each method does to the lists; `Graduates`, `Matures`, `Judged` the conditions of `_evaluate_lifecycle` |
| `ConflictResolver` | `ConflictResolver` | `DetectConflicts` over the scanned list, `RecordEvidence` with every competition of a principle, its decision, stalemate and `_apply_resolution` |
| `FrameworkSet` | framework store, evaluator, orchestrator, `FrameworkSet` | operators from one `Shelf` to the next: `FormCandidate`, `ValidateCandidates`, `EvaluateActive`, `Retire`; `Validate`, `Review` and `Recover` are the bodies of the three loops, `Rounds` the loop over a list made before |
| `EvolutionPipeline` | `EvolutionPipeline.run` | one action per step: `ProcessFindings`, `ExtractPrinciples`, `EvaluateLifecycle`, `RunEvidenceFeedback`, `FindConflicts`, `EvolveFrameworks`; between runs `RecordContradiction`, `RecordConflictEvidence`, `RecordFrameworkAccuracy` |
| `PrincipleLadder` | nothing in the code: the promise | candidates climb one rung at a time, never fall, and stay retired |
| `MCEvolution` | - | the instances for TLC |
| `EvolutionPipeline_proofs` | - | the theorems |
| `FrameworkSet_proofs` | - | the lemmas about lists, shelves and the rounds of the orchestrator's loops |

What is abstracted, and what the code turned out to do:

* **Claims.** The extractor words only two kinds of claims per domain. Two claims of one
  kind in one domain always pass the similarity threshold. `_build_statement` words the claim
  of a cluster anew in every run, from the findings it has accumulated
  (`principle_extractor.py:384-415`); in the model a cluster keeps its claim. A cluster whose
  claim goes over from one kind to the other between runs may score about the threshold of
  0.70 against its own older principle and may still be matched to it, or not: that is not
  modelled, and `TwinsAreBornTogether` says nothing about it. Also
  `_are_contradictory` looks for "reliable" inside a text in which it may be part of
  "unreliable", so that two claims of unreliability contradict each other and
  "consistently transmits" contradicts nothing. `MatchesFor` and `Contradictory` are that.
* **Observations** are counted up to the largest threshold, since they are only compared to
  thresholds. They are told again in every run, as in the code: a cluster that was ripe
  once confirms its principle in each later run without any new finding.
* **Findings** have a cluster and observations. Those with fewer than three observations
  never reach the extractor; what the temporary layer keeps of them no modelled step reads.
* **Accuracy** counts where `_evaluate_lifecycle` reads it, for mature only. The other criteria
  of the documentation (generality, sustained validity) it does not read.
* **The index** says how often a list has an id: 0, 1, or more. An id that is listed twice
  meets itself in the scan for conflicts and competes with itself; the model has that.
* **Which frameworks form** depends on coactivation counts over many runs and is a choice
  among all sufficiently large sets of eligible principles. A framework is saved twice
  at its formation and therefore listed twice, and may enter the set twice.
* **Operations without a caller in the program** (`record_contradiction`, evidence for
  competitions, accuracies of frameworks) are what the stores' tests and API offer; the
  model takes them between runs in any order. Without them no framework would ever be
  validated and no competition decided.
* **Left out**: steps 5 to 7 of `run` (belief weights, archive, expiry by date), the
  admission gate's register, penalties and rankings, which no modelled condition reads.

## 7. The module of live ingestion

`LiveIngestion` has one foreground thread and the daemon loops that `start_continuous`
leaves behind. A step is what one thread does between two points where another can
see or change the shared objects:

* `StartContinuous`, `StopContinuous`, `LoopTop`: the flag is shared by all loops; stop and
  start again within a loop's sleep, and there are two.
* `LoopTop` asks what is due, `Poll` polls one source and records the time,
  `IngestPolled` hands over: between them another thread may poll the same source.
* `FindDuplicate`, then `KeepEvent` or `ExtendRaws` and `ReplaceRaws`: deduplication event by
  event, and the two statements of a merge.
* `Feed` and `BatchFails`: freshness, the evidence graph, and the ends of a batch. A
  dictionary that another thread changes while it is iterated over raises, hence
  `BatchFails` inside a batch that is not alone.
* `Ingest`, `PollAndIngest`, `BufferEvent`, `FlushBuffer`, `Reset` are the foreground's calls.

A `Report` is an item of news as the detector sees it: title and summary (`TextIn`), category,
entities, and the time of publication, which the router takes over. `Similar` is any relation
between reports: the first, coming later, scores as a duplicate of the second, which was
published within half an hour of it. It need not be symmetric (`difflib`'s ratio is not), and
two reports with one text may match different reports, or none, when their times differ. A text the
detector has seen is looked up under the new event's own id (`Matches`); only what is new is
compared with the buffer. Ties between several candidates are a choice.

`buffer_event` takes an event from its caller, who may pass the same one again, be it after a
flush that failed, after one that did not, or while it still waits; `BufferEvent` does both. Such
an event is its own duplicate when it arrives (`Merged` leaves its outcome alone), unless the
detector has forgotten it. What a thread holds at the moment is not offered again: no caller has
got it back yet.

Freshness is that of a batch when it is fed. Sources have an interval and are
in their active window; those polled at release times or on events, which are polled at
most once, are left out, and so is the freshness cache of other callers.
A poller that raises is recorded like one that finds nothing. The status that a call
returns is not part of the model. `outcome`, `polledBy`, `overlapped` and `pruned` are history
variables that no guard reads.

## 8. Runs

| Run | Instance | Shows |
|---|---|---|
| `loop_crash` | 2 theses of 2 predictions due after 1 and 2 days, days 0-3, 2 runs, 1 exception, 1 restart, forced evaluations; fairness | `TypeOK`, `SiblingsSettled`, `OutcomeOfPredecessor`, `RecallExact`, `VerdictFinal`, `DueSettled`, `RunEnds`, and that the loop implements `PredictionLifecycle` |
| `loop_replay` | 4 theses, 4 runs, 1 exception, historical dates; symmetric in the theses | `ReportHonest`, `RegisteredOnlyCompleted`, `AppliedOncePerCycle` |
| `plan_execution` | every plan of 3 tasks (1024: all dependencies, critical or not, attempts), 5 malformed ones, every end of every attempt; deadlock checked | `ExecTypeOK`, `ValidatedExactly`, `BlockedExactly`, `AttemptsRespected`, `ExecutionEnds`, and that the executor implements `TaskGraph` |
| `research_pipeline` | 768 rules files, 2 goals one after the other, failing registration and engines | `PlanHonoursRules`, `CompletedMeansAll`, `RunAnswered` |
| `belief_store` | 1 store, 3 beliefs of 2 dimensions, 2 directions, 3 confidences in batches of 1 and 2, 1 failure, process ends anywhere | `BeliefTypeOK`, `TransitionsTell`, and that the store implements `DurableLog` |
| `principle_evolution` | 3 principles, 2 clusters with one claim in one domain, 2 regimes, 3 runs, reports of up to 2 findings; contradictions and evidence between runs; symmetric in the regimes | `EvolutionTypeOK`, `RankEarned`, `IndexComplete`, `CandidatesTracked`, `TwinsAreBornTogether`, `ConflictsFound`, `RivalsKnown`, and that the strengths implement `PrincipleLadder` |
| `framework_lifecycle` | 1 principle, 2 frameworks, accuracies 0 and 100, 4 runs | `ActiveInSet`, `FrameworksIndexed` |
| `live_ingestion` | 2 reports of one story, 1 source, 1 loop and the foreground, 2 events, each offered any number of times, a buffer of 2, 1 tick | `LiveTypeOK`, `StoriesMerged`, `Accounted`, `FedOnce` |
| `live_polling` | 1 report, 2 sources with interval 2, 1 loop and the foreground, 1 event, 2 ticks; fairness | `PollsSpaced`, `LoopsEnd`, `SourcesServed` |
| `feedback_lost` | the daily loop without exceptions; one property | the counterexample of section 10 |
| `validated_regimes` | as `framework_lifecycle`, with 2 regimes, of which a validated principle should have both | the same |
| `exact_duplicate_fed` | as `live_ingestion`, with a later copy of the first report that matches only the second, batches of 2 and 3 events | the same |

The bounds of the loop. Two runs are enough for a thesis to be registered by the first
and judged by the second, with the second day early (nothing due), between (one slot
due, its sibling pending) or late (both due). One exception and one restart can fall
at every step, and on both sides of each other. Four runs are needed in replay
because an outcome is registered in the first, judged in the second, applied by a
cycle that fails, and found again by the one after.

The bounds of plans. Three tasks are enough for a chain, a fork, a join, a cycle of
each length and a task that is blocked at a distance through one that is not critical;
two attempts for a retry and for each end of the last one; zero for the empty loop. Two
goals are enough for the second to meet what the first left in the templates and in the
handlers.

The bounds of the store. Three beliefs are enough for two of one dimension with one of
the other between them, for a belief of a failed batch to be the prior of the next, and
for a batch to come after a restart.

The bounds of evolution. The thresholds of the source (5 cycles, 30 and 100
observations, 10 contradictions, ...) are constants, scaled down in the same order, so that within
three runs a principle can be born, graduate, mature or weaken, compete, lose, be retired
and be replaced. Two clusters with one claim are what it takes for twins, and twins of
unreliability for a conflict; the third principle is born after the first two have left,
or competes in a second pair. A framework run has room for two frameworks, so that one is in
the set while the other is validated, reviewed or retired, and windows of 1, 2 and 3
accuracies for the three decisions.

The bounds of live ingestion. Two events suffice for a story and its second report, in
one batch, in two batches of one thread or of two, before and after a reset or a failed batch,
and for a retry that meets itself while the other thread is at work; a tick for an event to become
stale. That a copy with another date takes a third event is covered by the theorems, which have any
number of events and any relation `Similar`, and occurs in `exact_duplicate_fed`. Polling needs two
sources, for one to be due while the other is polled, and two ticks, so that each becomes due again
after its first poll, whether by the loop or by the foreground, and whether the poll found something or
not and its batch failed or not; what the detector makes of the items does not matter there. Two
loops at once, which a start after a stop may leave, are in the module and in the theorems, but in
neither run: one loop and the foreground have 1.6 million states already.

Every action occurs in these runs. `CHECK_DEADLOCK FALSE` where the bounds on runs,
days, requests or beliefs end every behaviour; inside a run, `RunEnds`, `RunAnswered`
and `ExecutionEnds` say that nothing gets stuck.

Each property has been seen to fail for a mutated definition, a plausible mistake in
that place; the mutants stand before the definitions they replace and are listed in
`PROJECT.json`.

**Fairness.** `FairSpec` asks for weak fairness of `Work`, the steps of a run that has
begun: `run_today` is one sequential procedure with no wait in it, so it goes on
unless the process is stopped. `FairExecSpec` and `FairPipeSpec` ask the same of a
coroutine whose every await ends: handlers run under `wait_for` with a timeout, pauses
are finite. Nothing obliges anyone to begin a run, to restart, or an exception to
happen. `LiveFairness` asks that every loop reads its flag again and again and that every
thread with a batch goes on: daemon threads are scheduled, sleeps are finite, pollers
return or raise. Neither a start nor a stop has to happen, nor time to pass. Stores and
evolution have no fairness: they do nothing by themselves.

## 9. Proofs

All theorems hold for any values of the constants that satisfy the `...Assumption`s: the
types of the constants, ranges for those the code keeps in a range (a win rate, a number of
cycles), and that the sets that are counted are finite (rules, findings).

`DailyRunner_proofs`:

* `TypeCorrect`: `Spec => []TypeOK`. Inductive as it stands, from one lemma per action.
* `SiblingsAreSettled`: `Spec => []SiblingsSettled`. Not inductive: it speaks only of
  the states outside the scheduler's two loops. The strengthening says what holds in
  them: during the evaluation a thesis with a refuted prediction and a pending one is
  torn or in the report's `broken` set, during the invalidation it is torn or among
  those `left`; and a new batch only goes to a thesis that has no rows.
* `VerdictsAreFinal`: `Spec => VerdictFinal`. `mark_outcome` checks no status, so this
  rests on an invariant: what the loop has still to visit is pending, and a thesis
  that is about to register has no rows yet, because a thesis is researched once and
  registered once.

Its second half, which rests on these invariants:

* `AppliedOncePerCycleAlways`: by the invariant `Counts`: a cycle that has applied an outcome
  and not finished is the one in progress, so that a thesis has been applied once for each
  cycle counted against it; restarts and failed cycles included.
* `RegisteredOnlyCompletedAlways`: only `Register` adds rows, and it runs after the cycle has
  completed; lemmas on every other writer say that it keeps the keys of the table.
* `ReportHonestAlways`: the report counts a row when it is written, and no later step
  of the same run writes that row again, since the loops visit a row only once.
* `OutcomeOfPredecessorAlways`: by the invariant `Remembered`, which ties `_previous_thesis`
  to the last entry of this process, and ids to places.
* `RecallExactAlways`: by the invariant `OrderKept`: `_by_date` ends with the ids of this process
  in increasing order, whatever a file has put before them. The last n places are then
  those with an entry, and the place of the k-th newest follows by counting.
* `LoopImplementsLifecycle`: `Spec => ImplementsLifecycle`, one simulation lemma per action that
  writes rows; a stop of the process maps to the loss of what was in the open transaction.

`Executor_proofs`:

* `ExecTypeCorrect`: `ExecSpec => []ExecTypeOK`, with what an execution rests on: its plan
  has unique ids and no unknown references, and without an execution there are no
  results.
* `AttemptsAreRespected`: `ExecSpec => []AttemptsRespected`. The strengthening ties the
  counter, which belongs to no task, to the task at hand: the history of that task is
  as long as the counter says and has only retried ends, that of every other task in the
  batch is empty.
* `ExecutorImplementsTaskGraph`: `ExecSpec => ImplementsTaskGraph`. A round is computed
  once and executed over many steps; the invariant says that the tasks of the batch stay
  settleable, because results are never taken back. `Finish` maps to `Close`: the counts
  the code compares agree with the quantifiers of the abstract status, by the cardinality
  of finite sets.
* `ValidatedExactlyAlways`: the lemma `ValidatesExactly` says of every plan, of any size, that the
  validator accepts it exactly if it is well formed. Its heart is `Sorted`, the invariant of
  Kahn's loop: a degree counts the dependencies not yet in the order, a task is in the order or in the
  queue exactly when all its dependencies are in the order, and the order is acyclic. If the
  queue runs dry early, the tasks left over all depend on one another. The algorithm
  is a recursive function; that it exists (`Recursion`) and what holds of its steps
  (`Induction`, both in `LoopLemmas`) come from the least step at which something would fail, which exists by
  the well-foundedness of the numbers.
* `BlockedExactlyAlways`: a task with a result has its dependencies resolved, for good
  (`SettledInv`), so that no critical failure lies before it, by the least fixed point in
  `Ancestors`. Conversely, were there tasks without a result and without a failure before them,
  acyclicity would give one whose dependencies are resolved, and the execution would not
  have ended.

`ResearchPipeline_proofs`, which rests on the invariant of `Executor_proofs`:

* `PlanHonoursRulesAlways`: `PipeSpec => []PlanHonoursRules`. `_merge_tasks` writes into the
  loaded templates, so the next goal does not start from the file. The invariant is `Grown`:
  rule by rule and place by place, a template is the task of the file with possibly more
  dependencies, since a merge of grown tasks has grown (`MergeGrows`, `RetainGrows`). That no
  task is lost on the way is a matter of places: where a rule's task is offered
  (`OfferedPlaces`), that every id has a first task (`FirstOf`), and that ranks number the
  first tasks without a gap (`RanksFill`).
* `CompletedMeansAllAlways`: the executor compares counts, so COMPLETED means that every task
  of the plan has succeeded, and those are all that the rules name in the file.

`BeliefStore_proofs`:

* `BeliefTypeCorrect`: `StoreSpec => []BeliefTypeOK`.
* `StoreIsDurableLog`: a sole store implements `DurableLog`. The invariant: the file is a
  prefix of what the store has loaded, and whatever is to be written has been loaded.
* `TransitionsAreCoherent`: `StoreSpec => []TransitionsTell` for a sole store. `last_belief`
  takes the newest by timestamp, the property speaks of positions: the invariant is that
  timestamps increase along every history and that a batch still to be recorded is newer
  than all of them; a lemma on well-founded order gives the last belief of a dimension.

`EvolutionPipeline_proofs`:

* `GroundedAlways`: the types of runs, principles and competitions, with one fact the later
  proofs rest on: nobody in the store has reached the contradictions that retire, since
  `record_contradiction` retires at once. (So the retirement branch of `_evaluate_lifecycle`
  is never taken.)
* `RankEarnedAlways`: what a strength required when it was given is
  still there, because cycles, regimes and observations only grow; a mature principle
  is a cycle older than a validated one because one run takes one rung. The
  strengthening, `Aged`, bounds birth by the current cycle and says that who is validated when
  a run begins is older still. Of the regimes of a validated principle it says nothing: that
  is what `validated_regimes` shows to fail.
* `IndexCompleteAlways`: `update_strength` purges the list it then appends to, so the old list
  keeps a stale id, but no stored principle is ever missing from its own.
* `CandidatesTrackedAlways`: the candidate manager's two sets are the candidates and the
  others, restricted to the store, through promotions and every way to leave.
* `TwinsAreBornTogetherAlways`: new principles are matched against the store only, so the same
  claim can be born twice in one run, and in no later one while either is stored.
* `RivalsKnownAlways`: by the invariant `Rivals`: a pair has one competition, both have been born,
  and each names the other; a decided competition takes exactly its loser from the winner.
* `ConflictsFoundAlways`: from `IndexComplete`, since the scan reads the index.
* `LadderImplemented`: `EvolutionSpec => ImplementsLadder`, each step being a `Start`, a `Climb`,
  a `Leave` of a set of principles or a stutter.

The frameworks, with the lemmas of `FrameworkSet_proofs`:

* `EvolutionTypeOKAlways`, `ActiveInSetAlways`, `FrameworksIndexedAlways`: the orchestrator loops
  over lists it made before it began to change what they list, so none of these is
  inductive by itself. The invariant is that the shelf (frameworks, index, set) is one of
  `Shelves`: an id in the index is there under its status or is retired (`Sound`), what is
  stored is listed under its status (`Indexed`), the set has whatever is active or under
  review, nothing that was never activated, and at most `MaxActive` (`Rostered`), and a status
  was given on the record (`Earned`).
  `ValidateStays`, `ReviewStays` and `RecoverStays` say that one round keeps it:
  validation checks the capacity before the status changes; the evaluator puts under review only what
  was active or under review, hence in the set; a recovery makes active what its list names,
  which by `Sound` was under review when the list was made, and stays in the set until the loop
  ends. `ValidateLoop`, `ReviewLoop` and `RecoverLoop` carry this through lists of any length:
  the function that `Rounds` chooses exists (`LoopFunction`) and never leaves the invariant
  (`LoopStays`). `FormCandidateStays`: a fresh id is in no list and not in the set.
* `SetBoundedAlways`, `RecordsEarnedAlways`, `MembersBornAlways`: what the same invariant says beyond
  the properties of the runs. The set never exceeds `max_active`, though a framework may be
  in it twice; whoever is or was active has the accuracies validation asks for, whoever is
  retired a whole window of bad ones, since a history never gets shorter and that of a retired
  framework is frozen (`Earned`); and a framework consists of principles that exist, the shelf being typed over `Born`,
  which no step shrinks (`BornStay`).
* `FrameworksAdvanceAlways`: `EvolutionSpec => [][FrameworksAdvance]_evolutionVars`. A retired id
  stays in the index, and in the set at the minimum; no loop touches its framework, none
  returns to an earlier stage or loses its principles, by `Keeps`, a relation between the
  shelf before and after that the rounds compose.

These four are stated by no run, only by the theorems.

`LiveIngestion_proofs`:

* `LiveTypeOKAlways`, with the shape of each thread's job in each of its steps.
* `PollsSpacedAlways`: between the moment a loop finds a source due and its own poll of it
  the source may be polled by others, but not by this loop; the invariant `Spaced` ties what
  is due to the time of the loop's last poll.
* `StoriesMergedAlways`: by two invariants: `Solo`, without overlap one thread is in the
  pipeline, and `Compared`: without forgetting, a text seen is the text of an event in the
  buffer, and what a thread is about to keep has been compared with the buffer as it is now,
  or its text is there. So of two events that match each other the later one can only have
  been kept because its text was there already, whatever the relation `Similar` is.
* `FedOnceAlways` and `AccountedAlways`: neither is inductive, since a merge moves what one
  event carries to another that could have been merged itself, and a retry puts an old event
  back into a batch. The strengthening is `Ledger`: a job has nothing it does not need (`Tidy`); no event is in
  the hands of two threads, or in a batch and in the buffer (`Apart`); what is in the detector
  has its text seen, what is about to be kept is not in it, and what is about to be merged and
  is in it meets itself (`Looked`); what was fed is in the detector until it forgets (`Fed`);
  what is open is under way, and nothing in the detector was merged (`Opened`); without overlap each event
  is carried by one that was not merged, and a copied list still is what its event has
  (`Carried`). Only `Carried` needs that threads do not overlap, which is why
  `FedOnce` holds for overlapping ones too.

Every invariant and every action property of the passing runs is proved. Only model-checked are the
liveness properties, which need fairness and are out of the prover's reach: `DueSettled`,
`RunEnds`, `ExecutionEnds`, `RunAnswered`, `LoopsEnd` and `SourcesServed`.

## 10. Where the code departs from what it says

Kept as runs whose counterexample TLC finds:

* `_gather_previous_outcomes` says that outcomes of older predictions complete the
  feedback loop; the engine drops those of every thesis but the last
  (`feedback_lost`).
* `VALIDATED_MIN_REGIMES = 2` is "Minimum regimes for validated" (`evolution_pipeline.py:55`),
  the schema's validated principle has "P1-P5 all met" (`schemas/research.py:30`), P1 being
  two distinct regimes (`docs/RESEARCH_PRINCIPLES.md:214`, `regime_gate.py:118-121`).
  `_evaluate_lifecycle` asks for `CANDIDATE_MIN_REGIMES`, one, and nothing reads the other
  constant (`validated_regimes`).
* "Exact title match -> duplicate": an exact copy is looked up under its own fresh id, not
  found, and fed again, while a merely similar one is merged (`exact_duplicate_fed`).

Seen while modelling; the models behave as the code does:

* The docstring of `_evaluate_lifecycle` (`evolution_pipeline.py:388-391`) validates after 2 cycles and
  one regime, matures at 50 observations and 65% and retires at 5 contradictions; the code takes 5
  cycles, one regime and 30 observations, 100 observations and 60%, and
  retires at 10. The constants of the models are the code's; `RankEarned` is about those.
* `run` documents outcome tracking, learning, calibration and composite signals
  (`pipeline.py:217`); none of them can take place, because `get_all` does not exist
  (`pipeline.py:266`) and the artifacts have other names. In `ResearchPipeline` a completed
  run leaves all four fields empty (`Filled`).
* `OutcomeScheduler.run` "only marks overdue (no evaluation)" without market data; it
  stores the rows as failed.
* `ResearchMemory` is a "persistent store"; after a restart the first save drops every
  entry recorded before it.
* `_check_direction` says that an unclear direction neither validates nor invalidates; it
  invalidates.
* `commit` flushes what is dirty; after a failed write nothing is.
* The belief store is "persistent"; a second store on the same file overwrites what the
  first has written since the second loaded it.
* Frameworks at capacity are compared by accuracies computed from no principles at all, so
  none is ever replaced; the minimum of the set may be held by a retired framework.
* A buffered event whose batch failed and which is buffered again is dropped as a duplicate of itself,
  and that flush returns SUCCESS, the default of `IngestionResult`. `Accounted` keeps such an
  item as failed; it is never fed.
* Later reports of a story whose event was in a failed batch are merged into it and never fed.
* While two threads overlap, a merge can be lost between the two statements that rewrite
  `raw_ids`; `Accounted` excuses overlap for that reason.

Seen while reading, and not modelled:

* `register_from_finding` returns `None` to "let it flow to Principle admission"
  (`temporary_layer.py:122`); its caller ignores the answer and goes on with the next finding
  (`evolution_pipeline.py:157-163`). A finding with fewer than three observations that is neither
  preliminary nor a regime similarity reaches neither layer.
* `BeliefLifecycleManager.evaluate` reaches its progression of stages only for beliefs
  without evidence, because `elif belief.last_evidence_at` takes every other one.
* `BeliefStore.retire` of the research beliefs takes the id out of the index of the stage it
  has just set, not of the one the belief was in.

## 11. Not modelled

The steps of evolution named in section 6; release times, active windows and the cached
freshness of live ingestion; `run_with_prediction`, outcome engine, learning and
calibration (bounded histories and weights under clamped float arithmetic). The research
beliefs (`research/beliefs`) have a store, indices and stages; of these the program drives only
`generate_from_narratives`, in step 5 of a cycle (`cycle_engine.py:890`), whose beliefs nothing
reads again but their graph: the store's files, its life cycle and its retirement have no caller. The reasoning modules, corpora, prompts, scoring and learning arithmetic are
functions over floats and text with at most an append-only list of earlier results;
collectors, rendering, storage schemas and migrations are input and output. They are most
of the repository's lines, which is why the mapped share stays small: what has states and
steps is modelled, what computes a text or a number from another is not.

`mark_invalidated`, `export`, `clear`, `archive` and `supersede` have no caller in the
loop. The statistics of registry and memory only read. The retry decorator and the
metrics of `shared/reliability.py` have no caller. `IngestionPipeline` has no caller in the
program but the integration tests under `validation/`.
