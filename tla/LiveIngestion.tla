--------------------------- MODULE LiveIngestion ---------------------------
(***************************************************************************)
(* IngestionPipeline of src/src/live_intelligence/ingestion_pipeline.py    *)
(* with its EventScheduler, DuplicateDetector and FreshnessMonitor: the    *)
(* foreground thread and the daemon loops that start_continuous leaves     *)
(* behind share one pipeline without a lock.                               *)
(***************************************************************************)
EXTENDS Integers, Sequences, FiniteSets

CONSTANTS
  Report,       \* an item of news: all that the detector compares of it
  TextIn,       \* title and summary of a report
  Similar,      \* <<new, old>>: within the window, and scored a duplicate
  Source,       \* sources with a schedule and a poller; others are passed over
  Interval,     \* ticks between two polls of a source
  StaleAfter,   \* ticks after which an event is no longer fresh
  Loop, Main,   \* daemon threads, the foreground thread
  MaxRecent,    \* max_events_buffer of the detector
  MaxBuffer,    \* _buffer_max
  MaxBatch,     \* bound on the items of a poll or a call
  MaxEvents,    \* bound on the events ever normalized
  MaxClock      \* bound on the clock

ASSUME LiveAssumption ==
  /\ DOMAIN TextIn = Report
  /\ Similar \subseteq Report \X Report
  /\ Main \notin Loop
  /\ \A n \in {Interval, StaleAfter, MaxRecent, MaxBuffer, MaxBatch, MaxEvents, MaxClock} : n \in Nat
  /\ MaxRecent > 1

VARIABLES
  clock,
  running,     \* _is_running
  job,         \* what each thread is doing
  events,      \* the NormalizedEvents, in the order of their ids
  recent,      \* ids in _recent_events
  seen,        \* texts in _seen_hashes
  buffer,      \* _buffer
  lastPolled,  \* last_polled of each schedule
  outcome,     \* history: what became of each event
  polledBy,    \* history: the thread of the last poll of each source
  overlapped,  \* history: two threads were in the pipeline at once
  pruned       \* history: the detector has forgotten events

liveVars == <<clock, running, job, events, recent, seen, buffer, lastPolled, polledBy,
              outcome, overlapped, pruned>>

scheduleVars == <<lastPolled, polledBy>>

Thread == Loop \cup {Main}

Text == {TextIn[r] : r \in Report}

Never == -1

NoEvent == 0

Id == 1..MaxEvents

Step == {"off", "idle", "top", "poll", "find", "keep", "merge", "feed"}

Idle == [pc |-> "idle", due |-> {}, todo |-> <<>>, unique |-> {},
         match |-> NoEvent, copy |-> {}]

LiveInit ==
  /\ clock = 0 /\ running = FALSE
  /\ job = [t \in Thread |-> IF t = Main THEN Idle ELSE [Idle EXCEPT !.pc = "off"]]
  /\ events = <<>> /\ recent = {} /\ seen = {} /\ buffer = <<>>
  /\ lastPolled = [s \in Source |-> Never] /\ polledBy = [s \in Source |-> Main]
  /\ outcome = <<>>
  /\ overlapped = FALSE /\ pruned = FALSE

IdsIn(seq) == {seq[i] : i \in DOMAIN seq}

InPipeline(t) == job[t].pc \in {"find", "keep", "merge", "feed"}

(* A thread has the event in its hands. *)
InBatch(e) == \E t \in Thread : e \in IdsIn(job[t].todo) \cup job[t].unique

Alone(t) == \A u \in Thread \ {t} : ~InPipeline(u)

Goes(t, j) == job' = [job EXCEPT ![t] = j]

(* The thread is done with a batch: a loop sleeps, then it is at the top   *)
(* and reads the flag.                                                     *)
Done(t) == Goes(t, [Idle EXCEPT !.pc = IF t = Main THEN "idle" ELSE "top"])

-----------------------------------------------------------------------------
(* Normalization: every event gets an id of its own, even if its text is   *)
(* the text of another.                                                    *)

NormalizedTo(more) ==
  /\ Len(events) + Len(more) <= MaxEvents
  /\ events' = events \o
       [i \in DOMAIN more |-> [report |-> more[i], ingested |-> clock, raws |-> {Len(events) + i}]]
  /\ outcome' = outcome \o [i \in DOMAIN more |-> "open"]

NewIdsFromZero(more) == [i \in DOMAIN more |-> Len(events) + i - 1]   \* mutant: ids start at 0

NewIds(more) == [i \in DOMAIN more |-> Len(events) + i]

Batches == UNION {[1..n -> Report] : n \in 1..MaxBatch}

(* A thread enters the pipeline with the events of a batch. *)
Enters(t, ids) ==
  /\ Goes(t, [Idle EXCEPT !.pc = "find", !.todo = ids])
  /\ overlapped' = (overlapped \/ ~Alone(t))

-----------------------------------------------------------------------------
(* Threads: start_continuous, stop_continuous and the loop *)

StartContinuous ==
  /\ job[Main].pc = "idle"
  /\ running' = TRUE
  /\ \E t \in Loop : job[t].pc = "off" /\ Goes(t, [Idle EXCEPT !.pc = "top"])
  /\ UNCHANGED <<clock, events, recent, seen, buffer, scheduleVars, outcome, overlapped, pruned>>

StopContinuous ==
  /\ job[Main].pc = "idle" /\ running
  /\ running' = FALSE
  /\ UNCHANGED <<clock, job, events, recent, seen, buffer, scheduleVars, outcome, overlapped, pruned>>

IsDueEarly(s) ==   \* mutant: a tick too early
  lastPolled[s] = Never \/ clock - lastPolled[s] + 1 >= Interval

(* _is_due, for a source with an interval *)
IsDue(s) == lastPolled[s] = Never \/ clock - lastPolled[s] >= Interval

Due == {s \in Source : IsDue(s)}

LoopsForEver(t) ==   \* mutant: the loop does not read the flag
  /\ job[t].pc = "top"
  /\ Due # {} /\ Goes(t, [Idle EXCEPT !.pc = "poll", !.due = Due])
  /\ UNCHANGED <<clock, running, events, recent, seen, buffer, scheduleVars, outcome, overlapped, pruned>>

(* Where nothing is due, the loop sleeps on.                               *)
LoopTop(t) ==
  /\ job[t].pc = "top"
  /\ \/ running /\ Due # {} /\ Goes(t, [Idle EXCEPT !.pc = "poll", !.due = Due])
     \/ ~running /\ Goes(t, [Idle EXCEPT !.pc = "off"])
  /\ UNCHANGED <<clock, running, events, recent, seen, buffer, scheduleVars, outcome, overlapped, pruned>>

Tick ==
  /\ clock < MaxClock
  /\ clock' = clock + 1
  /\ UNCHANGED <<running, job, events, recent, seen, buffer, scheduleVars, outcome, overlapped, pruned>>

-----------------------------------------------------------------------------
(* poll_all_due, one source after the other, and record_poll *)

RecordPoll(t, s) ==
  /\ lastPolled' = [lastPolled EXCEPT ![s] = clock]
  /\ polledBy' = [polledBy EXCEPT ![s] = t]

(* A poller that raises is recorded as one that finds nothing.             *)
Poll(t, s) ==
  /\ job[t].pc = "poll" /\ s \in job[t].due
  /\ \E more \in Batches \cup {<<>>} :
       /\ NormalizedTo(more)
       /\ Goes(t, [job[t] EXCEPT !.due = @ \ {s}, !.todo = @ \o NewIds(more)])
  /\ RecordPoll(t, s)
  /\ UNCHANGED <<clock, running, recent, seen, buffer, overlapped, pruned>>

(* ingest of what was polled; nothing at all is a success as well.         *)
IngestPolled(t) ==
  /\ job[t].pc = "poll" /\ job[t].due = {}
  /\ IF job[t].todo = <<>> THEN Done(t) /\ UNCHANGED overlapped ELSE Enters(t, job[t].todo)
  /\ UNCHANGED <<clock, running, events, recent, seen, buffer, scheduleVars, outcome, pruned>>

-----------------------------------------------------------------------------
(* The foreground: ingest, poll_and_ingest, the buffer and reset *)

Ingest ==
  /\ job[Main].pc = "idle"
  /\ \E more \in Batches : NormalizedTo(more) /\ Enters(Main, NewIds(more))
  /\ UNCHANGED <<clock, running, recent, seen, buffer, scheduleVars, pruned>>

PollAndIngest(s) ==
  /\ job[Main].pc = "idle"
  /\ Goes(Main, [Idle EXCEPT !.pc = "poll", !.due = {s}])
  /\ UNCHANGED <<clock, running, events, recent, seen, buffer, scheduleVars, outcome, overlapped, pruned>>

(* buffer_event, which flushes a full buffer at once *)
Buffers(ids) ==
  LET longer == buffer \o ids
  IN IF Len(longer) >= MaxBuffer
     THEN buffer' = <<>> /\ Enters(Main, longer)
     ELSE buffer' = longer /\ UNCHANGED <<job, overlapped>>

(* The caller passes the event, so that the same one may come again,       *)
(* whatever became of it: the retry after a flush that has failed.  What a *)
(* thread has in its hands no caller has seen yet.                         *)
BufferEvent ==
  /\ job[Main].pc = "idle" /\ Len(buffer) < MaxBuffer
  /\ \/ \E more \in [1..1 -> Report] : NormalizedTo(more) /\ Buffers(NewIds(more))
     \/ /\ \E e \in DOMAIN events : ~InBatch(e) /\ Buffers(<<e>>)
        /\ UNCHANGED <<events, outcome>>
  /\ UNCHANGED <<clock, running, recent, seen, scheduleVars, pruned>>

FlushBuffer ==
  /\ job[Main].pc = "idle" /\ buffer # <<>>
  /\ buffer' = <<>>
  /\ Enters(Main, buffer)
  /\ UNCHANGED <<clock, running, events, recent, seen, scheduleVars, outcome, pruned>>

(* The scheduler keeps its times. *)
Reset ==
  /\ job[Main].pc = "idle"
  /\ recent' = {} /\ seen' = {} /\ buffer' = <<>>
  /\ outcome' = [e \in DOMAIN outcome |->
       IF e \in IdsIn(buffer) /\ outcome[e] = "open" THEN "reset" ELSE outcome[e]]
  /\ pruned' = TRUE
  /\ UNCHANGED <<clock, running, job, events, scheduleVars, overlapped>>

-----------------------------------------------------------------------------
(* deduplicate: event by event, find and then keep or merge *)

TextOf(e) == TextIn[events[e].report]

(* The reports in the buffer that the new one matches: of another event,   *)
(* published within the window, and alike in title, keywords, category and *)
(* entities.  The measure is not symmetric.                                *)
AnySimilar(e) == {f \in recent : f # e /\ <<events[e].report, events[f].report>> \in Similar}

MatchesExactly(e) ==   \* mutant: only exact copies are looked for
  IF TextOf(e) \in seen THEN recent \cap {e} ELSE {}

MatchesOthers(e) ==   \* mutant: the hash of the text is not looked up
  AnySimilar(e)

(* _find_duplicate.  A text seen before is looked up under the id of the   *)
(* new event: only the same object is found.  Ties are left open.          *)
Matches(e) ==
  IF TextOf(e) \in seen THEN recent \cap {e} ELSE AnySimilar(e)

FindDuplicate(t) ==
  /\ job[t].pc = "find"
  /\ LET found == Matches(Head(job[t].todo))
     IN \/ found = {} /\ Goes(t, [job[t] EXCEPT !.pc = "keep"])
        \/ \E f \in found : Goes(t, [job[t] EXCEPT !.pc = "merge", !.match = f])
  /\ UNCHANGED <<clock, running, events, recent, seen, buffer, scheduleVars, outcome, overlapped, pruned>>

(* The batch goes on; after its last event the detector's buffer is pruned *)
(* to its newer half.                                                      *)
AfterEvent(t, now, j) ==
  LET rest == Tail(j.todo)
      newer == {e \in now : Cardinality({f \in now : f >= e}) <= MaxRecent \div 2}
      prunes == rest = <<>> /\ Cardinality(now) > MaxRecent
  IN /\ Goes(t, [j EXCEPT !.todo = rest, !.match = NoEvent, !.copy = {},
                          !.pc = IF rest = <<>> THEN "feed" ELSE "find"])
     /\ recent' = IF prunes THEN newer ELSE now
     /\ pruned' = (pruned \/ prunes)

(* An event that was here before and is kept all the same is open again.   *)
KeepEvent(t) ==
  /\ job[t].pc = "keep"
  /\ LET e == Head(job[t].todo)
     IN /\ seen' = seen \cup {TextOf(e)}
        /\ outcome' = [outcome EXCEPT ![e] = "open"]
        /\ AfterEvent(t, recent \cup {e}, [job[t] EXCEPT !.unique = @ \cup {e}])
  /\ UNCHANGED <<clock, running, events, buffer, scheduleVars, overlapped>>

(* The outcome of an event merged into another; one that was its own       *)
(* duplicate remains what it was.                                          *)
Merged(e, match) == IF match = e THEN outcome ELSE [outcome EXCEPT ![e] = "merged"]

MergesSourcesOnly(t) ==   \* mutant: the raw ids of the copy are forgotten
  /\ job[t].pc = "merge" /\ job[t].copy = {}
  /\ LET e == Head(job[t].todo)
     IN /\ Goes(t, [job[t] EXCEPT !.copy = events[job[t].match].raws])
        /\ outcome' = Merged(e, job[t].match)
  /\ UNCHANGED <<clock, running, events, recent, seen, buffer, scheduleVars, overlapped, pruned>>

(* raw_ids are extended in place, then replaced by a copy without doubles: *)
(* what another thread adds in between is lost.                            *)
ExtendRaws(t) ==
  /\ job[t].pc = "merge" /\ job[t].copy = {}
  /\ LET e == Head(job[t].todo)
         longer == events[job[t].match].raws \cup events[e].raws
     IN /\ events' = [events EXCEPT ![job[t].match].raws = longer]
        /\ Goes(t, [job[t] EXCEPT !.copy = longer])
        /\ outcome' = Merged(e, job[t].match)
  /\ UNCHANGED <<clock, running, recent, seen, buffer, scheduleVars, overlapped, pruned>>

ReplaceRaws(t) ==
  /\ job[t].pc = "merge" /\ job[t].copy # {}
  /\ events' = [events EXCEPT ![job[t].match].raws = job[t].copy]
  /\ AfterEvent(t, recent, job[t])
  /\ UNCHANGED <<clock, running, seen, buffer, scheduleVars, outcome, overlapped>>

-----------------------------------------------------------------------------
(* Freshness and the evidence graph *)

IsFresh(e) == clock - events[e].ingested <= StaleAfter

Feed(t) ==
  /\ job[t].pc = "feed"
  /\ outcome' = [e \in DOMAIN outcome |->
       CASE e \in job[t].unique /\ IsFresh(e) -> "fed"
         [] e \in job[t].unique /\ ~IsFresh(e) -> "stale"
         [] OTHER -> outcome[e]]
  /\ Done(t)
  /\ UNCHANGED <<clock, running, events, recent, seen, buffer, scheduleVars, overlapped, pruned>>

BatchKillsLoop(t) ==   \* mutant: the loop does not survive a batch that fails
  /\ job[t].pc = "feed" \/ (job[t].pc = "find" /\ ~Alone(t))
  /\ outcome' = [e \in DOMAIN outcome |->
       IF e \in IdsIn(job[t].todo) \cup job[t].unique /\ outcome[e] = "open"
       THEN "failed" ELSE outcome[e]]
  /\ Goes(t, [Idle EXCEPT !.pc = IF t = Main THEN "idle" ELSE "off"])
  /\ UNCHANGED <<clock, running, events, recent, seen, buffer, scheduleVars, overlapped, pruned>>

(* The batch fails where it is: the evidence feed raises, or a dictionary  *)
(* is changed by another thread while it is iterated over.  What the       *)
(* detector has kept by then it keeps.                                     *)
BatchFails(t) ==
  /\ job[t].pc = "feed" \/ (job[t].pc = "find" /\ ~Alone(t))
  /\ outcome' = [e \in DOMAIN outcome |->
       IF e \in IdsIn(job[t].todo) \cup job[t].unique /\ outcome[e] = "open"
       THEN "failed" ELSE outcome[e]]
  /\ Done(t)
  /\ UNCHANGED <<clock, running, events, recent, seen, buffer, scheduleVars, overlapped, pruned>>

-----------------------------------------------------------------------------
(* Specification *)

Works(t) ==
  \/ \E s \in Source : Poll(t, s)
  \/ IngestPolled(t) \/ FindDuplicate(t) \/ KeepEvent(t) \/ ExtendRaws(t) \/ ReplaceRaws(t)
  \/ Feed(t) \/ BatchFails(t)

LiveNext ==
  \/ Tick \/ StartContinuous \/ StopContinuous
  \/ \E t \in Loop : LoopTop(t)
  \/ Ingest \/ BufferEvent \/ FlushBuffer \/ Reset
  \/ \E s \in Source : PollAndIngest(s)
  \/ \E t \in Thread : Works(t)

(* A thread that can take a step takes one. *)
LiveFairness ==
  /\ \A t \in Loop : WF_liveVars(LoopTop(t))
  /\ \A t \in Thread : WF_liveVars(Works(t))

LiveSpec == LiveInit /\ [][LiveNext]_liveVars /\ LiveFairness

-----------------------------------------------------------------------------
(* Properties *)

(* Every variable of the pipeline has its type. *)
LiveTypeOK ==
  /\ clock \in 0..MaxClock /\ running \in BOOLEAN
  /\ \A t \in Thread :
       /\ job[t].pc \in Step
       /\ IdsIn(job[t].todo) \cup job[t].unique \subseteq DOMAIN events
  /\ recent \cup IdsIn(buffer) \subseteq DOMAIN events
  /\ seen \subseteq Text
  /\ lastPolled \in [Source -> {Never} \cup 0..MaxClock]
  /\ outcome \in [DOMAIN events -> {"open", "fed", "stale", "merged", "failed", "reset"}]

(* As long as one thread at a time is in the pipeline and the detector has *)
(* forgotten nothing: where two events it holds match each other, the text *)
(* of one of them was seen before it came, which is what makes the         *)
(* detector leave out the comparison.  Every other report of a story is    *)
(* merged into the one that is there, in whatever order, batches and       *)
(* retries they come.                                                      *)
StoriesMerged ==
  overlapped \/ pruned \/
    \A e, f \in recent :
      e # f /\ {<<events[e].report, events[f].report>>,
                <<events[f].report, events[e].report>>} \subseteq Similar
        => \E g \in {e, f}, h \in recent : g # h /\ TextOf(g) = TextOf(h)

(* What was fed is not fed again: offered once more, after a success, a    *)
(* failure or while other threads overlap, an event is its own duplicate   *)
(* and neither kept as new nor merged into another, until the detector     *)
(* forgets it.                                                             *)
FedOnce ==
  [][\A e \in DOMAIN outcome : outcome[e] = "fed" => outcome'[e] = "fed" \/ pruned']_liveVars

UnderWay(e) == InBatch(e) \/ e \in IdsIn(buffer)

(* No item is lost silently: without overlap each is carried, however its  *)
(* event was merged, by one that waits, that was fed or dropped as stale,  *)
(* that was reset, or whose batch failed.  The failure is the last thing   *)
(* said of it: a retry is dropped as a duplicate and reports a success.    *)
Accounted ==
  overlapped \/
    \A e \in DOMAIN events : \E f \in DOMAIN events :
      /\ e \in events[f].raws
      /\ UnderWay(f) \/ outcome[f] \in {"fed", "stale", "failed", "reset"}

(* A loop by itself honours the interval of a source, also after polls     *)
(* that failed: two polls in a row of one loop are an interval apart, with *)
(* whatever other threads poll and ingest in between its check and act.    *)
PollsSpaced ==
  [][\A t \in Loop, s \in Source :
       s \in job[t].due \ job'[t].due /\ polledBy[s] = t
         => clock - lastPolled[s] >= Interval]_liveVars

(* A loop that is told to stop ends, if it is not told to start again:     *)
(* whatever batch or sleep it is in, and whatever fails.                   *)
LoopsEnd == \A t \in Loop : ~running ~> (running \/ job[t].pc = "off")

(* No source starves, at its first poll or any later one: while the loop   *)
(* runs a source whose interval has passed is polled, whatever else is due *)
(* and however polls and batches end.                                      *)
SourcesServed ==
  \A s \in Source :
    LET waits == lastPolled[s] = Never \/ clock - lastPolled[s] >= Interval
    IN running /\ waits ~> (~running \/ ~waits)

(* "Exact title match -> duplicate" (duplicate_detector.py:47): without    *)
(* overlap and pruning no text is fed twice.                               *)
ExactCopiesDropped ==
  overlapped \/ pruned \/
    \A e, f \in DOMAIN events :
      outcome[e] = "fed" /\ outcome[f] = "fed" /\ TextOf(e) = TextOf(f) => e = f
=============================================================================
