------------------------- MODULE LiveIngestion_proofs -------------------------
(***************************************************************************)
(* Theorems about LiveIngestion, for every number of daemon loops, sources *)
(* and reports, all intervals and all bounds: the spacing of polls, the    *)
(* merging of stories, that nothing is fed twice, and that no item is lost *)
(* silently.                                                               *)
(***************************************************************************)
EXTENDS LiveIngestion, SequenceTheorems, TLAPS

USE DEF scheduleVars

-----------------------------------------------------------------------------
(* The inductive type invariant *)

Event == [report : Report, ingested : Nat, raws : SUBSET Nat]

Fate == {"open", "fed", "stale", "merged", "failed", "reset"}

Job ==
  [pc : Step, due : SUBSET Source, todo : Seq(Nat), unique : SUBSET Nat,
   match : Nat, copy : SUBSET Nat]

(* A job refers to events that exist; a thread in the detector has an      *)
(* event at hand.                                                          *)
Fits(j, n) ==
  /\ j.pc \in {"find", "keep", "merge"} => j.todo # <<>>
  /\ j.pc = "merge" => j.match \in 1..n
  /\ IdsIn(j.todo) \cup j.unique \subseteq 1..n

Typed ==
  /\ clock \in 0..MaxClock /\ running \in BOOLEAN
  /\ events \in Seq(Event)
  /\ outcome \in Seq(Fate) /\ Len(outcome) = Len(events)
  /\ buffer \in Seq(Nat)
  /\ recent \cup IdsIn(buffer) \subseteq 1..Len(events)
  /\ seen \subseteq Text
  /\ lastPolled \in [Source -> {Never} \cup 0..MaxClock]
  /\ polledBy \in [Source -> Thread]
  /\ overlapped \in BOOLEAN /\ pruned \in BOOLEAN
  /\ job \in [Thread -> Job]
  /\ \A t \in Thread : Fits(job[t], Len(events))

-----------------------------------------------------------------------------
(* Sequences *)

LEMMA Bounds == /\ Interval \in Nat /\ MaxClock \in Nat /\ MaxBatch \in Nat /\ MaxRecent \in Nat
                /\ MaxRecent > 1 /\ Main \notin Loop
BY LiveAssumption

LEMMA IdsOf ==
  ASSUME NEW seq \in Seq(Nat)
  PROVE  /\ IdsIn(seq) \subseteq Nat
         /\ seq # <<>> => Head(seq) \in IdsIn(seq) /\ Tail(seq) \in Seq(Nat)
                          /\ IdsIn(Tail(seq)) \subseteq IdsIn(seq)
<1>1. DOMAIN seq = 1..Len(seq) /\ Len(seq) \in Nat /\ \A i \in 1..Len(seq) : seq[i] \in Nat
  BY LenProperties, ElementOfSeq
<1>2. IdsIn(seq) \subseteq Nat
  BY <1>1 DEF IdsIn
<1>3. ASSUME seq # <<>>
      PROVE  Head(seq) \in IdsIn(seq) /\ Tail(seq) \in Seq(Nat) /\ IdsIn(Tail(seq)) \subseteq IdsIn(seq)
  <2>1. Len(seq) >= 1 /\ Head(seq) = seq[1]
    BY <1>1, <1>3, EmptySeq
  <2>2. /\ Tail(seq) \in Seq(Nat) /\ Len(Tail(seq)) = Len(seq) - 1
        /\ \A i \in 1..Len(Tail(seq)) : Tail(seq)[i] = seq[i + 1]
    BY <1>3, HeadTailProperties
  <2>3. DOMAIN Tail(seq) = 1..Len(Tail(seq))
    BY <2>2, LenProperties
  <2> QED
    BY <1>1, <2>1, <2>2, <2>3 DEF IdsIn
<1> QED
  BY <1>2, <1>3

LEMMA HeadAndTail ==
  ASSUME NEW seq \in Seq(Nat), seq # <<>>
  PROVE  IdsIn(seq) = {Head(seq)} \cup IdsIn(Tail(seq))
<1>1. DOMAIN seq = 1..Len(seq) /\ Len(seq) \in Nat /\ Len(seq) >= 1 /\ Head(seq) = seq[1]
  BY LenProperties, EmptySeq
<1>2. /\ Tail(seq) \in Seq(Nat) /\ Len(Tail(seq)) = Len(seq) - 1
      /\ \A i \in 1..Len(Tail(seq)) : Tail(seq)[i] = seq[i + 1]
  BY HeadTailProperties
<1>3. DOMAIN Tail(seq) = 1..Len(Tail(seq))
  BY <1>2, LenProperties
<1>4. ASSUME NEW i \in 1..Len(seq), i # 1
      PROVE  seq[i] \in IdsIn(Tail(seq))
  <2>1. i - 1 \in 1..Len(Tail(seq)) /\ (i - 1) + 1 = i
    BY <1>1, <1>2, <1>4
  <2>2. Tail(seq)[i - 1] = seq[i]
    BY <1>2, <2>1
  <2> QED
    BY <1>3, <2>1, <2>2 DEF IdsIn
<1>5. IdsIn(seq) \subseteq {Head(seq)} \cup IdsIn(Tail(seq))
  BY <1>1, <1>4 DEF IdsIn
<1> QED
  BY <1>5, IdsOf

LEMMA IdsOfConcat ==
  ASSUME NEW first \in Seq(Nat), NEW second \in Seq(Nat)
  PROVE  /\ first \o second \in Seq(Nat)
         /\ IdsIn(first \o second) = IdsIn(first) \cup IdsIn(second)
         /\ second # <<>> => first \o second # <<>>
<1> DEFINE both == first \o second
<1>1. /\ both \in Seq(Nat) /\ Len(both) = Len(first) + Len(second)
      /\ \A i \in 1..Len(first) + Len(second) :
           both[i] = IF i <= Len(first) THEN first[i] ELSE second[i - Len(first)]
  BY ConcatProperties
<1>2. /\ Len(first) \in Nat /\ DOMAIN first = 1..Len(first)
      /\ Len(second) \in Nat /\ DOMAIN second = 1..Len(second)
      /\ DOMAIN both = 1..Len(both)
  BY <1>1, LenProperties
<1> HIDE DEF both
<1>3. ASSUME NEW i \in 1..Len(both)
      PROVE  both[i] \in IdsIn(first) \cup IdsIn(second)
  <2>1. CASE i <= Len(first)
    <3>1. i \in 1..Len(first) /\ both[i] = first[i]
      BY <1>1, <1>2, <2>1
    <3> QED
      BY <1>2, <3>1 DEF IdsIn
  <2>2. CASE i > Len(first)
    <3>1. i - Len(first) \in 1..Len(second) /\ both[i] = second[i - Len(first)]
      BY <1>1, <1>2, <2>2
    <3> QED
      BY <1>2, <3>1 DEF IdsIn
  <2> QED
    BY <1>2, <2>1, <2>2
<1>4. ASSUME NEW i \in 1..Len(first) PROVE first[i] \in IdsIn(both)
  <2>1. i \in 1..Len(both) /\ both[i] = first[i]
    BY <1>1, <1>2
  <2> QED
    BY <1>2, <2>1 DEF IdsIn
<1>5. ASSUME NEW i \in 1..Len(second) PROVE second[i] \in IdsIn(both)
  <2> DEFINE k == Len(first) + i
  <2>0. k \in 1..Len(first) + Len(second) /\ k - Len(first) = i /\ ~(k <= Len(first))
    BY <1>2
  <2> HIDE DEF k
  <2>1. k \in 1..Len(both) /\ both[k] = second[i]
    BY <1>1, <2>0
  <2> QED
    BY <1>2, <2>1 DEF IdsIn
<1>6. IdsIn(both) = IdsIn(first) \cup IdsIn(second)
  BY <1>2, <1>3, <1>4, <1>5 DEF IdsIn
<1>7. second # <<>> => both # <<>>
  BY <1>1, <1>2, EmptySeq
<1> QED
  BY <1>1, <1>6, <1>7 DEF both

LEMMA BatchIsSeq ==
  /\ \A more \in Batches \cup {<<>>} : more \in Seq(Report)
  /\ \A more \in Batches : more # <<>>
  /\ \A more \in [1..1 -> Report] : more \in Seq(Report) /\ more # <<>>
<1>1. ASSUME NEW n \in Nat \ {0}, NEW more \in [1..n -> Report]
      PROVE  more \in Seq(Report) /\ more # <<>>
  <2>1. more \in Seq(Report)
    BY SeqDef
  <2>2. DOMAIN more = 1..n /\ DOMAIN more = 1..Len(more) /\ Len(more) \in Nat
    BY <2>1, LenProperties
  <2>3. 1 \in 1..Len(more)
    BY <2>2
  <2> QED
    BY <2>1, <2>2, <2>3, EmptySeq
<1>2. ASSUME NEW more \in Batches PROVE more \in Seq(Report) /\ more # <<>>
  <2>1. PICK n \in Nat \ {0} : more \in [1..n -> Report]
    BY Bounds DEF Batches
  <2> QED
    BY <1>1, <2>1
<1>3. <<>> \in Seq(Report)
  BY EmptySeq
<1>4. ASSUME NEW more \in [1..1 -> Report] PROVE more \in Seq(Report) /\ more # <<>>
  <2>1. PICK n \in Nat \ {0} : n = 1
    OBVIOUS
  <2>2. more \in [1..n -> Report]
    BY <2>1
  <2> QED
    BY <1>1, <2>2
<1> QED
  BY <1>2, <1>3, <1>4

(* Normalization appends events with ids of their own.                     *)
LEMMA Normalized ==
  ASSUME Typed, NEW more \in Seq(Report), NormalizedTo(more)
  PROVE  /\ events' \in Seq(Event) /\ Len(events') = Len(events) + Len(more)
         /\ \A e \in 1..Len(events) : events'[e] = events[e] /\ outcome'[e] = outcome[e]
         /\ \A e \in (Len(events) + 1)..Len(events') :
              events'[e].raws = {e} /\ outcome'[e] = "open"
         /\ outcome' \in Seq(Fate) /\ Len(outcome') = Len(events')
         /\ NewIds(more) \in Seq(Nat)
         /\ IdsIn(NewIds(more)) = (Len(events) + 1)..Len(events')
         /\ more # <<>> => NewIds(more) # <<>>
<1> DEFINE k == Len(more)
           n == Len(events)
           added == [i \in DOMAIN more |-> [report |-> more[i], ingested |-> clock, raws |-> {n + i}]]
           open == [i \in DOMAIN more |-> "open"]
           ids == [i \in DOMAIN more |-> n + i]
<1>1. k \in Nat /\ DOMAIN more = 1..k /\ n \in Nat /\ \A i \in 1..k : more[i] \in Report
  BY LenProperties, ElementOfSeq DEF Typed
<1>2. events' = events \o added /\ outcome' = outcome \o open /\ NewIds(more) = ids
  BY DEF NormalizedTo, NewIds
<1>3. clock \in Nat /\ events \in Seq(Event) /\ outcome \in Seq(Fate) /\ Len(outcome) = n
  BY Bounds DEF Typed
<1> HIDE DEF k, n
<1>4. added \in [1..k -> Event] /\ open \in [1..k -> Fate] /\ ids \in [1..k -> Nat]
  BY <1>1, <1>3 DEF Event, Fate
<1>5. added \in Seq(Event) /\ open \in Seq(Fate) /\ ids \in Seq(Nat)
  BY <1>1, <1>4, SeqDef
<1>6. Len(added) = k /\ Len(open) = k /\ Len(ids) = k
  BY <1>1, <1>4, <1>5, LenProperties
<1>7. \A i \in 1..k : added[i].raws = {n + i} /\ open[i] = "open" /\ ids[i] = n + i
  BY <1>1
<1>8. DOMAIN ids = 1..k
  BY <1>1
<1> HIDE DEF added, open, ids
<1>9. /\ events' \in Seq(Event) /\ Len(events') = n + k
      /\ \A i \in 1..n + k : events'[i] = IF i <= n THEN events[i] ELSE added[i - n]
  <2>1. /\ events \o added \in Seq(Event) /\ Len(events \o added) = Len(events) + Len(added)
        /\ \A i \in 1..Len(events) + Len(added) :
             (events \o added)[i] = IF i <= Len(events) THEN events[i] ELSE added[i - Len(events)]
    BY <1>3, <1>5, ConcatProperties
  <2> QED
    BY <1>2, <1>3, <1>6, <2>1 DEF n
<1>10. /\ outcome' \in Seq(Fate) /\ Len(outcome') = n + k
       /\ \A i \in 1..n + k : outcome'[i] = IF i <= n THEN outcome[i] ELSE open[i - n]
  <2>1. /\ outcome \o open \in Seq(Fate) /\ Len(outcome \o open) = Len(outcome) + Len(open)
        /\ \A i \in 1..Len(outcome) + Len(open) :
             (outcome \o open)[i] = IF i <= Len(outcome) THEN outcome[i] ELSE open[i - Len(outcome)]
    BY <1>3, <1>5, ConcatProperties
  <2> QED
    BY <1>2, <1>3, <1>6, <2>1
<1>11. IdsIn(ids) = (n + 1)..(n + k)
  <2>1. \A e \in (n + 1)..(n + k) : e - n \in 1..k /\ ids[e - n] = e
    BY <1>1, <1>7
  <2>2. \A i \in 1..k : ids[i] \in (n + 1)..(n + k)
    BY <1>1, <1>7
  <2>3. IdsIn(ids) = {ids[i] : i \in 1..k}
    BY <1>8 DEF IdsIn
  <2> QED
    BY <2>1, <2>2, <2>3
<1>12. \A e \in (n + 1)..(n + k) : events'[e].raws = {e} /\ outcome'[e] = "open"
  <2> SUFFICES ASSUME NEW e \in (n + 1)..(n + k)
      PROVE  events'[e].raws = {e} /\ outcome'[e] = "open"
    OBVIOUS
  <2>1. e \in 1..n + k /\ ~(e <= n) /\ e - n \in 1..k /\ n + (e - n) = e
    BY <1>1
  <2> QED
    BY <1>7, <1>9, <1>10, <2>1
<1>13. more # <<>> => ids # <<>>
  <2>1. more # <<>> => k # 0
    BY <1>1, EmptySeq DEF k
  <2> QED
    BY <1>5, <1>6, <2>1, EmptySeq
<1>14. \A e \in 1..n : events'[e] = events[e] /\ outcome'[e] = outcome[e]
  BY <1>1, <1>9, <1>10
<1> QED
  BY <1>2, <1>5, <1>9, <1>10, <1>11, <1>12, <1>13, <1>14 DEF k, n

-----------------------------------------------------------------------------
(* Jobs *)

LEMMA FitsMore ==
  ASSUME NEW j \in Job, NEW n \in Nat, NEW m \in Nat, n <= m, Fits(j, n)
  PROVE  Fits(j, m)
<1>1. 1..n \subseteq 1..m
  OBVIOUS
<1> QED
  BY <1>1 DEF Fits

LEMMA JobStep ==
  ASSUME Typed, NEW t \in Thread, NEW j \in Job, Goes(t, j),
         Len(events') \in Nat, Len(events) <= Len(events'), Fits(j, Len(events'))
  PROVE  /\ job' \in [Thread -> Job]
         /\ \A u \in Thread : Fits(job'[u], Len(events'))
         /\ \A u \in Thread : job'[u] = IF u = t THEN j ELSE job[u]
<1>1. job' = [job EXCEPT ![t] = j] /\ job \in [Thread -> Job] /\ Len(events) \in Nat
  BY LenProperties DEF Goes, Typed
<1>2. \A u \in Thread : Fits(job[u], Len(events')) /\ job[u] \in Job
  BY <1>1, FitsMore DEF Typed
<1> QED
  BY <1>1, <1>2

LEMMA IdleIsJob ==
  /\ Idle \in Job /\ Idle.due = {} /\ Idle.todo = <<>>
  /\ Idle.unique = {} /\ IdsIn(<<>>) = {}
<1>1. <<>> \in Seq(Nat)
  BY EmptySeq
<1>2. Idle \in Job
  BY <1>1 DEF Idle, Job, Step, NoEvent
<1>3. IdsIn(<<>>) = {}
  BY DEF IdsIn
<1> QED
  BY <1>2, <1>3 DEF Idle

LEMMA IdleJob ==
  ASSUME NEW n \in Nat, NEW pc \in {"idle", "top", "off"}
  PROVE  LET j == [Idle EXCEPT !.pc = pc] IN j \in Job /\ Fits(j, n) /\ j.due = {} /\ j.pc = pc
<1> DEFINE j == [Idle EXCEPT !.pc = pc]
<1>1. /\ j \in Job /\ j.todo = <<>> /\ j.unique = {} /\ j.pc = pc
      /\ j.due = {}
  BY IdleIsJob DEF Job, Step
<1> HIDE DEF j
<1>2. Fits(j, n)
  BY <1>1, IdleIsJob DEF Fits
<1> QED
  BY <1>1, <1>2 DEF j

LEMMA BatchJob ==
  ASSUME NEW n \in Nat, NEW ids \in Seq(Nat), ids # <<>>, IdsIn(ids) \subseteq 1..n
  PROVE  LET j == [Idle EXCEPT !.pc = "find", !.todo = ids]
         IN j \in Job /\ Fits(j, n) /\ j.due = {} /\ j.pc = "find"
<1> DEFINE j == [Idle EXCEPT !.pc = "find", !.todo = ids]
<1>1. /\ j \in Job /\ j.todo = ids /\ j.unique = {}
      /\ j.pc = "find" /\ j.due = {}
  BY IdleIsJob DEF Job, Step
<1> HIDE DEF j
<1>2. Fits(j, n)
  BY <1>1 DEF Fits
<1> QED
  BY <1>1, <1>2 DEF j

LEMMA DoneStep ==
  ASSUME Typed, NEW t \in Thread, Done(t), UNCHANGED events
  PROVE  /\ job' \in [Thread -> Job]
         /\ \A u \in Thread : Fits(job'[u], Len(events'))
         /\ \A u \in Thread : u # t => job'[u] = job[u]
         /\ job'[t].due = {} /\ job'[t].pc \in {"idle", "top"}
<1> DEFINE pc == IF t = Main THEN "idle" ELSE "top"
           j == [Idle EXCEPT !.pc = pc]
<1>1. Len(events) \in Nat /\ Len(events) <= Len(events)
  BY LenProperties DEF Typed
<1>2. pc \in {"idle", "top"}
  OBVIOUS
<1>3. Goes(t, j)
  BY DEF Done
<1> HIDE DEF pc
<1>4. j \in Job /\ Fits(j, Len(events)) /\ j.due = {} /\ j.pc = pc
  BY <1>1, <1>2, IdleJob
<1> HIDE DEF j
<1> QED
  BY <1>1, <1>2, <1>3, <1>4, JobStep

LEMMA EnterStep ==
  ASSUME Typed, NEW t \in Thread, NEW ids \in Seq(Nat), ids # <<>>, Enters(t, ids),
         Len(events') \in Nat, Len(events) <= Len(events'), IdsIn(ids) \subseteq 1..Len(events')
  PROVE  /\ job' \in [Thread -> Job]
         /\ \A u \in Thread : Fits(job'[u], Len(events'))
         /\ \A u \in Thread : u # t => job'[u] = job[u]
         /\ job'[t].due = {} /\ job'[t].pc = "find"
         /\ overlapped' = (overlapped \/ ~Alone(t))
<1> DEFINE j == [Idle EXCEPT !.pc = "find", !.todo = ids]
<1>1. j \in Job /\ Fits(j, Len(events')) /\ j.due = {} /\ j.pc = "find"
  BY BatchJob
<1>2. Goes(t, j) /\ overlapped' = (overlapped \/ ~Alone(t))
  BY DEF Enters
<1> HIDE DEF j
<1> QED
  BY <1>1, <1>2, JobStep

(* After an event of a batch the thread has the next one at hand, or feeds.*)
LEMMA AfterJob ==
  ASSUME Typed, NEW t \in Thread, NEW now, NEW j \in Job, AfterEvent(t, now, j),
         Len(events') = Len(events), Fits(j, Len(events)), j.todo # <<>>, j.pc # "poll"
  PROVE  /\ job' \in [Thread -> Job]
         /\ \A u \in Thread : Fits(job'[u], Len(events'))
         /\ \A u \in Thread : u # t => job'[u] = job[u]
         /\ job'[t].due = j.due /\ job'[t].pc \in {"find", "feed"}
         /\ recent' \subseteq now
         /\ pruned' \in {pruned, TRUE} /\ (~pruned' => recent' = now)
<1> DEFINE rest == Tail(j.todo)
           pc == IF rest = <<>> THEN "feed" ELSE "find"
           k == [j EXCEPT !.todo = rest, !.match = NoEvent, !.copy = {}, !.pc = pc]
<1>1. Len(events) \in Nat /\ Len(events) <= Len(events)
  BY LenProperties DEF Typed
<1>2. j.todo \in Seq(Nat)
  BY DEF Job
<1>3. rest \in Seq(Nat) /\ IdsIn(rest) \subseteq IdsIn(j.todo)
  BY <1>2, IdsOf
<1>4. Goes(t, k)
  BY DEF AfterEvent
<1>5. /\ recent' \subseteq now
      /\ pruned' \in {pruned, TRUE} /\ (~pruned' => recent' = now)
  BY DEF AfterEvent, Typed
<1>6. pc \in {"feed", "find"} /\ (pc = "find" => rest # <<>>)
  OBVIOUS
<1> HIDE DEF rest, pc
<1>7. pc \in Step /\ NoEvent \in Nat
  BY <1>6 DEF Step, NoEvent
<1>8. /\ k \in Job /\ k.pc = pc /\ k.due = j.due /\ k.todo = rest
      /\ k.unique = j.unique
  BY <1>3, <1>7 DEF Job
<1> HIDE DEF k
<1>9. Fits(k, Len(events))
  BY <1>3, <1>6, <1>8 DEF Fits
<1> QED
  BY <1>1, <1>4, <1>5, <1>6, <1>8, <1>9, JobStep

-----------------------------------------------------------------------------
(* Types, and what becomes due.  Most steps make nothing due.              *)

Calm ==
  /\ UNCHANGED <<scheduleVars>> /\ clock' \in {clock, clock + 1}
  /\ \A u \in Thread : job'[u].due \subseteq job[u].due

LEMMA Counted ==
  ASSUME Typed
  PROVE  /\ Len(events) \in Nat /\ DOMAIN events = 1..Len(events)
         /\ DOMAIN outcome = 1..Len(events)
         /\ Main \in Thread /\ Loop \subseteq Thread
BY LenProperties DEF Typed, Thread

LEMMA OutcomesTyped ==
  ASSUME Typed, NEW other \in [DOMAIN outcome -> Fate]
  PROVE  other \in Seq(Fate) /\ Len(other) = Len(events)
<1>1. other \in [1..Len(events) -> Fate] /\ Len(events) \in Nat
  BY Counted
<1>2. other \in Seq(Fate)
  BY <1>1, SeqDef
<1> QED
  BY <1>1, <1>2, LenProperties

LEMMA InitTyped == LiveInit => Typed
<1> SUFFICES ASSUME LiveInit PROVE Typed
  OBVIOUS
<1>1. job = [t \in Thread |-> IF t = Main THEN Idle ELSE [Idle EXCEPT !.pc = "off"]]
  BY DEF LiveInit
<1>2. Idle \in Job /\ Fits(Idle, 0)
  BY IdleIsJob DEF Fits, Idle
<1>3. [Idle EXCEPT !.pc = "off"] \in Job /\ Fits([Idle EXCEPT !.pc = "off"], 0)
  BY IdleJob
<1>4. /\ job \in [Thread -> Job]
      /\ \A t \in Thread : Fits(job[t], 0)
  BY <1>1, <1>2, <1>3
<1>5. <<>> \in Seq(Event) /\ <<>> \in Seq(Fate) /\ <<>> \in Seq(Nat) /\ Len(<<>>) = 0
  BY EmptySeq
<1>6. /\ clock = 0 /\ running = FALSE /\ events = <<>> /\ recent = {} /\ seen = {}
      /\ buffer = <<>> /\ outcome = <<>> /\ overlapped = FALSE /\ pruned = FALSE
      /\ lastPolled = [s \in Source |-> Never] /\ polledBy = [s \in Source |-> Main]
  BY DEF LiveInit
<1>7. /\ lastPolled \in [Source -> {Never} \cup 0..MaxClock]
      /\ polledBy \in [Source -> Thread]
  BY <1>6 DEF Thread
<1>8. clock \in 0..MaxClock
  BY <1>6, Bounds
<1>9. recent \cup IdsIn(buffer) = {}
  BY <1>6, IdleIsJob
<1> QED
  BY <1>4, <1>5, <1>6, <1>7, <1>8, <1>9 DEF Typed

LEMMA QuietTyped ==
  ASSUME Typed, Tick \/ StopContinuous \/ Reset \/ UNCHANGED liveVars
  PROVE  Typed' /\ Calm
<1>1. CASE Tick \/ StopContinuous \/ UNCHANGED liveVars
  <2>0. clock \in 0..MaxClock /\ running \in BOOLEAN
    BY DEF Typed
  <2>1. clock' \in 0..MaxClock /\ running' \in BOOLEAN /\ clock' \in {clock, clock + 1}
    <3>1. CASE Tick
      BY <2>0, <3>1, Bounds DEF Tick
    <3>2. CASE StopContinuous \/ UNCHANGED liveVars
      BY <2>0, <3>2 DEF StopContinuous, liveVars
    <3> QED
      BY <1>1, <3>1, <3>2
  <2>2. UNCHANGED <<events, outcome, buffer, recent, seen, lastPolled, polledBy,
                    overlapped, pruned, job>>
    BY <1>1 DEF Tick, StopContinuous, liveVars
  <2> QED
    BY <2>1, <2>2 DEF Typed, Calm
<1>2. CASE Reset
  <2>1. /\ recent' = {} /\ seen' = {} /\ buffer' = <<>> /\ pruned' = TRUE
        /\ outcome' = [e \in DOMAIN outcome |->
             IF e \in IdsIn(buffer) /\ outcome[e] = "open" THEN "reset" ELSE outcome[e]]
        /\ UNCHANGED <<clock, running, job, events, scheduleVars, overlapped>>
    BY <1>2 DEF Reset
  <2>2. outcome' \in [DOMAIN outcome -> Fate]
    BY <2>1, Counted, LenProperties DEF Typed, Fate
  <2>3. outcome' \in Seq(Fate) /\ Len(outcome') = Len(events)
    BY <2>2, OutcomesTyped
  <2>4. buffer' \in Seq(Nat) /\ IdsIn(buffer') = {}
    BY <2>1, EmptySeq, IdleIsJob
  <2> QED
    BY <2>1, <2>3, <2>4 DEF Typed, Calm
<1> QED
  BY <1>1, <1>2

(* A loop begins, ends, or sets out to poll what is due.                   *)
LEMMA StartTyped ==
  ASSUME Typed, StartContinuous
  PROVE  Typed' /\ Calm
<1>1. PICK t \in Loop : Goes(t, [Idle EXCEPT !.pc = "top"])
  BY DEF StartContinuous
<1>2. /\ running' = TRUE
      /\ UNCHANGED <<clock, events, recent, seen, buffer, scheduleVars, outcome, 
                     overlapped, pruned>>
  BY DEF StartContinuous
<1> DEFINE j == [Idle EXCEPT !.pc = "top"]
<1>3. j \in Job /\ Fits(j, Len(events)) /\ j.due = {} /\ t \in Thread
  BY Counted, IdleJob
<1> HIDE DEF j
<1>4. /\ job' \in [Thread -> Job] /\ \A u \in Thread : Fits(job'[u], Len(events))
      /\ \A u \in Thread : job'[u] = IF u = t THEN j ELSE job[u]
  BY <1>1, <1>2, <1>3, Counted, JobStep DEF j
<1> QED
  BY <1>2, <1>3, <1>4 DEF Typed, Calm

LEMMA LoopTopTyped ==
  ASSUME Typed, NEW t \in Loop, LoopTop(t)
  PROVE  /\ Typed'
         /\ UNCHANGED <<clock, scheduleVars>>
         /\ \A u \in Thread : job'[u].due \subseteq job[u].due \/ (u = t /\ job'[u].due = Due)
<1>1. /\ Goes(t, [Idle EXCEPT !.pc = "poll", !.due = Due]) \/ Goes(t, [Idle EXCEPT !.pc = "off"])
      /\ UNCHANGED <<clock, running, events, recent, seen, buffer, scheduleVars, outcome, 
                     overlapped, pruned>>
  BY DEF LoopTop
<1> DEFINE j == [Idle EXCEPT !.pc = "poll", !.due = Due]
           k == [Idle EXCEPT !.pc = "off"]
<1>2. Due \subseteq Source /\ t \in Thread
  BY Counted DEF Due
<1>3. /\ j \in Job /\ j.due = Due /\ j.todo = <<>> /\ j.unique = {} /\ j.pc = "poll"
  BY <1>2, IdleIsJob DEF Job, Step
<1>4. k \in Job /\ Fits(k, Len(events)) /\ k.due = {}
  BY Counted, IdleJob
<1> HIDE DEF j, k
<1>5. Fits(j, Len(events))
  BY <1>3, IdleIsJob DEF Fits
<1>6. CASE Goes(t, j)
  <2>1. /\ job' \in [Thread -> Job] /\ \A u \in Thread : Fits(job'[u], Len(events))
        /\ \A u \in Thread : job'[u] = IF u = t THEN j ELSE job[u]
    BY <1>1, <1>2, <1>3, <1>5, <1>6, Counted, JobStep
  <2> QED
    <3>1. Typed'
      BY <1>1, <2>1 DEF Typed
    <3> QED
      <4>1. UNCHANGED <<clock, scheduleVars>>
        BY <1>1
      <4>2. \A u \in Thread : job'[u].due = IF u = t THEN j.due ELSE job[u].due
        BY <2>1
      <4> QED
        BY <3>1, <4>1, <4>2, <1>3
<1>7. CASE Goes(t, k)
  <2>1. /\ job' \in [Thread -> Job] /\ \A u \in Thread : Fits(job'[u], Len(events))
        /\ \A u \in Thread : job'[u] = IF u = t THEN k ELSE job[u]
    BY <1>1, <1>2, <1>4, <1>7, Counted, JobStep
  <2> QED
    <3>1. Typed'
      BY <1>1, <2>1 DEF Typed
    <3> QED
      <4>1. UNCHANGED <<clock, scheduleVars>>
        BY <1>1
      <4>2. \A u \in Thread : job'[u].due = IF u = t THEN k.due ELSE job[u].due
        BY <2>1
      <4> QED
        BY <3>1, <4>1, <4>2, <1>4
<1> QED
  BY <1>1, <1>6, <1>7 DEF j, k

LEMMA PollTyped ==
  ASSUME Typed, NEW t \in Thread, NEW s \in Source, Poll(t, s)
  PROVE  /\ Typed' /\ s \in job[t].due
         /\ clock' = clock
         /\ lastPolled' = [lastPolled EXCEPT ![s] = clock]
         /\ polledBy' = [polledBy EXCEPT ![s] = t]
         /\ \A u \in Thread : job'[u].due = IF u = t THEN job[u].due \ {s} ELSE job[u].due
<1>1. PICK more \in Batches \cup {<<>>} :
        /\ NormalizedTo(more)
        /\ Goes(t, [job[t] EXCEPT !.due = @ \ {s}, !.todo = @ \o NewIds(more)])
  BY DEF Poll
<1>2. /\ job[t].pc = "poll" /\ s \in job[t].due
      /\ lastPolled' = [lastPolled EXCEPT ![s] = clock]
      /\ polledBy' = [polledBy EXCEPT ![s] = t]
      /\ UNCHANGED <<clock, running, recent, seen, buffer, overlapped, pruned>>
  BY DEF Poll, RecordPoll
<1>3. more \in Seq(Report) /\ Len(more) \in Nat
  BY BatchIsSeq, LenProperties
<1>4. /\ events' \in Seq(Event) /\ Len(events') = Len(events) + Len(more)
      /\ outcome' \in Seq(Fate) /\ Len(outcome') = Len(events')
      /\ NewIds(more) \in Seq(Nat)
      /\ IdsIn(NewIds(more)) = (Len(events) + 1)..Len(events')
  BY <1>1, <1>3, Normalized
<1> DEFINE todo == job[t].todo \o NewIds(more)
           due == job[t].due \ {s}
           j == [job[t] EXCEPT !.due = due, !.todo = todo]
<1>5. job[t] \in Job /\ Fits(job[t], Len(events)) /\ job[t].todo \in Seq(Nat)
  BY DEF Typed, Job
<1>6. todo \in Seq(Nat) /\ IdsIn(todo) = IdsIn(job[t].todo) \cup IdsIn(NewIds(more))
  BY <1>4, <1>5, IdsOfConcat
<1>7. due \subseteq Source
  BY <1>5 DEF Job
<1>8. Goes(t, j)
  BY <1>1
<1> HIDE DEF todo, due
<1>9. /\ j \in Job /\ j.due = due /\ j.todo = todo /\ j.pc = "poll"
      /\ j.unique = job[t].unique
  BY <1>2, <1>5, <1>6, <1>7 DEF Job
<1> HIDE DEF j
<1>10. /\ Len(events) \in Nat /\ Len(events') \in Nat /\ Len(events) <= Len(events')
       /\ 1..Len(events) \subseteq 1..Len(events')
       /\ (Len(events) + 1)..Len(events') \subseteq 1..Len(events')
  BY <1>3, <1>4, Counted
<1>11. Fits(j, Len(events'))
  BY <1>4, <1>5, <1>6, <1>9, <1>10 DEF Fits
<1>12. /\ job' \in [Thread -> Job] /\ \A u \in Thread : Fits(job'[u], Len(events'))
       /\ \A u \in Thread : job'[u] = IF u = t THEN j ELSE job[u]
  BY <1>8, <1>9, <1>10, <1>11, JobStep
<1>13. /\ lastPolled' \in [Source -> {Never} \cup 0..MaxClock]
       /\ polledBy' \in [Source -> Thread]
  BY <1>2 DEF Typed
<1>14. recent \cup IdsIn(buffer) \subseteq 1..Len(events')
  BY <1>10 DEF Typed
<1>15. Typed'
  BY <1>2, <1>4, <1>12, <1>13, <1>14 DEF Typed
<1> QED
  BY <1>2, <1>9, <1>12, <1>15 DEF due

(* The foreground: a batch of new events, and events that wait.            *)
LEMMA IngestTyped ==
  ASSUME Typed, Ingest
  PROVE  Typed' /\ Calm
<1>1. PICK more \in Batches : NormalizedTo(more) /\ Enters(Main, NewIds(more))
  BY DEF Ingest
<1>2. UNCHANGED <<clock, running, recent, seen, buffer, scheduleVars, pruned>>
  BY DEF Ingest
<1>3. more \in Seq(Report) /\ more # <<>> /\ Len(more) \in Nat
  BY BatchIsSeq, LenProperties
<1>4. /\ events' \in Seq(Event) /\ Len(events') = Len(events) + Len(more)
      /\ outcome' \in Seq(Fate) /\ Len(outcome') = Len(events')
      /\ NewIds(more) \in Seq(Nat) /\ NewIds(more) # <<>>
      /\ IdsIn(NewIds(more)) = (Len(events) + 1)..Len(events')
  BY <1>1, <1>3, Normalized
<1>5. /\ Len(events) \in Nat /\ Len(events') \in Nat /\ Len(events) <= Len(events')
      /\ 1..Len(events) \subseteq 1..Len(events')
      /\ (Len(events) + 1)..Len(events') \subseteq 1..Len(events')
      /\ Main \in Thread
  BY <1>3, <1>4, Counted
<1>6. /\ job' \in [Thread -> Job] /\ \A u \in Thread : Fits(job'[u], Len(events'))
      /\ \A u \in Thread : u # Main => job'[u] = job[u]
      /\ job'[Main].due = {} /\ overlapped' = (overlapped \/ ~Alone(Main))
  BY <1>1, <1>4, <1>5, EnterStep
<1>7. overlapped' \in BOOLEAN
  BY <1>6 DEF Typed, Alone
<1>8. recent \cup IdsIn(buffer) \subseteq 1..Len(events')
  BY <1>5 DEF Typed
<1>9. Typed'
  BY <1>2, <1>4, <1>6, <1>7, <1>8 DEF Typed
<1>10. \A u \in Thread : job'[u].due \subseteq job[u].due
  BY <1>6
<1> QED
  BY <1>2, <1>9, <1>10 DEF Calm

(* What waits in the buffer, or goes to the detector with all of it.       *)
LEMMA BuffersTyped ==
  ASSUME Typed, NEW ids \in Seq(Nat), ids # <<>>, Buffers(ids),
         events' \in Seq(Event), Len(events') \in Nat, Len(events) <= Len(events'),
         outcome' \in Seq(Fate), Len(outcome') = Len(events'), IdsIn(ids) \subseteq 1..Len(events'),
         UNCHANGED <<clock, running, recent, seen, scheduleVars, pruned>>
  PROVE  Typed' /\ Calm
<1> DEFINE longer == buffer \o ids
<1>1. Len(events) \in Nat /\ 1..Len(events) \subseteq 1..Len(events') /\ Main \in Thread
  BY Counted
<1>2. /\ longer \in Seq(Nat) /\ longer # <<>>
      /\ IdsIn(longer) = IdsIn(buffer) \cup IdsIn(ids)
  BY IdsOfConcat DEF Typed
<1>3. IdsIn(longer) \subseteq 1..Len(events')
  BY <1>1, <1>2 DEF Typed
<1>4. \/ buffer' = <<>> /\ Enters(Main, longer)
      \/ buffer' = longer /\ UNCHANGED <<job, overlapped>>
  BY DEF Buffers
<1> HIDE DEF longer
<1>5. recent \subseteq 1..Len(events')
  BY <1>1 DEF Typed
<1>6. CASE buffer' = <<>> /\ Enters(Main, longer)
  <2>1. /\ job' \in [Thread -> Job] /\ \A u \in Thread : Fits(job'[u], Len(events'))
        /\ \A u \in Thread : u # Main => job'[u] = job[u]
        /\ job'[Main].due = {} /\ overlapped' = (overlapped \/ ~Alone(Main))
    BY <1>1, <1>2, <1>3, <1>6, EnterStep
  <2>2. overlapped' \in BOOLEAN
    BY <2>1 DEF Typed, Alone
  <2>3. buffer' \in Seq(Nat) /\ IdsIn(buffer') = {}
    BY <1>6, EmptySeq, IdleIsJob
  <2>4. Typed'
    BY <1>5, <2>1, <2>2, <2>3 DEF Typed
  <2>5. \A u \in Thread : job'[u].due \subseteq job[u].due
    BY <2>1
  <2> QED
    BY <2>4, <2>5 DEF Calm
<1>7. CASE buffer' = longer /\ UNCHANGED <<job, overlapped>>
  <2>1. \A u \in Thread : Fits(job[u], Len(events'))
    BY <1>1, FitsMore DEF Typed
  <2>2. Typed'
    BY <1>2, <1>3, <1>5, <1>7, <2>1 DEF Typed
  <2> QED
    BY <1>7, <2>2 DEF Calm
<1> QED
  BY <1>4, <1>6, <1>7

(* A new event, or one that was here before.                               *)
LEMMA Buffered ==
  ASSUME Typed, BufferEvent
  PROVE  \E ids \in Seq(Nat) :
           /\ ids # <<>> /\ Buffers(ids)
           /\ \/ \E more \in Seq(Report) : NormalizedTo(more) /\ ids = NewIds(more) /\ more # <<>>
              \/ /\ UNCHANGED <<events, outcome>>
                 /\ IdsIn(ids) \subseteq {e \in 1..Len(events) : ~InBatch(e)}
<1>1. CASE \E more \in [1..1 -> Report] : NormalizedTo(more) /\ Buffers(NewIds(more))
  <2>1. PICK more \in [1..1 -> Report] : NormalizedTo(more) /\ Buffers(NewIds(more))
    BY <1>1
  <2>2. more \in Seq(Report) /\ more # <<>>
    BY BatchIsSeq
  <2>3. NewIds(more) \in Seq(Nat) /\ NewIds(more) # <<>>
    BY <2>1, <2>2, Normalized
  <2> QED
    BY <2>1, <2>2, <2>3
<1>2. ASSUME NEW e \in DOMAIN events, ~InBatch(e), Buffers(<<e>>), UNCHANGED <<events, outcome>>
      PROVE  \E ids \in Seq(Nat) :
               /\ ids # <<>> /\ Buffers(ids) /\ UNCHANGED <<events, outcome>>
               /\ IdsIn(ids) \subseteq {f \in 1..Len(events) : ~InBatch(f)}
  <2>1. e \in 1..Len(events) /\ e \in Nat
    BY Counted
  <2>2. <<e>> \in Seq(Nat) /\ <<e>> # <<>> /\ IdsIn(<<e>>) = {e}
    BY <2>1, SeqDef DEF IdsIn
  <2> QED
    BY <1>2, <2>1, <2>2
<1> QED
  BY <1>1, <1>2 DEF BufferEvent

LEMMA BufferTyped ==
  ASSUME Typed, BufferEvent
  PROVE  Typed' /\ Calm
<1>1. PICK ids \in Seq(Nat) :
        /\ ids # <<>> /\ Buffers(ids)
        /\ \/ \E more \in Seq(Report) : NormalizedTo(more) /\ ids = NewIds(more) /\ more # <<>>
           \/ /\ UNCHANGED <<events, outcome>>
              /\ IdsIn(ids) \subseteq {e \in 1..Len(events) : ~InBatch(e)}
  BY Buffered
<1>2. UNCHANGED <<clock, running, recent, seen, scheduleVars, pruned>>
  BY DEF BufferEvent
<1>3. /\ events' \in Seq(Event) /\ Len(events') \in Nat /\ Len(events) <= Len(events')
      /\ outcome' \in Seq(Fate) /\ Len(outcome') = Len(events') /\ IdsIn(ids) \subseteq 1..Len(events')
  <2>1. ASSUME NEW more \in Seq(Report), NormalizedTo(more), ids = NewIds(more)
        PROVE  /\ events' \in Seq(Event) /\ Len(events') \in Nat /\ Len(events) <= Len(events')
               /\ outcome' \in Seq(Fate) /\ Len(outcome') = Len(events')
               /\ IdsIn(ids) \subseteq 1..Len(events')
    <3>1. /\ events' \in Seq(Event) /\ Len(events') = Len(events) + Len(more)
          /\ outcome' \in Seq(Fate) /\ Len(outcome') = Len(events')
          /\ IdsIn(ids) = (Len(events) + 1)..Len(events')
      BY <2>1, Normalized
    <3> QED
      BY <3>1, Counted, LenProperties
  <2>2. CASE /\ UNCHANGED <<events, outcome>>
             /\ IdsIn(ids) \subseteq {e \in 1..Len(events) : ~InBatch(e)}
    BY <2>2, Counted DEF Typed
  <2> QED
    BY <1>1, <2>1, <2>2
<1> QED
  BY <1>1, <1>2, <1>3, BuffersTyped

LEMMA FlushTyped ==
  ASSUME Typed, FlushBuffer
  PROVE  Typed' /\ Calm
<1>1. /\ buffer # <<>> /\ buffer' = <<>> /\ Enters(Main, buffer)
      /\ UNCHANGED <<clock, running, events, recent, seen, scheduleVars, outcome, pruned>>
  BY DEF FlushBuffer
<1>2. /\ Len(events) \in Nat /\ Len(events) <= Len(events) /\ Main \in Thread
      /\ buffer \in Seq(Nat) /\ IdsIn(buffer) \subseteq 1..Len(events)
  BY Counted DEF Typed
<1>3. /\ job' \in [Thread -> Job] /\ \A u \in Thread : Fits(job'[u], Len(events))
      /\ \A u \in Thread : u # Main => job'[u] = job[u]
      /\ job'[Main].due = {} /\ overlapped' = (overlapped \/ ~Alone(Main))
  BY <1>1, <1>2, EnterStep
<1>4. overlapped' \in BOOLEAN
  BY <1>3 DEF Typed, Alone
<1>5. buffer' \in Seq(Nat) /\ IdsIn(buffer') = {}
  BY <1>1, EmptySeq, IdleIsJob
<1>6. Typed'
  BY <1>1, <1>3, <1>4, <1>5 DEF Typed
<1>7. \A u \in Thread : job'[u].due \subseteq job[u].due
  BY <1>3
<1> QED
  BY <1>1, <1>6, <1>7 DEF Calm

LEMMA PollAndIngestTyped ==
  ASSUME Typed, NEW s \in Source, PollAndIngest(s)
  PROVE  /\ Typed' /\ UNCHANGED <<clock, scheduleVars>>
         /\ \A u \in Thread : u # Main => job'[u] = job[u]
<1>1. /\ Goes(Main, [Idle EXCEPT !.pc = "poll", !.due = {s}])
      /\ UNCHANGED <<clock, running, events, recent, seen, buffer, scheduleVars, outcome, 
                     overlapped, pruned>>
  BY DEF PollAndIngest
<1> DEFINE j == [Idle EXCEPT !.pc = "poll", !.due = {s}]
<1>2. /\ j \in Job /\ j.todo = <<>> /\ j.unique = {} /\ j.pc = "poll"
  BY IdleIsJob DEF Job, Step
<1> HIDE DEF j
<1>3. Fits(j, Len(events))
  BY <1>2, IdleIsJob DEF Fits
<1>4. /\ job' \in [Thread -> Job] /\ \A u \in Thread : Fits(job'[u], Len(events))
      /\ \A u \in Thread : job'[u] = IF u = Main THEN j ELSE job[u]
  BY <1>1, <1>2, <1>3, Counted, JobStep DEF j
<1>5. Typed'
  BY <1>1, <1>4 DEF Typed
<1> QED
  BY <1>1, <1>4, <1>5

(* A batch begins or ends.                                                 *)
LEMMA BatchTyped ==
  ASSUME Typed, NEW t \in Thread, IngestPolled(t) \/ Feed(t) \/ BatchFails(t)
  PROVE  Typed' /\ Calm
<1>0. Len(events) \in Nat /\ Len(events) <= Len(events)
  BY Counted
<1>1. CASE IngestPolled(t)
  <2>1. /\ job[t].pc = "poll"
        /\ \/ Done(t) /\ UNCHANGED overlapped
           \/ job[t].todo # <<>> /\ Enters(t, job[t].todo)
        /\ UNCHANGED <<clock, running, events, recent, seen, buffer, scheduleVars, outcome,
                       pruned>>
    BY <1>1 DEF IngestPolled
  <2>2. CASE Done(t) /\ UNCHANGED overlapped
    <3>1. /\ job' \in [Thread -> Job] /\ \A u \in Thread : Fits(job'[u], Len(events))
          /\ \A u \in Thread : u # t => job'[u] = job[u]
          /\ job'[t].due = {}
      BY <2>1, <2>2, DoneStep
    <3>2. Typed'
      BY <2>1, <2>2, <3>1 DEF Typed
    <3>3. \A u \in Thread : job'[u].due \subseteq job[u].due
      BY <3>1
    <3> QED
      BY <2>1, <3>2, <3>3 DEF Calm
  <2>3. CASE job[t].todo # <<>> /\ Enters(t, job[t].todo)
    <3>1. job[t].todo \in Seq(Nat) /\ IdsIn(job[t].todo) \subseteq 1..Len(events)
      BY DEF Typed, Job, Fits
    <3>2. /\ job' \in [Thread -> Job] /\ \A u \in Thread : Fits(job'[u], Len(events))
          /\ \A u \in Thread : u # t => job'[u] = job[u]
          /\ job'[t].due = {} /\ overlapped' = (overlapped \/ ~Alone(t))
      BY <1>0, <2>1, <2>3, <3>1, EnterStep
    <3>3. overlapped' \in BOOLEAN
      BY <3>2 DEF Typed, Alone
    <3>4. Typed'
      BY <2>1, <3>2, <3>3 DEF Typed
    <3>5. \A u \in Thread : job'[u].due \subseteq job[u].due
      BY <3>2
    <3> QED
      BY <2>1, <3>4, <3>5 DEF Calm
  <2> QED
    BY <2>1, <2>2, <2>3
<1>2. CASE Feed(t) \/ BatchFails(t)
  <2>1. /\ Done(t)
        /\ UNCHANGED <<clock, running, events, recent, seen, buffer, scheduleVars, overlapped, pruned>>
    BY <1>2 DEF Feed, BatchFails
  <2>2. \A e \in DOMAIN outcome : outcome[e] \in Fate
    BY LenProperties DEF Typed
  <2>3. outcome' \in [DOMAIN outcome -> Fate]
    <3>1. CASE Feed(t)
      <4>1. outcome' = [e \in DOMAIN outcome |->
              CASE e \in job[t].unique /\ IsFresh(e) -> "fed"
                [] e \in job[t].unique /\ ~IsFresh(e) -> "stale"
                [] OTHER -> outcome[e]]
        BY <3>1 DEF Feed
      <4>2. \A e \in DOMAIN outcome :
              (CASE e \in job[t].unique /\ IsFresh(e) -> "fed"
                 [] e \in job[t].unique /\ ~IsFresh(e) -> "stale"
                 [] OTHER -> outcome[e]) \in Fate
        BY <2>2 DEF Fate
      <4> QED
        BY <4>1, <4>2
    <3>2. CASE BatchFails(t)
      BY <2>2, <3>2 DEF BatchFails, Fate
    <3> QED
      BY <1>2, <3>1, <3>2
  <2>4. outcome' \in Seq(Fate) /\ Len(outcome') = Len(events)
    BY <2>3, OutcomesTyped
  <2>5. /\ job' \in [Thread -> Job] /\ \A u \in Thread : Fits(job'[u], Len(events))
        /\ \A u \in Thread : u # t => job'[u] = job[u]
        /\ job'[t].due = {}
    BY <2>1, DoneStep
  <2>7. Typed'
    BY <2>1, <2>4, <2>5 DEF Typed
  <2>8. \A u \in Thread : job'[u].due \subseteq job[u].due
    BY <2>5
  <2> QED
    BY <2>1, <2>7, <2>8 DEF Calm
<1> QED
  BY <1>1, <1>2

(* The raw ids of an event change; its report does not.                      *)
LEMMA RawsReplaced ==
  ASSUME Typed, NEW f \in 1..Len(events), NEW raws \in SUBSET Nat,
         events' = [events EXCEPT ![f].raws = raws]
  PROVE  /\ events' \in Seq(Event) /\ Len(events') = Len(events)
         /\ \A e \in 1..Len(events) : events'[e].report = events[e].report
<1> DEFINE event == [events[f] EXCEPT !.raws = raws]
<1>1. events \in Seq(Event) /\ \A e \in 1..Len(events) : events[e] \in Event
  BY ElementOfSeq DEF Typed
<1>2. event \in Event /\ event.report = events[f].report
  BY <1>1 DEF Event
<1>3. events' = [events EXCEPT ![f] = event]
  OBVIOUS
<1> HIDE DEF event
<1>4. /\ [events EXCEPT ![f] = event] \in Seq(Event)
      /\ Len([events EXCEPT ![f] = event]) = Len(events)
      /\ \A e \in 1..Len(events) :
           [events EXCEPT ![f] = event][e] = IF e = f THEN event ELSE events[e]
  BY <1>1, <1>2, ExceptSeq
<1> QED
  BY <1>2, <1>3, <1>4

(* What an event says of the report it was made of.                        *)
LEMMA Told ==
  ASSUME Typed, NEW e \in 1..Len(events)
  PROVE  /\ events[e].report \in Report /\ TextOf(e) \in Text /\ events[e].raws \subseteq Nat
         /\ outcome[e] \in Fate /\ e \in Nat
<1>1. events[e] \in Event /\ outcome[e] \in Fate
  BY ElementOfSeq DEF Typed
<1>2. events[e].report \in Report /\ events[e].raws \subseteq Nat
  BY <1>1 DEF Event
<1>3. TextOf(e) \in Text
  BY <1>2 DEF TextOf, Text
<1> QED
  BY <1>1, <1>2, <1>3

(* Event by event: what a thread has at hand.                              *)
LEMMA AtHand ==
  ASSUME Typed, NEW t \in Thread, job[t].pc \in {"find", "keep", "merge"}
  PROVE  LET e == Head(job[t].todo)
         IN /\ e \in IdsIn(job[t].todo) /\ e \in 1..Len(events) /\ e \in Nat
            /\ TextOf(e) \in Text /\ events[e].raws \subseteq Nat
            /\ job[t] \in Job /\ Fits(job[t], Len(events))
            /\ job[t].todo \in Seq(Nat) /\ job[t].todo # <<>>
<1> DEFINE e == Head(job[t].todo)
<1>1. /\ job[t] \in Job /\ Fits(job[t], Len(events))
      /\ job[t].todo \in Seq(Nat) /\ job[t].todo # <<>>
  BY DEF Typed, Job, Fits
<1>2. e \in IdsIn(job[t].todo)
  BY <1>1, IdsOf
<1>3. e \in 1..Len(events)
  BY <1>1, <1>2 DEF Fits
<1> HIDE DEF e
<1> QED
  BY <1>1, <1>2, <1>3, Told DEF e

LEMMA FindTyped ==
  ASSUME Typed, NEW t \in Thread, FindDuplicate(t)
  PROVE  Typed' /\ Calm
<1> DEFINE found == Matches(Head(job[t].todo))
<1>1. /\ job[t].pc = "find"
      /\ \/ found = {} /\ Goes(t, [job[t] EXCEPT !.pc = "keep"])
         \/ \E f \in found : Goes(t, [job[t] EXCEPT !.pc = "merge", !.match = f])
  BY DEF FindDuplicate
<1>0. UNCHANGED <<clock, running, events, recent, seen, buffer, scheduleVars, outcome,
                  overlapped, pruned>>
  BY DEF FindDuplicate
<1>2. found \subseteq recent /\ recent \subseteq 1..Len(events)
  BY DEF Matches, AnySimilar, Typed
<1>3. /\ job[t] \in Job /\ Fits(job[t], Len(events)) /\ job[t].todo # <<>>
  BY <1>1, AtHand
<1> HIDE DEF found
<1>4. PICK k \in Job :
        /\ Goes(t, k) /\ k.due = job[t].due /\ k.todo = job[t].todo
        /\ k.unique = job[t].unique
        /\ k.pc = "keep" \/ (k.pc = "merge" /\ k.match \in 1..Len(events))
  <2>1. CASE Goes(t, [job[t] EXCEPT !.pc = "keep"])
    <3> DEFINE k == [job[t] EXCEPT !.pc = "keep"]
    <3>1. k \in Job /\ k.due = job[t].due /\ k.todo = job[t].todo
          /\ k.unique = job[t].unique /\ k.pc = "keep"
      BY <1>3 DEF Job, Step
    <3> QED
      BY <2>1, <3>1
  <2>2. ASSUME NEW f \in found, Goes(t, [job[t] EXCEPT !.pc = "merge", !.match = f])
        PROVE  \E k \in Job :
                 /\ Goes(t, k) /\ k.due = job[t].due /\ k.todo = job[t].todo
                 /\ k.unique = job[t].unique
                 /\ k.pc = "keep" \/ (k.pc = "merge" /\ k.match \in 1..Len(events))
    <3> DEFINE k == [job[t] EXCEPT !.pc = "merge", !.match = f]
    <3>0. f \in Nat /\ f \in 1..Len(events)
      BY <1>2, Counted
    <3>1. k \in Job /\ k.due = job[t].due /\ k.todo = job[t].todo
          /\ k.unique = job[t].unique /\ k.pc = "merge"
          /\ k.match = f
      BY <1>3, <3>0 DEF Job, Step
    <3> QED
      BY <2>2, <3>0, <3>1
  <2> QED
    BY <1>1, <2>1, <2>2
<1>5. Fits(k, Len(events))
  BY <1>3, <1>4 DEF Fits
<1>6. /\ job' \in [Thread -> Job] /\ \A u \in Thread : Fits(job'[u], Len(events))
      /\ \A u \in Thread : job'[u] = IF u = t THEN k ELSE job[u]
  <2>1. events' = events /\ Len(events) \in Nat /\ Len(events) <= Len(events)
    BY <1>0, Counted
  <2>2. Goes(t, k)
    BY <1>4
  <2>3. Len(events') \in Nat /\ Len(events) <= Len(events') /\ Fits(k, Len(events'))
    BY <1>5, <2>1
  <2> QED
    BY <2>1, <2>2, <2>3, JobStep
<1>7. Typed'
  BY <1>0, <1>6 DEF Typed
<1>8. \A u \in Thread : job'[u].due \subseteq job[u].due
  BY <1>4, <1>6
<1> QED
  BY <1>0, <1>7, <1>8 DEF Calm

LEMMA OneFate ==
  ASSUME Typed, NEW e \in 1..Len(events), NEW fate \in Fate,
         outcome' = [outcome EXCEPT ![e] = fate]
  PROVE  /\ outcome' \in Seq(Fate) /\ Len(outcome') = Len(events)
         /\ \A f \in 1..Len(events) : outcome'[f] = IF f = e THEN fate ELSE outcome[f]
<1>1. outcome \in Seq(Fate) /\ e \in 1..Len(outcome) /\ Len(outcome) = Len(events)
  BY DEF Typed
<1> QED
  BY <1>1, ExceptSeq

LEMMA KeepTyped ==
  ASSUME Typed, NEW t \in Thread, KeepEvent(t)
  PROVE  Typed' /\ Calm
<1> DEFINE e == Head(job[t].todo)
           unique == job[t].unique \cup {e}
           j == [job[t] EXCEPT !.unique = unique]
<1>1. /\ job[t].pc = "keep" /\ seen' = seen \cup {TextOf(e)}
      /\ AfterEvent(t, recent \cup {e}, j)
      /\ outcome' = [outcome EXCEPT ![e] = "open"]
      /\ UNCHANGED <<clock, running, events, buffer, scheduleVars, overlapped>>
  BY DEF KeepEvent
<1>2. /\ e \in 1..Len(events) /\ e \in Nat /\ TextOf(e) \in Text
      /\ job[t] \in Job /\ Fits(job[t], Len(events)) /\ job[t].todo # <<>>
  BY <1>1, AtHand
<1> HIDE DEF e
<1>3. /\ j \in Job /\ j.due = job[t].due /\ j.todo = job[t].todo
      /\ j.pc = "keep" /\ j.unique = unique
  BY <1>1, <1>2 DEF Job
<1>4. unique \subseteq 1..Len(events)
  BY <1>2 DEF Fits
<1> HIDE DEF j, unique
<1>5. Fits(j, Len(events))
  BY <1>2, <1>3, <1>4 DEF Fits
<1>6. /\ job' \in [Thread -> Job] /\ \A u \in Thread : Fits(job'[u], Len(events))
      /\ \A u \in Thread : u # t => job'[u] = job[u]
      /\ job'[t].due = j.due
      /\ recent' \subseteq recent \cup {e} /\ pruned' \in {pruned, TRUE}
  BY <1>1, <1>2, <1>3, <1>5, AfterJob
<1>7. seen' \subseteq Text /\ pruned' \in BOOLEAN /\ recent' \subseteq 1..Len(events)
  BY <1>1, <1>2, <1>6 DEF Typed
<1>10. outcome' \in Seq(Fate) /\ Len(outcome') = Len(events)
  BY <1>1, <1>2, OneFate DEF Fate
<1>8. Typed'
  BY <1>1, <1>6, <1>7, <1>10 DEF Typed
<1>9. \A u \in Thread : job'[u].due \subseteq job[u].due
  BY <1>3, <1>6
<1> QED
  BY <1>1, <1>8, <1>9 DEF Calm

LEMMA ExtendTyped ==
  ASSUME Typed, NEW t \in Thread, ExtendRaws(t)
  PROVE  Typed' /\ Calm /\ \A e \in 1..Len(events) : events'[e].report = events[e].report
<1> DEFINE e == Head(job[t].todo)
           longer == events[job[t].match].raws \cup events[e].raws
           j == [job[t] EXCEPT !.copy = longer]
<1>1. /\ job[t].pc = "merge" /\ events' = [events EXCEPT ![job[t].match].raws = longer]
      /\ Goes(t, j) /\ outcome' = Merged(e, job[t].match)
      /\ UNCHANGED <<clock, running, recent, seen, buffer, scheduleVars, overlapped, pruned>>
  BY DEF ExtendRaws
<1>2. /\ e \in 1..Len(events) /\ events[e].raws \subseteq Nat
      /\ job[t] \in Job /\ Fits(job[t], Len(events)) /\ job[t].todo # <<>>
  BY <1>1, AtHand
<1>3. job[t].match \in 1..Len(events)
  BY <1>1, <1>2 DEF Fits
<1>4. events[job[t].match].raws \subseteq Nat
  <2>1. events[job[t].match] \in Event
    BY <1>3, ElementOfSeq DEF Typed
  <2> QED
    BY <2>1 DEF Event
<1>5. longer \in SUBSET Nat
  BY <1>2, <1>4
<1> HIDE DEF e, longer
<1>6. /\ j \in Job /\ j.due = job[t].due /\ j.todo = job[t].todo
      /\ j.pc = "merge" /\ j.unique = job[t].unique /\ j.match = job[t].match
  BY <1>1, <1>2, <1>5 DEF Job
<1> HIDE DEF j
<1>7. Fits(j, Len(events))
  BY <1>2, <1>3, <1>6 DEF Fits
<1>8. /\ events' \in Seq(Event) /\ Len(events') = Len(events)
      /\ \A f \in 1..Len(events) : events'[f].report = events[f].report
  BY <1>1, <1>3, <1>5, RawsReplaced
<1>9. outcome' \in Seq(Fate) /\ Len(outcome') = Len(events)
  BY <1>1, <1>2, OneFate DEF Merged, Typed, Fate
<1>10. /\ job' \in [Thread -> Job] /\ \A u \in Thread : Fits(job'[u], Len(events'))
       /\ \A u \in Thread : job'[u] = IF u = t THEN j ELSE job[u]
  BY <1>1, <1>6, <1>7, <1>8, Counted, JobStep
<1>11. Typed'
  BY <1>1, <1>8, <1>9, <1>10 DEF Typed
<1>12. \A u \in Thread : job'[u].due \subseteq job[u].due
  BY <1>6, <1>10
<1> QED
  BY <1>1, <1>8, <1>11, <1>12 DEF Calm

LEMMA ReplaceTyped ==
  ASSUME Typed, NEW t \in Thread, ReplaceRaws(t)
  PROVE  Typed' /\ Calm /\ \A e \in 1..Len(events) : events'[e].report = events[e].report
<1> DEFINE j == job[t]
<1>1. /\ j.pc = "merge" /\ events' = [events EXCEPT ![j.match].raws = j.copy]
      /\ AfterEvent(t, recent, j)
      /\ UNCHANGED <<clock, running, seen, buffer, scheduleVars, outcome, overlapped>>
  BY DEF ReplaceRaws
<1>2. j \in Job /\ Fits(j, Len(events)) /\ j.todo # <<>> /\ j.copy \in SUBSET Nat
  BY <1>1, AtHand DEF Job
<1>3. j.match \in 1..Len(events)
  BY <1>1, <1>2 DEF Fits
<1> HIDE DEF j
<1>4. /\ events' \in Seq(Event) /\ Len(events') = Len(events)
      /\ \A f \in 1..Len(events) : events'[f].report = events[f].report
  BY <1>1, <1>2, <1>3, RawsReplaced
<1>5. /\ job' \in [Thread -> Job] /\ \A u \in Thread : Fits(job'[u], Len(events'))
      /\ \A u \in Thread : u # t => job'[u] = job[u]
      /\ job'[t].due = j.due /\ recent' \subseteq recent /\ pruned' \in {pruned, TRUE}
  <2>1. AfterEvent(t, recent, j) /\ j.pc # "poll"
    BY <1>1
  <2>2. Len(events') = Len(events)
    BY <1>4
  <2> QED
    BY <1>2, <2>1, <2>2, AfterJob
<1>6. pruned' \in BOOLEAN
  BY <1>5 DEF Typed
<1>7. Typed'
  BY <1>1, <1>4, <1>5, <1>6 DEF Typed
<1>8. \A u \in Thread : job'[u].due \subseteq job[u].due
  BY <1>5 DEF j
<1> QED
  BY <1>1, <1>4, <1>7, <1>8 DEF Calm
-----------------------------------------------------------------------------
(* Every step is calm, or a loop's look at the schedule, a poll or the     *)
(* foreground's choice of a source.                                        *)

LoopLooks ==
  /\ UNCHANGED <<clock, scheduleVars>>
  /\ \E t \in Loop : \A u \in Thread :
       job'[u].due \subseteq job[u].due \/ (u = t /\ job'[u].due = Due)

Polls ==
  /\ clock' = clock
  /\ \E t \in Thread, s \in Source :
       /\ lastPolled' = [lastPolled EXCEPT ![s] = clock]
       /\ polledBy' = [polledBy EXCEPT ![s] = t]
       /\ \A u \in Thread : job'[u].due = IF u = t THEN job[u].due \ {s} ELSE job[u].due

MainPolls ==
  /\ UNCHANGED <<clock, scheduleVars>>
  /\ \A u \in Thread : u # Main => job'[u] = job[u]

LEMMA TypedStep ==
  ASSUME Typed, [LiveNext]_liveVars
  PROVE  Typed' /\ (Calm \/ LoopLooks \/ Polls \/ MainPolls)
<1>1. CASE Tick \/ StopContinuous \/ Reset \/ UNCHANGED liveVars
  BY <1>1, QuietTyped
<1>2. CASE StartContinuous
  BY <1>2, StartTyped
<1>3. ASSUME NEW t \in Loop, LoopTop(t)
      PROVE  Typed' /\ LoopLooks
  BY <1>3, LoopTopTyped DEF LoopLooks
<1>4. CASE Ingest
  BY <1>4, IngestTyped
<1>5. CASE BufferEvent
  BY <1>5, BufferTyped
<1>6. CASE FlushBuffer
  BY <1>6, FlushTyped
<1>7. ASSUME NEW s \in Source, PollAndIngest(s)
      PROVE  Typed' /\ MainPolls
  BY <1>7, PollAndIngestTyped DEF MainPolls
<1>8. ASSUME NEW t \in Thread, Works(t)
      PROVE  Typed' /\ (Calm \/ Polls)
  <2>1. ASSUME NEW s \in Source, Poll(t, s)
        PROVE  Typed' /\ Polls
    <3>1. /\ Typed' /\ clock' = clock
          /\ lastPolled' = [lastPolled EXCEPT ![s] = clock]
          /\ polledBy' = [polledBy EXCEPT ![s] = t]
          /\ \A u \in Thread : job'[u].due = IF u = t THEN job[u].due \ {s} ELSE job[u].due
      BY <2>1, PollTyped
    <3> QED
      BY <3>1 DEF Polls
  <2>2. CASE IngestPolled(t) \/ Feed(t) \/ BatchFails(t)
    BY <2>2, BatchTyped
  <2>3. CASE FindDuplicate(t)
    BY <2>3, FindTyped
  <2>4. CASE KeepEvent(t)
    BY <2>4, KeepTyped
  <2>5. CASE ExtendRaws(t)
    BY <2>5, ExtendTyped
  <2>6. CASE ReplaceRaws(t)
    BY <2>6, ReplaceTyped
  <2> QED
    BY <1>8, <2>1, <2>2, <2>3, <2>4, <2>5, <2>6 DEF Works
<1> QED
  BY <1>1, <1>2, <1>3, <1>4, <1>5, <1>6, <1>7, <1>8 DEF LiveNext

(* Whatever the threads do to each other in the pipeline, every variable   *)
(* keeps its type: a job never refers to an event that does not exist.     *)
THEOREM LiveTypeOKAlways == LiveSpec => []LiveTypeOK
<1>1. LiveInit => Typed
  BY InitTyped
<1>2. Typed /\ [LiveNext]_liveVars => Typed'
  BY TypedStep
<1>3. Typed => LiveTypeOK
  <2> SUFFICES ASSUME Typed PROVE LiveTypeOK
    OBVIOUS
  <2>1. DOMAIN events = 1..Len(events) /\ DOMAIN outcome = 1..Len(events)
    BY Counted
  <2>2. \A t \in Thread : job[t].pc \in Step
                            /\ IdsIn(job[t].todo) \cup job[t].unique \subseteq DOMAIN events
    BY <2>1 DEF Typed, Job, Fits
  <2>3. outcome \in [DOMAIN events -> Fate]
    BY <2>1, LenProperties, ElementOfSeq DEF Typed
  <2>4. recent \cup IdsIn(buffer) \subseteq DOMAIN events
    BY <2>1 DEF Typed
  <2> QED
    BY <2>2, <2>3, <2>4 DEF Typed, LiveTypeOK, Fate
<1> QED
  BY <1>1, <1>2, <1>3, PTL DEF LiveSpec

-----------------------------------------------------------------------------
(* The intervals between polls *)

(* What a loop has found due and has itself polled last stays due.         *)
Spaced ==
  /\ \A s \in Source : lastPolled[s] = Never => polledBy[s] = Main
  /\ \A t \in Loop : \A s \in job[t].due :
       polledBy[s] = t => clock - lastPolled[s] >= Interval

LEMMA SpacedStep ==
  ASSUME Typed, Spaced, [LiveNext]_liveVars
  PROVE  Spaced'
<1>0. /\ Typed' /\ (Calm \/ LoopLooks \/ Polls \/ MainPolls)
      /\ Interval \in Nat /\ MaxClock \in Nat /\ Main \notin Loop /\ Loop \subseteq Thread
  BY TypedStep, Counted, Bounds
<1>1. /\ clock \in 0..MaxClock /\ lastPolled \in [Source -> {Never} \cup 0..MaxClock]
      /\ polledBy \in [Source -> Thread]
      /\ \A t \in Thread : job[t].due \subseteq Source
  BY DEF Typed, Job
<1>2. \A s \in Source : lastPolled[s] \in Int
  BY <1>0, <1>1 DEF Never
<1>3. CASE Calm
  <2>1. \A s \in Source : lastPolled'[s] = lastPolled[s] /\ polledBy'[s] = polledBy[s]
    BY <1>3 DEF Calm
  <2>2. clock' \in {clock, clock + 1} /\ \A t \in Thread : job'[t].due \subseteq job[t].due
    BY <1>3 DEF Calm
  <2>3. ASSUME NEW t \in Loop, NEW s \in job'[t].due, polledBy'[s] = t
        PROVE  clock' - lastPolled'[s] >= Interval
    <3>1. s \in job[t].due /\ s \in Source /\ polledBy[s] = t
      BY <1>0, <1>1, <2>1, <2>2, <2>3
    <3>2. clock - lastPolled[s] >= Interval
      BY <3>1 DEF Spaced
    <3> QED
      BY <1>0, <1>1, <1>2, <2>1, <2>2, <3>1, <3>2
  <2> QED
    BY <2>1, <2>3 DEF Spaced
<1>4. CASE LoopLooks
  <2>1. PICK l \in Loop : \A u \in Thread :
          job'[u].due \subseteq job[u].due \/ (u = l /\ job'[u].due = Due)
    BY <1>4 DEF LoopLooks
  <2>2. clock' = clock /\ lastPolled' = lastPolled /\ polledBy' = polledBy
    BY <1>4 DEF LoopLooks
  <2>3. ASSUME NEW t \in Loop, NEW s \in job'[t].due, polledBy'[s] = t
        PROVE  clock' - lastPolled'[s] >= Interval
    <3>1. CASE job'[t].due \subseteq job[t].due
      BY <2>2, <2>3, <3>1 DEF Spaced
    <3>2. CASE job'[t].due = Due
      <4>1. s \in Source /\ IsDue(s)
        BY <2>3, <3>2 DEF Due
      <4>2. lastPolled[s] # Never
        BY <1>0, <2>2, <2>3, <4>1 DEF Spaced
      <4> QED
        BY <2>2, <4>1, <4>2 DEF IsDue
    <3> QED
      BY <1>0, <2>1, <3>1, <3>2
  <2> QED
    BY <2>2, <2>3 DEF Spaced
<1>5. CASE Polls
  <2>1. PICK l \in Thread, p \in Source :
          /\ lastPolled' = [lastPolled EXCEPT ![p] = clock]
          /\ polledBy' = [polledBy EXCEPT ![p] = l]
          /\ \A u \in Thread : job'[u].due = IF u = l THEN job[u].due \ {p} ELSE job[u].due
    BY <1>5 DEF Polls
  <2>2. clock' = clock /\ clock # Never
    BY <1>1, <1>5 DEF Polls, Never
  <2>3. \A s \in Source : /\ s = p => lastPolled'[s] = clock /\ polledBy'[s] = l
                          /\ s # p => lastPolled'[s] = lastPolled[s] /\ polledBy'[s] = polledBy[s]
    BY <1>1, <2>1
  <2>4. ASSUME NEW t \in Loop, NEW s \in job'[t].due, polledBy'[s] = t
        PROVE  clock' - lastPolled'[s] >= Interval
    <3>1. s \in job[t].due /\ s \in Source /\ s # p
      <4>1. s \in job[t].due /\ (t = l => s # p)
        BY <1>0, <2>1, <2>4
      <4> QED
        BY <1>0, <1>1, <2>3, <2>4, <4>1
    <3> QED
      BY <2>2, <2>3, <2>4, <3>1 DEF Spaced
  <2>5. ASSUME NEW s \in Source, lastPolled'[s] = Never PROVE polledBy'[s] = Main
    BY <2>2, <2>3, <2>5 DEF Spaced
  <2> QED
    BY <2>4, <2>5 DEF Spaced
<1>6. CASE MainPolls
  <2>1. /\ clock' = clock /\ lastPolled' = lastPolled /\ polledBy' = polledBy
        /\ \A t \in Loop : job'[t] = job[t]
    BY <1>0, <1>6 DEF MainPolls
  <2> QED
    BY <2>1 DEF Spaced
<1> QED
  BY <1>0, <1>3, <1>4, <1>5, <1>6

(* Between its check and its polls a loop runs whole batches, and other    *)
(* threads poll: still two polls in a row of one loop are an interval      *)
(* apart.                                                                  *)
THEOREM PollsSpacedAlways == LiveSpec => PollsSpaced
<1>1. LiveInit => Typed /\ Spaced
  <2> SUFFICES ASSUME LiveInit PROVE Typed /\ Spaced
    OBVIOUS
  <2>1. Typed /\ Main \notin Loop
    BY InitTyped, Bounds
  <2>2. \A s \in Source : polledBy[s] = Main
    BY DEF LiveInit
  <2>3. \A t \in Loop : job[t].due \subseteq Source
    BY <2>1, Counted DEF Typed, Job
  <2> QED
    BY <2>1, <2>2, <2>3 DEF Spaced
<1>2. Typed /\ Spaced /\ [LiveNext]_liveVars => (Typed /\ Spaced)'
  BY TypedStep, SpacedStep
<1>3. Spaced => \A t \in Loop, s \in Source :
        s \in job[t].due \ job'[t].due /\ polledBy[s] = t => clock - lastPolled[s] >= Interval
  BY DEF Spaced
<1> QED
  BY <1>1, <1>2, <1>3, PTL DEF LiveSpec, PollsSpaced
-----------------------------------------------------------------------------
(* The detector: one thread at a time, and no two reports of a story       *)

Solo == overlapped \/ \A t, u \in Thread : InPipeline(t) /\ InPipeline(u) => t = u

(* The detector would take e for f; it has the text of e a second time.    *)
Alike(e, f) == <<events[e].report, events[f].report>> \in Similar

Twice(e) == \E h \in recent : e # h /\ TextOf(e) = TextOf(h)

(* Without overlap and pruning a text seen is in the buffer, and an event  *)
(* about to be kept has been compared with the buffer as it is now.        *)
Compared ==
  \/ overlapped \/ pruned
  \/ /\ seen \subseteq {TextOf(e) : e \in recent}
     /\ \A e, f \in recent : e # f /\ Alike(e, f) /\ Alike(f, e) => Twice(e) \/ Twice(f)
     /\ \A t \in Thread, e \in Nat :
          job[t].pc = "keep" /\ e = Head(job[t].todo) => Matches(e) = {}

(* One thread moves; it enters the pipeline only with a look around.       *)
Moves(t) ==
  /\ \A u \in Thread : u # t => job'[u] = job[u]
  /\ \/ overlapped' = overlapped /\ (InPipeline(t)' => InPipeline(t))
     \/ overlapped' = (overlapped \/ ~Alone(t))

SameReports == \A e \in 1..Len(events) : events'[e].report = events[e].report

(* A move that leaves the detector alone.                                  *)
Steady(t) ==
  /\ Moves(t) /\ UNCHANGED <<recent, seen, pruned>> /\ SameReports
  /\ job'[t].pc # "keep" \/ job'[t] = job[t]

LEMMA SoloStep ==
  ASSUME Typed, Solo, NEW t \in Thread, Moves(t)
  PROVE  Solo'
<1>1. \A u \in Thread : u # t => job'[u] = job[u]
  BY DEF Moves
<1>2. CASE overlapped' = overlapped /\ (InPipeline(t)' => InPipeline(t))
  BY <1>1, <1>2 DEF Solo, InPipeline
<1>3. CASE overlapped' = (overlapped \/ ~Alone(t))
  BY <1>1, <1>3 DEF Solo, InPipeline, Alone
<1> QED
  BY <1>2, <1>3 DEF Moves

LEMMA OverlapStays ==
  ASSUME NEW t \in Thread, Moves(t), ~overlapped', Typed
  PROVE  ~overlapped
BY DEF Moves, Typed

LEMMA GoesTo ==
  ASSUME Typed, NEW t \in Thread, NEW j, Goes(t, j)
  PROVE  job'[t] = j /\ \A u \in Thread : u # t => job'[u] = job[u]
BY DEF Goes, Typed

LEMMA SteadyStep ==
  ASSUME Typed, Compared, NEW t \in Thread, Steady(t)
  PROVE  Compared'
<1> SUFFICES ASSUME ~overlapped', ~pruned' PROVE Compared'
  BY DEF Compared
<1>1. Moves(t) /\ recent' = recent /\ seen' = seen /\ pruned' = pruned /\ SameReports
  BY DEF Steady
<1>2. ~overlapped /\ ~pruned
  BY <1>1, OverlapStays
<1>3. recent \subseteq 1..Len(events)
  BY DEF Typed
<1>4. /\ \A e \in 1..Len(events) : TextOf(e)' = TextOf(e) /\ events'[e].report = events[e].report
  BY <1>1 DEF SameReports, TextOf
<1>5. seen' \subseteq {TextOf(e)' : e \in recent'}
  <2>1. ASSUME NEW x \in seen' PROVE \E e \in recent' : x = TextOf(e)'
    <3>1. PICK e \in recent : x = TextOf(e)
      BY <1>1, <1>2, <2>1 DEF Compared
    <3> QED
      BY <1>1, <1>3, <1>4, <3>1
  <2> QED
    BY <2>1
<1>6. ASSUME NEW e \in recent', NEW f \in recent', e # f, Alike(e, f)', Alike(f, e)'
      PROVE  Twice(e)' \/ Twice(f)'
  <2>1. Alike(e, f) /\ Alike(f, e) /\ e \in recent /\ f \in recent
    BY <1>1, <1>3, <1>4, <1>6 DEF Alike
  <2>2. \A g \in recent : Twice(g) => Twice(g)'
    BY <1>1, <1>3, <1>4 DEF Twice
  <2> QED
    BY <1>2, <1>6, <2>1, <2>2 DEF Compared
<1>7. ASSUME NEW u \in Thread, NEW e \in Nat, job'[u].pc = "keep", e = Head(job'[u].todo)
      PROVE  Matches(e)' = {}
  <2>1. job'[u] = job[u]
    <3>1. CASE u = t
      BY <1>7, <3>1 DEF Steady
    <3>2. CASE u # t
      BY <1>1, <3>2 DEF Moves
    <3> QED
      BY <3>1, <3>2
  <2>2. e \in 1..Len(events) /\ Matches(e) = {}
    BY <1>2, <1>7, <2>1, AtHand DEF Compared
  <2>4. AnySimilar(e)' = AnySimilar(e)
    <3>1. AnySimilar(e)' = {f \in recent : f # e /\ <<events'[e].report, events'[f].report>> \in Similar}
      BY <1>1 DEF AnySimilar
    <3> QED
      BY <1>3, <1>4, <2>2, <3>1 DEF AnySimilar
  <2>5. TextOf(e)' = TextOf(e)
    BY <1>4, <2>2
  <2>6. Matches(e)' = Matches(e)
    BY <1>1, <2>4, <2>5 DEF Matches
  <2> QED
    BY <2>2, <2>6
<1> QED
  BY <1>5, <1>6, <1>7 DEF Compared

(* Events are compared and kept one by one.                                *)
LEMMA FindMoves ==
  ASSUME Typed, NEW t \in Thread, FindDuplicate(t)
  PROVE  Moves(t) /\ (Compared => Compared')
<1> DEFINE found == Matches(Head(job[t].todo))
<1>1. /\ job[t].pc = "find"
      /\ \/ found = {} /\ Goes(t, [job[t] EXCEPT !.pc = "keep"])
         \/ \E f \in found : Goes(t, [job[t] EXCEPT !.pc = "merge", !.match = f])
  BY DEF FindDuplicate
<1>2. /\ events' = events /\ recent' = recent /\ seen' = seen
      /\ overlapped' = overlapped /\ pruned' = pruned
  BY DEF FindDuplicate
<1>3. job[t] \in Job
  BY DEF Typed
<1> HIDE DEF found
<1>4. /\ \A u \in Thread : u # t => job'[u] = job[u]
      /\ job'[t].pc # "keep" \/ (found = {} /\ job'[t].todo = job[t].todo)
  <2>1. CASE found = {} /\ Goes(t, [job[t] EXCEPT !.pc = "keep"])
    BY <1>3, <2>1, GoesTo DEF Job
  <2>2. ASSUME NEW f \in found, Goes(t, [job[t] EXCEPT !.pc = "merge", !.match = f])
        PROVE  /\ \A u \in Thread : u # t => job'[u] = job[u]
               /\ job'[t].pc # "keep"
    <3>1. job'[t] = [job[t] EXCEPT !.pc = "merge", !.match = f]
          /\ \A u \in Thread : u # t => job'[u] = job[u]
      BY <2>2, GoesTo
    <3> QED
      BY <1>3, <3>1 DEF Job
  <2> QED
    BY <1>1, <2>1, <2>2
<1>5. Moves(t)
  BY <1>1, <1>2, <1>4 DEF Moves, InPipeline
<1>6. \A e : Matches(e)' = Matches(e) /\ TextOf(e)' = TextOf(e)
  BY <1>2 DEF Matches, AnySimilar, TextOf
<1>7. ASSUME Compared PROVE Compared'
  <2> SUFFICES ASSUME ~overlapped, ~pruned PROVE Compared'
    BY <1>2 DEF Compared
  <2>1. ASSUME NEW u \in Thread, NEW e \in Nat, job'[u].pc = "keep", e = Head(job'[u].todo)
        PROVE  Matches(e) = {}
    BY <1>4, <1>7, <2>1 DEF Compared, found
  <2>2. \A u \in Thread, e \in Nat :
          job'[u].pc = "keep" /\ e = Head(job'[u].todo) => Matches(e)' = {}
    BY <1>6, <2>1
  <2>3. seen' \subseteq {TextOf(e)' : e \in recent'}
    BY <1>2, <1>6, <1>7 DEF Compared
  <2>4. \A e, f : /\ Alike(e, f)' = Alike(e, f)
                  /\ Twice(e)' = Twice(e)
    BY <1>2, <1>6 DEF Alike, Twice
  <2>5. \A e, f \in recent' : e # f /\ Alike(e, f)' /\ Alike(f, e)' => Twice(e)' \/ Twice(f)'
    BY <1>2, <1>7, <2>4 DEF Compared
  <2> QED
    BY <2>2, <2>3, <2>5 DEF Compared
<1> QED
  BY <1>5, <1>7

LEMMA KeepMoves ==
  ASSUME Typed, NEW t \in Thread, KeepEvent(t)
  PROVE  Moves(t) /\ (Solo /\ Compared => Compared')
<1> DEFINE e == Head(job[t].todo)
           j == [job[t] EXCEPT !.unique = @ \cup {e}]
<1>1. /\ job[t].pc = "keep" /\ seen' = seen \cup {TextOf(e)}
      /\ AfterEvent(t, recent \cup {e}, j)
      /\ events' = events /\ overlapped' = overlapped
  BY DEF KeepEvent
<1>2. /\ e \in IdsIn(job[t].todo) /\ e \in 1..Len(events) /\ e \in Nat /\ TextOf(e) \in Text
      /\ job[t] \in Job /\ Fits(job[t], Len(events)) /\ job[t].todo # <<>>
  BY <1>1, AtHand
<1> HIDE DEF e
<1>3. /\ j \in Job /\ j.due = job[t].due /\ j.todo = job[t].todo
      /\ j.pc = "keep" /\ j.unique = job[t].unique \cup {e}
  BY <1>1, <1>2 DEF Job
<1> HIDE DEF j
<1>4. Fits(j, Len(events))
  BY <1>2, <1>3 DEF Fits
<1>5. /\ \A u \in Thread : u # t => job'[u] = job[u]
      /\ job'[t].pc \in {"find", "feed"}
      /\ pruned' \in {pruned, TRUE} /\ (~pruned' => recent' = recent \cup {e})
  BY <1>1, <1>2, <1>3, <1>4, AfterJob
<1>6. Moves(t)
  BY <1>1, <1>5 DEF Moves, InPipeline
<1>9. Compared /\ ~overlapped /\ ~pruned => Matches(e) = {}
  BY <1>1, <1>2 DEF Compared, e
<1>7. ASSUME Solo, Compared, ~overlapped, ~pruned' PROVE Compared'
  <2>1. ~pruned /\ recent' = recent \cup {e}
    <3>1. pruned' = pruned /\ recent' = recent \cup {e}
      BY <1>5, <1>7 DEF Typed
    <3> QED
      BY <1>7, <3>1
  <2>2. \A u \in Thread : job'[u].pc # "keep"
    BY <1>1, <1>5, <1>7 DEF Solo, InPipeline
  <2>3. \A f : TextOf(f)' = TextOf(f)
    BY <1>1 DEF TextOf
  <2>4. seen' \subseteq {TextOf(f)' : f \in recent'}
    BY <1>1, <1>7, <2>1, <2>3 DEF Compared
  <2>5. Matches(e) = {}
    BY <1>7, <1>9, <2>1
  <2>6. ASSUME NEW f \in recent, f # e, Alike(e, f)
        PROVE  \E g \in recent : e # g /\ TextOf(e) = TextOf(g)
    <3>1. CASE TextOf(e) \in seen
      <4>1. e \notin recent
        BY <2>5, <3>1 DEF Matches
      <4>2. \E g \in recent : TextOf(e) = TextOf(g)
        BY <1>7, <2>1, <3>1 DEF Compared
      <4> QED
        BY <4>1, <4>2
    <3>2. CASE TextOf(e) \notin seen
      <4>1. AnySimilar(e) = {}
        BY <2>5, <3>2 DEF Matches
      <4> QED
        BY <2>6, <4>1 DEF AnySimilar, Alike
    <3> QED
      BY <3>1, <3>2
  <2>7. \A f, g : Alike(f, g)' = Alike(f, g)
    BY <1>1 DEF Alike
  <2>8. \A f : (\E g \in recent : f # g /\ TextOf(f) = TextOf(g)) => Twice(f)'
    BY <2>1, <2>3 DEF Twice
  <2>9. \A f, g \in recent : f # g /\ Alike(f, g) /\ Alike(g, f) => Twice(f)' \/ Twice(g)'
    BY <1>7, <2>1, <2>8 DEF Compared, Twice
  <2>10. \A f, g \in recent' :
           f # g /\ Alike(f, g)' /\ Alike(g, f)' => Twice(f)' \/ Twice(g)'
    BY <2>1, <2>6, <2>7, <2>8, <2>9
  <2> QED
    BY <2>2, <2>4, <2>10 DEF Compared
<1>8. ASSUME overlapped \/ pruned' PROVE Compared'
  BY <1>1, <1>8 DEF Compared
<1> QED
  BY <1>6, <1>7, <1>8

LEMMA ReplaceMoves ==
  ASSUME Typed, NEW t \in Thread, ReplaceRaws(t)
  PROVE  Moves(t) /\ (Solo /\ Compared => Compared')
<1> DEFINE j == job[t]
<1>1. /\ j.pc = "merge" /\ AfterEvent(t, recent, j) /\ j.pc # "poll"
      /\ seen' = seen /\ overlapped' = overlapped
      /\ events' = [events EXCEPT ![j.match].raws = j.copy]
  BY DEF ReplaceRaws
<1>2. j \in Job /\ Fits(j, Len(events)) /\ j.todo # <<>> /\ j.copy \in SUBSET Nat
  BY <1>1, AtHand DEF Job
<1>3. j.match \in 1..Len(events)
  BY <1>1, <1>2 DEF Fits
<1> HIDE DEF j
<1>4. Len(events') = Len(events) /\ \A f \in 1..Len(events) : events'[f].report = events[f].report
  BY <1>1, <1>2, <1>3, RawsReplaced
<1>5. /\ \A u \in Thread : u # t => job'[u] = job[u]
      /\ job'[t].pc \in {"find", "feed"}
      /\ pruned' \in {pruned, TRUE} /\ (~pruned' => recent' = recent)
  <2>1. AfterEvent(t, recent, j) /\ j.pc # "poll"
    BY <1>1
  <2>2. Len(events') = Len(events)
    BY <1>4
  <2> QED
    BY <1>2, <2>1, <2>2, AfterJob
<1>6. Moves(t)
  BY <1>1, <1>5 DEF Moves, InPipeline, j
<1>7. ASSUME Compared, ~pruned' PROVE Compared'
  <2>1. recent' = recent /\ pruned' = pruned
    BY <1>5, <1>7 DEF Typed
  <2>2. SameReports /\ job'[t].pc # "keep"
    BY <1>4, <1>5 DEF SameReports
  <2>3. Steady(t)
    BY <1>1, <1>6, <2>1, <2>2 DEF Steady
  <2> QED
    BY <1>7, <2>3, SteadyStep
<1>8. ASSUME pruned' PROVE Compared'
  BY <1>8 DEF Compared
<1> QED
  BY <1>6, <1>7, <1>8

LEMMA EntersSteadily ==
  ASSUME Typed, NEW t \in Thread, NEW ids, Enters(t, ids), UNCHANGED <<recent, seen, pruned>>,
         SameReports
  PROVE  Steady(t)
<1>1. /\ Goes(t, [Idle EXCEPT !.pc = "find", !.todo = ids])
      /\ overlapped' = (overlapped \/ ~Alone(t))
  BY DEF Enters
<1>2. /\ job'[t].pc = "find"
      /\ \A u \in Thread : u # t => job'[u] = job[u]
  <2>1. /\ job'[t] = [Idle EXCEPT !.pc = "find", !.todo = ids]
        /\ \A u \in Thread : u # t => job'[u] = job[u]
    BY <1>1, GoesTo
  <2> QED
    BY <2>1 DEF Idle
<1> QED
  BY <1>1, <1>2 DEF Steady, Moves

LEMMA DoneSteadily ==
  ASSUME Typed, NEW t \in Thread, Done(t), UNCHANGED <<recent, seen, pruned, overlapped>>,
         SameReports
  PROVE  Steady(t)
<1> DEFINE pc == IF t = Main THEN "idle" ELSE "top"
<1>1. Goes(t, [Idle EXCEPT !.pc = pc])
  BY DEF Done
<1>2. pc \in {"idle", "top"}
  OBVIOUS
<1> HIDE DEF pc
<1>3. /\ job'[t].pc = pc
      /\ \A u \in Thread : u # t => job'[u] = job[u]
  BY <1>1, GoesTo DEF Idle
<1>4. job'[t].pc # "keep" /\ ~(job'[t].pc \in {"find", "keep", "merge", "feed"})
  BY <1>2, <1>3
<1> QED
  BY <1>3, <1>4 DEF Steady, Moves, InPipeline

LEMMA StoriesStep ==
  ASSUME Typed, Solo, Compared, [LiveNext]_liveVars
  PROVE  Solo' /\ Compared'
<1>0. Main \in Thread /\ Loop \subseteq Thread
  BY Counted
<1>1. ASSUME NEW t \in Thread, Steady(t)
      PROVE  Solo' /\ Compared'
  BY <1>1, SoloStep, SteadyStep DEF Steady
<1>2. CASE Tick \/ StopContinuous \/ UNCHANGED liveVars
  <2>1. UNCHANGED <<job, events, recent, seen, overlapped, pruned>>
    BY <1>2 DEF Tick, StopContinuous, liveVars
  <2>2. SameReports
    BY <2>1 DEF SameReports
  <2>3. Moves(Main)
    BY <2>1 DEF Moves, InPipeline
  <2>4. Steady(Main)
    BY <1>0, <2>1, <2>2, <2>3 DEF Steady
  <2> QED
    BY <1>0, <1>1, <2>4
<1>3. CASE Reset
  <2>1. UNCHANGED <<job, overlapped>> /\ pruned' = TRUE
    BY <1>3 DEF Reset
  <2> QED
    BY <2>1 DEF Solo, Compared, InPipeline
<1>4. CASE StartContinuous
  <2>1. PICK t \in Loop : Goes(t, [Idle EXCEPT !.pc = "top"])
    BY <1>4 DEF StartContinuous
  <2>2. UNCHANGED <<events, recent, seen, overlapped, pruned>>
    BY <1>4 DEF StartContinuous
  <2>3. /\ job'[t] = [Idle EXCEPT !.pc = "top"] /\ t \in Thread
        /\ \A u \in Thread : u # t => job'[u] = job[u]
    BY <1>0, <2>1, GoesTo
  <2>4. job'[t].pc = "top"
    BY <2>3 DEF Idle
  <2>5. Steady(t)
    BY <2>2, <2>3, <2>4 DEF Steady, Moves, SameReports, InPipeline
  <2> QED
    BY <1>1, <2>3, <2>5
<1>5. ASSUME NEW t \in Loop, LoopTop(t)
      PROVE  Solo' /\ Compared'
  <2>1. UNCHANGED <<events, recent, seen, overlapped, pruned>> /\ t \in Thread
    BY <1>0, <1>5 DEF LoopTop
  <2>2. /\ job'[t].pc \in {"poll", "off"}
        /\ \A u \in Thread : u # t => job'[u] = job[u]
    <3>1. CASE Goes(t, [Idle EXCEPT !.pc = "poll", !.due = Due])
      BY <2>1, <3>1, GoesTo DEF Idle
    <3>2. CASE Goes(t, [Idle EXCEPT !.pc = "off"])
      BY <2>1, <3>2, GoesTo DEF Idle
    <3> QED
      BY <1>5, <3>1, <3>2 DEF LoopTop
  <2>3. Steady(t)
    BY <2>1, <2>2 DEF Steady, Moves, SameReports, InPipeline
  <2> QED
    BY <1>1, <2>1, <2>3
<1>6. CASE Ingest
  <2>1. PICK more \in Batches : NormalizedTo(more) /\ Enters(Main, NewIds(more))
    BY <1>6 DEF Ingest
  <2>2. UNCHANGED <<recent, seen, pruned>>
    BY <1>6 DEF Ingest
  <2>3. SameReports
    BY <2>1, BatchIsSeq, Normalized DEF SameReports
  <2>4. Steady(Main)
    BY <1>0, <2>1, <2>2, <2>3, EntersSteadily
  <2> QED
    BY <1>0, <1>1, <2>4
<1>7. CASE BufferEvent
  <2>1. PICK ids \in Seq(Nat) :
          /\ Buffers(ids)
          /\ \/ \E more \in Seq(Report) : NormalizedTo(more) /\ ids = NewIds(more) /\ more # <<>>
             \/ UNCHANGED <<events, outcome>>
    BY <1>7, Buffered
  <2>2. UNCHANGED <<recent, seen, pruned>>
    BY <1>7 DEF BufferEvent
  <2>3. SameReports
    <3>1. ASSUME NEW more \in Seq(Report), NormalizedTo(more) PROVE SameReports
      BY <3>1, Normalized DEF SameReports
    <3> QED
      BY <2>1, <3>1 DEF SameReports
  <2>4. Steady(Main)
    <3>1. CASE UNCHANGED <<job, overlapped>>
      BY <2>2, <2>3, <3>1 DEF Steady, Moves, InPipeline
    <3>2. CASE \E longer : Enters(Main, longer)
      BY <1>0, <2>2, <2>3, <3>2, EntersSteadily
    <3> QED
      BY <2>1, <3>1, <3>2 DEF Buffers
  <2> QED
    BY <1>0, <1>1, <2>4
<1>8. CASE FlushBuffer
  <2>1. Enters(Main, buffer) /\ UNCHANGED <<events, recent, seen, pruned>>
    BY <1>8 DEF FlushBuffer
  <2>2. Steady(Main)
    BY <1>0, <2>1, EntersSteadily DEF SameReports
  <2> QED
    BY <1>0, <1>1, <2>2
<1>9. ASSUME NEW s \in Source, PollAndIngest(s)
      PROVE  Solo' /\ Compared'
  <2>1. /\ Goes(Main, [Idle EXCEPT !.pc = "poll", !.due = {s}])
        /\ UNCHANGED <<events, recent, seen, overlapped, pruned>>
    BY <1>9 DEF PollAndIngest
  <2>2. /\ job'[Main].pc = "poll"
        /\ \A u \in Thread : u # Main => job'[u] = job[u]
    <3>1. /\ job'[Main] = [Idle EXCEPT !.pc = "poll", !.due = {s}]
          /\ \A u \in Thread : u # Main => job'[u] = job[u]
      BY <1>0, <2>1, GoesTo
    <3> QED
      BY <3>1 DEF Idle
  <2>3. Steady(Main)
    BY <2>1, <2>2 DEF Steady, Moves, SameReports, InPipeline
  <2> QED
    BY <1>0, <1>1, <2>3
<1>10. ASSUME NEW t \in Thread, Works(t)
       PROVE  Solo' /\ Compared'
  <2>1. ASSUME NEW s \in Source, Poll(t, s)
        PROVE  Solo' /\ Compared'
    <3>1. PICK more \in Batches \cup {<<>>} :
            /\ NormalizedTo(more)
            /\ Goes(t, [job[t] EXCEPT !.due = @ \ {s}, !.todo = @ \o NewIds(more)])
      BY <2>1 DEF Poll
    <3>2. UNCHANGED <<recent, seen, overlapped, pruned>> /\ job[t].pc = "poll" /\ job[t] \in Job
      BY <2>1 DEF Poll, Typed
    <3>3. /\ job'[t].pc = "poll"
          /\ \A u \in Thread : u # t => job'[u] = job[u]
      <4>1. /\ job'[t] = [job[t] EXCEPT !.due = @ \ {s}, !.todo = @ \o NewIds(more)]
            /\ \A u \in Thread : u # t => job'[u] = job[u]
        BY <3>1, GoesTo
      <4> QED
        BY <3>2, <4>1 DEF Job
    <3>4. SameReports
      BY <3>1, BatchIsSeq, Normalized DEF SameReports
    <3>5. Steady(t)
      BY <3>2, <3>3, <3>4 DEF Steady, Moves, InPipeline
    <3> QED
      BY <1>1, <3>5
  <2>2. CASE IngestPolled(t)
    <3>1. UNCHANGED <<events, recent, seen, pruned>> /\ SameReports
      BY <2>2 DEF IngestPolled, SameReports
    <3>2. CASE Done(t) /\ UNCHANGED overlapped
      BY <1>1, <3>1, <3>2, DoneSteadily
    <3>3. CASE Enters(t, job[t].todo)
      BY <1>1, <3>1, <3>3, EntersSteadily
    <3> QED
      BY <2>2, <3>2, <3>3 DEF IngestPolled
  <2>3. CASE Feed(t) \/ BatchFails(t)
    <3>1. Done(t) /\ UNCHANGED <<events, recent, seen, overlapped, pruned>> /\ SameReports
      BY <2>3 DEF Feed, BatchFails, SameReports
    <3> QED
      BY <1>1, <3>1, DoneSteadily
  <2>4. CASE FindDuplicate(t)
    BY <2>4, FindMoves, SoloStep
  <2>5. CASE KeepEvent(t)
    BY <2>5, KeepMoves, SoloStep
  <2>6. CASE ExtendRaws(t)
    <3>1. SameReports
      BY <2>6, ExtendTyped DEF SameReports
    <3>2. /\ UNCHANGED <<recent, seen, overlapped, pruned>>
          /\ job[t].pc = "merge" /\ job[t] \in Job
          /\ \E longer : Goes(t, [job[t] EXCEPT !.copy = longer])
      BY <2>6 DEF ExtendRaws, Typed
    <3>3. /\ job'[t].pc = "merge"
          /\ \A u \in Thread : u # t => job'[u] = job[u]
      BY <3>2, GoesTo DEF Job
    <3>4. Steady(t)
      BY <3>1, <3>2, <3>3 DEF Steady, Moves, InPipeline
    <3> QED
      BY <1>1, <3>4
  <2>7. CASE ReplaceRaws(t)
    BY <2>7, ReplaceMoves, SoloStep
  <2> QED
    BY <1>10, <2>1, <2>2, <2>3, <2>4, <2>5, <2>6, <2>7 DEF Works
<1> QED
  BY <1>2, <1>3, <1>4, <1>5, <1>6, <1>7, <1>8, <1>9, <1>10 DEF LiveNext

LEMMA InitStories == LiveInit => Typed /\ Solo /\ Compared
<1> SUFFICES ASSUME LiveInit PROVE Typed /\ Solo /\ Compared
  OBVIOUS
<1>1. Typed
  BY InitTyped
<1>2. \A t \in Thread : job[t].pc \in {"idle", "off"}
  <2>1. job = [t \in Thread |-> IF t = Main THEN Idle ELSE [Idle EXCEPT !.pc = "off"]]
    BY DEF LiveInit
  <2>2. Idle.pc = "idle" /\ [Idle EXCEPT !.pc = "off"].pc = "off"
    BY DEF Idle
  <2> QED
    BY <2>1, <2>2
<1>3. recent = {} /\ seen = {}
  BY DEF LiveInit
<1> QED
  BY <1>1, <1>2, <1>3 DEF Solo, Compared, InPipeline

(* As long as one thread at a time is in the pipeline and the detector has *)
(* forgotten nothing, two events it holds match each other only where the  *)
(* text of one is there twice: for any relation of matching reports, in    *)
(* either direction, and any threads.                                      *)
THEOREM StoriesMergedAlways == LiveSpec => []StoriesMerged
<1>1. LiveInit => Typed /\ Solo /\ Compared
  BY InitStories
<1>2. Typed /\ Solo /\ Compared /\ [LiveNext]_liveVars => (Typed /\ Solo /\ Compared)'
  BY TypedStep, StoriesStep
<1>3. Compared => StoriesMerged
  BY DEF Compared, StoriesMerged, Alike, Twice
<1> QED
  BY <1>1, <1>2, <1>3, PTL DEF LiveSpec

-----------------------------------------------------------------------------
(* What threads have in their hands: fed once, and accounted for *)

Hold(t) == IdsIn(job[t].todo) \cup job[t].unique

(* What a job does not need it does not have.                              *)
TidyJob(j) ==
  /\ j.pc \in {"idle", "top", "off"} => j.todo = <<>> /\ j.unique = {}
  /\ j.pc = "poll" => j.unique = {}
  /\ j.pc = "feed" => j.todo = <<>>
  /\ j.pc # "merge" => j.copy = {}

Tidy == \A t \in Thread : TidyJob(job[t])

(* Whatever threads overlap, no event is in two places.                    *)
Apart ==
  /\ \A t, u \in Thread : t # u => Hold(t) \cap Hold(u) = {}
  /\ \A t \in Thread : Hold(t) \cap IdsIn(buffer) = {}

(* What a thread has found of the event at hand is still so.               *)
Looked ==
  /\ \A f \in recent : TextOf(f) \in seen
  /\ \A t \in Thread :
       /\ job[t].pc = "keep" => Head(job[t].todo) \notin recent
       /\ job[t].pc = "merge" /\ Head(job[t].todo) \in recent => job[t].match = Head(job[t].todo)

(* What is fed is in the detector; what is kept is, and was not fed.       *)
Fed ==
  /\ \A t \in Thread : \A e \in job[t].unique : outcome[e] # "fed" /\ (pruned \/ e \in recent)
  /\ pruned \/ \A e \in 1..Len(events) : outcome[e] = "fed" => e \in recent

(* What is open is under way, and in some batch if it is in the detector;  *)
(* what is in the detector was not merged.                                 *)
Opened ==
  /\ \A e \in 1..Len(events) : outcome[e] = "open" =>
       UnderWay(e) /\ (e \in recent => \E t \in Thread : e \in job[t].unique)
  /\ \A f \in recent : outcome[f] # "merged"
  /\ \A t \in Thread :
       job[t].pc = "merge" /\ outcome[Head(job[t].todo)] = "open"
         /\ (job[t].copy # {} \/ job[t].match = Head(job[t].todo))
       => Head(job[t].todo) \in job[t].unique

(* Without overlap, nobody else changes what a thread has found or copied, *)
(* and each event is carried by one that was not merged.                   *)
Carried ==
  overlapped \/
    /\ \A e \in 1..Len(events) : \E f \in 1..Len(events) :
         e \in events[f].raws /\ outcome[f] # "merged"
    /\ \A t \in Thread :
         /\ job[t].pc = "merge" => outcome[job[t].match] # "merged"
         /\ job[t].copy # {} => job[t].copy = events[job[t].match].raws

Others(t) == \A u \in Thread : u # t => job'[u] = job[u]

(* The events only grow in number; new ones are open and carry themselves. *)
Grown ==
  /\ Len(events') \in Nat /\ Len(events) <= Len(events')
  /\ \A e \in 1..Len(events) : events'[e] = events[e] /\ outcome'[e] = outcome[e]
  /\ \A e \in 1..Len(events') : e > Len(events) => outcome'[e] = "open" /\ e \in events'[e].raws

(* A step that gathers events: it brings new ones, or takes what waits.    *)
Gathers(t) ==
  /\ Others(t) /\ UNCHANGED <<recent, seen, pruned>>
  /\ (overlapped => overlapped') /\ Grown
  /\ Hold(t) \cup IdsIn(buffer) \cup (Len(events) + 1)..Len(events')
       \subseteq Hold(t)' \cup IdsIn(buffer')
  /\ Hold(t)' \cap IdsIn(buffer') = {}
  /\ \A u \in Thread : u # t => Hold(u) \cap (Hold(t)' \cup IdsIn(buffer')) = {}
  /\ \/ job' = job
     \/ /\ job[t].unique = {} /\ job'[t].unique = {} /\ job'[t].copy = {} /\ TidyJob(job'[t])
        /\ job'[t].pc \in {"idle", "top", "off", "poll", "find"}

-----------------------------------------------------------------------------
(* The steps that gather *)

LEMMA Held ==
  ASSUME Typed, NEW t \in Thread
  PROVE  Hold(t) \subseteq 1..Len(events) /\ job[t] \in Job /\ job[t].todo \in Seq(Nat)
BY DEF Typed, Fits, Hold, Job

LEMMA Entered ==
  ASSUME Typed, NEW t \in Thread, NEW ids, Enters(t, ids)
  PROVE  /\ Others(t) /\ (overlapped => overlapped') /\ Hold(t)' = IdsIn(ids)
         /\ job'[t].unique = {} /\ job'[t].copy = {} /\ TidyJob(job'[t]) /\ job'[t].pc = "find"
<1> DEFINE j == [Idle EXCEPT !.pc = "find", !.todo = ids]
<1>1. Goes(t, j) /\ overlapped' = (overlapped \/ ~Alone(t))
  BY DEF Enters
<1>2. job'[t] = j /\ Others(t)
  BY <1>1, GoesTo DEF Others
<1>3. j.pc = "find" /\ j.todo = ids /\ j.unique = {} /\ j.copy = {}
  BY DEF Idle
<1> HIDE DEF j
<1>4. Hold(t)' = IdsIn(ids)
  BY <1>2, <1>3 DEF Hold
<1> QED
  BY <1>1, <1>2, <1>3, <1>4 DEF TidyJob

LEMMA WentIdle ==
  ASSUME Typed, NEW t \in Thread, NEW pc \in {"idle", "top", "off"}, Goes(t, [Idle EXCEPT !.pc = pc])
  PROVE  /\ Others(t) /\ Hold(t)' = {} /\ job'[t].unique = {} /\ job'[t].copy = {}
         /\ job'[t].todo = <<>> /\ TidyJob(job'[t]) /\ job'[t].pc = pc
<1> DEFINE j == [Idle EXCEPT !.pc = pc]
<1>1. job'[t] = j /\ Others(t)
  BY GoesTo DEF Others
<1>2. j.pc = pc /\ j.todo = <<>> /\ j.unique = {} /\ j.copy = {}
  BY DEF Idle
<1> HIDE DEF j
<1>3. Hold(t)' = {}
  BY <1>1, <1>2, IdleIsJob DEF Hold
<1> QED
  BY <1>1, <1>2, <1>3 DEF TidyJob

LEMMA WentDone ==
  ASSUME Typed, NEW t \in Thread, Done(t)
  PROVE  /\ Others(t) /\ Hold(t)' = {} /\ job'[t].unique = {} /\ job'[t].copy = {}
         /\ job'[t].todo = <<>> /\ TidyJob(job'[t]) /\ job'[t].pc \in {"idle", "top"}
<1> DEFINE pc == IF t = Main THEN "idle" ELSE "top"
<1>1. Goes(t, [Idle EXCEPT !.pc = pc])
  BY DEF Done
<1>2. pc \in {"idle", "top"}
  OBVIOUS
<1> HIDE DEF pc
<1> QED
  BY <1>1, <1>2, WentIdle

(* A thread that holds nothing goes to something that holds nothing.       *)
LEMMA EmptyGathers ==
  ASSUME Typed, Apart, NEW t \in Thread, Others(t), Hold(t) = {}, Hold(t)' = {},
         job'[t].unique = {}, job'[t].copy = {}, TidyJob(job'[t]),
         job'[t].pc \in {"idle", "top", "off", "poll", "find"},
         UNCHANGED <<events, outcome, recent, seen, pruned, overlapped, buffer>>
  PROVE  Gathers(t)
<1>1. Len(events) \in Nat /\ (Len(events) + 1)..Len(events) = {}
  BY Counted
<1>2. job[t].unique = {}
  BY DEF Hold
<1> QED
  BY <1>1, <1>2 DEF Gathers, Apart, Grown

LEMMA StillGathers ==
  ASSUME Typed, Apart, Tick \/ StopContinuous \/ UNCHANGED liveVars
  PROVE  Gathers(Main)
<1>1. UNCHANGED <<events, outcome, recent, seen, pruned, overlapped, buffer, job>>
  BY DEF Tick, StopContinuous, liveVars
<1>2. Len(events) \in Nat /\ Main \in Thread /\ (Len(events) + 1)..Len(events) = {}
  BY Counted
<1>3. Hold(Main)' = Hold(Main)
  BY <1>1 DEF Hold
<1> QED
  BY <1>1, <1>2, <1>3 DEF Gathers, Others, Apart, Grown

LEMMA StartGathers ==
  ASSUME Typed, Tidy, Apart, StartContinuous
  PROVE  \E t \in Thread : Gathers(t)
<1>1. PICK t \in Loop : job[t].pc = "off" /\ Goes(t, [Idle EXCEPT !.pc = "top"])
  BY DEF StartContinuous
<1>2. UNCHANGED <<events, outcome, recent, seen, pruned, overlapped, buffer>> /\ t \in Thread
  BY Counted DEF StartContinuous
<1>3. Hold(t) = {}
  BY <1>1, <1>2, IdleIsJob DEF Tidy, TidyJob, Hold
<1>4. /\ Others(t) /\ Hold(t)' = {} /\ job'[t].unique = {} /\ job'[t].copy = {}
      /\ TidyJob(job'[t]) /\ job'[t].pc = "top"
  BY <1>1, <1>2, WentIdle
<1> QED
  BY <1>2, <1>3, <1>4, EmptyGathers

LEMMA PollBegins ==
  ASSUME Typed, NEW t \in Thread, NEW due, Goes(t, [Idle EXCEPT !.pc = "poll", !.due = due])
  PROVE  /\ Others(t) /\ Hold(t)' = {} /\ job'[t].unique = {} /\ job'[t].copy = {}
         /\ TidyJob(job'[t]) /\ job'[t].pc = "poll"
<1> DEFINE j == [Idle EXCEPT !.pc = "poll", !.due = due]
<1>1. job'[t] = j /\ Others(t)
  BY GoesTo DEF Others
<1>2. j.pc = "poll" /\ j.todo = <<>> /\ j.unique = {} /\ j.copy = {}
  BY DEF Idle
<1> HIDE DEF j
<1>3. Hold(t)' = {}
  BY <1>1, <1>2, IdleIsJob DEF Hold
<1> QED
  BY <1>1, <1>2, <1>3 DEF TidyJob

LEMMA TopGathers ==
  ASSUME Typed, Tidy, Apart, NEW t \in Loop, LoopTop(t)
  PROVE  t \in Thread /\ Gathers(t)
<1>1. /\ job[t].pc = "top" /\ t \in Thread
      /\ UNCHANGED <<events, outcome, recent, seen, pruned, overlapped, buffer>>
  BY Counted DEF LoopTop
<1>2. Hold(t) = {}
  BY <1>1, IdleIsJob DEF Tidy, TidyJob, Hold
<1>3. CASE Goes(t, [Idle EXCEPT !.pc = "poll", !.due = Due])
  BY <1>1, <1>2, <1>3, PollBegins, EmptyGathers
<1>4. CASE Goes(t, [Idle EXCEPT !.pc = "off"])
  BY <1>1, <1>2, <1>4, WentIdle, EmptyGathers
<1> QED
  BY <1>1, <1>3, <1>4 DEF LoopTop

LEMMA MainPollGathers ==
  ASSUME Typed, Tidy, Apart, NEW s \in Source, PollAndIngest(s)
  PROVE  Gathers(Main)
<1>1. /\ job[Main].pc = "idle" /\ Main \in Thread
      /\ Goes(Main, [Idle EXCEPT !.pc = "poll", !.due = {s}])
      /\ UNCHANGED <<events, outcome, recent, seen, pruned, overlapped, buffer>>
  BY Counted DEF PollAndIngest
<1>2. Hold(Main) = {}
  BY <1>1, IdleIsJob DEF Tidy, TidyJob, Hold
<1> QED
  BY <1>1, <1>2, PollBegins, EmptyGathers

(* The foreground is idle, and what it takes or buffers nobody has.        *)
LEMMA MainGathers ==
  ASSUME Typed, Tidy, job[Main].pc = "idle", UNCHANGED <<recent, seen, pruned>>, Grown,
         NEW taken, NEW rest, IdsIn(buffer') = rest, taken \cap rest = {},
         (Len(events) + 1)..Len(events') \cup IdsIn(buffer) \subseteq taken \cup rest,
         \A u \in Thread : Hold(u) \cap (taken \cup rest) = {},
         \/ \E ids : Enters(Main, ids) /\ IdsIn(ids) = taken
         \/ UNCHANGED <<job, overlapped>> /\ taken = {}
  PROVE  Gathers(Main)
<1>1. Main \in Thread /\ Hold(Main) = {} /\ job[Main].unique = {}
  BY Counted, IdleIsJob DEF Tidy, TidyJob, Hold
<1>2. ASSUME NEW ids, Enters(Main, ids), IdsIn(ids) = taken
      PROVE  Gathers(Main)
  <2>1. /\ Others(Main) /\ (overlapped => overlapped') /\ Hold(Main)' = taken
        /\ job'[Main].unique = {} /\ job'[Main].copy = {} /\ TidyJob(job'[Main])
        /\ job'[Main].pc = "find"
    BY <1>1, <1>2, Entered
  <2> QED
    BY <1>1, <2>1 DEF Gathers
<1>3. CASE UNCHANGED <<job, overlapped>> /\ taken = {}
  <2>1. Hold(Main)' = {}
    BY <1>1, <1>3 DEF Hold
  <2> QED
    BY <1>1, <1>3, <2>1 DEF Gathers, Others
<1> QED
  BY <1>2, <1>3

(* Nobody has a new event.                                                 *)
LEMMA NewToAll ==
  ASSUME Typed, NEW n \in Nat
  PROVE  /\ \A u \in Thread : Hold(u) \cap (Len(events) + 1)..n = {}
         /\ recent \cap (Len(events) + 1)..n = {}
         /\ IdsIn(buffer) \cap (Len(events) + 1)..n = {}
<1>1. Len(events) \in Nat /\ 1..Len(events) \cap (Len(events) + 1)..n = {}
  BY Counted
<1>2. recent \subseteq 1..Len(events) /\ IdsIn(buffer) \subseteq 1..Len(events)
  BY DEF Typed
<1>3. \A u \in Thread : Hold(u) \subseteq 1..Len(events)
  BY Held
<1> HIDE DEF Hold
<1> QED
  BY <1>1, <1>2, <1>3

LEMMA NormalizedGrows ==
  ASSUME Typed, NEW more \in Seq(Report), NormalizedTo(more)
  PROVE  Grown /\ IdsIn(NewIds(more)) = (Len(events) + 1)..Len(events')
<1>1. /\ Len(events') = Len(events) + Len(more)
      /\ \A e \in 1..Len(events) : events'[e] = events[e] /\ outcome'[e] = outcome[e]
      /\ \A e \in (Len(events) + 1)..Len(events') : events'[e].raws = {e} /\ outcome'[e] = "open"
      /\ IdsIn(NewIds(more)) = (Len(events) + 1)..Len(events')
  BY Normalized
<1>2. Len(more) \in Nat /\ Len(events) \in Nat
  BY LenProperties, Counted
<1>3. \A e \in 1..Len(events') : e > Len(events) => e \in (Len(events) + 1)..Len(events')
  BY <1>1, <1>2
<1> QED
  BY <1>1, <1>2, <1>3 DEF Grown

LEMMA IngestGathers ==
  ASSUME Typed, Tidy, Apart, Ingest
  PROVE  Gathers(Main)
<1>1. PICK more \in Batches : NormalizedTo(more) /\ Enters(Main, NewIds(more))
  BY DEF Ingest
<1>2. job[Main].pc = "idle" /\ UNCHANGED <<recent, seen, pruned>> /\ buffer' = buffer
  BY DEF Ingest
<1> DEFINE taken == (Len(events) + 1)..Len(events')
           rest == IdsIn(buffer)
<1>3. Grown /\ IdsIn(NewIds(more)) = taken
  BY <1>1, BatchIsSeq, NormalizedGrows
<1>4. /\ \A u \in Thread : Hold(u) \cap taken = {}
      /\ rest \cap taken = {}
  BY <1>3, NewToAll DEF Grown
<1>5. \A u \in Thread : Hold(u) \cap rest = {}
  BY DEF Apart
<1>6. /\ \E ids : Enters(Main, ids) /\ IdsIn(ids) = taken
      /\ taken \cup IdsIn(buffer) \subseteq taken \cup rest /\ IdsIn(buffer') = rest
  BY <1>1, <1>2, <1>3
<1>7. (Len(events) + 1)..Len(events') \cup IdsIn(buffer) \subseteq taken \cup rest
  OBVIOUS
<1> HIDE DEF taken, rest, Hold
<1>8. taken \cap rest = {} /\ \A u \in Thread : Hold(u) \cap (taken \cup rest) = {}
  BY <1>4, <1>5
<1> QED
  BY <1>2, <1>3, <1>6, <1>7, <1>8, MainGathers

LEMMA BufferGathers ==
  ASSUME Typed, Tidy, Apart, BufferEvent
  PROVE  Gathers(Main)
<1>1. PICK ids \in Seq(Nat) :
        /\ ids # <<>> /\ Buffers(ids)
        /\ \/ \E more \in Seq(Report) : NormalizedTo(more) /\ ids = NewIds(more) /\ more # <<>>
           \/ /\ UNCHANGED <<events, outcome>>
              /\ IdsIn(ids) \subseteq {e \in 1..Len(events) : ~InBatch(e)}
  BY Buffered
<1>2. job[Main].pc = "idle" /\ UNCHANGED <<recent, seen, pruned>>
  BY DEF BufferEvent
<1> DEFINE fresh == (Len(events) + 1)..Len(events')
<1>3. Grown /\ fresh \subseteq IdsIn(ids) /\ \A u \in Thread : Hold(u) \cap IdsIn(ids) = {}
  <2>1. CASE UNCHANGED <<events, outcome>> /\ IdsIn(ids) \subseteq {e \in 1..Len(events) : ~InBatch(e)}
    <3>1. \A u \in Thread : Hold(u) \cap IdsIn(ids) = {}
      BY <2>1 DEF InBatch, Hold
    <3>2. Len(events) \in Nat /\ (Len(events) + 1)..Len(events) = {}
      BY Counted
    <3>3. fresh = {} /\ Grown
      BY <2>1, <3>2 DEF Grown
    <3> QED
      BY <3>1, <3>3
  <2>2. ASSUME NEW more \in Seq(Report), NormalizedTo(more), ids = NewIds(more)
        PROVE  Grown /\ fresh = IdsIn(ids)
    BY <2>2, NormalizedGrows
  <2>3. ASSUME Grown, fresh = IdsIn(ids) PROVE \A u \in Thread : Hold(u) \cap IdsIn(ids) = {}
    BY <2>3, NewToAll DEF Grown
  <2> QED
    BY <1>1, <2>1, <2>2, <2>3
<1> DEFINE all == IdsIn(buffer) \cup IdsIn(ids)
<1>4. \A u \in Thread : Hold(u) \cap all = {}
  BY <1>3 DEF Apart
<1>5. IdsIn(buffer \o ids) = all
  BY IdsOfConcat DEF Typed
<1>6. fresh \cup IdsIn(buffer) \subseteq all
  BY <1>3
<1>7. CASE buffer' = <<>> /\ Enters(Main, buffer \o ids)
  <2>1. IdsIn(buffer') = {} /\ \E longer : Enters(Main, longer) /\ IdsIn(longer) = all
    BY <1>5, <1>7, IdleIsJob
  <2>2. /\ all \cap {} = {} /\ fresh \cup IdsIn(buffer) \subseteq all \cup {}
        /\ \A u \in Thread : Hold(u) \cap (all \cup {}) = {}
    BY <1>4, <1>6
  <2> HIDE DEF all, Hold
  <2> QED
    BY <1>2, <1>3, <2>1, <2>2, MainGathers
<1>8. CASE buffer' = buffer \o ids /\ UNCHANGED <<job, overlapped>>
  <2>1. IdsIn(buffer') = all
    BY <1>5, <1>8
  <2>2. /\ {} \cap all = {} /\ fresh \cup IdsIn(buffer) \subseteq {} \cup all
        /\ \A u \in Thread : Hold(u) \cap ({} \cup all) = {}
    BY <1>4, <1>6
  <2> HIDE DEF all, Hold
  <2> QED
    BY <1>2, <1>3, <1>8, <2>1, <2>2, MainGathers
<1> QED
  BY <1>1, <1>7, <1>8 DEF Buffers

LEMMA FlushGathers ==
  ASSUME Typed, Tidy, Apart, FlushBuffer
  PROVE  Gathers(Main)
<1>1. /\ job[Main].pc = "idle" /\ buffer' = <<>> /\ Enters(Main, buffer)
      /\ UNCHANGED <<events, outcome, recent, seen, pruned>>
  BY DEF FlushBuffer
<1>2. Len(events) \in Nat /\ (Len(events) + 1)..Len(events) = {}
  BY Counted
<1>3. Grown
  BY <1>1, <1>2 DEF Grown
<1>4. IdsIn(buffer') = {} /\ \A u \in Thread : Hold(u) \cap IdsIn(buffer) = {}
  BY <1>1, IdleIsJob DEF Apart
<1>5. (Len(events) + 1)..Len(events') \cup IdsIn(buffer) \subseteq IdsIn(buffer) \cup {}
  BY <1>1, <1>2
<1>6. \E ids : Enters(Main, ids) /\ IdsIn(ids) = IdsIn(buffer)
  BY <1>1
<1> DEFINE taken == IdsIn(buffer)
<1>7. taken \cap {} = {} /\ \A u \in Thread : Hold(u) \cap (taken \cup {}) = {}
  BY <1>4
<1> QED
  BY <1>1, <1>3, <1>4, <1>5, <1>6, <1>7, MainGathers

LEMMA PollGathers ==
  ASSUME Typed, Tidy, Apart, NEW t \in Thread, NEW s \in Source, Poll(t, s)
  PROVE  Gathers(t)
<1>1. PICK more \in Batches \cup {<<>>} :
        /\ NormalizedTo(more)
        /\ Goes(t, [job[t] EXCEPT !.due = @ \ {s}, !.todo = @ \o NewIds(more)])
  BY DEF Poll
<1>2. /\ job[t].pc = "poll" /\ UNCHANGED <<recent, seen, buffer, overlapped, pruned>>
      /\ job[t] \in Job /\ job[t].todo \in Seq(Nat)
  BY DEF Poll, Typed, Job
<1> DEFINE fresh == (Len(events) + 1)..Len(events')
           todo == job[t].todo \o NewIds(more)
           j == [job[t] EXCEPT !.due = @ \ {s}, !.todo = todo]
<1>3. Grown /\ IdsIn(NewIds(more)) = fresh /\ NewIds(more) \in Seq(Nat)
  BY <1>1, BatchIsSeq, NormalizedGrows, Normalized
<1>4. IdsIn(todo) = IdsIn(job[t].todo) \cup fresh
  BY <1>2, <1>3, IdsOfConcat
<1>5. job[t].unique = {} /\ job[t].copy = {}
  BY <1>2 DEF Tidy, TidyJob
<1>6. job'[t] = j /\ Others(t)
  BY <1>1, GoesTo DEF Others
<1> HIDE DEF todo
<1>7. j.pc = "poll" /\ j.todo = todo /\ j.unique = {} /\ j.copy = {}
  BY <1>2, <1>5 DEF Job
<1> HIDE DEF j
<1>8. Hold(t)' = Hold(t) \cup fresh /\ TidyJob(job'[t])
  BY <1>4, <1>5, <1>6, <1>7 DEF Hold, TidyJob
<1>9. /\ \A u \in Thread : Hold(u) \cap fresh = {}
      /\ IdsIn(buffer) \cap fresh = {}
  BY <1>3, NewToAll DEF Grown
<1>10. /\ \A u \in Thread : u # t => Hold(u) \cap Hold(t) = {}
       /\ \A u \in Thread : Hold(u) \cap IdsIn(buffer) = {}
  BY DEF Apart
<1>11. /\ Hold(t) \cup IdsIn(buffer) \cup fresh \subseteq Hold(t)' \cup IdsIn(buffer')
       /\ Hold(t)' \cap IdsIn(buffer') = {}
       /\ \A u \in Thread : u # t => Hold(u) \cap (Hold(t)' \cup IdsIn(buffer')) = {}
  <2> DEFINE h == Hold(t)
             i == Hold(t)'
             b == IdsIn(buffer)
  <2>1. i = h \cup fresh /\ IdsIn(buffer') = b
    BY <1>2, <1>8
  <2>2. h \cap b = {} /\ b \cap fresh = {}
    BY <1>9, <1>10
  <2>3. \A u \in Thread : u # t => Hold(u) \cap h = {} /\ Hold(u) \cap b = {} /\ Hold(u) \cap fresh = {}
    BY <1>9, <1>10
  <2> HIDE DEF h, i, b, fresh
  <2>4. h \cup b \cup fresh \subseteq i \cup b /\ i \cap b = {}
    BY <2>1, <2>2
  <2>5. \A u \in Thread : u # t => Hold(u) \cap (i \cup b) = {}
    BY <2>1, <2>3
  <2> QED
    BY <2>1, <2>4, <2>5 DEF h, i, b
<1> QED
  BY <1>2, <1>3, <1>5, <1>6, <1>7, <1>8, <1>11 DEF Gathers

LEMMA PolledGathers ==
  ASSUME Typed, Tidy, Apart, NEW t \in Thread, IngestPolled(t)
  PROVE  Gathers(t)
<1>1. /\ job[t].pc = "poll" /\ UNCHANGED <<events, outcome, recent, seen, buffer, pruned>>
  BY DEF IngestPolled
<1>2. job[t].unique = {} /\ Hold(t) = IdsIn(job[t].todo)
  BY <1>1 DEF Tidy, TidyJob, Hold
<1>3. Len(events) \in Nat /\ (Len(events) + 1)..Len(events) = {}
  BY Counted
<1>4. Grown
  BY <1>1, <1>3 DEF Grown
<1>5. CASE job[t].todo = <<>> /\ Done(t) /\ UNCHANGED overlapped
  <2>1. Hold(t) = {}
    BY <1>2, <1>5, IdleIsJob
  <2> QED
    BY <1>1, <1>5, <2>1, WentDone, EmptyGathers
<1>6. CASE Enters(t, job[t].todo)
  <2>1. /\ Others(t) /\ (overlapped => overlapped') /\ Hold(t)' = Hold(t)
        /\ job'[t].unique = {} /\ job'[t].copy = {} /\ TidyJob(job'[t]) /\ job'[t].pc = "find"
    BY <1>2, <1>6, Entered
  <2>2. /\ \A u \in Thread : u # t => Hold(u) \cap Hold(t) = {}
        /\ \A u \in Thread : Hold(u) \cap IdsIn(buffer) = {}
    BY DEF Apart
  <2> HIDE DEF Hold
  <2>3. /\ Hold(t) \cup IdsIn(buffer) \cup (Len(events) + 1)..Len(events')
             \subseteq Hold(t)' \cup IdsIn(buffer')
        /\ Hold(t)' \cap IdsIn(buffer') = {}
        /\ \A u \in Thread : u # t => Hold(u) \cap (Hold(t)' \cup IdsIn(buffer')) = {}
    BY <1>1, <1>3, <2>1, <2>2
  <2> QED
    BY <1>1, <1>2, <1>4, <2>1, <2>3 DEF Gathers
<1> QED
  BY <1>5, <1>6 DEF IngestPolled

-----------------------------------------------------------------------------
(* The steps in the pipeline *)

(* The event at hand is dealt with, and no other.                          *)
LEMMA AfterTidy ==
  ASSUME Typed, NEW t \in Thread, NEW now, NEW j \in Job, AfterEvent(t, now, j), j.todo # <<>>
  PROVE  /\ Others(t) /\ job'[t].pc \in {"find", "feed"} /\ TidyJob(job'[t])
         /\ job'[t].unique = j.unique /\ job'[t].copy = {}
         /\ IdsIn(j.todo) = {Head(j.todo)} \cup IdsIn(job'[t].todo)
         /\ recent' \subseteq now /\ (~pruned' => ~pruned /\ recent' = now)
<1> DEFINE rest == Tail(j.todo)
           pc == IF rest = <<>> THEN "feed" ELSE "find"
           k == [j EXCEPT !.todo = rest, !.match = NoEvent, !.copy = {}, !.pc = pc]
<1>1. Goes(t, k)
  BY DEF AfterEvent
<1>2. IdsIn(j.todo) = {Head(j.todo)} \cup IdsIn(rest)
  BY HeadAndTail DEF Job
<1>3. recent' \subseteq now /\ (~pruned' => ~pruned /\ recent' = now)
  BY DEF AfterEvent, Typed
<1>4. pc \in {"feed", "find"} /\ (pc = "feed" => rest = <<>>)
  OBVIOUS
<1>5. job'[t] = k /\ Others(t)
  BY <1>1, GoesTo DEF Others
<1> HIDE DEF rest, pc
<1>6. k.todo = rest /\ k.copy = {} /\ k.pc = pc /\ k.unique = j.unique
  BY DEF Job
<1> HIDE DEF k
<1>7. TidyJob(k)
  BY <1>4, <1>6 DEF TidyJob
<1> QED
  BY <1>2, <1>3, <1>4, <1>5, <1>6, <1>7

LEMMA RawsNow ==
  ASSUME Typed, NEW f \in 1..Len(events), NEW raws \in SUBSET Nat,
         events' = [events EXCEPT ![f].raws = raws]
  PROVE  /\ Len(events') = Len(events) /\ events'[f].raws = raws
         /\ \A e \in 1..Len(events) :
              events'[e].report = events[e].report /\ (e # f => events'[e] = events[e])
<1> DEFINE event == [events[f] EXCEPT !.raws = raws]
<1>1. events \in Seq(Event) /\ \A e \in 1..Len(events) : events[e] \in Event
  BY ElementOfSeq DEF Typed
<1>2. event \in Event /\ event.report = events[f].report /\ event.raws = raws
  BY <1>1 DEF Event
<1>3. events' = [events EXCEPT ![f] = event]
  OBVIOUS
<1> HIDE DEF event
<1>4. /\ Len([events EXCEPT ![f] = event]) = Len(events)
      /\ \A e \in 1..Len(events) :
           [events EXCEPT ![f] = event][e] = IF e = f THEN event ELSE events[e]
  BY <1>1, <1>2, ExceptSeq
<1> QED
  BY <1>2, <1>3, <1>4

LEMMA Finds ==
  ASSUME Typed, NEW t \in Thread, FindDuplicate(t)
  PROVE  LET e == Head(job[t].todo)
         IN /\ job[t].pc = "find" /\ Others(t)
            /\ job'[t].todo = job[t].todo /\ job'[t].unique = job[t].unique
            /\ job'[t].copy = job[t].copy
            /\ \/ job'[t].pc = "keep" /\ Matches(e) = {}
               \/ job'[t].pc = "merge" /\ job'[t].match \in Matches(e)
            /\ UNCHANGED <<events, recent, seen, buffer, outcome, overlapped, pruned>>
<1> DEFINE found == Matches(Head(job[t].todo))
<1>1. /\ job[t].pc = "find"
      /\ \/ found = {} /\ Goes(t, [job[t] EXCEPT !.pc = "keep"])
         \/ \E f \in found : Goes(t, [job[t] EXCEPT !.pc = "merge", !.match = f])
      /\ UNCHANGED <<events, recent, seen, buffer, outcome, overlapped, pruned>>
  BY DEF FindDuplicate
<1>2. job[t] \in Job
  BY DEF Typed
<1> HIDE DEF found
<1>3. CASE found = {} /\ Goes(t, [job[t] EXCEPT !.pc = "keep"])
  <2>1. job'[t] = [job[t] EXCEPT !.pc = "keep"] /\ Others(t)
    BY <1>3, GoesTo DEF Others
  <2>2. /\ job'[t].todo = job[t].todo /\ job'[t].unique = job[t].unique
        /\ job'[t].copy = job[t].copy /\ job'[t].pc = "keep"
    BY <1>2, <2>1 DEF Job
  <2> QED
    BY <1>1, <1>3, <2>1, <2>2 DEF found
<1>4. ASSUME NEW f \in found, Goes(t, [job[t] EXCEPT !.pc = "merge", !.match = f])
      PROVE  /\ job'[t].todo = job[t].todo /\ job'[t].unique = job[t].unique
             /\ job'[t].copy = job[t].copy /\ job'[t].pc = "merge" /\ job'[t].match = f
             /\ Others(t)
  <2>1. job'[t] = [job[t] EXCEPT !.pc = "merge", !.match = f] /\ Others(t)
    BY <1>4, GoesTo DEF Others
  <2> QED
    BY <1>2, <2>1 DEF Job
<1> QED
  BY <1>1, <1>3, <1>4 DEF found

LEMMA Keeps ==
  ASSUME Typed, NEW t \in Thread, KeepEvent(t)
  PROVE  LET e == Head(job[t].todo)
         IN /\ job[t].pc = "keep" /\ Others(t) /\ job'[t].pc \in {"find", "feed"}
            /\ TidyJob(job'[t]) /\ job'[t].copy = {}
            /\ job'[t].unique = job[t].unique \cup {e}
            /\ IdsIn(job[t].todo) = {e} \cup IdsIn(job'[t].todo)
            /\ e \in 1..Len(events) /\ seen' = seen \cup {TextOf(e)}
            /\ recent' \subseteq recent \cup {e}
            /\ ~pruned' => ~pruned /\ recent' = recent \cup {e}
            /\ \A f \in 1..Len(events) : outcome'[f] = IF f = e THEN "open" ELSE outcome[f]
            /\ UNCHANGED <<events, buffer, overlapped>>
<1> DEFINE e == Head(job[t].todo)
           unique == job[t].unique \cup {e}
           j == [job[t] EXCEPT !.unique = unique]
<1>1. /\ job[t].pc = "keep" /\ seen' = seen \cup {TextOf(e)}
      /\ AfterEvent(t, recent \cup {e}, j)
      /\ outcome' = [outcome EXCEPT ![e] = "open"]
      /\ UNCHANGED <<events, buffer, overlapped>>
  BY DEF KeepEvent
<1>2. /\ e \in 1..Len(events) /\ e \in Nat /\ job[t] \in Job /\ job[t].todo # <<>>
  BY <1>1, AtHand
<1> HIDE DEF e
<1>3. j \in Job /\ j.todo = job[t].todo /\ j.unique = unique
  BY <1>1, <1>2 DEF Job
<1>4. \A f \in 1..Len(events) : outcome'[f] = IF f = e THEN "open" ELSE outcome[f]
  BY <1>1, <1>2, OneFate DEF Fate
<1> HIDE DEF j, unique
<1>5. /\ Others(t) /\ job'[t].pc \in {"find", "feed"} /\ TidyJob(job'[t])
      /\ job'[t].unique = unique /\ job'[t].copy = {}
      /\ IdsIn(job[t].todo) = {e} \cup IdsIn(job'[t].todo)
      /\ recent' \subseteq recent \cup {e} /\ (~pruned' => ~pruned /\ recent' = recent \cup {e})
  <2>1. e = Head(j.todo) /\ j.todo # <<>>
    BY <1>2, <1>3 DEF e
  <2> QED
    BY <1>1, <1>3, <2>1, AfterTidy
<1> QED
  BY <1>1, <1>2, <1>4, <1>5 DEF e, unique

LEMMA Extends ==
  ASSUME Typed, NEW t \in Thread, ExtendRaws(t)
  PROVE  LET e == Head(job[t].todo)
             m == job[t].match
         IN /\ job[t].pc = "merge" /\ Others(t) /\ job'[t].pc = "merge"
            /\ job'[t].todo = job[t].todo /\ job'[t].unique = job[t].unique
            /\ job'[t].match = m /\ e \in IdsIn(job[t].todo)
            /\ e \in 1..Len(events) /\ m \in 1..Len(events)
            /\ Len(events') = Len(events)
            /\ events'[m].raws = events[m].raws \cup events[e].raws
            /\ job'[t].copy = events'[m].raws
            /\ \A f \in 1..Len(events) :
                 /\ events'[f].report = events[f].report
                 /\ f # m => events'[f] = events[f]
            /\ \A f \in 1..Len(events) :
                 outcome'[f] = IF f = e /\ m # e THEN "merged" ELSE outcome[f]
            /\ UNCHANGED <<recent, seen, buffer, overlapped, pruned>>
<1> DEFINE e == Head(job[t].todo)
           m == job[t].match
           longer == events[m].raws \cup events[e].raws
           j == [job[t] EXCEPT !.copy = longer]
<1>1. /\ job[t].pc = "merge" /\ events' = [events EXCEPT ![m].raws = longer]
      /\ Goes(t, j) /\ outcome' = Merged(e, m)
      /\ UNCHANGED <<recent, seen, buffer, overlapped, pruned>>
  BY DEF ExtendRaws
<1>2. /\ e \in IdsIn(job[t].todo) /\ e \in 1..Len(events) /\ events[e].raws \subseteq Nat
      /\ job[t] \in Job /\ Fits(job[t], Len(events))
  BY <1>1, AtHand
<1>3. m \in 1..Len(events)
  BY <1>1, <1>2 DEF Fits
<1>4. events[m].raws \subseteq Nat
  BY <1>3, Told
<1> HIDE DEF e
<1>5. longer \in SUBSET Nat
  BY <1>2, <1>4
<1>6. job'[t] = j /\ Others(t)
  BY <1>1, GoesTo DEF Others
<1>7. /\ j.pc = "merge" /\ j.todo = job[t].todo /\ j.unique = job[t].unique
      /\ j.match = m /\ j.copy = longer
  BY <1>1, <1>2 DEF Job
<1>8. /\ Len(events') = Len(events) /\ events'[m].raws = longer
      /\ \A f \in 1..Len(events) :
           events'[f].report = events[f].report /\ (f # m => events'[f] = events[f])
  BY <1>1, <1>3, <1>5, RawsNow
<1>9. \A f \in 1..Len(events) : outcome'[f] = IF f = e /\ m # e THEN "merged" ELSE outcome[f]
  <2>1. CASE m = e
    BY <1>1, <2>1 DEF Merged
  <2>2. CASE m # e
    <3>1. outcome' = [outcome EXCEPT ![e] = "merged"] /\ "merged" \in Fate
      BY <1>1, <2>2 DEF Merged, Fate
    <3>2. \A f \in 1..Len(events) : outcome'[f] = IF f = e THEN "merged" ELSE outcome[f]
      BY <1>2, <3>1, OneFate
    <3> QED
      BY <2>2, <3>2
  <2> QED
    BY <2>1, <2>2
<1> HIDE DEF j
<1> QED
  BY <1>1, <1>2, <1>3, <1>6, <1>7, <1>8, <1>9 DEF e

LEMMA Replaces ==
  ASSUME Typed, NEW t \in Thread, ReplaceRaws(t)
  PROVE  LET e == Head(job[t].todo)
             m == job[t].match
         IN /\ job[t].pc = "merge" /\ Others(t) /\ job'[t].pc \in {"find", "feed"}
            /\ TidyJob(job'[t]) /\ job'[t].copy = {} /\ job[t].copy # {}
            /\ job'[t].unique = job[t].unique
            /\ IdsIn(job[t].todo) = {e} \cup IdsIn(job'[t].todo)
            /\ e \in 1..Len(events) /\ m \in 1..Len(events)
            /\ Len(events') = Len(events) /\ events'[m].raws = job[t].copy
            /\ \A f \in 1..Len(events) :
                 events'[f].report = events[f].report /\ (f # m => events'[f] = events[f])
            /\ recent' \subseteq recent /\ (~pruned' => ~pruned /\ recent' = recent)
            /\ UNCHANGED <<seen, buffer, outcome, overlapped>>
<1> DEFINE j == job[t]
<1>1. /\ j.pc = "merge" /\ events' = [events EXCEPT ![j.match].raws = j.copy]
      /\ AfterEvent(t, recent, j) /\ j.copy # {}
      /\ UNCHANGED <<seen, buffer, outcome, overlapped>>
  BY DEF ReplaceRaws
<1>2. /\ j \in Job /\ Fits(j, Len(events)) /\ j.todo # <<>> /\ j.copy \in SUBSET Nat
      /\ Head(j.todo) \in 1..Len(events)
  BY <1>1, AtHand DEF Job
<1>3. j.match \in 1..Len(events)
  BY <1>1, <1>2 DEF Fits
<1> HIDE DEF j
<1>4. /\ Len(events') = Len(events) /\ events'[j.match].raws = j.copy
      /\ \A f \in 1..Len(events) :
           events'[f].report = events[f].report /\ (f # j.match => events'[f] = events[f])
  BY <1>1, <1>2, <1>3, RawsNow
<1>5. /\ Others(t) /\ job'[t].pc \in {"find", "feed"} /\ TidyJob(job'[t])
      /\ job'[t].unique = j.unique /\ job'[t].copy = {}
      /\ IdsIn(j.todo) = {Head(j.todo)} \cup IdsIn(job'[t].todo)
      /\ recent' \subseteq recent /\ (~pruned' => ~pruned /\ recent' = recent)
  BY <1>1, <1>2, AfterTidy
<1> QED
  BY <1>1, <1>2, <1>3, <1>4, <1>5 DEF j

(* A batch ends, fed or failed.                                            *)
LEMMA Ends ==
  ASSUME Typed, Tidy, NEW t \in Thread, Feed(t) \/ BatchFails(t)
  PROVE  /\ Others(t) /\ Hold(t)' = {} /\ job'[t].unique = {} /\ job'[t].copy = {}
         /\ job'[t].todo = <<>> /\ TidyJob(job'[t]) /\ job'[t].pc \in {"idle", "top"}
         /\ \A e \in 1..Len(events) :
              /\ e \notin Hold(t) => outcome'[e] = outcome[e]
              /\ e \in Hold(t) => outcome'[e] # "open"
              /\ outcome[e] = "fed" /\ e \notin job[t].unique => outcome'[e] = "fed"
              /\ outcome'[e] = "fed" => outcome[e] = "fed" \/ e \in job[t].unique
              /\ outcome'[e] = "merged" => outcome[e] = "merged"
         /\ UNCHANGED <<events, recent, seen, buffer, overlapped, pruned>>
<1>1. Done(t) /\ UNCHANGED <<events, recent, seen, buffer, overlapped, pruned>>
  BY DEF Feed, BatchFails
<1>2. DOMAIN outcome = 1..Len(events)
  BY Counted
<1>3. CASE Feed(t)
  <2>1. job[t].todo = <<>>
    BY <1>3 DEF Feed, Tidy, TidyJob
  <2>2. Hold(t) = job[t].unique
    BY <2>1, IdleIsJob DEF Hold
  <2>3. outcome' = [e \in DOMAIN outcome |->
          CASE e \in job[t].unique /\ IsFresh(e) -> "fed"
            [] e \in job[t].unique /\ ~IsFresh(e) -> "stale"
            [] OTHER -> outcome[e]]
    BY <1>3 DEF Feed
  <2>4. \A e \in 1..Len(events) :
          /\ e \notin job[t].unique => outcome'[e] = outcome[e]
          /\ e \in job[t].unique => outcome'[e] \in {"fed", "stale"}
    BY <1>2, <2>3
  <2> QED
    BY <1>1, <2>2, <2>4, WentDone
<1>4. CASE BatchFails(t)
  <2>1. \A e \in 1..Len(events) :
          outcome'[e] = IF e \in Hold(t) /\ outcome[e] = "open" THEN "failed" ELSE outcome[e]
    BY <1>2, <1>4 DEF BatchFails, Hold
  <2> QED
    BY <1>1, <2>1, WentDone
<1> QED
  BY <1>3, <1>4

-----------------------------------------------------------------------------
(* Every step keeps the ledger *)

Ledger == Tidy /\ Apart /\ Looked /\ Fed /\ Opened /\ Carried

LEMMA OnItsWay ==
  ASSUME NEW e
  PROVE  UnderWay(e) <=> (\E t \in Thread : e \in Hold(t)) \/ e \in IdsIn(buffer)
BY DEF UnderWay, InBatch, Hold

LEMMA HoldStays ==
  ASSUME NEW t \in Thread, NEW u \in Thread, Others(t), u # t
  PROVE  Hold(u)' = Hold(u)
BY DEF Others, Hold

LEMMA GatherLedger ==
  ASSUME Typed, Ledger, NEW t \in Thread, Gathers(t)
  PROVE  Ledger'
<1>1. /\ Others(t) /\ UNCHANGED <<recent, seen, pruned>>
      /\ (overlapped => overlapped') /\ Grown
      /\ \/ job' = job
         \/ /\ job[t].unique = {} /\ job'[t].unique = {} /\ job'[t].copy = {} /\ TidyJob(job'[t])
            /\ job'[t].pc \in {"idle", "top", "off", "poll", "find"}
  BY DEF Gathers
<1>2. /\ Hold(t) \cup IdsIn(buffer) \cup (Len(events) + 1)..Len(events')
           \subseteq Hold(t)' \cup IdsIn(buffer')
      /\ Hold(t)' \cap IdsIn(buffer') = {}
      /\ \A u \in Thread : u # t => Hold(u) \cap (Hold(t)' \cup IdsIn(buffer')) = {}
  BY DEF Gathers
<1>3. \A u \in Thread : u # t => job'[u] = job[u] /\ Hold(u)' = Hold(u)
  BY <1>1, HoldStays DEF Others
<1>4. /\ Len(events) \in Nat /\ recent \subseteq 1..Len(events)
      /\ \A u \in Thread : Hold(u) \subseteq 1..Len(events)
      /\ \A u \in Thread : job[u].unique \subseteq 1..Len(events)
      /\ \A e \in 1..Len(events) : events'[e] = events[e] /\ outcome'[e] = outcome[e]
  BY <1>1, Counted, Held DEF Typed, Grown, Hold
<1>5. \A u \in Thread :
        job[u].pc \in {"keep", "merge"} =>
          /\ Head(job[u].todo) \in 1..Len(events)
          /\ job[u].pc = "merge" => job[u].match \in 1..Len(events)
  BY AtHand DEF Fits
<1>6. \A u \in Thread : job'[u].pc \in {"keep", "merge"} => job'[u] = job[u]
  BY <1>1, <1>3
<1>7. \A u \in Thread : job'[u].unique = job[u].unique
  BY <1>1, <1>3
<1>8. Tidy'
  BY <1>1, <1>3 DEF Ledger, Tidy
<1>9. Apart'
  <2>1. \A u, v \in Thread : u # v => Hold(u) \cap Hold(v) = {}
    BY DEF Ledger, Apart
  <2>2. ASSUME NEW u \in Thread, NEW v \in Thread, u # v
        PROVE  Hold(u)' \cap Hold(v)' = {}
    <3> HIDE DEF Hold
    <3>1. CASE u = t
      BY <1>2, <1>3, <2>2, <3>1
    <3>2. CASE v = t
      BY <1>2, <1>3, <2>2, <3>2
    <3>3. CASE u # t /\ v # t
      BY <1>3, <2>1, <2>2, <3>3
    <3> QED
      BY <3>1, <3>2, <3>3
  <2>3. \A u \in Thread : Hold(u)' \cap IdsIn(buffer') = {}
    <3> HIDE DEF Hold
    <3> QED
      BY <1>2, <1>3
  <2> QED
    BY <2>2, <2>3 DEF Apart
<1>10. Looked'
  <2>1. \A f \in recent : TextOf(f)' = TextOf(f)
    BY <1>4 DEF TextOf
  <2> QED
    BY <1>1, <1>6, <2>1 DEF Ledger, Looked
<1>11. Fed'
  <2>1. ASSUME NEW u \in Thread, NEW e \in job'[u].unique
        PROVE  outcome'[e] # "fed" /\ (pruned' \/ e \in recent')
    BY <1>1, <1>4, <1>7, <2>1 DEF Ledger, Fed
  <2>2. ASSUME ~pruned', NEW e \in 1..Len(events'), outcome'[e] = "fed"
        PROVE  e \in recent'
    <3>1. e \in 1..Len(events)
      BY <1>1, <1>4, <2>2 DEF Grown
    <3> QED
      BY <1>1, <1>4, <2>2, <3>1 DEF Ledger, Fed
  <2> QED
    BY <2>1, <2>2 DEF Fed
<1>12. Opened'
  <2>1. ASSUME NEW e \in 1..Len(events'), outcome'[e] = "open"
        PROVE  UnderWay(e)' /\ (e \in recent' => \E u \in Thread : e \in job'[u].unique)
    <3>1. CASE e > Len(events)
      <4>1. e \in (Len(events) + 1)..Len(events') /\ e \notin recent
        BY <1>1, <1>4, <3>1 DEF Grown
      <4>2. e \in Hold(t)' \/ e \in IdsIn(buffer')
        BY <1>2, <4>1
      <4>3. UnderWay(e)'
        BY <4>2 DEF UnderWay, InBatch, Hold
      <4> QED
        BY <1>1, <4>1, <4>3
    <3>2. CASE e \in 1..Len(events)
      <4>1. outcome[e] = "open"
        BY <1>4, <2>1, <3>2
      <4>2. UnderWay(e) /\ (e \in recent => \E u \in Thread : e \in job[u].unique)
        BY <3>2, <4>1 DEF Ledger, Opened
      <4>3. (\E u \in Thread : e \in Hold(u)) \/ e \in IdsIn(buffer)
        BY <4>2, OnItsWay
      <4>4. (\E u \in Thread : e \in Hold(u)') \/ e \in IdsIn(buffer')
        <5> HIDE DEF Hold
        <5> QED
          BY <1>2, <1>3, <4>3
      <4>5. UnderWay(e)'
        BY <4>4 DEF UnderWay, InBatch, Hold
      <4> QED
        BY <1>1, <1>7, <4>2, <4>5
    <3> QED
      BY <1>1, <1>4, <3>1, <3>2 DEF Grown
  <2>2. \A f \in recent' : outcome'[f] # "merged"
    BY <1>1, <1>4 DEF Ledger, Opened
  <2>3. ASSUME NEW u \in Thread, job'[u].pc = "merge", outcome'[Head(job'[u].todo)] = "open",
               job'[u].copy # {} \/ job'[u].match = Head(job'[u].todo)
        PROVE  Head(job'[u].todo) \in job'[u].unique
    <3>1. job'[u] = job[u]
      BY <1>6, <2>3
    <3>2. outcome'[Head(job[u].todo)] = outcome[Head(job[u].todo)]
      BY <1>4, <1>5, <2>3, <3>1
    <3> QED
      BY <2>3, <3>1, <3>2 DEF Ledger, Opened
  <2> QED
    BY <2>1, <2>2, <2>3 DEF Opened
<1>13. Carried'
  <2> SUFFICES ASSUME ~overlapped' PROVE Carried'
    BY DEF Carried
  <2>1. ~overlapped
    BY <1>1
  <2>2. ASSUME NEW e \in 1..Len(events')
        PROVE  \E f \in 1..Len(events') : e \in events'[f].raws /\ outcome'[f] # "merged"
    <3>1. CASE e > Len(events)
      BY <1>1, <3>1 DEF Grown
    <3>2. CASE e \in 1..Len(events)
      <4>1. PICK f \in 1..Len(events) : e \in events[f].raws /\ outcome[f] # "merged"
        BY <2>1, <3>2 DEF Ledger, Carried
      <4>2. f \in 1..Len(events')
        BY <1>1, <1>4 DEF Grown
      <4> QED
        BY <1>4, <4>1, <4>2
    <3> QED
      BY <1>1, <1>4, <3>1, <3>2 DEF Grown
  <2>3. ASSUME NEW u \in Thread, job'[u].pc = "merge" PROVE outcome'[job'[u].match] # "merged"
    BY <1>4, <1>5, <1>6, <2>1, <2>3 DEF Ledger, Carried
  <2>4. ASSUME NEW u \in Thread, job'[u].copy # {} PROVE job'[u].copy = events'[job'[u].match].raws
    <3>1. job'[u].pc = "merge"
      BY <1>8, <2>4 DEF Tidy, TidyJob
    <3> QED
      <4>1. job'[u] = job[u] /\ job[u].match \in 1..Len(events)
        BY <1>5, <1>6, <3>1
      <4>2. job[u].copy # {} => job[u].copy = events[job[u].match].raws
        BY <2>1 DEF Ledger, Carried
      <4> QED
        BY <1>4, <2>4, <4>1, <4>2
  <2> QED
    BY <2>2, <2>3, <2>4 DEF Carried
<1> QED
  BY <1>8, <1>9, <1>10, <1>11, <1>12, <1>13 DEF Ledger

LEMMA ResetLedger ==
  ASSUME Typed, Ledger, Reset
  PROVE  Ledger'
<1>1. /\ recent' = {} /\ seen' = {} /\ buffer' = <<>> /\ pruned' = TRUE
      /\ UNCHANGED <<job, events, overlapped>> /\ IdsIn(buffer') = {}
  BY IdleIsJob DEF Reset
<1>2. DOMAIN outcome = 1..Len(events)
  BY Counted
<1>3. \A e \in 1..Len(events) :
        /\ outcome'[e] = "open" => outcome[e] = "open" /\ e \notin IdsIn(buffer)
        /\ outcome'[e] = "fed" => outcome[e] = "fed"
        /\ outcome'[e] = "merged" => outcome[e] = "merged"
  BY <1>2 DEF Reset
<1>4. \A u \in Thread : Hold(u)' = Hold(u) /\ job[u].unique \subseteq 1..Len(events)
  BY <1>1 DEF Hold, Typed, Fits
<1>5. \A u \in Thread :
        job[u].pc = "merge" => Head(job[u].todo) \in 1..Len(events) /\ job[u].match \in 1..Len(events)
  BY AtHand DEF Fits
<1>6. Tidy'
  BY <1>1 DEF Ledger, Tidy
<1>7. Apart'
  BY <1>1, <1>4 DEF Ledger, Apart
<1>8. Looked'
  BY <1>1 DEF Looked
<1>9. Fed'
  BY <1>1, <1>3, <1>4 DEF Ledger, Fed
<1>10. Opened'
  <2>1. ASSUME NEW e \in 1..Len(events'), outcome'[e] = "open" PROVE UnderWay(e)'
    <3>1. e \in 1..Len(events) /\ outcome[e] = "open" /\ e \notin IdsIn(buffer)
      BY <1>1, <1>3, <2>1
    <3>2. InBatch(e)
      BY <3>1 DEF Ledger, Opened, UnderWay
    <3> QED
      BY <1>1, <3>2 DEF UnderWay, InBatch
  <2>2. ASSUME NEW u \in Thread, job'[u].pc = "merge", outcome'[Head(job'[u].todo)] = "open",
               job'[u].copy # {} \/ job'[u].match = Head(job'[u].todo)
        PROVE  Head(job'[u].todo) \in job'[u].unique
    BY <1>1, <1>3, <1>5, <2>2 DEF Ledger, Opened
  <2> QED
    BY <1>1, <2>1, <2>2 DEF Opened
<1>11. Carried'
  BY <1>1, <1>3, <1>5 DEF Ledger, Carried
<1> QED
  BY <1>6, <1>7, <1>8, <1>9, <1>10, <1>11 DEF Ledger

LEMMA FindLedger ==
  ASSUME Typed, Ledger, NEW t \in Thread, FindDuplicate(t)
  PROVE  Ledger'
<1> DEFINE e == Head(job[t].todo)
<1>1. /\ job[t].pc = "find" /\ Others(t)
      /\ job'[t].todo = job[t].todo /\ job'[t].unique = job[t].unique
      /\ job'[t].copy = job[t].copy
      /\ \/ job'[t].pc = "keep" /\ Matches(e) = {}
         \/ job'[t].pc = "merge" /\ job'[t].match \in Matches(e)
      /\ UNCHANGED <<events, recent, seen, buffer, outcome, overlapped, pruned>>
  BY Finds
<1>2. e \in IdsIn(job[t].todo) /\ e \in Hold(t) /\ e \in 1..Len(events)
  BY <1>1, AtHand DEF Hold
<1>3. job[t].copy = {} /\ job'[t].copy = {}
  BY <1>1 DEF Ledger, Tidy, TidyJob
<1>4. /\ Matches(e) \subseteq recent
      /\ e \in recent => Matches(e) = {e}
  BY DEF Matches, AnySimilar, Ledger, Looked
<1> HIDE DEF e
<1>5. \A u \in Thread : /\ Hold(u)' = Hold(u) /\ job'[u].unique = job[u].unique
                        /\ u # t => job'[u] = job[u]
  BY <1>1 DEF Others, Hold
<1>6. Tidy'
  BY <1>1, <1>3, <1>5 DEF Ledger, Tidy, TidyJob
<1>7. Apart'
  BY <1>1, <1>5 DEF Ledger, Apart
<1>8. Looked'
  <2>1. \A f : TextOf(f)' = TextOf(f)
    BY <1>1 DEF TextOf
  <2>2. /\ job'[t].pc = "keep" => e \notin recent
        /\ job'[t].pc = "merge" /\ e \in recent => job'[t].match = e
    BY <1>1, <1>4
  <2> QED
    BY <1>1, <1>5, <2>1, <2>2 DEF Ledger, Looked, e
<1>9. Fed'
  BY <1>1, <1>5 DEF Ledger, Fed
<1>10. Opened'
  <2>1. \A f : UnderWay(f)' <=> UnderWay(f)
    BY <1>1, <1>5 DEF UnderWay, InBatch, Hold
  <2>2. ASSUME job'[t].pc = "merge", outcome[e] = "open", job'[t].match = e
        PROVE  e \in job[t].unique
    <3>1. e \in recent
      BY <1>1, <1>4, <2>2
    <3>2. PICK u \in Thread : e \in job[u].unique
      BY <1>2, <2>2, <3>1 DEF Ledger, Opened
    <3>3. e \in Hold(u)
      BY <3>2 DEF Hold
    <3>4. u = t
      BY <1>2, <3>3 DEF Ledger, Apart
    <3> QED
      BY <3>2, <3>4
  <2>3. ASSUME NEW u \in Thread, job'[u].pc = "merge", outcome'[Head(job'[u].todo)] = "open",
               job'[u].copy # {} \/ job'[u].match = Head(job'[u].todo)
        PROVE  Head(job'[u].todo) \in job'[u].unique
    <3>1. CASE u = t
      BY <1>1, <1>3, <2>2, <2>3, <3>1 DEF e
    <3>2. CASE u # t
      BY <1>1, <1>5, <2>3, <3>2 DEF Ledger, Opened
    <3> QED
      BY <3>1, <3>2
  <2>4. \A f \in 1..Len(events) : outcome[f] = "open" =>
          UnderWay(f)' /\ (f \in recent => \E u \in Thread : f \in job'[u].unique)
    BY <1>5, <2>1 DEF Ledger, Opened
  <2>5. \A f \in recent : outcome[f] # "merged"
    BY DEF Ledger, Opened
  <2> QED
    BY <1>1, <2>3, <2>4, <2>5 DEF Opened
<1>11. Carried'
  <2> SUFFICES ASSUME ~overlapped PROVE Carried'
    BY <1>1 DEF Carried
  <2>1. job'[t].pc = "merge" => outcome[job'[t].match] # "merged"
    BY <1>1, <1>4 DEF Ledger, Opened
  <2> QED
    BY <1>1, <1>3, <1>5, <2>1 DEF Ledger, Carried
<1> QED
  BY <1>6, <1>7, <1>8, <1>9, <1>10, <1>11 DEF Ledger

LEMMA KeepLedger ==
  ASSUME Typed, Ledger, NEW t \in Thread, KeepEvent(t)
  PROVE  Ledger'
<1> DEFINE e == Head(job[t].todo)
<1>1. /\ job[t].pc = "keep" /\ Others(t) /\ job'[t].pc \in {"find", "feed"}
      /\ TidyJob(job'[t]) /\ job'[t].copy = {}
      /\ job'[t].unique = job[t].unique \cup {e}
      /\ IdsIn(job[t].todo) = {e} \cup IdsIn(job'[t].todo)
      /\ e \in 1..Len(events) /\ seen' = seen \cup {TextOf(e)}
      /\ recent' \subseteq recent \cup {e}
      /\ ~pruned' => ~pruned /\ recent' = recent \cup {e}
      /\ \A f \in 1..Len(events) : outcome'[f] = IF f = e THEN "open" ELSE outcome[f]
      /\ UNCHANGED <<events, buffer, overlapped>>
  BY Keeps
<1>2. e \in Hold(t)
  BY <1>1 DEF Hold
<1> HIDE DEF e
<1>3. \A u \in Thread : /\ Hold(u)' = Hold(u)
                        /\ u # t => job'[u] = job[u] /\ e \notin Hold(u)
                        /\ job[u].unique \subseteq job'[u].unique
                        /\ job[u].unique \subseteq 1..Len(events)
  <2>1. Hold(t)' = Hold(t)
    BY <1>1 DEF Hold
  <2>2. \A u \in Thread : u # t => job'[u] = job[u] /\ Hold(u)' = Hold(u)
    BY <1>1, HoldStays DEF Others
  <2>3. \A u \in Thread : u # t => e \notin Hold(u)
    BY <1>2 DEF Ledger, Apart
  <2>4. \A u \in Thread : job[u].unique \subseteq 1..Len(events)
    BY DEF Typed, Fits
  <2> QED
    BY <1>1, <2>1, <2>2, <2>3, <2>4
<1>4. \A u \in Thread : u # t /\ job[u].pc \in {"keep", "merge"} =>
        /\ Head(job[u].todo) # e /\ Head(job[u].todo) \in 1..Len(events)
        /\ job[u].pc = "merge" => job[u].match \in 1..Len(events)
  BY <1>3, AtHand DEF Hold, Fits
<1>5. recent \subseteq 1..Len(events) /\ \A u \in Thread : job[u].unique \subseteq Hold(u)
  BY DEF Typed, Hold
<1>6. Tidy'
  BY <1>1, <1>3 DEF Ledger, Tidy
<1>7. Apart'
  BY <1>1, <1>3 DEF Ledger, Apart
<1>8. Looked'
  <2>1. \A f : TextOf(f)' = TextOf(f)
    BY <1>1 DEF TextOf
  <2>2. \A f \in recent' : TextOf(f)' \in seen'
    BY <1>1, <2>1 DEF Ledger, Looked
  <2>3. ASSUME NEW u \in Thread
        PROVE  /\ job'[u].pc = "keep" => Head(job'[u].todo) \notin recent'
               /\ job'[u].pc = "merge" /\ Head(job'[u].todo) \in recent'
                    => job'[u].match = Head(job'[u].todo)
    <3>1. CASE u = t
      BY <1>1, <3>1
    <3>2. CASE u # t
      BY <1>1, <1>3, <1>4, <3>2 DEF Ledger, Looked
    <3> QED
      BY <3>1, <3>2
  <2> QED
    BY <2>2, <2>3 DEF Looked
<1>9. Fed'
  <2>1. ASSUME NEW u \in Thread, NEW f \in job'[u].unique
        PROVE  outcome'[f] # "fed" /\ (pruned' \/ f \in recent')
    <3>1. CASE f = e
      BY <1>1, <3>1
    <3>2. CASE f # e
      <4>1. f \in job[u].unique /\ f \in 1..Len(events)
        BY <1>1, <1>3, <2>1, <3>2
      <4> QED
        BY <1>1, <3>2, <4>1 DEF Ledger, Fed
    <3> QED
      BY <3>1, <3>2
  <2>2. ASSUME ~pruned', NEW f \in 1..Len(events'), outcome'[f] = "fed"
        PROVE  f \in recent'
    BY <1>1, <2>2 DEF Ledger, Fed
  <2> QED
    BY <2>1, <2>2 DEF Fed
<1>10. Opened'
  <2>1. \A f : UnderWay(f)' <=> UnderWay(f)
    <3>1. ASSUME NEW f PROVE (\E u \in Thread : f \in Hold(u)') <=> (\E u \in Thread : f \in Hold(u))
      BY <1>3
    <3> QED
      BY <1>1, <3>1 DEF UnderWay, InBatch, Hold
  <2>2. ASSUME NEW f \in 1..Len(events'), outcome'[f] = "open"
        PROVE  UnderWay(f)' /\ (f \in recent' => \E u \in Thread : f \in job'[u].unique)
    <3>1. CASE f = e
      <4>1. UnderWay(f)
        BY <1>2, <3>1 DEF UnderWay, InBatch, Hold
      <4> QED
        BY <1>1, <2>1, <3>1, <4>1
    <3>2. CASE f # e
      <4>1. f \in 1..Len(events) /\ outcome[f] = "open" /\ (f \in recent' => f \in recent)
        BY <1>1, <2>2, <3>2
      <4>2. UnderWay(f) /\ (f \in recent => \E u \in Thread : f \in job[u].unique)
        BY <4>1 DEF Ledger, Opened
      <4> QED
        BY <1>3, <2>1, <4>1, <4>2
    <3> QED
      BY <3>1, <3>2
  <2>3. ASSUME NEW f \in recent' PROVE outcome'[f] # "merged"
    BY <1>1, <1>5, <2>3 DEF Ledger, Opened
  <2>4. ASSUME NEW u \in Thread, job'[u].pc = "merge", outcome'[Head(job'[u].todo)] = "open",
               job'[u].copy # {} \/ job'[u].match = Head(job'[u].todo)
        PROVE  Head(job'[u].todo) \in job'[u].unique
    <3>1. u # t /\ job'[u] = job[u]
      BY <1>1, <1>3, <2>4
    <3>2. outcome[Head(job[u].todo)] = "open"
      BY <1>1, <1>4, <2>4, <3>1
    <3> QED
      BY <2>4, <3>1, <3>2 DEF Ledger, Opened
  <2> QED
    BY <2>2, <2>3, <2>4 DEF Opened
<1>11. Carried'
  <2> SUFFICES ASSUME ~overlapped PROVE Carried'
    BY <1>1 DEF Carried
  <2>1. \A f \in 1..Len(events) : outcome[f] # "merged" => outcome'[f] # "merged"
    BY <1>1
  <2>2. \A x \in 1..Len(events') : \E f \in 1..Len(events') :
          x \in events'[f].raws /\ outcome'[f] # "merged"
    BY <1>1, <2>1 DEF Ledger, Carried
  <2>3. ASSUME NEW u \in Thread
        PROVE  /\ job'[u].pc = "merge" => outcome'[job'[u].match] # "merged"
               /\ job'[u].copy # {} => job'[u].copy = events'[job'[u].match].raws
    <3>1. CASE u = t
      BY <1>1, <3>1
    <3>2. CASE u # t
      <4>1. job'[u] = job[u] /\ events' = events
        BY <1>1, <1>3, <3>2
      <4>2. /\ job[u].pc = "merge" => outcome[job[u].match] # "merged"
            /\ job[u].copy # {} => job[u].copy = events[job[u].match].raws
        BY DEF Ledger, Carried
      <4>3. job[u].pc = "merge" => job[u].match \in 1..Len(events)
        BY <1>4, <3>2
      <4> QED
        BY <2>1, <4>1, <4>2, <4>3
    <3> QED
      BY <3>1, <3>2
  <2> QED
    BY <2>2, <2>3 DEF Carried
<1> QED
  BY <1>6, <1>7, <1>8, <1>9, <1>10, <1>11 DEF Ledger

LEMMA ExtendLedger ==
  ASSUME Typed, Solo, Ledger, NEW t \in Thread, ExtendRaws(t)
  PROVE  Ledger'
<1> DEFINE e == Head(job[t].todo)
           m == job[t].match
<1>1. /\ job[t].pc = "merge" /\ Others(t) /\ job'[t].pc = "merge"
      /\ job'[t].todo = job[t].todo /\ job'[t].unique = job[t].unique
      /\ job'[t].match = m /\ e \in IdsIn(job[t].todo)
      /\ e \in 1..Len(events) /\ m \in 1..Len(events)
      /\ Len(events') = Len(events)
      /\ events'[m].raws = events[m].raws \cup events[e].raws
      /\ job'[t].copy = events'[m].raws
      /\ \A f \in 1..Len(events) :
           /\ events'[f].report = events[f].report
           /\ f # m => events'[f] = events[f]
      /\ \A f \in 1..Len(events) :
           outcome'[f] = IF f = e /\ m # e THEN "merged" ELSE outcome[f]
      /\ UNCHANGED <<recent, seen, buffer, overlapped, pruned>>
  BY Extends
<1>2. e \in Hold(t)
  BY <1>1 DEF Hold
<1>3. e \in recent => m = e
  BY <1>1 DEF Ledger, Looked
<1>4. /\ \A u \in Thread : /\ Hold(u)' = Hold(u) /\ job'[u].unique = job[u].unique
                           /\ job'[u].todo = job[u].todo /\ job'[u].pc = job[u].pc
                           /\ job'[u].match = job[u].match
                           /\ u # t => job'[u] = job[u] /\ e \notin Hold(u)
                           /\ job[u].unique \subseteq 1..Len(events)
      /\ recent \subseteq 1..Len(events)
  <2>1. \A u \in Thread : u # t => job'[u] = job[u] /\ e \notin Hold(u)
    BY <1>1, <1>2 DEF Others, Ledger, Apart
  <2>2. \A u \in Thread : job'[u].unique = job[u].unique /\ job'[u].todo = job[u].todo
                            /\ job'[u].pc = job[u].pc /\ job'[u].match = job[u].match
    BY <1>1, <2>1
  <2>3. \A u \in Thread : job[u].unique \subseteq 1..Len(events)
    BY DEF Typed, Fits
  <2> QED
    BY <2>1, <2>2, <2>3 DEF Hold, Typed
<1>5. \A u \in Thread : u # t /\ job[u].pc \in {"keep", "merge"} =>
        Head(job[u].todo) # e /\ Head(job[u].todo) \in 1..Len(events)
  BY <1>4, AtHand DEF Hold
<1>6. Tidy'
  BY <1>1, <1>4 DEF Ledger, Tidy, TidyJob
<1>7. Apart'
  BY <1>1, <1>4 DEF Ledger, Apart
<1>8. Looked'
  <2>1. \A f \in recent : TextOf(f)' = TextOf(f)
    BY <1>1, <1>4 DEF TextOf
  <2> QED
    BY <1>1, <1>4, <2>1 DEF Ledger, Looked
<1>9. Fed'
  <2>1. \A f \in 1..Len(events) : outcome'[f] = "fed" => outcome[f] = "fed"
    BY <1>1
  <2> QED
    BY <1>1, <1>4, <2>1 DEF Ledger, Fed
<1>10. Opened'
  <2>1. \A f : UnderWay(f)' <=> UnderWay(f)
    <3>1. \A f : (\E u \in Thread : f \in Hold(u)') <=> (\E u \in Thread : f \in Hold(u))
      BY <1>4
    <3> QED
      BY <1>1, <3>1 DEF UnderWay, InBatch, Hold
  <2>2. \A f \in 1..Len(events) : outcome'[f] = "open" =>
          UnderWay(f)' /\ (f \in recent => \E u \in Thread : f \in job'[u].unique)
    BY <1>1, <1>4, <2>1 DEF Ledger, Opened
  <2>3. \A f \in recent : outcome'[f] # "merged"
    BY <1>1, <1>3, <1>4 DEF Ledger, Opened
  <2>4. ASSUME NEW u \in Thread, job'[u].pc = "merge", outcome'[Head(job'[u].todo)] = "open",
               job'[u].copy # {} \/ job'[u].match = Head(job'[u].todo)
        PROVE  Head(job'[u].todo) \in job'[u].unique
    <3>1. CASE u = t
      <4>1. outcome[e] = "open" /\ m = e
        BY <1>1, <2>4, <3>1
      <4> QED
        BY <1>1, <3>1, <4>1 DEF Ledger, Opened
    <3>2. CASE u # t
      <4>1. job'[u] = job[u] /\ outcome[Head(job[u].todo)] = "open"
        BY <1>1, <1>4, <1>5, <2>4, <3>2
      <4> QED
        BY <2>4, <4>1 DEF Ledger, Opened
    <3> QED
      BY <3>1, <3>2
  <2> QED
    BY <1>1, <2>2, <2>3, <2>4 DEF Opened
<1>11. Carried'
  <2> SUFFICES ASSUME ~overlapped PROVE Carried'
    BY <1>1 DEF Carried
  <2>1. \A u \in Thread : u # t => job[u].pc # "merge" /\ job[u].copy = {}
    BY <1>1 DEF Solo, InPipeline, Ledger, Tidy, TidyJob
  <2>2. outcome[m] # "merged" /\ outcome'[m] # "merged"
    <3>1. outcome[m] # "merged"
      BY <1>1 DEF Ledger, Carried
    <3> QED
      BY <1>1, <3>1
  <2>3. ASSUME NEW x \in 1..Len(events)
        PROVE  \E f \in 1..Len(events) : x \in events'[f].raws /\ outcome'[f] # "merged"
    <3>1. PICK f \in 1..Len(events) : x \in events[f].raws /\ outcome[f] # "merged"
      BY DEF Ledger, Carried
    <3>2. CASE f = e \/ f = m
      <4>1. x \in events'[m].raws
        BY <1>1, <3>1, <3>2
      <4> QED
        BY <1>1, <2>2, <4>1
    <3>3. CASE f # e /\ f # m
      BY <1>1, <3>1, <3>3
    <3> QED
      BY <3>2, <3>3
  <2>4. ASSUME NEW u \in Thread
        PROVE  /\ job'[u].pc = "merge" => outcome'[job'[u].match] # "merged"
               /\ job'[u].copy # {} => job'[u].copy = events'[job'[u].match].raws
    <3>1. CASE u = t
      BY <1>1, <2>2, <3>1
    <3>2. CASE u # t
      BY <1>4, <2>1, <3>2
    <3> QED
      BY <3>1, <3>2
  <2> QED
    BY <1>1, <2>3, <2>4 DEF Carried
<1> QED
  BY <1>6, <1>7, <1>8, <1>9, <1>10, <1>11 DEF Ledger

LEMMA ReplaceLedger ==
  ASSUME Typed, Ledger, NEW t \in Thread, ReplaceRaws(t)
  PROVE  Ledger'
<1> DEFINE e == Head(job[t].todo)
           m == job[t].match
<1>1. /\ job[t].pc = "merge" /\ Others(t) /\ job'[t].pc \in {"find", "feed"}
      /\ TidyJob(job'[t]) /\ job'[t].copy = {} /\ job[t].copy # {}
      /\ job'[t].unique = job[t].unique
      /\ IdsIn(job[t].todo) = {e} \cup IdsIn(job'[t].todo)
      /\ e \in 1..Len(events) /\ m \in 1..Len(events)
      /\ Len(events') = Len(events) /\ events'[m].raws = job[t].copy
      /\ \A f \in 1..Len(events) :
           events'[f].report = events[f].report /\ (f # m => events'[f] = events[f])
      /\ recent' \subseteq recent /\ (~pruned' => ~pruned /\ recent' = recent)
      /\ UNCHANGED <<seen, buffer, outcome, overlapped>>
  BY Replaces
<1>2. /\ Hold(t) = {e} \cup Hold(t)'
      /\ \A u \in Thread : u # t => Hold(u)' = Hold(u) /\ job'[u] = job[u]
      /\ \A u \in Thread : job'[u].unique = job[u].unique
      /\ recent \subseteq 1..Len(events)
  <2>1. \A u \in Thread : u # t => Hold(u)' = Hold(u) /\ job'[u] = job[u]
    BY <1>1, HoldStays DEF Others
  <2>2. Hold(t) = {e} \cup Hold(t)'
    BY <1>1 DEF Hold
  <2> QED
    BY <1>1, <2>1, <2>2 DEF Typed
<1>3. outcome[e] = "open" => e \in job[t].unique
  BY <1>1 DEF Ledger, Opened
<1>4. outcome[e] = "open" => e \in Hold(t)'
  BY <1>1, <1>3 DEF Hold
<1> HIDE DEF e
<1>6. Tidy'
  BY <1>1, <1>2 DEF Ledger, Tidy
<1>7. Apart'
  <2>1. /\ \A u, v \in Thread : u # v => Hold(u) \cap Hold(v) = {}
        /\ \A u \in Thread : Hold(u) \cap IdsIn(buffer) = {}
    BY DEF Ledger, Apart
  <2>2. \A u \in Thread : Hold(u)' \subseteq Hold(u)
    <3> HIDE DEF Hold
    <3> QED
      BY <1>2
  <2>3. /\ \A u, v \in Thread : u # v => Hold(u)' \cap Hold(v)' = {}
        /\ \A u \in Thread : Hold(u)' \cap IdsIn(buffer') = {}
    <3> HIDE DEF Hold
    <3> QED
      BY <1>1, <2>1, <2>2
  <2> QED
    BY <2>3 DEF Apart
<1>8. Looked'
  <2>1. \A f \in recent : TextOf(f)' = TextOf(f)
    BY <1>1, <1>2 DEF TextOf
  <2>2. \A f \in recent' : TextOf(f)' \in seen'
    BY <1>1, <2>1 DEF Ledger, Looked
  <2>3. ASSUME NEW u \in Thread
        PROVE  /\ job'[u].pc = "keep" => Head(job'[u].todo) \notin recent'
               /\ job'[u].pc = "merge" /\ Head(job'[u].todo) \in recent'
                    => job'[u].match = Head(job'[u].todo)
    <3>1. CASE u = t
      BY <1>1, <3>1
    <3>2. CASE u # t
      BY <1>1, <1>2, <3>2 DEF Ledger, Looked
    <3> QED
      BY <3>1, <3>2
  <2> QED
    BY <2>2, <2>3 DEF Looked
<1>9. Fed'
  BY <1>1, <1>2 DEF Ledger, Fed
<1>10. Opened'
  <2>1. ASSUME NEW f \in 1..Len(events'), outcome'[f] = "open" PROVE UnderWay(f)'
    <3>1. f \in 1..Len(events) /\ outcome[f] = "open"
      BY <1>1, <2>1
    <3>2. (\E u \in Thread : f \in Hold(u)) \/ f \in IdsIn(buffer)
      BY <3>1, OnItsWay DEF Ledger, Opened
    <3>3. (\E u \in Thread : f \in Hold(u)') \/ f \in IdsIn(buffer')
      <4>1. ASSUME NEW u \in Thread, f \in Hold(u) PROVE f \in Hold(u)'
        <5> HIDE DEF Hold
        <5>1. CASE u = t
          BY <1>2, <1>4, <3>1, <4>1, <5>1
        <5>2. CASE u # t
          BY <1>2, <4>1, <5>2
        <5> QED
          BY <5>1, <5>2
      <4> QED
        BY <1>1, <3>2, <4>1
    <3> QED
      BY <3>3 DEF UnderWay, InBatch, Hold
  <2>2. \A f \in 1..Len(events') : outcome'[f] = "open" =>
          (f \in recent' => \E u \in Thread : f \in job'[u].unique)
    BY <1>1, <1>2 DEF Ledger, Opened
  <2>3. \A f \in recent' : outcome'[f] # "merged"
    BY <1>1 DEF Ledger, Opened
  <2>4. ASSUME NEW u \in Thread, job'[u].pc = "merge", outcome'[Head(job'[u].todo)] = "open",
               job'[u].copy # {} \/ job'[u].match = Head(job'[u].todo)
        PROVE  Head(job'[u].todo) \in job'[u].unique
    <3>1. u # t /\ job'[u] = job[u]
      BY <1>1, <1>2, <2>4
    <3> QED
      BY <1>1, <2>4, <3>1 DEF Ledger, Opened
  <2> QED
    BY <2>1, <2>2, <2>3, <2>4 DEF Opened
<1>11. Carried'
  <2> SUFFICES ASSUME ~overlapped PROVE Carried'
    BY <1>1 DEF Carried
  <2>1. job[t].copy = events[m].raws
    BY <1>1 DEF Ledger, Carried
  <2>2. \A f \in 1..Len(events) : events'[f].raws = events[f].raws
    BY <1>1, <2>1
  <2>3. \A x \in 1..Len(events') : \E f \in 1..Len(events') :
          x \in events'[f].raws /\ outcome'[f] # "merged"
    BY <1>1, <2>2 DEF Ledger, Carried
  <2>4. ASSUME NEW u \in Thread
        PROVE  /\ job'[u].pc = "merge" => outcome'[job'[u].match] # "merged"
               /\ job'[u].copy # {} => job'[u].copy = events'[job'[u].match].raws
    <3>1. CASE u = t
      BY <1>1, <3>1
    <3>2. CASE u # t
      <4>1. job'[u] = job[u] /\ outcome' = outcome
        BY <1>1, <1>2, <3>2
      <4>2. /\ job[u].pc = "merge" => outcome[job[u].match] # "merged"
            /\ job[u].copy # {} => job[u].copy = events[job[u].match].raws
        BY DEF Ledger, Carried
      <4>3. job[u].copy # {} => job[u].match \in 1..Len(events)
        BY AtHand DEF Fits, Ledger, Tidy, TidyJob
      <4> QED
        BY <2>2, <4>1, <4>2, <4>3
    <3> QED
      BY <3>1, <3>2
  <2> QED
    BY <2>3, <2>4 DEF Carried
<1> QED
  BY <1>6, <1>7, <1>8, <1>9, <1>10, <1>11 DEF Ledger

LEMMA EndLedger ==
  ASSUME Typed, Ledger, NEW t \in Thread, Feed(t) \/ BatchFails(t)
  PROVE  Ledger'
<1>1. /\ Others(t) /\ Hold(t)' = {} /\ job'[t].unique = {} /\ job'[t].copy = {}
      /\ job'[t].todo = <<>> /\ TidyJob(job'[t]) /\ job'[t].pc \in {"idle", "top"}
      /\ \A e \in 1..Len(events) :
           /\ e \notin Hold(t) => outcome'[e] = outcome[e]
           /\ e \in Hold(t) => outcome'[e] # "open"
           /\ outcome[e] = "fed" /\ e \notin job[t].unique => outcome'[e] = "fed"
           /\ outcome'[e] = "fed" => outcome[e] = "fed" \/ e \in job[t].unique
           /\ outcome'[e] = "merged" => outcome[e] = "merged"
      /\ UNCHANGED <<events, recent, seen, buffer, overlapped, pruned>>
  BY Ends DEF Ledger
<1>2. \A u \in Thread : u # t => Hold(u)' = Hold(u) /\ job'[u] = job[u]
  BY <1>1, HoldStays DEF Others
<1>3. \A u \in Thread : u # t => Hold(u) \cap Hold(t) = {}
  BY DEF Ledger, Apart
<1>4. /\ recent \subseteq 1..Len(events)
      /\ \A u \in Thread : job[u].unique \subseteq Hold(u) /\ Hold(u) \subseteq 1..Len(events)
  BY Held DEF Hold, Typed
<1>5. \A u \in Thread : u # t /\ job[u].pc = "merge" =>
        /\ Head(job[u].todo) \in 1..Len(events) /\ Head(job[u].todo) \notin Hold(t)
        /\ job[u].match \in 1..Len(events)
  BY <1>3, AtHand DEF Hold, Fits
<1>6. Tidy'
  BY <1>1, <1>2 DEF Ledger, Tidy
<1>7. Apart'
  <2>1. /\ \A u, v \in Thread : u # v => Hold(u) \cap Hold(v) = {}
        /\ \A u \in Thread : Hold(u) \cap IdsIn(buffer) = {}
    BY DEF Ledger, Apart
  <2>2. \A u \in Thread : Hold(u)' \subseteq Hold(u)
    <3> HIDE DEF Hold
    <3> QED
      BY <1>1, <1>2
  <2>3. /\ \A u, v \in Thread : u # v => Hold(u)' \cap Hold(v)' = {}
        /\ \A u \in Thread : Hold(u)' \cap IdsIn(buffer') = {}
    <3> HIDE DEF Hold
    <3> QED
      BY <1>1, <2>1, <2>2
  <2> QED
    BY <2>3 DEF Apart
<1>8. Looked'
  <2>1. \A f : TextOf(f)' = TextOf(f)
    BY <1>1 DEF TextOf
  <2>3. ASSUME NEW u \in Thread
        PROVE  /\ job'[u].pc = "keep" => Head(job'[u].todo) \notin recent'
               /\ job'[u].pc = "merge" /\ Head(job'[u].todo) \in recent'
                    => job'[u].match = Head(job'[u].todo)
    <3>1. CASE u = t
      BY <1>1, <3>1
    <3>2. CASE u # t
      BY <1>1, <1>2, <3>2 DEF Ledger, Looked
    <3> QED
      BY <3>1, <3>2
  <2> QED
    BY <1>1, <2>1, <2>3 DEF Ledger, Looked
<1>9. Fed'
  <2>1. ASSUME NEW u \in Thread, NEW e \in job'[u].unique
        PROVE  outcome'[e] # "fed" /\ (pruned' \/ e \in recent')
    <3>1. u # t /\ e \in job[u].unique
      BY <1>1, <1>2, <2>1
    <3>2. e \in Hold(u) /\ e \in 1..Len(events)
      BY <1>4, <3>1
    <3>3. e \notin Hold(t)
      BY <1>3, <3>1, <3>2
    <3> QED
      BY <1>1, <3>1, <3>2, <3>3 DEF Ledger, Fed
  <2>2. ASSUME ~pruned', NEW e \in 1..Len(events'), outcome'[e] = "fed"
        PROVE  e \in recent'
    BY <1>1, <2>2 DEF Ledger, Fed
  <2> QED
    BY <2>1, <2>2 DEF Fed
<1>10. Opened'
  <2>1. ASSUME NEW f \in 1..Len(events'), outcome'[f] = "open"
        PROVE  UnderWay(f)' /\ (f \in recent' => \E u \in Thread : f \in job'[u].unique)
    <3>1. f \in 1..Len(events) /\ outcome[f] = "open" /\ f \notin Hold(t)
      BY <1>1, <2>1
    <3>2. (\E u \in Thread : f \in Hold(u)) \/ f \in IdsIn(buffer)
      BY <3>1, OnItsWay DEF Ledger, Opened
    <3>3. (\E u \in Thread : f \in Hold(u)') \/ f \in IdsIn(buffer')
      <4> HIDE DEF Hold
      <4> QED
        BY <1>1, <1>2, <3>1, <3>2
    <3>4. UnderWay(f)'
      BY <3>3 DEF UnderWay, InBatch, Hold
    <3>5. ASSUME f \in recent' PROVE \E u \in Thread : f \in job'[u].unique
      <4>1. PICK u \in Thread : f \in job[u].unique
        BY <1>1, <3>1, <3>5 DEF Ledger, Opened
      <4>2. u # t
        BY <1>4, <3>1, <4>1
      <4> QED
        BY <1>2, <4>1, <4>2
    <3> QED
      BY <3>4, <3>5
  <2>2. \A f \in recent' : outcome'[f] # "merged"
    BY <1>1, <1>4 DEF Ledger, Opened
  <2>3. ASSUME NEW u \in Thread, job'[u].pc = "merge", outcome'[Head(job'[u].todo)] = "open",
               job'[u].copy # {} \/ job'[u].match = Head(job'[u].todo)
        PROVE  Head(job'[u].todo) \in job'[u].unique
    <3>1. u # t /\ job'[u] = job[u]
      BY <1>1, <1>2, <2>3
    <3>2. outcome[Head(job[u].todo)] = "open"
      BY <1>1, <1>5, <2>3, <3>1
    <3> QED
      BY <2>3, <3>1, <3>2 DEF Ledger, Opened
  <2> QED
    BY <2>1, <2>2, <2>3 DEF Opened
<1>11. Carried'
  <2> SUFFICES ASSUME ~overlapped PROVE Carried'
    BY <1>1 DEF Carried
  <2>1. \A f \in 1..Len(events) : outcome[f] # "merged" => outcome'[f] # "merged"
    BY <1>1
  <2>2. \A x \in 1..Len(events') : \E f \in 1..Len(events') :
          x \in events'[f].raws /\ outcome'[f] # "merged"
    BY <1>1, <2>1 DEF Ledger, Carried
  <2>3. ASSUME NEW u \in Thread
        PROVE  /\ job'[u].pc = "merge" => outcome'[job'[u].match] # "merged"
               /\ job'[u].copy # {} => job'[u].copy = events'[job'[u].match].raws
    <3>1. CASE u = t
      BY <1>1, <3>1
    <3>2. CASE u # t
      <4>1. job'[u] = job[u] /\ events' = events
        BY <1>1, <1>2, <3>2
      <4>2. /\ job[u].pc = "merge" => outcome[job[u].match] # "merged"
            /\ job[u].copy # {} => job[u].copy = events[job[u].match].raws
        BY DEF Ledger, Carried
      <4> QED
        BY <1>5, <2>1, <3>2, <4>1, <4>2
    <3> QED
      BY <3>1, <3>2
  <2> QED
    BY <2>2, <2>3 DEF Carried
<1> QED
  BY <1>6, <1>7, <1>8, <1>9, <1>10, <1>11 DEF Ledger

(* A step gathers, forgets, or is one of a thread in the pipeline.         *)
LEMMA Classes ==
  ASSUME Typed, Ledger, [LiveNext]_liveVars
  PROVE  \/ Reset
         \/ \E t \in Thread :
              \/ Gathers(t) \/ FindDuplicate(t) \/ KeepEvent(t) \/ ExtendRaws(t) \/ ReplaceRaws(t)
              \/ Feed(t) \/ BatchFails(t)
<1>1. Typed /\ Tidy /\ Apart /\ Main \in Thread
  BY Counted DEF Ledger
<1>2. CASE Tick \/ StopContinuous \/ UNCHANGED liveVars
  BY <1>1, <1>2, StillGathers
<1>3. CASE StartContinuous
  BY <1>1, <1>3, StartGathers
<1>4. CASE \E t \in Loop : LoopTop(t)
  BY <1>1, <1>4, TopGathers
<1>5. CASE Ingest
  BY <1>1, <1>5, IngestGathers
<1>6. CASE BufferEvent
  BY <1>1, <1>6, BufferGathers
<1>7. CASE FlushBuffer
  BY <1>1, <1>7, FlushGathers
<1>8. CASE \E s \in Source : PollAndIngest(s)
  BY <1>1, <1>8, MainPollGathers
<1>9. ASSUME NEW t \in Thread, Works(t)
      PROVE  \/ Gathers(t) \/ FindDuplicate(t) \/ KeepEvent(t) \/ ExtendRaws(t) \/ ReplaceRaws(t)
             \/ Feed(t) \/ BatchFails(t)
  <2>1. CASE \E s \in Source : Poll(t, s)
    BY <1>1, <2>1, PollGathers
  <2>2. CASE IngestPolled(t)
    BY <1>1, <2>2, PolledGathers
  <2> QED
    BY <1>9, <2>1, <2>2 DEF Works
<1> QED
  BY <1>2, <1>3, <1>4, <1>5, <1>6, <1>7, <1>8, <1>9 DEF LiveNext

LEMMA LedgerStep ==
  ASSUME Typed, Solo, Ledger, [LiveNext]_liveVars
  PROVE  Ledger'
BY Classes, GatherLedger, ResetLedger, FindLedger, KeepLedger, ExtendLedger, ReplaceLedger, EndLedger

(* What is fed is its own duplicate: no thread can keep or merge it.       *)
LEMMA FedStep ==
  ASSUME Typed, Ledger, [LiveNext]_liveVars, NEW e \in 1..Len(events), outcome[e] = "fed", ~pruned'
  PROVE  outcome'[e] = "fed"
<1>1. CASE Reset
  BY <1>1 DEF Reset
<1>2. ASSUME NEW t \in Thread, Gathers(t) PROVE outcome'[e] = "fed"
  BY <1>2 DEF Gathers, Grown
<1>3. ASSUME NEW t \in Thread, FindDuplicate(t) \/ ReplaceRaws(t) PROVE outcome'[e] = "fed"
  BY <1>3 DEF FindDuplicate, ReplaceRaws
<1>4. ASSUME NEW t \in Thread, KeepEvent(t) PROVE outcome'[e] = "fed"
  <2>1. /\ job[t].pc = "keep" /\ ~pruned
        /\ outcome'[e] = IF e = Head(job[t].todo) THEN "open" ELSE outcome[e]
    BY <1>4, Keeps
  <2>2. e \in recent /\ Head(job[t].todo) \notin recent
    BY <2>1 DEF Ledger, Fed, Looked
  <2> QED
    BY <2>1, <2>2
<1>5. ASSUME NEW t \in Thread, ExtendRaws(t) PROVE outcome'[e] = "fed"
  <2>1. /\ job[t].pc = "merge" /\ ~pruned
        /\ outcome'[e] = IF e = Head(job[t].todo) /\ job[t].match # Head(job[t].todo)
                         THEN "merged" ELSE outcome[e]
    BY <1>5, Extends
  <2>2. e \in recent /\ (e = Head(job[t].todo) => job[t].match = e)
    BY <2>1 DEF Ledger, Fed, Looked
  <2> QED
    BY <2>1, <2>2
<1>6. ASSUME NEW t \in Thread, Feed(t) \/ BatchFails(t) PROVE outcome'[e] = "fed"
  <2>1. e \notin job[t].unique
    BY DEF Ledger, Fed
  <2> QED
    BY <1>6, <2>1, Ends DEF Ledger
<1> QED
  BY <1>1, <1>2, <1>3, <1>4, <1>5, <1>6, Classes

LEMMA InitLedger == LiveInit => Ledger
<1> SUFFICES ASSUME LiveInit PROVE Ledger
  OBVIOUS
<1>1. job = [t \in Thread |-> IF t = Main THEN Idle ELSE [Idle EXCEPT !.pc = "off"]]
  BY DEF LiveInit
<1>2. ASSUME NEW t \in Thread
      PROVE  job[t].todo = <<>> /\ job[t].unique = {} /\ job[t].copy = {} /\ job[t].pc \in {"idle", "off"}
  <2>1. CASE t = Main
    BY <1>1, <2>1 DEF Idle
  <2>2. CASE t # Main
    BY <1>1, <2>2 DEF Idle
  <2> QED
    BY <2>1, <2>2
<1>3. /\ recent = {} /\ buffer = <<>> /\ IdsIn(buffer) = {} /\ Len(events) = 0 /\ 1..0 = {}
  BY EmptySeq, IdleIsJob DEF LiveInit
<1>4. \A t \in Thread : Hold(t) = {}
  BY <1>2, IdleIsJob DEF Hold
<1>5. Tidy /\ Apart
  BY <1>2, <1>3, <1>4 DEF Tidy, TidyJob, Apart
<1>6. Looked /\ Fed
  BY <1>2, <1>3 DEF Looked, Fed
<1>7. Opened /\ Carried
  BY <1>2, <1>3 DEF Opened, Carried
<1> QED
  BY <1>5, <1>6, <1>7 DEF Ledger

(* Whatever is offered again, after a success or a failure, and whatever   *)
(* threads overlap: what was fed stays fed, and is neither kept as new nor *)
(* merged into another, until the detector forgets.                        *)
THEOREM FedOnceAlways == LiveSpec => FedOnce
<1>1. LiveInit => Typed /\ Solo /\ Compared /\ Ledger
  BY InitStories, InitLedger
<1>2. Typed /\ Solo /\ Compared /\ Ledger /\ [LiveNext]_liveVars
        => (Typed /\ Solo /\ Compared /\ Ledger)'
  BY TypedStep, StoriesStep, LedgerStep
<1>3. Typed /\ Ledger /\ [LiveNext]_liveVars =>
        \A e \in DOMAIN outcome : outcome[e] = "fed" => outcome'[e] = "fed" \/ pruned'
  BY FedStep, Counted
<1> QED
  BY <1>1, <1>2, <1>3, PTL DEF LiveSpec, FedOnce

(* Without overlap every item is carried, after any merges and any         *)
(* retries, by an event under way or one whose end was told.               *)
THEOREM AccountedAlways == LiveSpec => []Accounted
<1>1. LiveInit => Typed /\ Solo /\ Compared /\ Ledger
  BY InitStories, InitLedger
<1>2. Typed /\ Solo /\ Compared /\ Ledger /\ [LiveNext]_liveVars
        => (Typed /\ Solo /\ Compared /\ Ledger)'
  BY TypedStep, StoriesStep, LedgerStep
<1>3. Typed /\ Ledger => Accounted
  <2> SUFFICES ASSUME Typed, Ledger, ~overlapped, NEW e \in 1..Len(events)
      PROVE  \E f \in 1..Len(events) :
               /\ e \in events[f].raws
               /\ UnderWay(f) \/ outcome[f] \in {"fed", "stale", "failed", "reset"}
    BY Counted DEF Accounted
  <2>1. PICK f \in 1..Len(events) : e \in events[f].raws /\ outcome[f] # "merged"
    BY DEF Ledger, Carried
  <2>2. outcome[f] \in Fate /\ (outcome[f] = "open" => UnderWay(f))
    BY Told DEF Ledger, Opened
  <2> QED
    BY <2>1, <2>2 DEF Fate
<1> QED
  BY <1>1, <1>2, <1>3, PTL DEF LiveSpec
=============================================================================
