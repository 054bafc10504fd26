---------------------------- MODULE BeliefStore ----------------------------
(***************************************************************************)
(* BeliefMemoryStore of src/src/memory/store.py: beliefs in memory, loaded *)
(* lazily from a JSON file and written back as a whole, through a          *)
(* temporary file that replaces the old one.  Several stores, of several   *)
(* processes or requests, may use the same file.                           *)
(***************************************************************************)
EXTENDS Integers, Sequences, FiniteSets

CONSTANTS
  Store,        \* store objects on the one file
  Dimension, Direction,
  Tenths,       \* confidences, in tenths
  MaxBeliefs,   \* bound on the beliefs ever built
  MaxBatch,     \* bound on the beliefs of one call
  MaxFailures   \* bound on the writes that fail

ASSUME BeliefStoreAssumption ==
  /\ Tenths \subseteq Int
  /\ MaxBeliefs \in Nat /\ MaxBatch \in Nat /\ MaxFailures \in Nat

VARIABLES
  records,    \* _records of each store
  loaded,     \* _loaded
  dirty,      \* _dirty
  phase,      \* "idle", "built" (beliefs stamped, record_batch comes), "writing"
  pending,    \* the argument of record_batch
  file,       \* the records in the file
  clock,      \* history: beliefs built so far
  failures    \* history: writes that failed so far

storeVars == <<records, loaded, dirty, phase, pending, file, clock, failures>>

Transition == {"new", "reversed", "reinforced", "weakened", "stable"}

Content == [dimension : Dimension, direction : Direction, confidence : Tenths]

Stamped ==
  [dimension : Dimension, direction : Direction, confidence : Tenths, timestamp : Nat]

BeliefRecord ==
  [dimension : Dimension, direction : Direction, confidence : Tenths,
   timestamp : Nat, transition : Transition]

StoreInit ==
  /\ records = [s \in Store |-> <<>>]
  /\ loaded = [s \in Store |-> FALSE]
  /\ dirty = [s \in Store |-> FALSE]
  /\ phase = [s \in Store |-> "idle"]
  /\ pending = [s \in Store |-> <<>>]
  /\ file = <<>>
  /\ clock = 0 /\ failures = 0

-----------------------------------------------------------------------------
(* Transition detection *)

Of(seq, dimension) == {i \in DOMAIN seq : seq[i].dimension = dimension}

FirstBelief(seq, dimension) ==      \* mutant: min for max
  CHOOSE i \in Of(seq, dimension) :
    \A j \in Of(seq, dimension) : seq[i].timestamp <= seq[j].timestamp

(* last_belief: the newest by timestamp. *)
LastBelief(seq, dimension) ==
  CHOOSE i \in Of(seq, dimension) :
    \A j \in Of(seq, dimension) : seq[j].timestamp <= seq[i].timestamp

(* Confidences are rounded, so that a difference of 0.10 is exactly that.  *)
Compare(belief, prior) ==
  LET delta == belief.confidence - prior.confidence
  IN CASE belief.direction # prior.direction -> "reversed"
       [] belief.direction = prior.direction /\ delta > 1  -> "reinforced"
       [] belief.direction = prior.direction /\ delta < -1 -> "weakened"
       [] OTHER -> "stable"

CompareToAny(belief, seq) ==        \* mutant: a dimension without beliefs gets no transition
  IF Of(seq, belief.dimension) = {} THEN "none"
  ELSE Compare(belief, seq[LastBelief(seq, belief.dimension)])

Detect(belief, seq) ==
  IF Of(seq, belief.dimension) = {} THEN "new"
  ELSE Compare(belief, seq[LastBelief(seq, belief.dimension)])

(* Within a batch each belief sees those before it. *)
Marked(seq, batch) ==
  [i \in DOMAIN batch |->
     [dimension |-> batch[i].dimension, direction |-> batch[i].direction,
      confidence |-> batch[i].confidence, timestamp |-> batch[i].timestamp,
      transition |-> Detect(batch[i], seq \o SubSeq(batch, 1, i - 1))]]

-----------------------------------------------------------------------------
(* The caller builds the beliefs, which stamps them, and hands them over. *)

Build(s) ==
  /\ phase[s] = "idle"
  /\ \E n \in 1..MaxBatch :
       /\ clock + n <= MaxBeliefs
       /\ \E batch \in [1..n -> Content] :
            pending' = [pending EXCEPT ![s] =
              [i \in 1..n |-> [dimension |-> batch[i].dimension, direction |-> batch[i].direction,
                               confidence |-> batch[i].confidence, timestamp |-> clock + i]]]
       /\ clock' = clock + n
  /\ phase' = [phase EXCEPT ![s] = "built"]
  /\ UNCHANGED <<records, loaded, dirty, file, failures>>

StartsEmpty(s) == records[s]        \* mutant: _ensure_loaded is not called

Loaded(s) == IF loaded[s] THEN records[s] ELSE file

(* _ensure_loaded on a query. *)
Load(s) ==
  /\ phase[s] = "idle" /\ ~loaded[s]
  /\ records' = [records EXCEPT ![s] = Loaded(s)]
  /\ loaded' = [loaded EXCEPT ![s] = TRUE]
  /\ UNCHANGED <<dirty, phase, pending, file, clock, failures>>

(* record and record_batch up to the flush. *)
RecordBatch(s) ==
  /\ phase[s] = "built"
  /\ records' = [records EXCEPT ![s] = Loaded(s) \o Marked(Loaded(s), pending[s])]
  /\ loaded' = [loaded EXCEPT ![s] = TRUE]
  /\ dirty' = [dirty EXCEPT ![s] = TRUE]
  /\ phase' = [phase EXCEPT ![s] = "writing"]
  /\ pending' = [pending EXCEPT ![s] = <<>>]
  /\ UNCHANGED <<file, clock, failures>>

(* commit: flush what is dirty, or return at once. *)
Commit(s) ==
  /\ phase[s] = "idle"
  /\ phase' = [phase EXCEPT ![s] = IF dirty[s] THEN "writing" ELSE "idle"]
  /\ UNCHANGED <<records, loaded, dirty, pending, file, clock, failures>>

(* os.replace: the file is the old one before and the new one after.  *)
Replace(s) ==
  /\ phase[s] = "writing"
  /\ file' = records[s]
  /\ dirty' = [dirty EXCEPT ![s] = FALSE]
  /\ phase' = [phase EXCEPT ![s] = "idle"]
  /\ UNCHANGED <<records, loaded, pending, clock, failures>>

FlushRaises(s) ==
  /\ phase[s] = "writing" /\ failures < MaxFailures
  /\ failures' = failures + 1
  /\ phase' = [phase EXCEPT ![s] = "idle"]
  /\ UNCHANGED <<records, loaded, pending, file, clock>>

(* Writing or replacing raises: the finally clause clears the flag. *)
WriteFails(s) == FlushRaises(s) /\ dirty' = [dirty EXCEPT ![s] = FALSE]

(* The directory or the temporary file cannot be created. *)
OpenFails(s) == FlushRaises(s) /\ UNCHANGED dirty

(* The process ends, perhaps with a temporary file left, or the request    *)
(* drops its pipeline; a new store object takes the place.                 *)
NewStore(s) ==
  /\ records' = [records EXCEPT ![s] = <<>>]
  /\ loaded' = [loaded EXCEPT ![s] = FALSE]
  /\ dirty' = [dirty EXCEPT ![s] = FALSE]
  /\ phase' = [phase EXCEPT ![s] = "idle"]
  /\ pending' = [pending EXCEPT ![s] = <<>>]
  /\ UNCHANGED <<file, clock, failures>>

StoreNext ==
  \E s \in Store :
    \/ Build(s) \/ Load(s) \/ RecordBatch(s) \/ Commit(s)
    \/ Replace(s) \/ WriteFails(s) \/ OpenFails(s)
    \/ NewStore(s)

StoreSpec == StoreInit /\ [][StoreNext]_storeVars

-----------------------------------------------------------------------------
(* Properties *)

(* Every variable of the stores has its type: no belief without a          *)
(* transition gets into memory or the file.                                *)
BeliefTypeOK ==
  /\ records \in [Store -> Seq(BeliefRecord)]
  /\ loaded \in [Store -> BOOLEAN] /\ dirty \in [Store -> BOOLEAN]
  /\ phase \in [Store -> {"idle", "built", "writing"}]
  /\ file \in Seq(BeliefRecord)
  /\ clock \in 0..MaxBeliefs /\ failures \in 0..MaxFailures

(* The beliefs of a dimension, in the file and in memory, tell a coherent  *)
(* story: each one's transition is what became of the belief right before  *)
(* it in the history, across batches, failed writes and restarts.          *)
Coherent(seq) ==
  \A i \in DOMAIN seq :
    LET before == {j \in Of(seq, seq[i].dimension) : j < i}
    IN IF before = {} THEN seq[i].transition = "new"
       ELSE \E j \in before :
              /\ \A k \in before : k <= j
              /\ seq[i].transition = Compare(seq[i], seq[j])

TransitionsTell == Coherent(file) /\ \A s \in Store : Coherent(records[s])

(* A store that has the file for itself implements the durable log: what   *)
(* was once written is never lost, neither by a failed write nor by the    *)
(* end of a process at any point of a flush.                               *)
Only == CHOOSE s \in Store : TRUE

Durable == INSTANCE DurableLog WITH
  log <- IF loaded[Only] THEN records[Only] ELSE file,
  kept <- Len(file)

ImplementsDurableLog == Durable!LogSpec
=============================================================================
