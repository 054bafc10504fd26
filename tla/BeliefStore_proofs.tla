------------------------- MODULE BeliefStore_proofs -------------------------
(***************************************************************************)
(* Theorems about BeliefStore, for any stores, dimensions, directions,     *)
(* confidences and bounds.                                                 *)
(***************************************************************************)
EXTENDS BeliefStore, WellFoundedInduction, TLAPS

TypeInv ==
  /\ BeliefTypeOK
  /\ pending \in [Store -> Seq(Stamped)]

LEMMA CompareTypes ==
  ASSUME NEW belief, NEW prior PROVE Compare(belief, prior) \in Transition
BY DEF Compare, Transition

LEMMA DetectTypes ==
  ASSUME NEW belief, NEW seq PROVE Detect(belief, seq) \in Transition
BY CompareTypes DEF Detect, Transition

(* A batch of stamped beliefs is marked belief by belief. *)
LEMMA MarkedTypes ==
  ASSUME NEW seq, NEW batch \in Seq(Stamped)
  PROVE  /\ Marked(seq, batch) \in Seq(BeliefRecord)
         /\ Len(Marked(seq, batch)) = Len(batch)
<1> DEFINE mark(i) ==
      [dimension |-> batch[i].dimension, direction |-> batch[i].direction,
       confidence |-> batch[i].confidence, timestamp |-> batch[i].timestamp,
       transition |-> Detect(batch[i], seq \o SubSeq(batch, 1, i - 1))]
<1>1. ASSUME NEW i \in DOMAIN batch PROVE mark(i) \in BeliefRecord
  <2>1. batch[i] \in Stamped
    BY <1>1
  <2>2. Detect(batch[i], seq \o SubSeq(batch, 1, i - 1)) \in Transition
    BY DetectTypes
  <2> QED BY <2>1, <2>2 DEF Stamped, BeliefRecord
<1>2. Marked(seq, batch) = [i \in 1..Len(batch) |-> mark(i)]
  BY DEF Marked
<1>3. \A i \in 1..Len(batch) : mark(i) \in BeliefRecord
  BY <1>1
<1> HIDE DEF mark
<1> QED BY <1>2, <1>3

-----------------------------------------------------------------------------
(* Types *)

LEMMA InitTypes == StoreInit => TypeInv
BY BeliefStoreAssumption DEF StoreInit, TypeInv, BeliefTypeOK

LEMMA BuildTypes ==
  ASSUME TypeInv, NEW s \in Store, Build(s) PROVE TypeInv'
<1>1. PICK n \in 1..MaxBatch :
        /\ clock + n <= MaxBeliefs
        /\ \E batch \in [1..n -> Content] :
             pending' = [pending EXCEPT ![s] =
               [i \in 1..n |-> [dimension |-> batch[i].dimension, direction |-> batch[i].direction,
                                confidence |-> batch[i].confidence, timestamp |-> clock + i]]]
        /\ clock' = clock + n
  BY DEF Build
<1>2. PICK batch \in [1..n -> Content] :
        pending' = [pending EXCEPT ![s] =
          [i \in 1..n |-> [dimension |-> batch[i].dimension, direction |-> batch[i].direction,
                           confidence |-> batch[i].confidence, timestamp |-> clock + i]]]
  BY <1>1
<1> DEFINE stamp(i) == [dimension |-> batch[i].dimension, direction |-> batch[i].direction,
                        confidence |-> batch[i].confidence, timestamp |-> clock + i]
<1>3. n \in Nat /\ clock \in Nat /\ MaxBeliefs \in Nat
  BY <1>1, BeliefStoreAssumption DEF TypeInv, BeliefTypeOK
<1>4. ASSUME NEW i \in 1..n PROVE stamp(i) \in Stamped
  <2>1. batch[i] \in Content
    BY <1>4
  <2>2. clock + i \in Nat
    BY <1>3
  <2> QED BY <2>1, <2>2 DEF Content, Stamped
<1>5. pending' = [pending EXCEPT ![s] = [i \in 1..n |-> stamp(i)]]
  BY <1>2
<1> HIDE DEF stamp
<1>6. [i \in 1..n |-> stamp(i)] \in Seq(Stamped)
  BY <1>3, <1>4
<1>7. pending' \in [Store -> Seq(Stamped)]
  BY <1>5, <1>6 DEF TypeInv
<1>8. clock' \in 0..MaxBeliefs
  BY <1>1, <1>3
<1> QED BY <1>7, <1>8 DEF TypeInv, BeliefTypeOK, Build

LEMMA LoadedTypes ==
  ASSUME TypeInv, NEW s \in Store PROVE Loaded(s) \in Seq(BeliefRecord)
BY DEF TypeInv, BeliefTypeOK, Loaded

LEMMA RecordBatchTypes ==
  ASSUME TypeInv, NEW s \in Store, RecordBatch(s) PROVE TypeInv'
<1>1. pending[s] \in Seq(Stamped)
  BY DEF TypeInv
<1>2. Loaded(s) \o Marked(Loaded(s), pending[s]) \in Seq(BeliefRecord)
  BY <1>1, LoadedTypes, MarkedTypes
<1>3. records' \in [Store -> Seq(BeliefRecord)]
  BY <1>2 DEF RecordBatch, TypeInv, BeliefTypeOK
<1>4. pending' \in [Store -> Seq(Stamped)]
  BY DEF RecordBatch, TypeInv
<1> QED BY <1>3, <1>4 DEF RecordBatch, TypeInv, BeliefTypeOK

LEMMA NextTypes == TypeInv /\ [StoreNext]_storeVars => TypeInv'
<1> SUFFICES ASSUME TypeInv, [StoreNext]_storeVars PROVE TypeInv'
  OBVIOUS
<1>1. CASE UNCHANGED storeVars
  BY <1>1 DEF TypeInv, BeliefTypeOK, storeVars
<1>2. ASSUME NEW s \in Store, Build(s) PROVE TypeInv'
  BY <1>2, BuildTypes
<1>3. ASSUME NEW s \in Store, Load(s) PROVE TypeInv'
  <2>1. records' \in [Store -> Seq(BeliefRecord)]
    BY <1>3, LoadedTypes DEF Load, TypeInv, BeliefTypeOK
  <2> QED BY <1>3, <2>1 DEF Load, TypeInv, BeliefTypeOK
<1>4. ASSUME NEW s \in Store, RecordBatch(s) PROVE TypeInv'
  BY <1>4, RecordBatchTypes
<1>5. ASSUME NEW s \in Store, Commit(s) PROVE TypeInv'
  BY <1>5 DEF Commit, TypeInv, BeliefTypeOK
<1>6. ASSUME NEW s \in Store, Replace(s) PROVE TypeInv'
  BY <1>6 DEF Replace, TypeInv, BeliefTypeOK
<1>7. ASSUME NEW s \in Store, WriteFails(s) PROVE TypeInv'
  BY <1>7, BeliefStoreAssumption DEF WriteFails, FlushRaises, TypeInv, BeliefTypeOK
<1>8. ASSUME NEW s \in Store, OpenFails(s) PROVE TypeInv'
  BY <1>8, BeliefStoreAssumption DEF OpenFails, FlushRaises, TypeInv, BeliefTypeOK
<1>9. ASSUME NEW s \in Store, NewStore(s) PROVE TypeInv'
  BY <1>9 DEF NewStore, TypeInv, BeliefTypeOK
<1> QED
  BY <1>1, <1>2, <1>3, <1>4, <1>5, <1>6, <1>7, <1>8, <1>9 DEF StoreNext

LEMMA TypeInvHolds == StoreSpec => []TypeInv
BY InitTypes, NextTypes, PTL DEF StoreSpec

(* Every variable of the belief stores keeps its type. *)
THEOREM BeliefTypeCorrect == StoreSpec => []BeliefTypeOK
<1>1. TypeInv => BeliefTypeOK
  BY DEF TypeInv
<1> QED BY <1>1, TypeInvHolds, PTL

-----------------------------------------------------------------------------
(* The durable log.  With one store, the file is a prefix of its records,  *)
(* and whatever is to be written has been loaded before.                   *)

PrefixOf(short, long) ==
  /\ Len(short) <= Len(long)
  /\ \A i \in 1..Len(short) : long[i] = short[i]

FileInv(s) ==
  /\ loaded[s] => PrefixOf(file, records[s])
  /\ phase[s] = "writing" \/ dirty[s] => loaded[s]
  /\ phase[s] = "built" => Len(pending[s]) > 0

LEMMA InitFile == ASSUME NEW s \in Store, StoreInit PROVE FileInv(s)
BY DEF StoreInit, FileInv

LEMMA PrefixIsSubSeq ==
  ASSUME NEW S, NEW short \in Seq(S), NEW long \in Seq(S), PrefixOf(short, long)
  PROVE  SubSeq(long, 1, Len(short)) = short
BY DEF PrefixOf

LEMMA PrefixOfConcat ==
  ASSUME NEW S, NEW short \in Seq(S), NEW more \in Seq(S)
  PROVE  /\ PrefixOf(short, short \o more)
         /\ Len(short \o more) = Len(short) + Len(more)
BY DEF PrefixOf

LEMMA PrefixTransitive ==
  ASSUME NEW S, NEW x \in Seq(S), NEW y \in Seq(S), NEW z \in Seq(S),
         PrefixOf(x, y), PrefixOf(y, z)
  PROVE  PrefixOf(x, z)
BY DEF PrefixOf

(* What record_batch adds to, and what it leaves.                          *)
LEMMA RecordBatchExtends ==
  ASSUME TypeInv, NEW s \in Store, FileInv(s), RecordBatch(s)
  PROVE  /\ Loaded(s) \in Seq(BeliefRecord) /\ records'[s] \in Seq(BeliefRecord)
         /\ PrefixOf(Loaded(s), records'[s]) /\ PrefixOf(file, records'[s])
         /\ Len(records'[s]) > Len(Loaded(s))
<1>1. pending[s] \in Seq(Stamped) /\ Len(pending[s]) > 0
  BY DEF TypeInv, FileInv, RecordBatch
<1>2. /\ Marked(Loaded(s), pending[s]) \in Seq(BeliefRecord)
      /\ Len(Marked(Loaded(s), pending[s])) > 0
  BY <1>1, MarkedTypes
<1>3. records'[s] = Loaded(s) \o Marked(Loaded(s), pending[s])
  BY DEF RecordBatch, TypeInv, BeliefTypeOK
<1>4. /\ Loaded(s) \in Seq(BeliefRecord) /\ records'[s] \in Seq(BeliefRecord)
      /\ PrefixOf(Loaded(s), records'[s])
      /\ Len(records'[s]) = Len(Loaded(s)) + Len(Marked(Loaded(s), pending[s]))
  BY <1>2, <1>3, LoadedTypes, PrefixOfConcat
<1>5. PrefixOf(file, Loaded(s))
  BY DEF FileInv, Loaded, PrefixOf, TypeInv, BeliefTypeOK
<1>6. PrefixOf(file, records'[s])
  BY <1>4, <1>5, PrefixTransitive DEF TypeInv, BeliefTypeOK
<1>7. Len(records'[s]) > Len(Loaded(s))
  BY <1>2, <1>4
<1> QED BY <1>4, <1>6, <1>7

LEMMA NextFile ==
  ASSUME NEW s, Store = {s}, TypeInv, FileInv(s), [StoreNext]_storeVars
  PROVE  FileInv(s)'
<1>0. s \in Store
  OBVIOUS
<1>1. CASE UNCHANGED storeVars
  BY <1>1 DEF FileInv, PrefixOf, storeVars
<1>2. ASSUME Build(s) PROVE FileInv(s)'
  <2>1. \E n \in 1..MaxBatch : Len(pending'[s]) = n
    BY <1>0, <1>2, BeliefStoreAssumption DEF Build, TypeInv
  <2>2. Len(pending'[s]) > 0
    BY <2>1, BeliefStoreAssumption
  <2> QED BY <1>0, <1>2, <2>2 DEF Build, FileInv, PrefixOf, TypeInv, BeliefTypeOK
<1>3. ASSUME Load(s) PROVE FileInv(s)'
  BY <1>0, <1>3 DEF Load, Loaded, FileInv, PrefixOf, TypeInv, BeliefTypeOK
<1>4. ASSUME RecordBatch(s) PROVE FileInv(s)'
  <2>1. PrefixOf(file, records'[s])
    BY <1>0, <1>4, RecordBatchExtends
  <2> QED BY <1>0, <1>4, <2>1 DEF RecordBatch, FileInv, PrefixOf, TypeInv, BeliefTypeOK
<1>5. ASSUME Commit(s) PROVE FileInv(s)'
  BY <1>0, <1>5 DEF Commit, FileInv, PrefixOf, TypeInv, BeliefTypeOK
<1>6. ASSUME Replace(s) PROVE FileInv(s)'
  BY <1>0, <1>6 DEF Replace, FileInv, PrefixOf, TypeInv, BeliefTypeOK
<1>7. ASSUME FlushRaises(s), WriteFails(s) \/ OpenFails(s) PROVE FileInv(s)'
  BY <1>0, <1>7 DEF FlushRaises, WriteFails, OpenFails, FileInv, PrefixOf, TypeInv, BeliefTypeOK
<1>8. ASSUME NewStore(s) PROVE FileInv(s)'
  BY <1>0, <1>8 DEF NewStore, FileInv, PrefixOf, TypeInv, BeliefTypeOK
<1> QED
  BY <1>1, <1>2, <1>3, <1>4, <1>5, <1>6, <1>7, <1>8 DEF StoreNext, WriteFails, OpenFails

LEMMA InitRefines == ASSUME NEW s, Store = {s}, StoreInit PROVE Durable!LogInit
<1>1. Only = s
  BY DEF Only
<1> QED BY <1>1 DEF StoreInit, Durable!LogInit

LEMMA NextRefines ==
  ASSUME NEW s, Store = {s}, TypeInv, FileInv(s), [StoreNext]_storeVars
  PROVE  [Durable!LogNext]_(Durable!logVars)
<1> DEFINE log == IF loaded[s] THEN records[s] ELSE file
<1>0. s \in Store /\ Only = s
  BY DEF Only
<1>1. CASE UNCHANGED storeVars
  BY <1>0, <1>1 DEF storeVars, Durable!logVars
<1>2. ASSUME Build(s) \/ Load(s) \/ Commit(s) \/ FlushRaises(s) PROVE UNCHANGED Durable!logVars
  BY <1>0, <1>2 DEF Build, Load, Loaded, Commit, FlushRaises, TypeInv, BeliefTypeOK, Durable!logVars
<1>3. ASSUME RecordBatch(s) PROVE Durable!Extend
  <2>1. log = Loaded(s) /\ log' = records'[s]
    BY <1>0, <1>3 DEF RecordBatch, Loaded, TypeInv, BeliefTypeOK
  <2>2. Len(log') > Len(log) /\ SubSeq(log', 1, Len(log)) = log
    BY <1>0, <1>3, <2>1, RecordBatchExtends, PrefixIsSubSeq
  <2>3. file' = file
    BY <1>3 DEF RecordBatch
  <2> QED BY <1>0, <2>2, <2>3 DEF Durable!Extend
<1>4. ASSUME Replace(s) PROVE Durable!Keep
  BY <1>0, <1>4 DEF Replace, FileInv, Durable!Keep
<1>5. ASSUME NewStore(s) PROVE Durable!TakeBack
  <2>1. log' = file /\ file' = file
    BY <1>0, <1>5 DEF NewStore, TypeInv, BeliefTypeOK
  <2>2. SubSeq(log, 1, Len(file)) = file
    BY <1>0, PrefixIsSubSeq DEF FileInv, TypeInv, BeliefTypeOK, PrefixOf
  <2> QED BY <1>0, <2>1, <2>2 DEF Durable!TakeBack
<1> QED
  BY <1>1, <1>2, <1>3, <1>4, <1>5 DEF StoreNext, WriteFails, OpenFails, Durable!LogNext

(* A store that is the only one on its file is a durable log, for any      *)
(* beliefs, batches, failures and ends of its process.                     *)
THEOREM StoreIsDurableLog ==
  ASSUME NEW s, Store = {s} PROVE StoreSpec => ImplementsDurableLog
<1>1. s \in Store
  OBVIOUS
<1>2. StoreSpec => [](TypeInv /\ FileInv(s))
  <2>1. StoreInit => FileInv(s)
    BY <1>1, InitFile
  <2>2. TypeInv /\ FileInv(s) /\ [StoreNext]_storeVars => FileInv(s)'
    BY NextFile
  <2> QED BY <2>1, <2>2, TypeInvHolds, PTL DEF StoreSpec
<1>3. StoreInit => Durable!LogInit
  BY InitRefines
<1>4. TypeInv /\ FileInv(s) /\ [StoreNext]_storeVars => [Durable!LogNext]_(Durable!logVars)
  BY NextRefines
<1> QED
  BY <1>2, <1>3, <1>4, PTL DEF StoreSpec, ImplementsDurableLog, Durable!LogSpec

-----------------------------------------------------------------------------
(* Coherence.  The newest belief by timestamp is the last one of its       *)
(* dimension, because a sole store appends in the order of the timestamps. *)

Increasing(seq) ==
  \A i, j \in DOMAIN seq : i < j => seq[i].timestamp < seq[j].timestamp

Precedes(seq, batch) ==
  \A i \in DOMAIN seq, j \in DOMAIN batch : seq[i].timestamp < batch[j].timestamp

Before(seq, i) == {j \in Of(seq, seq[i].dimension) : j < i}

CoherentAt(seq, i) ==
  IF Before(seq, i) = {} THEN seq[i].transition = "new"
  ELSE \E j \in Before(seq, i) :
         /\ \A k \in Before(seq, i) : k <= j
         /\ seq[i].transition = Compare(seq[i], seq[j])

LEMMA CoherentEverywhere ==
  ASSUME NEW seq PROVE Coherent(seq) <=> \A i \in DOMAIN seq : CoherentAt(seq, i)
BY DEF Coherent, CoherentAt, Before

LEMMA MaxExists ==
  ASSUME NEW n \in Nat, NEW T \in SUBSET (1..n), T # {}
  PROVE  \E m \in T : \A k \in T : k <= m
<1> DEFINE U == {n - k : k \in T}
<1>1. U \subseteq Nat /\ U # {}
  <2>1. PICK k \in T : TRUE
    OBVIOUS
  <2>2. n - k \in U
    BY <2>1
  <2>3. \A j \in T : n - j \in Nat
    OBVIOUS
  <2> QED BY <2>2, <2>3
<1>2. PICK u \in U : \A v \in U : ~ (<<v, u>> \in OpToRel(<, Nat))
  <2> HIDE DEF U
  <2> QED BY <1>1, WFMin, NatLessThanWellFounded, Zenon
<1>3. \A v \in U : ~ (v < u)
  BY <1>1, <1>2 DEF OpToRel
<1>4. PICK m \in T : u = n - m
  OBVIOUS
<1>5. ASSUME NEW k \in T PROVE k <= m
  <2>1. n - k \in U
    OBVIOUS
  <2>2. ~ (n - k < n - m)
    BY <1>3, <1>4, <2>1
  <2> QED BY <2>2
<1> QED BY <1>5

LEMMA LastIsNewest ==
  ASSUME NEW n \in Nat, NEW seq, DOMAIN seq = 1..n,
         \A i \in 1..n : seq[i].timestamp \in Nat,
         Increasing(seq), NEW d, Of(seq, d) # {}
  PROVE  /\ LastBelief(seq, d) \in Of(seq, d)
         /\ \A k \in Of(seq, d) : k <= LastBelief(seq, d)
<1> DEFINE Newest(i) == \A j \in Of(seq, d) : seq[j].timestamp <= seq[i].timestamp
           last == LastBelief(seq, d)
<1>1. Of(seq, d) \in SUBSET (1..n)
  BY DEF Of
<1>2. PICK m \in Of(seq, d) : \A k \in Of(seq, d) : k <= m
  BY <1>1, MaxExists
<1>3. Newest(m)
  <2> SUFFICES ASSUME NEW j \in Of(seq, d) PROVE seq[j].timestamp <= seq[m].timestamp
    OBVIOUS
  <2>1. j \in 1..n /\ m \in 1..n /\ (j < m \/ j = m)
    BY <1>1, <1>2
  <2> QED BY <2>1 DEF Increasing
<1>4. last = CHOOSE i \in Of(seq, d) : Newest(i)
  BY DEF LastBelief
<1>5. last \in Of(seq, d) /\ Newest(last)
  <2> HIDE DEF Newest, last
  <2> QED BY <1>3, <1>4
<1>6. ASSUME NEW k \in Of(seq, d) PROVE k <= last
  <2>1. k \in 1..n /\ last \in 1..n
    BY <1>1, <1>5
  <2>2. seq[k].timestamp <= seq[last].timestamp
    BY <1>5
  <2>3. last < k => seq[last].timestamp < seq[k].timestamp
    BY <2>1 DEF Increasing
  <2> HIDE DEF last
  <2> QED BY <2>1, <2>2, <2>3
<1> QED BY <1>5, <1>6

LEMMA CompareByContent ==
  ASSUME NEW x, NEW y, NEW v, NEW w,
         x.direction = v.direction, x.confidence = v.confidence,
         y.direction = w.direction, y.confidence = w.confidence
  PROVE  Compare(x, y) = Compare(v, w)
BY DEF Compare

LEMMA MarkedCoherent ==
  ASSUME NEW seq \in Seq(BeliefRecord), NEW batch \in Seq(Stamped),
         Increasing(seq), Increasing(batch), Precedes(seq, batch), Coherent(seq)
  PROVE  /\ Increasing(seq \o Marked(seq, batch))
         /\ Coherent(seq \o Marked(seq, batch))
<1> DEFINE m == Len(seq)
           all == seq \o Marked(seq, batch)
           old(k) == seq \o SubSeq(batch, 1, k - 1)
<1>1. /\ m \in Nat /\ Len(batch) \in Nat
      /\ Marked(seq, batch) \in Seq(BeliefRecord)
      /\ Len(Marked(seq, batch)) = Len(batch)
  BY MarkedTypes
<1>2. all \in Seq(BeliefRecord) /\ Len(all) = m + Len(batch) /\ DOMAIN all = 1..(m + Len(batch))
  BY <1>1
<1>3. \A i \in 1..m : all[i] = seq[i]
  BY <1>1
<1>4. ASSUME NEW k \in 1..Len(batch)
      PROVE  /\ all[m + k].dimension = batch[k].dimension
             /\ all[m + k].direction = batch[k].direction
             /\ all[m + k].confidence = batch[k].confidence
             /\ all[m + k].timestamp = batch[k].timestamp
             /\ all[m + k].transition = Detect(batch[k], old(k))
  <2>1. all[m + k] = Marked(seq, batch)[k]
    BY <1>1
  <2>2. k \in DOMAIN batch
    OBVIOUS
  <2> QED BY <2>1, <2>2 DEF Marked
<1>5. \A i \in 1..(m + Len(batch)) : i \in 1..m \/ \E k \in 1..Len(batch) : i = m + k
  <2> SUFFICES ASSUME NEW i \in 1..(m + Len(batch)), i \notin 1..m
               PROVE  \E k \in 1..Len(batch) : i = m + k
    OBVIOUS
  <2>1. i - m \in 1..Len(batch) /\ i = m + (i - m)
    BY <1>1
  <2> QED BY <2>1
<1>6. Increasing(all)
  <2> SUFFICES ASSUME NEW i \in DOMAIN all, NEW j \in DOMAIN all, i < j
               PROVE  all[i].timestamp < all[j].timestamp
    BY DEF Increasing
  <2>1. CASE j \in 1..m
    <3>1. i \in 1..m
      BY <1>1, <1>2, <2>1
    <3> QED BY <1>3, <2>1, <3>1 DEF Increasing
  <2>2. ASSUME NEW l \in 1..Len(batch), j = m + l PROVE all[i].timestamp < all[j].timestamp
    <3>1. all[j].timestamp = batch[l].timestamp
      BY <1>4, <2>2
    <3>2. CASE i \in 1..m
      BY <1>3, <3>1, <3>2 DEF Precedes
    <3>3. ASSUME NEW k \in 1..Len(batch), i = m + k PROVE all[i].timestamp < all[j].timestamp
      <4>1. all[i].timestamp = batch[k].timestamp /\ k < l
        BY <1>1, <1>4, <2>2, <3>3
      <4> QED BY <3>1, <4>1 DEF Increasing
    <3> QED BY <1>2, <1>5, <3>2, <3>3
  <2> QED BY <1>2, <1>5, <2>1, <2>2
<1>7. ASSUME NEW i \in 1..m PROVE CoherentAt(all, i)
  <2>1. \A j \in 1..m : all[j] = seq[j]
    BY <1>3
  <2>2. Before(all, i) = Before(seq, i) /\ Before(all, i) \subseteq 1..m
    BY <1>1, <1>2, <2>1 DEF Before, Of
  <2>3. CoherentAt(seq, i)
    BY CoherentEverywhere
  <2> HIDE DEF all
  <2> QED BY <2>1, <2>2, <2>3 DEF CoherentAt
<1>8. ASSUME NEW k \in 1..Len(batch) PROVE CoherentAt(all, m + k)
  <2> DEFINE d == batch[k].dimension
             pre == old(k)
             last == LastBelief(pre, d)
  <2>1. Len(pre) = m + k - 1 /\ DOMAIN pre = 1..(m + k - 1)
    BY <1>1
  <2>2. ASSUME NEW j \in 1..(m + k - 1)
        PROVE  /\ pre[j].dimension = all[j].dimension
               /\ pre[j].direction = all[j].direction
               /\ pre[j].confidence = all[j].confidence
               /\ pre[j].timestamp = all[j].timestamp
    <3>1. CASE j \in 1..m
      BY <1>1, <1>3, <3>1
    <3>2. ASSUME NEW l \in 1..Len(batch), j = m + l
          PROVE  /\ pre[j].dimension = all[j].dimension
                 /\ pre[j].direction = all[j].direction
                 /\ pre[j].confidence = all[j].confidence
                 /\ pre[j].timestamp = all[j].timestamp
      <4>1. pre[j] = batch[l]
        BY <1>1, <2>2, <3>2
      <4> QED BY <1>4, <3>2, <4>1
    <3>3. j \in 1..(m + Len(batch))
      BY <1>1
    <3> QED BY <1>5, <3>1, <3>2, <3>3
  <2>3. m + k \in DOMAIN all /\ all[m + k].dimension = d
    BY <1>1, <1>2, <1>4
  <2>4. Before(all, m + k) = Of(pre, d)
    <3>1. \A j : j \in DOMAIN all /\ j < m + k <=> j \in 1..(m + k - 1)
      BY <1>1, <1>2
    <3>2. Before(all, m + k) = {j \in DOMAIN all : all[j].dimension = d /\ j < m + k}
      <4> HIDE DEF all, d
      <4> QED BY <2>3 DEF Before, Of
    <3>3. Of(pre, d) = {j \in 1..(m + k - 1) : pre[j].dimension = d}
      <4> HIDE DEF pre, d
      <4> QED BY <2>1 DEF Of
    <3>4. \A j \in 1..(m + k - 1) : pre[j].dimension = all[j].dimension
      BY <2>2
    <3> HIDE DEF all, pre, d, m
    <3> QED BY <3>1, <3>2, <3>3, <3>4
  <2>5. all[m + k].transition = Detect(batch[k], pre)
    BY <1>4
  <2>6. CASE Of(pre, d) = {}
    BY <2>4, <2>5, <2>6 DEF CoherentAt, Detect
  <2>7. CASE Of(pre, d) # {}
    <3>1. \A j \in 1..(m + k - 1) : pre[j].timestamp \in Nat
      <4>1. \A j \in 1..(m + k - 1) : all[j] \in BeliefRecord
        BY <1>1, <1>2
      <4> QED BY <2>2, <4>1 DEF BeliefRecord
    <3>2. Increasing(pre)
      <4>1. 1..(m + k - 1) \subseteq DOMAIN all
        BY <1>1, <1>2
      <4>2. \A j \in 1..(m + k - 1) : pre[j].timestamp = all[j].timestamp
        BY <2>2
      <4>3. DOMAIN pre = 1..(m + k - 1)
        BY <2>1
      <4> HIDE DEF all, pre, m
      <4> QED BY <1>6, <4>1, <4>2, <4>3 DEF Increasing
    <3>3. last \in Of(pre, d) /\ \A j \in Of(pre, d) : j <= last
      <4>1. m + k - 1 \in Nat
        BY <1>1
      <4> HIDE DEF pre, d
      <4> QED BY <2>1, <2>7, <3>1, <3>2, <4>1, LastIsNewest
    <3>4. last \in 1..(m + k - 1)
      BY <2>1, <3>3 DEF Of
    <3>5. Compare(batch[k], pre[last]) = Compare(all[m + k], all[last])
      <4>1. pre[last].direction = all[last].direction /\ pre[last].confidence = all[last].confidence
        BY <2>2, <3>4
      <4>2. all[m + k].direction = batch[k].direction /\ all[m + k].confidence = batch[k].confidence
        BY <1>4
      <4> HIDE DEF all, pre, last
      <4> QED BY <4>1, <4>2, CompareByContent
    <3>6. Detect(batch[k], pre) = Compare(batch[k], pre[last])
      BY <2>7 DEF Detect
    <3> HIDE DEF all, pre, last, d
    <3> QED BY <2>4, <2>5, <2>7, <3>3, <3>5, <3>6 DEF CoherentAt
  <2> QED BY <2>6, <2>7
<1>9. Coherent(all)
  <2>1. ASSUME NEW i \in DOMAIN all PROVE CoherentAt(all, i)
    BY <1>2, <1>5, <1>7, <1>8
  <2> HIDE DEF all
  <2> QED BY <2>1, CoherentEverywhere
<1> QED BY <1>6, <1>9

(* What holds of any history of the sole store at a time. *)
History(seq, time) ==
  /\ Increasing(seq) /\ Coherent(seq)
  /\ \A i \in DOMAIN seq : seq[i].timestamp <= time

CoherenceInv(s) ==
  /\ History(file, clock) /\ History(records[s], clock)
  /\ phase[s] = "built" =>
       /\ Increasing(pending[s])
       /\ \A i \in DOMAIN pending[s] : pending[s][i].timestamp <= clock
       /\ Precedes(file, pending[s]) /\ Precedes(records[s], pending[s])

LEMMA EmptyHistory == \A time : History(<<>>, time)
BY DEF History, Increasing, Coherent

LEMMA InitCoherence == ASSUME NEW s \in Store, StoreInit PROVE CoherenceInv(s)
BY EmptyHistory DEF StoreInit, CoherenceInv

LEMMA LaterHistory ==
  ASSUME NEW S, NEW seq \in Seq(S), \A i \in DOMAIN seq : seq[i].timestamp \in Nat,
         NEW now \in Nat, NEW later \in Nat, now <= later, History(seq, now)
  PROVE  History(seq, later)
BY DEF History

LEMMA BuildCoherence ==
  ASSUME NEW s \in Store, TypeInv, CoherenceInv(s), Build(s) PROVE CoherenceInv(s)'
<1>1. PICK n \in 1..MaxBatch :
        /\ \E batch \in [1..n -> Content] :
             pending' = [pending EXCEPT ![s] =
               [i \in 1..n |-> [dimension |-> batch[i].dimension, direction |-> batch[i].direction,
                                confidence |-> batch[i].confidence, timestamp |-> clock + i]]]
        /\ clock' = clock + n
  BY DEF Build
<1>2. /\ DOMAIN pending'[s] = 1..n
      /\ \A i \in 1..n : pending'[s][i].timestamp = clock + i
  BY <1>1 DEF TypeInv
<1>3. n \in Nat /\ clock \in Nat /\ clock' \in Nat /\ clock <= clock'
  BY <1>1, BeliefStoreAssumption DEF TypeInv, BeliefTypeOK
<1>4. UNCHANGED <<file, records>> /\ phase'[s] = "built"
  BY DEF Build, TypeInv, BeliefTypeOK
<1>5. /\ file \in Seq(BeliefRecord) /\ records[s] \in Seq(BeliefRecord)
      /\ \A i \in DOMAIN file : file[i].timestamp \in Nat
      /\ \A i \in DOMAIN records[s] : records[s][i].timestamp \in Nat
  <2>1. file \in Seq(BeliefRecord) /\ records[s] \in Seq(BeliefRecord)
    BY DEF TypeInv, BeliefTypeOK
  <2>2. \A r \in BeliefRecord : r.timestamp \in Nat
    BY DEF BeliefRecord
  <2> QED BY <2>1, <2>2
<1>6. History(file, clock') /\ History(records[s], clock')
  BY <1>3, <1>5, LaterHistory DEF CoherenceInv
<1>7. /\ Increasing(pending'[s])
      /\ \A i \in DOMAIN pending'[s] : pending'[s][i].timestamp <= clock'
  <2>1. clock' = clock + n
    BY <1>1
  <2> QED BY <1>2, <1>3, <2>1 DEF Increasing
<1>8. ASSUME NEW old, \A i \in DOMAIN old : old[i].timestamp \in Nat, History(old, clock)
      PROVE  Precedes(old, pending'[s])
  <2> SUFFICES ASSUME NEW i \in DOMAIN old, NEW j \in 1..n
               PROVE  old[i].timestamp < pending'[s][j].timestamp
    BY <1>2 DEF Precedes
  <2>1. old[i].timestamp \in Nat /\ old[i].timestamp <= clock
    BY <1>8 DEF History
  <2>2. pending'[s][j].timestamp = clock + j /\ j >= 1
    BY <1>2, <1>3
  <2> QED BY <1>3, <2>1, <2>2
<1>9. Precedes(file, pending'[s]) /\ Precedes(records[s], pending'[s])
  BY <1>5, <1>8 DEF CoherenceInv
<1> QED
  BY <1>4, <1>6, <1>7, <1>9 DEF CoherenceInv

LEMMA RecordBatchCoherence ==
  ASSUME NEW s \in Store, TypeInv, CoherenceInv(s), RecordBatch(s) PROVE CoherenceInv(s)'
<1> DEFINE all == Loaded(s) \o Marked(Loaded(s), pending[s])
<1>1. Loaded(s) \in Seq(BeliefRecord) /\ pending[s] \in Seq(Stamped)
  BY LoadedTypes DEF TypeInv
<1>2. /\ History(Loaded(s), clock) /\ Precedes(Loaded(s), pending[s])
      /\ Increasing(pending[s])
      /\ \A i \in DOMAIN pending[s] : pending[s][i].timestamp <= clock
  BY DEF CoherenceInv, Loaded, RecordBatch
<1>3. Increasing(all) /\ Coherent(all)
  BY <1>1, <1>2, MarkedCoherent DEF History
<1>4. \A i \in DOMAIN all : all[i].timestamp <= clock
  <2> SUFFICES ASSUME NEW i \in DOMAIN all PROVE all[i].timestamp <= clock
    OBVIOUS
  <2>1. /\ Marked(Loaded(s), pending[s]) \in Seq(BeliefRecord)
        /\ Len(Marked(Loaded(s), pending[s])) = Len(pending[s])
    BY <1>1, MarkedTypes
  <2>2. CASE i \in DOMAIN Loaded(s)
    BY <1>1, <1>2, <2>1, <2>2 DEF History
  <2>3. CASE i \notin DOMAIN Loaded(s)
    <3> DEFINE k == i - Len(Loaded(s))
    <3>1. k \in DOMAIN pending[s] /\ all[i] = Marked(Loaded(s), pending[s])[k]
      BY <1>1, <2>1, <2>3
    <3>2. all[i].timestamp = pending[s][k].timestamp
      <4> HIDE DEF k, all
      <4> QED BY <3>1 DEF Marked
    <3> HIDE DEF k
    <3> QED BY <1>2, <3>1, <3>2
  <2> QED BY <2>2, <2>3
<1>5. records'[s] = all /\ phase'[s] = "writing" /\ UNCHANGED <<file, clock>>
  BY DEF RecordBatch, TypeInv, BeliefTypeOK
<1>6. History(all, clock)
  BY <1>3, <1>4 DEF History
<1> HIDE DEF all
<1> QED BY <1>5, <1>6 DEF CoherenceInv

LEMMA NextCoherence ==
  ASSUME NEW s, Store = {s}, TypeInv, CoherenceInv(s), [StoreNext]_storeVars
  PROVE  CoherenceInv(s)'
<1>0. s \in Store
  OBVIOUS
<1>1. CASE UNCHANGED storeVars
  BY <1>1 DEF CoherenceInv, storeVars
<1>2. ASSUME Build(s) PROVE CoherenceInv(s)'
  BY <1>0, <1>2, BuildCoherence
<1>3. ASSUME RecordBatch(s) PROVE CoherenceInv(s)'
  BY <1>0, <1>3, RecordBatchCoherence
<1>4. ASSUME Load(s) PROVE CoherenceInv(s)'
  BY <1>0, <1>4 DEF Load, Loaded, CoherenceInv, TypeInv, BeliefTypeOK
<1>5. ASSUME Commit(s) \/ FlushRaises(s) PROVE CoherenceInv(s)'
  BY <1>0, <1>5 DEF Commit, FlushRaises, CoherenceInv, TypeInv, BeliefTypeOK
<1>6. ASSUME Replace(s) PROVE CoherenceInv(s)'
  BY <1>0, <1>6 DEF Replace, CoherenceInv, TypeInv, BeliefTypeOK
<1>7. ASSUME NewStore(s) PROVE CoherenceInv(s)'
  BY <1>0, <1>7, EmptyHistory DEF NewStore, CoherenceInv, TypeInv, BeliefTypeOK
<1> QED
  BY <1>1, <1>2, <1>3, <1>4, <1>5, <1>6, <1>7 DEF StoreNext, WriteFails, OpenFails

(* In the file and in the memory of a sole store every belief's transition *)
(* is what became of the belief right before it in its dimension, for any  *)
(* batches, however writes fail and wherever the process ends.             *)
THEOREM TransitionsAreCoherent ==
  ASSUME NEW s, Store = {s} PROVE StoreSpec => []TransitionsTell
<1>1. s \in Store
  OBVIOUS
<1>2. StoreInit => CoherenceInv(s)
  BY <1>1, InitCoherence
<1>3. TypeInv /\ CoherenceInv(s) /\ [StoreNext]_storeVars => CoherenceInv(s)'
  BY NextCoherence
<1>4. CoherenceInv(s) => TransitionsTell
  BY DEF CoherenceInv, History, TransitionsTell
<1> QED
  BY <1>2, <1>3, <1>4, TypeInvHolds, PTL DEF StoreSpec
=============================================================================
