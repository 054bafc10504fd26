-------------------------- MODULE FrameworkSet_proofs --------------------------
(***************************************************************************)
(* Lemmas about the operators of FrameworkSet, for any number of           *)
(* frameworks, any capacities and all windows and thresholds: what the     *)
(* store's lists keep, what an update of a status does to a shelf, and     *)
(* what the orchestrator's loops leave as it was.                          *)
(***************************************************************************)
EXTENDS FrameworkSet, LoopLemmas, FiniteSetTheorems, SequenceTheorems, TLAPS

-----------------------------------------------------------------------------
(* Lists *)

LEMMA ListFacts ==
  ASSUME NEW S, NEW seq \in Seq(S)
  PROVE  /\ Len(seq) \in Nat /\ DOMAIN seq = 1..Len(seq)
         /\ Range(seq) = {seq[i] : i \in 1..Len(seq)}
         /\ \A i \in 1..Len(seq) : seq[i] \in S
BY LenProperties, RangeEquality, ElementOfSeq

LEMMA RangeOfAppend ==
  ASSUME NEW S, NEW seq \in Seq(S), NEW x \in S
  PROVE  Append(seq, x) \in Seq(S) /\ Range(Append(seq, x)) = Range(seq) \cup {x}
<1> DEFINE longer == Append(seq, x)
<1>1. /\ longer \in Seq(S) /\ Len(longer) = Len(seq) + 1
      /\ \A i \in 1..Len(seq) : longer[i] = seq[i]
      /\ longer[Len(seq) + 1] = x
  BY AppendProperties
<1> HIDE DEF longer
<1>2. Len(seq) \in Nat /\ Range(seq) = {seq[i] : i \in 1..Len(seq)}
  BY ListFacts
<1>3. Range(longer) = {longer[i] : i \in 1..Len(longer)}
  BY <1>1, ListFacts
<1>4. \A i \in 1..Len(longer) : i \in 1..Len(seq) \/ i = Len(seq) + 1
  BY <1>1, <1>2
<1>5. \A i \in 1..Len(seq) : i \in 1..Len(longer)
  BY <1>1, <1>2
<1>6. Len(seq) + 1 \in 1..Len(longer)
  BY <1>1, <1>2
<1>7. ASSUME NEW y \in Range(longer) PROVE y \in Range(seq) \cup {x}
  BY <1>1, <1>2, <1>3, <1>4, <1>7
<1>8. ASSUME NEW y \in Range(seq) \cup {x} PROVE y \in Range(longer)
  BY <1>1, <1>2, <1>3, <1>5, <1>6, <1>8
<1>9. Range(longer) = Range(seq) \cup {x}
  BY <1>7, <1>8
<1> QED
  BY <1>1, <1>9 DEF longer

LEMMA RangeOfConcat ==
  ASSUME NEW S, NEW first \in Seq(S), NEW second \in Seq(S)
  PROVE  first \o second \in Seq(S) /\ Range(first \o second) = Range(first) \cup Range(second)
BY ConcatProperties, RangeConcatenation

(* Kept keeps the members that are in the set, and only those.             *)
LEMMA KeptFacts ==
  ASSUME NEW S, NEW seq \in Seq(S), NEW set
  PROVE  Kept(seq, set) \in Seq(S) /\ Range(Kept(seq, set)) = Range(seq) \cap set
<1> DEFINE N == Len(seq)
           V == Seq(S)
           step == [n \in 1..N |-> [q \in V |-> IF seq[n] \in set THEN Append(q, seq[n]) ELSE q]]
           Solves(f) == f = [n \in 0..N |->
                               IF n = 0 THEN <<>>
                               ELSE IF seq[n] \in set THEN Append(f[n - 1], seq[n]) ELSE f[n - 1]]
           kept == CHOOSE f : Solves(f)
           base == <<>>
<1>1. N \in Nat /\ Range(seq) = {seq[i] : i \in 1..N} /\ \A n \in 1..N : seq[n] \in S
  BY ListFacts
<1>2. Kept(seq, set) = kept[N]
  BY DEF Kept
<1>3. base \in V
  BY EmptySeq
<1>4. \E f : Solves(f)
  <2>1. step \in [1..N -> [V -> V]]
    <3>1. \A n \in 1..N, q \in V : (IF seq[n] \in set THEN Append(q, seq[n]) ELSE q) \in V
      BY <1>1, AppendProperties
    <3> QED
      BY <3>1
  <2> HIDE DEF step, V, base, N, Solves, kept
  <2>2. PICK f : Follows(f, V, base, N, step)
    BY <1>1, <1>3, <2>1, Recursion
  <2>3. f \in [0..N -> V] /\ f[0] = base /\ \A n \in 1..N : f[n] = step[n][f[n - 1]]
    BY <2>2 DEF Follows
  <2>4. \A n \in 1..N : n - 1 \in 0..N /\ f[n - 1] \in V
    BY <1>1, <2>3
  <2>5. \A n \in 1..N : f[n] = IF seq[n] \in set THEN Append(f[n - 1], seq[n]) ELSE f[n - 1]
    BY <2>3, <2>4 DEF step
  <2>6. \A n \in 0..N : n = 0 \/ n \in 1..N
    BY <1>1
  <2>7. \A n \in 0..N : f[n] = IF n = 0 THEN <<>>
                               ELSE IF seq[n] \in set THEN Append(f[n - 1], seq[n]) ELSE f[n - 1]
    BY <2>3, <2>5, <2>6 DEF base
  <2> QED
    BY <2>3, <2>7 DEF Solves
<1>5. Solves(kept)
  BY <1>4
<1> HIDE DEF kept, N, step, base
<1>6. /\ kept[0] = <<>>
      /\ \A n \in 1..N : kept[n] = IF seq[n] \in set THEN Append(kept[n - 1], seq[n]) ELSE kept[n - 1]
  <2>1. \A n \in 0..N : kept[n] = IF n = 0 THEN <<>>
                                  ELSE IF seq[n] \in set THEN Append(kept[n - 1], seq[n])
                                  ELSE kept[n - 1]
    BY <1>5
  <2>2. 0 \in 0..N /\ \A n \in 1..N : n \in 0..N /\ n # 0
    BY <1>1
  <2> QED
    BY <2>1, <2>2
<1> HIDE DEF Solves, V
<1> DEFINE Good(n) == kept[n] \in V /\ Range(kept[n]) = {seq[i] : i \in 1..n} \cap set
           G == {n \in Nat : n <= N => Good(n)}
<1>7. 0 \in G
  <2>1. <<>> \in V /\ Range(<<>>) = {} /\ {seq[i] : i \in 1..0} = {}
    <3>1. <<>> \in V
      BY EmptySeq DEF V
    <3>2. Range(<<>>) = {}
      BY DEF Range
    <3> QED
      BY <3>1, <3>2
  <2> QED
    BY <1>6, <2>1
<1>8. ASSUME NEW m \in Nat, m \in G PROVE m + 1 \in G
  <2> SUFFICES ASSUME m + 1 <= N PROVE Good(m + 1)
    OBVIOUS
  <2> DEFINE x == seq[m + 1]
  <2>1. Good(m) /\ m + 1 \in 1..N /\ (m + 1) - 1 = m
    BY <1>1, <1>8
  <2>2. kept[m + 1] = IF x \in set THEN Append(kept[m], x) ELSE kept[m]
    BY <1>6, <2>1
  <2>3. {seq[i] : i \in 1..(m + 1)} = {seq[i] : i \in 1..m} \cup {x}
    <3>1. \A i \in 1..(m + 1) : i \in 1..m \/ i = m + 1
      OBVIOUS
    <3>2. \A i \in 1..m : i \in 1..(m + 1)
      OBVIOUS
    <3> QED
      BY <2>1, <3>1, <3>2
  <2>4. x \in S
    BY <1>1, <2>1
  <2> HIDE DEF x
  <2>5. CASE x \in set
    <3>1. kept[m + 1] \in V /\ Range(kept[m + 1]) = Range(kept[m]) \cup {x}
      BY <2>1, <2>2, <2>4, <2>5, RangeOfAppend DEF V
    <3> QED
      BY <2>1, <2>3, <2>5, <3>1
  <2>6. CASE x \notin set
    BY <2>1, <2>2, <2>3, <2>6
  <2> QED
    BY <2>5, <2>6
<1>9. Nat \subseteq G
  <2> HIDE DEF G
  <2> QED
    BY <1>7, <1>8, Induction
<1>10. Good(N)
  <2>1. N \in G
    BY <1>1, <1>9
  <2> QED
    BY <2>1
<1> QED
  BY <1>1, <1>2, <1>10 DEF V

(* A set of numbers has a smallest one.                                    *)
LEMMA SmallestInSet ==
  ASSUME NEW S \in SUBSET Nat, S # {}
  PROVE  \E n \in S : \A m \in S : n <= m
<1>1. PICK n \in S : \A m \in S : ~(<<m, n>> \in OpToRel(<, Nat))
  BY WFMin, NatLessThanWellFounded, Zenon
<1>2. \A m \in S : ~(m < n)
  BY <1>1 DEF OpToRel
<1> QED
  BY <1>2

(* RemoveFirst takes nothing but the element it is given, and adds none.   *)
LEMMA RemoveFirstFacts ==
  ASSUME NEW S, NEW seq \in Seq(S), NEW x
  PROVE  /\ RemoveFirst(seq, x) \in Seq(S) /\ Len(RemoveFirst(seq, x)) <= Len(seq)
         /\ Range(seq) \ {x} \subseteq Range(RemoveFirst(seq, x))
         /\ Range(RemoveFirst(seq, x)) \subseteq Range(seq)
<1> DEFINE N == Len(seq)
           I == {i \in 1..N : seq[i] = x}
           k == Min(I)
           left == SubSeq(seq, 1, k - 1)
           right == SubSeq(seq, k + 1, N)
<1>1. N \in Nat /\ Range(seq) = {seq[i] : i \in 1..N} /\ \A n \in 1..N : seq[n] \in S
  BY ListFacts
<1>2. CASE I = {}
  <2>1. RemoveFirst(seq, x) = seq
    BY <1>2 DEF RemoveFirst
  <2> QED
    BY <1>1, <2>1
<1>3. CASE I # {}
  <2>1. SelectInSeq(seq, LAMBDA v : v = x) = k
    BY <1>3 DEF SelectInSeq
  <2>2. RemoveFirst(seq, x) = left \o right
    BY <1>3, <2>1 DEF RemoveFirst, RemoveAt
  <2>3. k \in I /\ \A i \in I : k <= i
    <3>1. I \in SUBSET Nat
      BY <1>1
    <3>2. \E n \in I : \A i \in I : n <= i
      <4> HIDE DEF I
      <4> QED
        BY <1>3, <3>1, SmallestInSet
    <3> QED
      BY <3>2 DEF Min
  <2>4. k \in 1..N /\ seq[k] = x
    BY <2>3
  <2> HIDE DEF k
  <2>5. /\ left \in Seq(S) /\ Len(left) = k - 1
        /\ \A i \in 1..(k - 1) : left[i] = seq[i]
    <3>1. \A i \in 1..(k - 1) : seq[1 + i - 1] \in S /\ seq[i] \in S
      BY <1>1, <2>4
    <3> QED
      BY <1>1, <2>4, <3>1, SubSeqProperties
  <2>6. /\ right \in Seq(S) /\ Len(right) = N - k
        /\ \A i \in 1..(N - k) : right[i] = seq[k + i]
    <3>1. \A i \in (k + 1)..N : seq[i] \in S
      BY <1>1, <2>4
    <3> QED
      BY <1>1, <2>4, <3>1, SubSeqProperties
  <2> HIDE DEF left, right
  <2>7. /\ left \o right \in Seq(S) /\ Len(left \o right) = Len(left) + Len(right)
        /\ Range(left \o right) = Range(left) \cup Range(right)
    BY <2>5, <2>6, RangeOfConcat, ConcatProperties
  <2>8. /\ Range(left) = {left[i] : i \in 1..(k - 1)}
        /\ Range(right) = {right[i] : i \in 1..(N - k)}
    BY <2>5, <2>6, ListFacts
  <2>9. ASSUME NEW y \in Range(seq) \ {x} PROVE y \in Range(left \o right)
    <3>1. PICK i \in 1..N : y = seq[i]
      BY <1>1, <2>9
    <3>2. i # k
      BY <2>4, <2>9, <3>1
    <3>3. CASE i < k
      <4>1. i \in 1..(k - 1)
        BY <2>4, <3>3
      <4> QED
        BY <2>5, <2>7, <2>8, <3>1, <4>1
    <3>4. CASE i > k
      <4>1. i - k \in 1..(N - k) /\ k + (i - k) = i
        BY <1>1, <2>4, <3>4
      <4> QED
        BY <2>6, <2>7, <2>8, <3>1, <4>1
    <3> QED
      BY <2>4, <3>2, <3>3, <3>4
  <2>10. ASSUME NEW y \in Range(left \o right) PROVE y \in Range(seq)
    <3>1. CASE y \in Range(left)
      <4>1. PICK i \in 1..(k - 1) : y = seq[i]
        BY <2>5, <2>8, <3>1
      <4>2. i \in 1..N
        BY <2>4
      <4> QED
        BY <1>1, <4>1, <4>2
    <3>2. CASE y \in Range(right)
      <4>1. PICK i \in 1..(N - k) : y = seq[k + i]
        BY <2>6, <2>8, <3>2
      <4>2. k + i \in 1..N
        BY <1>1, <2>4
      <4> QED
        BY <1>1, <4>1, <4>2
    <3> QED
      BY <2>7, <2>10, <3>1, <3>2
  <2>11. Len(left \o right) <= N
    BY <1>1, <2>4, <2>5, <2>6, <2>7
  <2> QED
    BY <2>2, <2>7, <2>9, <2>10, <2>11
<1> QED
  BY <1>2, <1>3
-----------------------------------------------------------------------------
(* Shelves *)

ShelfType(P) ==
  [frameworks : [Framework -> [status : FrameworkStatus, principles : SUBSET P,
                               initial : Accuracy \cup {0}, history : Seq(Accuracy)]],
   byStatus : [IndexedStatus -> Seq(Framework)],
   activeSet : Seq(Framework)]

StatusOf(s, f) == s.frameworks[f].status

(* An id in the index is there under its status, or retired.               *)
Sound(s) ==
  \A st \in IndexedStatus : \A f \in Range(s.byStatus[st]) : StatusOf(s, f) \in {st, "retired"}

(* What is stored is in the index under its status.                        *)
Indexed(s) ==
  \A f \in Framework : StatusOf(s, f) \in IndexedStatus => f \in Range(s.byStatus[StatusOf(s, f)])

(* The set has all that are active or under review, none that never was,   *)
(* and no more than it may have.                                           *)
Rostered(s) ==
  /\ \A f \in Framework : StatusOf(s, f) \in {"active", "under_review"} => f \in Range(s.activeSet)
  /\ \A f \in Range(s.activeSet) : StatusOf(s, f) \in {"active", "under_review", "retired"}
  /\ Len(s.activeSet) <= MaxActive

(* The accuracies that retire a framework: as many as the longest window   *)
(* has, and too low on average.                                            *)
Failed(history) ==
  /\ Len(history) >= RetirementCycles
  /\ Total(LastOf(history, RetirementCycles)) < RetirementAccuracy * RetirementCycles

(* A framework is activated and retired on its record, which still shows.  *)
Earned(s) ==
  \A f \in Framework :
    /\ StatusOf(s, f) \in {"active", "under_review", "retired"}
         => Len(s.frameworks[f].history) >= ValidationCycles
    /\ StatusOf(s, f) = "retired" => Failed(s.frameworks[f].history)

Shelves(P) == {s \in ShelfType(P) : Sound(s) /\ Indexed(s) /\ Rostered(s) /\ Earned(s)}

Stage(status) ==
  CASE status = "none" -> 0
    [] status = "candidate" -> 1
    [] status = "retired" -> 3
    [] OTHER -> 2

(* Nothing becomes of a retired framework, none goes back to an earlier    *)
(* stage, and one that is formed keeps its principles.                     *)
Keeps(old, new) ==
  \A f \in Framework :
    /\ StatusOf(old, f) = "retired" => new.frameworks[f] = old.frameworks[f]
    /\ Stage(StatusOf(old, f)) <= Stage(StatusOf(new, f))
    /\ StatusOf(old, f) # "none" => new.frameworks[f].principles = old.frameworks[f].principles

LEMMA KeepsSame == \A s : Keeps(s, s)
BY DEF Keeps, Stage

LEMMA MoreShelves ==
  ASSUME NEW P, NEW Q, P \subseteq Q
  PROVE  Shelves(P) \subseteq Shelves(Q)
<1>1. ShelfType(P) \subseteq ShelfType(Q)
  <2> DEFINE F(S) == [status : FrameworkStatus, principles : SUBSET S,
                      initial : Accuracy \cup {0}, history : Seq(Accuracy)]
  <2>1. F(P) \subseteq F(Q)
    OBVIOUS
  <2> HIDE DEF F
  <2>2. [Framework -> F(P)] \subseteq [Framework -> F(Q)]
    BY <2>1
  <2>3. \A S : ShelfType(S) =
          [frameworks : [Framework -> F(S)], byStatus : [IndexedStatus -> Seq(Framework)],
           activeSet : Seq(Framework)]
    BY DEF ShelfType, F
  <2> QED
    BY <2>2, <2>3
<1> QED
  BY <1>1 DEF Shelves

(* The parts of a shelf have their types.                                  *)
LEMMA ShelfParts ==
  ASSUME NEW P, NEW s \in ShelfType(P)
  PROVE  /\ s = [frameworks |-> s.frameworks, byStatus |-> s.byStatus, activeSet |-> s.activeSet]
         /\ s.frameworks \in [Framework -> [status : FrameworkStatus, principles : SUBSET P,
                                            initial : Accuracy \cup {0}, history : Seq(Accuracy)]]
         /\ s.byStatus \in [IndexedStatus -> Seq(Framework)]
         /\ s.activeSet \in Seq(Framework)
         /\ \A st \in IndexedStatus : Range(s.byStatus[st]) \subseteq Framework
         /\ Range(s.activeSet) \subseteq Framework
<1>1. /\ s = [frameworks |-> s.frameworks, byStatus |-> s.byStatus, activeSet |-> s.activeSet]
      /\ s.frameworks \in [Framework -> [status : FrameworkStatus, principles : SUBSET P,
                                         initial : Accuracy \cup {0}, history : Seq(Accuracy)]]
      /\ s.byStatus \in [IndexedStatus -> Seq(Framework)]
      /\ s.activeSet \in Seq(Framework)
  BY DEF ShelfType
<1>2. ASSUME NEW seq \in Seq(Framework) PROVE Range(seq) \subseteq Framework
  <2>1. Range(seq) \in SUBSET Framework
    BY RangeOfSeq
  <2> QED
    BY <2>1
<1>3. \A st \in IndexedStatus : s.byStatus[st] \in Seq(Framework)
  BY <1>1
<1> QED
  BY <1>1, <1>2, <1>3

(* An update moves a stored framework from one list of the index to        *)
(* another, and leaves everything else as it was.                          *)
LEMMA UpdateStatusFacts ==
  ASSUME NEW P, NEW s \in ShelfType(P), Sound(s), Indexed(s),
         NEW f \in Framework, StatusOf(s, f) \in IndexedStatus, NEW status \in IndexedStatus
  PROVE  LET t == UpdateStatus(s, f, status) IN
         /\ t \in ShelfType(P) /\ Sound(t) /\ Indexed(t)
         /\ t.activeSet = s.activeSet
         /\ StatusOf(t, f) = status
         /\ t.frameworks[f].history = s.frameworks[f].history
         /\ t.frameworks[f].principles = s.frameworks[f].principles
         /\ \A g \in Framework : g # f => t.frameworks[g] = s.frameworks[g]
<1> DEFINE old == StatusOf(s, f)
           less == Without(s.byStatus[old], f)
           purged == [s.byStatus EXCEPT ![old] = less]
           index == [purged EXCEPT ![status] = Append(purged[status], f)]
           changed == [s.frameworks EXCEPT ![f].status = status]
           t == UpdateStatus(s, f, status)
<1>0. /\ s = [frameworks |-> s.frameworks, byStatus |-> s.byStatus, activeSet |-> s.activeSet]
      /\ s.frameworks \in [Framework -> [status : FrameworkStatus, principles : SUBSET P,
                                         initial : Accuracy \cup {0}, history : Seq(Accuracy)]]
      /\ s.byStatus \in [IndexedStatus -> Seq(Framework)]
      /\ s.activeSet \in Seq(Framework)
  BY ShelfParts
<1>1. less \in Seq(Framework) /\ Range(less) = Range(s.byStatus[old]) \ {f}
  <2>1. s.byStatus[old] \in Seq(Framework)
    BY <1>0
  <2>2. /\ less \in Seq(Framework)
        /\ Range(less) = Range(s.byStatus[old]) \cap (Framework \ {f})
    BY <2>1, KeptFacts DEF Without
  <2>3. Range(s.byStatus[old]) \in SUBSET Framework
    BY <2>1, RangeOfSeq
  <2> QED
    BY <2>2, <2>3
<1>2. t = [frameworks |-> changed, byStatus |-> index, activeSet |-> s.activeSet]
  <2>1. t = [s EXCEPT !.frameworks[f].status = status, !.byStatus = index]
    BY DEF UpdateStatus, StatusOf
  <2> HIDE DEF t, index
  <2>2. t = [s EXCEPT !.frameworks = changed, !.byStatus = index]
    BY <2>1
  <2> HIDE DEF changed
  <2> QED
    BY <1>0, <2>2
<1> HIDE DEF less
<1>3. purged \in [IndexedStatus -> Seq(Framework)]
  BY <1>0, <1>1
<1>4. /\ index \in [IndexedStatus -> Seq(Framework)]
      /\ Range(index[status]) = Range(purged[status]) \cup {f}
      /\ \A st \in IndexedStatus \ {status} : index[st] = purged[st]
  <2>1. /\ Append(purged[status], f) \in Seq(Framework)
        /\ Range(Append(purged[status], f)) = Range(purged[status]) \cup {f}
    <3> HIDE DEF purged
    <3>1. purged[status] \in Seq(Framework)
      BY <1>3
    <3> QED
      BY <3>1, RangeOfAppend
  <2> QED
    BY <1>3, <2>1
<1>5. /\ Range(purged[old]) = Range(s.byStatus[old]) \ {f}
      /\ \A st \in IndexedStatus \ {old} : purged[st] = s.byStatus[st]
  BY <1>0, <1>1
<1>6. /\ changed \in [Framework -> [status : FrameworkStatus, principles : SUBSET P,
                                    initial : Accuracy \cup {0}, history : Seq(Accuracy)]]
      /\ changed[f].status = status
      /\ changed[f].history = s.frameworks[f].history
      /\ changed[f].principles = s.frameworks[f].principles
      /\ \A g \in Framework : g # f => changed[g] = s.frameworks[g]
  BY <1>0 DEF FrameworkStatus
<1> HIDE DEF index, purged, changed
<1>7. /\ t.frameworks = changed /\ t.byStatus = index /\ t.activeSet = s.activeSet
      /\ t \in ShelfType(P)
  BY <1>0, <1>2, <1>4, <1>6 DEF ShelfType
<1> HIDE DEF t
<1>8. /\ StatusOf(t, f) = status /\ \A g \in Framework : g # f => t.frameworks[g] = s.frameworks[g]
      /\ t.frameworks[f].history = s.frameworks[f].history
      /\ t.frameworks[f].principles = s.frameworks[f].principles
      /\ \A g \in Framework : g # f => StatusOf(t, g) = StatusOf(s, g)
  BY <1>6, <1>7 DEF StatusOf
<1>9. ASSUME NEW st \in IndexedStatus, NEW g \in Range(t.byStatus[st])
      PROVE  StatusOf(t, g) \in {st, "retired"}
  <2>1. g \in Framework
    BY <1>7, ShelfParts
  <2>2. CASE g = f
    <3>1. ASSUME st # status PROVE FALSE
      <4>1. f \in Range(purged[st])
        BY <1>4, <1>7, <1>9, <2>2, <3>1
      <4>2. st # old /\ f \in Range(s.byStatus[st])
        BY <1>5, <4>1
      <4>3. old \in {st, "retired"} /\ old # "retired"
        BY <4>2 DEF Sound, IndexedStatus
      <4> QED
        BY <4>2, <4>3
    <3> QED
      BY <1>8, <2>2, <3>1
  <2>3. CASE g # f
    <3>1. g \in Range(purged[st])
      BY <1>4, <1>7, <1>9, <2>3
    <3>2. g \in Range(s.byStatus[st])
      BY <1>5, <3>1
    <3> QED
      BY <1>8, <2>1, <2>3, <3>2 DEF Sound
  <2> QED
    BY <2>2, <2>3
<1>10. ASSUME NEW g \in Framework, StatusOf(t, g) \in IndexedStatus
       PROVE  g \in Range(t.byStatus[StatusOf(t, g)])
  <2>1. CASE g = f
    BY <1>4, <1>7, <1>8, <2>1
  <2>2. CASE g # f
    <3> DEFINE st == StatusOf(s, g)
    <3>1. st \in IndexedStatus /\ StatusOf(t, g) = st /\ g \in Range(s.byStatus[st])
      BY <1>8, <1>10, <2>2 DEF Indexed
    <3>2. g \in Range(purged[st])
      BY <1>5, <2>2, <3>1
    <3>3. g \in Range(index[st])
      BY <1>4, <3>1, <3>2
    <3> QED
      BY <1>7, <3>1, <3>3
  <2> QED
    BY <2>1, <2>2
<1> QED
  BY <1>7, <1>8, <1>9, <1>10 DEF Sound, Indexed, t

-----------------------------------------------------------------------------
(* The rounds of the loops *)

(* The evaluator names a status that is reached from the present one.      *)
LEMMA EvaluateFacts ==
  ASSUME NEW r
  PROVE  /\ Evaluate(r) = "active" => r.status \in {"candidate", "active"}
         /\ Evaluate(r) = "under_review" => r.status \in {"active", "under_review"}
         /\ Evaluate(r) = "retired" => r.status \in {"active", "under_review", "retired"}
         /\ Evaluate(r) = "active" /\ r.status = "candidate" => Len(r.history) >= ValidationCycles
         /\ Evaluate(r) = "retired" /\ r.status # "retired" => Failed(r.history)
BY DEF Evaluate, Averages, Failed

LEMMA ValidateStays ==
  ASSUME NEW P, NEW s \in Shelves(P), NEW f \in Framework
  PROVE  Validate(s, f) \in Shelves(P) /\ Keeps(s, Validate(s, f))
<1>1. s \in ShelfType(P) /\ Sound(s) /\ Indexed(s) /\ Rostered(s) /\ Earned(s)
  BY DEF Shelves
<1>2. CASE Evaluate(s.frameworks[f]) = "active" /\ Len(s.activeSet) < MaxActive
  <2> DEFINE t == UpdateStatus(s, f, "active")
             new == [t EXCEPT !.activeSet = Append(t.activeSet, f)]
  <2>1. StatusOf(s, f) \in {"candidate", "active"}
    BY <1>2, EvaluateFacts DEF StatusOf
  <2>2. StatusOf(s, f) \in IndexedStatus /\ "active" \in IndexedStatus
    BY <2>1 DEF IndexedStatus
  <2>3. /\ t \in ShelfType(P) /\ Sound(t) /\ Indexed(t)
        /\ t.activeSet = s.activeSet /\ StatusOf(t, f) = "active"
        /\ t.frameworks[f].history = s.frameworks[f].history
        /\ t.frameworks[f].principles = s.frameworks[f].principles
        /\ \A g \in Framework : g # f => t.frameworks[g] = s.frameworks[g]
    BY <1>1, <2>2, UpdateStatusFacts
  <2>4. Validate(s, f) = new
    BY <1>2 DEF Validate
  <2> HIDE DEF t
  <2>5. /\ t = [frameworks |-> t.frameworks, byStatus |-> t.byStatus, activeSet |-> t.activeSet]
        /\ t.activeSet \in Seq(Framework) /\ Range(t.activeSet) \subseteq Framework
    BY <2>3, ShelfParts
  <2>6. /\ Append(t.activeSet, f) \in Seq(Framework)
        /\ Range(Append(t.activeSet, f)) = Range(t.activeSet) \cup {f}
    BY <2>5, RangeOfAppend
  <2>7. Len(Append(t.activeSet, f)) = Len(s.activeSet) + 1 /\ Len(s.activeSet) \in Nat
    BY <2>3, <2>5, AppendProperties, LenProperties
  <2>8. /\ new.frameworks = t.frameworks /\ new.byStatus = t.byStatus
        /\ new.activeSet = Append(t.activeSet, f)
    BY <2>5
  <2>9. new \in ShelfType(P)
    BY <2>3, <2>6 DEF ShelfType
  <2> HIDE DEF new
  <2>10. Sound(new) /\ Indexed(new)
    BY <2>3, <2>8 DEF Sound, Indexed, StatusOf
  <2>11. Keeps(s, new)
    BY <2>1, <2>3, <2>8 DEF Keeps, StatusOf, Stage
  <2>13. Earned(new)
    <3>1. Len(s.frameworks[f].history) >= ValidationCycles
      BY <1>1, <1>2, <2>1, EvaluateFacts DEF Earned, StatusOf
    <3> QED
      BY <1>1, <2>3, <2>8, <3>1 DEF Earned, StatusOf
  <2>12. Rostered(new)
    <3>1. \A g \in Framework : StatusOf(new, g) = IF g = f THEN "active" ELSE StatusOf(s, g)
      BY <2>3, <2>8 DEF StatusOf
    <3>2. Range(new.activeSet) = Range(s.activeSet) \cup {f} /\ Range(s.activeSet) \subseteq Framework
      BY <2>3, <2>5, <2>6, <2>8
    <3>3. Len(new.activeSet) <= MaxActive
      BY <1>2, <2>7, <2>8, FrameworkSetAssumption
    <3> QED
      BY <1>1, <3>1, <3>2, <3>3 DEF Rostered
  <2> QED
    BY <2>4, <2>9, <2>10, <2>11, <2>12, <2>13 DEF Shelves
<1>3. CASE ~(Evaluate(s.frameworks[f]) = "active" /\ Len(s.activeSet) < MaxActive)
  <2>1. Validate(s, f) = s
    BY <1>3 DEF Validate
  <2> QED
    BY <2>1, KeepsSame
<1> QED
  BY <1>2, <1>3

(* A framework under review or active may be put under review or be active *)
(* again: the set has it.                                                  *)
LEMMA MovedStays ==
  ASSUME NEW P, NEW s \in Shelves(P), NEW f \in Framework,
         StatusOf(s, f) \in {"active", "under_review"}, NEW status \in {"active", "under_review"}
  PROVE  /\ UpdateStatus(s, f, status) \in Shelves(P) /\ Keeps(s, UpdateStatus(s, f, status))
         /\ StatusOf(UpdateStatus(s, f, status), f) = status
         /\ \A g \in Framework : g # f => StatusOf(UpdateStatus(s, f, status), g) = StatusOf(s, g)
<1> DEFINE t == UpdateStatus(s, f, status)
<1>1. s \in ShelfType(P) /\ Sound(s) /\ Indexed(s) /\ Rostered(s) /\ Earned(s)
  BY DEF Shelves
<1>2. StatusOf(s, f) \in IndexedStatus /\ status \in IndexedStatus
  BY DEF IndexedStatus
<1>3. /\ t \in ShelfType(P) /\ Sound(t) /\ Indexed(t)
      /\ t.activeSet = s.activeSet /\ StatusOf(t, f) = status
      /\ t.frameworks[f].history = s.frameworks[f].history
      /\ t.frameworks[f].principles = s.frameworks[f].principles
      /\ \A g \in Framework : g # f => t.frameworks[g] = s.frameworks[g]
  BY <1>1, <1>2, UpdateStatusFacts
<1> HIDE DEF t
<1>4. \A g \in Framework : g # f => StatusOf(t, g) = StatusOf(s, g)
  BY <1>3 DEF StatusOf
<1>5. Range(s.activeSet) \subseteq Framework
  BY <1>1, ShelfParts
<1>6. Rostered(t)
  BY <1>1, <1>3, <1>4, <1>5 DEF Rostered
<1>7. Keeps(s, t)
  BY <1>3, <1>4 DEF Keeps, Stage
<1>8. Earned(t)
  BY <1>1, <1>3, <1>4 DEF Earned
<1> QED
  BY <1>3, <1>4, <1>6, <1>7, <1>8 DEF Shelves, t

LEMMA RetireStays ==
  ASSUME NEW P, NEW s \in Shelves(P), NEW f \in Framework,
         StatusOf(s, f) \in {"active", "under_review", "retired"},
         StatusOf(s, f) = "retired" \/ Failed(s.frameworks[f].history)
  PROVE  Retire(s, f) \in Shelves(P) /\ Keeps(s, Retire(s, f))
<1> DEFINE t == Retire(s, f)
           changed == [s.frameworks EXCEPT ![f].status = "retired"]
           left == LeftBy(s.activeSet, f)
<1>1. s \in ShelfType(P) /\ Sound(s) /\ Indexed(s) /\ Rostered(s) /\ Earned(s)
  BY DEF Shelves
<1>2. /\ s = [frameworks |-> s.frameworks, byStatus |-> s.byStatus, activeSet |-> s.activeSet]
      /\ s.frameworks \in [Framework -> [status : FrameworkStatus, principles : SUBSET P,
                                         initial : Accuracy \cup {0}, history : Seq(Accuracy)]]
      /\ s.byStatus \in [IndexedStatus -> Seq(Framework)]
      /\ s.activeSet \in Seq(Framework)
      /\ \A st \in IndexedStatus : Range(s.byStatus[st]) \subseteq Framework
      /\ Range(s.activeSet) \subseteq Framework
  BY <1>1, ShelfParts
<1>3. /\ left \in Seq(Framework) /\ Range(s.activeSet) \ {f} \subseteq Range(left)
      /\ Range(left) \subseteq Range(s.activeSet) /\ Len(left) <= Len(s.activeSet)
  BY <1>2, RemoveFirstFacts, LenProperties DEF LeftBy
<1>4. t = [frameworks |-> changed, byStatus |-> s.byStatus, activeSet |-> left]
  <2>1. t = [s EXCEPT !.frameworks[f].status = "retired", !.activeSet = left]
    BY DEF Retire
  <2> HIDE DEF t, left
  <2>2. t = [s EXCEPT !.frameworks = changed, !.activeSet = left]
    BY <2>1
  <2> HIDE DEF changed
  <2> QED
    BY <1>2, <2>2
<1>5. /\ changed \in [Framework -> [status : FrameworkStatus, principles : SUBSET P,
                                    initial : Accuracy \cup {0}, history : Seq(Accuracy)]]
      /\ changed[f] = [s.frameworks[f] EXCEPT !.status = "retired"]
      /\ changed[f].status = "retired" /\ changed[f].history = s.frameworks[f].history
      /\ changed[f].principles = s.frameworks[f].principles
      /\ \A g \in Framework : g # f => changed[g] = s.frameworks[g]
  BY <1>2 DEF FrameworkStatus
<1> HIDE DEF changed, left
<1>6. /\ t.frameworks = changed /\ t.byStatus = s.byStatus /\ t.activeSet = left
      /\ t \in ShelfType(P)
  BY <1>2, <1>3, <1>4, <1>5 DEF ShelfType
<1> HIDE DEF t
<1>7. \A g \in Framework : StatusOf(t, g) = IF g = f THEN "retired" ELSE StatusOf(s, g)
  BY <1>5, <1>6 DEF StatusOf
<1>8. Sound(t)
  BY <1>1, <1>2, <1>6, <1>7 DEF Sound
<1>9. Indexed(t)
  BY <1>1, <1>6, <1>7 DEF Indexed, IndexedStatus
<1>10. Rostered(t)
  <2>1. Len(left) <= MaxActive
    BY <1>1, <1>2, <1>3, LenProperties, FrameworkSetAssumption DEF Rostered
  <2> QED
    BY <1>1, <1>2, <1>3, <1>6, <1>7, <2>1 DEF Rostered
<1>11. Keeps(s, t)
  <2>1. ASSUME StatusOf(s, f) = "retired" PROVE changed[f] = s.frameworks[f]
    BY <1>2, <1>5, <2>1 DEF StatusOf
  <2>2. \A g \in Framework : Stage(StatusOf(s, g)) <= Stage(StatusOf(t, g))
    BY <1>7 DEF Stage
  <2> QED
    BY <1>5, <1>6, <2>1, <2>2 DEF Keeps
<1>12. Earned(t)
  <2>1. \A g \in Framework : t.frameworks[g].history = s.frameworks[g].history
    BY <1>5, <1>6
  <2> QED
    BY <1>1, <1>7, <2>1 DEF Earned
<1> QED
  BY <1>6, <1>8, <1>9, <1>10, <1>11, <1>12 DEF Shelves, t

LEMMA ReviewStays ==
  ASSUME NEW P, NEW s \in Shelves(P), NEW f \in Framework
  PROVE  Review(s, f) \in Shelves(P) /\ Keeps(s, Review(s, f))
<1>1. CASE Evaluate(s.frameworks[f]) = "under_review"
  <2>1. StatusOf(s, f) \in {"active", "under_review"}
    BY <1>1, EvaluateFacts DEF StatusOf
  <2>2. Review(s, f) = UpdateStatus(s, f, "under_review")
    BY <1>1 DEF Review
  <2> QED
    BY <2>1, <2>2, MovedStays
<1>2. CASE Evaluate(s.frameworks[f]) = "retired"
  <2>1. /\ StatusOf(s, f) \in {"active", "under_review", "retired"}
        /\ StatusOf(s, f) = "retired" \/ Failed(s.frameworks[f].history)
    BY <1>2, EvaluateFacts DEF StatusOf
  <2>2. Review(s, f) = Retire(s, f)
    BY <1>2 DEF Review
  <2> QED
    BY <2>1, <2>2, RetireStays
<1>3. CASE Evaluate(s.frameworks[f]) \notin {"under_review", "retired"}
  <2>1. Review(s, f) = s
    BY <1>3 DEF Review
  <2> QED
    BY <2>1, KeepsSame
<1> QED
  BY <1>1, <1>2, <1>3

LEMMA RecoverStays ==
  ASSUME NEW P, NEW s \in Shelves(P), NEW f \in Framework,
         StatusOf(s, f) \in {"active", "under_review"}
  PROVE  /\ Recover(s, f) \in Shelves(P) /\ Keeps(s, Recover(s, f))
         /\ StatusOf(Recover(s, f), f) \in {"active", "under_review"}
         /\ \A g \in Framework : g # f => StatusOf(Recover(s, f), g) = StatusOf(s, g)
<1>1. CASE Improving(s.frameworks[f].history)
  <2>1. Recover(s, f) = UpdateStatus(s, f, "active")
    BY <1>1 DEF Recover
  <2> QED
    BY <2>1, MovedStays
<1>2. CASE ~Improving(s.frameworks[f].history)
  <2>1. Recover(s, f) = s
    BY <1>2 DEF Recover
  <2> QED
    BY <2>1, KeepsSame
<1> QED
  BY <1>1, <1>2

LEMMA KeepsOn ==
  ASSUME NEW old, NEW now, NEW new, Keeps(old, now), Keeps(now, new)
  PROVE  Keeps(old, new)
BY DEF Keeps, StatusOf, Stage

-----------------------------------------------------------------------------
(* The loops *)

LEMMA StoredAmongFacts ==
  ASSUME NEW s, NEW list \in Seq(Framework)
  PROVE  /\ StoredAmong(s, list) \in Seq(Framework)
         /\ Range(StoredAmong(s, list)) = {f \in Range(list) : StatusOf(s, f) \in IndexedStatus}
<1> DEFINE kept == {f \in Framework : IsStored(s, f)}
<1>1. /\ StoredAmong(s, list) \in Seq(Framework)
      /\ Range(StoredAmong(s, list)) = Range(list) \cap kept
  BY KeptFacts DEF StoredAmong
<1>2. Range(list) \in SUBSET Framework
  BY RangeOfSeq
<1>3. Range(list) \cap kept = {f \in Range(list) : StatusOf(s, f) \in IndexedStatus}
  BY <1>2 DEF IsStored, StatusOf
<1> QED
  BY <1>1, <1>3

LEMMA ValidateLoop ==
  ASSUME NEW P, NEW s \in Shelves(P), NEW list \in Seq(Framework)
  PROVE  Rounds(s, list, Validate) \in Shelves(P) /\ Keeps(s, Rounds(s, list, Validate))
<1> DEFINE N == Len(list)
           V == {t \in Shelves(P) : Keeps(s, t)}
           step == [n \in 1..N |-> [t \in V |-> Validate(t, list[n])]]
           Solves(f) == f = [n \in 0..N |-> IF n = 0 THEN s ELSE Validate(f[n - 1], list[n])]
           after == CHOOSE f : Solves(f)
<1>1. N \in Nat /\ \A n \in 1..N : list[n] \in Framework
  BY ListFacts
<1>2. s \in V
  BY KeepsSame
<1>3. \A t \in V : \A n \in 1..N : Validate(t, list[n]) \in V
  BY <1>1, ValidateStays, KeepsOn
<1>4. Rounds(s, list, Validate) = after[N]
  BY DEF Rounds
<1> HIDE DEF N, V, step
<1>5. step \in [1..N -> [V -> V]]
  BY <1>3 DEF step
<1>6. \E f : Solves(f)
  <2> HIDE DEF Solves, after
  <2>1. PICK f : Loops(f, V, s, N, step)
    BY <1>1, <1>2, <1>5, LoopFunction
  <2>2. f \in [0..N -> V] /\ f = [n \in 0..N |-> IF n = 0 THEN s ELSE step[n][f[n - 1]]]
    BY <2>1 DEF Loops
  <2>3. \A n \in 0..N : n # 0 => n \in 1..N /\ f[n - 1] \in V
    <3>1. \A n \in 0..N : n # 0 => n \in 1..N /\ n - 1 \in 0..N
      BY <1>1
    <3> QED
      BY <2>2, <3>1
  <2>4. \A n \in 1..N : \A t \in V : step[n][t] = Validate(t, list[n])
    BY DEF step
  <2>5. Solves(f)
    BY <2>2, <2>3, <2>4 DEF Solves
  <2> QED
    BY <2>5
<1>7. Solves(after)
  BY <1>6
<1> HIDE DEF after
<1>8. after[0] = s /\ \A n \in 1..N : after[n] = Validate(after[n - 1], list[n])
  <2>1. \A n \in 0..N : after[n] = IF n = 0 THEN s ELSE Validate(after[n - 1], list[n])
    BY <1>7
  <2>2. 0 \in 0..N /\ \A n \in 1..N : n \in 0..N /\ n # 0
    BY <1>1
  <2> QED
    BY <2>1, <2>2
<1> HIDE DEF Solves
<1>9. \A n \in 0..N : after[n] \in V
  <2>1. \A n \in 1..N : after[n - 1] \in V => after[n] \in V
    BY <1>3, <1>8
  <2> QED
    BY <1>1, <1>2, <1>8, <2>1, LoopStays
<1>10. after[N] \in V
  BY <1>1, <1>9
<1> QED
  BY <1>4, <1>10 DEF V

LEMMA ReviewLoop ==
  ASSUME NEW P, NEW s \in Shelves(P), NEW list \in Seq(Framework)
  PROVE  Rounds(s, list, Review) \in Shelves(P) /\ Keeps(s, Rounds(s, list, Review))
<1> DEFINE N == Len(list)
           V == {t \in Shelves(P) : Keeps(s, t)}
           step == [n \in 1..N |-> [t \in V |-> Review(t, list[n])]]
           Solves(f) == f = [n \in 0..N |-> IF n = 0 THEN s ELSE Review(f[n - 1], list[n])]
           after == CHOOSE f : Solves(f)
<1>1. N \in Nat /\ \A n \in 1..N : list[n] \in Framework
  BY ListFacts
<1>2. s \in V
  BY KeepsSame
<1>3. \A t \in V : \A n \in 1..N : Review(t, list[n]) \in V
  BY <1>1, ReviewStays, KeepsOn
<1>4. Rounds(s, list, Review) = after[N]
  BY DEF Rounds
<1> HIDE DEF N, V, step
<1>5. step \in [1..N -> [V -> V]]
  BY <1>3 DEF step
<1>6. \E f : Solves(f)
  <2> HIDE DEF Solves, after
  <2>1. PICK f : Loops(f, V, s, N, step)
    BY <1>1, <1>2, <1>5, LoopFunction
  <2>2. f \in [0..N -> V] /\ f = [n \in 0..N |-> IF n = 0 THEN s ELSE step[n][f[n - 1]]]
    BY <2>1 DEF Loops
  <2>3. \A n \in 0..N : n # 0 => n \in 1..N /\ f[n - 1] \in V
    <3>1. \A n \in 0..N : n # 0 => n \in 1..N /\ n - 1 \in 0..N
      BY <1>1
    <3> QED
      BY <2>2, <3>1
  <2>4. \A n \in 1..N : \A t \in V : step[n][t] = Review(t, list[n])
    BY DEF step
  <2>5. Solves(f)
    BY <2>2, <2>3, <2>4 DEF Solves
  <2> QED
    BY <2>5
<1>7. Solves(after)
  BY <1>6
<1> HIDE DEF after
<1>8. after[0] = s /\ \A n \in 1..N : after[n] = Review(after[n - 1], list[n])
  <2>1. \A n \in 0..N : after[n] = IF n = 0 THEN s ELSE Review(after[n - 1], list[n])
    BY <1>7
  <2>2. 0 \in 0..N /\ \A n \in 1..N : n \in 0..N /\ n # 0
    BY <1>1
  <2> QED
    BY <2>1, <2>2
<1> HIDE DEF Solves
<1>9. \A n \in 0..N : after[n] \in V
  <2>1. \A n \in 1..N : after[n - 1] \in V => after[n] \in V
    BY <1>3, <1>8
  <2> QED
    BY <1>1, <1>2, <1>8, <2>1, LoopStays
<1>10. after[N] \in V
  BY <1>1, <1>9
<1> QED
  BY <1>4, <1>10 DEF V

(* Those that may recover are active or under review in every round.       *)
LEMMA RecoverLoop ==
  ASSUME NEW P, NEW s \in Shelves(P), NEW list \in Seq(Framework),
         \A g \in Range(list) : StatusOf(s, g) \in {"active", "under_review"}
  PROVE  Rounds(s, list, Recover) \in Shelves(P) /\ Keeps(s, Rounds(s, list, Recover))
<1> DEFINE N == Len(list)
           V == {t \in Shelves(P) : Keeps(s, t)
                               /\ \A g \in Range(list) : StatusOf(t, g) \in {"active", "under_review"}}
           step == [n \in 1..N |-> [t \in V |-> Recover(t, list[n])]]
           Solves(f) == f = [n \in 0..N |-> IF n = 0 THEN s ELSE Recover(f[n - 1], list[n])]
           after == CHOOSE f : Solves(f)
<1>1. N \in Nat /\ \A n \in 1..N : list[n] \in Framework /\ list[n] \in Range(list)
  BY ListFacts
<1>2. s \in V
  BY KeepsSame
<1>3. \A t \in V : \A n \in 1..N : Recover(t, list[n]) \in V
  <2> SUFFICES ASSUME NEW t \in V, NEW n \in 1..N PROVE Recover(t, list[n]) \in V
    OBVIOUS
  <2>1. /\ Recover(t, list[n]) \in Shelves(P) /\ Keeps(t, Recover(t, list[n]))
        /\ StatusOf(Recover(t, list[n]), list[n]) \in {"active", "under_review"}
        /\ \A g \in Framework : g # list[n] => StatusOf(Recover(t, list[n]), g) = StatusOf(t, g)
    BY <1>1, RecoverStays
  <2>2. Range(list) \in SUBSET Framework
    BY RangeOfSeq
  <2> QED
    BY <2>1, <2>2, KeepsOn
<1>4. Rounds(s, list, Recover) = after[N]
  BY DEF Rounds
<1> HIDE DEF N, V, step
<1>5. step \in [1..N -> [V -> V]]
  BY <1>3 DEF step
<1>6. \E f : Solves(f)
  <2> HIDE DEF Solves, after
  <2>1. PICK f : Loops(f, V, s, N, step)
    BY <1>1, <1>2, <1>5, LoopFunction
  <2>2. f \in [0..N -> V] /\ f = [n \in 0..N |-> IF n = 0 THEN s ELSE step[n][f[n - 1]]]
    BY <2>1 DEF Loops
  <2>3. \A n \in 0..N : n # 0 => n \in 1..N /\ f[n - 1] \in V
    <3>1. \A n \in 0..N : n # 0 => n \in 1..N /\ n - 1 \in 0..N
      BY <1>1
    <3> QED
      BY <2>2, <3>1
  <2>4. \A n \in 1..N : \A t \in V : step[n][t] = Recover(t, list[n])
    BY DEF step
  <2>5. Solves(f)
    BY <2>2, <2>3, <2>4 DEF Solves
  <2> QED
    BY <2>5
<1>7. Solves(after)
  BY <1>6
<1> HIDE DEF after
<1>8. after[0] = s /\ \A n \in 1..N : after[n] = Recover(after[n - 1], list[n])
  <2>1. \A n \in 0..N : after[n] = IF n = 0 THEN s ELSE Recover(after[n - 1], list[n])
    BY <1>7
  <2>2. 0 \in 0..N /\ \A n \in 1..N : n \in 0..N /\ n # 0
    BY <1>1
  <2> QED
    BY <2>1, <2>2
<1> HIDE DEF Solves
<1>9. \A n \in 0..N : after[n] \in V
  <2>1. \A n \in 1..N : after[n - 1] \in V => after[n] \in V
    BY <1>3, <1>8
  <2> QED
    BY <1>1, <1>2, <1>8, <2>1, LoopStays
<1>10. after[N] \in V
  BY <1>1, <1>9
<1> QED
  BY <1>4, <1>10 DEF V

(* validate_candidates and evaluate_active keep the shelf in order.        *)
LEMMA ValidateCandidatesStays ==
  ASSUME NEW P, NEW s \in Shelves(P)
  PROVE  ValidateCandidates(s) \in Shelves(P) /\ Keeps(s, ValidateCandidates(s))
<1>1. s.byStatus["candidate"] \in Seq(Framework)
  BY ShelfParts DEF Shelves, IndexedStatus
<1>2. StoredOf(s, "candidate") \in Seq(Framework)
  BY <1>1, StoredAmongFacts DEF StoredOf
<1> QED
  BY <1>2, ValidateLoop DEF ValidateCandidates

LEMMA EvaluateActiveStays ==
  ASSUME NEW P, NEW s \in Shelves(P)
  PROVE  EvaluateActive(s) \in Shelves(P) /\ Keeps(s, EvaluateActive(s))
<1> DEFINE all == [f \in Framework |-> f]
           list == StoredAmong(s, all)
           reviewed == Rounds(s, list, Review)
           queue == StoredOf(reviewed, "under_review")
<1>1. all \in Seq(Framework)
  BY FrameworkSetAssumption, IsASeq DEF Framework
<1>2. list \in Seq(Framework)
  BY <1>1, StoredAmongFacts
<1>3. reviewed \in Shelves(P) /\ Keeps(s, reviewed)
  BY <1>2, ReviewLoop
<1> HIDE DEF list, all, reviewed
<1>4. reviewed.byStatus["under_review"] \in Seq(Framework) /\ Sound(reviewed)
  BY <1>3, ShelfParts DEF Shelves, IndexedStatus
<1>5. /\ queue \in Seq(Framework)
      /\ Range(queue) = {f \in Range(reviewed.byStatus["under_review"]) :
                           StatusOf(reviewed, f) \in IndexedStatus}
  BY <1>4, StoredAmongFacts DEF StoredOf
<1>6. \A f \in Range(queue) : StatusOf(reviewed, f) \in {"active", "under_review"}
  BY <1>4, <1>5 DEF Sound, IndexedStatus
<1>7. EvaluateActive(s) = Rounds(reviewed, queue, Recover)
  BY DEF EvaluateActive, reviewed, list, all
<1> HIDE DEF queue
<1>8. /\ Rounds(reviewed, queue, Recover) \in Shelves(P)
      /\ Keeps(reviewed, Rounds(reviewed, queue, Recover))
  BY <1>3, <1>5, <1>6, RecoverLoop
<1> QED
  BY <1>3, <1>7, <1>8, KeepsOn

-----------------------------------------------------------------------------
(* The other operations *)

(* A candidate takes an id that nothing was formed under, which neither    *)
(* the index nor the set can have.                                         *)
LEMMA FormCandidateStays ==
  ASSUME NEW P, NEW s \in Shelves(P), NEW f \in Framework, StatusOf(s, f) = "none",
         NEW members \in SUBSET P, NEW initial \in Accuracy
  PROVE  /\ FormCandidate(s, f, members, initial) \in Shelves(P)
         /\ Keeps(s, FormCandidate(s, f, members, initial))
<1> DEFINE r == [status |-> "candidate", principles |-> members, initial |-> initial, history |-> <<>>]
           changed == [s.frameworks EXCEPT ![f] = r]
           longer == s.byStatus["candidate"] \o <<f, f>>
           index == [s.byStatus EXCEPT !["candidate"] = longer]
           t == FormCandidate(s, f, members, initial)
<1>1. s \in ShelfType(P) /\ Sound(s) /\ Indexed(s) /\ Rostered(s) /\ Earned(s)
  BY DEF Shelves
<1>2. /\ s = [frameworks |-> s.frameworks, byStatus |-> s.byStatus, activeSet |-> s.activeSet]
      /\ s.frameworks \in [Framework -> [status : FrameworkStatus, principles : SUBSET P,
                                         initial : Accuracy \cup {0}, history : Seq(Accuracy)]]
      /\ s.byStatus \in [IndexedStatus -> Seq(Framework)]
      /\ s.activeSet \in Seq(Framework)
      /\ \A st \in IndexedStatus : Range(s.byStatus[st]) \subseteq Framework
      /\ Range(s.activeSet) \subseteq Framework
  BY <1>1, ShelfParts
<1>3. /\ longer \in Seq(Framework)
      /\ Range(longer) = Range(s.byStatus["candidate"]) \cup {f}
  <2> DEFINE queue == s.byStatus["candidate"]
             twice == <<f, f>>
  <2>1. queue \in Seq(Framework) /\ twice \in Seq(Framework)
    BY <1>2 DEF IndexedStatus
  <2>2. Range(twice) = {f}
    BY DEF Range
  <2> HIDE DEF queue, twice
  <2>3. /\ queue \o twice \in Seq(Framework)
        /\ Range(queue \o twice) = Range(queue) \cup Range(twice)
    BY <2>1, RangeOfConcat
  <2> QED
    BY <2>2, <2>3 DEF queue, twice
<1>4. t = [frameworks |-> changed, byStatus |-> index, activeSet |-> s.activeSet]
  <2>1. t = [s EXCEPT !.frameworks[f] = r, !.byStatus["candidate"] = longer]
    BY DEF FormCandidate
  <2> HIDE DEF t, longer, r
  <2>2. t = [s EXCEPT !.frameworks = changed, !.byStatus = index]
    BY <2>1
  <2> HIDE DEF changed, index
  <2> QED
    BY <1>2, <2>2
<1>5. /\ changed \in [Framework -> [status : FrameworkStatus, principles : SUBSET P,
                                    initial : Accuracy \cup {0}, history : Seq(Accuracy)]]
      /\ changed[f].status = "candidate"
      /\ \A g \in Framework : g # f => changed[g] = s.frameworks[g]
  <2>1. r \in [status : FrameworkStatus, principles : SUBSET P,
               initial : Accuracy \cup {0}, history : Seq(Accuracy)]
    BY EmptySeq DEF FrameworkStatus, IndexedStatus
  <2> QED
    BY <1>2, <2>1
<1> HIDE DEF longer
<1>6. /\ index \in [IndexedStatus -> Seq(Framework)]
      /\ index["candidate"] = longer
      /\ \A st \in IndexedStatus : st # "candidate" => index[st] = s.byStatus[st]
  BY <1>2, <1>3 DEF IndexedStatus
<1> HIDE DEF changed, index
<1>7. /\ t.frameworks = changed /\ t.byStatus = index /\ t.activeSet = s.activeSet
      /\ t \in ShelfType(P)
  BY <1>2, <1>4, <1>5, <1>6 DEF ShelfType
<1> HIDE DEF t
<1>8. \A g \in Framework : StatusOf(t, g) = IF g = f THEN "candidate" ELSE StatusOf(s, g)
  BY <1>5, <1>7 DEF StatusOf
<1>9. \A st \in IndexedStatus : f \notin Range(s.byStatus[st])
  BY <1>1 DEF Sound, IndexedStatus
<1>10. f \notin Range(s.activeSet)
  BY <1>1 DEF Rostered
<1>11. \A st \in IndexedStatus : Range(t.byStatus[st]) =
         IF st = "candidate" THEN Range(s.byStatus[st]) \cup {f} ELSE Range(s.byStatus[st])
  BY <1>3, <1>6, <1>7
<1>12. Sound(t)
  BY <1>1, <1>2, <1>8, <1>9, <1>11 DEF Sound
<1>13. Indexed(t)
  BY <1>1, <1>8, <1>11 DEF Indexed, IndexedStatus
<1>14. Rostered(t)
  BY <1>1, <1>2, <1>7, <1>8, <1>10 DEF Rostered
<1>15. Keeps(s, t)
  BY <1>5, <1>7, <1>8 DEF Keeps, Stage
<1>16. Earned(t)
  BY <1>1, <1>5, <1>7, <1>8 DEF Earned
<1> QED
  BY <1>7, <1>12, <1>13, <1>14, <1>15, <1>16 DEF Shelves, t

(* A history is all that an accuracy changes.                              *)
LEMMA RecordAccuracyStays ==
  ASSUME NEW P, Shelf \in Shelves(P), NEW f \in Framework, NEW accuracy \in Accuracy,
         RecordAccuracy(f, accuracy)
  PROVE  Shelf' \in Shelves(P) /\ Keeps(Shelf, Shelf')
<1> DEFINE old == frameworks[f].history
           longer == Append(old, accuracy)
           new == IF Len(longer) > RetirementCycles THEN Tail(longer) ELSE longer
<1>1. Shelf \in ShelfType(P) /\ Sound(Shelf) /\ Indexed(Shelf) /\ Rostered(Shelf) /\ Earned(Shelf)
  BY DEF Shelves
<1>2. /\ frameworks \in [Framework -> [status : FrameworkStatus, principles : SUBSET P,
                                       initial : Accuracy \cup {0}, history : Seq(Accuracy)]]
      /\ byStatus \in [IndexedStatus -> Seq(Framework)]
      /\ activeSet \in Seq(Framework)
      /\ \A st \in IndexedStatus : Range(byStatus[st]) \subseteq Framework
      /\ Range(activeSet) \subseteq Framework
  BY <1>1, ShelfParts DEF Shelf
<1>3. new \in Seq(Accuracy) /\ Len(new) \in Nat /\ Len(old) \in Nat /\ Len(old) <= Len(new)
  <2>1. old \in Seq(Accuracy)
    BY <1>2
  <2> HIDE DEF old
  <2>2. /\ longer \in Seq(Accuracy) /\ longer # <<>>
        /\ Len(longer) = Len(old) + 1 /\ Len(old) \in Nat
    BY <2>1, AppendProperties, LenProperties
  <2> HIDE DEF longer
  <2>3. Tail(longer) \in Seq(Accuracy) /\ Len(Tail(longer)) = Len(longer) - 1
    BY <2>2, HeadTailProperties
  <2> QED
    BY <2>2, <2>3
<1>4. frameworks' = [frameworks EXCEPT ![f].history = new]
  BY DEF RecordAccuracy
<1>5. byStatus' = byStatus /\ activeSet' = activeSet
  BY DEF RecordAccuracy
<1> HIDE DEF new, old
<1>6. /\ frameworks' \in [Framework -> [status : FrameworkStatus, principles : SUBSET P,
                                        initial : Accuracy \cup {0}, history : Seq(Accuracy)]]
      /\ \A g \in Framework : frameworks'[g].status = frameworks[g].status
      /\ \A g \in Framework : frameworks'[g].principles = frameworks[g].principles
      /\ frameworks'[f].history = new
      /\ \A g \in Framework : g # f => frameworks'[g] = frameworks[g]
  BY <1>2, <1>3, <1>4
<1> DEFINE s == Shelf
           t == Shelf'
<1>7. /\ s.frameworks = frameworks /\ s.byStatus = byStatus /\ s.activeSet = activeSet
      /\ t.frameworks = frameworks' /\ t.byStatus = byStatus /\ t.activeSet = activeSet
  BY <1>5 DEF Shelf
<1>8. t \in ShelfType(P)
  BY <1>2, <1>5, <1>6 DEF ShelfType, Shelf
<1> HIDE DEF s, t
<1>9. \A g \in Framework : StatusOf(t, g) = StatusOf(s, g)
  BY <1>6, <1>7 DEF StatusOf
<1>10. Sound(s) /\ Indexed(s) /\ Rostered(s) /\ Earned(s)
  BY <1>1 DEF s
<1>11. Sound(t)
  BY <1>2, <1>7, <1>9, <1>10 DEF Sound
<1>12. Indexed(t)
  BY <1>7, <1>9, <1>10 DEF Indexed
<1>13. Rostered(t)
  BY <1>2, <1>7, <1>9, <1>10 DEF Rostered
<1>14. StatusOf(s, f) # "retired"
  BY <1>7 DEF RecordAccuracy, IsStored, IndexedStatus, Shelf, StatusOf
<1>15. Keeps(s, t)
  <2>1. \A g \in Framework : Stage(StatusOf(s, g)) <= Stage(StatusOf(t, g))
    BY <1>9 DEF Stage
  <2> QED
    BY <1>6, <1>7, <1>14, <2>1 DEF Keeps
<1>16. Earned(t)
  <2>1. Len(s.frameworks[f].history) = Len(old)
    BY <1>7 DEF old
  <2>2. Len(old) >= ValidationCycles => Len(new) >= ValidationCycles
    BY <1>3, FrameworkSetAssumption
  <2> QED
    BY <1>6, <1>7, <1>9, <1>10, <1>14, <2>1, <2>2 DEF Earned
<1> QED
  BY <1>8, <1>11, <1>12, <1>13, <1>15, <1>16 DEF Shelves, s, t

LEMMA InitialShelf ==
  ASSUME NEW P, FrameworkInit
  PROVE  Shelf \in Shelves(P)
<1>1. \A g \in Framework : StatusOf(Shelf, g) = "none"
  BY DEF FrameworkInit, Shelf, StatusOf
<1>2. \A st \in IndexedStatus : Shelf.byStatus[st] = <<>>
  BY DEF FrameworkInit, Shelf
<1>3. Shelf.activeSet = <<>> /\ Range(<<>>) = {} /\ Len(<<>>) = 0
  BY EmptySeq DEF FrameworkInit, Shelf, Range
<1>4. Shelf \in ShelfType(P)
  <2>1. <<>> \in Seq(Framework) /\ <<>> \in Seq(Accuracy)
    BY EmptySeq
  <2>2. [status |-> "none", principles |-> {}, initial |-> 0, history |-> <<>>]
          \in [status : FrameworkStatus, principles : SUBSET P,
               initial : Accuracy \cup {0}, history : Seq(Accuracy)]
    BY <2>1 DEF FrameworkStatus
  <2> QED
    BY <2>1, <2>2 DEF FrameworkInit, Shelf, ShelfType
<1>5. Sound(Shelf)
  BY <1>2, <1>3 DEF Sound
<1>6. Indexed(Shelf)
  BY <1>1 DEF Indexed, IndexedStatus
<1>7. Rostered(Shelf)
  BY <1>1, <1>3, FrameworkSetAssumption DEF Rostered
<1>8. Earned(Shelf)
  BY <1>1 DEF Earned
<1> QED
  BY <1>4, <1>5, <1>6, <1>7, <1>8 DEF Shelves
=============================================================================
