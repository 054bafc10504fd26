----------------------- MODULE ResearchPipeline_proofs -----------------------
(***************************************************************************)
(* Theorems about the research pipeline, for any rules files, any goals    *)
(* and any number of runs: merging leaves in the templates only more       *)
(* dependencies, so that every plan honours the file, and COMPLETED means  *)
(* that everything the file asks for has succeeded.                        *)
(***************************************************************************)
EXTENDS ResearchPipeline, Executor_proofs

-----------------------------------------------------------------------------
(* The tasks a goal's rules offer *)

(* A goal matches rules of the file.                                       *)
LEMMA GoalsMatch ==
  ASSUME NEW g \in Goal
  PROVE  Matches(g) \in Seq(Rule)
<1>1. PICK n \in 0..Cardinality(Rule) : g \in [1..n -> Rule \ {Fallback}]
  BY DEF Goal
<1>2. n \in Nat /\ Fallback \in Rule
  BY PlannerAssumption
<1>3. g \in [1..n -> Rule]
  BY <1>1
<1>4. g \in Seq(Rule)
  BY <1>2, <1>3
<1>5. <<Fallback>> \in Seq(Rule)
  BY <1>2
<1> QED
  BY <1>4, <1>5 DEF Matches

(* What is offered is built up rule by rule.                               *)
LEMMA OfferedFacts ==
  ASSUME NEW rules \in [Rule -> Seq(Task)], NEW ms \in Seq(Rule)
  PROVE  LET up == OfferedUpTo(rules, ms)
         IN  /\ \A k \in 0..Len(ms) : up[k] \in Seq(Task)
             /\ up[0] = <<>>
             /\ \A k \in 1..Len(ms) : up[k] = up[k - 1] \o rules[ms[k]]
<1> DEFINE N == Len(ms)
           V == Seq(Task)
           base == <<>>
           step == [k \in 1..N |-> [s \in V |-> s \o rules[ms[k]]]]
           Solves(f) == f = [k \in 0..N |-> IF k = 0 THEN <<>> ELSE f[k - 1] \o rules[ms[k]]]
           up == CHOOSE f : Solves(f)
<1>1. N \in Nat /\ \A k \in 1..N : rules[ms[k]] \in V
  OBVIOUS
<1>2. OfferedUpTo(rules, ms) = up
  BY DEF OfferedUpTo
<1>3. base \in V
  OBVIOUS
<1>4. step \in [1..N -> [V -> V]]
  <2>1. \A k \in 1..N : \A s \in V : s \o rules[ms[k]] \in V
    BY <1>1, ConcatProperties
  <2> HIDE DEF V, N
  <2> QED
    BY <2>1
<1>5. \E f : Solves(f)
  <2> HIDE DEF step, V, base, N, Solves, up
  <2>1. PICK f : /\ f \in [0..N -> V] /\ f[0] = base
                 /\ \A n \in 1..N : f[n] = step[n][f[n - 1]]
    <3>1. PICK f : Follows(f, V, base, N, step)
      BY <1>1, <1>3, <1>4, Recursion
    <3> QED
      BY <3>1 DEF Follows
  <2>2. \A n \in 1..N : n - 1 \in 0..N /\ f[n - 1] \in V
    BY <1>1, <2>1
  <2>3. \A n \in 1..N : f[n] = f[n - 1] \o rules[ms[n]]
    BY <2>1, <2>2 DEF step
  <2>4. \A n \in 0..N : n = 0 \/ n \in 1..N
    BY <1>1
  <2>5. \A n \in 0..N : f[n] = IF n = 0 THEN <<>> ELSE f[n - 1] \o rules[ms[n]]
    BY <2>1, <2>3, <2>4 DEF base
  <2> QED
    BY <2>1, <2>5 DEF Solves
<1>6. Solves(up)
  BY <1>5
<1> HIDE DEF up, N, step, V, base
<1>7. /\ up[0] = <<>>
      /\ \A n \in 1..N : up[n] = up[n - 1] \o rules[ms[n]]
  <2>1. \A n \in 0..N : up[n] = IF n = 0 THEN <<>> ELSE up[n - 1] \o rules[ms[n]]
    BY <1>6
  <2>2. 0 \in 0..N /\ \A n \in 1..N : n \in 0..N /\ n # 0
    BY <1>1
  <2> QED
    BY <2>1, <2>2
<1> HIDE DEF Solves
<1> DEFINE S == {n \in Nat : n <= N => up[n] \in V}
<1>8. 0 \in S
  BY <1>3, <1>7 DEF base
<1>9. ASSUME NEW m \in Nat, m \in S PROVE m + 1 \in S
  <2> SUFFICES ASSUME m + 1 <= N PROVE up[m + 1] \in V
    OBVIOUS
  <2>1. up[m] \in V /\ m + 1 \in 1..N /\ (m + 1) - 1 = m
    BY <1>1, <1>9
  <2>2. up[m + 1] = up[m] \o rules[ms[m + 1]]
    BY <1>7, <2>1
  <2> QED
    BY <1>1, <2>1, <2>2, ConcatProperties DEF V
<1>10. \A n \in 0..N : up[n] \in V
  <2>1. Nat \subseteq S
    <3> HIDE DEF S
    <3> QED
      BY <1>8, <1>9, Induction
  <2> QED
    BY <1>1, <2>1
<1> QED
  BY <1>2, <1>7, <1>10 DEF V, N

(* A task of a matched rule is offered, at its place.                      *)
LEMMA OfferedPlaces ==
  ASSUME NEW rules \in [Rule -> Seq(Task)], NEW ms \in Seq(Rule),
         NEW k \in 1..Len(ms), NEW i \in DOMAIN rules[ms[k]]
  PROVE  LET n == Len(OfferedUpTo(rules, ms)[k - 1]) + i
         IN  n \in DOMAIN Offered(rules, ms) /\ Offered(rules, ms)[n] = rules[ms[k]][i]
<1> DEFINE up == OfferedUpTo(rules, ms)
           N == Len(ms)
           n == Len(up[k - 1]) + i
           S == {m \in Nat : k <= m /\ m <= N => n \in 1..Len(up[m]) /\ up[m][n] = rules[ms[k]][i]}
<1>1. /\ \A j \in 0..N : up[j] \in Seq(Task)
      /\ \A j \in 1..N : up[j] = up[j - 1] \o rules[ms[j]]
  BY OfferedFacts
<1>2. N \in Nat /\ k \in Nat /\ \A j \in 1..N : rules[ms[j]] \in Seq(Task)
  OBVIOUS
<1>3. i \in 1..Len(rules[ms[k]])
  OBVIOUS
<1>4. Offered(rules, ms) = up[N]
  BY DEF Offered
<1> HIDE DEF up, N
<1>5. ASSUME NEW m \in Nat, m \in S PROVE m + 1 \in S
  <2> SUFFICES ASSUME k <= m + 1, m + 1 <= N
               PROVE  n \in 1..Len(up[m + 1]) /\ up[m + 1][n] = rules[ms[k]][i]
    OBVIOUS
  <2> DEFINE s == up[m]
             t == rules[ms[m + 1]]
  <2>1. /\ s \in Seq(Task) /\ m + 1 \in 1..N /\ (m + 1) - 1 = m /\ t \in Seq(Task)
    BY <1>1, <1>2, <1>5
  <2>2. up[m + 1] = s \o t
    BY <1>1, <2>1
  <2>3. /\ Len(s \o t) = Len(s) + Len(t) /\ Len(s) \in Nat /\ Len(t) \in Nat
        /\ \A j \in 1..(Len(s) + Len(t)) : (s \o t)[j] = IF j <= Len(s) THEN s[j] ELSE t[j - Len(s)]
    <3> HIDE DEF s, t
    <3>1. s \in Seq(Task) /\ t \in Seq(Task)
      BY <2>1
    <3> QED
      BY <3>1, ConcatProperties
  <2>4. CASE k = m + 1
    <3>1. k - 1 = m
      BY <1>2, <2>4
    <3>2. n = Len(s) + i /\ i \in 1..Len(t) /\ t[i] = rules[ms[k]][i]
      BY <1>3, <2>4, <3>1
    <3> HIDE DEF n, s, t
    <3>3. n \in 1..(Len(s) + Len(t)) /\ ~(n <= Len(s)) /\ n - Len(s) = i
      BY <2>3, <3>2
    <3> QED
      BY <2>2, <2>3, <3>2, <3>3
  <2>5. CASE k # m + 1
    <3>1. n \in 1..Len(s) /\ s[n] = rules[ms[k]][i]
      BY <1>2, <1>5, <2>5
    <3> HIDE DEF n, s, t
    <3>2. n \in 1..(Len(s) + Len(t)) /\ n <= Len(s)
      BY <2>3, <3>1
    <3> QED
      BY <2>2, <2>3, <3>1, <3>2
  <2> QED
    BY <2>4, <2>5
<1>6. 0 \in S
  BY <1>2 DEF N
<1>7. N \in S
  <2> HIDE DEF S
  <2> QED
    BY <1>2, <1>5, <1>6, Induction
<1>8. n \in 1..Len(up[N]) /\ up[N][n] = rules[ms[k]][i]
  <2>1. k <= N
    BY <1>2 DEF N
  <2> HIDE DEF n
  <2> QED
    BY <1>2, <1>7, <2>1
<1>9. DOMAIN up[N] = 1..Len(up[N])
  BY <1>1, <1>2
<1> QED
  BY <1>4, <1>8, <1>9 DEF up

(* What an earlier merge may have made of a task: more dependencies.       *)
Extends(x, y) ==
  /\ x \in Task /\ y \in Task /\ x.id = y.id /\ y.deps \subseteq x.deps
  /\ x.critical = y.critical /\ x.retries = y.retries /\ x.handled = y.handled

Grown(rules, given) ==
  /\ rules \in [Rule -> Seq(Task)] /\ given \in [Rule -> Seq(Task)]
  /\ \A r \in Rule : Len(rules[r]) = Len(given[r])
                    /\ \A i \in 1..Len(rules[r]) : Extends(rules[r][i], given[r][i])

(* What is offered by grown rules are the given tasks, grown.              *)
LEMMA OfferedGrown ==
  ASSUME NEW rules, NEW given, Grown(rules, given), NEW ms \in Seq(Rule)
  PROVE  /\ Offered(rules, ms) \in Seq(Task) /\ Offered(given, ms) \in Seq(Task)
         /\ Len(Offered(rules, ms)) = Len(Offered(given, ms))
         /\ \A n \in 1..Len(Offered(rules, ms)) : Extends(Offered(rules, ms)[n], Offered(given, ms)[n])
<1> DEFINE N == Len(ms)
           up == OfferedUpTo(rules, ms)
           was == OfferedUpTo(given, ms)
           Alike(m) == /\ up[m] \in Seq(Task) /\ was[m] \in Seq(Task) /\ Len(up[m]) = Len(was[m])
                       /\ \A n \in 1..Len(up[m]) : Extends(up[m][n], was[m][n])
           S == {m \in Nat : m <= N => Alike(m)}
<1>1. rules \in [Rule -> Seq(Task)] /\ given \in [Rule -> Seq(Task)] /\ N \in Nat
  BY DEF Grown
<1>2. /\ \A k \in 0..N : up[k] \in Seq(Task) /\ was[k] \in Seq(Task)
      /\ up[0] = <<>> /\ was[0] = <<>>
      /\ \A k \in 1..N : up[k] = up[k - 1] \o rules[ms[k]] /\ was[k] = was[k - 1] \o given[ms[k]]
  BY <1>1, OfferedFacts
<1>3. \A k \in 1..N : ms[k] \in Rule
  OBVIOUS
<1> HIDE DEF N, up, was
<1>4. 0 \in S
  <2>1. Len(<<>>) = 0 /\ <<>> \in Seq(Task) /\ 1..0 = {}
    OBVIOUS
  <2> QED
    BY <1>2, <2>1
<1>5. ASSUME NEW m \in Nat, m \in S PROVE m + 1 \in S
  <2> SUFFICES ASSUME m + 1 <= N PROVE Alike(m + 1)
    OBVIOUS
  <2> DEFINE s == up[m]
             t == rules[ms[m + 1]]
             u == was[m]
             v == given[ms[m + 1]]
  <2>1. /\ m + 1 \in 1..N /\ (m + 1) - 1 = m /\ ms[m + 1] \in Rule
        /\ s \in Seq(Task) /\ u \in Seq(Task) /\ Len(s) = Len(u)
        /\ \A n \in 1..Len(s) : Extends(s[n], u[n])
    BY <1>1, <1>3, <1>5
  <2>2. /\ t \in Seq(Task) /\ v \in Seq(Task) /\ Len(t) = Len(v)
        /\ \A n \in 1..Len(t) : Extends(t[n], v[n])
    BY <1>1, <2>1 DEF Grown
  <2>3. up[m + 1] = s \o t /\ was[m + 1] = u \o v
    BY <1>2, <2>1
  <2> HIDE DEF s, t, u, v
  <2>4. /\ s \o t \in Seq(Task) /\ Len(s \o t) = Len(s) + Len(t) /\ Len(s) \in Nat /\ Len(t) \in Nat
        /\ \A j \in 1..(Len(s) + Len(t)) : (s \o t)[j] = IF j <= Len(s) THEN s[j] ELSE t[j - Len(s)]
    <3>1. s \in Seq(Task) /\ t \in Seq(Task)
      BY <2>1, <2>2
    <3>2. Len(s) \in Nat /\ Len(t) \in Nat
      BY <3>1
    <3> QED
      BY <3>1, <3>2, ConcatProperties
  <2>5. /\ u \o v \in Seq(Task) /\ Len(u \o v) = Len(u) + Len(v)
        /\ \A j \in 1..(Len(u) + Len(v)) : (u \o v)[j] = IF j <= Len(u) THEN u[j] ELSE v[j - Len(u)]
    BY <2>1, <2>2, ConcatProperties
  <2>6. ASSUME NEW n \in 1..(Len(s) + Len(t)) PROVE Extends((s \o t)[n], (u \o v)[n])
    <3>1. CASE n <= Len(s)
      <4>1. n \in 1..Len(s) /\ (s \o t)[n] = s[n] /\ (u \o v)[n] = u[n]
        BY <2>1, <2>2, <2>4, <2>5, <3>1
      <4> QED
        BY <2>1, <4>1
    <3>2. CASE ~(n <= Len(s))
      <4>1. n - Len(s) \in 1..Len(t)
        BY <2>4, <3>2
      <4>2. (s \o t)[n] = t[n - Len(s)] /\ (u \o v)[n] = v[n - Len(s)]
        BY <2>1, <2>2, <2>4, <2>5, <3>2
      <4> QED
        BY <2>2, <4>1, <4>2
    <3> QED
      BY <3>1, <3>2
  <2> QED
    BY <2>1, <2>2, <2>3, <2>4, <2>5, <2>6
<1>6. Alike(N)
  <2>1. N \in S
    <3> HIDE DEF S
    <3> QED
      BY <1>1, <1>4, <1>5, Induction
  <2> QED
    BY <1>1, <2>1
<1> QED
  BY <1>6 DEF N, up, was, Offered

-----------------------------------------------------------------------------
(* Merging *)

(* A merged task is the first one with the dependencies of all.            *)
LEMMA MergeGrows ==
  ASSUME NEW tasks \in Seq(Task), NEW n \in DOMAIN tasks
  PROVE  /\ Merge(tasks, n) \in Task /\ Extends(Merge(tasks, n), tasks[n])
         /\ \A m \in DOMAIN tasks : tasks[m].id = tasks[n].id => tasks[m].deps \subseteq Merge(tasks, n).deps
<1> DEFINE deps == UNION {tasks[m].deps : m \in {j \in DOMAIN tasks : tasks[j].id = tasks[n].id}}
<1>1. \A m \in DOMAIN tasks : tasks[m] \in Task /\ tasks[m].deps \subseteq TaskId
  <2>1. \A m \in DOMAIN tasks : tasks[m] \in Task
    OBVIOUS
  <2> QED
    BY <2>1 DEF Task
<1>2. deps \subseteq TaskId /\ \A m \in DOMAIN tasks : tasks[m].id = tasks[n].id => tasks[m].deps \subseteq deps
  BY <1>1
<1>3. Merge(tasks, n) = [tasks[n] EXCEPT !.deps = deps]
  BY DEF Merge
<1> HIDE DEF deps
<1>4. /\ Merge(tasks, n) \in Task /\ Merge(tasks, n).deps = deps /\ Merge(tasks, n).id = tasks[n].id
      /\ Merge(tasks, n).critical = tasks[n].critical /\ Merge(tasks, n).retries = tasks[n].retries
      /\ Merge(tasks, n).handled = tasks[n].handled
  <2>1. tasks[n] \in Task
    BY <1>1
  <2> QED
    BY <1>2, <1>3, <2>1 DEF Task
<1> QED
  BY <1>1, <1>2, <1>4 DEF Extends

(* The first task of an id.                                                *)
LEMMA FirstOf ==
  ASSUME NEW tasks \in Seq(Task), NEW n \in DOMAIN tasks
  PROVE  \E m \in DOMAIN tasks : /\ m <= n /\ IsFirst(tasks, m) /\ tasks[m].id = tasks[n].id
                                 /\ IsFirst(tasks, n) => m = n
<1> DEFINE T == {m \in DOMAIN tasks : tasks[m].id = tasks[n].id}
<1>1. DOMAIN tasks = 1..Len(tasks) /\ Len(tasks) \in Nat
  OBVIOUS
<1>2. T \subseteq Nat /\ T # {}
  BY <1>1
<1> HIDE DEF T
<1>3. PICK m \in T : \A k \in T : ~(<<k, m>> \in OpToRel(<, Nat))
  BY <1>2, WFMin, NatLessThanWellFounded, Zenon
<1>4. \A k \in T : ~(k < m)
  BY <1>2, <1>3 DEF OpToRel
<1>5. m \in 1..Len(tasks) /\ n \in 1..Len(tasks) /\ tasks[m].id = tasks[n].id /\ n \in T
  BY <1>1, <1>3 DEF T
<1>6. m <= n
  BY <1>1, <1>4, <1>5
<1>7. ASSUME NEW k \in 1..(m - 1), tasks[k].id = tasks[m].id PROVE FALSE
  <2>1. k \in 1..Len(tasks) /\ k < m
    BY <1>1, <1>5
  <2>2. k \in T
    BY <1>1, <1>5, <1>7, <2>1 DEF T
  <2> QED
    BY <1>4, <2>1, <2>2
<1>8. IsFirst(tasks, m)
  BY <1>7 DEF IsFirst
<1>9. ASSUME IsFirst(tasks, n) PROVE m = n
  <2>1. m \notin 1..(n - 1)
    BY <1>5, <1>9 DEF IsFirst
  <2> QED
    BY <1>1, <1>5, <1>6, <2>1
<1>10. m \in DOMAIN tasks
  BY <1>1, <1>5
<1> QED
  BY <1>5, <1>6, <1>8, <1>9, <1>10

(* Ranks number the members of a set: each has one, and none is left out.  *)
Rank(F, n) == Cardinality({m \in F : m < n})

LEMMA RanksFill ==
  ASSUME NEW L \in Nat, NEW F \in SUBSET (1..L)
  PROVE  /\ Cardinality(F) \in Nat
         /\ \A n \in F : Rank(F, n) \in 0..(Cardinality(F) - 1)
         /\ \A n, k \in F : Rank(F, n) = Rank(F, k) => n = k
         /\ \A i \in 1..Cardinality(F) : \E n \in F : Rank(F, n) = i - 1
<1> DEFINE Before(n) == {m \in F : m < n}
           C == Cardinality(F)
           f == [n \in F |-> Rank(F, n) + 1]
<1>1. IsFiniteSet(F)
  <2>1. IsFiniteSet(1..L)
    BY FS_Interval
  <2> QED
    BY <2>1, FS_Subset
<1>2. C \in Nat
  BY <1>1, FS_CardinalityType
<1>3. ASSUME NEW n \in F PROVE /\ IsFiniteSet(Before(n)) /\ Rank(F, n) = Cardinality(Before(n))
                               /\ Rank(F, n) \in Nat /\ Rank(F, n) <= C /\ Rank(F, n) # C
  <2>1. Before(n) \in SUBSET F /\ n \notin Before(n)
    OBVIOUS
  <2>2. Rank(F, n) = Cardinality(Before(n))
    BY DEF Rank
  <2> HIDE DEF Before
  <2>3. /\ IsFiniteSet(Before(n)) /\ Cardinality(Before(n)) <= C
        /\ C = Cardinality(Before(n)) => F = Before(n)
    BY <1>1, <2>1, FS_Subset
  <2>4. Cardinality(Before(n)) \in Nat
    BY <2>3, FS_CardinalityType
  <2> QED
    BY <2>1, <2>2, <2>3, <2>4
<1>4. ASSUME NEW n \in F, NEW k \in F, k < n PROVE Rank(F, k) # Rank(F, n)
  <2>0. F \subseteq Int /\ n \in Int /\ k \in Int
    OBVIOUS
  <2>1. Before(k) \in SUBSET Before(n) /\ k \in Before(n) /\ k \notin Before(k)
    <3>1. \A m \in F : m \in Int
      BY <2>0
    <3>2. \A m \in F : m < k => m < n
      BY <1>4, <2>0, <3>1
    <3>3. k \in Before(n)
      BY <1>4
    <3>4. k \notin Before(k)
      BY <2>0
    <3>5. \A m \in Before(k) : m \in Before(n)
      BY <3>2
    <3> HIDE DEF Before
    <3> QED
      BY <3>3, <3>4, <3>5
  <2> HIDE DEF Before
  <2>2. Cardinality(Before(n)) = Cardinality(Before(k)) => Before(n) = Before(k)
    BY <1>3, <2>1, FS_Subset
  <2> QED
    BY <1>3, <2>1, <2>2
<1>5. \A n, k \in F : Rank(F, n) = Rank(F, k) => n = k
  <2> SUFFICES ASSUME NEW n \in F, NEW k \in F, n # k PROVE Rank(F, n) # Rank(F, k)
    OBVIOUS
  <2>1. n < k \/ k < n
    OBVIOUS
  <2> QED
    BY <1>4, <2>1
<1> HIDE DEF C
<1>6. ASSUME NEW n \in F PROVE Rank(F, n) \in 0..(C - 1)
  <2> DEFINE r == Rank(F, n)
  <2>1. r \in Nat /\ r <= C /\ r # C
    BY <1>3
  <2> HIDE DEF r
  <2>2. r \in 0..(C - 1)
    BY <1>2, <2>1
  <2> QED
    BY <2>2 DEF r
<1>7. f \in Injection(F, 1..C)
  <2>1. ASSUME NEW n \in F
        PROVE  f[n] = Rank(F, n) + 1 /\ f[n] \in 1..C /\ Rank(F, n) \in Nat
    <3>1. f[n] = Rank(F, n) + 1
      OBVIOUS
    <3> HIDE DEF f
    <3> QED
      BY <1>2, <1>6, <3>1
  <2>2. f \in [F -> 1..C]
    BY <2>1
  <2>3. \A n, k \in F : f[n] = f[k] => n = k
    BY <1>5, <2>1
  <2> HIDE DEF f
  <2>4. IsInjective(f)
    BY <2>2, <2>3 DEF IsInjective
  <2> QED
    BY <2>2, <2>4 DEF Injection
<1>8. IsFiniteSet(1..C) /\ Cardinality(1..C) = C
  BY <1>2, FS_Interval
<1>9. f \in Surjection(F, 1..C)
  <2> HIDE DEF f
  <2>1. Cardinality(F) = Cardinality(1..C)
    BY <1>8 DEF C
  <2> QED
    BY <1>7, <1>8, <2>1, FS_Injection
<1>10. ASSUME NEW i \in 1..C PROVE \E n \in F : Rank(F, n) = i - 1
  <2>1. PICK n \in F : f[n] = i
    <3> HIDE DEF f
    <3> QED
      BY <1>9 DEF Surjection
  <2>2. f[n] = Rank(F, n) + 1 /\ Rank(F, n) \in Nat
    BY <1>3
  <2> HIDE DEF f
  <2>3. Rank(F, n) = i - 1
    BY <2>1, <2>2
  <2> QED
    BY <2>3
<1> QED
  BY <1>2, <1>5, <1>10, <1>6 DEF C

(* The plan has the first task of every id, merged.                        *)
LEMMA PlanPlaces ==
  ASSUME NEW rules \in [Rule -> Seq(Task)], NEW g \in Goal, NEW tasks \in Seq(Task),
         tasks = Offered(rules, Matches(g))
  PROVE  /\ PlanFor(rules, g) \in Seq(Task)
         /\ \A n \in DOMAIN tasks : IsFirst(tasks, n) =>
              \E i \in DOMAIN PlanFor(rules, g) : PlanFor(rules, g)[i] = Merge(tasks, n)
<1> DEFINE F == {n \in DOMAIN tasks : IsFirst(tasks, n)}
           Nth(i) == CHOOSE n \in F : Rank(F, n) = i - 1
           p == PlanFor(rules, g)
           C == Cardinality(F)
<1>1. p = [i \in 1..C |-> Merge(tasks, Nth(i))]
  BY DEF PlanFor, Rank
<1>2. DOMAIN tasks = 1..Len(tasks) /\ Len(tasks) \in Nat /\ F \in SUBSET (1..Len(tasks))
  OBVIOUS
<1> HIDE DEF F, p
<1>3. /\ C \in Nat
      /\ \A n \in F : Rank(F, n) \in 0..(C - 1)
      /\ \A n, k \in F : Rank(F, n) = Rank(F, k) => n = k
      /\ \A i \in 1..C : \E n \in F : Rank(F, n) = i - 1
  BY <1>2, RanksFill
<1> HIDE DEF C
<1>4. ASSUME NEW i \in 1..C PROVE Nth(i) \in F /\ Rank(F, Nth(i)) = i - 1
  BY <1>3
<1> HIDE DEF Nth
<1>5. p \in Seq(Task)
  <2>1. \A i \in 1..C : Merge(tasks, Nth(i)) \in Task
    BY <1>4, MergeGrows DEF F
  <2> QED
    BY <1>1, <1>3, <2>1
<1>6. ASSUME NEW n \in DOMAIN tasks, IsFirst(tasks, n)
      PROVE  \E i \in DOMAIN p : p[i] = Merge(tasks, n)
  <2>1. n \in F
    BY <1>6 DEF F
  <2> DEFINE i == Rank(F, n) + 1
  <2>2. i \in 1..C /\ i - 1 = Rank(F, n)
    BY <1>3, <2>1
  <2> HIDE DEF i
  <2>3. Nth(i) = n
    BY <1>3, <1>4, <2>1, <2>2
  <2> QED
    BY <1>1, <2>2, <2>3
<1> QED
  BY <1>5, <1>6 DEF p
-----------------------------------------------------------------------------
(* Plans and templates *)

(* What PlanHonoursRules says of the plan of a goal.                       *)
Honours(p, offered) ==
  \A n \in DOMAIN offered :
    /\ offered[n].id \in Ids(p)
    /\ offered[n].deps \subseteq TaskOf(p, offered[n].id).deps
    /\ IsFirst(offered, n) =>
         /\ TaskOf(p, offered[n].id).critical = offered[n].critical
         /\ TaskOf(p, offered[n].id).retries = offered[n].retries

(* A plan made of grown templates honours the file they have grown from.   *)
LEMMA GrownPlanHonours ==
  ASSUME NEW rules, NEW given, Grown(rules, given), NEW g \in Goal,
         NEW p, p = PlanFor(rules, g), UniqueIds(p)
  PROVE  p \in Seq(Task) /\ Honours(p, Offered(given, Matches(g)))
<1> DEFINE offered == Offered(given, Matches(g))
           tasks == Offered(rules, Matches(g))
<1>1. rules \in [Rule -> Seq(Task)] /\ Matches(g) \in Seq(Rule)
  BY GoalsMatch DEF Grown
<1>2. /\ tasks \in Seq(Task) /\ offered \in Seq(Task) /\ Len(tasks) = Len(offered)
      /\ \A k \in 1..Len(tasks) : Extends(tasks[k], offered[k])
  BY <1>1, OfferedGrown
<1>3. p \in Seq(Task)
  BY <1>1, <1>2, PlanPlaces
<1>4. ASSUME NEW n \in DOMAIN offered
      PROVE  /\ offered[n].id \in Ids(p)
             /\ offered[n].deps \subseteq TaskOf(p, offered[n].id).deps
             /\ IsFirst(offered, n) =>
                  /\ TaskOf(p, offered[n].id).critical = offered[n].critical
                  /\ TaskOf(p, offered[n].id).retries = offered[n].retries
  <2> HIDE DEF tasks
  <2>1. DOMAIN tasks = 1..Len(tasks) /\ DOMAIN offered = 1..Len(tasks)
    BY <1>2
  <2>2. n \in DOMAIN tasks /\ Extends(tasks[n], offered[n])
    BY <1>2, <2>1
  <2>3. PICK m \in DOMAIN tasks : /\ IsFirst(tasks, m) /\ tasks[m].id = tasks[n].id
                                  /\ IsFirst(tasks, n) => m = n
    <3>1. tasks \in Seq(Task) /\ n \in DOMAIN tasks
      BY <1>2, <2>2
    <3> QED
      BY <3>1, FirstOf, Zenon
  <2>4. \E i \in DOMAIN p : p[i] = Merge(tasks, m)
    BY <1>1, <1>2, <2>3, PlanPlaces DEF tasks
  <2>5. PICK i \in DOMAIN p : p[i] = Merge(tasks, m)
    BY <2>4
  <2>6. /\ Extends(p[i], tasks[m])
        /\ \A k \in DOMAIN tasks : tasks[k].id = tasks[m].id => tasks[k].deps \subseteq p[i].deps
    BY <1>2, <2>5, MergeGrows
  <2>7. p[i].id = offered[n].id
    BY <2>2, <2>3, <2>6 DEF Extends
  <2> HIDE DEF offered
  <2>8. offered[n].id \in Ids(p) /\ TaskOf(p, offered[n].id) = p[i]
    <3>1. \E j \in DOMAIN p : p[j].id = offered[n].id
      BY <2>7
    <3>2. At(p, offered[n].id) \in DOMAIN p /\ p[At(p, offered[n].id)].id = offered[n].id
      BY <3>1 DEF At
    <3>3. At(p, offered[n].id) = i
      BY <2>7, <3>2 DEF UniqueIds
    <3> QED
      BY <2>7, <3>3 DEF TaskOf, Ids
  <2>9. offered[n].deps \subseteq p[i].deps
    BY <2>2, <2>3, <2>6 DEF Extends
  <2>10. ASSUME IsFirst(offered, n)
         PROVE  p[i].critical = offered[n].critical /\ p[i].retries = offered[n].retries
    <3>1. \A k \in 1..(n - 1) : k \in 1..Len(tasks)
      BY <1>2, <2>1, <2>2
    <3>2. \A k \in 1..Len(tasks) : tasks[k].id = offered[k].id
      BY <1>2 DEF Extends
    <3>3. IsFirst(tasks, n)
      BY <2>1, <2>2, <2>10, <3>1, <3>2 DEF IsFirst
    <3> QED
      BY <2>2, <2>3, <2>6, <3>3 DEF Extends
  <2> QED
    BY <2>8, <2>9, <2>10
<1> HIDE DEF offered
<1> QED
  BY <1>3, <1>4 DEF Honours, offered

(* Retaining what was merged keeps the templates grown.                    *)
LEMMA RetainGrows ==
  ASSUME Grown(templates, file), NEW g \in Goal, Retain(g)
  PROVE  Grown(templates', file)
<1> DEFINE ms == Matches(g)
           tasks == Offered(templates, ms)
           Place(k, i) == Len(OfferedUpTo(templates, ms)[k - 1]) + i
           retained(k) == [i \in DOMAIN templates[ms[k]] |->
                             IF IsFirst(tasks, Place(k, i)) THEN Merge(tasks, Place(k, i))
                             ELSE templates[ms[k]][i]]
           PlaceOf(r) == CHOOSE k \in DOMAIN ms : ms[k] = r
           new == [r \in Rule |-> IF \E k \in DOMAIN ms : ms[k] = r THEN retained(PlaceOf(r)) ELSE templates[r]]
<1>1. templates' = new
  BY DEF Retain
<1>2. templates \in [Rule -> Seq(Task)] /\ file \in [Rule -> Seq(Task)] /\ ms \in Seq(Rule)
  BY GoalsMatch DEF Grown
<1>3. tasks \in Seq(Task)
  BY <1>2, OfferedFacts, OfferedGrown
<1>4. ASSUME NEW k \in DOMAIN ms, NEW i \in DOMAIN templates[ms[k]]
      PROVE  Extends(retained(k)[i], templates[ms[k]][i])
  <2>1. k \in 1..Len(ms)
    BY <1>2
  <2>2. Place(k, i) \in DOMAIN tasks /\ tasks[Place(k, i)] = templates[ms[k]][i]
    BY <1>2, <2>1, OfferedPlaces
  <2>3. ms[k] \in Rule /\ templates[ms[k]] \in Seq(Task)
    BY <1>2, <2>1
  <2>4. templates[ms[k]][i] \in Task
    BY <2>3
  <2>5. retained(k)[i] = IF IsFirst(tasks, Place(k, i)) THEN Merge(tasks, Place(k, i)) ELSE templates[ms[k]][i]
    OBVIOUS
  <2> HIDE DEF Place, tasks, retained
  <2>6. Extends(Merge(tasks, Place(k, i)), templates[ms[k]][i])
    BY <1>3, <2>2, MergeGrows
  <2>7. Extends(templates[ms[k]][i], templates[ms[k]][i])
    BY <2>4 DEF Extends
  <2> QED
    BY <2>5, <2>6, <2>7
<1>5. ASSUME NEW r \in Rule
      PROVE  /\ new[r] \in Seq(Task) /\ Len(new[r]) = Len(templates[r])
             /\ \A i \in 1..Len(new[r]) : Extends(new[r][i], templates[r][i])
  <2>1. templates[r] \in Seq(Task)
    BY <1>2
  <2>2. \A i \in 1..Len(templates[r]) : Extends(templates[r][i], templates[r][i])
    BY <2>1 DEF Extends
  <2>3. CASE \E k \in DOMAIN ms : ms[k] = r
    <3>1. PlaceOf(r) \in DOMAIN ms /\ ms[PlaceOf(r)] = r
      BY <2>3
    <3>2. new[r] = retained(PlaceOf(r))
      BY <2>3
    <3> HIDE DEF PlaceOf, ms, tasks, Place, new
    <3>3. retained(PlaceOf(r)) = [i \in 1..Len(templates[r]) |-> retained(PlaceOf(r))[i]]
      BY <2>1, <3>1
    <3>4. \A i \in 1..Len(templates[r]) : Extends(retained(PlaceOf(r))[i], templates[r][i])
      <4> HIDE DEF retained
      <4> QED
        BY <1>4, <2>1, <3>1
    <3> HIDE DEF retained
    <3>5. \A i \in 1..Len(templates[r]) : retained(PlaceOf(r))[i] \in Task
      BY <3>4 DEF Extends
    <3>6. Len(templates[r]) \in Nat
      BY <2>1
    <3>7. retained(PlaceOf(r)) \in Seq(Task) /\ Len(retained(PlaceOf(r))) = Len(templates[r])
      BY <3>3, <3>5, <3>6
    <3> QED
      BY <3>2, <3>4, <3>7
  <2>4. CASE ~(\E k \in DOMAIN ms : ms[k] = r)
    <3>1. new[r] = templates[r]
      BY <2>4
    <3> HIDE DEF new
    <3> QED
      BY <2>1, <2>2, <3>1
  <2> QED
    BY <2>3, <2>4
<1>6. DOMAIN new = Rule /\ new = [r \in Rule |-> new[r]]
  OBVIOUS
<1> HIDE DEF new
<1>7. new \in [Rule -> Seq(Task)]
  BY <1>5, <1>6
<1>8. ASSUME NEW r \in Rule, NEW i \in 1..Len(new[r])
      PROVE  Extends(new[r][i], file[r][i])
  <2>1. Extends(new[r][i], templates[r][i]) /\ i \in 1..Len(templates[r])
    BY <1>5
  <2>2. Extends(templates[r][i], file[r][i])
    BY <2>1 DEF Grown
  <2> QED
    BY <2>1, <2>2 DEF Extends
<1> QED
  BY <1>1, <1>2, <1>5, <1>7, <1>8 DEF Grown
-----------------------------------------------------------------------------
(* The inductive invariant of the pipeline *)

CompletedInv ==
  epc = "returned" /\ status = "completed" => \A t \in Ids(plan) : results[t] = "success"

PipeInv ==
  /\ Inv
  /\ Grown(templates, file)
  /\ goal \in Goal
  /\ PlanHonoursRules
  /\ CompletedInv

(* The property, said with Honours.                                        *)
LEMMA HonoursMeans ==
  PlanHonoursRules <=> (epc \in {"executing", "returned"} => Honours(plan, Offered(file, Matches(goal))))
BY DEF PlanHonoursRules, Honours

(* The invariant holds at first: the templates are the file.               *)
LEMMA InitPipe == PipeInit => PipeInv
<1> SUFFICES ASSUME PipeInit PROVE PipeInv
  OBVIOUS
<1>1. Inv
  BY InitInv DEF PipeInit
<1>2. file \in [Rule -> Seq(Task)] /\ templates = file
  BY PlannerAssumption DEF PipeInit
<1>3. Grown(templates, file)
  BY <1>2 DEF Grown, Extends
<1>4. goal \in Goal
  <2>1. Cardinality(Rule) \in Nat
    BY PlannerAssumption, FS_CardinalityType
  <2>2. 0 \in 0..Cardinality(Rule) /\ <<>> \in [1..0 -> Rule \ {Fallback}]
    BY <2>1
  <2>3. IsInjective(<<>>)
    BY DEF IsInjective
  <2> QED
    BY <2>2, <2>3 DEF PipeInit, Goal
<1>5. PlanHonoursRules /\ CompletedInv
  BY DEF PipeInit, ExecInit, PlanHonoursRules, CompletedInv
<1> QED
  BY <1>1, <1>3, <1>4, <1>5 DEF PipeInv

(* A run plans from templates that have grown, and leaves such templates.  *)
LEMMA RunPipe ==
  ASSUME PipeInv, NEW g \in Goal, Run(g)
  PROVE  PipeInv'
<1> DEFINE p == PlanFor(templates, g)
<1>1. /\ epc = "idle" /\ goal' = g /\ file' = file
      /\ \/ Validates(p) /\ Execute(p)
         \/ UNCHANGED execVars
  BY DEF Run, Idle
<1>2. Grown(templates', file')
  BY <1>1, RetainGrows DEF Run, PipeInv
<1>3. CASE Validates(p) /\ Execute(p)
  <2>1. UniqueIds(p)
    BY <1>3 DEF Validates
  <2>2. p \in Seq(Task) /\ Honours(p, Offered(file, Matches(g)))
    <3> HIDE DEF p
    <3> QED
      BY <2>1, GrownPlanHonours DEF PipeInv, p
  <2> HIDE DEF p
  <2>3. Inv'
    BY <1>3, <2>2, ExecuteInv DEF PipeInv
  <2>4. plan' = p /\ epc' # "returned"
    BY <1>3 DEF Execute
  <2>5. PlanHonoursRules'
    BY <1>1, <2>2, <2>4 DEF PlanHonoursRules, Honours
  <2>6. CompletedInv'
    BY <2>4 DEF CompletedInv
  <2> QED
    BY <1>1, <1>2, <2>3, <2>5, <2>6 DEF PipeInv
<1>4. CASE UNCHANGED execVars
  <2>1. epc' = "idle"
    BY <1>1, <1>4 DEF execVars
  <2>2. Inv'
    BY <1>4, StutterInv DEF PipeInv
  <2> QED
    BY <1>1, <1>2, <2>1, <2>2 DEF PipeInv, PlanHonoursRules, CompletedInv
<1> QED
  BY <1>1, <1>3, <1>4

(* The executor leaves plan and templates alone, and completes only with   *)
(* every task succeeded.                                                   *)
LEMMA WorkPipe ==
  ASSUME PipeInv, ExecutorWorks
  PROVE  PipeInv'
<1>1. UNCHANGED <<templates, goal, file>> /\ ExecWork
  BY DEF ExecutorWorks
<1>2. Inv'
  BY <1>1, WorkInv DEF PipeInv
<1>3. epc = "executing" /\ plan' = plan
  BY <1>1 DEF ExecWork, NextRound, RunTask, NoAttempt, HandlerReturns, TimesOut,
              TransientError, OtherError, AtWork, Finish
<1>4. PlanHonoursRules'
  <2>1. Honours(plan, Offered(file, Matches(goal)))
    BY <1>3, HonoursMeans DEF PipeInv
  <2> QED
    BY <1>1, <1>3, <2>1 DEF PlanHonoursRules, Honours
<1>5. CompletedInv'
  <2> SUFFICES ASSUME epc' = "returned", status' = "completed"
               PROVE  \A t \in Ids(plan) : results'[t] = "success"
    BY <1>3 DEF CompletedInv
  <2>1. Finish
    BY <1>1, <1>3 DEF ExecWork, NextRound, RunTask, NoAttempt, HandlerReturns, TimesOut,
                      TransientError, OtherError
  <2>2. OverallStatus = "completed" /\ results' = results
    BY <2>1 DEF Finish
  <2>3. plan \in Seq(Task) /\ UniqueIds(plan)
    BY <1>3 DEF PipeInv, Inv, TypeInv, ExecTypeOK, PlanInv
  <2> QED
    BY <2>2, <2>3, StatusByTasks
<1> QED
  BY <1>1, <1>2, <1>4, <1>5 DEF PipeInv

(* Every step keeps the invariant.                                         *)
LEMMA NextPipe == PipeInv /\ [PipeNext]_pipeVars => PipeInv'
<1> SUFFICES ASSUME PipeInv, [PipeNext]_pipeVars PROVE PipeInv'
  OBVIOUS
<1>1. ASSUME NEW g \in Goal, RegistrationFails(g) \/ EnginesFail(g) PROVE PipeInv'
  <2>1. /\ epc = "idle" /\ goal' = g /\ file' = file /\ templates' = templates
        /\ UNCHANGED execVars
    BY <1>1 DEF RegistrationFails, EnginesFail, Idle
  <2>2. Inv' /\ epc' = "idle"
    BY <2>1, StutterInv DEF PipeInv, execVars
  <2> QED
    BY <2>1, <2>2 DEF PipeInv, PlanHonoursRules, CompletedInv
<1>2. ASSUME NEW g \in Goal, Run(g) PROVE PipeInv'
  BY <1>2, RunPipe
<1>3. CASE ExecutorWorks
  BY <1>3, WorkPipe
<1>4. CASE Answer \/ AnswerFailure
  <2>1. UNCHANGED <<templates, goal, file>> /\ Return
    BY <1>4 DEF Answer, AnswerFailure
  <2>2. Inv' /\ epc' = "idle"
    BY <2>1, ReturnInv DEF PipeInv, Return
  <2> QED
    BY <2>1, <2>2 DEF PipeInv, PlanHonoursRules, CompletedInv
<1>5. CASE UNCHANGED pipeVars
  <2>1. UNCHANGED <<templates, goal, file>> /\ UNCHANGED execVars
    BY <1>5 DEF pipeVars
  <2>2. Inv'
    BY <2>1, StutterInv DEF PipeInv
  <2>3. UNCHANGED <<plan, epc, status, results>>
    BY <2>1 DEF execVars
  <2> QED
    BY <2>1, <2>2, <2>3 DEF PipeInv, PlanHonoursRules, CompletedInv
<1> QED
  BY <1>1, <1>2, <1>3, <1>4, <1>5 DEF PipeNext

-----------------------------------------------------------------------------
(* The theorems *)

(* The plan being executed has everything the rules file asks for the      *)
(* goal, whatever earlier goals have left in the templates.                *)
THEOREM PlanHonoursRulesAlways == PipeSpec => []PlanHonoursRules
<1>1. PipeInv => PlanHonoursRules
  BY DEF PipeInv
<1> QED
  BY <1>1, InitPipe, NextPipe, PTL DEF PipeSpec

(* The only step that answers COMPLETED is taken when the invariant says   *)
(* that the plan, and so all that the file asks for, has succeeded.        *)
LEMMA NextCompleted ==
  PipeInv /\ [PipeNext]_pipeVars =>
    [answer'.status = "completed" /\ answer # answer' =>
       LET offered == Offered(file, Matches(goal))
       IN \A n \in DOMAIN offered : results[offered[n].id] = "success"]_pipeVars
<1> SUFFICES ASSUME PipeInv, PipeNext, answer'.status = "completed", answer # answer'
             PROVE  LET offered == Offered(file, Matches(goal))
                    IN \A n \in DOMAIN offered : results[offered[n].id] = "success"
  OBVIOUS
<1>1. NoAnswer.status # "completed" /\ Failure.status # "completed"
  BY DEF NoAnswer, Failure
<1>2. Answer
  BY <1>1 DEF PipeNext, RegistrationFails, EnginesFail, Run, ExecutorWorks, AnswerFailure
<1>3. epc = "returned" /\ status = "completed"
  BY <1>2 DEF Answer
<1>4. Honours(plan, Offered(file, Matches(goal)))
  BY <1>3, HonoursMeans DEF PipeInv
<1>5. \A t \in Ids(plan) : results[t] = "success"
  BY <1>3 DEF PipeInv, CompletedInv
<1> QED
  BY <1>4, <1>5 DEF Honours

(* A run answers COMPLETED only if every task that the rules file names    *)
(* for the goal has succeeded.                                             *)
THEOREM CompletedMeansAllAlways == PipeSpec => CompletedMeansAll
<1> QED
  BY InitPipe, NextPipe, NextCompleted, PTL DEF PipeSpec, CompletedMeansAll
=============================================================================
