------------------------ MODULE IndexQueries_proofs -------------------------
(***************************************************************************)
(* Theorems about IndexQueries, for every repository of syntax trees,      *)
(* every order a build may take the files in, every edit, ranking, budget, *)
(* depth and commit.  The tables stay as built (TablesStay) and have what  *)
(* the trees have (TablesAreExact); and each answer is computed from them  *)
(* by folds: the walk over a tree, the search for callers, the sum of a    *)
(* rank, the packing of hits, the reading of a diff.  Each fold has an     *)
(* invariant of its own, which is carried along its run by induction.      *)
(***************************************************************************)
EXTENDS IndexQueries, FiniteSetTheorems, TLAPS

-----------------------------------------------------------------------------
(***************************************************************************)
(* Numbers and folds.  The library's induction theorems take an operator   *)
(* as a parameter, so induction is over the set of the numbers that have   *)
(* the property, from its complement's least element (HasLeast, Induction, *)
(* InductionTo). A fold is a CHOOSE of a recursive function: that there is *)
(* one is proved by induction, and what is proved of a fold is proved of   *)
(* its run, the sequence of what it has come to (FoldExists, RunExists).   *)
(***************************************************************************)

\* A set of numbers that is not empty has a least one.  The numbers below all
\* of them are else closed under successor, and as many as those but 0.
LEMMA HasLeast ==
  ASSUME NEW S \in SUBSET Nat, S # {}
  PROVE  \E n \in S : \A m \in S : n <= m
<1> SUFFICES ASSUME \A n \in S : \E m \in S : ~(n <= m)
             PROVE  FALSE
  OBVIOUS
<1> DEFINE Below == {n \in Nat : \A m \in S : n < m}
           next == [n \in Below |-> n + 1]
<1>1. 0 \in Below
  <2> SUFFICES ASSUME NEW m \in S
               PROVE  0 < m
    OBVIOUS
  <2>1. PICK l \in S : ~(m <= l)
    OBVIOUS
  <2> QED
    BY <2>1
<1>2. ASSUME NEW n \in Below
      PROVE  n + 1 \in Below \ {0}
  <2>1. n \in Nat /\ \A m \in S : n < m
    OBVIOUS
  <2> SUFFICES ASSUME NEW m \in S
               PROVE  n + 1 < m
    BY <2>1
  <2>2. PICK l \in S : ~(m <= l)
    OBVIOUS
  <2> QED
    BY <2>1, <2>2
<1>3. PICK x \in S : TRUE
  OBVIOUS
<1>4. Below \subseteq 0 .. x
  BY <1>3
<1>5. IsFiniteSet(Below)
  BY <1>3, <1>4, FS_Interval, FS_Subset, 0 \in Int, x \in Int
<1>6. IsFiniteSet(Below \ {0}) /\ Cardinality(Below \ {0}) = Cardinality(Below) - 1
  BY <1>1, <1>5, FS_RemoveElement
<1>7. Cardinality(Below \ {0}) < Cardinality(Below)
  BY <1>5, <1>6, FS_CardinalityType
<1>8. next \in [Below -> Below \ {0}]
  BY <1>2
<1>9. \A m, n \in Below : next[m] = next[n] => m = n
  OBVIOUS
<1> HIDE DEF Below, next
<1> QED
  BY <1>5, <1>6, <1>7, <1>8, <1>9, FS_PigeonHole

\* Induction, over the set of the numbers that have the property.
LEMMA Induction ==
  ASSUME NEW S \in SUBSET Nat, 0 \in S, \A n \in S : n + 1 \in S
  PROVE  S = Nat
<1> SUFFICES ASSUME Nat \ S # {}
             PROVE  FALSE
  OBVIOUS
<1>1. PICK n \in Nat \ S : \A m \in Nat \ S : n <= m
  BY HasLeast
<1> QED
  BY <1>1, n - 1 \in S

\* Induction up to a bound.
LEMMA InductionTo ==
  ASSUME NEW n \in Nat, NEW S, 0 \in S, \A k \in 1 .. n : k - 1 \in S => k \in S
  PROVE  \A k \in 0 .. n : k \in S
<1> DEFINE T == {k \in Nat : k <= n => k \in S}
<1>1. 0 \in T /\ \A k \in T : k + 1 \in T
  OBVIOUS
<1>2. T = Nat
  BY <1>1, Induction
<1> QED
  BY <1>2

\* Max, a CHOOSE, of a bounded set that is not empty.
LEMMA MaxIs ==
  ASSUME NEW n \in Nat, NEW S \in SUBSET (0 .. n), S # {}
  PROVE  Max(S) \in S /\ \A m \in S : m <= Max(S)
<1> DEFINE T == {n - m : m \in S}
<1>1. PICK x \in T : \A y \in T : x <= y
  <2>1. T # {}
    OBVIOUS
  <2>2. \A m \in S : n - m \in Nat
    BY \A m \in S : m \in 0 .. n
  <2>3. T \in SUBSET Nat
    BY <2>2
  <2> HIDE DEF T
  <2> QED
    BY <2>1, <2>3, HasLeast
<1>2. PICK m \in S : x = n - m
  OBVIOUS
<1>3. \A k \in S : m >= k
  BY <1>1, <1>2
<1>4. \E k \in S : \A l \in S : k >= l
  BY <1>3
<1>5. Max(S) \in S /\ \A k \in S : Max(S) >= k
  BY <1>4 DEF Max
<1> QED
  BY <1>5

\* Min, a CHOOSE, of a set of numbers that is not empty.
LEMMA MinIs ==
  ASSUME NEW S \in SUBSET Nat, S # {}
  PROVE  Min(S) \in S /\ \A m \in S : Min(S) <= m
<1>1. \E n \in S : \A m \in S : n <= m
  BY HasLeast
<1> QED
  BY <1>1 DEF Min

-----------------------------------------------------------------------------
(***************************************************************************)
(* Folds.  What a fold computes is the last value of its run, the sequence *)
(* of the values it goes through.                                          *)
(***************************************************************************)

\* What a fold does with a value and the k-th element, of n.
Steps(A, n) == [A \X (1 .. n) -> A]

\* The function of the sets of elements that the definition of the folds asks
\* for, as long as it is in A.
IsFold(g, n, A, base, step) ==
  /\ g[{}] = base
  /\ \A s \in SUBSET (1 .. n) :
       s # {} /\ g[s \ {Max(s)}] \in A => g[s] = step[<<g[s \ {Max(s)}], Max(s)>>]

\* The run.
IsRun(run, n, A, base, step) ==
  /\ run \in [0 .. n -> A]
  /\ run[0] = base
  /\ \A k \in 1 .. n : run[k] = step[<<run[k - 1], k>>]

\* The recursive function of a fold exists: by induction on the bound, a fold
\* of the first n + 1 is made from one of the first n.
LEMMA FoldExists ==
  ASSUME NEW n \in Nat, NEW A, NEW base \in A, NEW step \in Steps(A, n)
  PROVE  \E g \in [SUBSET (1 .. n) -> A] : IsFold(g, n, A, base, step)
<1> USE DEF Steps
<1> DEFINE Folds(m, g) ==
             \A s \in SUBSET (1 .. m) :
               g[s] = IF s = {} THEN base ELSE step[<<g[s \ {Max(s)}], Max(s)>>]
           Good == {m \in Nat : m <= n => \E g \in [SUBSET (1 .. m) -> A] : Folds(m, g)}
<1> HIDE DEF Folds
<1>1. 0 \in Good
  <2> DEFINE none == [s \in {{}} |-> base]
  <2>1. SUBSET (1 .. 0) = {{}}
    <3>1. 1 .. 0 = {}
      OBVIOUS
    <3> QED
      BY <3>1
  <2>2. none \in [SUBSET (1 .. 0) -> A] /\ none[{}] = base
    BY <2>1
  <2> HIDE DEF none
  <2>3. Folds(0, none)
    BY <2>1, <2>2 DEF Folds
  <2> QED
    BY <2>2, <2>3
<1>2. ASSUME NEW m \in Nat, m \in Good
      PROVE  m + 1 \in Good
  <2> SUFFICES ASSUME m + 1 <= n
               PROVE  \E g \in [SUBSET (1 .. m + 1) -> A] : Folds(m + 1, g)
    BY m + 1 \in Nat
  <2>1. m <= n
    OBVIOUS
  <2>2. PICK g \in [SUBSET (1 .. m) -> A] : Folds(m, g)
    BY <1>2, <2>1
  <2> HIDE DEF Good
  <2> DEFINE h == [s \in SUBSET (1 .. m + 1) |->
                     IF m + 1 \in s THEN step[<<g[s \ {m + 1}], m + 1>>] ELSE g[s]]
  <2>3. ASSUME NEW s \in SUBSET (1 .. m + 1)
        PROVE  s \ {m + 1} \in SUBSET (1 .. m)
    OBVIOUS
  <2>4. h \in [SUBSET (1 .. m + 1) -> A]
    <3> SUFFICES ASSUME NEW s \in SUBSET (1 .. m + 1)
                 PROVE  (IF m + 1 \in s THEN step[<<g[s \ {m + 1}], m + 1>>] ELSE g[s]) \in A
      OBVIOUS
    <3>1. CASE m + 1 \in s
      <4>1. g[s \ {m + 1}] \in A
        BY <2>3
      <4>2. m + 1 \in 1 .. n
        OBVIOUS
      <4> QED
        BY <3>1, <4>1, <4>2
    <3>2. CASE m + 1 \notin s
      BY <3>2, <2>3
    <3> QED
      BY <3>1, <3>2
  <2>5. ASSUME NEW s \in SUBSET (1 .. m + 1), s # {}
        PROVE  h[s] = step[<<h[s \ {Max(s)}], Max(s)>>]
    <3>1. Max(s) \in s /\ \A k \in s : k <= Max(s)
      BY <2>5, MaxIs, s \in SUBSET (0 .. m + 1), m + 1 \in Nat
    <3>2. CASE m + 1 \in s
      <4>1. Max(s) = m + 1
        BY <3>1, <3>2, Max(s) \in 1 .. m + 1
      <4>2. h[s \ {m + 1}] = g[s \ {m + 1}]
        BY <2>3
      <4> QED
        BY <3>2, <4>1, <4>2
    <3>3. CASE m + 1 \notin s
      <4>1. s \in SUBSET (1 .. m) /\ s \ {Max(s)} \in SUBSET (1 .. m + 1) /\ m + 1 \notin s \ {Max(s)}
        <5>1. s \in SUBSET (1 .. m)
          BY <3>3, \A k \in 1 .. m + 1 : k # m + 1 => k \in 1 .. m
        <5> QED
          BY <3>3, <5>1
      <4>2. g[s] = step[<<g[s \ {Max(s)}], Max(s)>>]
        BY <2>2, <2>5, <4>1 DEF Folds
      <4> QED
        BY <3>3, <4>1, <4>2
    <3> QED
      BY <3>2, <3>3
  <2>6. h[{}] = base
    BY <2>2 DEF Folds
  <2> HIDE DEF h
  <2>7. Folds(m + 1, h)
    BY <2>5, <2>6 DEF Folds
  <2> QED
    BY <2>4, <2>7
<1> HIDE DEF Good
<1>3. Good = Nat
  BY <1>1, <1>2, Induction, Good \in SUBSET Nat DEF Good
<1>4. n \in Good /\ n <= n
  BY <1>3
<1>5. \E g \in [SUBSET (1 .. n) -> A] : Folds(n, g)
  BY <1>4 DEF Good
<1> QED
  BY <1>5 DEF Folds, IsFold

\* What the function of a fold has come to after each element is a run.
LEMMA RunOf ==
  ASSUME NEW n \in Nat, NEW A, NEW base \in A, NEW step \in Steps(A, n),
         NEW iter, IsFold(iter, n, A, base, step)
  PROVE  \E run : IsRun(run, n, A, base, step) /\ iter[1 .. n] = run[n]
<1> USE DEF Steps, IsFold, IsRun
<1> DEFINE run == [k \in 0 .. n |-> iter[1 .. k]]
           Good == {k \in 0 .. n : iter[1 .. k] \in A}
<1>1. ASSUME NEW k \in 1 .. n
      PROVE  /\ 1 .. k \in SUBSET (1 .. n) /\ 1 .. k # {} /\ Max(1 .. k) = k
             /\ (1 .. k) \ {k} = 1 .. k - 1
  <2>1. 1 .. k \in SUBSET (0 .. n) /\ k \in 1 .. k
    OBVIOUS
  <2>2. Max(1 .. k) \in 1 .. k /\ k <= Max(1 .. k)
    BY <2>1, MaxIs
  <2> QED
    BY <2>2
<1>2. 1 .. 0 = {}
  OBVIOUS
<1>3. 0 \in Good
  BY <1>2
<1>4. ASSUME NEW k \in 1 .. n, k - 1 \in Good
      PROVE  k \in Good /\ iter[1 .. k] = step[<<iter[1 .. k - 1], k>>]
  <2>1. iter[1 .. k - 1] \in A
    BY <1>4
  <2>2. iter[1 .. k] = step[<<iter[1 .. k - 1], k>>]
    BY <1>1, <2>1
  <2> QED
    BY <2>1, <2>2
<1> HIDE DEF Good
<1>5. \A k \in 0 .. n : k \in Good
  BY <1>3, <1>4, InductionTo
<1>6. run \in [0 .. n -> A]
  BY <1>5 DEF Good
<1>7. \A k \in 1 .. n : run[k] = step[<<run[k - 1], k>>]
  BY <1>4, <1>5
<1>8. run[0] = base /\ iter[1 .. n] = run[n]
  BY <1>2
<1> HIDE DEF run
<1> QED
  BY <1>6, <1>7, <1>8

\* A run over the first n of anything exists, whatever the steps.
LEMMA RunExists ==
  ASSUME NEW n \in Nat, NEW A, NEW base \in A, NEW step \in Steps(A, n)
  PROVE  \E run : IsRun(run, n, A, base, step)
<1>1. PICK iter : IsFold(iter, n, A, base, step)
  BY FoldExists
<1> QED
  BY <1>1, RunOf

\* What Only goes through.
OnlyRun(run, T, seq, set) ==
  /\ run \in [0 .. Len(seq) -> Seq(T)]
  /\ run[0] = <<>>
  /\ \A k \in 1 .. Len(seq) : run[k] = IF seq[k] \in set THEN Append(run[k - 1], seq[k]) ELSE run[k - 1]
  /\ Only(seq, set) = run[Len(seq)]

\* The runs of Only, of Total and of FlattenSeq, as those folds are defined.
LEMMA OnlyRunExists ==
  ASSUME NEW T, NEW seq \in Seq(T), NEW set
  PROVE  \E run : OnlyRun(run, T, seq, set)
<1> DEFINE n == Len(seq)
           A == Seq(T)
           base == <<>>
           Op(a, k) == IF seq[k] \in set THEN Append(a, seq[k]) ELSE a
           step == [p \in A \X (1 .. n) |-> Op(p[1], p[2])]
           Eq(h) == [s \in SUBSET (1 .. n) |-> IF s = {} THEN base ELSE Op(h[s \ {Max(s)}], Max(s))]
           iter == CHOOSE h : h = Eq(h)
<1>1. n \in Nat /\ base \in A
  OBVIOUS
<1>2. ASSUME NEW a \in A, NEW k \in 1 .. n
      PROVE  Op(a, k) \in A
  OBVIOUS
<1>3. Only(seq, set) = iter[1 .. n]
  BY DOMAIN seq = 1 .. n DEF Only, FoldLeft, MapThenFoldSet
<1> HIDE DEF n, A, base, Op
<1>4. step \in Steps(A, n)
  BY <1>2 DEF Steps
<1>5. \A a \in A, k \in 1 .. n : step[<<a, k>>] = Op(a, k)
  OBVIOUS
<1>6. \A s \in SUBSET (1 .. n) : s # {} => Max(s) \in 1 .. n
  BY <1>1, MaxIs, \A s \in SUBSET (1 .. n) : s \in SUBSET (0 .. n)
<1> HIDE DEF step
<1>7. PICK g \in [SUBSET (1 .. n) -> A] : IsFold(g, n, A, base, step)
  BY <1>1, <1>4, FoldExists
<1>8. g = Eq(g)
  BY <1>5, <1>6, <1>7, \A s \in SUBSET (1 .. n) : s \ {Max(s)} \in SUBSET (1 .. n) DEF IsFold
<1>9. iter = Eq(iter)
  BY <1>8
<1> HIDE DEF iter
<1>10. IsFold(iter, n, A, base, step)
  BY <1>5, <1>6, <1>9 DEF IsFold
<1>11. PICK run : IsRun(run, n, A, base, step) /\ iter[1 .. n] = run[n]
  BY <1>1, <1>4, <1>10, RunOf
<1>12. ASSUME NEW k \in 1 .. n
       PROVE  run[k] = Op(run[k - 1], k)
  BY <1>1, <1>5, <1>11, k - 1 \in 0 .. n DEF IsRun
<1>13. run \in [0 .. n -> A] /\ run[0] = base
  BY <1>11 DEF IsRun
<1>14. OnlyRun(run, T, seq, set)
  BY <1>3, <1>11, <1>12, <1>13 DEF n, A, base, Op, OnlyRun
<1> QED
  BY <1>14

\* What Total goes through.
TotalRun(run, sizes) ==
  /\ run \in [0 .. Len(sizes) -> Int]
  /\ run[0] = 0
  /\ \A k \in 1 .. Len(sizes) : run[k] = run[k - 1] + sizes[k]
  /\ Total(sizes) = run[Len(sizes)]

\* The run of a sum.
LEMMA TotalRunExists ==
  ASSUME NEW sizes \in Seq(Int)
  PROVE  \E run : TotalRun(run, sizes)
<1> DEFINE n == Len(sizes)
           A == Int
           base == 0
           Op(a, k) == a + sizes[k]
           step == [p \in A \X (1 .. n) |-> Op(p[1], p[2])]
           Eq(h) == [s \in SUBSET (1 .. n) |-> IF s = {} THEN base ELSE Op(h[s \ {Max(s)}], Max(s))]
           iter == CHOOSE h : h = Eq(h)
<1>1. n \in Nat /\ base \in A
  OBVIOUS
<1>2. ASSUME NEW a \in A, NEW k \in 1 .. n
      PROVE  Op(a, k) \in A
  OBVIOUS
<1>3. Total(sizes) = iter[1 .. n]
  BY DOMAIN sizes = 1 .. n DEF Total, FoldLeft, MapThenFoldSet
<1> HIDE DEF n, A, base, Op
<1>4. step \in Steps(A, n)
  BY <1>2 DEF Steps
<1>5. \A a \in A, k \in 1 .. n : step[<<a, k>>] = Op(a, k)
  OBVIOUS
<1>6. \A s \in SUBSET (1 .. n) : s # {} => Max(s) \in 1 .. n
  BY <1>1, MaxIs, \A s \in SUBSET (1 .. n) : s \in SUBSET (0 .. n)
<1> HIDE DEF step
<1>7. PICK g \in [SUBSET (1 .. n) -> A] : IsFold(g, n, A, base, step)
  BY <1>1, <1>4, FoldExists
<1>8. g = Eq(g)
  BY <1>5, <1>6, <1>7, \A s \in SUBSET (1 .. n) : s \ {Max(s)} \in SUBSET (1 .. n) DEF IsFold
<1>9. iter = Eq(iter)
  BY <1>8
<1> HIDE DEF iter
<1>10. IsFold(iter, n, A, base, step)
  BY <1>5, <1>6, <1>9 DEF IsFold
<1>11. PICK run : IsRun(run, n, A, base, step) /\ iter[1 .. n] = run[n]
  BY <1>1, <1>4, <1>10, RunOf
<1>12. ASSUME NEW k \in 1 .. n
       PROVE  run[k] = Op(run[k - 1], k)
  BY <1>1, <1>5, <1>11, k - 1 \in 0 .. n DEF IsRun
<1>13. run \in [0 .. n -> A] /\ run[0] = base
  BY <1>11 DEF IsRun
<1>14. TotalRun(run, sizes)
  BY <1>3, <1>11, <1>12, <1>13 DEF n, A, base, Op, TotalRun
<1> QED
  BY <1>14

\* What FlattenSeq goes through.
FlattenRun(run, T, seqs) ==
  /\ run \in [0 .. Len(seqs) -> Seq(T)]
  /\ run[0] = <<>>
  /\ \A k \in 1 .. Len(seqs) : run[k] = run[k - 1] \o seqs[k]
  /\ FlattenSeq(seqs) = run[Len(seqs)]

\* The run of a concatenation.
LEMMA FlattenRunExists ==
  ASSUME NEW T, NEW seqs \in Seq(Seq(T))
  PROVE  \E run : FlattenRun(run, T, seqs)
<1> DEFINE n == Len(seqs)
           A == Seq(T)
           base == <<>>
           step == [p \in A \X (1 .. n) |-> p[1] \o seqs[p[2]]]
           Eq(h) == [i \in 1 .. n |-> IF i = 1 THEN seqs[i] ELSE h[i - 1] \o seqs[i]]
           flatten == CHOOSE h : h = Eq(h)
<1>1. n \in Nat /\ base \in A /\ \A k \in 1 .. n : seqs[k] \in A
  OBVIOUS
<1>2. CASE n = 0
  <2>1. seqs = <<>> /\ FlattenSeq(seqs) = seqs
    BY <1>2 DEF FlattenSeq
  <2> DEFINE r == [k \in 0 .. 0 |-> base]
  <2>2. r \in [0 .. Len(seqs) -> Seq(T)] /\ r[0] = <<>> /\ FlattenSeq(seqs) = r[Len(seqs)]
    BY <1>1, <1>2, <2>1
  <2>3. \A k \in 1 .. Len(seqs) : FALSE
    BY <1>2
  <2> HIDE DEF r
  <2>4. FlattenRun(r, T, seqs)
    BY <2>2, <2>3 DEF FlattenRun
  <2> QED
    BY <2>4
<1>3. CASE n # 0
  <2>1. FlattenSeq(seqs) = flatten[n]
    BY <1>3 DEF FlattenSeq
  <2>2. base \o seqs[1] = seqs[1]
    BY <1>1, <1>3
  <2>3. \A a \in A, k \in 1 .. n : a \o seqs[k] \in A
    BY <1>1
  <2> HIDE DEF n, A, base
  <2>4. step \in Steps(A, n) /\ \A a \in A, k \in 1 .. n : step[<<a, k>>] = a \o seqs[k]
    BY <2>3 DEF Steps
  <2> HIDE DEF step
  <2>5. PICK run : IsRun(run, n, A, base, step)
    BY <1>1, <2>4, RunExists
  <2>6. ASSUME NEW k \in 1 .. n
        PROVE  run[k] = run[k - 1] \o seqs[k]
    BY <1>1, <2>4, <2>5, k - 1 \in 0 .. n DEF IsRun
  <2>7. run \in [0 .. n -> A] /\ run[0] = base
    BY <2>5 DEF IsRun
  <2> DEFINE g == [i \in 1 .. n |-> run[i]]
  <2>8. g = Eq(g)
    <3>1. ASSUME NEW i \in 1 .. n
          PROVE  run[i] = IF i = 1 THEN seqs[i] ELSE g[i - 1] \o seqs[i]
      <4>1. CASE i = 1
        BY <2>2, <2>6, <2>7, <4>1, 1 - 1 = 0
      <4>2. CASE i # 1
        BY <1>1, <2>6, <4>2, i - 1 \in 1 .. n
      <4> QED
        BY <4>1, <4>2
    <3> QED
      BY <3>1
  <2> HIDE DEF g
  <2>9. flatten = Eq(flatten)
    BY <2>8
  <2> HIDE DEF flatten
  <2> DEFINE Good == {k \in 0 .. n : k = 0 \/ flatten[k] = run[k]}
  <2>10. ASSUME NEW k \in 1 .. n, k - 1 \in Good
         PROVE  k \in Good
    <3>1. flatten[k] = IF k = 1 THEN seqs[k] ELSE flatten[k - 1] \o seqs[k]
      BY <2>9
    <3>2. run[1] = run[0] \o seqs[1]
      BY <1>1, <1>3, <2>6, 1 \in 1 .. n, 1 - 1 = 0
    <3>3. k - 1 # 0 => flatten[k - 1] = run[k - 1]
      BY <2>10
    <3>4. k \in 0 .. n /\ (k # 1 => k - 1 # 0)
      OBVIOUS
    <3>5. flatten[k] = run[k]
      BY <2>2, <2>6, <2>7, <3>1, <3>2, <3>3, <3>4
    <3> QED
      BY <3>4, <3>5
  <2>11. 0 \in Good
    BY <1>1
  <2> HIDE DEF Good
  <2>12. n \in Good
    <3>1. \A k \in 0 .. n : k \in Good
      BY <1>1, <2>10, <2>11, InductionTo
    <3> QED
      BY <1>1, <3>1
  <2>13. flatten[n] = run[n]
    BY <1>3, <2>12 DEF Good
  <2>14. FlattenRun(run, T, seqs)
    BY <2>1, <2>6, <2>7, <2>13 DEF n, A, base, FlattenRun
  <2> QED
    BY <2>14
<1> QED
  BY <1>2, <1>3

-----------------------------------------------------------------------------
(***************************************************************************)
(* Sequences: Only, the elements of a sequence that are in a set.          *)
(***************************************************************************)

\* Append, element by element.
LEMMA AppendIs ==
  ASSUME NEW T, NEW s \in Seq(T), NEW x \in T
  PROVE  /\ Append(s, x) \in Seq(T) /\ Len(Append(s, x)) = Len(s) + 1 /\ Len(s) \in Nat
         /\ \A i \in 1 .. Len(s) : Append(s, x)[i] = s[i] /\ s[i] \in T
         /\ Append(s, x)[Len(s) + 1] = x
  OBVIOUS

\* kept has the elements of the first m that are in the set, those at the
\* places at[1], at[2] and so on.
Keeps(kept, seq, m, set, at) ==
  /\ at \in [1 .. Len(kept) -> 1 .. m]
  /\ \A i \in 1 .. Len(kept) : kept[i] = seq[at[i]] /\ seq[at[i]] \in set
  /\ \A i, j \in 1 .. Len(kept) : i < j => at[i] < at[j]
  /\ \A k \in 1 .. m : seq[k] \in set => \E i \in 1 .. Len(kept) : at[i] = k

\* Only, a fold, is the subsequence of the elements that are in the set.
LEMMA OnlyIs ==
  ASSUME NEW T, NEW seq \in Seq(T), NEW set
  PROVE  /\ Only(seq, set) \in Seq(T)
         /\ \E at : Keeps(Only(seq, set), seq, Len(seq), set, at)
<1>1. PICK run : OnlyRun(run, T, seq, set)
  BY OnlyRunExists
<1>2. /\ run \in [0 .. Len(seq) -> Seq(T)] /\ run[0] = <<>>
      /\ \A k \in 1 .. Len(seq) :
           run[k] = IF seq[k] \in set THEN Append(run[k - 1], seq[k]) ELSE run[k - 1]
      /\ Only(seq, set) = run[Len(seq)]
  BY <1>1 DEF OnlyRun
<1> DEFINE n == Len(seq)
           Good == {k \in 0 .. n : \E at : Keeps(run[k], seq, k, set, at)}
<1>3. n \in Nat /\ \A k \in 1 .. n : seq[k] \in T
  OBVIOUS
<1>4. 0 \in Good
  <2> DEFINE at == [i \in 1 .. 0 |-> i]
  <2>1. Keeps(run[0], seq, 0, set, at)
    BY <1>2 DEF Keeps
  <2> HIDE DEF at
  <2> QED
    BY <2>1
<1>5. ASSUME NEW k \in 1 .. n, k - 1 \in Good
      PROVE  k \in Good
  <2>1. PICK at : Keeps(run[k - 1], seq, k - 1, set, at)
    BY <1>5
  <2> DEFINE kept == run[k - 1]
  <2>2. kept \in Seq(T) /\ k - 1 \in 0 .. n
    BY <1>2
  <2>3. CASE seq[k] \notin set
    <3>1. Keeps(run[k], seq, k, set, at)
      <4>1. run[k] = kept
        BY <1>2, <2>3
      <4>2. at \in [1 .. Len(kept) -> 1 .. k]
        BY <2>1 DEF Keeps
      <4>3. \A j \in 1 .. k : seq[j] \in set => j \in 1 .. k - 1
        BY <2>3
      <4> QED
        BY <2>1, <4>1, <4>2, <4>3 DEF Keeps
    <3> QED
      BY <3>1
  <2>4. CASE seq[k] \in set
    <3> DEFINE m == Len(kept)
               to == [i \in 1 .. m + 1 |-> IF i = m + 1 THEN k ELSE at[i]]
    <3>1. /\ run[k] = Append(kept, seq[k]) /\ Len(run[k]) = m + 1 /\ m \in Nat
          /\ \A i \in 1 .. m : run[k][i] = kept[i]
          /\ run[k][m + 1] = seq[k]
      <4>1. run[k] = Append(kept, seq[k]) /\ seq[k] \in T
        BY <1>2, <1>3, <2>4
      <4> HIDE DEF kept
      <4> QED
        BY <2>2, <4>1, AppendIs
    <3>2. \A i \in 1 .. m : at[i] \in 1 .. k - 1 /\ to[i] = at[i]
      <4>1. at \in [1 .. m -> 1 .. k - 1]
        BY <2>1 DEF Keeps
      <4>2. \A i \in 1 .. m : i # m + 1 /\ i \in 1 .. m + 1
        BY <3>1
      <4> HIDE DEF m, kept
      <4> QED
        BY <4>1, <4>2
    <3>3. to[m + 1] = k
      BY <3>1
    <3>4. to \in [1 .. m + 1 -> 1 .. k]
      <4> SUFFICES ASSUME NEW i \in 1 .. m + 1
                   PROVE  (IF i = m + 1 THEN k ELSE at[i]) \in 1 .. k
        OBVIOUS
      <4>1. CASE i = m + 1
        BY <4>1
      <4>2. CASE i # m + 1
        <5>1. i \in 1 .. m
          BY <3>1, <4>2
        <5> HIDE DEF m
        <5>2. at[i] \in 1 .. k - 1
          BY <3>2, <5>1
        <5>3. \A x \in 1 .. k - 1 : x \in 1 .. k
          OBVIOUS
        <5> QED
          BY <4>2, <5>2, <5>3
      <4> QED
        BY <4>1, <4>2
    <3> HIDE DEF to, kept, m
    <3>5. \A i \in 1 .. m + 1 : run[k][i] = seq[to[i]] /\ seq[to[i]] \in set
      <4> SUFFICES ASSUME NEW i \in 1 .. m + 1
                   PROVE  run[k][i] = seq[to[i]] /\ seq[to[i]] \in set
        OBVIOUS
      <4>1. CASE i = m + 1
        BY <2>4, <3>1, <3>3, <4>1
      <4>2. CASE i # m + 1
        <5>1. i \in 1 .. m
          BY <3>1, <4>2
        <5> QED
          BY <2>1, <3>1, <3>2, <5>1 DEF Keeps, m, kept
      <4> QED
        BY <4>1, <4>2
    <3>6. \A i, j \in 1 .. m + 1 : i < j => to[i] < to[j]
      <4> SUFFICES ASSUME NEW i \in 1 .. m + 1, NEW j \in 1 .. m + 1, i < j
                   PROVE  to[i] < to[j]
        OBVIOUS
      <4>1. i \in 1 .. m /\ at[i] \in 1 .. k - 1 /\ to[i] = at[i]
        BY <3>1, <3>2
      <4>2. CASE j = m + 1
        BY <3>3, <4>1, <4>2
      <4>3. CASE j # m + 1
        <5>1. j \in 1 .. m
          BY <3>1, <4>3
        <5> QED
          BY <2>1, <3>2, <4>1, <5>1 DEF Keeps, m, kept
      <4> QED
        BY <4>2, <4>3
    <3>7. \A l \in 1 .. k : seq[l] \in set => \E i \in 1 .. m + 1 : to[i] = l
      <4> SUFFICES ASSUME NEW l \in 1 .. k, seq[l] \in set
                   PROVE  \E i \in 1 .. m + 1 : to[i] = l
        OBVIOUS
      <4>1. CASE l = k
        BY <3>1, <3>3, <4>1
      <4>2. CASE l # k
        <5>1. PICK i \in 1 .. m : at[i] = l
          BY <2>1, <4>2, l \in 1 .. k - 1 DEF Keeps, m, kept
        <5> QED
          BY <3>1, <3>2, <5>1, i \in 1 .. m + 1
      <4> QED
        BY <4>1, <4>2
    <3>8. Keeps(run[k], seq, k, set, to)
      BY <3>1, <3>4, <3>5, <3>6, <3>7 DEF Keeps
    <3> QED
      BY <3>8
  <2> QED
    BY <2>3, <2>4
<1> HIDE DEF Good
<1>6. n \in Good
  <2>1. \A k \in 0 .. n : k \in Good
    BY <1>3, <1>4, <1>5, InductionTo
  <2> QED
    BY <1>3, <2>1
<1> QED
  BY <1>2, <1>3, <1>6 DEF Good

\* Its elements, and how many they are.
LEMMA OnlySet ==
  ASSUME NEW T, NEW seq \in Seq(T), NEW set
  PROVE  ToSet(Only(seq, set)) = ToSet(seq) \cap set
<1>1. Only(seq, set) \in Seq(T)
  BY OnlyIs
<1>2. PICK at : Keeps(Only(seq, set), seq, Len(seq), set, at)
  BY OnlyIs
<1>3. DOMAIN seq = 1 .. Len(seq) /\ DOMAIN Only(seq, set) = 1 .. Len(Only(seq, set))
  BY <1>1
<1>4. ASSUME NEW x \in ToSet(Only(seq, set))
      PROVE  x \in ToSet(seq) \cap set
  <2>1. PICK i \in 1 .. Len(Only(seq, set)) : x = Only(seq, set)[i]
    BY <1>3 DEF ToSet
  <2> QED
    BY <1>2, <1>3, <2>1 DEF Keeps, ToSet
<1>5. ASSUME NEW x \in ToSet(seq) \cap set
      PROVE  x \in ToSet(Only(seq, set))
  <2>1. PICK k \in 1 .. Len(seq) : x = seq[k]
    BY <1>3 DEF ToSet
  <2>2. PICK i \in 1 .. Len(Only(seq, set)) : at[i] = k
    BY <1>2, <2>1 DEF Keeps
  <2> QED
    BY <1>2, <1>3, <2>1, <2>2 DEF Keeps, ToSet
<1> QED
  BY <1>4, <1>5

\* It is as long as there are places with such an element.
LEMMA OnlyCount ==
  ASSUME NEW T, NEW seq \in Seq(T), NEW set
  PROVE  Len(Only(seq, set)) = Cardinality({k \in 1 .. Len(seq) : seq[k] \in set})
<1> DEFINE n == Len(Only(seq, set))
           places == {k \in 1 .. Len(seq) : seq[k] \in set}
<1>1. n \in Nat
  BY OnlyIs
<1>2. PICK at : Keeps(Only(seq, set), seq, Len(seq), set, at)
  BY OnlyIs
<1>3. at \in [1 .. n -> places] /\ \A k \in places : \E i \in 1 .. n : at[i] = k
  BY <1>2 DEF Keeps
<1>4. \A i, j \in 1 .. n : at[i] = at[j] => i = j
  <2> SUFFICES ASSUME NEW i \in 1 .. n, NEW j \in 1 .. n, i # j
               PROVE  at[i] # at[j]
    OBVIOUS
  <2>1. i < j \/ j < i
    OBVIOUS
  <2>2. at[i] < at[j] \/ at[j] < at[i]
    BY <1>2, <2>1 DEF Keeps
  <2> QED
    BY <2>2, <1>3, at[i] \in Nat, at[j] \in Nat
<1> HIDE DEF n, places
<1>5. at \in Bijection(1 .. n, places)
  BY <1>3, <1>4 DEF Bijection, Injection, Surjection, IsInjective
<1>6. ExistsBijection(1 .. n, places)
  BY <1>5 DEF ExistsBijection
<1> QED
  BY <1>1, <1>6, FS_CountingElements DEF n, places

-----------------------------------------------------------------------------
(***************************************************************************)
(* One file: what walkNode collects from its syntax tree.                  *)
(***************************************************************************)

\* The elements of a sequence have its type.
LEMMA SeqElement ==
  ASSUME NEW T, NEW s \in Seq(T), NEW i \in 1 .. Len(s)
  PROVE  s[i] \in T /\ DOMAIN s = 1 .. Len(s) /\ Len(s) \in Nat
  OBVIOUS

\* Concatenation, element by element.
LEMMA ConcatIs ==
  ASSUME NEW T, NEW s \in Seq(T), NEW t \in Seq(T)
  PROVE  /\ s \o t \in Seq(T) /\ Len(s \o t) = Len(s) + Len(t) /\ Len(s) \in Nat /\ Len(t) \in Nat
         /\ \A i \in 1 .. Len(s) : (s \o t)[i] = s[i]
         /\ \A i \in 1 .. Len(t) : (s \o t)[Len(s) + i] = t[i]
  OBVIOUS

\* A sequence of one.
LEMMA SingletonIs ==
  ASSUME NEW T, NEW x \in T
  PROVE  <<x>> \in Seq(T) /\ Len(<<x>>) = 1 /\ <<x>>[1] = x
  OBVIOUS

\* Names, the empty one too: the types of what a walk collects.
Scope == STRING \cup {""}
SymbolType ==
  [name : STRING, kind : SymbolKinds, file : STRING, line : Nat, end : Nat, scope : Scope]
RefType == [symbol : STRING, kind : RefKinds, file : STRING, line : Nat, caller : Scope]
WalkType == [symbols : Seq(SymbolType), refs : Seq(RefType), scopes : Seq(Scope)]

\* The node i is of one of the kinds, and has a name.
Named(tree, i, kinds) == tree[i].kind \in kinds /\ tree[i].name # ""

\* The fields of a node of a syntax tree.
LEMMA NodeType ==
  ASSUME NEW tree, IsTree(tree), NEW i \in 1 .. Len(tree)
  PROVE  /\ DOMAIN tree = 1 .. Len(tree) /\ Len(tree) \in Nat
         /\ tree[i].kind \in Kinds /\ tree[i].name \in STRING
         /\ tree[i].parent \in Nat /\ tree[i].end \in i .. Len(tree)
<1>1. tree \in Seq([kind : Kinds, name : STRING, parent : Nat, end : Nat])
  BY DEF IsTree
<1>2. /\ tree[i] \in [kind : Kinds, name : STRING, parent : Nat, end : Nat]
      /\ DOMAIN tree = 1 .. Len(tree) /\ Len(tree) \in Nat
  <2> DEFINE T == [kind : Kinds, name : STRING, parent : Nat, end : Nat]
  <2> HIDE DEF T
  <2> QED
    BY <1>1, SeqElement DEF T
<1>3. tree[i].end \in i .. Len(tree)
  BY DEF IsTree
<1> QED
  BY <1>2, <1>3

\* The scope a node is in, as the walk knows it.
ScopeOf(walked, tree, i) ==
  IF tree[i].parent \in DOMAIN walked.scopes THEN walked.scopes[tree[i].parent] ELSE ""
\* The scope it passes down.
InnerOf(walked, tree, i) ==
  IF Named(tree, i, ScopingKinds) THEN tree[i].name ELSE ScopeOf(walked, tree, i)

\* One call of walkNode, its parts spelled out.
LEMMA VisitIs ==
  ASSUME NEW tree, IsTree(tree), NEW file, NEW walked, NEW i \in 1 .. Len(tree)
  PROVE  VisitNode(walked, tree, file, i) =
           [symbols |-> walked.symbols \o
              (IF Named(tree, i, SymbolKinds)
                 THEN <<[name |-> tree[i].name, kind |-> tree[i].kind, file |-> file, line |-> i,
                         end |-> tree[i].end, scope |-> ScopeOf(walked, tree, i)]>>
                 ELSE <<>>),
            refs |-> walked.refs \o
              (IF Named(tree, i, RefKinds)
                 THEN <<[symbol |-> tree[i].name, kind |-> tree[i].kind, file |-> file, line |-> i,
                         caller |-> InnerOf(walked, tree, i)]>>
                 ELSE <<>>),
            scopes |-> Append(walked.scopes, InnerOf(walked, tree, i))]
<1> DEFINE scope == ScopeOf(walked, tree, i)
           symbol == ExtractedSymbol(tree[i], file, i, scope)
           inner == IF symbol # <<>> /\ tree[i].kind \in ScopingKinds THEN tree[i].name ELSE scope
<1>1. symbol # <<>> <=> Named(tree, i, SymbolKinds)
  BY DEF ExtractedSymbol, Named
<1>2. inner = InnerOf(walked, tree, i)
  BY <1>1 DEF InnerOf, Named, ScopingKinds, SymbolKinds
<1>3. VisitNode(walked, tree, file, i) =
        [symbols |-> walked.symbols \o symbol,
         refs |-> walked.refs \o ExtractedRef(tree[i], file, i, inner),
         scopes |-> Append(walked.scopes, inner)]
  BY DEF VisitNode, ScopeOf
<1> HIDE DEF inner, scope
<1> QED
  BY <1>2, <1>3 DEF ExtractedSymbol, ExtractedRef, Named, scope

\* It keeps the types of what the walk collects.
LEMMA VisitType ==
  ASSUME NEW tree, IsTree(tree), NEW file \in STRING, NEW walked \in WalkType, NEW i \in 1 .. Len(tree)
  PROVE  VisitNode(walked, tree, file, i) \in WalkType
<1>1. /\ tree[i].kind \in Kinds /\ tree[i].name \in STRING /\ tree[i].end \in Nat /\ i \in Nat
  BY NodeType
<1>2. /\ walked.symbols \in Seq(SymbolType) /\ walked.refs \in Seq(RefType)
      /\ walked.scopes \in Seq(Scope)
  BY DEF WalkType
<1>3. ScopeOf(walked, tree, i) \in Scope
  <2> DEFINE scopes == walked.scopes
  <2>1. \A j \in DOMAIN scopes : scopes[j] \in Scope
    BY <1>2
  <2>2. "" \in Scope
    BY DEF Scope
  <2>3. ScopeOf(walked, tree, i) = IF tree[i].parent \in DOMAIN scopes THEN scopes[tree[i].parent] ELSE ""
    BY DEF ScopeOf
  <2> HIDE DEF scopes
  <2> QED
    BY <2>1, <2>2, <2>3
<1>4. InnerOf(walked, tree, i) \in Scope
  BY <1>1, <1>3 DEF InnerOf, Scope
<1>5. Append(walked.scopes, InnerOf(walked, tree, i)) \in Seq(Scope)
  BY <1>2, <1>4
<1>6. (IF Named(tree, i, SymbolKinds)
         THEN <<[name |-> tree[i].name, kind |-> tree[i].kind, file |-> file, line |-> i,
                 end |-> tree[i].end, scope |-> ScopeOf(walked, tree, i)]>>
         ELSE <<>>) \in Seq(SymbolType)
  <2>1. Named(tree, i, SymbolKinds) =>
          [name |-> tree[i].name, kind |-> tree[i].kind, file |-> file, line |-> i,
              end |-> tree[i].end, scope |-> ScopeOf(walked, tree, i)] \in SymbolType
    BY <1>1, <1>3 DEF SymbolType, Named
  <2>2. <<>> \in Seq(SymbolType)
    OBVIOUS
  <2> QED
    BY <2>1, <2>2, SingletonIs
<1>7. (IF Named(tree, i, RefKinds)
         THEN <<[symbol |-> tree[i].name, kind |-> tree[i].kind, file |-> file, line |-> i,
                 caller |-> InnerOf(walked, tree, i)]>>
         ELSE <<>>) \in Seq(RefType)
  <2>1. Named(tree, i, RefKinds) =>
          [symbol |-> tree[i].name, kind |-> tree[i].kind, file |-> file, line |-> i,
              caller |-> InnerOf(walked, tree, i)] \in RefType
    BY <1>1, <1>4 DEF RefType, Named
  <2>2. <<>> \in Seq(RefType)
    OBVIOUS
  <2> QED
    BY <2>1, <2>2, SingletonIs
<1> DEFINE v == VisitNode(walked, tree, file, i)
<1>8. /\ v.symbols \in Seq(SymbolType) /\ v.refs \in Seq(RefType) /\ v.scopes \in Seq(Scope)
      /\ v = [symbols |-> v.symbols, refs |-> v.refs, scopes |-> v.scopes]
  <2> DEFINE a == IF Named(tree, i, SymbolKinds)
                    THEN <<[name |-> tree[i].name, kind |-> tree[i].kind, file |-> file, line |-> i,
                            end |-> tree[i].end, scope |-> ScopeOf(walked, tree, i)]>>
                    ELSE <<>>
             b == IF Named(tree, i, RefKinds)
                    THEN <<[symbol |-> tree[i].name, kind |-> tree[i].kind, file |-> file, line |-> i,
                            caller |-> InnerOf(walked, tree, i)]>>
                    ELSE <<>>
             c == Append(walked.scopes, InnerOf(walked, tree, i))
  <2>1. v = [symbols |-> walked.symbols \o a, refs |-> walked.refs \o b, scopes |-> c]
    BY VisitIs
  <2>2. a \in Seq(SymbolType) /\ b \in Seq(RefType) /\ c \in Seq(Scope)
    BY <1>5, <1>6, <1>7
  <2> HIDE DEF a, b, c, v
  <2>3. walked.symbols \o a \in Seq(SymbolType) /\ walked.refs \o b \in Seq(RefType)
    BY <1>2, <2>2, ConcatIs
  <2> QED
    BY <2>1, <2>2, <2>3
<1> QED
  BY <1>8 DEF WalkType

\* What WalkNode goes through.
WalkRun(run, tree, file) ==
  /\ run \in [0 .. Len(tree) -> WalkType]
  /\ run[0] = [symbols |-> <<>>, refs |-> <<>>, scopes |-> <<>>]
  /\ \A k \in 1 .. Len(tree) : run[k] = VisitNode(run[k - 1], tree, file, k)
  /\ WalkNode(tree, file) = run[Len(tree)]

\* The run of a walk over a file.
LEMMA WalkRunExists ==
  ASSUME NEW tree, IsTree(tree), NEW file \in STRING
  PROVE  \E run : WalkRun(run, tree, file)
<1> DEFINE n == Len(tree)
           A == WalkType
           base == [symbols |-> <<>>, refs |-> <<>>, scopes |-> <<>>]
           Op(a, k) == VisitNode(a, tree, file, [i \in DOMAIN tree |-> i][k])
           step == [p \in A \X (1 .. n) |-> Op(p[1], p[2])]
           Eq(h) == [s \in SUBSET (1 .. n) |-> IF s = {} THEN base ELSE Op(h[s \ {Max(s)}], Max(s))]
           iter == CHOOSE h : h = Eq(h)
<1>1. n \in Nat /\ base \in A
  BY DEF IsTree, WalkType
<1>2. ASSUME NEW a \in A, NEW k \in 1 .. n
      PROVE  Op(a, k) \in A
  BY VisitType, NodeType
<1>3. WalkNode(tree, file) = iter[1 .. n]
  <2>1. DOMAIN tree = 1 .. n
    BY DEF IsTree
  <2> QED
    BY <2>1, DOMAIN [i \in DOMAIN tree |-> i] = 1 .. n DEF WalkNode, FoldLeftDomain, FoldLeft, MapThenFoldSet
<1> HIDE DEF n, A, base, Op
<1>4. step \in Steps(A, n)
  BY <1>2 DEF Steps
<1>5. \A a \in A, k \in 1 .. n : step[<<a, k>>] = Op(a, k)
  OBVIOUS
<1>6. \A s \in SUBSET (1 .. n) : s # {} => Max(s) \in 1 .. n
  BY <1>1, MaxIs, \A s \in SUBSET (1 .. n) : s \in SUBSET (0 .. n)
<1> HIDE DEF step
<1>7. PICK g \in [SUBSET (1 .. n) -> A] : IsFold(g, n, A, base, step)
  BY <1>1, <1>4, FoldExists
<1>8. g = Eq(g)
  BY <1>5, <1>6, <1>7, \A s \in SUBSET (1 .. n) : s \ {Max(s)} \in SUBSET (1 .. n) DEF IsFold
<1>9. iter = Eq(iter)
  BY <1>8
<1> HIDE DEF iter
<1>10. IsFold(iter, n, A, base, step)
  BY <1>5, <1>6, <1>9 DEF IsFold
<1>11. PICK run : IsRun(run, n, A, base, step) /\ iter[1 .. n] = run[n]
  BY <1>1, <1>4, <1>10, RunOf
<1>12. ASSUME NEW k \in 1 .. n
       PROVE  run[k] = Op(run[k - 1], k)
  BY <1>1, <1>5, <1>11, k - 1 \in 0 .. n DEF IsRun
<1>13. run \in [0 .. n -> A] /\ run[0] = base
  BY <1>11 DEF IsRun
<1>14. WalkRun(run, tree, file)
  <2>1. \A k \in 1 .. n : Op(run[k - 1], k) = VisitNode(run[k - 1], tree, file, k)
    BY NodeType DEF n, Op
  <2> QED
    BY <1>3, <1>11, <1>12, <1>13, <2>1 DEF n, A, base, WalkRun
<1> QED
  BY <1>14

\* The scope a node makes, or has from the node it is a child of, is that of
\* the innermost definition around it.
LEMMA EnclosingIs ==
  ASSUME NEW tree, IsTree(tree), NEW i \in 1 .. Len(tree)
  PROVE  /\ tree[i].parent \in 0 .. i - 1
         /\ EnclosingName(tree, i) =
              IF Named(tree, i, ScopingKinds) THEN tree[i].name
              ELSE IF tree[i].parent = 0 THEN "" ELSE EnclosingName(tree, tree[i].parent)
<1> DEFINE E(j) == {k \in Around(tree, j) : Named(tree, k, ScopingKinds)}
           p == tree[i].parent
           outer == {0} \cup (Around(tree, i) \ {i})
<1>1. \A j : EnclosingName(tree, j) = IF E(j) = {} THEN "" ELSE tree[Max(E(j))].name
  BY DEF EnclosingName, Named, ScopingKinds
<1>2. \A j \in 1 .. Len(tree) : tree[j].end \in j .. Len(tree) /\ Len(tree) \in Nat
  BY NodeType
<1>3. Around(tree, i) \subseteq 1 .. i /\ i \in Around(tree, i)
  BY <1>2 DEF Around
<1>4. p = Max(outer)
  BY DEF IsTree
<1>5. p \in outer /\ \A m \in outer : m <= p
  <2>1. outer \in SUBSET (0 .. i) /\ outer # {} /\ i \in Nat
    BY <1>3
  <2> HIDE DEF outer, p
  <2> QED
    BY <1>4, <2>1, MaxIs
<1>6. p \in 0 .. i - 1
  BY <1>3, <1>5
<1>7. CASE Named(tree, i, ScopingKinds)
  <2>1. E(i) \in SUBSET (0 .. i) /\ i \in E(i) /\ i \in Nat
    BY <1>3, <1>7
  <2>2. Max(E(i)) \in E(i) /\ i <= Max(E(i))
    <3> HIDE DEF E
    <3> QED
      BY <2>1, MaxIs
  <2>3. Max(E(i)) = i
    BY <2>1, <2>2
  <2> HIDE DEF E
  <2> QED
    BY <1>1, <1>6, <1>7, <2>1, <2>3
<1>8. CASE ~Named(tree, i, ScopingKinds) /\ p = 0
  <2>1. E(i) = {}
    BY <1>3, <1>5, <1>8
  <2> HIDE DEF E
  <2> QED
    BY <1>1, <1>6, <1>8, <2>1
<1>9. CASE ~Named(tree, i, ScopingKinds) /\ p # 0
  <2>1. p \in Around(tree, i) /\ p # i /\ p \in 1 .. Len(tree)
    BY <1>3, <1>5, <1>6, <1>9
  <2>2. \A j \in Around(tree, p) : tree[p].end <= tree[j].end
    BY <2>1 DEF IsTree
  <2>3. i <= tree[p].end
    BY <2>1 DEF Around
  <2>4. ASSUME NEW j \in Around(tree, p)
        PROVE  j \in Around(tree, i) /\ j # i
    <3>1. j \in 1 .. p /\ j \in 1 .. Len(tree)
      BY <2>1 DEF Around
    <3> QED
      BY <1>2, <1>6, <2>1, <2>2, <2>3, <3>1 DEF Around
  <2>5. ASSUME NEW j \in Around(tree, i), j # i
        PROVE  j \in Around(tree, p)
    <3>1. j \in 1 .. i /\ i <= tree[j].end /\ j <= p /\ tree[j].end \in Nat
      BY <1>2, <1>3, <1>5, <2>5 DEF Around
    <3> QED
      BY <1>6, <3>1 DEF Around
  <2>6. E(i) = E(p)
    BY <1>9, <2>4, <2>5
  <2> HIDE DEF E
  <2> QED
    BY <1>1, <1>6, <1>9, <2>6
<1> QED
  BY <1>7, <1>8, <1>9

-----------------------------------------------------------------------------
\* The list has one element for each named node of the kinds among the first
\* m, in their order.
Lists(list, tree, kinds, m) ==
  /\ \A p \in 1 .. Len(list) : list[p].line \in 1 .. m /\ Named(tree, list[p].line, kinds)
  /\ \A p, q \in 1 .. Len(list) : p < q => list[p].line < list[q].line
  /\ \A i \in 1 .. m : Named(tree, i, kinds) => \E p \in 1 .. Len(list) : list[p].line = i

\* A node that is none of the kinds adds nothing to the list.
LEMMA ListsSkip ==
  ASSUME NEW list, NEW tree, NEW kinds, NEW m \in Nat, Lists(list, tree, kinds, m),
         ~Named(tree, m + 1, kinds)
  PROVE  Lists(list, tree, kinds, m + 1)
<1>1. \A i \in 1 .. m + 1 : Named(tree, i, kinds) => i \in 1 .. m
  OBVIOUS
<1>2. \A i \in 1 .. m : i \in 1 .. m + 1
  OBVIOUS
<1> QED
  BY <1>1, <1>2 DEF Lists

\* A node that is one of the kinds adds its record, once.
LEMMA ListsAdd ==
  ASSUME NEW T, NEW list \in Seq(T), NEW x \in T, NEW tree, NEW kinds, NEW m \in Nat,
         Lists(list, tree, kinds, m), Named(tree, m + 1, kinds), x.line = m + 1
  PROVE  Lists(list \o <<x>>, tree, kinds, m + 1)
<1> DEFINE new == list \o <<x>>
           n == Len(list)
<1>1. /\ Len(new) = n + 1 /\ n \in Nat /\ new[n + 1] = x
      /\ \A p \in 1 .. n : new[p] = list[p]
  BY ConcatIs, SingletonIs
<1>2. \A p \in 1 .. n : list[p].line \in 1 .. m /\ Named(tree, list[p].line, kinds)
  BY DEF Lists
<1> HIDE DEF new
<1>3. \A p \in 1 .. n + 1 : new[p].line \in 1 .. m + 1 /\ Named(tree, new[p].line, kinds)
  <2> SUFFICES ASSUME NEW p \in 1 .. n + 1
               PROVE  new[p].line \in 1 .. m + 1 /\ Named(tree, new[p].line, kinds)
    OBVIOUS
  <2>1. CASE p = n + 1
    BY <1>1, <2>1
  <2>2. CASE p # n + 1
    <3>1. p \in 1 .. n
      BY <1>1, <2>2
    <3> QED
      BY <1>1, <1>2, <3>1
  <2> QED
    BY <2>1, <2>2
<1>4. \A p, q \in 1 .. n + 1 : p < q => new[p].line < new[q].line
  <2> SUFFICES ASSUME NEW p \in 1 .. n + 1, NEW q \in 1 .. n + 1, p < q
               PROVE  new[p].line < new[q].line
    OBVIOUS
  <2>1. p \in 1 .. n /\ new[p].line = list[p].line
    BY <1>1
  <2>2. CASE q = n + 1
    BY <1>1, <1>2, <2>1, <2>2
  <2>3. CASE q # n + 1
    <3>1. q \in 1 .. n
      BY <1>1, <2>3
    <3> QED
      BY <1>1, <2>1, <3>1 DEF Lists
  <2> QED
    BY <2>2, <2>3
<1>5. \A i \in 1 .. m + 1 : Named(tree, i, kinds) => \E p \in 1 .. n + 1 : new[p].line = i
  <2> SUFFICES ASSUME NEW i \in 1 .. m + 1, Named(tree, i, kinds)
               PROVE  \E p \in 1 .. n + 1 : new[p].line = i
    OBVIOUS
  <2>1. CASE i = m + 1
    BY <1>1, <2>1
  <2>2. CASE i # m + 1
    <3>1. PICK p \in 1 .. n : list[p].line = i
      BY <2>2, i \in 1 .. m DEF Lists
    <3> QED
      BY <1>1, <3>1, p \in 1 .. n + 1
  <2> QED
    BY <2>1, <2>2
<1> QED
  BY <1>1, <1>3, <1>4, <1>5 DEF Lists, new

\* A symbol, or a reference, that says what its node does.
IsSymbol(s, tree, file) ==
  s.name = tree[s.line].name /\ s.kind = tree[s.line].kind /\ s.file = file /\ s.end = tree[s.line].end
IsRef(r, tree, file) ==
  /\ r.symbol = tree[r.line].name /\ r.kind = tree[r.line].kind /\ r.file = file
  /\ r.caller = EnclosingName(tree, r.line)

\* The walk has found what the first m nodes have.
WalkInv(walked, tree, file, m) ==
  /\ Len(walked.scopes) = m
  /\ \A i \in 1 .. m : walked.scopes[i] = EnclosingName(tree, i)
  /\ Lists(walked.symbols, tree, SymbolKinds, m)
  /\ \A p \in 1 .. Len(walked.symbols) : IsSymbol(walked.symbols[p], tree, file)
  /\ Lists(walked.refs, tree, RefKinds, m)
  /\ \A p \in 1 .. Len(walked.refs) : IsRef(walked.refs[p], tree, file)

\* A call of walkNode keeps the invariant of the walk: the scope its parent
\* has come to is the name of the innermost function or type around it.
LEMMA VisitInv ==
  ASSUME NEW tree, IsTree(tree), NEW file \in STRING, NEW walked \in WalkType,
         NEW m \in Nat, m + 1 \in 1 .. Len(tree), WalkInv(walked, tree, file, m)
  PROVE  WalkInv(VisitNode(walked, tree, file, m + 1), tree, file, m + 1)
<1> DEFINE v == VisitNode(walked, tree, file, m + 1)
           inner == InnerOf(walked, tree, m + 1)
           symbol == [name |-> tree[m + 1].name, kind |-> tree[m + 1].kind, file |-> file,
                      line |-> m + 1, end |-> tree[m + 1].end, scope |-> ScopeOf(walked, tree, m + 1)]
           ref == [symbol |-> tree[m + 1].name, kind |-> tree[m + 1].kind, file |-> file,
                   line |-> m + 1, caller |-> inner]
<1>1. /\ v.symbols = walked.symbols \o (IF Named(tree, m + 1, SymbolKinds) THEN <<symbol>> ELSE <<>>)
      /\ v.refs = walked.refs \o (IF Named(tree, m + 1, RefKinds) THEN <<ref>> ELSE <<>>)
      /\ v.scopes = Append(walked.scopes, inner)
  <2> DEFINE a == IF Named(tree, m + 1, SymbolKinds) THEN <<symbol>> ELSE <<>>
             b == IF Named(tree, m + 1, RefKinds) THEN <<ref>> ELSE <<>>
  <2>1. v = [symbols |-> walked.symbols \o a, refs |-> walked.refs \o b,
             scopes |-> Append(walked.scopes, inner)]
    BY VisitIs
  <2> HIDE DEF a, b, v, inner
  <2>2. v.symbols = walked.symbols \o a /\ v.refs = walked.refs \o b /\ v.scopes = Append(walked.scopes, inner)
    BY <2>1
  <2> QED
    BY <2>2 DEF a, b
<1>2. /\ walked.symbols \in Seq(SymbolType) /\ walked.refs \in Seq(RefType)
      /\ walked.scopes \in Seq(Scope)
  BY DEF WalkType
<1>3. /\ tree[m + 1].kind \in Kinds /\ tree[m + 1].name \in STRING
      /\ tree[m + 1].parent \in Nat /\ tree[m + 1].end \in Nat /\ m + 1 \in Nat
  BY NodeType
<1>4. ScopeOf(walked, tree, m + 1) \in Scope
  <2> DEFINE scopes == walked.scopes
  <2>1. \A j \in DOMAIN scopes : scopes[j] \in Scope
    BY <1>2
  <2>2. ScopeOf(walked, tree, m + 1) =
          IF tree[m + 1].parent \in DOMAIN scopes THEN scopes[tree[m + 1].parent] ELSE ""
    BY DEF ScopeOf
  <2> HIDE DEF scopes
  <2> QED
    BY <2>1, <2>2 DEF Scope
<1>5. inner \in Scope
  BY <1>3, <1>4 DEF InnerOf, Scope
<1>6. Named(tree, m + 1, SymbolKinds) => symbol \in SymbolType
  BY <1>3, <1>4 DEF SymbolType, Named
<1>7. Named(tree, m + 1, RefKinds) => ref \in RefType
  BY <1>3, <1>5 DEF RefType, Named
<1>8. DOMAIN walked.scopes = 1 .. m /\ \A i \in 1 .. m : walked.scopes[i] = EnclosingName(tree, i)
  BY <1>2 DEF WalkInv
<1>9. inner = EnclosingName(tree, m + 1)
  <2>1. \A i \in 1 .. Len(tree) : tree[i].parent \in 0 .. i - 1
    BY EnclosingIs
  <2>2. tree[m + 1].parent \in 0 .. m
    BY <2>1
  <2>3. ScopeOf(walked, tree, m + 1) =
          IF tree[m + 1].parent = 0 THEN "" ELSE EnclosingName(tree, tree[m + 1].parent)
    <3>1. tree[m + 1].parent \in DOMAIN walked.scopes <=> tree[m + 1].parent # 0
      BY <1>8, <2>2
    <3>2. tree[m + 1].parent # 0 => tree[m + 1].parent \in 1 .. m
      BY <2>2
    <3> QED
      BY <1>8, <3>1, <3>2 DEF ScopeOf
  <2> QED
    BY <2>3, EnclosingIs DEF InnerOf
<1>10. Len(v.scopes) = m + 1 /\ \A i \in 1 .. m + 1 : v.scopes[i] = EnclosingName(tree, i)
  <2>1. Len(walked.scopes) = m
    BY DEF WalkInv
  <2>2. /\ Len(v.scopes) = m + 1 /\ v.scopes[m + 1] = inner
        /\ \A i \in 1 .. m : v.scopes[i] = walked.scopes[i]
    <3> DEFINE scopes == walked.scopes
    <3>1. scopes \in Seq(Scope) /\ Len(scopes) = m /\ v.scopes = Append(scopes, inner)
      BY <1>1, <1>2, <2>1
    <3> HIDE DEF scopes, v, inner
    <3>2. /\ Len(v.scopes) = m + 1 /\ v.scopes[m + 1] = inner
          /\ \A i \in 1 .. m : v.scopes[i] = scopes[i]
      BY <1>5, <3>1, AppendIs
    <3> QED
      BY <3>2 DEF scopes
  <2>3. \A i \in 1 .. m + 1 : i = m + 1 \/ i \in 1 .. m
    OBVIOUS
  <2> QED
    BY <1>8, <1>9, <2>2, <2>3
<1> HIDE DEF v, inner
<1>11. \A T, s : s \in Seq(T) => s \o <<>> = s
  OBVIOUS
<1>12. Lists(walked.symbols, tree, SymbolKinds, m) /\ Lists(walked.refs, tree, RefKinds, m)
  BY DEF WalkInv
<1>13. /\ Lists(v.symbols, tree, SymbolKinds, m + 1)
       /\ \A p \in 1 .. Len(v.symbols) : IsSymbol(v.symbols[p], tree, file)
  <2>1. CASE ~Named(tree, m + 1, SymbolKinds)
    <3>1. v.symbols = walked.symbols
      BY <1>1, <1>2, <1>11, <2>1
    <3> QED
      BY <1>12, <2>1, <3>1, ListsSkip DEF WalkInv
  <2>2. CASE Named(tree, m + 1, SymbolKinds)
    <3>1. v.symbols = walked.symbols \o <<symbol>> /\ symbol \in SymbolType /\ symbol.line = m + 1
      BY <1>1, <1>6, <2>2
    <3>2. IsSymbol(symbol, tree, file)
      BY DEF IsSymbol
    <3> HIDE DEF symbol
    <3>3. Lists(v.symbols, tree, SymbolKinds, m + 1)
      BY <1>2, <1>12, <2>2, <3>1, ListsAdd
    <3>4. /\ Len(v.symbols) = Len(walked.symbols) + 1 /\ v.symbols[Len(walked.symbols) + 1] = symbol
          /\ \A p \in 1 .. Len(walked.symbols) : v.symbols[p] = walked.symbols[p]
          /\ Len(walked.symbols) \in Nat
      BY <1>2, <3>1, ConcatIs, SingletonIs
    <3>5. \A p \in 1 .. Len(v.symbols) : p \in 1 .. Len(walked.symbols) \/ p = Len(walked.symbols) + 1
      BY <3>4
    <3> QED
      BY <3>2, <3>3, <3>4, <3>5 DEF WalkInv
  <2> QED
    BY <2>1, <2>2
<1>14. /\ Lists(v.refs, tree, RefKinds, m + 1)
       /\ \A p \in 1 .. Len(v.refs) : IsRef(v.refs[p], tree, file)
  <2>1. CASE ~Named(tree, m + 1, RefKinds)
    <3>1. v.refs = walked.refs
      BY <1>1, <1>2, <1>11, <2>1
    <3> QED
      BY <1>12, <2>1, <3>1, ListsSkip DEF WalkInv
  <2>2. CASE Named(tree, m + 1, RefKinds)
    <3>1. v.refs = walked.refs \o <<ref>> /\ ref \in RefType /\ ref.line = m + 1
      BY <1>1, <1>7, <2>2
    <3>2. IsRef(ref, tree, file)
      BY <1>9 DEF IsRef
    <3> HIDE DEF ref
    <3>3. Lists(v.refs, tree, RefKinds, m + 1)
      BY <1>2, <1>12, <2>2, <3>1, ListsAdd
    <3>4. /\ Len(v.refs) = Len(walked.refs) + 1 /\ v.refs[Len(walked.refs) + 1] = ref
          /\ \A p \in 1 .. Len(walked.refs) : v.refs[p] = walked.refs[p]
          /\ Len(walked.refs) \in Nat
      BY <1>2, <3>1, ConcatIs, SingletonIs
    <3>5. \A p \in 1 .. Len(v.refs) : p \in 1 .. Len(walked.refs) \/ p = Len(walked.refs) + 1
      BY <3>4
    <3> QED
      BY <3>2, <3>3, <3>4, <3>5 DEF WalkInv
  <2> QED
    BY <2>1, <2>2
<1> QED
  BY <1>10, <1>13, <1>14 DEF WalkInv, v

\* What walkNode finds in a file.
LEMMA WalkIs ==
  ASSUME NEW tree, IsTree(tree), NEW file \in STRING
  PROVE  WalkNode(tree, file) \in WalkType /\ WalkInv(WalkNode(tree, file), tree, file, Len(tree))
<1>1. PICK run : WalkRun(run, tree, file)
  BY WalkRunExists
<1>2. /\ run \in [0 .. Len(tree) -> WalkType]
      /\ run[0] = [symbols |-> <<>>, refs |-> <<>>, scopes |-> <<>>]
      /\ \A k \in 1 .. Len(tree) : run[k] = VisitNode(run[k - 1], tree, file, k)
      /\ WalkNode(tree, file) = run[Len(tree)]
  BY <1>1 DEF WalkRun
<1> DEFINE n == Len(tree)
           Good == {k \in 0 .. n : WalkInv(run[k], tree, file, k)}
<1>3. n \in Nat
  BY DEF IsTree
<1>4. 0 \in Good
  BY <1>2, <1>3 DEF WalkInv, Lists
<1>5. ASSUME NEW k \in 1 .. n, k - 1 \in Good
      PROVE  k \in Good
  <2>1. run[k - 1] \in WalkType /\ WalkInv(run[k - 1], tree, file, k - 1) /\ k - 1 \in Nat /\ k - 1 + 1 = k
    BY <1>2, <1>3, <1>5
  <2>2. WalkInv(VisitNode(run[k - 1], tree, file, k), tree, file, k)
    BY <1>3, <2>1, VisitInv
  <2> QED
    BY <1>2, <2>2
<1> HIDE DEF Good
<1>6. n \in Good
  <2>1. \A k \in 0 .. n : k \in Good
    BY <1>3, <1>4, <1>5, InductionTo
  <2> QED
    BY <1>3, <2>1
<1> QED
  BY <1>2, <1>3, <1>6 DEF Good

-----------------------------------------------------------------------------
(***************************************************************************)
(* All files: what a build makes of them, and the tables.                  *)
(***************************************************************************)

\* The elements of flat are those of the first m sequences: its p-th is the
\* b[p]-th of the a[p]-th, and everyone is there once.
Flattens(flat, seqs, m, a, b) ==
  /\ \A p \in 1 .. Len(flat) :
       /\ a[p] \in 1 .. m /\ b[p] \in 1 .. Len(seqs[a[p]])
       /\ flat[p] = seqs[a[p]][b[p]]
  /\ \A p, q \in 1 .. Len(flat) : a[p] = a[q] /\ b[p] = b[q] => p = q
  /\ \A i \in 1 .. m : \A j \in 1 .. Len(seqs[i]) : \E p \in 1 .. Len(flat) : a[p] = i /\ b[p] = j

\* One more sequence, and each of its elements has a place in the whole.
LEMMA FlattenStep ==
  ASSUME NEW T, NEW seqs, NEW m \in Nat, NEW flat \in Seq(T), seqs[m + 1] \in Seq(T),
         NEW a, NEW b, Flattens(flat, seqs, m, a, b)
  PROVE  \E c, d : Flattens(flat \o seqs[m + 1], seqs, m + 1, c, d)
<1> DEFINE n == Len(flat)
           l == Len(seqs[m + 1])
           new == flat \o seqs[m + 1]
           c == [p \in 1 .. n + l |-> IF p <= n THEN a[p] ELSE m + 1]
           d == [p \in 1 .. n + l |-> IF p <= n THEN b[p] ELSE p - n]
<1>1. /\ Len(new) = n + l /\ n \in Nat /\ l \in Nat
      /\ \A p \in 1 .. n : new[p] = flat[p]
      /\ \A p \in 1 .. l : new[n + p] = seqs[m + 1][p]
  BY ConcatIs
<1> HIDE DEF new, n, l
<1>2. \A p \in 1 .. n : p \in 1 .. n + l /\ c[p] = a[p] /\ d[p] = b[p]
  BY <1>1
<1>3. \A p \in 1 .. n + l : ~(p <= n) => c[p] = m + 1 /\ d[p] = p - n /\ p - n \in 1 .. l /\ n + (p - n) = p
  BY <1>1
<1>4. \A p \in 1 .. n + l : p <= n => p \in 1 .. n
  BY <1>1
<1> HIDE DEF c, d
<1>5. \A p \in 1 .. n : /\ a[p] \in 1 .. m /\ b[p] \in 1 .. Len(seqs[a[p]]) /\ flat[p] = seqs[a[p]][b[p]]
                        /\ a[p] \in 1 .. m + 1 /\ a[p] # m + 1
  BY DEF Flattens, n
<1>6. ASSUME NEW p \in 1 .. n + l
      PROVE  c[p] \in 1 .. m + 1 /\ d[p] \in 1 .. Len(seqs[c[p]]) /\ new[p] = seqs[c[p]][d[p]]
  <2>1. CASE p <= n
    BY <1>1, <1>2, <1>4, <1>5, <2>1
  <2>2. CASE ~(p <= n)
    <3>1. c[p] = m + 1 /\ d[p] = p - n /\ p - n \in 1 .. l /\ n + (p - n) = p
      BY <1>3, <2>2
    <3>2. new[n + (p - n)] = seqs[m + 1][p - n]
      BY <1>1, <3>1
    <3> QED
      BY <3>1, <3>2 DEF l
  <2> QED
    BY <2>1, <2>2
<1>7. ASSUME NEW p \in 1 .. n + l, NEW q \in 1 .. n + l, c[p] = c[q], d[p] = d[q]
      PROVE  p = q
  <2>1. CASE p <= n /\ q <= n
    BY <1>2, <1>4, <1>7, <2>1 DEF Flattens, n
  <2>2. CASE ~(p <= n) /\ ~(q <= n)
    BY <1>1, <1>3, <1>7, <2>2
  <2>3. CASE (p <= n) # (q <= n)
    BY <1>2, <1>3, <1>4, <1>5, <1>7, <2>3
  <2> QED
    BY <2>1, <2>2, <2>3
<1>8. ASSUME NEW i \in 1 .. m + 1, NEW j \in 1 .. Len(seqs[i])
      PROVE  \E p \in 1 .. n + l : c[p] = i /\ d[p] = j
  <2>1. CASE i = m + 1
    <3> DEFINE p == n + j
    <3>1. p \in 1 .. n + l /\ ~(p <= n) /\ p - n = j
      BY <1>1, <2>1 DEF l
    <3> HIDE DEF p
    <3>2. c[p] = m + 1 /\ d[p] = p - n
      BY <1>3, <3>1
    <3> QED
      BY <2>1, <3>1, <3>2
  <2>2. CASE i # m + 1
    <3>1. PICK p \in 1 .. n : a[p] = i /\ b[p] = j
      BY <2>2, i \in 1 .. m DEF Flattens, n
    <3> QED
      BY <1>2, <3>1
  <2> QED
    BY <2>1, <2>2
<1>9. Flattens(new, seqs, m + 1, c, d)
  BY <1>1, <1>6, <1>7, <1>8 DEF Flattens
<1> QED
  BY <1>9 DEF new

\* FlattenSeq has each element of each sequence at one place, and no other.
LEMMA FlattenIs ==
  ASSUME NEW T, NEW seqs \in Seq(Seq(T))
  PROVE  FlattenSeq(seqs) \in Seq(T) /\ \E a, b : Flattens(FlattenSeq(seqs), seqs, Len(seqs), a, b)
<1>1. PICK run : FlattenRun(run, T, seqs)
  BY FlattenRunExists
<1>2. /\ run \in [0 .. Len(seqs) -> Seq(T)] /\ run[0] = <<>>
      /\ \A k \in 1 .. Len(seqs) : run[k] = run[k - 1] \o seqs[k]
      /\ FlattenSeq(seqs) = run[Len(seqs)]
  BY <1>1 DEF FlattenRun
<1> DEFINE n == Len(seqs)
           Good == {k \in 0 .. n : \E a, b : Flattens(run[k], seqs, k, a, b)}
<1>3. n \in Nat /\ \A k \in 1 .. n : seqs[k] \in Seq(T)
  OBVIOUS
<1>4. 0 \in Good
  <2>1. Flattens(run[0], seqs, 0, <<>>, <<>>)
    BY <1>2 DEF Flattens
  <2> QED
    BY <1>3, <2>1
<1>5. ASSUME NEW k \in 1 .. n, k - 1 \in Good
      PROVE  k \in Good
  <2>1. PICK a, b : Flattens(run[k - 1], seqs, k - 1, a, b)
    BY <1>5
  <2> DEFINE m == k - 1
  <2>2. m \in Nat /\ m + 1 = k /\ run[m] \in Seq(T) /\ seqs[m + 1] \in Seq(T)
    <3>1. m \in 0 .. Len(seqs) /\ m \in Nat /\ m + 1 = k
      BY <1>3
    <3>2. seqs[k] \in Seq(T)
      BY <1>3
    <3> HIDE DEF m, n
    <3> QED
      BY <1>2, <3>1, <3>2
  <2>3. Flattens(run[m], seqs, m, a, b)
    BY <2>1
  <2> HIDE DEF m
  <2>4. \E c, d : Flattens(run[m] \o seqs[m + 1], seqs, m + 1, c, d)
    BY <2>2, <2>3, FlattenStep
  <2>5. run[k] = run[m] \o seqs[m + 1]
    BY <1>2, <2>2 DEF m
  <2>6. \E c, d : Flattens(run[k], seqs, k, c, d)
    BY <2>2, <2>4, <2>5
  <2>7. k \in 0 .. n
    BY <1>3
  <2> QED
    BY <2>6, <2>7
<1> HIDE DEF Good
<1>6. n \in Good
  <2>1. \A k \in 0 .. n : k \in Good
    BY <1>3, <1>4, <1>5, InductionTo
  <2> QED
    BY <1>3, <2>1
<1> QED
  BY <1>2, <1>3, <1>6 DEF Good

-----------------------------------------------------------------------------
(***************************************************************************)
(* The tables.                                                             *)
(***************************************************************************)

\* They are as a build has made them of the files.
TablesInv ==
  /\ source \in Sources
  /\ \E order \in SetToSeqs(ToSet(Files)) : symbols = SymbolsOf(source, order)
  /\ refs = RefsOf(source)
  /\ DOMAIN disk = ToSet(Files) /\ \A f \in ToSet(Files) : disk[f] = Missing \/ IsTree(disk[f])

\* What was indexed is a tree for each file.
LEMMA SourceType ==
  ASSUME TablesInv
  PROVE  /\ DOMAIN source = ToSet(Files)
         /\ \A f \in ToSet(Files) : f \in STRING /\ IsTree(source[f])
<1>1. ASSUME NEW T, NEW seq \in Seq(T), NEW x \in ToSet(seq)
      PROVE  x \in T
  BY DEF ToSet
<1>2. Files \in Seq(STRING \ {""})
  BY ConstantsAssumption
<1>3. \A f \in ToSet(Files) : f \in STRING \ {""}
  BY <1>1, <1>2, Zenon
<1> QED
  BY <1>3, ConstantsAssumption DEF TablesInv

\* The elements of a sequence are finitely many.
LEMMA ToSetFinite ==
  ASSUME NEW T, NEW seq \in Seq(T)
  PROVE  IsFiniteSet(ToSet(seq)) /\ Cardinality(ToSet(seq)) <= Len(seq) /\ Len(seq) \in Nat
<1> DEFINE S == ToSet(seq)
<1>1. DOMAIN seq = 1 .. Len(seq) /\ Len(seq) \in Nat
  OBVIOUS
<1>2. seq \in Surjection(1 .. Len(seq), S)
  BY <1>1 DEF Surjection, ToSet
<1>3. IsFiniteSet(1 .. Len(seq)) /\ Cardinality(1 .. Len(seq)) = Len(seq)
  BY <1>1, FS_Interval
<1> HIDE DEF S
<1>4. IsFiniteSet(S) /\ Cardinality(S) <= Len(seq)
  BY <1>2, <1>3, FS_Surjection
<1> QED
  BY <1>1, <1>4 DEF S

\* An order of a finite set has all its elements.
LEMMA SeqsAre ==
  ASSUME NEW S, IsFiniteSet(S), NEW order \in SetToSeqs(S)
  PROVE  /\ order \in Seq(S) /\ \A x \in S : \E i \in 1 .. Len(order) : order[i] = x
         /\ \A i, j \in 1 .. Len(order) : i # j => order[i] # order[j]
<1> DEFINE c == Cardinality(S)
<1>1. c \in Nat
  BY FS_CardinalityType
<1>2. order \in [1 .. c -> S] /\ \A i, j \in 1 .. c : i # j => order[i] # order[j]
  BY DEF SetToSeqs
<1>3. order \in Injection(1 .. c, S)
  BY <1>2 DEF Injection, IsInjective
<1>4. Cardinality(1 .. c) = c
  BY <1>1, FS_Interval
<1> HIDE DEF c
<1>5. order \in Surjection(1 .. c, S)
  BY <1>1, <1>3, <1>4, FS_Injection DEF c
<1>6. order \in Seq(S) /\ Len(order) = c
  BY <1>1, <1>2
<1> QED
  BY <1>2, <1>5, <1>6 DEF Surjection, c

\* A list of distinct files is any of its orders.
LEMMA OrderIs ==
  ASSUME NEW order \in SetToSeqs(ToSet(Files))
  PROVE  /\ order \in Seq(ToSet(Files)) /\ \A f \in ToSet(Files) : \E i \in 1 .. Len(order) : order[i] = f
         /\ \A i, j \in 1 .. Len(order) : i # j => order[i] # order[j]
BY ConstantsAssumption, ToSetFinite, SeqsAre

\* Where a symbol or a reference is: the node it was made of.
Place(r) == <<r.file, r.line>>

\* A tree is a sequence.
LEMMA TreeLength ==
  ASSUME NEW tree, IsTree(tree)
  PROVE  Len(tree) \in Nat /\ DOMAIN tree = 1 .. Len(tree)
<1> DEFINE T == [kind : Kinds, name : STRING, parent : Nat, end : Nat]
<1>1. tree \in Seq(T)
  BY DEF IsTree
<1> HIDE DEF T
<1> QED
  BY <1>1

\* The nodes, by file and line.
LEMMA NodesAre ==
  ASSUME TablesInv
  PROVE  /\ \A f \in ToSet(Files) : \A i \in 1 .. Len(source[f]) : <<f, i>> \in Node
         /\ \A n \in Node : /\ n = <<n[1], n[2]>> /\ n[1] \in ToSet(Files)
                            /\ n[2] \in 1 .. Len(source[n[1]])
<1>1. \A f \in ToSet(Files) : DOMAIN source[f] = 1 .. Len(source[f])
  BY SourceType DEF IsTree
<1>2. ASSUME NEW f \in ToSet(Files), NEW i \in 1 .. Len(source[f])
      PROVE  <<f, i>> \in Node
  <2>1. i \in UNION {DOMAIN source[g] : g \in ToSet(Files)}
    BY <1>1
  <2> QED
    BY <1>1, <2>1 DEF Node
<1>3. ASSUME NEW n \in Node
      PROVE  n = <<n[1], n[2]>> /\ n[1] \in ToSet(Files) /\ n[2] \in 1 .. Len(source[n[1]])
  BY <1>1 DEF Node
<1> QED
  BY <1>2, <1>3

\* list has the named nodes of the kinds of each file.
ListsAll(list, T, kinds) ==
  \A f \in ToSet(Files) :
    /\ list[f] \in Seq(T)
    /\ Lists(list[f], source[f], kinds, Len(source[f]))
    /\ \A p \in 1 .. Len(list[f]) : list[f][p].file = f

\* An order takes nothing twice.
Distinct(order) == \A i, j \in 1 .. Len(order) : i # j => order[i] # order[j]

\* The lists of the files, in an order.
Joined(order, list) == FlattenSeq([i \in 1 .. Len(order) |-> list[order[i]]])

\* flat has the elements of the lists, all of them, and each once if each file
\* is taken once.
IsTable(flat, order, list, T, kinds) ==
  /\ flat \in Seq(T)
  /\ \A p \in 1 .. Len(flat) : \E f \in ToSet(Files) : \E j \in 1 .. Len(list[f]) : flat[p] = list[f][j]
  /\ \A n \in Node : Named(source[n[1]], n[2], kinds) => \E p \in 1 .. Len(flat) : Place(flat[p]) = n
  /\ Distinct(order) => \A p, q \in 1 .. Len(flat) : Place(flat[p]) = Place(flat[q]) => p = q

\* A table that is put together, file by file, from lists of the named nodes
\* of some kinds has all of them, and each once if each file is taken once.
LEMMA TableIs ==
  ASSUME TablesInv, NEW order \in Seq(ToSet(Files)),
         \A f \in ToSet(Files) : \E i \in 1 .. Len(order) : order[i] = f,
         NEW T, NEW kinds, NEW list, ListsAll(list, T, kinds),
         NEW flat, flat = Joined(order, list)
  PROVE  IsTable(flat, order, list, T, kinds)
<1> USE DEF ListsAll
<1> DEFINE seqs == [i \in 1 .. Len(order) |-> list[order[i]]]
<1>1. /\ DOMAIN order = 1 .. Len(order) /\ Len(order) \in Nat
      /\ \A i \in 1 .. Len(order) : order[i] \in ToSet(Files)
  <2> DEFINE S == ToSet(Files)
  <2> HIDE DEF S
  <2>1. order \in Seq(S)
    BY DEF S
  <2> QED
    BY <2>1 DEF S
<1>2. \A i \in 1 .. Len(order) : seqs[i] = list[order[i]] /\ seqs[i] \in Seq(T)
  BY <1>1
<1>3. seqs \in Seq(Seq(T)) /\ Len(seqs) = Len(order)
  <2> DEFINE Q == Seq(T)
  <2>1. \A i \in 1 .. Len(order) : list[order[i]] \in Q
    BY <1>1
  <2> HIDE DEF Q
  <2> QED
    BY <1>1, <2>1 DEF Q
<1> HIDE DEF seqs
<1>4. flat = FlattenSeq(seqs)
  BY DEF seqs, Joined
<1>5. flat \in Seq(T) /\ \E a, b : Flattens(flat, seqs, Len(seqs), a, b)
  <2>1. FlattenSeq(seqs) \in Seq(T) /\ \E a, b : Flattens(FlattenSeq(seqs), seqs, Len(seqs), a, b)
    BY <1>3, FlattenIs
  <2> HIDE DEF Flattens
  <2> QED
    BY <1>4, <2>1, Zenon
<1>6. PICK a, b : Flattens(flat, seqs, Len(seqs), a, b)
  BY <1>5
<1>7. ASSUME NEW p \in 1 .. Len(flat)
      PROVE  /\ a[p] \in 1 .. Len(order) /\ order[a[p]] \in ToSet(Files)
             /\ b[p] \in 1 .. Len(list[order[a[p]]]) /\ flat[p] = list[order[a[p]]][b[p]]
             /\ flat[p].file = order[a[p]]
             /\ flat[p].line = list[order[a[p]]][b[p]].line
  <2>1. a[p] \in 1 .. Len(order) /\ b[p] \in 1 .. Len(seqs[a[p]]) /\ flat[p] = seqs[a[p]][b[p]]
    BY <1>3, <1>6 DEF Flattens
  <2>2. order[a[p]] \in ToSet(Files) /\ seqs[a[p]] = list[order[a[p]]]
    BY <1>1, <1>2, <2>1
  <2>3. flat[p] = list[order[a[p]]][b[p]] /\ b[p] \in 1 .. Len(list[order[a[p]]])
    BY <2>1, <2>2
  <2>4. list[order[a[p]]][b[p]].file = order[a[p]]
    BY <2>2, <2>3
  <2> QED
    BY <2>1, <2>2, <2>3, <2>4
<1>8. ASSUME NEW n \in Node, Named(source[n[1]], n[2], kinds)
      PROVE  \E p \in 1 .. Len(flat) : Place(flat[p]) = n
  <2>1. n = <<n[1], n[2]>> /\ n[1] \in ToSet(Files) /\ n[2] \in 1 .. Len(source[n[1]])
    BY NodesAre
  <2>2. PICK i \in 1 .. Len(order) : order[i] = n[1]
    BY <2>1
  <2>3. PICK j \in 1 .. Len(list[n[1]]) : list[n[1]][j].line = n[2]
    BY <1>8, <2>1 DEF Lists
  <2>4. i \in 1 .. Len(seqs) /\ j \in 1 .. Len(seqs[i])
    BY <1>2, <1>3, <2>2, <2>3
  <2>5. PICK p \in 1 .. Len(flat) : a[p] = i /\ b[p] = j
    BY <1>6, <2>4 DEF Flattens
  <2>6. flat[p].file = n[1] /\ flat[p].line = n[2]
    BY <1>7, <2>2, <2>3, <2>5
  <2> QED
    BY <2>1, <2>5, <2>6 DEF Place
<1>9. ASSUME Distinct(order), NEW p \in 1 .. Len(flat), NEW q \in 1 .. Len(flat), Place(flat[p]) = Place(flat[q])
      PROVE  p = q
  <2>1. flat[p].file = flat[q].file /\ flat[p].line = flat[q].line
    BY <1>9 DEF Place
  <2>2. a[p] = a[q]
    <3>1. a[p] \in 1 .. Len(order) /\ a[q] \in 1 .. Len(order) /\ order[a[p]] = order[a[q]]
      BY <1>7, <2>1
    <3> QED
      BY <1>9, <3>1 DEF Distinct
  <2> DEFINE f == order[a[p]]
  <2>3. f \in ToSet(Files) /\ b[p] \in 1 .. Len(list[f]) /\ b[q] \in 1 .. Len(list[f])
        /\ list[f][b[p]].line = list[f][b[q]].line
    BY <1>7, <2>1, <2>2
  <2>4. Lists(list[f], source[f], kinds, Len(source[f]))
    BY <2>3
  <2> HIDE DEF f
  <2>5. \A i \in 1 .. Len(list[f]) : list[f][i].line \in Nat
    <3>1. Len(source[f]) \in Nat
      BY <2>3, SourceType, TreeLength
    <3>2. \A i \in 1 .. Len(list[f]) : list[f][i].line \in 1 .. Len(source[f])
      BY <2>4 DEF Lists
    <3> QED
      BY <3>1, <3>2
  <2>6. b[p] = b[q]
    <3>1. CASE b[p] < b[q]
      <4>1. list[f][b[p]].line < list[f][b[q]].line
        BY <2>3, <2>4, <3>1 DEF Lists
      <4>2. list[f][b[p]].line \in Nat /\ list[f][b[q]].line \in Nat
        BY <2>3, <2>5
      <4> DEFINE x == list[f][b[p]].line
                 y == list[f][b[q]].line
      <4>3. x \in Nat /\ y \in Nat /\ x = y /\ (x < y \/ y < x)
        BY <2>3, <4>1, <4>2
      <4> HIDE DEF x, y
      <4> QED
        BY <4>3
    <3>2. CASE b[q] < b[p]
      <4>1. list[f][b[q]].line < list[f][b[p]].line
        BY <2>3, <2>4, <3>2 DEF Lists
      <4>2. list[f][b[p]].line \in Nat /\ list[f][b[q]].line \in Nat
        BY <2>3, <2>5
      <4> DEFINE x == list[f][b[p]].line
                 y == list[f][b[q]].line
      <4>3. x \in Nat /\ y \in Nat /\ x = y /\ (x < y \/ y < x)
        BY <2>3, <4>1, <4>2
      <4> HIDE DEF x, y
      <4> QED
        BY <4>3
    <3> QED
      BY <2>3, <3>1, <3>2
  <2> QED
    BY <1>3, <1>6, <2>2, <2>6 DEF Flattens
<1>10. ASSUME NEW p \in 1 .. Len(flat)
       PROVE  \E f \in ToSet(Files) : \E j \in 1 .. Len(list[f]) : flat[p] = list[f][j]
  <2>1. /\ order[a[p]] \in ToSet(Files) /\ b[p] \in 1 .. Len(list[order[a[p]]])
        /\ flat[p] = list[order[a[p]]][b[p]]
    BY <1>7
  <2> QED
    BY <2>1, Zenon
<1> HIDE DEF ListsAll
<1> QED
  BY <1>5, <1>8, <1>9, <1>10, Zenon DEF IsTable

\* What the call graph has: each reference of the files once, with the name
\* and the innermost definition around it.
LEMMA RefsAre ==
  ASSUME TablesInv
  PROVE  /\ refs \in Seq(RefType)
         /\ \A p \in 1 .. Len(refs) :
              /\ Place(refs[p]) \in References
              /\ At(Place(refs[p])).name = refs[p].symbol
              /\ At(Place(refs[p])).kind = refs[p].kind
              /\ Enclosing(Place(refs[p])) = refs[p].caller
         /\ \A p, q \in 1 .. Len(refs) : Place(refs[p]) = Place(refs[q]) => p = q
         /\ \A n \in References : \E p \in 1 .. Len(refs) : Place(refs[p]) = n
<1> DEFINE list == [f \in ToSet(Files) |-> Walked(source, f).refs]
<1>1. ASSUME NEW f \in ToSet(Files)
      PROVE  /\ list[f] \in Seq(RefType)
             /\ Lists(list[f], source[f], RefKinds, Len(source[f]))
             /\ \A p \in 1 .. Len(list[f]) : IsRef(list[f][p], source[f], f)
  <2>1. f \in STRING /\ IsTree(source[f])
    BY SourceType
  <2>2. Walked(source, f) \in WalkType /\ WalkInv(Walked(source, f), source[f], f, Len(source[f]))
    BY <2>1, WalkIs DEF Walked
  <2>3. list[f] = Walked(source, f).refs
    OBVIOUS
  <2> HIDE DEF list
  <2> QED
    BY <2>2, <2>3 DEF WalkType, WalkInv
<1>2. Files \in Seq(ToSet(Files)) /\ DOMAIN Files = 1 .. Len(Files)
      /\ \A f \in ToSet(Files) : \E i \in 1 .. Len(Files) : Files[i] = f
  <2> DEFINE T == STRING \ {""}
  <2>1. Files \in Seq(T)
    BY ConstantsAssumption
  <2> HIDE DEF T
  <2>2. DOMAIN Files = 1 .. Len(Files) /\ Len(Files) \in Nat
    BY <2>1
  <2> QED
    BY <2>1, <2>2 DEF ToSet
<1>3. refs = FlattenSeq([i \in 1 .. Len(Files) |-> list[Files[i]]])
  <2>1. \A i \in 1 .. Len(Files) : Files[i] \in ToSet(Files)
    BY <1>2 DEF ToSet
  <2>2. [i \in 1 .. Len(Files) |-> list[Files[i]]] = [i \in DOMAIN Files |-> Walked(source, Files[i]).refs]
    BY <1>2, <2>1
  <2> QED
    BY <2>2 DEF TablesInv, RefsOf
<1> HIDE DEF list
<1>4. \A f \in ToSet(Files) : \A p \in 1 .. Len(list[f]) : list[f][p].file = f
  BY <1>1 DEF IsRef
<1>5. /\ refs \in Seq(RefType)
      /\ \A p \in 1 .. Len(refs) : \E f \in ToSet(Files) : \E j \in 1 .. Len(list[f]) : refs[p] = list[f][j]
      /\ \A n \in Node : Named(source[n[1]], n[2], RefKinds) => \E p \in 1 .. Len(refs) : Place(refs[p]) = n
      /\ \A p, q \in 1 .. Len(refs) : Place(refs[p]) = Place(refs[q]) => p = q
  <2> DEFINE T == RefType
             kinds == RefKinds
  <2>1. ListsAll(list, T, kinds) /\ Distinct(Files) /\ refs = Joined(Files, list)
    BY <1>1, <1>3, <1>4, ConstantsAssumption DEF ListsAll, Distinct, Joined
  <2> HIDE DEF T, kinds
  <2>2. IsTable(refs, Files, list, T, kinds)
    BY <1>2, <2>1, TableIs
  <2> QED
    BY <2>1, <2>2, Zenon DEF T, kinds, IsTable
<1>6. ASSUME NEW p \in 1 .. Len(refs)
      PROVE  /\ Place(refs[p]) \in References
             /\ At(Place(refs[p])).name = refs[p].symbol
             /\ At(Place(refs[p])).kind = refs[p].kind
             /\ Enclosing(Place(refs[p])) = refs[p].caller
  <2>1. PICK f \in ToSet(Files) : \E j \in 1 .. Len(list[f]) : refs[p] = list[f][j]
    BY <1>5
  <2>2. PICK j \in 1 .. Len(list[f]) : refs[p] = list[f][j]
    BY <2>1
  <2>3. IsRef(refs[p], source[f], f) /\ refs[p].line \in 1 .. Len(source[f])
        /\ Named(source[f], refs[p].line, RefKinds)
    BY <1>1, <2>2 DEF Lists
  <2> DEFINE n == Place(refs[p])
  <2>4. n \in Node /\ n[1] = f /\ n[2] = refs[p].line
    BY <2>3, NodesAre DEF Place, IsRef
  <2> HIDE DEF n
  <2>5. At(n) = source[f][refs[p].line] /\ Enclosing(n) = EnclosingName(source[f], refs[p].line)
    BY <2>4 DEF At, Enclosing
  <2>6. n \in References /\ At(n).name = refs[p].symbol /\ At(n).kind = refs[p].kind /\ Enclosing(n) = refs[p].caller
    BY <2>3, <2>4, <2>5 DEF References, IsRef, Named
  <2> QED
    BY <2>6 DEF n
<1>7. ASSUME NEW n \in References
      PROVE  \E p \in 1 .. Len(refs) : Place(refs[p]) = n
  <2>1. n \in Node /\ Named(source[n[1]], n[2], RefKinds)
    BY DEF References, At, Named
  <2> QED
    BY <1>5, <2>1
<1> QED
  BY <1>5, <1>6, <1>7

\* What the symbol table has: each definition of the files, once.
LEMMA SymbolsAre ==
  ASSUME TablesInv
  PROVE  /\ symbols \in Seq(SymbolType)
         /\ \A p \in 1 .. Len(symbols) :
              /\ Place(symbols[p]) \in Definitions
              /\ At(Place(symbols[p])).name = symbols[p].name
              /\ At(Place(symbols[p])).kind = symbols[p].kind
              /\ At(Place(symbols[p])).end = symbols[p].end
         /\ \A p, q \in 1 .. Len(symbols) : Place(symbols[p]) = Place(symbols[q]) => p = q
         /\ \A n \in Definitions : \E p \in 1 .. Len(symbols) : Place(symbols[p]) = n
<1>1. PICK order \in SetToSeqs(ToSet(Files)) : symbols = SymbolsOf(source, order)
  BY DEF TablesInv
<1> DEFINE list == [f \in ToSet(Files) |-> Walked(source, f).symbols]
<1>2. ASSUME NEW f \in ToSet(Files)
      PROVE  /\ list[f] \in Seq(SymbolType)
             /\ Lists(list[f], source[f], SymbolKinds, Len(source[f]))
             /\ \A p \in 1 .. Len(list[f]) : IsSymbol(list[f][p], source[f], f)
  <2>1. f \in STRING /\ IsTree(source[f])
    BY SourceType
  <2>2. Walked(source, f) \in WalkType /\ WalkInv(Walked(source, f), source[f], f, Len(source[f]))
    BY <2>1, WalkIs DEF Walked
  <2>3. list[f] = Walked(source, f).symbols
    OBVIOUS
  <2> HIDE DEF list
  <2> QED
    BY <2>2, <2>3 DEF WalkType, WalkInv
<1>3. /\ order \in Seq(ToSet(Files)) /\ DOMAIN order = 1 .. Len(order)
      /\ \A i \in 1 .. Len(order) : order[i] \in ToSet(Files)
      /\ \A f \in ToSet(Files) : \E i \in 1 .. Len(order) : order[i] = f
      /\ Distinct(order)
  <2> DEFINE S == ToSet(Files)
  <2>1. order \in Seq(S) /\ (\A f \in S : \E i \in 1 .. Len(order) : order[i] = f) /\ Distinct(order)
    BY OrderIs DEF Distinct
  <2> HIDE DEF S
  <2>2. DOMAIN order = 1 .. Len(order) /\ \A i \in 1 .. Len(order) : order[i] \in S
    BY <2>1
  <2> QED
    BY <2>1, <2>2 DEF S
<1>4. symbols = FlattenSeq([i \in 1 .. Len(order) |-> list[order[i]]])
  <2>1. [i \in 1 .. Len(order) |-> list[order[i]]] = [i \in DOMAIN order |-> Walked(source, order[i]).symbols]
    BY <1>3
  <2> QED
    BY <1>1, <2>1 DEF SymbolsOf
<1> HIDE DEF list
<1>5. \A f \in ToSet(Files) : \A p \in 1 .. Len(list[f]) : list[f][p].file = f
  BY <1>2 DEF IsSymbol
<1>6. /\ symbols \in Seq(SymbolType)
      /\ \A p \in 1 .. Len(symbols) :
           \E f \in ToSet(Files) : \E j \in 1 .. Len(list[f]) : symbols[p] = list[f][j]
      /\ \A n \in Node : Named(source[n[1]], n[2], SymbolKinds) =>
           \E p \in 1 .. Len(symbols) : Place(symbols[p]) = n
      /\ \A p, q \in 1 .. Len(symbols) : Place(symbols[p]) = Place(symbols[q]) => p = q
  <2> DEFINE T == SymbolType
             kinds == SymbolKinds
  <2>1. ListsAll(list, T, kinds) /\ symbols = Joined(order, list)
    BY <1>2, <1>4, <1>5 DEF ListsAll, Joined
  <2> HIDE DEF T, kinds
  <2>2. IsTable(symbols, order, list, T, kinds)
    BY <1>3, <2>1, TableIs
  <2> QED
    BY <1>3, <2>2, Zenon DEF T, kinds, IsTable
<1>7. ASSUME NEW p \in 1 .. Len(symbols)
      PROVE  /\ Place(symbols[p]) \in Definitions
             /\ At(Place(symbols[p])).name = symbols[p].name
             /\ At(Place(symbols[p])).kind = symbols[p].kind
             /\ At(Place(symbols[p])).end = symbols[p].end
  <2>1. PICK f \in ToSet(Files) : \E j \in 1 .. Len(list[f]) : symbols[p] = list[f][j]
    BY <1>6
  <2>2. PICK j \in 1 .. Len(list[f]) : symbols[p] = list[f][j]
    BY <2>1
  <2>3. IsSymbol(symbols[p], source[f], f) /\ symbols[p].line \in 1 .. Len(source[f])
        /\ Named(source[f], symbols[p].line, SymbolKinds)
    BY <1>2, <2>2 DEF Lists
  <2> DEFINE n == Place(symbols[p])
  <2>4. n \in Node /\ n[1] = f /\ n[2] = symbols[p].line
    BY <2>3, NodesAre DEF Place, IsSymbol
  <2> HIDE DEF n
  <2>5. At(n) = source[f][symbols[p].line]
    BY <2>4 DEF At
  <2>6. n \in Definitions /\ At(n).name = symbols[p].name /\ At(n).kind = symbols[p].kind /\ At(n).end = symbols[p].end
    BY <2>3, <2>4, <2>5 DEF Definitions, IsSymbol, Named
  <2> QED
    BY <2>6 DEF n
<1>8. ASSUME NEW n \in Definitions
      PROVE  \E p \in 1 .. Len(symbols) : Place(symbols[p]) = n
  <2>1. n \in Node /\ Named(source[n[1]], n[2], SymbolKinds)
    BY DEF Definitions, At, Named
  <2> QED
    BY <1>6, <2>1
<1> QED
  BY <1>6, <1>7, <1>8

-----------------------------------------------------------------------------
(***************************************************************************)
(* What find_references, get_call_graph and the dead code say.             *)
(***************************************************************************)

\* The types of the references of the call graph.
LEMMA RefPlaces ==
  ASSUME TablesInv
  PROVE  refs \in Seq(RefType) /\ DOMAIN refs = 1 .. Len(refs) /\ Len(refs) \in Nat
<1> DEFINE T == RefType
<1>1. refs \in Seq(T)
  BY RefsAre
<1> HIDE DEF T
<1>2. DOMAIN refs = 1 .. Len(refs) /\ Len(refs) \in Nat
  BY <1>1
<1> QED
  BY <1>1, <1>2 DEF T

\* The references that are told apart by a property of their nodes.
LEMMA ListedAre ==
  ASSUME TablesInv, NEW set, NEW there \in SUBSET References,
         \A p \in 1 .. Len(refs) : refs[p] \in set <=> Place(refs[p]) \in there
  PROVE  /\ Len(Only(refs, set)) = Cardinality(there)
         /\ \A r \in ToSet(Only(refs, set)) :
              /\ Place(r) \in there /\ At(Place(r)).name = r.symbol /\ Enclosing(Place(r)) = r.caller
         /\ \A n \in there : \E r \in ToSet(Only(refs, set)) : Place(r) = n
<1> DEFINE places == {k \in 1 .. Len(refs) : refs[k] \in set}
           f == [k \in places |-> Place(refs[k])]
<1>1. refs \in Seq(RefType) /\ DOMAIN refs = 1 .. Len(refs) /\ Len(refs) \in Nat
  BY RefPlaces
<1>2. \A p \in 1 .. Len(refs) :
        /\ Place(refs[p]) \in References
        /\ At(Place(refs[p])).name = refs[p].symbol
        /\ Enclosing(Place(refs[p])) = refs[p].caller
  BY RefsAre
<1>3. \A p, q \in 1 .. Len(refs) : Place(refs[p]) = Place(refs[q]) => p = q
  BY RefsAre
<1>4. \A n \in References : \E p \in 1 .. Len(refs) : Place(refs[p]) = n
  BY RefsAre
<1>5. Len(Only(refs, set)) = Cardinality(places)
  BY <1>1, OnlyCount
<1>6. ToSet(Only(refs, set)) = ToSet(refs) \cap set
  BY <1>1, OnlySet
<1>7. f \in Bijection(places, there)
  <2>1. f \in [places -> there]
    OBVIOUS
  <2>2. \A k, l \in places : f[k] = f[l] => k = l
    BY <1>3
  <2>3. \A n \in there : \E k \in places : f[k] = n
    BY <1>4
  <2> HIDE DEF f, places
  <2> QED
    BY <2>1, <2>2, <2>3 DEF Bijection, Injection, Surjection, IsInjective
<1>8. IsFiniteSet(places)
  <2>1. IsFiniteSet(1 .. Len(refs)) /\ places \subseteq 1 .. Len(refs)
    BY <1>1, FS_Interval
  <2> QED
    BY <2>1, FS_Subset
<1>9. Cardinality(there) = Cardinality(places)
  <2> HIDE DEF f, places
  <2>1. ExistsBijection(places, there)
    BY <1>7 DEF ExistsBijection
  <2> QED
    BY <1>8, <2>1, FS_Bijection
<1>10. ASSUME NEW r \in ToSet(Only(refs, set))
       PROVE  Place(r) \in there /\ At(Place(r)).name = r.symbol /\ Enclosing(Place(r)) = r.caller
  <2>1. PICK p \in 1 .. Len(refs) : r = refs[p]
    BY <1>1, <1>6 DEF ToSet
  <2> QED
    BY <1>2, <1>6, <2>1
<1>11. ASSUME NEW n \in there
       PROVE  \E r \in ToSet(Only(refs, set)) : Place(r) = n
  <2>1. PICK p \in 1 .. Len(refs) : Place(refs[p]) = n
    BY <1>4
  <2>2. refs[p] \in ToSet(refs) \cap set
    BY <1>1, <2>1 DEF ToSet
  <2> QED
    BY <1>6, <2>1, <2>2
<1> QED
  BY <1>5, <1>9, <1>10, <1>11

\* FindCallers: the places in all the files where the name is called.
LEMMA CallersExact ==
  ASSUME TablesInv, NEW name
  PROVE  LET there == {n \in References : At(n).name = name}
         IN /\ Len(FindCallers(refs, name)) = Cardinality(there)
            /\ {<<<<r.file, r.line>>, r.caller>> : r \in ToSet(FindCallers(refs, name))}
                 = {<<n, Enclosing(n)>> : n \in there}
<1> DEFINE there == {n \in References : At(n).name = name}
           set == {r \in ToSet(refs) : r.symbol = name}
           list == FindCallers(refs, name)
<1>1. \A p \in 1 .. Len(refs) : refs[p] \in set <=> Place(refs[p]) \in there
  <2>1. \A p \in 1 .. Len(refs) : refs[p] \in ToSet(refs)
    BY RefPlaces DEF ToSet
  <2>2. \A p \in 1 .. Len(refs) : Place(refs[p]) \in References /\ At(Place(refs[p])).name = refs[p].symbol
    BY RefsAre
  <2> QED
    BY <2>1, <2>2
<1>2. there \in SUBSET References /\ list = Only(refs, set)
  BY DEF FindCallers
<1> HIDE DEF there, set, list
<1>3. /\ Len(list) = Cardinality(there)
      /\ \A r \in ToSet(list) : Place(r) \in there /\ Enclosing(Place(r)) = r.caller
      /\ \A n \in there : \E r \in ToSet(list) : Place(r) = n
  BY <1>1, <1>2, ListedAre
<1>4. {<<Place(r), r.caller>> : r \in ToSet(list)} = {<<n, Enclosing(n)>> : n \in there}
  BY <1>3
<1> QED
  BY <1>3, <1>4 DEF Place, there, list

\* FindCallees: the places in all the files where a function calls something.
LEMMA CalleesExact ==
  ASSUME TablesInv, NEW name
  PROVE  LET there == {n \in References : Enclosing(n) = name}
         IN /\ Len(FindCallees(refs, name)) = Cardinality(there)
            /\ {<<<<r.file, r.line>>, r.symbol>> : r \in ToSet(FindCallees(refs, name))}
                 = {<<n, At(n).name>> : n \in there}
<1> DEFINE there == {n \in References : Enclosing(n) = name}
           set == {r \in ToSet(refs) : r.caller = name}
           list == FindCallees(refs, name)
<1>1. \A p \in 1 .. Len(refs) : refs[p] \in set <=> Place(refs[p]) \in there
  <2>1. \A p \in 1 .. Len(refs) : refs[p] \in ToSet(refs)
    BY RefPlaces DEF ToSet
  <2>2. \A p \in 1 .. Len(refs) : Place(refs[p]) \in References /\ Enclosing(Place(refs[p])) = refs[p].caller
    BY RefsAre
  <2> QED
    BY <2>1, <2>2
<1>2. there \in SUBSET References /\ list = Only(refs, set)
  BY DEF FindCallees
<1> HIDE DEF there, set, list
<1>3. /\ Len(list) = Cardinality(there)
      /\ \A r \in ToSet(list) : Place(r) \in there /\ At(Place(r)).name = r.symbol
      /\ \A n \in there : \E r \in ToSet(list) : Place(r) = n
  BY <1>1, <1>2, ListedAre
<1>4. {<<Place(r), r.symbol>> : r \in ToSet(list)} = {<<n, At(n).name>> : n \in there}
  BY <1>3
<1> QED
  BY <1>3, <1>4 DEF Place, there, list

\* FindDeadCode: nothing it reports is called in any file.
LEMMA DeadExact ==
  ASSUME TablesInv, NEW s \in FindDeadCode(refs, symbols, EntryPoints)
  PROVE  s.name \notin EntryPoints /\ \A n \in References : At(n).name # s.name
<1>1. s.name \notin EntryPoints /\ FindCallers(refs, s.name) = <<>>
  BY DEF FindDeadCode, HasCallers
<1>2. {<<<<r.file, r.line>>, r.caller>> : r \in ToSet(FindCallers(refs, s.name))}
        = {<<n, Enclosing(n)>> : n \in {m \in References : At(m).name = s.name}}
  BY CallersExact
<1>3. ToSet(FindCallers(refs, s.name)) = {}
  BY <1>1 DEF ToSet
<1>4. {m \in References : At(m).name = s.name} = {}
  <2> DEFINE there == {m \in References : At(m).name = s.name}
  <2>1. {<<n, Enclosing(n)>> : n \in there} = {}
    BY <1>2, <1>3
  <2> HIDE DEF there
  <2>2. there = {}
    BY <2>1
  <2> QED
    BY <2>2 DEF there
<1> QED
  BY <1>1, <1>4

\* All but the answer.
tables == <<registered, source, disk, symbols, refs>>

\* The tools a property speaks of, and what answers them.
Called ==
  /\ answer'.tool = "code_search" => CodeSearch
  /\ answer'.tool = "get_symbol_source" => GetSymbolSource
  /\ answer'.tool = "find_references" => FindReferences
  /\ answer'.tool = "get_call_graph" => GetCallGraph
  /\ answer'.tool = "smart_lookup" => SmartLookup
  /\ answer'.tool = "budget_search" => BudgetSearch
  /\ answer'.tool = "blast_radius" => BlastRadius
  /\ answer'.tool = "dead_code" => DeadCode
  /\ answer'.tool = "page_rank" => Ranks
  /\ answer'.tool = "changed_symbols" => ChangedSymbols \/ DiffFails

\* A step that leaves an answer is a tool's, and changes no table.
LEMMA Asked ==
  ASSUME [Next]_vars, answer' # None
  PROVE  UNCHANGED vars \/ (UNCHANGED tables /\ Called)
<1>1. CASE UNCHANGED vars
  BY <1>1, Zenon
<1>2. ASSUME NEW f \in ToSet(Files), Edit(f)
      PROVE  FALSE
  BY <1>2 DEF Edit
<1>3. CASE StopIndexer
  BY <1>3 DEF StopIndexer
<1>4. CASE Refused
  <2>1. UNCHANGED tables /\ answer'.tool = "any"
    BY <1>4 DEF Refused, Answer, tables
  <2> QED
    BY <2>1 DEF Called
<1>5. CASE CodeSearch
  <2>1. \E argument, result : Answers("code_search", argument, result)
    BY <1>5, Zenon DEF CodeSearch
  <2>2. UNCHANGED tables /\ answer'.tool = "code_search"
    BY <2>1 DEF Answers, Answer, tables
  <2> QED
    BY <1>5, <2>2 DEF Called
<1>6. CASE GetSymbolSource
  <2>1. \E argument, status, result : Answer("get_symbol_source", argument, status, result)
    BY <1>6, Zenon DEF GetSymbolSource
  <2>2. UNCHANGED tables /\ answer'.tool = "get_symbol_source"
    BY <2>1 DEF Answer, tables
  <2> QED
    BY <1>6, <2>2 DEF Called
<1>7. CASE GetFileSymbols
  <2>1. \E argument, result : Answers("get_file_symbols", argument, result)
    BY <1>7, Zenon DEF GetFileSymbols
  <2>2. UNCHANGED tables /\ answer'.tool = "get_file_symbols"
    BY <2>1 DEF Answers, Answer, tables
  <2> QED
    BY <1>7, <2>2 DEF Called
<1>8. CASE FindReferences
  <2>1. \E argument, result : Answers("find_references", argument, result)
    BY <1>8, Zenon DEF FindReferences
  <2>2. UNCHANGED tables /\ answer'.tool = "find_references"
    BY <2>1 DEF Answers, Answer, tables
  <2> QED
    BY <1>8, <2>2 DEF Called
<1>9. CASE GetCallGraph
  <2>1. \E argument, result : Answers("get_call_graph", argument, result)
    BY <1>9, Zenon DEF GetCallGraph
  <2>2. UNCHANGED tables /\ answer'.tool = "get_call_graph"
    BY <2>1 DEF Answers, Answer, tables
  <2> QED
    BY <1>9, <2>2 DEF Called
<1>10. CASE SmartLookup
  <2>1. \E argument, result : Answers("smart_lookup", argument, result)
    BY <1>10, Zenon DEF SmartLookup
  <2>2. UNCHANGED tables /\ answer'.tool = "smart_lookup"
    BY <2>1 DEF Answers, Answer, tables
  <2> QED
    BY <1>10, <2>2 DEF Called
<1>11. CASE BudgetSearch
  <2>1. \E argument, result : Answers("budget_search", argument, result)
    BY <1>11, Zenon DEF BudgetSearch
  <2>2. UNCHANGED tables /\ answer'.tool = "budget_search"
    BY <2>1 DEF Answers, Answer, tables
  <2> QED
    BY <1>11, <2>2 DEF Called
<1>12. CASE BlastRadius
  <2>1. \E argument, result : Answers("blast_radius", argument, result)
    BY <1>12, Zenon DEF BlastRadius
  <2>2. UNCHANGED tables /\ answer'.tool = "blast_radius"
    BY <2>1 DEF Answers, Answer, tables
  <2> QED
    BY <1>12, <2>2 DEF Called
<1>13. CASE DeadCode
  <2>1. \E argument, result : Answers("dead_code", argument, result)
    BY <1>13, Zenon DEF DeadCode
  <2>2. UNCHANGED tables /\ answer'.tool = "dead_code"
    BY <2>1 DEF Answers, Answer, tables
  <2> QED
    BY <1>13, <2>2 DEF Called
<1>14. CASE Ranks
  <2>1. \E argument, result : Answers("page_rank", argument, result)
    BY <1>14, Zenon DEF Ranks
  <2>2. UNCHANGED tables /\ answer'.tool = "page_rank"
    BY <2>1 DEF Answers, Answer, tables
  <2> QED
    BY <1>14, <2>2 DEF Called
<1>15. CASE SymbolCentrality
  <2>1. \E argument, result : Answers("centrality", argument, result)
    BY <1>15, Zenon DEF SymbolCentrality
  <2>2. UNCHANGED tables /\ answer'.tool = "centrality"
    BY <2>1 DEF Answers, Answer, tables
  <2> QED
    BY <1>15, <2>2 DEF Called
<1>16. CASE ChangedSymbols
  <2>1. \E argument, result : Answers("changed_symbols", argument, result)
    BY <1>16, Zenon DEF ChangedSymbols
  <2>2. UNCHANGED tables /\ answer'.tool = "changed_symbols"
    BY <2>1 DEF Answers, Answer, tables
  <2> QED
    BY <1>16, <2>2 DEF Called
<1>17. CASE DiffFails
  <2>1. \E argument, status, result : Answer("changed_symbols", argument, status, result)
    BY <1>17 DEF DiffFails, Answers
  <2>2. UNCHANGED tables /\ answer'.tool = "changed_symbols"
    BY <2>1 DEF Answer, tables
  <2> QED
    BY <1>17, <2>2 DEF Called
<1>18. CASE Answered
  BY <1>18 DEF Answered
<1> QED
  BY <1>1, <1>2, <1>3, <1>4, <1>5, <1>6, <1>7, <1>8, <1>9, <1>10, <1>11, <1>12, <1>13, <1>14,
     <1>15, <1>16, <1>17, <1>18 DEF Next

\* The tables stay as built, but for the files themselves.
LEMMA TablesStep ==
  ASSUME TablesInv, [Next]_vars
  PROVE  TablesInv'
<1>1. ASSUME NEW f \in ToSet(Files), Edit(f)
      PROVE  TablesInv'
  <2>1. source' = source /\ symbols' = symbols /\ refs' = refs
    BY <1>1 DEF Edit
  <2>2. PICK tree \in Edits : disk' = [disk EXCEPT ![f] = tree]
    BY <1>1 DEF Edit
  <2>3. tree = Missing \/ IsTree(tree)
    BY ConstantsAssumption
  <2>4. DOMAIN disk' = ToSet(Files) /\ \A g \in ToSet(Files) : disk'[g] = Missing \/ IsTree(disk'[g])
    BY <2>2, <2>3 DEF TablesInv
  <2> QED
    BY <2>1, <2>4 DEF TablesInv, SymbolsOf, RefsOf
<1>2. CASE StopIndexer
  BY <1>2 DEF StopIndexer, TablesInv, SymbolsOf, RefsOf
<1>3. CASE UNCHANGED tables
  BY <1>3 DEF tables, TablesInv, SymbolsOf, RefsOf
<1>4. CASE Answered
  BY <1>3, <1>4 DEF Answered, tables
<1>5. CASE UNCHANGED vars
  BY <1>3, <1>5 DEF vars, tables
<1>6. CASE Refused \/ CodeSearch \/ GetSymbolSource \/ GetFileSymbols
  BY <1>3, <1>6 DEF tables, Answers, Answer, Refused, CodeSearch, GetSymbolSource, GetFileSymbols
<1>7. CASE FindReferences \/ GetCallGraph \/ SmartLookup \/ BudgetSearch \/ BlastRadius
  BY <1>3, <1>7 DEF tables, Answers, Answer, FindReferences, GetCallGraph, SmartLookup, BudgetSearch,
                    BlastRadius
<1>8. CASE DeadCode \/ Ranks \/ SymbolCentrality \/ ChangedSymbols \/ DiffFails
  BY <1>3, <1>8 DEF tables, Answers, Answer, DeadCode, Ranks, SymbolCentrality, ChangedSymbols, DiffFails
<1> QED
  BY <1>1, <1>2, <1>4, <1>5, <1>6, <1>7, <1>8 DEF Next

\* A build leaves the tables the invariant describes.
LEMMA TablesInit ==
  ASSUME Init
  PROVE  TablesInv /\ answer = None
BY ConstantsAssumption DEF Init, TablesInv

\* The tables stay as built, in every reachable state: the step that all the
\* theorems below start from.
THEOREM TablesStay == Spec => []TablesInv
<1>1. Init => TablesInv
  BY TablesInit
<1>2. TablesInv /\ [Next]_vars => TablesInv'
  BY TablesStep
<1> QED
  BY <1>1, <1>2, PTL DEF Spec

\* The tables and the syntax trees correspond one to one: a symbol is at its
\* definition, with its name, its kind and its end, a reference at its call, with the name
\* and the innermost named function or type around it.
TablesExact ==
  /\ {Place(s) : s \in ToSet(symbols)} = Definitions
  /\ \A p \in 1 .. Len(symbols) :
       LET n == Place(symbols[p])
       IN At(n).name = symbols[p].name /\ At(n).kind = symbols[p].kind /\ At(n).end = symbols[p].end
  /\ \A p, q \in 1 .. Len(symbols) : Place(symbols[p]) = Place(symbols[q]) => p = q
  /\ {Place(r) : r \in ToSet(refs)} = References
  /\ \A p \in 1 .. Len(refs) :
       LET n == Place(refs[p])
       IN At(n).name = refs[p].symbol /\ At(n).kind = refs[p].kind /\ Enclosing(n) = refs[p].caller
  /\ \A p, q \in 1 .. Len(refs) : Place(refs[p]) = Place(refs[q]) => p = q

\* Whatever the files, and in whichever order a build takes their symbols, the
\* tables have each definition and each call of each syntax tree once: the scope
\* that walkNode passes down is the innermost named function or type around
\* (walkNode, extractSymbolFromNode, extractRefFromNode, AddReference).
THEOREM TablesAreExact == Spec => []TablesExact
<1>1. ASSUME TablesInv
      PROVE  TablesExact
  <2> DEFINE ST == SymbolType
             RT == RefType
  <2>1. /\ symbols \in Seq(ST)
        /\ \A p \in 1 .. Len(symbols) : Place(symbols[p]) \in Definitions
        /\ \A n \in Definitions : \E p \in 1 .. Len(symbols) : Place(symbols[p]) = n
    BY <1>1, SymbolsAre
  <2>2. /\ refs \in Seq(RT)
        /\ \A p \in 1 .. Len(refs) : Place(refs[p]) \in References
        /\ \A n \in References : \E p \in 1 .. Len(refs) : Place(refs[p]) = n
    BY <1>1, RefsAre
  <2> HIDE DEF ST, RT
  <2>3. {Place(s) : s \in ToSet(symbols)} = Definitions
    <3>1. DOMAIN symbols = 1 .. Len(symbols)
      BY <2>1
    <3> QED
      BY <2>1, <3>1 DEF ToSet
  <2>4. {Place(r) : r \in ToSet(refs)} = References
    <3>1. DOMAIN refs = 1 .. Len(refs)
      BY <2>2
    <3> QED
      BY <2>2, <3>1 DEF ToSet
  <2>5. /\ \A p \in 1 .. Len(symbols) :
             /\ At(Place(symbols[p])).name = symbols[p].name
             /\ At(Place(symbols[p])).kind = symbols[p].kind
             /\ At(Place(symbols[p])).end = symbols[p].end
        /\ \A p, q \in 1 .. Len(symbols) : Place(symbols[p]) = Place(symbols[q]) => p = q
    BY <1>1, SymbolsAre
  <2>6. /\ \A p \in 1 .. Len(refs) :
             /\ At(Place(refs[p])).name = refs[p].symbol
             /\ At(Place(refs[p])).kind = refs[p].kind
             /\ Enclosing(Place(refs[p])) = refs[p].caller
        /\ \A p, q \in 1 .. Len(refs) : Place(refs[p]) = Place(refs[q]) => p = q
    BY <1>1, RefsAre
  <2> QED
    BY <2>3, <2>4, <2>5, <2>6 DEF TablesExact
<1> QED
  BY <1>1, TablesStay, PTL

\* find_references and get_call_graph answer with exactly the places where
\* the name is called, or that its functions call, each once and with the
\* innermost named function or type around it, and what is reported as dead
\* code is called nowhere (FindCallers, FindCallees, FindDeadCode).
THEOREM ReferencesFound == Spec => []ReferencesExact
<1>1. Init => ReferencesExact
  BY TablesInit DEF ReferencesExact, Is
<1>2. ASSUME TablesInv, ReferencesExact, [Next]_vars
      PROVE  ReferencesExact'
  <2> SUFFICES ASSUME answer' # None
               PROVE  ReferencesExact'
    BY DEF ReferencesExact, Is
  <2>1. CASE UNCHANGED vars
    <3>1. answer' = answer /\ source' = source
      BY <2>1 DEF vars
    <3>2. References' = References
      BY <3>1 DEF References, Node, At
    <3> QED
      BY <1>2, <3>1, <3>2 DEF ReferencesExact, Is, At, Enclosing
  <2>2. CASE UNCHANGED tables /\ Called
    <3>1. source' = source
      BY <2>2 DEF tables
    <3>2. References' = References
      BY <3>1 DEF References, Node, At
    <3>3. ASSUME answer'.tool = "find_references"
          PROVE  ReferencesExact'
      <4>1. PICK name \in Names :
              answer' = [tool |-> "find_references", argument |-> name, status |-> "ok",
                         result |-> FindCallers(refs, name)]
        BY <2>2, <3>3 DEF Called, FindReferences, Answers, Answer
      <4>2. answer'.argument = name /\ answer'.result = FindCallers(refs, name)
        BY <4>1
      <4>3. LET there == {n \in References : At(n).name = name}
            IN /\ Len(FindCallers(refs, name)) = Cardinality(there)
               /\ {<<<<r.file, r.line>>, r.caller>> : r \in ToSet(FindCallers(refs, name))}
                    = {<<n, Enclosing(n)>> : n \in there}
        BY <1>2, CallersExact
      <4> QED
        BY <3>1, <3>2, <3>3, <4>2, <4>3 DEF ReferencesExact, Is, At, Enclosing
    <3>4. ASSUME answer'.tool = "get_call_graph"
          PROVE  ReferencesExact'
      <4>1. PICK name \in Names :
              answer' = [tool |-> "get_call_graph", argument |-> name, status |-> "ok",
                         result |-> FindCallees(refs, name)]
        BY <2>2, <3>4 DEF Called, GetCallGraph, Answers, Answer
      <4>2. answer'.argument = name /\ answer'.result = FindCallees(refs, name)
        BY <4>1
      <4>3. LET there == {n \in References : Enclosing(n) = name}
            IN /\ Len(FindCallees(refs, name)) = Cardinality(there)
               /\ {<<<<r.file, r.line>>, r.symbol>> : r \in ToSet(FindCallees(refs, name))}
                    = {<<n, At(n).name>> : n \in there}
        BY <1>2, CalleesExact
      <4> QED
        BY <3>1, <3>2, <3>4, <4>2, <4>3 DEF ReferencesExact, Is, At, Enclosing
    <3>5. ASSUME answer'.tool = "dead_code"
          PROVE  ReferencesExact'
      <4>1. answer'.result = FindDeadCode(refs, symbols, EntryPoints)
        BY <2>2, <3>5 DEF Called, DeadCode, Answers, Answer
      <4>2. \A s \in FindDeadCode(refs, symbols, EntryPoints) :
              s.name \notin EntryPoints /\ \A n \in References : At(n).name # s.name
        BY <1>2, DeadExact
      <4> QED
        BY <3>1, <3>2, <3>5, <4>1, <4>2 DEF ReferencesExact, Is, At
    <3> QED
      BY <3>3, <3>4, <3>5 DEF ReferencesExact, Is
  <2> QED
    BY <1>2, <2>1, <2>2, Asked
<1> QED
  BY <1>1, <1>2, TablesStay, PTL DEF Spec

-----------------------------------------------------------------------------
(***************************************************************************)
(* What code_search and get_symbol_source find.                            *)
(***************************************************************************)

\* The types of the symbols of the index.
LEMMA SymbolPlaces ==
  ASSUME TablesInv
  PROVE  symbols \in Seq(SymbolType) /\ DOMAIN symbols = 1 .. Len(symbols) /\ Len(symbols) \in Nat
<1> DEFINE T == SymbolType
<1>1. symbols \in Seq(T)
  BY SymbolsAre
<1> HIDE DEF T
<1>2. DOMAIN symbols = 1 .. Len(symbols) /\ Len(symbols) \in Nat
  BY <1>1
<1> QED
  BY <1>1, <1>2 DEF T

\* Every definition has a document of its file and name.
LEMMA DocumentOf ==
  ASSUME TablesInv, NEW n \in Definitions
  PROVE  \E s \in Documents : s.file = n[1] /\ s.name = At(n).name
<1>1. DOMAIN symbols = 1 .. Len(symbols) /\ Len(symbols) \in Nat
  BY SymbolPlaces
<1>2. PICK p \in 1 .. Len(symbols) : Place(symbols[p]) = n
  BY SymbolsAre
<1>3. symbols[p].file = n[1] /\ symbols[p].name = At(n).name
  BY <1>2, SymbolsAre DEF Place
<1> DEFINE same == {k \in 1 .. Len(symbols) : DocID(symbols[k]) = DocID(symbols[p])}
           last == Max(same)
<1>4. last \in same /\ \A k \in same : k <= last
  <2>1. same \in SUBSET (0 .. Len(symbols)) /\ same # {}
    BY <1>1
  <2> HIDE DEF same
  <2> QED
    BY <1>1, <2>1, MaxIs
<1>5. last \in 1 .. Len(symbols) /\ DocID(symbols[last]) = DocID(symbols[p])
  BY <1>4
<1>6. \A k \in 1 .. Len(symbols) : k > last => DocID(symbols[k]) # DocID(symbols[last])
  <2> SUFFICES ASSUME NEW k \in 1 .. Len(symbols), k > last, DocID(symbols[k]) = DocID(symbols[last])
               PROVE  FALSE
    OBVIOUS
  <2>1. k \in same
    BY <1>5
  <2>2. k <= last /\ last \in 1 .. Len(symbols)
    BY <1>4, <1>5, <2>1
  <2> HIDE DEF last, same
  <2> QED
    BY <1>1, <2>2
<1> HIDE DEF last, same
<1>7. symbols[last] \in Documents
  BY <1>1, <1>5, <1>6 DEF Documents
<1>8. symbols[last].file = symbols[p].file /\ symbols[last].name = symbols[p].name
  BY <1>5 DEF DocID
<1> QED
  BY <1>3, <1>7, <1>8

\* What a search returns are symbols, and, unless the query is taken for an
\* expression, every one that matches.
LEMMA HitsAre ==
  ASSUME TablesInv, NEW query, NEW hits \in Rankings(query)
  PROVE  /\ hits \in Seq(ToSet(symbols))
         /\ query \notin Expressions => \A s \in Matching(query) : \E i \in 1 .. Len(hits) : hits[i] = s
<1> DEFINE S == ToSet(symbols)
<1>1. IsFiniteSet(S)
  <2>1. symbols \in Seq(SymbolType)
    BY SymbolPlaces
  <2> QED
    BY <2>1, ToSetFinite
<1>2. PICK found \in Found(query) : hits \in SetToSeqs(found)
  BY DEF Rankings
<1>3. found \subseteq Documents
  BY DEF Found, Matching, Containing
<1>4. found \subseteq S
  BY <1>3 DEF Documents, ToSet
<1>5. query \notin Expressions => Matching(query) \subseteq found
  BY DEF Found
<1> HIDE DEF S
<1>6. IsFiniteSet(found)
  BY <1>1, <1>4, FS_Subset
<1>7. hits \in Seq(found) /\ \A s \in found : \E i \in 1 .. Len(hits) : hits[i] = s
  BY <1>2, <1>6, SeqsAre
<1>8. hits \in Seq(S)
  BY <1>4, <1>7
<1> QED
  BY <1>5, <1>7, <1>8 DEF S

\* The first m of a sequence.
LEMMA SubSeqIs ==
  ASSUME NEW T, NEW s \in Seq(T), NEW m \in Nat, m <= Len(s)
  PROVE  /\ SubSeq(s, 1, m) \in Seq(T) /\ Len(SubSeq(s, 1, m)) = m /\ DOMAIN SubSeq(s, 1, m) = 1 .. m
         /\ \A i \in 1 .. m : SubSeq(s, 1, m)[i] = s[i]
OBVIOUS

\* Search: of a name the search index has, some definition in every file that
\* has one.
LEMMA SearchFinds ==
  ASSUME TablesInv, NEW query, query \notin StopWords \cup Expressions,
         NEW hits \in Rankings(query), NEW limit \in 1 .. 2,
         NEW result, result = SubSeq(hits, 1, Min({limit, Len(hits)})), Len(result) < limit
  PROVE  {n[1] : n \in {m \in Definitions : At(m).name = query}} \subseteq {s.file : s \in ToSet(result)}
<1> DEFINE F == ToSet(symbols)
<1>1. hits \in Seq(F) /\ \A s \in Matching(query) : \E i \in 1 .. Len(hits) : hits[i] = s
  BY HitsAre
<1> HIDE DEF F
<1>2. Len(hits) \in Nat /\ DOMAIN hits = 1 .. Len(hits)
  BY <1>1
<1> DEFINE m == Min({limit, Len(hits)})
<1>3. m \in {limit, Len(hits)} /\ m <= limit /\ m <= Len(hits)
  <2> DEFINE S == {limit, Len(hits)}
  <2>1. S \in SUBSET Nat /\ S # {} /\ limit \in S /\ Len(hits) \in S
    BY <1>2
  <2> HIDE DEF S
  <2>2. Min(S) \in S /\ \A k \in S : Min(S) <= k
    BY <2>1, MinIs
  <2> QED
    BY <2>1, <2>2 DEF S
<1>4. result = SubSeq(hits, 1, m)
  OBVIOUS
<1> HIDE DEF m
<1>5. m \in Nat /\ limit \in Nat
  <2>1. limit \in Nat
    OBVIOUS
  <2>2. m = limit \/ m = Len(hits)
    BY <1>3
  <2> QED
    BY <1>2, <2>1, <2>2
<1>6. Len(result) = m /\ DOMAIN result = 1 .. m /\ \A i \in 1 .. m : result[i] = hits[i]
  <2> HIDE DEF F
  <2>1. result = SubSeq(hits, 1, m) /\ hits \in Seq(F) /\ m \in Nat /\ m <= Len(hits)
    BY <1>1, <1>3, <1>4, <1>5
  <2>2. /\ Len(SubSeq(hits, 1, m)) = m /\ DOMAIN SubSeq(hits, 1, m) = 1 .. m
        /\ \A i \in 1 .. m : SubSeq(hits, 1, m)[i] = hits[i]
    BY <2>1, SubSeqIs
  <2> QED
    BY <2>1, <2>2
<1>7. m = Len(hits)
  <2>1. m = limit \/ m = Len(hits)
    BY <1>3
  <2>2. m < limit
    BY <1>6
  <2> QED
    BY <1>5, <2>1, <2>2
<1> SUFFICES ASSUME NEW n \in Definitions, At(n).name = query
             PROVE  n[1] \in {s.file : s \in ToSet(result)}
  OBVIOUS
<1>8. PICK s \in Documents : s.file = n[1] /\ s.name = query
  BY DocumentOf
<1>9. s \in Matching(query)
  <2>1. query # ""
    BY DEF Definitions
  <2> QED
    BY <1>8, <2>1 DEF Matching
<1>10. PICK i \in 1 .. Len(hits) : hits[i] = s
  BY <1>1, <1>9
<1>11. s \in ToSet(result)
  BY <1>6, <1>7, <1>10 DEF ToSet
<1> QED
  BY <1>8, <1>11

\* LookupSymbol: a definition of that name.
LEMMA LookupIs ==
  ASSUME TablesInv, NEW name, LookupSymbol(name) # <<>>
  PROVE  LookupSymbol(name)[1] \in ToSet(symbols) /\ LookupSymbol(name)[1].name = name
<1> DEFINE T == SymbolType
           set == {s \in ToSet(symbols) : s.name = name}
           defs == LookupSymbol(name)
<1>1. symbols \in Seq(T)
  BY SymbolPlaces
<1> HIDE DEF T
<1>2. defs = Only(symbols, set)
  BY DEF LookupSymbol
<1>3. defs \in Seq(T) /\ ToSet(defs) = ToSet(symbols) \cap set
  BY <1>1, <1>2, OnlyIs, OnlySet
<1> HIDE DEF defs
<1>4. defs # <<>>
  BY DEF defs
<1>5. defs[1] \in ToSet(defs)
  BY <1>3, <1>4 DEF ToSet
<1> QED
  BY <1>3, <1>5 DEF defs

\* The text has a line for each node.
LEMMA TextIs ==
  ASSUME NEW tree, IsTree(tree)
  PROVE  Len(Text(tree)) = Len(tree)
BY TreeLength DEF Text

\* GetSymbolContent: while the file is as it was indexed, the offsets kept with
\* the symbol cut out the text of its definition.
LEMMA SourceExact ==
  ASSUME TablesInv, disk = source, NEW d \in ToSet(symbols), disk[d.file] # Missing
  PROVE  /\ Readable(d)
         /\ \E n \in Definitions : At(n).name = d.name /\ SymbolContent(d) = Listing(source[n[1]], n[2])
<1>1. PICK p \in 1 .. Len(symbols) : d = symbols[p]
  BY SymbolPlaces DEF ToSet
<1> DEFINE n == Place(d)
<1>2. n \in Definitions /\ At(n).name = d.name /\ At(n).end = d.end
  BY <1>1, SymbolsAre
<1>3. n[1] = d.file /\ n[2] = d.line
  BY DEF Place
<1> HIDE DEF n
<1> DEFINE tree == source[d.file]
<1>4. n \in Node /\ n[1] \in ToSet(Files) /\ n[2] \in 1 .. Len(source[n[1]])
  BY <1>2, NodesAre DEF Definitions
<1>5. IsTree(tree)
  BY <1>3, <1>4, SourceType
<1>6. At(n) = tree[d.line] /\ d.line \in 1 .. Len(tree)
  BY <1>3, <1>4 DEF At
<1> HIDE DEF tree
<1>7. tree[d.line].end \in d.line .. Len(tree) /\ Len(tree) \in Nat
  BY <1>5, <1>6, NodeType
<1>8. d.end = tree[d.line].end /\ d.end <= Len(tree)
  BY <1>2, <1>6, <1>7
<1>9. Content(d.file) = Text(tree)
  BY DEF Content, tree
<1>10. Readable(d)
  BY <1>5, <1>8, <1>9, TextIs DEF Readable
<1>11. SymbolContent(d) = Listing(tree, d.line)
  BY <1>8, <1>9 DEF SymbolContent, EndOffset, Listing
<1> QED
  BY <1>2, <1>3, <1>10, <1>11 DEF tree

\* As long as bleve does not fail, code_search finds a name that is no stop word
\* and no expression of the query language in each file that defines it, as far
\* as the limit goes; and get_symbol_source gives the whole text of a definition
\* of any name while the file is as indexed (Search, GetSymbolContent).
THEOREM DefinitionsAreFound == Spec => []DefinitionsFound
<1>1. Init => DefinitionsFound
  BY TablesInit DEF DefinitionsFound, Is
<1>2. ASSUME TablesInv, DefinitionsFound, [Next]_vars
      PROVE  DefinitionsFound'
  <2> SUFFICES ASSUME answer' # None
               PROVE  DefinitionsFound'
    BY DEF DefinitionsFound, Is
  <2>1. CASE UNCHANGED vars
    <3>1. answer' = answer /\ source' = source /\ disk' = disk
      BY <2>1 DEF vars
    <3>2. Definitions' = Definitions
      BY <3>1 DEF Definitions, Node, At
    <3> QED
      BY <1>2, <3>1, <3>2 DEF DefinitionsFound, Is, At
  <2>2. CASE UNCHANGED tables /\ Called
    <3>1. source' = source /\ disk' = disk
      BY <2>2 DEF tables
    <3>2. Definitions' = Definitions
      BY <3>1 DEF Definitions, Node, At
    <3>3. ASSUME answer'.tool = "code_search"
          PROVE  DefinitionsFound'
      <4>1. PICK query \in Names \cup {""}, limit \in 1 .. 2 :
              \/ \E hits \in Rankings(query) :
                   Answers("code_search", <<query, limit, FALSE>>, SubSeq(hits, 1, Min({limit, Len(hits)})))
              \/ Answers("code_search", <<query, limit, TRUE>>, NoHits)
        BY <2>2, <3>3, Zenon DEF Called, CodeSearch
      <4>2. CASE Answers("code_search", <<query, limit, TRUE>>, NoHits)
        <5>1. answer'.argument[3] = TRUE
          BY <4>2 DEF Answers, Answer
        <5> QED
          BY <3>3, <5>1 DEF DefinitionsFound, Is
      <4>3. ASSUME NEW hits \in Rankings(query),
                   Answers("code_search", <<query, limit, FALSE>>, SubSeq(hits, 1, Min({limit, Len(hits)})))
            PROVE  DefinitionsFound'
        <5> DEFINE result == SubSeq(hits, 1, Min({limit, Len(hits)}))
        <5>1. answer'.argument[1] = query /\ answer'.argument[2] = limit /\ answer'.result = result
          BY <4>3 DEF Answers, Answer
        <5>2. query \notin StopWords \cup Expressions /\ Len(result) < limit =>
                {n[1] : n \in {m \in Definitions : At(m).name = query}} \subseteq {s.file : s \in ToSet(result)}
          BY <1>2, SearchFinds
        <5> HIDE DEF result
        <5> QED
          BY <3>1, <3>2, <3>3, <5>1, <5>2 DEF DefinitionsFound, Is, At
      <4> QED
        BY <4>1, <4>2, <4>3, Zenon
    <3>4. ASSUME answer'.tool = "get_symbol_source", answer'.status = "ok", disk = source
          PROVE  DefinitionsFound'
      <4>1. PICK name \in Names :
              /\ LookupSymbol(name) # <<>> /\ disk[LookupSymbol(name)[1].file] # Missing
              /\ answer'.argument = name
              /\ Readable(LookupSymbol(name)[1]) => answer'.result = SymbolContent(LookupSymbol(name)[1])
        <5>1. GetSymbolSource
          BY <2>2, <3>4 DEF Called
        <5>2. PICK name \in Names :
                LET defs == LookupSymbol(name) IN
                IF defs = <<>> THEN Answer("get_symbol_source", name, "not_found", <<>>)
                ELSE IF disk[defs[1].file] = Missing THEN Answer("get_symbol_source", name, "failed", <<>>)
                ELSE Answer("get_symbol_source", name, "ok",
                            IF Readable(defs[1]) THEN SymbolContent(defs[1])
                            ELSE SubSeq(Content(defs[1].file), defs[1].line, Len(Content(defs[1].file))))
          BY <5>1, Zenon DEF GetSymbolSource
        <5> DEFINE defs == LookupSymbol(name)
        <5> HIDE DEF defs
        <5>3. defs # <<>>
          <6>1. defs = <<>> => Answer("get_symbol_source", name, "not_found", <<>>)
            BY <5>2, Zenon DEF defs
          <6>2. ~Answer("get_symbol_source", name, "not_found", <<>>)
            BY <3>4 DEF Answer
          <6> QED
            BY <6>1, <6>2, Zenon
        <5>4. disk[defs[1].file] # Missing
          <6>1. disk[defs[1].file] = Missing => Answer("get_symbol_source", name, "failed", <<>>)
            BY <5>2, <5>3, Zenon DEF defs
          <6>2. ~Answer("get_symbol_source", name, "failed", <<>>)
            BY <3>4 DEF Answer
          <6> QED
            BY <6>1, <6>2, Zenon
        <5>5. Answer("get_symbol_source", name, "ok",
                     IF Readable(defs[1]) THEN SymbolContent(defs[1])
                     ELSE SubSeq(Content(defs[1].file), defs[1].line, Len(Content(defs[1].file))))
          BY <5>2, <5>3, <5>4, Zenon DEF defs
        <5>6. /\ answer'.argument = name
              /\ Readable(defs[1]) => answer'.result = SymbolContent(defs[1])
          BY <5>5 DEF Answer
        <5> QED
          BY <5>3, <5>4, <5>6 DEF defs
      <4> DEFINE d == LookupSymbol(name)[1]
      <4>2. d \in ToSet(symbols) /\ d.name = name
        BY <1>2, <4>1, LookupIs
      <4> HIDE DEF d
      <4>3. /\ Readable(d)
            /\ \E n \in Definitions : At(n).name = d.name /\ SymbolContent(d) = Listing(source[n[1]], n[2])
        BY <1>2, <3>4, <4>1, <4>2, SourceExact DEF d
      <4>4. answer'.result = SymbolContent(d)
        BY <4>1, <4>3 DEF d
      <4> QED
        BY <3>1, <3>2, <3>4, <4>1, <4>2, <4>3, <4>4 DEF DefinitionsFound, Is, At
    <3> QED
      BY <3>1, <3>3, <3>4 DEF DefinitionsFound, Is
  <2> QED
    BY <1>2, <2>1, <2>2, Asked
<1> QED
  BY <1>1, <1>2, TablesStay, PTL DEF Spec

-----------------------------------------------------------------------------
(***************************************************************************)
(* What the token budgets leave.                                           *)
(***************************************************************************)

\* The lines of a text.
LineType == [kind : Kinds, name : STRING]

\* The type of the lines of a text.
LEMMA TextType ==
  ASSUME NEW tree, IsTree(tree)
  PROVE  Text(tree) \in Seq(LineType)
<1>1. Len(tree) \in Nat /\ DOMAIN tree = 1 .. Len(tree)
  BY TreeLength
<1>2. \A i \in 1 .. Len(tree) : [kind |-> tree[i].kind, name |-> tree[i].name] \in LineType
  BY NodeType DEF LineType
<1> HIDE DEF LineType
<1> QED
  BY <1>1, <1>2 DEF Text

\* A product of numbers that are not 0.
LEMMA Positive ==
  ASSUME NEW a \in Nat \ {0}, NEW b \in Nat \ {0}
  PROVE  a * b \in Nat \ {0}
OBVIOUS

\* A symbol that can be read has a text, which costs at least one token.
LEMMA TokensAre ==
  ASSUME TablesInv, NEW s \in ToSet(symbols), Readable(s)
  PROVE  ContentTokens(s) \in Nat \ {0}
<1>1. PICK p \in 1 .. Len(symbols) : s = symbols[p]
  BY SymbolPlaces DEF ToSet
<1> DEFINE n == Place(s)
<1>2. n \in Definitions /\ At(n).end = s.end
  BY <1>1, SymbolsAre
<1>3. n[1] = s.file /\ n[2] = s.line
  BY DEF Place
<1> HIDE DEF n
<1>4. n \in Node /\ n[1] \in ToSet(Files) /\ n[2] \in 1 .. Len(source[n[1]])
  BY <1>2, NodesAre DEF Definitions
<1>5. s.end \in s.line .. Len(source[s.file]) /\ s.line \in 1 .. Len(source[s.file])
      /\ Len(source[s.file]) \in Nat
  BY <1>2, <1>3, <1>4, SourceType, NodeType DEF At
<1>6. IsTree(disk[s.file])
  BY <1>3, <1>4 DEF TablesInv, Readable
<1> DEFINE content == Content(s.file)
<1>7. content \in Seq(LineType)
  BY <1>6, TextType DEF Content
<1> HIDE DEF content
<1>8. s.end <= Len(content)
  BY DEF Readable, content
<1> DEFINE text == SubSeq(content, s.line, s.end)
<1>9. Len(text) \in Nat \ {0}
  <2> DEFINE T == LineType
             i == s.line
             j == s.end
  <2>1. content \in Seq(T) /\ i \in Nat /\ j \in Nat /\ 1 <= i /\ i <= j /\ j <= Len(content)
    BY <1>5, <1>7, <1>8
  <2> HIDE DEF T, i, j, text
  <2>2. Len(SubSeq(content, i, j)) = j - i + 1
    BY <2>1
  <2> QED
    BY <2>1, <2>2 DEF text, i, j
<1>10. SymbolContent(s) = text
  BY DEF SymbolContent, EndOffset, content
<1> HIDE DEF text
<1> DEFINE bytes == NodeBytes * Len(text)
<1>11. bytes \in Nat \ {0}
  BY <1>9, Positive, ConstantsAssumption
<1>12. ContentTokens(s) = (bytes + 3) \div 4
  BY <1>10 DEF ContentTokens, EstimateTokens
<1> HIDE DEF bytes
<1> QED
  BY <1>11, <1>12

-----------------------------------------------------------------------------
(***************************************************************************)
(* smart_lookup.                                                           *)
(***************************************************************************)
\* The parts of Related: the places of the first call of each name.
CalledFirst(callees) ==
  Only([i \in DOMAIN callees |-> i],
       {i \in DOMAIN callees : \A j \in 1 .. i - 1 : callees[j].symbol # callees[i].symbol})

\* Nothing, or something that fits.
RelatedStates(budget) ==
  {r \in [symbols : Seq(ToSet(symbols)), tokens : Nat] :
     IF r.symbols = <<>> THEN r.tokens = 0 ELSE r.tokens >= 1 /\ r.tokens <= budget}

\* And what one of them adds.
AddRelated(related, callee, budget) ==
  LET defs == LookupSymbol(callee.symbol) IN
  IF defs = <<>> \/ ~Readable(defs[1]) \/ related.tokens + ContentTokens(defs[1]) > budget
    THEN related
    ELSE [symbols |-> Append(related.symbols, defs[1]),
          tokens |-> related.tokens + ContentTokens(defs[1])]

\* One more callee: what is there still fits in the budget of related symbols.
LEMMA AddRelatedIs ==
  ASSUME TablesInv, NEW budget \in Int, NEW r \in RelatedStates(budget), NEW callee
  PROVE  AddRelated(r, callee, budget) \in RelatedStates(budget)
<1> DEFINE defs == LookupSymbol(callee.symbol)
           d == defs[1]
           t == ContentTokens(d)
           S == ToSet(symbols)
<1>1. CASE defs = <<>> \/ ~Readable(d) \/ r.tokens + t > budget
  BY <1>1 DEF AddRelated
<1>2. CASE ~(defs = <<>> \/ ~Readable(d) \/ r.tokens + t > budget)
  <2>1. d \in S /\ Readable(d)
    BY <1>2, LookupIs
  <2>2. t \in Nat \ {0}
    BY <2>1, TokensAre
  <2>3. ~(r.tokens + t > budget)
    BY <1>2
  <2>4. AddRelated(r, callee, budget) = [symbols |-> Append(r.symbols, d), tokens |-> r.tokens + t]
    BY <1>2 DEF AddRelated
  <2> HIDE DEF S, t, d, defs
  <2>5. r.symbols \in Seq(S) /\ r.tokens \in Nat
    BY DEF RelatedStates, S
  <2>6. Append(r.symbols, d) \in Seq(S) /\ Append(r.symbols, d) # <<>>
    BY <2>1, <2>5
  <2>7. r.tokens + t \in Nat /\ r.tokens + t >= 1 /\ r.tokens + t <= budget
    BY <2>2, <2>3, <2>5
  <2> QED
    BY <2>4, <2>6, <2>7 DEF RelatedStates, S
<1> QED
  BY <1>1, <1>2

\* The places of the callees that are the first of their name.
LEMMA CalledFirstIs ==
  ASSUME NEW callees, NEW T, callees \in Seq(T)
  PROVE  CalledFirst(callees) \in Seq(1 .. Len(callees)) /\ Len(CalledFirst(callees)) \in Nat
         /\ DOMAIN CalledFirst(callees) = 1 .. Len(CalledFirst(callees))
<1> DEFINE N == 1 .. Len(callees)
           seq == [i \in DOMAIN callees |-> i]
<1>1. DOMAIN callees = N /\ Len(callees) \in Nat
  OBVIOUS
<1>2. seq \in Seq(N)
  BY <1>1
<1> HIDE DEF N, seq
<1>3. CalledFirst(callees) \in Seq(N)
  BY <1>2, OnlyIs DEF CalledFirst, seq
<1>4. Len(CalledFirst(callees)) \in Nat /\ DOMAIN CalledFirst(callees) = 1 .. Len(CalledFirst(callees))
  BY <1>3
<1> QED
  BY <1>3, <1>4 DEF N

\* The callees are references of the call graph.
LEMMA CalleesType ==
  ASSUME TablesInv, NEW caller
  PROVE  FindCallees(refs, caller) \in Seq(RefType)
BY RefPlaces, OnlyIs DEF FindCallees

\* What Related comes to is nothing, or fits.
LEMMA RelatedIs ==
  ASSUME TablesInv, NEW symbol, NEW budget \in Int
  PROVE  \E last \in RelatedStates(budget) : Related(symbol, budget) = last
<1> DEFINE n == Len(CalledFirst(FindCallees(refs, symbol.name)))
           A == RelatedStates(budget)
           base == [symbols |-> <<>>, tokens |-> 0]
           Op(a, k) == AddRelated(a, FindCallees(refs, symbol.name)[CalledFirst(FindCallees(refs, symbol.name))[k]], budget)
           step == [p \in A \X (1 .. n) |-> Op(p[1], p[2])]
           Eq(h) == [s \in SUBSET (1 .. n) |-> IF s = {} THEN base ELSE Op(h[s \ {Max(s)}], Max(s))]
           iter == CHOOSE h : h = Eq(h)
<1>1. DOMAIN CalledFirst(FindCallees(refs, symbol.name)) = 1 .. n
  BY CalleesType, CalledFirstIs
<1>2. n \in Nat /\ base \in A
  BY CalleesType, CalledFirstIs DEF RelatedStates
<1>3. ASSUME NEW a \in A, NEW k \in 1 .. n
      PROVE  Op(a, k) \in A
  BY AddRelatedIs
<1>4. Related(symbol, budget) = iter[1 .. n]
  BY <1>1 DEF Related, CalledFirst, AddRelated, FoldLeft, MapThenFoldSet
<1> HIDE DEF n, A, base, Op
<1>5. step \in Steps(A, n)
  BY <1>3 DEF Steps
<1>6. \A a \in A, k \in 1 .. n : step[<<a, k>>] = Op(a, k)
  OBVIOUS
<1>7. \A s \in SUBSET (1 .. n) : s # {} => Max(s) \in 1 .. n
  BY <1>2, MaxIs, \A s \in SUBSET (1 .. n) : s \in SUBSET (0 .. n)
<1> HIDE DEF step
<1>8. PICK g \in [SUBSET (1 .. n) -> A] : IsFold(g, n, A, base, step)
  BY <1>2, <1>5, FoldExists
<1>9. g = Eq(g)
  BY <1>6, <1>7, <1>8, \A s \in SUBSET (1 .. n) : s \ {Max(s)} \in SUBSET (1 .. n) DEF IsFold
<1>10. iter = Eq(iter)
  BY <1>9
<1> HIDE DEF iter
<1>11. IsFold(iter, n, A, base, step)
  BY <1>6, <1>7, <1>10 DEF IsFold
<1>12. PICK run : IsRun(run, n, A, base, step) /\ iter[1 .. n] = run[n]
  BY <1>2, <1>5, <1>11, RunOf
<1>13. run[n] \in A
  BY <1>2, <1>12 DEF IsRun
<1> QED
  BY <1>4, <1>12, <1>13 DEF A

\* The bundles, and what they hold of symbols and tokens.
BundleType == [primary : ToSet(symbols), related : Seq(ToSet(symbols)), tokens : Nat]

\* What the bundles cost.
Sizes(bundles) == [i \in DOMAIN bundles |-> bundles[i].tokens]

\* Within the budget, or one symbol alone, and full.
Packed(p, budget) ==
  /\ p \in [bundles : Seq(BundleType), used : Nat, full : BOOLEAN]
  /\ p.used = Total(Sizes(p.bundles))
  /\ p.bundles = <<>> => p.used = 0
  /\ p.used <= budget \/ (p.full /\ Len(p.bundles) = 1 /\ p.bundles[1].related = <<>>)

\* The states of the search with context, and what one hit adds.
ContextStates(budget) ==
  {p \in [bundles : Seq(BundleType), used : Nat, full : BOOLEAN] : Packed(p, budget)}

AddBundle(packed, s, budget) ==
  IF packed.full \/ ~Readable(s) THEN packed
  ELSE IF packed.used + ContentTokens(s) > budget /\ packed.bundles # <<>>
    THEN [packed EXCEPT !.full = TRUE]
  ELSE LET bundle == Bundle(s, budget, packed.used)
       IN [bundles |-> Append(packed.bundles, bundle), used |-> packed.used + bundle.tokens,
           full |-> packed.used + bundle.tokens >= budget]

\* A sum and one more.
LEMMA TotalAppend ==
  ASSUME NEW s \in Seq(Int), NEW x \in Int
  PROVE  Total(Append(s, x)) = Total(s) + x /\ Total(s) \in Int
<1> DEFINE t == Append(s, x)
           n == Len(s)
<1>1. /\ t \in Seq(Int) /\ Len(t) = n + 1 /\ n \in Nat
      /\ \A i \in 1 .. n : t[i] = s[i] /\ s[i] \in Int
      /\ t[n + 1] = x
  BY AppendIs
<1> HIDE DEF t
<1>2. PICK a : TotalRun(a, s)
  BY TotalRunExists
<1>3. PICK b : TotalRun(b, t)
  BY <1>1, TotalRunExists
<1>4. /\ a \in [0 .. n -> Int] /\ a[0] = 0 /\ \A k \in 1 .. n : a[k] = a[k - 1] + s[k]
      /\ Total(s) = a[n]
  BY <1>2 DEF TotalRun
<1>5. /\ b[0] = 0 /\ \A k \in 1 .. n + 1 : b[k] = b[k - 1] + t[k]
      /\ Total(t) = b[n + 1]
  BY <1>1, <1>3 DEF TotalRun
<1> HIDE DEF n
<1> DEFINE Good == {k \in 0 .. n : b[k] = a[k]}
<1>6. 0 \in Good
  BY <1>1, <1>4, <1>5
<1>7. ASSUME NEW k \in 1 .. n, k - 1 \in Good
      PROVE  k \in Good
  <2>1. k \in 1 .. n + 1 /\ k \in 0 .. n
    BY <1>1
  <2> QED
    BY <1>1, <1>4, <1>5, <1>7, <2>1
<1> HIDE DEF Good
<1>8. n \in Good
  <2>1. \A k \in 0 .. n : k \in Good
    BY <1>1, <1>6, <1>7, InductionTo
  <2> QED
    BY <1>1, <2>1
<1>9. b[n + 1] = b[n + 1 - 1] + t[n + 1]
  BY <1>1, <1>5, n + 1 \in 1 .. n + 1
<1> QED
  BY <1>1, <1>4, <1>5, <1>8, <1>9, n + 1 - 1 = n, n \in 0 .. n DEF Good, t

\* The sum of nothing.
LEMMA TotalNothing == Total(<<>>) = 0
<1>1. <<>> \in Seq(Int) /\ Len(<<>>) = 0
  OBVIOUS
<1>2. PICK a : TotalRun(a, <<>>)
  BY <1>1, TotalRunExists
<1> QED
  BY <1>1, <1>2 DEF TotalRun

\* One more bundle, one more size.
LEMMA SizesAppend ==
  ASSUME NEW T, NEW bundles \in Seq(T), NEW b \in T, \A t \in T : t.tokens \in Nat
  PROVE  Sizes(bundles) \in Seq(Int) /\ Sizes(Append(bundles, b)) = Append(Sizes(bundles), b.tokens)
<1>1. /\ Append(bundles, b) \in Seq(T) /\ Len(Append(bundles, b)) = Len(bundles) + 1 /\ Len(bundles) \in Nat
      /\ \A i \in 1 .. Len(bundles) : Append(bundles, b)[i] = bundles[i] /\ bundles[i] \in T
      /\ Append(bundles, b)[Len(bundles) + 1] = b
  BY AppendIs
<1> DEFINE n == Len(bundles)
           new == Append(bundles, b)
<1>2. DOMAIN bundles = 1 .. n /\ DOMAIN new = 1 .. n + 1
  BY <1>1
<1> HIDE DEF new, n
<1>3. Sizes(bundles) = [i \in 1 .. n |-> bundles[i].tokens] /\ \A i \in 1 .. n : bundles[i].tokens \in Int
  BY <1>1, <1>2 DEF Sizes, n
<1>4. n \in Nat
  BY <1>1 DEF n
<1>5. Sizes(bundles) \in Seq(Int) /\ Len(Sizes(bundles)) = n
  BY <1>3, <1>4
<1>6. Sizes(new) = [i \in 1 .. n + 1 |-> new[i].tokens]
  BY <1>2 DEF Sizes
<1>7. \A i \in 1 .. n + 1 : new[i].tokens = IF i = n + 1 THEN b.tokens ELSE Sizes(bundles)[i]
  BY <1>1, <1>3, <1>4 DEF n, new
<1>8. Append(Sizes(bundles), b.tokens) = [i \in 1 .. n + 1 |-> IF i = n + 1 THEN b.tokens ELSE Sizes(bundles)[i]]
  <2> DEFINE z == Sizes(bundles)
             x == b.tokens
  <2>1. z \in Seq(Int) /\ Len(z) = n /\ x \in Int
    BY <1>5
  <2> HIDE DEF z, x
  <2>2. Append(z, x) = [i \in 1 .. n + 1 |-> IF i = n + 1 THEN x ELSE z[i]]
    <3> DEFINE y == Append(z, x)
               w == [i \in 1 .. n + 1 |-> IF i = n + 1 THEN x ELSE z[i]]
    <3>1. /\ y \in Seq(Int) /\ Len(y) = n + 1 /\ \A i \in 1 .. n : y[i] = z[i]
          /\ y[n + 1] = x
      BY <2>1, AppendIs
    <3> HIDE DEF y
    <3>2. y = [i \in 1 .. n + 1 |-> y[i]]
      BY <1>4, <3>1
    <3>3. \A i \in 1 .. n + 1 : y[i] = IF i = n + 1 THEN x ELSE z[i]
      BY <1>4, <3>1
    <3> QED
      BY <3>2, <3>3 DEF y
  <2> QED
    BY <2>2 DEF z, x
<1> QED
  BY <1>5, <1>6, <1>7, <1>8 DEF new

\* A bundle stays within what is left, or is the symbol alone.
LEMMA BundleIs ==
  ASSUME TablesInv, NEW s \in ToSet(symbols), Readable(s), NEW budget \in Nat, NEW used \in Nat
  PROVE  /\ Bundle(s, budget, used) \in BundleType
         /\ \/ used + Bundle(s, budget, used).tokens <= budget
            \/ /\ used + ContentTokens(s) > budget
               /\ Bundle(s, budget, used).related = <<>>
               /\ Bundle(s, budget, used).tokens = ContentTokens(s)
<1> DEFINE t == ContentTokens(s)
           left == RelatedBudget(budget, used, t)
           related == Related(s, left)
           bundle == Bundle(s, budget, used)
           S == ToSet(symbols)
<1>1. t \in Nat \ {0}
  BY TokensAre
<1> HIDE DEF t
<1>2. left \in Int /\ IF budget - used - t < 0 THEN left <= 0 ELSE left <= budget - used - t
  BY <1>1 DEF RelatedBudget
<1> HIDE DEF left
<1>3. \E last \in RelatedStates(left) : related = last
  BY <1>2, RelatedIs
<1>4. related \in RelatedStates(left)
  BY <1>3
<1>5. bundle = [primary |-> s, related |-> related.symbols, tokens |-> t + related.tokens]
  BY DEF Bundle, left, t
<1> HIDE DEF related, bundle
<1>6. /\ related.symbols \in Seq(S) /\ related.tokens \in Nat
      /\ IF related.symbols = <<>> THEN related.tokens = 0 ELSE related.tokens >= 1 /\ related.tokens <= left
  BY <1>4 DEF RelatedStates
<1>7. bundle \in BundleType
  BY <1>1, <1>5, <1>6 DEF BundleType
<1>8. bundle.related = related.symbols /\ bundle.tokens = t + related.tokens
  BY <1>5
<1>9. \/ used + bundle.tokens <= budget
      \/ used + t > budget /\ bundle.related = <<>> /\ bundle.tokens = t
  BY <1>1, <1>2, <1>6, <1>8
<1> QED
  BY <1>7, <1>9 DEF bundle, t

\* One more hit: the bundles stay within the budget, or there is but the first,
\* which has nothing related.
LEMMA AddBundleIs ==
  ASSUME TablesInv, NEW budget \in Nat, NEW p \in ContextStates(budget), NEW s \in ToSet(symbols)
  PROVE  AddBundle(p, s, budget) \in ContextStates(budget)
<1> DEFINE S == [bundles : Seq(BundleType), used : Nat, full : BOOLEAN]
           q == AddBundle(p, s, budget)
<1>1. /\ p \in S /\ p.bundles \in Seq(BundleType) /\ p.used \in Nat /\ p.full \in BOOLEAN
      /\ p.used = Total(Sizes(p.bundles))
      /\ p.bundles = <<>> => p.used = 0
      /\ p.used <= budget \/ (p.full /\ Len(p.bundles) = 1 /\ p.bundles[1].related = <<>>)
      /\ p = [bundles |-> p.bundles, used |-> p.used, full |-> p.full]
  BY DEF ContextStates, Packed
<1>2. CASE p.full \/ ~Readable(s)
  BY <1>2 DEF AddBundle
<1>3. CASE ~(p.full \/ ~Readable(s)) /\ p.used + ContentTokens(s) > budget /\ p.bundles # <<>>
  <2>1. q = [bundles |-> p.bundles, used |-> p.used, full |-> TRUE]
    BY <1>1, <1>3 DEF AddBundle
  <2> HIDE DEF q
  <2>2. q \in S /\ q.bundles = p.bundles /\ q.used = p.used /\ q.full = TRUE
    BY <1>1, <2>1
  <2> QED
    BY <1>1, <2>2 DEF ContextStates, Packed, q
<1> HIDE DEF S
<1>4. CASE ~(p.full \/ ~Readable(s)) /\ ~(p.used + ContentTokens(s) > budget /\ p.bundles # <<>>)
  <2> DEFINE b == Bundle(s, budget, p.used)
             t == ContentTokens(s)
  <2>1. q = [bundles |-> Append(p.bundles, b), used |-> p.used + b.tokens, full |-> p.used + b.tokens >= budget]
    BY <1>4, Zenon DEF AddBundle
  <2>2. t \in Nat
    BY <1>4, TokensAre
  <2>3. /\ b \in BundleType
        /\ \/ p.used + b.tokens <= budget
           \/ p.used + t > budget /\ b.related = <<>> /\ b.tokens = t
    BY <1>1, <1>4, BundleIs
  <2>4. p.used + t > budget => p.bundles = <<>>
    BY <1>4
  <2> HIDE DEF b, q, t
  <2>5. b.tokens \in Nat
    BY <2>3 DEF BundleType
  <2> DEFINE T == BundleType
             old == p.bundles
             new == Append(old, b)
  <2>6. \A x \in T : x.tokens \in Nat
    BY DEF BundleType
  <2>7. old \in Seq(T) /\ b \in T
    BY <1>1, <2>3
  <2> HIDE DEF T, old
  <2>8. new \in Seq(T) /\ new # <<>> /\ Len(new) = Len(old) + 1 /\ new[Len(old) + 1] = b
    BY <2>7, AppendIs
  <2>9. Sizes(old) \in Seq(Int) /\ Sizes(new) = Append(Sizes(old), b.tokens)
    BY <2>6, <2>7, SizesAppend
  <2>10. Total(Sizes(new)) = Total(Sizes(old)) + b.tokens
    <3> DEFINE sizes == Sizes(old)
               x == b.tokens
    <3>1. sizes \in Seq(Int) /\ x \in Int /\ Sizes(new) = Append(sizes, x)
      BY <2>5, <2>9
    <3> HIDE DEF sizes, x
    <3>2. Total(Append(sizes, x)) = Total(sizes) + x
      BY <3>1, TotalAppend
    <3> QED
      BY <3>1, <3>2 DEF sizes, x
  <2> HIDE DEF new
  <2>11. /\ q.bundles = new /\ q.used = p.used + b.tokens /\ q.full = (p.used + b.tokens >= budget)
         /\ q.used \in Nat /\ q \in S
    BY <1>1, <2>1, <2>5, <2>8 DEF new, old, T, S
  <2>12. q.used = Total(Sizes(q.bundles))
    BY <1>1, <2>10, <2>11 DEF old
  <2>13. q.used <= budget \/ (q.full /\ Len(q.bundles) = 1 /\ q.bundles[1].related = <<>>)
    <3>1. CASE p.used + b.tokens <= budget
      BY <2>11, <3>1
    <3>2. CASE ~(p.used + b.tokens <= budget)
      <4>1. old = <<>> /\ b.related = <<>>
        BY <2>3, <2>4, <3>2 DEF old
      <4>2. Len(old) = 0 /\ Len(new) = 1 /\ new[1] = b
        BY <2>8, <4>1
      <4>3. q.full
        <5>1. p.used + b.tokens >= budget
          BY <1>1, <2>5, <3>2
        <5> QED
          BY <2>11, <5>1, Zenon
      <4> QED
        BY <2>11, <4>1, <4>2, <4>3
    <3> QED
      BY <3>1, <3>2
  <2> QED
    BY <2>8, <2>11, <2>12, <2>13 DEF ContextStates, Packed, q, S
<1> QED
  BY <1>2, <1>3, <1>4

\* What the search with context begins with.
LEMMA NothingPacked ==
  ASSUME NEW budget \in Nat
  PROVE  [bundles |-> <<>>, used |-> 0, full |-> FALSE] \in ContextStates(budget)
<1>1. Sizes(<<>>) = <<>>
  BY DEF Sizes
<1> DEFINE p == [bundles |-> <<>>, used |-> 0, full |-> FALSE]
           B == BundleType
<1>2. p \in [bundles : Seq(B), used : Nat, full : BOOLEAN] /\ p.bundles = <<>> /\ p.used = 0
  OBVIOUS
<1> HIDE DEF p
<1>3. Packed(p, budget)
  BY <1>1, <1>2, TotalNothing DEF Packed, B
<1> QED
  BY <1>2, <1>3 DEF ContextStates, p, B

\* What smart_lookup returns.
LEMMA ContextIs ==
  ASSUME TablesInv, NEW hits \in Seq(ToSet(symbols)), NEW budget \in Nat
  PROVE  \E last \in ContextStates(budget) : SearchWithContext(hits, budget) = last.bundles
<1> DEFINE n == Len(hits)
           A == ContextStates(budget)
           base == [bundles |-> <<>>, used |-> 0, full |-> FALSE]
           Op(a, k) == AddBundle(a, hits[k], budget)
           step == [p \in A \X (1 .. n) |-> Op(p[1], p[2])]
           Eq(h) == [s \in SUBSET (1 .. n) |-> IF s = {} THEN base ELSE Op(h[s \ {Max(s)}], Max(s))]
           iter == CHOOSE h : h = Eq(h)
<1>1. n \in Nat /\ base \in A
  BY NothingPacked
<1>2. ASSUME NEW a \in A, NEW k \in 1 .. n
      PROVE  Op(a, k) \in A
  <2>1. hits[k] \in ToSet(symbols)
    <3> DEFINE S == ToSet(symbols)
    <3>1. hits \in Seq(S)
      OBVIOUS
    <3> HIDE DEF S
    <3> QED
      BY <3>1, SeqElement DEF S
  <2> QED
    BY <2>1, AddBundleIs
<1>3. SearchWithContext(hits, budget) = iter[1 .. n].bundles
  BY DOMAIN hits = 1 .. n DEF SearchWithContext, AddBundle, FoldLeft, MapThenFoldSet
<1> HIDE DEF n, A, base, Op
<1>4. step \in Steps(A, n)
  BY <1>2 DEF Steps
<1>5. \A a \in A, k \in 1 .. n : step[<<a, k>>] = Op(a, k)
  OBVIOUS
<1>6. \A s \in SUBSET (1 .. n) : s # {} => Max(s) \in 1 .. n
  BY <1>1, MaxIs, \A s \in SUBSET (1 .. n) : s \in SUBSET (0 .. n)
<1> HIDE DEF step
<1>7. PICK g \in [SUBSET (1 .. n) -> A] : IsFold(g, n, A, base, step)
  BY <1>1, <1>4, FoldExists
<1>8. g = Eq(g)
  BY <1>5, <1>6, <1>7, \A s \in SUBSET (1 .. n) : s \ {Max(s)} \in SUBSET (1 .. n) DEF IsFold
<1>9. iter = Eq(iter)
  BY <1>8
<1> HIDE DEF iter
<1>10. IsFold(iter, n, A, base, step)
  BY <1>5, <1>6, <1>9 DEF IsFold
<1>11. PICK run : IsRun(run, n, A, base, step) /\ iter[1 .. n] = run[n]
  BY <1>1, <1>4, <1>10, RunOf
<1>12. run[n] \in A
  BY <1>1, <1>11 DEF IsRun
<1> QED
  BY <1>3, <1>11, <1>12 DEF A

\* SearchWithContext: the bundles stay within the budget, or there is but one.
LEMMA ContextKept ==
  ASSUME TablesInv, NEW hits \in Seq(ToSet(symbols)), NEW budget \in Nat
  PROVE  LET bundles == SearchWithContext(hits, budget)
         IN \/ Total([i \in DOMAIN bundles |-> bundles[i].tokens]) <= budget
            \/ Len(bundles) = 1 /\ bundles[1].related = <<>>
<1>1. PICK last \in ContextStates(budget) : SearchWithContext(hits, budget) = last.bundles
  BY ContextIs
<1> QED
  BY <1>1 DEF ContextStates, Packed, Sizes

\* What is kept of a prefix is a prefix of what is kept.
LEMMA OnlyPrefix ==
  ASSUME NEW T, NEW seq \in Seq(T), NEW set, NEW run, OnlyRun(run, T, seq, set)
  PROVE  \A k \in 0 .. Len(seq) :
           /\ Len(run[k]) <= Len(Only(seq, set))
           /\ \A i \in 1 .. Len(run[k]) : run[k][i] = Only(seq, set)[i]
<1> DEFINE n == Len(seq)
           Prefix(r, s) == Len(r) <= Len(s) /\ \A i \in 1 .. Len(r) : r[i] = s[i]
           Good == {m \in 0 .. n : \A k \in 0 .. m : Prefix(run[k], run[m])}
<1>1. /\ run \in [0 .. n -> Seq(T)]
      /\ \A k \in 1 .. n : run[k] = IF seq[k] \in set THEN Append(run[k - 1], seq[k]) ELSE run[k - 1]
      /\ Only(seq, set) = run[n]
      /\ n \in Nat /\ \A k \in 1 .. n : seq[k] \in T
  BY DEF OnlyRun
<1>2. \A k \in 0 .. n : run[k] \in Seq(T) /\ Len(run[k]) \in Nat
  <2> DEFINE Q == Seq(T)
  <2>1. \A k \in 0 .. n : run[k] \in Q
    BY <1>1
  <2>2. \A q \in Q : Len(q) \in Nat
    OBVIOUS
  <2> HIDE DEF Q
  <2> QED
    BY <2>1, <2>2 DEF Q
<1> HIDE DEF n
<1>3. 0 \in Good
  BY <1>1, <1>2
<1>4. ASSUME NEW m \in 1 .. n, m - 1 \in Good
      PROVE  m \in Good
  <2>1. m - 1 \in 0 .. n /\ m \in 0 .. n
    BY <1>1
  <2>2. Prefix(run[m - 1], run[m])
    <3> DEFINE r == run[m - 1]
    <3>1. r \in Seq(T) /\ Len(r) \in Nat /\ seq[m] \in T
      BY <1>1, <1>2, <2>1
    <3>2. run[m] = r \/ run[m] = Append(r, seq[m])
      BY <1>1
    <3> HIDE DEF r
    <3>3. Len(Append(r, seq[m])) = Len(r) + 1 /\ \A i \in 1 .. Len(r) : Append(r, seq[m])[i] = r[i]
      BY <3>1, AppendIs
    <3>4. Prefix(r, run[m])
      BY <3>1, <3>2, <3>3
    <3> QED
      BY <3>4 DEF r
  <2>3. ASSUME NEW k \in 0 .. m
        PROVE  Prefix(run[k], run[m])
    <3>1. CASE k = m
      BY <1>2, <2>1, <3>1
    <3>2. CASE k # m
      <4>1. k \in 0 .. m - 1
        BY <3>2
      <4>2. Prefix(run[k], run[m - 1])
        BY <1>4, <4>1
      <4>3. Len(run[k]) \in Nat /\ Len(run[m - 1]) \in Nat /\ Len(run[m]) \in Nat
        BY <1>2, <2>1, <4>1
      <4> QED
        BY <2>2, <4>2, <4>3
    <3> QED
      BY <3>1, <3>2
  <2> QED
    BY <2>1, <2>3
<1>5. n \in Good
  <2> HIDE DEF Good
  <2>1. \A m \in 0 .. n : m \in Good
    BY <1>1, <1>3, <1>4, InductionTo
  <2> QED
    BY <1>1, <2>1
<1> QED
  BY <1>1, <1>5 DEF n

-----------------------------------------------------------------------------
(***************************************************************************)
(* A search with a budget.                                                 *)
(***************************************************************************)
\* The hits that can be read, and what the first n cost.
Readables == {s \in ToSet(symbols) : Readable(s)}

TokensOf(readable, n) == Total([i \in 1 .. n |-> ContentTokens(readable[i])])

\* What the first n readable hits cost, one after the other.
LEMMA TokensAdd ==
  ASSUME TablesInv, NEW readable \in Seq(Readables)
  PROVE  /\ TokensOf(readable, 0) = 0
         /\ \A n \in 0 .. Len(readable) : TokensOf(readable, n) \in Int
         /\ \A n \in 1 .. Len(readable) :
              /\ ContentTokens(readable[n]) \in Nat \ {0}
              /\ TokensOf(readable, n) = TokensOf(readable, n - 1) + ContentTokens(readable[n])
<1> DEFINE c == [i \in 1 .. Len(readable) |-> ContentTokens(readable[i])]
           S == Readables
<1>1. Len(readable) \in Nat /\ \A i \in 1 .. Len(readable) : readable[i] \in S
  <2> HIDE DEF S
  <2>1. readable \in Seq(S)
    BY DEF S
  <2> QED
    BY <2>1
<1>2. \A i \in 1 .. Len(readable) : ContentTokens(readable[i]) \in Nat \ {0}
  BY <1>1, TokensAre DEF Readables
<1>3. TokensOf(readable, 0) = 0
  <2>1. [i \in 1 .. 0 |-> ContentTokens(readable[i])] = <<>>
    OBVIOUS
  <2> QED
    BY <2>1, TotalNothing DEF TokensOf
<1> DEFINE f(n) == [i \in 1 .. n |-> ContentTokens(readable[i])]
<1>4. ASSUME NEW n \in 0 .. Len(readable)
      PROVE  f(n) \in Seq(Int) /\ Len(f(n)) = n
  <2>1. n \in Nat /\ \A i \in 1 .. n : ContentTokens(readable[i]) \in Int
    BY <1>1, <1>2
  <2> QED
    BY <2>1
<1>5. ASSUME NEW n \in 1 .. Len(readable)
      PROVE  f(n) = Append(f(n - 1), ContentTokens(readable[n]))
  <2> DEFINE m == n - 1
             x == ContentTokens(readable[n])
             z == f(m)
             y == Append(z, x)
  <2>1. m \in 0 .. Len(readable) /\ m \in Nat /\ m + 1 = n /\ x \in Int
    BY <1>1, <1>2
  <2>2. z \in Seq(Int) /\ Len(z) = m /\ \A i \in 1 .. m : z[i] = ContentTokens(readable[i])
    BY <1>4, <2>1
  <2> HIDE DEF m, x, z
  <2>3. /\ y \in Seq(Int) /\ Len(y) = m + 1 /\ \A i \in 1 .. m : y[i] = z[i]
        /\ y[m + 1] = x
    BY <2>1, <2>2, AppendIs
  <2> HIDE DEF y
  <2>4. y = [i \in 1 .. m + 1 |-> y[i]]
    BY <2>1, <2>3
  <2>5. \A i \in 1 .. m + 1 : y[i] = ContentTokens(readable[i])
    <3> SUFFICES ASSUME NEW i \in 1 .. m + 1
                 PROVE  y[i] = ContentTokens(readable[i])
      OBVIOUS
    <3>1. CASE i = m + 1
      BY <2>1, <2>3, <3>1 DEF x
    <3>2. CASE i # m + 1
      BY <2>1, <2>2, <2>3, <3>2, i \in 1 .. m
    <3> QED
      BY <3>1, <3>2
  <2>6. y = f(m + 1)
    BY <2>4, <2>5
  <2> QED
    BY <2>1, <2>6 DEF y, z, x, m
<1>6. \A n \in 0 .. Len(readable) : TokensOf(readable, n) = Total(f(n))
  BY DEF TokensOf
<1>7. ASSUME NEW n \in 1 .. Len(readable)
      PROVE  TokensOf(readable, n) = TokensOf(readable, n - 1) + ContentTokens(readable[n])
  <2>1. n - 1 \in 0 .. Len(readable) /\ n \in 0 .. Len(readable)
    BY <1>1
  <2>2. f(n - 1) \in Seq(Int) /\ ContentTokens(readable[n]) \in Int
    BY <1>2, <1>4, <2>1
  <2>3. Total(Append(f(n - 1), ContentTokens(readable[n]))) = Total(f(n - 1)) + ContentTokens(readable[n])
    <3> HIDE DEF f
    <3> QED
      BY <2>2, TotalAppend
  <2> QED
    BY <1>5, <1>6, <2>1, <2>3
<1>8. \A n \in 0 .. Len(readable) : TokensOf(readable, n) \in Int
  <2> SUFFICES ASSUME NEW n \in 0 .. Len(readable)
               PROVE  TokensOf(readable, n) \in Int
    OBVIOUS
  <2>1. f(n) \in Seq(Int)
    BY <1>4
  <2>2. Total(f(n)) \in Int
    <3> HIDE DEF f
    <3> QED
      BY <2>1, TotalAppend
  <2> QED
    BY <1>6, <2>2
<1> QED
  BY <1>2, <1>3, <1>7, <1>8

\* The states of the search with a budget.
ResultType == [symbol : ToSet(symbols), tokens : Nat]
PackedType == [results : Seq(ResultType), used : Nat, full : BOOLEAN]

\* Packing a hit keeps the types.
LEMMA PackKeepsType ==
  ASSUME TablesInv, NEW p \in PackedType, NEW s \in ToSet(symbols), NEW tokens \in Nat, NEW budget
  PROVE  Pack(p, s, tokens, budget) \in PackedType
<1> DEFINE R == ResultType
           x == [symbol |-> s, tokens |-> tokens]
<1>1. x \in R
  BY DEF ResultType
<1>2. p.results \in Seq(R) /\ p.used \in Nat /\ p.full \in BOOLEAN
      /\ p = [results |-> p.results, used |-> p.used, full |-> p.full]
  BY DEF PackedType
<1> HIDE DEF R, x
<1>3. <<x>> \in Seq(R) /\ Append(p.results, x) \in Seq(R)
  BY <1>1, <1>2, AppendIs, SingletonIs
<1>4. CASE p.full
  BY <1>4 DEF Pack
<1>5. CASE ~p.full /\ p.used + tokens > budget
  <2>1. Pack(p, s, tokens, budget) =
          [results |-> IF p.results = <<>> THEN <<x>> ELSE p.results, used |-> p.used, full |-> TRUE]
    BY <1>2, <1>5 DEF Pack, x
  <2> QED
    BY <1>2, <1>3, <2>1 DEF PackedType, R
<1>6. CASE ~p.full /\ ~(p.used + tokens > budget)
  <2>1. Pack(p, s, tokens, budget) =
          [results |-> Append(p.results, x), used |-> p.used + tokens, full |-> p.full]
    BY <1>2, <1>6 DEF Pack, x
  <2> QED
    BY <1>2, <1>3, <2>1 DEF PackedType, R
<1> QED
  BY <1>4, <1>5, <1>6

\* What SearchWithBudget goes through.
BudgetRun(run, hits, budget) ==
  /\ run \in [0 .. Len(hits) -> PackedType]
  /\ run[0] = [results |-> <<>>, used |-> 0, full |-> FALSE]
  /\ \A k \in 1 .. Len(hits) : run[k] = IF Readable(hits[k]) THEN Pack(run[k - 1], hits[k], ContentTokens(hits[k]), budget) ELSE run[k - 1]
  /\ SearchWithBudget(hits, budget) = run[Len(hits)].results

\* The run of a search with a budget.
LEMMA BudgetRunExists ==
  ASSUME TablesInv, NEW hits \in Seq(ToSet(symbols)), NEW budget
  PROVE  \E run : BudgetRun(run, hits, budget)
<1> DEFINE n == Len(hits)
           A == PackedType
           base == [results |-> <<>>, used |-> 0, full |-> FALSE]
           Op(a, k) == IF Readable(hits[k]) THEN Pack(a, hits[k], ContentTokens(hits[k]), budget) ELSE a
           step == [p \in A \X (1 .. n) |-> Op(p[1], p[2])]
           Eq(h) == [s \in SUBSET (1 .. n) |-> IF s = {} THEN base ELSE Op(h[s \ {Max(s)}], Max(s))]
           iter == CHOOSE h : h = Eq(h)
<1>1. n \in Nat /\ base \in A
  BY DEF PackedType
<1>2. ASSUME NEW a \in A, NEW k \in 1 .. n
      PROVE  Op(a, k) \in A
  <2>1. hits[k] \in ToSet(symbols)
    <3> DEFINE S == ToSet(symbols)
    <3>1. hits \in Seq(S)
      OBVIOUS
    <3> HIDE DEF S
    <3> QED
      BY <3>1, SeqElement DEF S
  <2>2. Readable(hits[k]) => ContentTokens(hits[k]) \in Nat
    BY <2>1, TokensAre
  <2> QED
    BY <2>1, <2>2, PackKeepsType
<1>3. SearchWithBudget(hits, budget) = iter[1 .. n].results
  BY DOMAIN hits = 1 .. n DEF SearchWithBudget, FoldLeft, MapThenFoldSet
<1> HIDE DEF n, A, base, Op
<1>4. step \in Steps(A, n)
  BY <1>2 DEF Steps
<1>5. \A a \in A, k \in 1 .. n : step[<<a, k>>] = Op(a, k)
  OBVIOUS
<1>6. \A s \in SUBSET (1 .. n) : s # {} => Max(s) \in 1 .. n
  BY <1>1, MaxIs, \A s \in SUBSET (1 .. n) : s \in SUBSET (0 .. n)
<1> HIDE DEF step
<1>7. PICK g \in [SUBSET (1 .. n) -> A] : IsFold(g, n, A, base, step)
  BY <1>1, <1>4, FoldExists
<1>8. g = Eq(g)
  BY <1>5, <1>6, <1>7, \A s \in SUBSET (1 .. n) : s \ {Max(s)} \in SUBSET (1 .. n) DEF IsFold
<1>9. iter = Eq(iter)
  BY <1>8
<1> HIDE DEF iter
<1>10. IsFold(iter, n, A, base, step)
  BY <1>5, <1>6, <1>9 DEF IsFold
<1>11. PICK run : IsRun(run, n, A, base, step) /\ iter[1 .. n] = run[n]
  BY <1>1, <1>4, <1>10, RunOf
<1>12. ASSUME NEW k \in 1 .. n
       PROVE  run[k] = Op(run[k - 1], k)
  BY <1>1, <1>5, <1>11, k - 1 \in 0 .. n DEF IsRun
<1>13. run \in [0 .. n -> A] /\ run[0] = base
  BY <1>11 DEF IsRun
<1>14. BudgetRun(run, hits, budget)
  BY <1>3, <1>11, <1>12, <1>13 DEF n, A, base, Op, BudgetRun
<1> QED
  BY <1>14

\* The search has taken the first readable hits, of l: all of them, or up to
\* one that does not fit.
BudgetInv(p, readable, l, budget) ==
  LET m == Len(p.results) IN
  /\ m <= l /\ l <= Len(readable)
  /\ \A i \in 1 .. m : p.results[i].symbol = readable[i]
  /\ ~p.full => m = l /\ p.used = TokensOf(readable, m) /\ p.used <= budget
  /\ p.full => \/ m = 1 /\ TokensOf(readable, 1) > budget
               \/ m >= 1 /\ m < l /\ TokensOf(readable, m) <= budget /\ TokensOf(readable, m + 1) > budget

\* Packing the next readable hit keeps the invariant of the search.
LEMMA PackIs ==
  ASSUME TablesInv, NEW readable \in Seq(Readables), NEW budget \in Nat, NEW p \in PackedType,
         NEW l \in Nat, l + 1 <= Len(readable), BudgetInv(p, readable, l, budget)
  PROVE  BudgetInv(Pack(p, readable[l + 1], ContentTokens(readable[l + 1]), budget), readable, l + 1, budget)
<1> DEFINE s == readable[l + 1]
           t == ContentTokens(s)
           x == [symbol |-> s, tokens |-> t]
           q == Pack(p, s, t, budget)
           m == Len(p.results)
           R == ResultType
           F(n) == TokensOf(readable, n)
<1>1. Len(readable) \in Nat
  <2> DEFINE S == Readables
  <2>1. readable \in Seq(S)
    OBVIOUS
  <2> HIDE DEF S
  <2> QED
    BY <2>1
<1>2. l + 1 \in 1 .. Len(readable) /\ l + 1 - 1 = l
  BY <1>1
<1>3. t \in Nat \ {0} /\ F(l + 1) = F(l) + t /\ F(l) \in Int /\ F(0) = 0
  BY <1>1, <1>2, TokensAdd, l \in 0 .. Len(readable)
<1>4. s \in ToSet(symbols)
  <2> DEFINE S == Readables
  <2>1. readable \in Seq(S)
    OBVIOUS
  <2> HIDE DEF S
  <2>2. s \in S
    BY <1>2, <2>1, SeqElement
  <2> QED
    BY <2>2 DEF S, Readables
<1>5. x \in R
  BY <1>3, <1>4 DEF ResultType
<1>6. p.results \in Seq(R) /\ p.used \in Nat /\ p.full \in BOOLEAN /\ m \in Nat
      /\ p = [results |-> p.results, used |-> p.used, full |-> p.full]
  <2>1. p.results \in Seq(R) /\ p.used \in Nat /\ p.full \in BOOLEAN
        /\ p = [results |-> p.results, used |-> p.used, full |-> p.full]
    BY DEF PackedType
  <2> HIDE DEF R
  <2> QED
    BY <2>1
<1>7. /\ m <= l /\ \A i \in 1 .. m : p.results[i].symbol = readable[i]
      /\ ~p.full => m = l /\ p.used = F(m) /\ p.used <= budget
      /\ p.full => \/ m = 1 /\ F(1) > budget
                   \/ m >= 1 /\ m < l /\ F(m) <= budget /\ F(m + 1) > budget
  BY DEF BudgetInv
<1>8. x.symbol = s
  OBVIOUS
<1> DEFINE k == Len(q.results)
<1>9. ASSUME k <= l + 1,
             \A i \in 1 .. k : q.results[i].symbol = readable[i],
             ~q.full => k = l + 1 /\ q.used = F(k) /\ q.used <= budget,
             q.full => \/ k = 1 /\ F(1) > budget
                       \/ k >= 1 /\ k < l + 1 /\ F(k) <= budget /\ F(k + 1) > budget
      PROVE  BudgetInv(q, readable, l + 1, budget)
  BY <1>9, Zenon DEF BudgetInv
<1> SUFFICES BudgetInv(q, readable, l + 1, budget)
  OBVIOUS
<1> HIDE DEF x, t, R, F, m
<1>10. CASE p.full
  <2>1. q = p
    BY <1>10 DEF Pack
  <2>2. k = m
    BY <2>1 DEF m
  <2> HIDE DEF q, k
  <2>3. k <= l + 1 /\ \A i \in 1 .. k : q.results[i].symbol = readable[i]
    BY <1>6, <1>7, <2>1, <2>2
  <2>4. \/ k = 1 /\ F(1) > budget
        \/ k >= 1 /\ k < l + 1 /\ F(k) <= budget /\ F(k + 1) > budget
    BY <1>6, <1>7, <1>10, <2>2
  <2> QED
    BY <1>9, <1>10, <2>1, <2>3, <2>4, Zenon DEF k
<1>11. CASE ~p.full /\ p.used + t > budget
  <2>1. q = [results |-> IF p.results = <<>> THEN <<x>> ELSE p.results, used |-> p.used, full |-> TRUE]
    BY <1>6, <1>11 DEF Pack, x
  <2> HIDE DEF q
  <2>2. q.results = (IF p.results = <<>> THEN <<x>> ELSE p.results) /\ q.full = TRUE /\ q.used = p.used
    BY <2>1
  <2>3. m = l /\ p.used = F(l)
    BY <1>7, <1>11
  <2>4. CASE p.results = <<>>
    <3>1. m = 0 /\ l = 0
      BY <2>3, <2>4 DEF m
    <3>2. q.results = <<x>> /\ Len(q.results) = 1 /\ q.results[1] = x
      BY <2>2, <2>4
    <3>3. F(1) > budget
      BY <1>3, <1>11, <2>3, <3>1
    <3>4. readable[1] = s
      BY <3>1
    <3>5. k = 1
      BY <3>2
    <3> HIDE DEF k
    <3>6. k <= l + 1 /\ \A i \in 1 .. k : q.results[i].symbol = readable[i]
      BY <1>8, <3>1, <3>2, <3>4, <3>5
    <3> QED
      BY <1>9, <2>2, <3>3, <3>5, <3>6, Zenon DEF k
  <2>5. CASE p.results # <<>>
    <3>1. q.results = p.results /\ m >= 1
      BY <1>6, <2>2, <2>5 DEF m
    <3>2. F(m + 1) > budget /\ F(m) <= budget
      BY <1>3, <1>7, <1>11, <2>3
    <3>3. k = m
      BY <3>1 DEF m
    <3> HIDE DEF k
    <3>4. k <= l + 1 /\ \A i \in 1 .. k : q.results[i].symbol = readable[i]
      BY <1>6, <1>7, <2>3, <3>1, <3>3
    <3>5. k >= 1 /\ k < l + 1 /\ F(k) <= budget /\ F(k + 1) > budget
      BY <2>3, <3>1, <3>2, <3>3
    <3> QED
      BY <1>9, <2>2, <3>4, <3>5, Zenon DEF k
  <2> QED
    BY <2>4, <2>5
<1>12. CASE ~p.full /\ ~(p.used + t > budget)
  <2>1. q = [results |-> Append(p.results, x), used |-> p.used + t, full |-> p.full]
    BY <1>6, <1>12 DEF Pack, x
  <2> HIDE DEF q
  <2>2. q.results = Append(p.results, x) /\ q.full = p.full /\ q.used = p.used + t
    BY <2>1
  <2> DEFINE old == p.results
  <2>3. old \in Seq(R) /\ Len(old) = m
    BY <1>6 DEF m
  <2> HIDE DEF old
  <2>4. Len(Append(old, x)) = m + 1 /\ (\A i \in 1 .. m : Append(old, x)[i] = old[i])
        /\ Append(old, x)[m + 1] = x
    BY <1>5, <2>3, AppendIs
  <2>5. Len(q.results) = m + 1 /\ (\A i \in 1 .. m : q.results[i] = p.results[i]) /\ q.results[m + 1] = x
    BY <2>2, <2>4 DEF old
  <2>6. m = l /\ p.used = F(l) /\ p.used <= budget
    BY <1>7, <1>12
  <2>7. q.used = F(l + 1) /\ q.used <= budget
    BY <1>3, <1>6, <1>12, <2>2, <2>6
  <2>8. \A i \in 1 .. m + 1 : q.results[i].symbol = readable[i]
    <3> SUFFICES ASSUME NEW i \in 1 .. m + 1
                 PROVE  q.results[i].symbol = readable[i]
      OBVIOUS
    <3>1. CASE i = m + 1
      BY <1>8, <2>5, <2>6, <3>1
    <3>2. CASE i # m + 1
      BY <1>6, <1>7, <2>5, <3>2, i \in 1 .. m
    <3> QED
      BY <3>1, <3>2
  <2>9. k = m + 1
    BY <2>5
  <2> HIDE DEF k
  <2>10. k <= l + 1 /\ k = l + 1 /\ \A i \in 1 .. k : q.results[i].symbol = readable[i]
    BY <2>6, <2>8, <2>9
  <2>11. ~q.full /\ q.used = F(k) /\ q.used <= budget
    BY <1>12, <2>2, <2>7, <2>10
  <2> QED
    BY <1>9, <2>10, <2>11, Zenon DEF k
<1> QED
  BY <1>6, <1>10, <1>11, <1>12

\* SearchWithBudget: a prefix of the readable hits, as long as fits, or one.
LEMMA BudgetSearchKept ==
  ASSUME TablesInv, NEW hits \in Seq(ToSet(symbols)), NEW budget \in Nat
  PROVE  LET readable == Only(hits, Readables)
             results == SearchWithBudget(hits, budget)
             taken == Len(results)
         IN /\ [i \in 1 .. taken |-> results[i].symbol] = SubSeq(readable, 1, taken)
            /\ TokensOf(readable, taken) <= budget \/ taken = 1
            /\ taken < Len(readable) => taken >= 1 /\ TokensOf(readable, taken + 1) > budget
<1> DEFINE S == ToSet(symbols)
           readable == Only(hits, Readables)
           n == Len(hits)
<1>1. hits \in Seq(S) /\ n \in Nat /\ \A k \in 1 .. n : hits[k] \in S
  <2> HIDE DEF S
  <2>1. hits \in Seq(S)
    BY DEF S
  <2> QED
    BY <2>1
<1>2. PICK keep : OnlyRun(keep, S, hits, Readables)
  BY <1>1, OnlyRunExists
<1>3. PICK run : BudgetRun(run, hits, budget)
  BY BudgetRunExists
<1>4. /\ keep \in [0 .. n -> Seq(S)] /\ keep[0] = <<>>
      /\ \A k \in 1 .. n : keep[k] = IF hits[k] \in Readables THEN Append(keep[k - 1], hits[k]) ELSE keep[k - 1]
      /\ readable = keep[n]
  BY <1>2 DEF OnlyRun
<1>5. /\ run \in [0 .. n -> PackedType]
      /\ run[0] = [results |-> <<>>, used |-> 0, full |-> FALSE]
      /\ \A k \in 1 .. n : run[k] =
           IF Readable(hits[k]) THEN Pack(run[k - 1], hits[k], ContentTokens(hits[k]), budget) ELSE run[k - 1]
      /\ SearchWithBudget(hits, budget) = run[n].results
  BY <1>3 DEF BudgetRun
<1>6. \A k \in 0 .. n : Len(keep[k]) <= Len(readable) /\ \A i \in 1 .. Len(keep[k]) : keep[k][i] = readable[i]
  BY <1>1, <1>2, OnlyPrefix
<1>7. readable \in Seq(Readables) /\ Len(readable) \in Nat
  <2>1. readable \in Seq(S)
    BY <1>1, OnlyIs
  <2>2. ToSet(readable) = ToSet(hits) \cap Readables
    BY <1>1, OnlySet
  <2> HIDE DEF S, readable
  <2>3. DOMAIN readable = 1 .. Len(readable) /\ Len(readable) \in Nat /\ readable = [i \in 1 .. Len(readable) |-> readable[i]]
    BY <2>1
  <2>4. \A i \in 1 .. Len(readable) : readable[i] \in Readables
    BY <2>2, <2>3 DEF ToSet
  <2> QED
    BY <2>3, <2>4
<1> HIDE DEF readable, n
<1> DEFINE Good == {k \in 0 .. n : BudgetInv(run[k], readable, Len(keep[k]), budget)}
<1>8. 0 \in Good
  <2>1. Len(run[0].results) = 0 /\ ~run[0].full /\ run[0].used = 0 /\ Len(keep[0]) = 0
    BY <1>4, <1>5
  <2>2. TokensOf(readable, 0) = 0
    BY <1>7, TokensAdd
  <2>3. BudgetInv(run[0], readable, 0, budget)
    BY <1>7, <2>1, <2>2 DEF BudgetInv
  <2> QED
    BY <1>1, <2>1, <2>3
<1>9. ASSUME NEW k \in 1 .. n, k - 1 \in Good
      PROVE  k \in Good
  <2>1. k - 1 \in 0 .. n /\ k \in 0 .. n
    BY <1>1
  <2>2. hits[k] \in ToSet(symbols)
    BY <1>1 DEF n
  <2>3. CASE ~Readable(hits[k])
    <3>1. run[k] = run[k - 1] /\ keep[k] = keep[k - 1]
      BY <1>4, <1>5, <2>3 DEF Readables
    <3> QED
      BY <1>9, <2>1, <3>1
  <2>4. CASE Readable(hits[k])
    <3> DEFINE old == keep[k - 1]
               l == Len(old)
    <3>1. keep[k] = Append(old, hits[k])
      BY <1>4, <2>2, <2>4 DEF Readables
    <3>2. old \in Seq(S) /\ hits[k] \in S
      BY <1>4, <2>1, <2>2
    <3> HIDE DEF S
    <3>3. l \in Nat /\ Len(keep[k]) = l + 1 /\ keep[k][l + 1] = hits[k]
      <4> HIDE DEF old
      <4> QED
        BY <3>1, <3>2, AppendIs
    <3>4. l + 1 <= Len(readable) /\ readable[l + 1] = hits[k]
      <4> HIDE DEF l
      <4> QED
        BY <1>6, <2>1, <3>3, l + 1 \in 1 .. l + 1
    <3>5. BudgetInv(run[k - 1], readable, l, budget) /\ run[k - 1] \in PackedType
      BY <1>5, <1>9, <2>1
    <3> HIDE DEF l
    <3>6. BudgetInv(Pack(run[k - 1], readable[l + 1], ContentTokens(readable[l + 1]), budget), readable, l + 1, budget)
      BY <1>7, <3>3, <3>4, <3>5, PackIs
    <3>7. run[k] = Pack(run[k - 1], hits[k], ContentTokens(hits[k]), budget)
      BY <1>5, <2>4
    <3> QED
      BY <2>1, <3>3, <3>4, <3>6, <3>7
  <2> QED
    BY <2>3, <2>4
<1> HIDE DEF Good
<1>10. n \in Good
  <2>1. \A k \in 0 .. n : k \in Good
    BY <1>1, <1>8, <1>9, InductionTo
  <2> QED
    BY <1>1, <2>1
<1> DEFINE p == run[n]
           results == p.results
           taken == Len(results)
           F(k) == TokensOf(readable, k)
<1>11. BudgetInv(p, readable, Len(readable), budget)
  BY <1>4, <1>10 DEF Good
<1>12. p \in PackedType
  BY <1>1, <1>5
<1> HIDE DEF p
<1>13. taken \in Nat /\ p.full \in BOOLEAN
  <2> DEFINE R == ResultType
  <2>1. results \in Seq(R) /\ p.full \in BOOLEAN
    BY <1>12 DEF PackedType
  <2> HIDE DEF R, results
  <2> QED
    BY <2>1
<1>14. /\ taken <= Len(readable)
       /\ \A i \in 1 .. taken : results[i].symbol = readable[i]
       /\ ~p.full => taken = Len(readable) /\ p.used = F(taken) /\ p.used <= budget
       /\ p.full => \/ taken = 1 /\ F(1) > budget
                    \/ taken >= 1 /\ taken < Len(readable) /\ F(taken) <= budget /\ F(taken + 1) > budget
  BY <1>11 DEF BudgetInv
<1>15. \A k \in 1 .. Len(readable) : F(k) \in Int /\ F(k - 1) \in Int /\ F(k) >= F(k - 1)
  <2>1. /\ \A k \in 0 .. Len(readable) : F(k) \in Int
        /\ \A k \in 1 .. Len(readable) :
             ContentTokens(readable[k]) \in Nat \ {0} /\ F(k) = F(k - 1) + ContentTokens(readable[k])
    BY <1>7, TokensAdd
  <2> HIDE DEF F
  <2> SUFFICES ASSUME NEW k \in 1 .. Len(readable)
               PROVE  F(k) \in Int /\ F(k - 1) \in Int /\ F(k) >= F(k - 1)
    OBVIOUS
  <2>2. k - 1 \in 0 .. Len(readable) /\ k \in 0 .. Len(readable)
    BY <1>7
  <2> QED
    BY <2>1, <2>2
<1> HIDE DEF F
<1>16. F(taken) <= budget \/ taken = 1
  BY <1>13, <1>14
<1>17. taken < Len(readable) => taken >= 1 /\ F(taken + 1) > budget
  <2> SUFFICES ASSUME taken < Len(readable)
               PROVE  taken >= 1 /\ F(taken + 1) > budget
    OBVIOUS
  <2> HIDE DEF taken
  <2>1. p.full
    BY <1>7, <1>13, <1>14
  <2>2. CASE taken = 1 /\ F(1) > budget
    <3>1. F(2) >= F(1) /\ F(2) \in Int /\ F(1) \in Int
      BY <1>7, <1>15, <2>2, 2 \in 1 .. Len(readable), 2 - 1 = 1
    <3> QED
      BY <2>2, <3>1
  <2>3. CASE ~(taken = 1 /\ F(1) > budget)
    BY <1>14, <2>1, <2>3
  <2> QED
    BY <2>2, <2>3
<1>18. [i \in 1 .. taken |-> results[i].symbol] = SubSeq(readable, 1, taken)
  <2> DEFINE T == Readables
  <2>1. readable \in Seq(T)
    BY <1>7
  <2> HIDE DEF T, taken
  <2> DEFINE sub == SubSeq(readable, 1, taken)
  <2>2. /\ sub \in Seq(T) /\ Len(sub) = taken /\ DOMAIN sub = 1 .. taken
        /\ \A i \in 1 .. taken : sub[i] = readable[i]
    BY <1>13, <1>14, <2>1, SubSeqIs
  <2> HIDE DEF sub
  <2>3. sub = [i \in 1 .. taken |-> sub[i]]
    BY <2>2
  <2>4. \A i \in 1 .. taken : sub[i] = results[i].symbol
    BY <1>14, <2>2
  <2> QED
    BY <2>3, <2>4 DEF sub
<1>19. SearchWithBudget(hits, budget) = results
  BY <1>5 DEF n, p
<1> QED
  BY <1>16, <1>17, <1>18, <1>19 DEF readable, F

\* Hits are symbols of the index.
LEMMA HitsType ==
  ASSUME TablesInv, NEW query, NEW hits \in Rankings(query) \cup {NoHits}
  PROVE  hits \in Seq(ToSet(symbols))
<1>1. CASE hits = NoHits
  BY <1>1 DEF NoHits
<1>2. CASE hits \in Rankings(query)
  BY <1>2, HitsAre
<1> QED
  BY <1>1, <1>2

\* The property of one answer.
ContextWithin(result, budget) ==
  \/ Total([i \in DOMAIN result |-> result[i].tokens]) <= budget
  \/ Len(result) = 1 /\ result[1].related = <<>>

\* What BudgetKept says of a search with a budget.
BudgetFilled(hits, budget, result) ==
  LET readable == Only(hits, Readables)
      taken == Len(result)
  IN /\ [i \in 1 .. taken |-> result[i].symbol] = SubSeq(readable, 1, taken)
     /\ TokensOf(readable, taken) <= budget \/ taken = 1
     /\ taken < Len(readable) => taken >= 1 /\ TokensOf(readable, taken + 1) > budget

\* Whatever the files, the hits and the budgets, the content smart_lookup gives
\* stays within its budget unless the first symbol alone is larger, and the
\* search with a budget stops only where the next hit does not fit
\* (SearchWithContext, SearchWithBudget).
THEOREM BudgetIsKept == Spec => []BudgetKept
<1>1. Init => BudgetKept
  BY TablesInit DEF BudgetKept, Is
<1>2. ASSUME TablesInv, BudgetKept, [Next]_vars
      PROVE  BudgetKept'
  <2> SUFFICES ASSUME answer' # None
               PROVE  BudgetKept'
    BY DEF BudgetKept, Is
  <2>1. CASE UNCHANGED vars
    <3>1. answer' = answer /\ disk' = disk /\ symbols' = symbols
      BY <2>1 DEF vars
    <3>2. Readables' = Readables /\ (\A s : ContentTokens(s)' = ContentTokens(s))
      BY <3>1 DEF Readables, Readable, ContentTokens, SymbolContent, Content, EndOffset
    <3> QED
      BY <1>2, <3>1, <3>2 DEF BudgetKept, Is, Readables, Readable, Content, ContentTokens, SymbolContent,
                              EndOffset
  <2>2. CASE UNCHANGED tables /\ Called
    <3>1. disk' = disk /\ symbols' = symbols
      BY <2>2 DEF tables
    <3>2. ASSUME answer'.tool = "smart_lookup"
          PROVE  BudgetKept'
      <4>1. PICK query : \E hits \in Rankings(query) \cup {NoHits}, budget \in Budgets :
              Answers("smart_lookup", budget, SearchWithContext(hits, budget))
        BY <2>2, <3>2, Zenon DEF Called, SmartLookup
      <4>2. PICK hits \in Rankings(query) \cup {NoHits}, budget \in Budgets :
              Answers("smart_lookup", budget, SearchWithContext(hits, budget))
        BY <4>1
      <4>3. answer'.argument = budget /\ answer'.result = SearchWithContext(hits, budget)
        BY <4>2 DEF Answers, Answer
      <4>4. hits \in Seq(ToSet(symbols)) /\ budget \in Nat
        BY <1>2, HitsType, ConstantsAssumption
      <4>5. ContextWithin(SearchWithContext(hits, budget), budget)
        BY <1>2, <4>4, ContextKept DEF ContextWithin
      <4> QED
        BY <3>2, <4>3, <4>5 DEF BudgetKept, Is, ContextWithin
    <3>3. ASSUME answer'.tool = "budget_search"
          PROVE  BudgetKept'
      <4>1. PICK query : \E hits \in Rankings(query) \cup {NoHits}, budget \in Budgets :
              Answers("budget_search", <<hits, budget>>, SearchWithBudget(hits, budget))
        BY <2>2, <3>3, Zenon DEF Called, BudgetSearch
      <4>2. PICK hits \in Rankings(query) \cup {NoHits}, budget \in Budgets :
              Answers("budget_search", <<hits, budget>>, SearchWithBudget(hits, budget))
        BY <4>1
      <4>3. /\ answer'.argument[1] = hits /\ answer'.argument[2] = budget
            /\ answer'.result = SearchWithBudget(hits, budget)
        BY <4>2 DEF Answers, Answer
      <4>4. hits \in Seq(ToSet(symbols)) /\ budget \in Nat
        BY <1>2, HitsType, ConstantsAssumption
      <4>5. BudgetFilled(hits, budget, SearchWithBudget(hits, budget))
        BY <1>2, <4>4, BudgetSearchKept DEF BudgetFilled
      <4>6. PICK a : answer' = a
        OBVIOUS
      <4>7. BudgetFilled(a.argument[1], a.argument[2], a.result)
        BY <4>3, <4>5, <4>6
      <4>8. LET readable == Only(a.argument[1], {s \in ToSet(symbols) : Readable(s)})
                Tokens(n) == Total([i \in 1 .. n |-> ContentTokens(readable[i])])
                taken == Len(a.result)
            IN /\ [i \in 1 .. taken |-> a.result[i].symbol] = SubSeq(readable, 1, taken)
               /\ Tokens(taken) <= a.argument[2] \/ taken = 1
               /\ taken < Len(readable) => taken >= 1 /\ Tokens(taken + 1) > a.argument[2]
        BY <4>7, Zenon DEF BudgetFilled, TokensOf, Readables
      <4>9. Readables' = Readables /\ (\A s : ContentTokens(s)' = ContentTokens(s))
        BY <3>1 DEF Readables, Readable, ContentTokens, SymbolContent, Content, EndOffset
      <4> QED
        <5>1. Is("budget_search")' =>
                LET readable == Only(a.argument[1], {s \in ToSet(symbols) : Readable(s)})
                    Tokens(n) == Total([i \in 1 .. n |-> ContentTokens(readable[i])])
                    taken == Len(a.result)
                IN /\ [i \in 1 .. taken |-> a.result[i].symbol] = SubSeq(readable, 1, taken)
                   /\ Tokens(taken) <= a.argument[2] \/ taken = 1
                   /\ taken < Len(readable) => taken >= 1 /\ Tokens(taken + 1) > a.argument[2]
          BY <4>8
        <5>2. ~Is("smart_lookup")'
          BY <3>3 DEF Is
        <5> QED
          BY <3>1, <4>6, <4>9, <5>1, <5>2 DEF BudgetKept, Readables, Readable, Content, ContentTokens,
                                            SymbolContent, EndOffset
    <3> QED
      BY <3>2, <3>3 DEF BudgetKept, Is
  <2> QED
    BY <1>2, <2>1, <2>2, Asked
<1> QED
  BY <1>1, <1>2, TablesStay, PTL DEF Spec

-----------------------------------------------------------------------------
(***************************************************************************)
(* The blast radius: a search, breadth first, over the references.         *)
(***************************************************************************)

(***************************************************************************)
(* The blast radius.                                                       *)
(***************************************************************************)

\* The functions that call one of the names, by the call graph.
LEMMA CallersAre ==
  ASSUME TablesInv, NEW names
  PROVE  CallersOf(names) = {r.caller : r \in {q \in ToSet(refs) : q.symbol \in names}} \ {""}
<1> DEFINE there == {m \in References : At(m).name \in names}
           these == {q \in ToSet(refs) : q.symbol \in names}
<1>1. DOMAIN refs = 1 .. Len(refs)
  BY RefPlaces
<1>2. \A p \in 1 .. Len(refs) :
        /\ Place(refs[p]) \in References
        /\ At(Place(refs[p])).name = refs[p].symbol
        /\ Enclosing(Place(refs[p])) = refs[p].caller
  BY RefsAre
<1>3. \A n \in References : \E p \in 1 .. Len(refs) : Place(refs[p]) = n
  BY RefsAre
<1>4. \A n \in there : \E r \in these : Enclosing(n) = r.caller
  <2> SUFFICES ASSUME NEW n \in there
               PROVE  \E r \in these : Enclosing(n) = r.caller
    OBVIOUS
  <2>1. PICK p \in 1 .. Len(refs) : Place(refs[p]) = n
    BY <1>3
  <2>2. refs[p] \in these /\ Enclosing(n) = refs[p].caller
    BY <1>1, <1>2, <2>1 DEF ToSet
  <2> QED
    BY <2>2
<1>5. \A r \in these : \E n \in there : Enclosing(n) = r.caller
  <2> SUFFICES ASSUME NEW r \in these
               PROVE  \E n \in there : Enclosing(n) = r.caller
    OBVIOUS
  <2>1. PICK p \in 1 .. Len(refs) : r = refs[p]
    BY <1>1 DEF ToSet
  <2>2. Place(r) \in there /\ Enclosing(Place(r)) = r.caller
    BY <1>2, <2>1
  <2> QED
    BY <2>2
<1> HIDE DEF there, these
<1>6. {Enclosing(n) : n \in there} = {r.caller : r \in these}
  BY <1>4, <1>5
<1> QED
  BY <1>6 DEF CallersOf, there, these

\* The functions from which the start is reached in so many steps.
Distances(steps, start, D) ==
  /\ steps[0] = {start}
  /\ \A k \in 1 .. D : steps[k] = CallersOf(steps[k - 1])

\* The states of the search for callers.
FoundType == [symbol : Scope, file : STRING, line : Nat, depth : Nat]
ItemType == [symbol : Scope, depth : Nat]
SearchType == [found : Seq(FoundType), queue : Seq(ItemType)]

\* The parts of the state of the search for callers.
LEMMA SearchParts ==
  ASSUME NEW s \in SearchType
  PROVE  /\ s.found \in Seq(FoundType) /\ s.queue \in Seq(ItemType)
         /\ Len(s.found) \in Nat /\ DOMAIN s.found = 1 .. Len(s.found) /\ Len(s.queue) \in Nat
         /\ \A i \in 1 .. Len(s.found) : s.found[i] \in FoundType
         /\ \A i \in 1 .. Len(s.queue) : s.queue[i] \in ItemType
<1> DEFINE F == FoundType
           I == ItemType
           found == s.found
           queue == s.queue
<1>1. found \in Seq(F) /\ queue \in Seq(I)
  BY DEF SearchType
<1> HIDE DEF F, I, found, queue
<1>2. /\ Len(found) \in Nat /\ DOMAIN found = 1 .. Len(found) /\ Len(queue) \in Nat
      /\ \A i \in 1 .. Len(found) : found[i] \in F
      /\ \A i \in 1 .. Len(queue) : queue[i] \in I
  BY <1>1
<1> QED
  BY <1>1, <1>2 DEF F, I, found, queue

\* What one caller adds to them.
FoundOf(ref, depth) == [symbol |-> ref.caller, file |-> ref.file, line |-> ref.line, depth |-> depth]
ItemOf(ref, depth) == [symbol |-> ref.caller, depth |-> depth]

\* What a visit does.
LEMMA VisitCases ==
  ASSUME NEW s \in SearchType, NEW r \in RefType, NEW depth \in Nat, NEW D
  PROVE  /\ Visit(s, r, depth, D) \in SearchType
         /\ \/ /\ r.caller = "" \/ depth > D \/ Reached(s.found, r.caller, depth)
               /\ Visit(s, r, depth, D) = s
            \/ /\ ~(r.caller = "" \/ depth > D \/ Reached(s.found, r.caller, depth))
               /\ Visit(s, r, depth, D).found = Append(s.found, FoundOf(r, depth))
               /\ Visit(s, r, depth, D).queue = Append(s.queue, ItemOf(r, depth))
               /\ FoundOf(r, depth) \in FoundType /\ ItemOf(r, depth) \in ItemType
<1> DEFINE F == FoundType
           I == ItemType
           f == FoundOf(r, depth)
           i == ItemOf(r, depth)
           skip == r.caller = "" \/ depth > D \/ Reached(s.found, r.caller, depth)
<1>1. s.found \in Seq(F) /\ s.queue \in Seq(I)
  BY SearchParts
<1>2. f \in F /\ i \in I
  BY DEF FoundOf, ItemOf, FoundType, ItemType, RefType
<1>3. Visit(s, r, depth, D) = IF skip THEN s ELSE [found |-> Append(s.found, f), queue |-> Append(s.queue, i)]
  BY DEF Visit, FoundOf, ItemOf
<1> HIDE DEF F, I, f, i, skip
<1>4. Append(s.found, f) \in Seq(F) /\ Append(s.queue, i) \in Seq(I)
  BY <1>1, <1>2, AppendIs
<1>5. CASE skip
  BY <1>3, <1>5 DEF skip
<1>6. CASE ~skip
  <2>1. Visit(s, r, depth, D) = [found |-> Append(s.found, f), queue |-> Append(s.queue, i)]
    BY <1>3, <1>6
  <2>2. /\ Visit(s, r, depth, D).found = Append(s.found, f)
        /\ Visit(s, r, depth, D).queue = Append(s.queue, i)
        /\ Visit(s, r, depth, D) \in SearchType
    BY <1>4, <2>1 DEF SearchType, F, I
  <2> QED
    BY <1>2, <1>6, <2>2 DEF skip, F, I, f, i
<1> QED
  BY <1>5, <1>6

\* The callers of a symbol are the references to it.
LEMMA CallersType ==
  ASSUME TablesInv, NEW symbol
  PROVE  /\ FindCallers(refs, symbol) \in Seq(RefType) /\ Len(FindCallers(refs, symbol)) \in Nat
         /\ DOMAIN FindCallers(refs, symbol) = 1 .. Len(FindCallers(refs, symbol))
         /\ \A i \in 1 .. Len(FindCallers(refs, symbol)) :
              /\ FindCallers(refs, symbol)[i] \in RefType
              /\ FindCallers(refs, symbol)[i] \in ToSet(refs)
              /\ FindCallers(refs, symbol)[i].symbol = symbol
         /\ \A r \in ToSet(refs) : r.symbol = symbol =>
              \E i \in 1 .. Len(FindCallers(refs, symbol)) : FindCallers(refs, symbol)[i] = r
<1> DEFINE T == RefType
           set == {r \in ToSet(refs) : r.symbol = symbol}
           list == FindCallers(refs, symbol)
<1>1. refs \in Seq(T) /\ list = Only(refs, set)
  BY RefPlaces DEF FindCallers
<1> HIDE DEF T, list
<1>2. list \in Seq(T) /\ ToSet(list) = ToSet(refs) \cap set
  BY <1>1, OnlyIs, OnlySet
<1>3. Len(list) \in Nat /\ DOMAIN list = 1 .. Len(list) /\ \A i \in 1 .. Len(list) : list[i] \in T
  BY <1>2
<1>4. \A i \in 1 .. Len(list) : list[i] \in ToSet(refs) /\ list[i].symbol = symbol
  BY <1>2, <1>3 DEF ToSet
<1>5. \A r \in ToSet(refs) : r.symbol = symbol => \E i \in 1 .. Len(list) : list[i] = r
  <2> SUFFICES ASSUME NEW r \in ToSet(refs), r.symbol = symbol
               PROVE  \E i \in 1 .. Len(list) : list[i] = r
    OBVIOUS
  <2>1. r \in ToSet(list)
    BY <1>2
  <2> QED
    BY <1>3, <2>1 DEF ToSet
<1> QED
  BY <1>2, <1>3, <1>4, <1>5 DEF T, list

\* A turn begins with the head of the queue taken out.
Popped(search) == [search EXCEPT !.queue = Tail(@)]

\* What the search is left with when it takes the head of its queue.
LEMMA PoppedIs ==
  ASSUME NEW s \in SearchType, s.queue # <<>>
  PROVE  /\ Popped(s) \in SearchType /\ Popped(s).found = s.found
         /\ Len(Popped(s).queue) = Len(s.queue) - 1
         /\ \A i \in 1 .. Len(s.queue) - 1 : Popped(s).queue[i] = s.queue[i + 1]
         /\ Head(s.queue) = s.queue[1] /\ Head(s.queue) \in ItemType /\ Len(s.queue) >= 1
<1> DEFINE I == ItemType
           q == s.queue
<1>1. q \in Seq(I) /\ q # <<>>
  BY SearchParts
<1>2. s = [found |-> s.found, queue |-> q]
  BY DEF SearchType
<1> HIDE DEF I, q
<1>3. /\ Tail(q) \in Seq(I) /\ Len(Tail(q)) = Len(q) - 1 /\ \A i \in 1 .. Len(q) - 1 : Tail(q)[i] = q[i + 1]
      /\ Head(q) = q[1] /\ Head(q) \in I /\ Len(q) >= 1
  BY <1>1
<1>4. Popped(s) = [found |-> s.found, queue |-> Tail(q)]
  BY <1>2 DEF Popped, q
<1>5. Popped(s).found = s.found /\ Popped(s).queue = Tail(q) /\ Popped(s) \in SearchType
  BY <1>3, <1>4, SearchParts DEF SearchType, I
<1> QED
  BY <1>3, <1>5 DEF q, I

\* What a turn goes through.
TurnRun(run, search, D) ==
  /\ run \in [0 .. Len(FindCallers(refs, Head(search.queue).symbol)) -> SearchType]
  /\ run[0] = Popped(search)
  /\ \A k \in 1 .. Len(FindCallers(refs, Head(search.queue).symbol)) : run[k] = Visit(run[k - 1], FindCallers(refs, Head(search.queue).symbol)[k], Head(search.queue).depth + 1, D)
  /\ Turn(refs, search, D) = run[Len(FindCallers(refs, Head(search.queue).symbol))]

\* The run of one turn, over the references to the head of the queue.
LEMMA TurnRunExists ==
  ASSUME TablesInv, NEW search \in SearchType, search.queue # <<>>, NEW D
  PROVE  \E run : TurnRun(run, search, D)
<1> DEFINE n == Len(FindCallers(refs, Head(search.queue).symbol))
           A == SearchType
           base == Popped(search)
           Op(a, k) == Visit(a, FindCallers(refs, Head(search.queue).symbol)[k], Head(search.queue).depth + 1, D)
           step == [p \in A \X (1 .. n) |-> Op(p[1], p[2])]
           Eq(h) == [s \in SUBSET (1 .. n) |-> IF s = {} THEN base ELSE Op(h[s \ {Max(s)}], Max(s))]
           iter == CHOOSE h : h = Eq(h)
<1>1. /\ DOMAIN FindCallers(refs, Head(search.queue).symbol) = 1 .. n
      /\ Head(search.queue).depth + 1 \in Nat
  BY CallersType, PoppedIs DEF ItemType
<1>2. n \in Nat /\ base \in A
  BY CallersType, PoppedIs
<1>3. ASSUME NEW a \in A, NEW k \in 1 .. n
      PROVE  Op(a, k) \in A
  BY <1>1, VisitCases, CallersType
<1>4. Turn(refs, search, D) = iter[1 .. n]
  BY <1>1 DEF Turn, Popped, FoldLeft, MapThenFoldSet
<1> HIDE DEF n, A, base, Op
<1>5. step \in Steps(A, n)
  BY <1>3 DEF Steps
<1>6. \A a \in A, k \in 1 .. n : step[<<a, k>>] = Op(a, k)
  OBVIOUS
<1>7. \A s \in SUBSET (1 .. n) : s # {} => Max(s) \in 1 .. n
  BY <1>2, MaxIs, \A s \in SUBSET (1 .. n) : s \in SUBSET (0 .. n)
<1> HIDE DEF step
<1>8. PICK g \in [SUBSET (1 .. n) -> A] : IsFold(g, n, A, base, step)
  BY <1>2, <1>5, FoldExists
<1>9. g = Eq(g)
  BY <1>6, <1>7, <1>8, \A s \in SUBSET (1 .. n) : s \ {Max(s)} \in SUBSET (1 .. n) DEF IsFold
<1>10. iter = Eq(iter)
  BY <1>9
<1> HIDE DEF iter
<1>11. IsFold(iter, n, A, base, step)
  BY <1>6, <1>7, <1>10 DEF IsFold
<1>12. PICK run : IsRun(run, n, A, base, step) /\ iter[1 .. n] = run[n]
  BY <1>2, <1>5, <1>11, RunOf
<1>13. ASSUME NEW k \in 1 .. n
       PROVE  run[k] = Op(run[k - 1], k)
  BY <1>2, <1>6, <1>12, k - 1 \in 0 .. n DEF IsRun
<1>14. run \in [0 .. n -> A] /\ run[0] = base
  BY <1>12 DEF IsRun
<1>15. TurnRun(run, search, D)
  BY <1>4, <1>12, <1>13, <1>14 DEF n, A, base, Op, TurnRun
<1> QED
  BY <1>15

\* A turn keeps the types.
LEMMA TurnType ==
  ASSUME TablesInv, NEW search \in SearchType, NEW D
  PROVE  Turn(refs, search, D) \in SearchType
<1>1. CASE search.queue = <<>>
  BY <1>1 DEF Turn
<1>2. CASE search.queue # <<>>
  <2> DEFINE n == Len(FindCallers(refs, Head(search.queue).symbol))
  <2>1. PICK run : TurnRun(run, search, D)
    BY <1>2, TurnRunExists
  <2>2. run \in [0 .. n -> SearchType] /\ Turn(refs, search, D) = run[n]
    BY <2>1 DEF TurnRun
  <2>3. n \in Nat
    BY CallersType
  <2> HIDE DEF n
  <2> QED
    BY <2>2, <2>3
<1> QED
  BY <1>1, <1>2

\* What the search goes through.
SearchRun(run, start, D) ==
  /\ run \in [0 .. Len(refs) + 1 -> SearchType]
  /\ run[0] = [found |-> <<>>, queue |-> <<[symbol |-> start, depth |-> 0]>>]
  /\ \A k \in 1 .. Len(refs) + 1 : run[k] = Turn(refs, run[k - 1], D)
  /\ SearchCallers(refs, start, D) = run[Len(refs) + 1]

\* The run of the search, turn after turn.
LEMMA SearchRunExists ==
  ASSUME TablesInv, NEW start \in Scope, NEW D
  PROVE  \E run : SearchRun(run, start, D)
<1> DEFINE n == Len(refs) + 1
           A == SearchType
           base == [found |-> <<>>, queue |-> <<[symbol |-> start, depth |-> 0]>>]
           Op(a, k) == Turn(refs, a, D)
           step == [p \in A \X (1 .. n) |-> Op(p[1], p[2])]
           Eq(h) == [s \in SUBSET (1 .. n) |-> IF s = {} THEN base ELSE Op(h[s \ {Max(s)}], Max(s))]
           iter == CHOOSE h : h = Eq(h)
<1>1. n \in Nat /\ base \in A
  <2> DEFINE I == ItemType
             x == [symbol |-> start, depth |-> 0]
  <2>1. x \in I
    BY DEF ItemType
  <2> HIDE DEF I, x
  <2>2. <<x>> \in Seq(I)
    BY <2>1, SingletonIs
  <2> QED
    BY <2>2, RefPlaces DEF SearchType, I, x
<1>2. ASSUME NEW a \in A, NEW k \in 1 .. n
      PROVE  Op(a, k) \in A
  BY TurnType
<1>3. SearchCallers(refs, start, D) = iter[1 .. n]
  BY DEF SearchCallers, FoldLeft, MapThenFoldSet
<1> HIDE DEF n, A, base, Op
<1>4. step \in Steps(A, n)
  BY <1>2 DEF Steps
<1>5. \A a \in A, k \in 1 .. n : step[<<a, k>>] = Op(a, k)
  OBVIOUS
<1>6. \A s \in SUBSET (1 .. n) : s # {} => Max(s) \in 1 .. n
  BY <1>1, MaxIs, \A s \in SUBSET (1 .. n) : s \in SUBSET (0 .. n)
<1> HIDE DEF step
<1>7. PICK g \in [SUBSET (1 .. n) -> A] : IsFold(g, n, A, base, step)
  BY <1>1, <1>4, FoldExists
<1>8. g = Eq(g)
  BY <1>5, <1>6, <1>7, \A s \in SUBSET (1 .. n) : s \ {Max(s)} \in SUBSET (1 .. n) DEF IsFold
<1>9. iter = Eq(iter)
  BY <1>8
<1> HIDE DEF iter
<1>10. IsFold(iter, n, A, base, step)
  BY <1>5, <1>6, <1>9 DEF IsFold
<1>11. PICK run : IsRun(run, n, A, base, step) /\ iter[1 .. n] = run[n]
  BY <1>1, <1>4, <1>10, RunOf
<1>12. ASSUME NEW k \in 1 .. n
       PROVE  run[k] = Op(run[k - 1], k)
  BY <1>1, <1>5, <1>11, k - 1 \in 0 .. n DEF IsRun
<1>13. run \in [0 .. n -> A] /\ run[0] = base
  BY <1>11 DEF IsRun
<1>14. SearchRun(run, start, D)
  BY <1>3, <1>11, <1>12, <1>13 DEF n, A, base, Op, SearchRun
<1> QED
  BY <1>14

\* The j-th symbol the search has met, and its distance; the start is the 0-th.
SymbolAt(found, start, j) == IF j = 0 THEN start ELSE found[j].symbol
DepthAt(found, j) == IF j = 0 THEN 0 ELSE found[j].depth

\* A list begins with another.
Prolongs(f, g) == Len(f) <= Len(g) /\ \A i \in 1 .. Len(f) : g[i] = f[i]

\* What was found is at its distance, once, the nearest first.
FoundInv(found, steps, D) ==
  \A i \in 1 .. Len(found) :
    /\ found[i].depth \in 1 .. D /\ found[i].symbol \in steps[found[i].depth]
    /\ \A j \in 1 .. i - 1 : found[j].symbol # found[i].symbol /\ found[j].depth <= found[i].depth

\* The queue has what was found from the h-th on.
QueueInv(search, start, h) ==
  /\ h <= Len(search.found) + 1
  /\ Len(search.queue) = Len(search.found) + 1 - h
  /\ \A i \in 1 .. Len(search.queue) :
       /\ search.queue[i].symbol = SymbolAt(search.found, start, h + i - 1)
       /\ search.queue[i].depth = DepthAt(search.found, h + i - 1)

\* Nothing found is deeper than d.
Near(found, d) == \A i \in 1 .. Len(found) : found[i].depth <= d

\* The reference counts at a symbol of that depth.
Counts(r, symbol, depth, D) == r.symbol = symbol /\ r.caller # "" /\ depth + 1 <= D

\* The callers of all before the h-th were found.
Done(found, start, D, h) ==
  \A j \in 0 .. h - 1 : \A r \in ToSet(refs) :
    Counts(r, SymbolAt(found, start, j), DepthAt(found, j), D)
      => Reached(found, r.caller, DepthAt(found, j) + 1)

\* The length of a sequence, its domain and its elements.
LEMMA LengthIs ==
  ASSUME NEW T, NEW f \in Seq(T)
  PROVE  Len(f) \in Nat /\ DOMAIN f = 1 .. Len(f) /\ \A i \in 1 .. Len(f) : f[i] \in T
OBVIOUS

\* A list is a prefix of itself.
LEMMA ProlongsItself ==
  ASSUME NEW T, NEW f \in Seq(T)
  PROVE  Prolongs(f, f)
BY LengthIs DEF Prolongs

\* What was met stays met.
LEMMA StillReached ==
  ASSUME NEW T, NEW f \in Seq(T), NEW g \in Seq(T), Prolongs(f, g), NEW symbol, NEW d, Reached(f, symbol, d)
  PROVE  Reached(g, symbol, d)
<1>1. PICK i \in 1 .. Len(f) : f[i].symbol = symbol /\ f[i].depth <= d
  BY DEF Reached
<1>2. i \in 1 .. Len(g) /\ g[i] = f[i] /\ DOMAIN g = 1 .. Len(g)
  BY <1>1 DEF Prolongs
<1> QED
  BY <1>1, <1>2 DEF Reached

\* A head that was done stays so when more is found.
LEMMA StillDone ==
  ASSUME NEW f \in Seq(FoundType), NEW g \in Seq(FoundType), Prolongs(f, g), NEW start, NEW D, NEW h \in Nat,
         h <= Len(f) + 1, Done(f, start, D, h)
  PROVE  Done(g, start, D, h)
<1> SUFFICES ASSUME NEW j \in 0 .. h - 1, NEW r \in ToSet(refs),
                    Counts(r, SymbolAt(g, start, j), DepthAt(g, j), D)
             PROVE  Reached(g, r.caller, DepthAt(g, j) + 1)
  BY DEF Done
<1>1. Len(f) \in Nat
  BY LengthIs
<1>2. SymbolAt(g, start, j) = SymbolAt(f, start, j) /\ DepthAt(g, j) = DepthAt(f, j)
  <2>1. CASE j = 0
    BY <2>1 DEF SymbolAt, DepthAt
  <2>2. CASE j # 0
    <3>1. j \in 0 .. h - 1
      OBVIOUS
    <3>2. j \in 1 .. Len(f)
      BY <1>1, <2>2, <3>1
    <3>3. g[j] = f[j]
      BY <3>2 DEF Prolongs
    <3> QED
      BY <2>2, <3>3 DEF SymbolAt, DepthAt
  <2> QED
    BY <2>1, <2>2
<1>3. Reached(f, r.caller, DepthAt(f, j) + 1)
  BY <1>2 DEF Done
<1> QED
  BY <1>2, <1>3, StillReached

\* A symbol met for the first time, at the depth of the turn, is found.
LEMMA FoundAppend ==
  ASSUME NEW f \in Seq(FoundType), NEW x \in FoundType, NEW steps, NEW D \in Nat,
         FoundInv(f, steps, D), Near(f, x.depth), x.depth \in 1 .. D, x.symbol \in steps[x.depth],
         ~Reached(f, x.symbol, x.depth)
  PROVE  FoundInv(Append(f, x), steps, D) /\ Near(Append(f, x), x.depth) /\ Prolongs(f, Append(f, x))
         /\ Reached(Append(f, x), x.symbol, x.depth)
<1> DEFINE T == FoundType
           g == Append(f, x)
<1>1. f \in Seq(T) /\ x \in T /\ x.depth \in Nat
  BY DEF FoundType
<1> HIDE DEF T
<1>2. /\ g \in Seq(T) /\ Len(g) = Len(f) + 1 /\ Len(f) \in Nat
      /\ \A i \in 1 .. Len(f) : g[i] = f[i]
      /\ g[Len(f) + 1] = x
      /\ DOMAIN f = 1 .. Len(f)
  BY <1>1, AppendIs
<1> HIDE DEF g
<1>3. Prolongs(f, g)
  BY <1>2 DEF Prolongs
<1>4. \A i \in 1 .. Len(f) : f[i].symbol # x.symbol /\ f[i].depth <= x.depth
  BY <1>2 DEF Near, Reached
<1>5. Near(g, x.depth)
  <2> SUFFICES ASSUME NEW i \in 1 .. Len(g)
               PROVE  g[i].depth <= x.depth
    BY DEF Near
  <2>1. CASE i \in 1 .. Len(f)
    BY <1>2, <1>4, <2>1
  <2>2. CASE i = Len(f) + 1
    BY <1>1, <1>2, <2>2
  <2> QED
    BY <1>2, <2>1, <2>2
<1>6. FoundInv(g, steps, D)
  <2> SUFFICES ASSUME NEW i \in 1 .. Len(g)
               PROVE  /\ g[i].depth \in 1 .. D /\ g[i].symbol \in steps[g[i].depth]
                      /\ \A j \in 1 .. i - 1 : g[j].symbol # g[i].symbol /\ g[j].depth <= g[i].depth
    BY DEF FoundInv
  <2>1. CASE i \in 1 .. Len(f)
    <3>1. g[i] = f[i] /\ \A j \in 1 .. i - 1 : g[j] = f[j]
      BY <1>2, <2>1
    <3> QED
      BY <2>1, <3>1 DEF FoundInv
  <2>2. CASE i = Len(f) + 1
    <3>1. g[i] = x /\ \A j \in 1 .. i - 1 : j \in 1 .. Len(f) /\ g[j] = f[j]
      BY <1>2, <2>2
    <3> QED
      BY <1>4, <3>1
  <2> QED
    BY <1>2, <2>1, <2>2
<1>7. Reached(g, x.symbol, x.depth)
  BY <1>1, <1>2, Len(f) + 1 \in DOMAIN g DEF Reached
<1> QED
  BY <1>3, <1>5, <1>6, <1>7 DEF g

\* What is found is queued too, and stays aligned with the queue.
LEMMA QueueAppend ==
  ASSUME NEW s \in SearchType, NEW v \in SearchType, NEW start, NEW h \in Nat, QueueInv(s, start, h),
         NEW x \in FoundType, NEW y \in ItemType, y.symbol = x.symbol, y.depth = x.depth,
         v.found = Append(s.found, x), v.queue = Append(s.queue, y)
  PROVE  QueueInv(v, start, h)
<1> DEFINE F == FoundType
           I == ItemType
           f == s.found
           q == s.queue
           g == v.found
           p == v.queue
<1>1. f \in Seq(F) /\ q \in Seq(I) /\ x \in F /\ y \in I /\ g = Append(f, x) /\ p = Append(q, y)
  BY SearchParts
<1> HIDE DEF F, I
<1>2. /\ Len(g) = Len(f) + 1 /\ Len(f) \in Nat /\ (\A i \in 1 .. Len(f) : g[i] = f[i]) /\ g[Len(f) + 1] = x
      /\ Len(p) = Len(q) + 1 /\ Len(q) \in Nat /\ (\A i \in 1 .. Len(q) : p[i] = q[i]) /\ p[Len(q) + 1] = y
  BY <1>1, AppendIs
<1>3. h <= Len(f) + 1 /\ Len(q) = Len(f) + 1 - h
      /\ \A i \in 1 .. Len(q) : q[i].symbol = SymbolAt(f, start, h + i - 1) /\ q[i].depth = DepthAt(f, h + i - 1)
  BY DEF QueueInv
<1> HIDE DEF f, q, g, p
<1>4. ASSUME NEW i \in 1 .. Len(p)
      PROVE  p[i].symbol = SymbolAt(g, start, h + i - 1) /\ p[i].depth = DepthAt(g, h + i - 1)
  <2>1. CASE i \in 1 .. Len(q)
    <3>1. h + i - 1 \in 0 .. Len(f)
      BY <1>2, <1>3, <2>1
    <3>2. SymbolAt(g, start, h + i - 1) = SymbolAt(f, start, h + i - 1) /\ DepthAt(g, h + i - 1) = DepthAt(f, h + i - 1)
      <4>1. CASE h + i - 1 = 0
        BY <4>1 DEF SymbolAt, DepthAt
      <4>2. CASE h + i - 1 # 0
        <5>1. g[h + i - 1] = f[h + i - 1]
          BY <1>2, <3>1, <4>2, h + i - 1 \in 1 .. Len(f)
        <5> QED
          BY <4>2, <5>1 DEF SymbolAt, DepthAt
      <4> QED
        BY <4>1, <4>2
    <3> QED
      BY <1>2, <1>3, <2>1, <3>2
  <2>2. CASE i = Len(q) + 1
    <3>1. h + i - 1 = Len(f) + 1 /\ h + i - 1 # 0
      BY <1>2, <1>3, <2>2
    <3>2. p[i] = y /\ g[h + i - 1] = x
      BY <1>2, <2>2, <3>1
    <3> QED
      BY <3>1, <3>2 DEF SymbolAt, DepthAt
  <2> QED
    BY <1>2, <2>1, <2>2
<1>5. h <= Len(g) + 1 /\ Len(p) = Len(g) + 1 - h
  BY <1>2, <1>3
<1> QED
  BY <1>4, <1>5 DEF QueueInv, g, p

\* What holds while the callers of one symbol, at distance c, are visited.
TurnInv(v, steps, start, D, h, c) ==
  FoundInv(v.found, steps, D) /\ QueueInv(v, start, h) /\ Near(v.found, c + 1)

\* Who calls what is at distance c is a step farther.
Leads(r, steps, c, D) == c + 1 <= D /\ r.caller # "" => r.caller \in steps[c + 1]

\* A reference has been dealt with: its caller is met, or is none to meet.
Visited(found, r, c, D) == r.caller = "" \/ c + 1 > D \/ Reached(found, r.caller, c + 1)

\* One reference to the head: the turn's invariant stays, and afterwards its
\* caller has been met.
LEMMA VisitKeeps ==
  ASSUME NEW s \in SearchType, NEW r \in RefType, NEW steps, NEW start, NEW D \in Nat, NEW h \in Nat, NEW c \in Nat,
         Leads(r, steps, c, D), TurnInv(s, steps, start, D, h, c)
  PROVE  /\ TurnInv(Visit(s, r, c + 1, D), steps, start, D, h, c)
         /\ Prolongs(s.found, Visit(s, r, c + 1, D).found)
         /\ Visited(Visit(s, r, c + 1, D).found, r, c, D)
<1> DEFINE v == Visit(s, r, c + 1, D)
           skip == r.caller = "" \/ c + 1 > D \/ Reached(s.found, r.caller, c + 1)
           x == FoundOf(r, c + 1)
           y == ItemOf(r, c + 1)
<1>1. /\ v \in SearchType
      /\ \/ skip /\ v = s
         \/ ~skip /\ v.found = Append(s.found, x) /\ v.queue = Append(s.queue, y) /\ x \in FoundType /\ y \in ItemType
  <2>1. c + 1 \in Nat
    OBVIOUS
  <2> QED
    BY <2>1, VisitCases
<1>2. x.symbol = r.caller /\ x.depth = c + 1 /\ y.symbol = r.caller /\ y.depth = c + 1
  BY DEF FoundOf, ItemOf
<1>3. s.found \in Seq(FoundType)
  BY SearchParts
<1> HIDE DEF v, x, y
<1>4. CASE skip /\ v = s
  <2>1. Prolongs(s.found, s.found)
    BY <1>3, ProlongsItself
  <2>2. v = s
    BY <1>4
  <2>3. Visited(s.found, r, c, D)
    BY <1>4 DEF Visited
  <2>4. TurnInv(v, steps, start, D, h, c) /\ Prolongs(s.found, v.found) /\ Visited(v.found, r, c, D)
    BY <2>1, <2>2, <2>3
  <2> QED
    BY <2>4 DEF v
<1>5. CASE ~skip /\ v.found = Append(s.found, x) /\ v.queue = Append(s.queue, y) /\ x \in FoundType /\ y \in ItemType
  <2>1. x.depth \in 1 .. D /\ x.symbol \in steps[x.depth] /\ ~Reached(s.found, x.symbol, x.depth)
    <3>1. r.caller # "" /\ ~(c + 1 > D) /\ ~Reached(s.found, r.caller, c + 1)
      BY <1>5
    <3>2. ~(c + 1 > D)
      BY <1>5
    <3>3. c + 1 <= D
      BY <3>2
    <3>4. x.depth \in 1 .. D
      BY <1>2, <3>3
    <3>5. r.caller \in steps[c + 1]
      BY <3>1, <3>3 DEF Leads
    <3> QED
      BY <1>2, <3>1, <3>4, <3>5
  <2>2. FoundInv(s.found, steps, D) /\ Near(s.found, x.depth) /\ QueueInv(s, start, h)
    BY <1>2 DEF TurnInv
  <2>3. FoundInv(v.found, steps, D) /\ Near(v.found, x.depth) /\ Prolongs(s.found, v.found)
        /\ Reached(v.found, x.symbol, x.depth)
    BY <1>3, <1>5, <2>1, <2>2, FoundAppend
  <2>4. QueueInv(v, start, h)
    BY <1>1, <1>2, <1>5, <2>2, QueueAppend
  <2> QED
    BY <1>2, <2>3, <2>4 DEF v, TurnInv, Visited
<1> QED
  BY <1>1, <1>4, <1>5

\* Between two turns: the h-th symbol is next.
SearchInv(search, steps, start, D, h) ==
  /\ search \in SearchType
  /\ FoundInv(search.found, steps, D) /\ QueueInv(search, start, h) /\ Done(search.found, start, D, h)
  /\ search.queue # <<>> => Near(search.found, DepthAt(search.found, h) + 1)

\* A prefix of a prefix.
LEMMA ProlongsTwice ==
  ASSUME NEW T, NEW f \in Seq(T), NEW g \in Seq(T), NEW e \in Seq(T), Prolongs(f, g), Prolongs(g, e)
  PROVE  Prolongs(f, e)
<1>1. Len(f) \in Nat /\ Len(g) \in Nat /\ Len(e) \in Nat
  BY LengthIs
<1> QED
  BY <1>1 DEF Prolongs

\* A caller that has been met stays so when more is found.
LEMMA StillVisited ==
  ASSUME NEW T, NEW f \in Seq(T), NEW g \in Seq(T), Prolongs(f, g), NEW r, NEW c, NEW D, Visited(f, r, c, D)
  PROVE  Visited(g, r, c, D)
<1>1. Reached(f, r.caller, c + 1) => Reached(g, r.caller, c + 1)
  BY StillReached
<1> QED
  BY <1>1, Zenon DEF Visited

\* The head of the queue is the h-th symbol.
HeadFacts(search, steps, start, D, h) ==
  /\ h \in 0 .. Len(search.found) /\ Len(search.found) \in Nat
  /\ Head(search.queue).symbol = SymbolAt(search.found, start, h)
  /\ Head(search.queue).depth = DepthAt(search.found, h)
  /\ DepthAt(search.found, h) \in 0 .. D
  /\ SymbolAt(search.found, start, h) \in steps[DepthAt(search.found, h)]

\* The head of the queue: its depth, and what the search knows of it.
LEMMA HeadIs ==
  ASSUME NEW steps, NEW start, NEW D \in Nat, NEW h \in Nat, NEW search,
         SearchInv(search, steps, start, D, h), search.queue # <<>>, start \in steps[0]
  PROVE  HeadFacts(search, steps, start, D, h)
<1> DEFINE f == search.found
           q == search.queue
<1>1. search \in SearchType /\ QueueInv(search, start, h) /\ FoundInv(f, steps, D)
  BY DEF SearchInv
<1>2. Len(f) \in Nat /\ Len(q) \in Nat
  BY <1>1, SearchParts
<1>3. Head(q) = q[1] /\ Len(q) >= 1
  BY <1>1, PoppedIs
<1>4. h <= Len(f) + 1 /\ Len(q) = Len(f) + 1 - h
      /\ \A i \in 1 .. Len(q) : q[i].symbol = SymbolAt(f, start, h + i - 1) /\ q[i].depth = DepthAt(f, h + i - 1)
  BY <1>1 DEF QueueInv
<1> HIDE DEF f, q
<1>5. h \in 0 .. Len(f) /\ h + 1 - 1 = h /\ 1 \in 1 .. Len(q)
  BY <1>2, <1>3, <1>4
<1>6. Head(q).symbol = SymbolAt(f, start, h) /\ Head(q).depth = DepthAt(f, h)
  BY <1>3, <1>4, <1>5
<1>7. DepthAt(f, h) \in 0 .. D /\ SymbolAt(f, start, h) \in steps[DepthAt(f, h)]
  <2>1. CASE h = 0
    BY <2>1 DEF DepthAt, SymbolAt
  <2>2. CASE h # 0
    <3>1. h \in 1 .. Len(f)
      BY <1>2, <1>5, <2>2
    <3>2. f[h].depth \in 1 .. D /\ f[h].symbol \in steps[f[h].depth]
      BY <1>1, <3>1 DEF FoundInv
    <3> QED
      BY <2>2, <3>2 DEF DepthAt, SymbolAt
  <2> QED
    BY <2>1, <2>2
<1> QED
  BY <1>2, <1>5, <1>6, <1>7 DEF f, q, HeadFacts

\* Whoever calls a symbol is a step farther.
LEMMA LeadsOn ==
  ASSUME TablesInv, NEW steps, NEW start, NEW D \in Nat, Distances(steps, start, D),
         NEW c \in 0 .. D, NEW r \in ToSet(refs), r.symbol \in steps[c]
  PROVE  Leads(r, steps, c, D)
<1>1. c + 1 <= D => c + 1 \in 1 .. D /\ c + 1 - 1 = c
  OBVIOUS
<1>2. SUFFICES ASSUME c + 1 <= D, r.caller # ""
               PROVE  r.caller \in steps[c + 1]
  BY DEF Leads
<1>3. c + 1 \in 1 .. D /\ c + 1 - 1 = c
  BY <1>1, <1>2, Zenon
<1>4. steps[c + 1] = CallersOf(steps[c])
  BY <1>3 DEF Distances
<1>5. r.caller \in CallersOf(steps[c])
  <2>1. CallersOf(steps[c]) = {x.caller : x \in {y \in ToSet(refs) : y.symbol \in steps[c]}} \ {""}
    BY CallersAre
  <2>2. r \in {y \in ToSet(refs) : y.symbol \in steps[c]}
    OBVIOUS
  <2>3. r.caller \in {x.caller : x \in {y \in ToSet(refs) : y.symbol \in steps[c]}}
    BY <2>2
  <2> QED
    BY <1>2, <2>1, <2>3
<1> QED
  BY <1>4, <1>5

\* Where a turn begins.
LEMMA PoppedInv ==
  ASSUME NEW steps, NEW start, NEW D \in Nat, NEW h \in Nat, NEW search,
         SearchInv(search, steps, start, D, h), search.queue # <<>>, start \in steps[0]
  PROVE  TurnInv(Popped(search), steps, start, D, h + 1, Head(search.queue).depth)
<1> DEFINE f == search.found
           q == search.queue
           p == Popped(search).queue
<1>1. /\ search \in SearchType /\ QueueInv(search, start, h) /\ FoundInv(f, steps, D)
      /\ Near(f, DepthAt(f, h) + 1)
  BY DEF SearchInv
<1>2. /\ h \in 0 .. Len(f) /\ Len(f) \in Nat /\ Head(q).depth = DepthAt(f, h)
      /\ Len(q) \in Nat /\ Len(q) >= 1
      /\ Popped(search).found = f /\ Len(p) = Len(q) - 1 /\ \A i \in 1 .. Len(q) - 1 : p[i] = q[i + 1]
  <2>1. HeadFacts(search, steps, start, D, h)
    BY HeadIs
  <2> QED
    BY <1>1, <2>1, PoppedIs, SearchParts DEF HeadFacts
<1>3. Len(q) = Len(f) + 1 - h
      /\ \A i \in 1 .. Len(q) : q[i].symbol = SymbolAt(f, start, h + i - 1) /\ q[i].depth = DepthAt(f, h + i - 1)
  BY <1>1 DEF QueueInv
<1> HIDE DEF f, q, p
<1>4. h + 1 <= Len(f) + 1 /\ Len(p) = Len(f) + 1 - (h + 1)
  BY <1>2, <1>3
<1>5. ASSUME NEW i \in 1 .. Len(p)
      PROVE  p[i].symbol = SymbolAt(f, start, h + 1 + i - 1) /\ p[i].depth = DepthAt(f, h + 1 + i - 1)
  <2>1. i \in 1 .. Len(q) - 1 /\ i + 1 \in 1 .. Len(q) /\ h + (i + 1) - 1 = h + 1 + i - 1
    BY <1>2
  <2>2. p[i] = q[i + 1]
    BY <1>2, <2>1
  <2>3. /\ q[i + 1].symbol = SymbolAt(f, start, h + (i + 1) - 1)
        /\ q[i + 1].depth = DepthAt(f, h + (i + 1) - 1)
    BY <1>3, <2>1
  <2> QED
    BY <2>1, <2>2, <2>3
<1>6. QueueInv(Popped(search), start, h + 1)
  BY <1>2, <1>4, <1>5 DEF QueueInv, p
<1> QED
  BY <1>1, <1>2, <1>6 DEF TurnInv, f, q

\* A turn visits all callers.
LEMMA TurnVisits ==
  ASSUME TablesInv, NEW steps, NEW start, NEW D \in Nat, NEW h \in Nat, NEW search,
         SearchInv(search, steps, start, D, h), search.queue # <<>>, Distances(steps, start, D),
         NEW c \in Nat, c = Head(search.queue).depth,
         NEW symbol, symbol = Head(search.queue).symbol
  PROVE  LET v == Turn(refs, search, D)
         IN /\ v \in SearchType /\ TurnInv(v, steps, start, D, h + 1, c) /\ Prolongs(search.found, v.found)
            /\ \A r \in ToSet(refs) : r.symbol = symbol => Visited(v.found, r, c, D)
<1> DEFINE list == FindCallers(refs, symbol)
           n == Len(list)
<1>1. PICK run : TurnRun(run, search, D)
  BY TurnRunExists DEF SearchInv
<1>2. /\ run \in [0 .. n -> SearchType] /\ run[0] = Popped(search)
      /\ \A k \in 1 .. n : run[k] = Visit(run[k - 1], list[k], c + 1, D)
      /\ Turn(refs, search, D) = run[n]
  BY <1>1, Zenon DEF TurnRun
<1>3. /\ n \in Nat
      /\ \A i \in 1 .. n : list[i] \in RefType /\ list[i] \in ToSet(refs) /\ list[i].symbol = symbol
      /\ \A r \in ToSet(refs) : r.symbol = symbol => \E i \in 1 .. n : list[i] = r
  BY CallersType
<1>4. search \in SearchType /\ start \in steps[0] /\ h + 1 \in Nat
  BY DEF SearchInv, Distances
<1>5. c \in 0 .. D /\ symbol \in steps[c]
  <2>1. /\ Head(search.queue).symbol = SymbolAt(search.found, start, h)
        /\ Head(search.queue).depth = DepthAt(search.found, h)
        /\ DepthAt(search.found, h) \in 0 .. D
        /\ SymbolAt(search.found, start, h) \in steps[DepthAt(search.found, h)]
    <3>1. HeadFacts(search, steps, start, D, h)
      BY <1>4, HeadIs
    <3> QED
      BY <3>1, Zenon DEF HeadFacts
  <2> QED
    BY <2>1, Zenon
<1> HIDE DEF n, list
<1>6. \A k \in 1 .. n : Leads(list[k], steps, c, D)
  BY <1>3, <1>5, LeadsOn
<1> DEFINE Inv(k) == /\ TurnInv(run[k], steps, start, D, h + 1, c) /\ Prolongs(search.found, run[k].found)
                     /\ \A i \in 1 .. k : Visited(run[k].found, list[i], c, D)
           Good == {k \in 0 .. n : Inv(k)}
<1>7. 0 \in Good
  <2>1. TurnInv(run[0], steps, start, D, h + 1, c)
    BY <1>2, <1>4, PoppedInv
  <2>2. Prolongs(search.found, run[0].found)
    BY <1>2, <1>4, PoppedIs, SearchParts, ProlongsItself
  <2> QED
    BY <1>3, <2>1, <2>2
<1>8. \A k \in 1 .. n : k - 1 \in Good => k \in Good
  <2> SUFFICES ASSUME NEW k \in 1 .. n, Inv(k - 1)
               PROVE  Inv(k)
    BY <1>3
  <2>1. k - 1 \in 0 .. n /\ k \in 0 .. n
    BY <1>3
  <2>2. run[k - 1] \in SearchType /\ run[k] \in SearchType
    BY <1>2, <2>1
  <2> DEFINE a == run[k - 1]
             b == run[k]
  <2>3. a.found \in Seq(FoundType) /\ b.found \in Seq(FoundType) /\ search.found \in Seq(FoundType)
    BY <1>4, <2>2, SearchParts
  <2>4. b = Visit(a, list[k], c + 1, D)
    BY <1>2
  <2>5. TurnInv(a, steps, start, D, h + 1, c) /\ Prolongs(search.found, a.found)
        /\ \A i \in 1 .. k - 1 : Visited(a.found, list[i], c, D)
    OBVIOUS
  <2>6. a \in SearchType /\ list[k] \in RefType /\ Leads(list[k], steps, c, D)
    BY <1>3, <1>6, <2>2
  <2> HIDE DEF a, b
  <2>7. TurnInv(b, steps, start, D, h + 1, c) /\ Prolongs(a.found, b.found) /\ Visited(b.found, list[k], c, D)
    BY <1>4, <2>4, <2>5, <2>6, VisitKeeps
  <2>8. Prolongs(search.found, b.found)
    BY <2>3, <2>5, <2>7, ProlongsTwice
  <2>9. ASSUME NEW i \in 1 .. k
        PROVE  Visited(b.found, list[i], c, D)
    <3>1. CASE i = k
      BY <2>7, <3>1
    <3>2. CASE i # k
      <4>1. i \in 1 .. k - 1
        BY <3>2
      <4> QED
        BY <2>3, <2>5, <2>7, <4>1, StillVisited
    <3> QED
      BY <3>1, <3>2
  <2> QED
    BY <2>7, <2>8, <2>9 DEF b
<1>9. n \in Good
  <2> HIDE DEF Good
  <2>1. \A k \in 0 .. n : k \in Good
    BY <1>3, <1>7, <1>8, InductionTo
  <2> QED
    BY <1>3, <2>1
<1>10. Inv(n)
  BY <1>9
<1> DEFINE v == run[n]
<1>11. v \in SearchType
  BY <1>2, <1>3
<1>12. TurnInv(v, steps, start, D, h + 1, c) /\ Prolongs(search.found, v.found)
       /\ \A i \in 1 .. n : Visited(v.found, list[i], c, D)
  BY <1>10
<1> HIDE DEF v
<1>13. \A r \in ToSet(refs) : r.symbol = symbol => Visited(v.found, r, c, D)
  BY <1>3, <1>12
<1>14. Turn(refs, search, D) = v
  BY <1>2 DEF v
<1> QED
  BY <1>11, <1>12, <1>13, <1>14

\* A turn takes the next symbol.
LEMMA TurnKeeps ==
  ASSUME TablesInv, NEW steps, NEW start, NEW D \in Nat, NEW h \in Nat, NEW search,
         SearchInv(search, steps, start, D, h), search.queue # <<>>, Distances(steps, start, D)
  PROVE  SearchInv(Turn(refs, search, D), steps, start, D, h + 1)
<1> DEFINE c == Head(search.queue).depth
           symbol == Head(search.queue).symbol
           v == Turn(refs, search, D)
           f == search.found
           g == v.found
<1>1. search \in SearchType /\ start \in steps[0] /\ Done(f, start, D, h) /\ f \in Seq(FoundType)
  BY SearchParts DEF SearchInv, Distances
<1>2. HeadFacts(search, steps, start, D, h)
  BY <1>1, HeadIs
<1>3. /\ h \in 0 .. Len(f) /\ Len(f) \in Nat /\ symbol = SymbolAt(f, start, h) /\ c = DepthAt(f, h)
      /\ c \in 0 .. D
  BY <1>2, Zenon DEF HeadFacts
<1>4. c \in Nat
  BY <1>3
<1>5. /\ v \in SearchType /\ TurnInv(v, steps, start, D, h + 1, c) /\ Prolongs(f, g)
      /\ \A r \in ToSet(refs) : r.symbol = symbol => Visited(g, r, c, D)
  BY <1>4, TurnVisits
<1> HIDE DEF c, symbol, v
<1>6. g \in Seq(FoundType) /\ Len(g) \in Nat
  BY <1>5, SearchParts
<1> HIDE DEF f, g
<1>7. FoundInv(g, steps, D) /\ QueueInv(v, start, h + 1) /\ Near(g, c + 1)
  BY <1>5 DEF TurnInv, g
<1>8. Done(g, start, D, h)
  BY <1>1, <1>3, <1>5, <1>6, StillDone, h <= Len(f) + 1
<1>9. SymbolAt(g, start, h) = symbol /\ DepthAt(g, h) = c
  <2>1. CASE h = 0
    BY <1>3, <2>1 DEF SymbolAt, DepthAt
  <2>2. CASE h # 0
    <3>1. h \in 1 .. Len(f)
      BY <1>3, <2>2
    <3>2. g[h] = f[h]
      BY <1>5, <3>1 DEF Prolongs
    <3> QED
      BY <1>3, <2>2, <3>2 DEF SymbolAt, DepthAt
  <2> QED
    BY <2>1, <2>2
<1>10. Done(g, start, D, h + 1)
  <2> SUFFICES ASSUME NEW j \in 0 .. h + 1 - 1, NEW r \in ToSet(refs),
                      Counts(r, SymbolAt(g, start, j), DepthAt(g, j), D)
               PROVE  Reached(g, r.caller, DepthAt(g, j) + 1)
    BY DEF Done
  <2>1. CASE j = h
    <3>1. Counts(r, symbol, c, D)
      BY <1>9, <2>1
    <3>2. c + 1 <= D => ~(c + 1 > D)
      BY <1>3
    <3>3. r.symbol = symbol /\ r.caller # "" /\ c + 1 <= D
      BY <3>1 DEF Counts
    <3>4. Visited(g, r, c, D)
      BY <1>5, <3>3
    <3>5. Reached(g, r.caller, c + 1)
      BY <3>2, <3>3, <3>4, Zenon DEF Visited
    <3> QED
      BY <1>9, <2>1, <3>5
  <2>2. CASE j # h
    <3>1. j \in 0 .. h - 1
      BY <2>2
    <3> QED
      BY <1>8, <3>1 DEF Done
  <2> QED
    BY <2>1, <2>2
<1>11. ASSUME v.queue # <<>>
       PROVE  Near(g, DepthAt(g, h + 1) + 1)
  <2>1. Len(v.queue) # 0 /\ Len(v.queue) \in Nat
    <3> DEFINE I == ItemType
               q == v.queue
    <3>1. q \in Seq(I) /\ q # <<>>
      BY <1>5, <1>11, SearchParts
    <3> HIDE DEF I, q
    <3>2. Len(q) # 0 /\ Len(q) \in Nat
      BY <3>1
    <3> QED
      BY <3>2 DEF q
  <2>2. Len(v.queue) = Len(g) + 1 - (h + 1)
    BY <1>7 DEF QueueInv, g
  <2>3. h + 1 \in 1 .. Len(g) /\ h + 1 # 0
    BY <1>3, <1>6, <2>1, <2>2
  <2>4. /\ g[h + 1].depth \in 1 .. D
        /\ \A j \in 1 .. h : g[j].depth <= g[h + 1].depth
    <3>1. \A j \in 1 .. h + 1 - 1 : g[j].depth <= g[h + 1].depth
      BY <1>7, <2>3 DEF FoundInv
    <3>2. g[h + 1].depth \in 1 .. D
      BY <1>7, <2>3 DEF FoundInv
    <3> QED
      BY <3>1, <3>2
  <2>5. DepthAt(g, h + 1) = g[h + 1].depth
    BY <2>3 DEF DepthAt
  <2>6. DepthAt(g, h) <= g[h + 1].depth
    <3>1. CASE h = 0
      BY <2>4, <3>1 DEF DepthAt
    <3>2. CASE h # 0
      BY <2>4, <3>2 DEF DepthAt
    <3> QED
      BY <3>1, <3>2
  <2>7. c <= g[h + 1].depth /\ g[h + 1].depth \in Nat
    BY <1>9, <2>4, <2>6
  <2> DEFINE e == g[h + 1].depth
  <2> HIDE DEF e
  <2>8. Near(g, e + 1)
    <3> SUFFICES ASSUME NEW i \in 1 .. Len(g)
                 PROVE  g[i].depth <= e + 1
      BY DEF Near
    <3>1. g[i].depth <= c + 1
      BY <1>7 DEF Near
    <3>2. g[i].depth \in Nat
      BY <1>7 DEF FoundInv
    <3> QED
      BY <1>4, <2>7, <3>1, <3>2 DEF e
  <2> QED
    BY <2>5, <2>8 DEF e
<1> QED
  BY <1>5, <1>7, <1>10, <1>11 DEF SearchInv, v, g

\* What is put in different places has as many places.
LEMMA NoMore ==
  ASSUME NEW m \in Nat, NEW n \in Nat, NEW at \in [1 .. m -> 1 .. n],
         \A i, j \in 1 .. m : at[i] = at[j] => i = j
  PROVE  m <= n
<1>1. /\ IsFiniteSet(1 .. n) /\ Cardinality(1 .. n) = n
      /\ IsFiniteSet(1 .. m) /\ Cardinality(1 .. m) = m
  BY FS_Interval
<1>2. CASE n < m
  <2> DEFINE S == 1 .. m
             T == 1 .. n
  <2>1. IsFiniteSet(S) /\ IsFiniteSet(T) /\ Cardinality(T) < Cardinality(S) /\ at \in [S -> T]
    BY <1>1, <1>2
  <2>2. \A i, j \in S : at[i] = at[j] => i = j
    OBVIOUS
  <2> HIDE DEF S, T
  <2> QED
    BY <2>1, <2>2, FS_PigeonHole
<1> QED
  BY <1>2

\* A search that found something at its distance found a caller.
LEMMA FoundFew ==
  ASSUME TablesInv, NEW steps, NEW start, NEW D \in Nat, Distances(steps, start, D),
         NEW found \in Seq(FoundType), FoundInv(found, steps, D)
  PROVE  Len(found) <= Len(refs)
<1>1. Len(found) \in Nat /\ Len(refs) \in Nat /\ DOMAIN refs = 1 .. Len(refs)
  BY LengthIs, RefPlaces
<1>2. ASSUME NEW i \in 1 .. Len(found)
      PROVE  \E p \in 1 .. Len(refs) : refs[p].caller = found[i].symbol
  <2> DEFINE k == found[i].depth
             these == {q \in ToSet(refs) : q.symbol \in steps[k - 1]}
  <2>1. k \in 1 .. D /\ found[i].symbol \in steps[k]
    BY DEF FoundInv
  <2>2. steps[k] = CallersOf(steps[k - 1])
    BY <2>1 DEF Distances
  <2>3. CallersOf(steps[k - 1]) = {r.caller : r \in these} \ {""}
    BY CallersAre
  <2> HIDE DEF k, these
  <2>4. PICK r \in these : found[i].symbol = r.caller
    BY <2>1, <2>2, <2>3
  <2>5. r \in ToSet(refs)
    BY <2>4 DEF these
  <2>6. PICK p \in 1 .. Len(refs) : r = refs[p]
    BY <1>1, <2>5 DEF ToSet
  <2> QED
    BY <2>4, <2>6
<1>3. \A i, j \in 1 .. Len(found) : found[i].symbol = found[j].symbol => i = j
  <2> SUFFICES ASSUME NEW i \in 1 .. Len(found), NEW j \in 1 .. Len(found), found[i].symbol = found[j].symbol, j < i
               PROVE  FALSE
    BY <1>1
  <2>1. j \in 1 .. i - 1
    BY <1>1
  <2> QED
    BY <2>1 DEF FoundInv
<1> DEFINE at == [i \in 1 .. Len(found) |-> CHOOSE p \in 1 .. Len(refs) : refs[p].caller = found[i].symbol]
<1>4. \A i \in 1 .. Len(found) : at[i] \in 1 .. Len(refs) /\ refs[at[i]].caller = found[i].symbol
  BY <1>2
<1>5. at \in [1 .. Len(found) -> 1 .. Len(refs)]
  BY <1>4
<1>6. \A i, j \in 1 .. Len(found) : at[i] = at[j] => i = j
  BY <1>3, <1>4
<1> HIDE DEF at
<1> QED
  BY <1>1, <1>5, <1>6, NoMore

\* The state of the search after so many turns.
Searched(search, steps, start, D, turns) ==
  \E h \in Nat : SearchInv(search, steps, start, D, h) /\ (search.queue = <<>> \/ h = turns)

\* The search begins with the symbol asked for, at depth 0.
LEMMA SearchBegins ==
  ASSUME NEW steps, NEW start \in Scope, NEW D \in Nat,
         NEW search, search = [found |-> <<>>, queue |-> <<[symbol |-> start, depth |-> 0]>>],
         search \in SearchType
  PROVE  Searched(search, steps, start, D, 0)
<1> DEFINE y == [symbol |-> start, depth |-> 0]
           f == search.found
           q == search.queue
<1>1. f = <<>> /\ q = <<y>>
  OBVIOUS
<1>2. y.symbol = start /\ y.depth = 0
  OBVIOUS
<1> HIDE DEF y, f, q
<1>3. Len(f) = 0 /\ Len(q) = 1 /\ q[1] = y
  BY <1>1
<1>4. FoundInv(f, steps, D) /\ Near(f, 1)
  BY <1>3 DEF FoundInv, Near
<1>5. Done(f, start, D, 0)
  BY DEF Done
<1>6. ASSUME NEW i \in 1 .. Len(q)
      PROVE  q[i].symbol = SymbolAt(f, start, 0 + i - 1) /\ q[i].depth = DepthAt(f, 0 + i - 1)
  <2>1. i = 1 /\ 0 + i - 1 = 0
    BY <1>3
  <2>2. q[i] = y
    BY <1>3, <2>1
  <2> QED
    BY <1>2, <2>1, <2>2 DEF SymbolAt, DepthAt
<1>7. QueueInv(search, start, 0)
  BY <1>3, <1>6 DEF QueueInv, f, q
<1>8. Near(f, DepthAt(f, 0) + 1)
  BY <1>4 DEF DepthAt
<1>9. SearchInv(search, steps, start, D, 0)
  BY <1>4, <1>5, <1>7, <1>8 DEF SearchInv, f
<1> QED
  BY <1>9 DEF Searched

\* A turn keeps the invariant of the search.
LEMMA SearchTurns ==
  ASSUME TablesInv, NEW steps, NEW start, NEW D \in Nat, Distances(steps, start, D),
         NEW search, NEW turns \in Nat, Searched(search, steps, start, D, turns)
  PROVE  Searched(Turn(refs, search, D), steps, start, D, turns + 1)
<1>1. PICK h \in Nat : SearchInv(search, steps, start, D, h) /\ (search.queue = <<>> \/ h = turns)
  BY DEF Searched
<1>2. CASE search.queue = <<>>
  <2>1. Turn(refs, search, D) = search
    BY <1>2 DEF Turn
  <2> QED
    BY <1>1, <1>2, <2>1 DEF Searched
<1>3. CASE search.queue # <<>>
  <2>1. SearchInv(Turn(refs, search, D), steps, start, D, h + 1)
    BY <1>1, <1>3, TurnKeeps
  <2>2. h + 1 = turns + 1 /\ h + 1 \in Nat
    BY <1>1, <1>3
  <2> QED
    BY <2>1, <2>2 DEF Searched
<1> QED
  BY <1>2, <1>3

\* When the search ends, the callers of all that was found were found.
LEMMA SearchEnds ==
  ASSUME TablesInv, NEW steps, NEW start \in Scope, NEW D \in Nat, Distances(steps, start, D),
         NEW found, found = SearchCallers(refs, start, D).found
  PROVE  /\ found \in Seq(FoundType) /\ FoundInv(found, steps, D)
         /\ Done(found, start, D, Len(found) + 1)
<1> DEFINE n == Len(refs) + 1
<1>1. PICK run : SearchRun(run, start, D)
  BY SearchRunExists
<1>2. /\ run \in [0 .. n -> SearchType]
      /\ run[0] = [found |-> <<>>, queue |-> <<[symbol |-> start, depth |-> 0]>>]
      /\ \A k \in 1 .. n : run[k] = Turn(refs, run[k - 1], D)
      /\ SearchCallers(refs, start, D) = run[n]
  BY <1>1, Zenon DEF SearchRun
<1>3. n \in Nat /\ Len(refs) \in Nat
  BY RefPlaces
<1> HIDE DEF n
<1> DEFINE Good == {k \in 0 .. n : Searched(run[k], steps, start, D, k)}
<1>4. 0 \in Good
  <2>1. Searched(run[0], steps, start, D, 0)
    BY <1>2, <1>3, SearchBegins
  <2> QED
    BY <1>3, <2>1
<1>5. \A k \in 1 .. n : k - 1 \in Good => k \in Good
  <2> SUFFICES ASSUME NEW k \in 1 .. n, Searched(run[k - 1], steps, start, D, k - 1)
               PROVE  Searched(run[k], steps, start, D, k)
    BY <1>3
  <2>1. k - 1 \in Nat /\ k - 1 + 1 = k
    BY <1>3
  <2>2. Searched(Turn(refs, run[k - 1], D), steps, start, D, k - 1 + 1)
    BY <2>1, SearchTurns
  <2> QED
    BY <1>2, <2>1, <2>2
<1>6. n \in Good
  <2> HIDE DEF Good
  <2>1. \A k \in 0 .. n : k \in Good
    BY <1>3, <1>4, <1>5, InductionTo
  <2> QED
    BY <1>3, <2>1
<1> DEFINE last == run[n]
<1>7. Searched(last, steps, start, D, n)
  BY <1>6
<1>8. last \in SearchType /\ found = last.found
  BY <1>2, <1>3
<1> HIDE DEF last
<1>9. PICK h \in Nat : SearchInv(last, steps, start, D, h) /\ (last.queue = <<>> \/ h = n)
  BY <1>7 DEF Searched
<1>10. FoundInv(found, steps, D) /\ QueueInv(last, start, h) /\ Done(found, start, D, h)
  BY <1>8, <1>9 DEF SearchInv
<1>11. found \in Seq(FoundType) /\ Len(found) \in Nat /\ Len(last.queue) \in Nat
  BY <1>8, SearchParts
<1>12. Len(found) <= Len(refs)
  BY <1>10, <1>11, FoundFew
<1>13. h <= Len(found) + 1 /\ Len(last.queue) = Len(found) + 1 - h
  BY <1>8, <1>10 DEF QueueInv
<1>14. h = Len(found) + 1
  <2>1. CASE last.queue = <<>>
    BY <1>11, <1>13, <2>1
  <2>2. CASE h = n
    BY <1>3, <1>11, <1>12, <1>13, <2>2 DEF n
  <2> QED
    BY <1>9, <2>1, <2>2
<1> QED
  BY <1>10, <1>11, <1>14

\* The search reaches what is at a distance, and no later.
LEMMA AllReached ==
  ASSUME TablesInv, NEW steps, NEW start, NEW D \in Nat, Distances(steps, start, D),
         NEW found \in Seq(FoundType), FoundInv(found, steps, D), Done(found, start, D, Len(found) + 1)
  PROVE  \A k \in 1 .. D : \A x \in steps[k] : Reached(found, x, k)
<1>1. Len(found) \in Nat /\ DOMAIN found = 1 .. Len(found)
  BY LengthIs
<1> DEFINE Good == {k \in 0 .. D : k = 0 \/ \A x \in steps[k] : Reached(found, x, k)}
<1>2. 0 \in Good
  OBVIOUS
<1>3. ASSUME NEW k \in 1 .. D, k - 1 \in Good, NEW x \in steps[k]
      PROVE  Reached(found, x, k)
  <2> DEFINE these == {q \in ToSet(refs) : q.symbol \in steps[k - 1]}
  <2>1. steps[k] = CallersOf(steps[k - 1])
    BY DEF Distances
  <2>2. CallersOf(steps[k - 1]) = {r.caller : r \in these} \ {""}
    BY CallersAre
  <2> HIDE DEF these
  <2>3. PICK r \in these : x = r.caller
    BY <2>1, <2>2
  <2>4. x # ""
    BY <2>1, <2>2
  <2>5. r \in ToSet(refs) /\ r.symbol \in steps[k - 1]
    BY <2>3 DEF these
  <2>6. PICK j \in 0 .. Len(found) : r.symbol = SymbolAt(found, start, j) /\ DepthAt(found, j) + 1 <= k
                                     /\ DepthAt(found, j) \in Nat
    <3>1. CASE k = 1
      <4>1. k - 1 = 0
        BY <3>1
      <4>2. r.symbol = start
        BY <2>5, <4>1 DEF Distances
      <4>3. SymbolAt(found, start, 0) = start /\ DepthAt(found, 0) = 0 /\ 0 \in 0 .. Len(found)
        BY <1>1 DEF SymbolAt, DepthAt
      <4>4. DepthAt(found, 0) + 1 <= k /\ DepthAt(found, 0) \in Nat
        BY <3>1, <4>3
      <4> QED
        BY <4>2, <4>3, <4>4
    <3>2. CASE k # 1
      <4>1. k - 1 # 0
        BY <3>2
      <4>2. Reached(found, r.symbol, k - 1)
        BY <1>3, <2>5, <4>1
      <4>3. PICK i \in 1 .. Len(found) : found[i].symbol = r.symbol /\ found[i].depth <= k - 1
        BY <1>1, <4>2 DEF Reached
      <4>4. SymbolAt(found, start, i) = r.symbol /\ DepthAt(found, i) = found[i].depth /\ i \in 0 .. Len(found)
        BY <1>1, <4>3 DEF SymbolAt, DepthAt
      <4>5. found[i].depth \in 1 .. D
        BY DEF FoundInv
      <4>6. DepthAt(found, i) + 1 <= k /\ DepthAt(found, i) \in Nat
        BY <4>3, <4>4, <4>5
      <4> QED
        BY <4>4, <4>6
    <3> QED
      BY <3>1, <3>2
  <2> DEFINE d == DepthAt(found, j)
  <2>7. d + 1 <= D /\ d + 1 <= k /\ d \in Nat
    BY <2>6
  <2>8. Counts(r, SymbolAt(found, start, j), d, D)
    BY <2>3, <2>4, <2>6, <2>7, Zenon DEF Counts
  <2>9. j \in 0 .. Len(found) + 1 - 1
    BY <1>1
  <2>10. Reached(found, r.caller, d + 1)
    BY <2>5, <2>8, <2>9 DEF Done
  <2> HIDE DEF d
  <2>11. PICK i \in 1 .. Len(found) : found[i].symbol = x /\ found[i].depth <= d + 1
    BY <1>1, <2>3, <2>10 DEF Reached
  <2>12. found[i].depth \in 1 .. D
    BY DEF FoundInv
  <2>13. found[i].depth <= k
    BY <2>7, <2>11, <2>12
  <2> QED
    BY <1>1, <2>11, <2>13 DEF Reached
<1>4. \A k \in 1 .. D : k - 1 \in Good => k \in Good
  BY <1>3
<1>5. \A k \in 0 .. D : k \in Good
  <2> HIDE DEF Good
  <2> QED
    BY <1>2, <1>4, InductionTo
<1> QED
  BY <1>5

\* The functions from which the start is reached, by their distance.
StepsOf(start, D) ==
  CHOOSE h : h = [k \in 0 .. D |-> IF k = 0 THEN {start} ELSE CallersOf(h[k - 1])]

\* The sets of the functions a number of calls away, as a recursive function.
LEMMA StepsAre ==
  ASSUME NEW start, NEW D \in Nat
  PROVE  Distances(StepsOf(start, D), start, D)
<1> DEFINE A == SUBSET ({start} \cup {Enclosing(n) : n \in References})
           base == {start}
           step == [p \in A \X (1 .. D) |-> CallersOf(p[1])]
           Eq(h) == [k \in 0 .. D |-> IF k = 0 THEN base ELSE CallersOf(h[k - 1])]
           steps == CHOOSE h : h = Eq(h)
<1>1. base \in A
  OBVIOUS
<1>2. ASSUME NEW names
      PROVE  CallersOf(names) \in A
  BY DEF CallersOf
<1> HIDE DEF A, base
<1>3. step \in Steps(A, D)
  BY <1>2 DEF Steps
<1>4. \A a \in A, k \in 1 .. D : step[<<a, k>>] = CallersOf(a)
  OBVIOUS
<1> HIDE DEF step
<1>5. PICK run : IsRun(run, D, A, base, step)
  BY <1>1, <1>3, RunExists
<1>6. run \in [0 .. D -> A] /\ run[0] = base /\ \A k \in 1 .. D : run[k] = CallersOf(run[k - 1])
  <2>1. \A k \in 1 .. D : k - 1 \in 0 .. D
    OBVIOUS
  <2> QED
    BY <1>4, <1>5, <2>1 DEF IsRun
<1>7. run = Eq(run)
  <2>1. \A k \in 0 .. D : k # 0 => k \in 1 .. D
    OBVIOUS
  <2> QED
    BY <1>6, <2>1
<1>8. steps = Eq(steps)
  BY <1>7
<1>9. StepsOf(start, D) = steps
  BY DEF StepsOf, base
<1> HIDE DEF steps
<1>10. steps[0] = base
  BY <1>8, 0 \in 0 .. D
<1>11. \A k \in 1 .. D : steps[k] = CallersOf(steps[k - 1])
  BY <1>8, \A k \in 1 .. D : k \in 0 .. D /\ k # 0
<1> QED
  BY <1>9, <1>10, <1>11 DEF Distances, base

\* What a blast radius has to be.
Radius(found, start, depth, steps) ==
  /\ {d.symbol : d \in ToSet(found)} = UNION {steps[k] : k \in 1 .. depth}
  /\ \A i \in DOMAIN found :
       /\ found[i].depth = Min({k \in 1 .. depth : found[i].symbol \in steps[k]})
       /\ \A j \in 1 .. i - 1 : found[j].symbol # found[i].symbol /\ found[j].depth <= found[i].depth

\* What the search finds: each function within the depth, at its distance.
LEMMA RadiusIs ==
  ASSUME TablesInv, NEW steps, NEW start \in Scope, NEW D \in Nat, Distances(steps, start, D),
         NEW found, found = SearchCallers(refs, start, D).found
  PROVE  Radius(found, start, D, steps)
<1>1. /\ found \in Seq(FoundType) /\ FoundInv(found, steps, D)
      /\ Done(found, start, D, Len(found) + 1)
  BY SearchEnds
<1>2. \A k \in 1 .. D : \A x \in steps[k] : Reached(found, x, k)
  BY <1>1, AllReached
<1>3. Len(found) \in Nat /\ DOMAIN found = 1 .. Len(found)
  BY <1>1, LengthIs
<1>4. ASSUME NEW d \in ToSet(found)
      PROVE  d.symbol \in UNION {steps[k] : k \in 1 .. D}
  <2>1. PICK i \in 1 .. Len(found) : d = found[i]
    BY <1>3 DEF ToSet
  <2>2. found[i].depth \in 1 .. D /\ found[i].symbol \in steps[found[i].depth]
    BY <1>1 DEF FoundInv
  <2> QED
    BY <2>1, <2>2
<1>5. ASSUME NEW x \in UNION {steps[k] : k \in 1 .. D}
      PROVE  \E d \in ToSet(found) : x = d.symbol
  <2>1. PICK k \in 1 .. D : x \in steps[k]
    OBVIOUS
  <2>2. PICK i \in 1 .. Len(found) : found[i].symbol = x
    BY <1>2, <1>3, <2>1 DEF Reached
  <2>3. found[i] \in ToSet(found)
    BY <1>3 DEF ToSet
  <2> QED
    BY <2>2, <2>3
<1>6. {d.symbol : d \in ToSet(found)} = UNION {steps[k] : k \in 1 .. D}
  BY <1>4, <1>5
<1>7. ASSUME NEW i \in 1 .. Len(found)
      PROVE  found[i].depth = Min({k \in 1 .. D : found[i].symbol \in steps[k]})
  <2> DEFINE S == {k \in 1 .. D : found[i].symbol \in steps[k]}
             d == found[i].depth
  <2>1. d \in S
    BY <1>1 DEF FoundInv
  <2>2. ASSUME NEW k \in S
        PROVE  d <= k
    <3>1. PICK j \in 1 .. Len(found) : found[j].symbol = found[i].symbol /\ found[j].depth <= k
      BY <1>2, <1>3 DEF Reached
    <3>2. CASE j = i
      BY <3>1, <3>2
    <3>3. CASE j # i
      <4>1. j \in 1 .. i - 1 \/ i \in 1 .. j - 1
        BY <1>3, <3>3
      <4> QED
        BY <1>1, <3>1, <4>1 DEF FoundInv
    <3> QED
      BY <3>2, <3>3
  <2>3. S \in SUBSET Nat
    OBVIOUS
  <2> HIDE DEF S, d
  <2>4. Min(S) \in S /\ Min(S) <= d
    BY <2>1, <2>3, MinIs
  <2>5. d <= Min(S) /\ d \in Nat /\ Min(S) \in Nat
    BY <2>1, <2>2, <2>3, <2>4
  <2>6. d = Min(S)
    BY <2>4, <2>5
  <2> QED
    BY <2>6 DEF S, d
<1>8. \A i \in 1 .. Len(found) : \A j \in 1 .. i - 1 :
        found[j].symbol # found[i].symbol /\ found[j].depth <= found[i].depth
  BY <1>1 DEF FoundInv
<1> QED
  BY <1>3, <1>6, <1>7, <1>8 DEF Radius

\* The answer to blast_radius, in the words of the property.
\* What the property says of one answer.
RadiusOf(start, maxDepth, found) ==
  LET depth == IF maxDepth <= 0 THEN 5 ELSE maxDepth
      steps[k \in 0 .. depth] == IF k = 0 THEN {start} ELSE CallersOf(steps[k - 1])
  IN /\ {d.symbol : d \in ToSet(found)} = UNION {steps[k] : k \in 1 .. depth}
     /\ \A i \in DOMAIN found :
          /\ found[i].depth = Min({k \in 1 .. depth : found[i].symbol \in steps[k]})
          /\ \A j \in 1 .. i - 1 : found[j].symbol # found[i].symbol /\ found[j].depth <= found[i].depth

\* GetBlastRadius, with the default depth.
LEMMA RadiusExact ==
  ASSUME TablesInv, NEW start \in STRING, NEW maxDepth \in Int,
         NEW found, found = GetBlastRadius(refs, start, maxDepth)
  PROVE  RadiusOf(start, maxDepth, found)
<1> DEFINE depth == IF maxDepth <= 0 THEN 5 ELSE maxDepth
<1>1. depth \in Nat
  OBVIOUS
<1>2. found = SearchCallers(refs, start, depth).found
  BY DEF GetBlastRadius
<1>3. start \in Scope
  BY DEF Scope
<1> HIDE DEF depth
<1>4. Radius(found, start, depth, StepsOf(start, depth))
  BY <1>1, <1>2, <1>3, StepsAre, RadiusIs
<1> QED
  BY <1>4, Zenon DEF RadiusOf, Radius, StepsOf, depth

-----------------------------------------------------------------------------
(***************************************************************************)
(* Sums, and how a sum falls apart.                                        *)
(***************************************************************************)

(***************************************************************************)
(* Sums.                                                                   *)
(***************************************************************************)

\* A function on 1 .. n is a sequence.
LEMMA AsSequence ==
  ASSUME NEW T, NEW n \in Nat, NEW a \in [1 .. n -> T]
  PROVE  a \in Seq(T) /\ Len(a) = n /\ DOMAIN a = 1 .. n /\ \A i \in 1 .. n : a[i] \in T
OBVIOUS

\* The sums of the beginnings.
Sums(run, n, a) ==
  /\ run \in [0 .. n -> Int] /\ run[0] = 0
  /\ \A k \in 1 .. n : run[k] = run[k - 1] + a[k] /\ run[k - 1] \in Int /\ a[k] \in Int
  /\ Total(a) = run[n] /\ Total(a) \in Int

\* The run of the sum of a function on 1 .. n.
LEMMA SumsExist ==
  ASSUME NEW n \in Nat, NEW a \in [1 .. n -> Int]
  PROVE  \E run : Sums(run, n, a)
<1>1. a \in Seq(Int) /\ Len(a) = n
  BY AsSequence
<1>2. PICK run : TotalRun(run, a)
  BY <1>1, TotalRunExists
<1>3. \A k \in 1 .. n : k - 1 \in 0 .. n
  OBVIOUS
<1>4. Sums(run, n, a)
  BY <1>1, <1>2, <1>3, n \in 0 .. n DEF TotalRun, Sums
<1> QED
  BY <1>4

\* One number more.
LEMMA TotalChange ==
  ASSUME NEW n \in Nat, NEW a \in [1 .. n -> Int], NEW b \in [1 .. n -> Int],
         NEW i \in 1 .. n, NEW x \in Int, b[i] = a[i] + x, \A j \in 1 .. n : j # i => b[j] = a[j]
  PROVE  Total(b) = Total(a) + x
<1>1. PICK r : Sums(r, n, a)
  BY SumsExist
<1>2. PICK s : Sums(s, n, b)
  BY SumsExist
<1> DEFINE Good == {k \in 0 .. n : (k < i => s[k] = r[k]) /\ (k >= i => s[k] = r[k] + x)}
<1>3. 0 \in Good
  BY <1>1, <1>2 DEF Sums
<1>4. ASSUME NEW k \in 1 .. n, k - 1 \in Good
      PROVE  k \in Good
  <2>1. /\ r[k] = r[k - 1] + a[k] /\ r[k - 1] \in Int /\ a[k] \in Int
        /\ s[k] = s[k - 1] + b[k] /\ s[k - 1] \in Int /\ b[k] \in Int
    BY <1>1, <1>2 DEF Sums
  <2>2. CASE k < i
    BY <1>4, <2>1, <2>2
  <2>3. CASE k = i
    BY <1>4, <2>1, <2>3
  <2>4. CASE k > i
    <3>1. b[k] = a[k] /\ k - 1 >= i /\ ~(k < i)
      BY <2>4
    <3>2. s[k - 1] = r[k - 1] + x
      BY <1>4, <3>1
    <3>3. s[k] = r[k] + x
      BY <2>1, <3>1, <3>2
    <3> QED
      BY <3>1, <3>3
  <2> QED
    BY <2>2, <2>3, <2>4
<1>5. n \in Good
  <2> HIDE DEF Good
  <2>1. \A k \in 0 .. n : k \in Good
    BY <1>3, <1>4, InductionTo
  <2> QED
    BY <2>1
<1>6. s[n] = r[n] + x
  BY <1>5
<1> QED
  BY <1>1, <1>2, <1>6 DEF Sums

\* 17 parts and 20 parts.
AtMost(n, a, b) == \A i \in 1 .. n : 20 * a[i] <= 17 * b[i]

\* When each is at most 17/20 of another, so is the sum.
LEMMA TotalAtMost ==
  ASSUME NEW n \in Nat, NEW a \in [1 .. n -> Int], NEW b \in [1 .. n -> Int],
         AtMost(n, a, b)
  PROVE  20 * Total(a) <= 17 * Total(b)
<1>1. PICK r : Sums(r, n, a)
  BY SumsExist
<1>2. PICK s : Sums(s, n, b)
  BY SumsExist
<1> DEFINE Good == {k \in 0 .. n : 20 * r[k] <= 17 * s[k]}
<1>3. 0 \in Good
  BY <1>1, <1>2 DEF Sums
<1>4. ASSUME NEW k \in 1 .. n, k - 1 \in Good
      PROVE  k \in Good
  <2>1. /\ r[k] = r[k - 1] + a[k] /\ r[k - 1] \in Int /\ a[k] \in Int
        /\ s[k] = s[k - 1] + b[k] /\ s[k - 1] \in Int /\ b[k] \in Int
    BY <1>1, <1>2 DEF Sums
  <2>2. 20 * r[k - 1] <= 17 * s[k - 1] /\ 20 * a[k] <= 17 * b[k]
    BY <1>4 DEF AtMost
  <2> DEFINE p == r[k - 1]
             q == s[k - 1]
             c == a[k]
             d == b[k]
  <2>3. p \in Int /\ q \in Int /\ c \in Int /\ d \in Int /\ 20 * p <= 17 * q /\ 20 * c <= 17 * d
    BY <2>1, <2>2
  <2> HIDE DEF p, q, c, d
  <2>4. 20 * (p + c) <= 17 * (q + d)
    BY <2>3
  <2>5. r[k] = p + c /\ s[k] = q + d
    BY <2>1 DEF p, q, c, d
  <2> QED
    BY <2>4, <2>5
<1>5. n \in Good
  <2> HIDE DEF Good
  <2>1. \A k \in 0 .. n : k \in Good
    BY <1>3, <1>4, InductionTo
  <2> QED
    BY <2>1
<1>6. 20 * r[n] <= 17 * s[n]
  BY <1>5
<1> QED
  BY <1>1, <1>2, <1>6 DEF Sums

\* A bit more for everybody.
IsTimes(product, n, x) == product = n * x

\* Each is at most x more than another.
Above(n, a, b, x) == \A i \in 1 .. n : a[i] <= x + b[i]

\* When each is at most x more than another, the sum is at most n times x more.
LEMMA TotalMore ==
  ASSUME NEW n \in Nat, NEW a \in [1 .. n -> Int], NEW b \in [1 .. n -> Int], NEW x \in Int,
         Above(n, a, b, x), NEW bound, IsTimes(bound, n, x)
  PROVE  Total(a) <= bound + Total(b)
<1>1. PICK r : Sums(r, n, a)
  BY SumsExist
<1>2. PICK s : Sums(s, n, b)
  BY SumsExist
<1> DEFINE Good == {k \in 0 .. n : r[k] <= k * x + s[k]}
<1>3. 0 \in Good
  <2>1. 0 * x = 0
    OBVIOUS
  <2> QED
    BY <1>1, <1>2, <2>1 DEF Sums
<1>4. ASSUME NEW k \in 1 .. n, k - 1 \in Good
      PROVE  k \in Good
  <2>1. /\ r[k] = r[k - 1] + a[k] /\ r[k - 1] \in Int /\ a[k] \in Int
        /\ s[k] = s[k - 1] + b[k] /\ s[k - 1] \in Int /\ b[k] \in Int
    BY <1>1, <1>2 DEF Sums
  <2>2. r[k - 1] <= (k - 1) * x + s[k - 1] /\ a[k] <= x + b[k]
    BY <1>4 DEF Above
  <2>3. (k - 1) * x + x = k * x /\ k * x \in Int /\ (k - 1) * x \in Int
    OBVIOUS
  <2> DEFINE p == r[k - 1]
             q == s[k - 1]
             c == a[k]
             d == b[k]
             y == (k - 1) * x
             z == k * x
  <2>4. /\ p \in Int /\ q \in Int /\ c \in Int /\ d \in Int /\ y \in Int /\ z \in Int
        /\ p <= y + q /\ c <= x + d /\ y + x = z
    BY <2>1, <2>2, <2>3
  <2> HIDE DEF p, q, c, d, y, z
  <2>5. p + c <= z + (q + d)
    BY <2>4
  <2> QED
    BY <2>1, <2>5 DEF p, q, c, d, z
<1>5. n \in Good
  <2> HIDE DEF Good
  <2>1. \A k \in 0 .. n : k \in Good
    BY <1>3, <1>4, InductionTo
  <2> QED
    BY <2>1
<1>6. r[n] <= n * x + s[n]
  BY <1>5
<1> QED
  BY <1>1, <1>2, <1>6 DEF Sums, IsTimes

\* What belongs to one of several.
PartOf(w, M, at, s) == [p \in 1 .. M |-> IF at[p] = s THEN w[p] ELSE 0]
\* The sum of the weights in a part.
Part(w, M, at, s) == Total(PartOf(w, M, at, s))

\* The weights of what lies in a part.
LEMMA PartType ==
  ASSUME NEW M \in Nat, NEW w \in [1 .. M -> Int], NEW at, NEW s
  PROVE  PartOf(w, M, at, s) \in [1 .. M -> Int] /\ Part(w, M, at, s) \in Int
<1>1. PartOf(w, M, at, s) \in [1 .. M -> Int]
  BY DEF PartOf
<1>2. PICK r : Sums(r, M, PartOf(w, M, at, s))
  BY <1>1, SumsExist
<1> QED
  BY <1>1, <1>2 DEF Sums, Part

\* However it is divided, the parts make up the whole.
LEMMA PartsAreAll ==
  ASSUME NEW M \in Nat, NEW N \in Nat, NEW w \in [1 .. M -> Int], NEW at \in [1 .. M -> 1 .. N]
  PROVE  Total([s \in 1 .. N |-> Part(w, M, at, s)]) = Total(w)
<1> DEFINE runs == [s \in 1 .. N |-> CHOOSE run : Sums(run, M, PartOf(w, M, at, s))]
           row(k) == [s \in 1 .. N |-> runs[s][k]]
<1>1. \A s \in 1 .. N : Sums(runs[s], M, PartOf(w, M, at, s))
  BY PartType, SumsExist
<1> HIDE DEF runs
<1>2. \A s \in 1 .. N :
        /\ runs[s] \in [0 .. M -> Int] /\ runs[s][0] = 0
        /\ \A k \in 1 .. M : runs[s][k] = runs[s][k - 1] + (IF at[k] = s THEN w[k] ELSE 0)
        /\ runs[s][M] = Part(w, M, at, s)
  BY <1>1 DEF Sums, PartOf, Part
<1>3. \A k \in 0 .. M : row(k) \in [1 .. N -> Int]
  BY <1>2
<1>4. PICK r : Sums(r, M, w)
  BY SumsExist
<1> DEFINE Good == {k \in 0 .. M : Total(row(k)) = r[k]}
<1>5. 0 \in Good
  <2>1. row(0) \in [1 .. N -> Int] /\ \A s \in 1 .. N : row(0)[s] = 0
    BY <1>2, <1>3
  <2> HIDE DEF row
  <2>2. Total(row(0)) = 0
    <3>1. PICK t : Sums(t, N, row(0))
      BY <2>1, SumsExist
    <3> DEFINE Zero == {k \in 0 .. N : t[k] = 0}
    <3>2. 0 \in Zero
      BY <3>1 DEF Sums
    <3>3. ASSUME NEW k \in 1 .. N, k - 1 \in Zero
          PROVE  k \in Zero
      <4>1. t[k] = t[k - 1] + row(0)[k]
        BY <3>1 DEF Sums
      <4>2. row(0)[k] = 0 /\ t[k - 1] = 0
        BY <2>1, <3>3
      <4> QED
        BY <4>1, <4>2
    <3>4. N \in Zero
      <4> HIDE DEF Zero
      <4>1. \A k \in 0 .. N : k \in Zero
        BY <3>2, <3>3, InductionTo
      <4> QED
        BY <4>1
    <3> QED
      BY <3>1, <3>4 DEF Sums
  <2> QED
    BY <1>4, <2>2 DEF Sums
<1>6. ASSUME NEW k \in 1 .. M, k - 1 \in Good
      PROVE  k \in Good
  <2>1. k - 1 \in 0 .. M /\ k \in 0 .. M /\ at[k] \in 1 .. N /\ w[k] \in Int
    OBVIOUS
  <2>2. /\ row(k)[at[k]] = row(k - 1)[at[k]] + w[k]
        /\ \A s \in 1 .. N : s # at[k] => row(k)[s] = row(k - 1)[s]
    <3>1. ASSUME NEW s \in 1 .. N
          PROVE  /\ row(k)[s] = runs[s][k] /\ row(k - 1)[s] = runs[s][k - 1] /\ runs[s][k - 1] \in Int
                 /\ runs[s][k] = runs[s][k - 1] + (IF at[k] = s THEN w[k] ELSE 0)
      BY <1>2, <2>1
    <3>2. \A s \in 1 .. N : row(k)[s] = row(k - 1)[s] + (IF at[k] = s THEN w[k] ELSE 0) /\ row(k - 1)[s] \in Int
      BY <3>1
    <3> HIDE DEF row
    <3>3. row(k)[at[k]] = row(k - 1)[at[k]] + w[k]
      BY <2>1, <3>2
    <3>4. ASSUME NEW s \in 1 .. N, s # at[k]
          PROVE  row(k)[s] = row(k - 1)[s]
      <4>1. row(k)[s] = row(k - 1)[s] + 0 /\ row(k - 1)[s] \in Int
        BY <3>2, <3>4
      <4> QED
        BY <4>1
    <3> QED
      BY <3>3, <3>4
  <2>3. row(k) \in [1 .. N -> Int] /\ row(k - 1) \in [1 .. N -> Int]
    BY <1>3, <2>1
  <2>4. Total(row(k - 1)) = r[k - 1]
    BY <1>6
  <2>5. r[k] = r[k - 1] + w[k]
    BY <1>4 DEF Sums
  <2> HIDE DEF row
  <2>6. Total(row(k)) = Total(row(k - 1)) + w[k]
    BY <2>1, <2>2, <2>3, TotalChange
  <2> QED
    BY <2>1, <2>4, <2>5, <2>6
<1>7. M \in Good
  <2> HIDE DEF Good
  <2>1. \A k \in 0 .. M : k \in Good
    BY <1>5, <1>6, InductionTo
  <2> QED
    BY <2>1
<1>8. row(M) = [s \in 1 .. N |-> Part(w, M, at, s)]
  BY <1>2
<1> QED
  BY <1>4, <1>7, <1>8 DEF Sums

\* A list of different things that have a score.
Scored(e, N) ==
  (\A i \in 1 .. N : e[i].score \in Int) /\ \A i, j \in 1 .. N : e[i] = e[j] => i = j

\* The scores of those in a set.
Weights(e, N, s) == [i \in 1 .. N |-> IF e[i] \in s THEN e[i].score ELSE 0]

\* The weights of some of the elements.
LEMMA WeightsAre ==
  ASSUME NEW N \in Nat, NEW e, Scored(e, N), NEW s
  PROVE  Weights(e, N, s) \in [1 .. N -> Int] /\ Total(Weights(e, N, s)) \in Int
<1>1. Weights(e, N, s) \in [1 .. N -> Int]
  BY DEF Weights, Scored
<1>2. PICK run : Sums(run, N, Weights(e, N, s))
  BY <1>1, SumsExist
<1> QED
  BY <1>1, <1>2 DEF Sums

\* One element less.
LEMMA WeightsLess ==
  ASSUME NEW N \in Nat, NEW e, Scored(e, N),
         NEW s, NEW i \in 1 .. N, e[i] \in s
  PROVE  Total(Weights(e, N, s)) = e[i].score + Total(Weights(e, N, s \ {e[i]}))
<1> DEFINE a == Weights(e, N, s \ {e[i]})
           b == Weights(e, N, s)
<1>1. a \in [1 .. N -> Int] /\ b \in [1 .. N -> Int] /\ Total(a) \in Int
  BY WeightsAre
<1>2. a[i] = 0 /\ b[i] = e[i].score
  BY DEF Weights
<1>3. \A j \in 1 .. N : j # i => b[j] = a[j]
  BY DEF Weights, Scored
<1>4. e[i].score \in Int
  BY DEF Scored
<1> DEFINE x == e[i].score
<1>5. x \in Int /\ b[i] = a[i] + x
  BY <1>2, <1>4
<1> HIDE DEF a, b, x
<1>6. Total(b) = Total(a) + x
  BY <1>1, <1>3, <1>5, TotalChange
<1>7. Total(b) = x + Total(a)
  BY <1>1, <1>5, <1>6
<1> QED
  BY <1>7 DEF a, b, x

\* The sum over a set is the sum over a list of it.
LEMMA ScoresSum ==
  ASSUME NEW N \in Nat, NEW e, Scored(e, N),
         NEW S, S = {e[i] : i \in 1 .. N}
  PROVE  MapThenSumSet(LAMBDA r : r.score, S) = Total([i \in 1 .. N |-> e[i].score])
<1> DEFINE Eq(h) == [s \in SUBSET S |-> IF s = {} THEN 0
                                        ELSE LET x == CHOOSE x \in s : TRUE IN x.score + h[s \ {x}]]
           iter == CHOOSE h : h = Eq(h)
           G == [s \in SUBSET S |-> Total(Weights(e, N, s))]
           first(s) == CHOOSE x \in s : TRUE
<1>1. MapThenSumSet(LAMBDA r : r.score, S) = iter[S]
  BY Zenon DEF MapThenSumSet, MapThenFoldSet
<1>2. ASSUME NEW s \in SUBSET S, s # {}
      PROVE  /\ first(s) \in s /\ s \ {first(s)} \in SUBSET S
             /\ Total(Weights(e, N, s)) = first(s).score + Total(Weights(e, N, s \ {first(s)}))
  <2>1. first(s) \in s
    BY <1>2
  <2> HIDE DEF first
  <2>2. PICK i \in 1 .. N : first(s) = e[i]
    BY <2>1
  <2>3. e[i] \in s
    BY <2>1, <2>2
  <2>4. Total(Weights(e, N, s)) = e[i].score + Total(Weights(e, N, s \ {e[i]}))
    BY <2>3, WeightsLess
  <2> QED
    BY <2>1, <2>2, <2>4
<1>3. Total(Weights(e, N, {})) = 0
  <2> DEFINE a == Weights(e, N, {})
  <2>1. a \in [1 .. N -> Int] /\ \A i \in 1 .. N : a[i] = 0
    BY WeightsAre DEF Weights
  <2> HIDE DEF a
  <2>2. PICK t : Sums(t, N, a)
    BY <2>1, SumsExist
  <2> DEFINE Zero == {k \in 0 .. N : t[k] = 0}
  <2>3. 0 \in Zero
    BY <2>2 DEF Sums
  <2>4. ASSUME NEW k \in 1 .. N, k - 1 \in Zero
        PROVE  k \in Zero
    <3>1. t[k] = t[k - 1] + a[k]
      BY <2>2 DEF Sums
    <3>2. a[k] = 0 /\ t[k - 1] = 0
      BY <2>1, <2>4
    <3> QED
      BY <3>1, <3>2
  <2>5. N \in Zero
    <3> HIDE DEF Zero
    <3>1. \A k \in 0 .. N : k \in Zero
      BY <2>3, <2>4, InductionTo
    <3> QED
      BY <3>1
  <2> QED
    BY <2>2, <2>5 DEF Sums, a
<1>4. G = Eq(G)
  <2>1. G = [s \in SUBSET S |-> IF s = {} THEN 0 ELSE first(s).score + G[s \ {first(s)}]]
    <3> HIDE DEF first
    <3> QED
      BY <1>2, <1>3
  <2> QED
    BY <2>1, Zenon
<1>5. iter = Eq(iter)
  BY <1>4
<1> HIDE DEF iter
<1>6. \A s \in SUBSET S : iter[s] = IF s = {} THEN 0 ELSE first(s).score + iter[s \ {first(s)}]
  BY <1>5, Zenon
<1>7. IsFiniteSet(S)
  <2> DEFINE f == [i \in 1 .. N |-> e[i]]
  <2>1. f \in Surjection(1 .. N, S)
    BY DEF Surjection
  <2> QED
    BY <2>1, FS_Interval, FS_Surjection
<1> HIDE DEF first
<1> DEFINE Wrong == {s \in SUBSET S : iter[s] # G[s]}
           sizes == {Cardinality(s) : s \in Wrong}
<1>8. \A s \in SUBSET S : IsFiniteSet(s) /\ Cardinality(s) \in Nat
  BY <1>7, FS_Subset, FS_CardinalityType
<1>9. Wrong = {}
  <2> SUFFICES ASSUME Wrong # {}
               PROVE  FALSE
    OBVIOUS
  <2>1. sizes \in SUBSET Nat /\ sizes # {}
    <3>1. PICK s \in Wrong : TRUE
      OBVIOUS
    <3>2. Cardinality(s) \in sizes
      BY <3>1
    <3>3. \A m \in sizes : m \in Nat
      BY <1>8
    <3> QED
      BY <3>2, <3>3
  <2>2. PICK c \in sizes : \A m \in sizes : c <= m
    <3> HIDE DEF sizes
    <3> QED
      BY <2>1, HasLeast
  <2>3. PICK s \in Wrong : c = Cardinality(s)
    OBVIOUS
  <2>4. s # {}
    BY <1>3, <1>6
  <2> DEFINE t == s \ {first(s)}
  <2>5. first(s) \in s /\ t \in SUBSET S
    BY <1>2, <2>4
  <2>6. Cardinality(t) = c - 1 /\ c \in Nat
    BY <1>8, <2>3, <2>5, FS_RemoveElement
  <2>7. Cardinality(t) \notin sizes
    <3> HIDE DEF sizes
    <3>1. \A m \in sizes : ~(m < c) \/ ~(m \in Nat)
      BY <2>2, <2>6
    <3>2. c - 1 < c
      BY <2>6
    <3>3. Cardinality(t) < c /\ Cardinality(t) \in Nat
      BY <1>8, <2>5, <2>6, <3>2
    <3> QED
      BY <3>1, <3>3
  <2>8. iter[t] = G[t]
    BY <2>5, <2>7
  <2>9. G[s] = first(s).score + G[t]
    BY <1>2, <2>4
  <2>10. iter[s] = first(s).score + iter[t]
    BY <1>6, <2>4
  <2> QED
    BY <2>8, <2>9, <2>10
<1>10. iter[S] = Total(Weights(e, N, S))
  BY <1>9
<1>11. Weights(e, N, S) = [i \in 1 .. N |-> e[i].score]
  BY DEF Weights
<1> QED
  BY <1>1, <1>10, <1>11

-----------------------------------------------------------------------------
(***************************************************************************)
(* The page ranks.                                                         *)
(***************************************************************************)

\* Division, rounded down.
LEMMA Quotient ==
  ASSUME NEW a \in Nat, NEW n \in Nat, n # 0
  PROVE  (a \div n) \in Nat /\ n * (a \div n) <= a /\ a < n * (a \div n) + n
<1>1. n \in Int /\ n > 0
  OBVIOUS
<1> QED
  BY <1>1

\* A product of natural numbers is one.
LEMMA Times ==
  ASSUME NEW x \in Nat, NEW y \in Nat
  PROVE  x * y \in Nat
OBVIOUS

\* A product is no less with a larger factor.
LEMMA TimesMore ==
  ASSUME NEW x \in Nat, NEW y \in Nat, NEW z \in Nat, y <= z
  PROVE  x * y <= x * z
<1>1. z - y \in Nat /\ z = y + (z - y)
  OBVIOUS
<1>2. x * z = x * y + x * (z - y)
  BY <1>1
<1> QED
  BY <1>1, <1>2, Times

-----------------------------------------------------------------------------
\* What the references of a list give.
Shares(rank, list) == [k \in DOMAIN list |-> Share(refs, rank, list[k])]
\* A rank has shares that are numbers.
Gives(rank) == \A r \in ToSet(refs) : Share(refs, rank, r) \in Nat

\* The shares of a list of references.
LEMMA SharesAre ==
  ASSUME NEW rank, Gives(rank), NEW list \in Seq(ToSet(refs))
  PROVE  /\ Shares(rank, list) \in Seq(Int) /\ Len(Shares(rank, list)) = Len(list)
         /\ Len(list) \in Nat /\ DOMAIN list = 1 .. Len(list)
         /\ \A k \in 1 .. Len(list) :
              /\ Shares(rank, list)[k] = Share(refs, rank, list[k])
              /\ Share(refs, rank, list[k]) \in Nat
<1> DEFINE T == ToSet(refs)
           n == Len(list)
<1>1. n \in Nat /\ DOMAIN list = 1 .. n /\ \A k \in 1 .. n : list[k] \in T
  BY LengthIs
<1>2. \A k \in 1 .. n : Share(refs, rank, list[k]) \in Nat
  BY <1>1 DEF Gives
<1>3. Shares(rank, list) = [k \in 1 .. n |-> Share(refs, rank, list[k])]
  BY <1>1 DEF Shares
<1>4. Shares(rank, list) \in [1 .. n -> Int]
  BY <1>2, <1>3
<1>5. Shares(rank, list) \in Seq(Int) /\ Len(Shares(rank, list)) = n
  BY <1>1, <1>4, AsSequence
<1> QED
  BY <1>1, <1>2, <1>3, <1>5

\* One more reference, one more share.
LEMMA SharesAppend ==
  ASSUME NEW rank, Gives(rank), NEW list \in Seq(ToSet(refs)), NEW r \in ToSet(refs)
  PROVE  /\ Append(list, r) \in Seq(ToSet(refs))
         /\ Total(Shares(rank, Append(list, r))) = Total(Shares(rank, list)) + Share(refs, rank, r)
         /\ Total(Shares(rank, list)) \in Int
<1> DEFINE T == ToSet(refs)
           n == Len(list)
           more == Append(list, r)
           x == Share(refs, rank, r)
           a == Shares(rank, list)
           b == Shares(rank, more)
<1>1. list \in Seq(T) /\ r \in T
  OBVIOUS
<1> HIDE DEF T
<1>2. /\ more \in Seq(T) /\ Len(more) = n + 1 /\ n \in Nat
      /\ \A i \in 1 .. n : more[i] = list[i]
      /\ more[n + 1] = r
  BY <1>1, AppendIs
<1> HIDE DEF more
<1>3. /\ a \in Seq(Int) /\ Len(a) = n /\ \A k \in 1 .. n : a[k] = Share(refs, rank, list[k])
      /\ b \in Seq(Int) /\ Len(b) = n + 1 /\ \A k \in 1 .. n + 1 : b[k] = Share(refs, rank, more[k])
  BY <1>1, <1>2, SharesAre DEF T
<1>4. x \in Int
  BY <1>1 DEF Gives, T
<1>5. \A k \in 1 .. n : b[k] = a[k]
  BY <1>2, <1>3
<1>6. b[n + 1] = x
  BY <1>2, <1>3
<1> HIDE DEF a, b, x, n
<1>7. b = Append(a, x)
  <2>1. /\ Append(a, x) \in Seq(Int) /\ Len(Append(a, x)) = n + 1
        /\ \A i \in 1 .. n : Append(a, x)[i] = a[i]
        /\ Append(a, x)[n + 1] = x
    BY <1>3, <1>4, AppendIs
  <2>2. \A i \in 1 .. n + 1 : b[i] = Append(a, x)[i]
    <3> SUFFICES ASSUME NEW i \in 1 .. n + 1
                 PROVE  b[i] = Append(a, x)[i]
      OBVIOUS
    <3>1. CASE i \in 1 .. n
      BY <1>5, <2>1, <3>1
    <3>2. CASE i = n + 1
      BY <1>6, <2>1, <3>2
    <3>3. n \in Nat
      BY <1>2
    <3>4. i \in 1 .. n \/ i = n + 1
      BY <3>3
    <3> QED
      BY <3>1, <3>2, <3>4
  <2> DEFINE c == Append(a, x)
             m == n + 1
  <2>3. b \in Seq(Int) /\ c \in Seq(Int) /\ Len(b) = m /\ Len(c) = m /\ \A i \in 1 .. m : b[i] = c[i]
    BY <1>3, <2>1, <2>2
  <2> HIDE DEF c, m
  <2>4. b \in [1 .. m -> Int] /\ c \in [1 .. m -> Int]
    BY <2>3
  <2>5. b = c
    BY <2>3, <2>4
  <2> QED
    BY <2>5 DEF c
<1>8. Total(b) = Total(a) + x /\ Total(a) \in Int
  BY <1>3, <1>4, <1>7, TotalAppend
<1> QED
  BY <1>2, <1>8 DEF a, b, x, more, T

\* What the sum of the shares goes through.
ShareRun(run, rank, base, list) ==
  /\ run \in [0 .. Len(list) -> Int]
  /\ run[0] = base
  /\ \A k \in 1 .. Len(list) : run[k] = run[k - 1] + Share(refs, rank, list[k])
  /\ FoldLeft(LAMBDA sum, ref : sum + Share(refs, rank, ref), base, list) = run[Len(list)]

\* The run of the sum of shares in NewRank.
LEMMA ShareRunExists ==
  ASSUME NEW rank, Gives(rank), NEW base \in Int, NEW list \in Seq(ToSet(refs))
  PROVE  \E run : ShareRun(run, rank, base, list)
<1> DEFINE n == Len(list)
           A == Int
           Op(a, k) == a + Share(refs, rank, list[k])
           step == [p \in A \X (1 .. n) |-> Op(p[1], p[2])]
           Eq(h) == [s \in SUBSET (1 .. n) |-> IF s = {} THEN base ELSE Op(h[s \ {Max(s)}], Max(s))]
           iter == CHOOSE h : h = Eq(h)
<1>1. DOMAIN list = 1 .. n /\ n \in Nat /\ \A k \in 1 .. n : Share(refs, rank, list[k]) \in Int
  BY SharesAre
<1>2. n \in Nat /\ base \in A
  BY <1>1
<1>3. ASSUME NEW a \in A, NEW k \in 1 .. n
      PROVE  Op(a, k) \in A
  BY <1>1
<1>4. FoldLeft(LAMBDA sum, ref : sum + Share(refs, rank, ref), base, list) = iter[1 .. n]
  BY <1>1 DEF FoldLeft, MapThenFoldSet
<1> HIDE DEF n, A, Op
<1>5. step \in Steps(A, n)
  BY <1>3 DEF Steps
<1>6. \A a \in A, k \in 1 .. n : step[<<a, k>>] = Op(a, k)
  OBVIOUS
<1>7. \A s \in SUBSET (1 .. n) : s # {} => Max(s) \in 1 .. n
  BY <1>2, MaxIs, \A s \in SUBSET (1 .. n) : s \in SUBSET (0 .. n)
<1> HIDE DEF step
<1>8. PICK g \in [SUBSET (1 .. n) -> A] : IsFold(g, n, A, base, step)
  BY <1>2, <1>5, FoldExists
<1>9. g = Eq(g)
  BY <1>6, <1>7, <1>8, \A s \in SUBSET (1 .. n) : s \ {Max(s)} \in SUBSET (1 .. n) DEF IsFold
<1>10. iter = Eq(iter)
  BY <1>9
<1> HIDE DEF iter
<1>11. IsFold(iter, n, A, base, step)
  BY <1>6, <1>7, <1>10 DEF IsFold
<1>12. PICK run : IsRun(run, n, A, base, step) /\ iter[1 .. n] = run[n]
  BY <1>2, <1>5, <1>11, RunOf
<1>13. ASSUME NEW k \in 1 .. n
       PROVE  run[k] = Op(run[k - 1], k)
  BY <1>2, <1>6, <1>12, k - 1 \in 0 .. n DEF IsRun
<1>14. run \in [0 .. n -> A] /\ run[0] = base
  BY <1>12 DEF IsRun
<1>15. ShareRun(run, rank, base, list)
  BY <1>4, <1>12, <1>13, <1>14 DEF n, A, Op, ShareRun
<1> QED
  BY <1>15

\* The sum NewRank makes is that of the shares.
LEMMA ShareSumIs ==
  ASSUME NEW rank, Gives(rank), NEW base \in Int, NEW list \in Seq(ToSet(refs))
  PROVE  FoldLeft(LAMBDA sum, ref : sum + Share(refs, rank, ref), base, list) = base + Total(Shares(rank, list))
<1> DEFINE n == Len(list)
           a == Shares(rank, list)
           sum == FoldLeft(LAMBDA sum, ref : sum + Share(refs, rank, ref), base, list)
<1>1. n \in Nat /\ a \in Seq(Int) /\ Len(a) = n /\ \A k \in 1 .. n : a[k] = Share(refs, rank, list[k])
  BY SharesAre
<1>2. PICK run : ShareRun(run, rank, base, list)
  BY ShareRunExists
<1>3. /\ run \in [0 .. n -> Int] /\ run[0] = base
      /\ \A k \in 1 .. n : run[k] = run[k - 1] + Share(refs, rank, list[k])
      /\ sum = run[n]
  BY <1>2, Zenon DEF ShareRun
<1> HIDE DEF n, a, sum
<1>4. PICK t : Sums(t, n, a)
  <2>1. a \in [1 .. n -> Int]
    BY <1>1, DOMAIN a = 1 .. n
  <2> QED
    BY <1>1, <2>1, SumsExist
<1> DEFINE Good == {k \in 0 .. n : run[k] = base + t[k]}
<1>5. 0 \in Good
  BY <1>1, <1>3, <1>4 DEF Sums
<1>6. ASSUME NEW k \in 1 .. n, k - 1 \in Good
      PROVE  k \in Good
  <2>1. /\ t[k] = t[k - 1] + a[k] /\ t[k - 1] \in Int /\ a[k] \in Int
        /\ run[k] = run[k - 1] + a[k]
    BY <1>1, <1>3, <1>4 DEF Sums
  <2>2. run[k - 1] = base + t[k - 1]
    BY <1>6
  <2> QED
    BY <1>1, <2>1, <2>2
<1>7. n \in Good
  <2> HIDE DEF Good
  <2>1. \A k \in 0 .. n : k \in Good
    BY <1>1, <1>5, <1>6, InductionTo
  <2> QED
    BY <1>1, <2>1
<1>8. sum = base + Total(a)
  BY <1>3, <1>4, <1>7 DEF Sums
<1> QED
  BY <1>8 DEF sum, a

\* Of all references, those of a set.
Chosen(rank, set) == [p \in 1 .. Len(refs) |-> IF refs[p] \in set THEN Share(refs, rank, refs[p]) ELSE 0]

\* The shares of some of the references, summed over all of them.
LEMMA ChosenSum ==
  ASSUME TablesInv, NEW rank, Gives(rank), NEW set
  PROVE  /\ Chosen(rank, set) \in [1 .. Len(refs) -> Int]
         /\ Total(Shares(rank, Only(refs, set))) = Total(Chosen(rank, set))
<1> DEFINE T == ToSet(refs)
           n == Len(refs)
           c == Chosen(rank, set)
<1>1. n \in Nat /\ \A p \in 1 .. n : refs[p] \in T
  BY RefPlaces DEF ToSet
<1>2. refs \in Seq(T)
  <2>1. refs \in [1 .. n -> T]
    BY <1>1, RefPlaces
  <2> HIDE DEF n, T
  <2> QED
    BY <1>1, <2>1, AsSequence
<1>3. \A p \in 1 .. n : Share(refs, rank, refs[p]) \in Nat
  BY <1>1 DEF Gives
<1>4. c \in [1 .. n -> Int]
  BY <1>3 DEF Chosen
<1>5. \A p \in 1 .. n : c[p] = IF refs[p] \in set THEN Share(refs, rank, refs[p]) ELSE 0
  BY DEF Chosen
<1> HIDE DEF c
<1>6. PICK run : OnlyRun(run, T, refs, set)
  BY <1>2, OnlyRunExists
<1>7. /\ run \in [0 .. n -> Seq(T)] /\ run[0] = <<>>
      /\ \A k \in 1 .. n : run[k] = IF refs[k] \in set THEN Append(run[k - 1], refs[k]) ELSE run[k - 1]
      /\ Only(refs, set) = run[n]
  BY <1>6, Zenon DEF OnlyRun
<1>8. PICK t : Sums(t, n, c)
  BY <1>1, <1>4, SumsExist
<1> DEFINE sum(k) == Total(Shares(rank, run[k]))
           Good == {k \in 0 .. n : sum(k) = t[k]}
<1> HIDE DEF n
<1>9. 0 \in Good
  <2>1. Shares(rank, <<>>) = <<>>
    BY DEF Shares
  <2>2. sum(0) = 0
    BY <1>7, <2>1, TotalNothing
  <2> QED
    BY <1>1, <1>8, <2>2 DEF Sums
<1>10. ASSUME NEW k \in 1 .. n, k - 1 \in Good
       PROVE  k \in Good
  <2>1. k - 1 \in 0 .. n /\ k \in 0 .. n
    BY <1>1
  <2>2. run[k - 1] \in Seq(ToSet(refs)) /\ refs[k] \in ToSet(refs)
    BY <1>1, <1>7, <2>1
  <2>3. t[k] = t[k - 1] + c[k] /\ t[k - 1] \in Int
    BY <1>8 DEF Sums
  <2>4. sum(k - 1) = t[k - 1]
    BY <1>10
  <2>5. CASE refs[k] \in set
    <3>1. run[k] = Append(run[k - 1], refs[k]) /\ c[k] = Share(refs, rank, refs[k])
      BY <1>5, <1>7, <2>5
    <3>2. Total(Shares(rank, Append(run[k - 1], refs[k])))
            = Total(Shares(rank, run[k - 1])) + Share(refs, rank, refs[k])
      BY <2>2, SharesAppend
    <3>3. sum(k) = sum(k - 1) + c[k]
      BY <3>1, <3>2
    <3> HIDE DEF sum
    <3> QED
      BY <2>1, <2>3, <2>4, <3>3
  <2>6. CASE refs[k] \notin set
    <3>1. run[k] = run[k - 1] /\ c[k] = 0
      BY <1>5, <1>7, <2>6
    <3>2. sum(k) = sum(k - 1)
      BY <3>1
    <3> HIDE DEF sum
    <3> QED
      BY <2>1, <2>3, <2>4, <3>1, <3>2
  <2> QED
    BY <2>5, <2>6
<1>11. n \in Good
  <2> HIDE DEF Good
  <2>1. \A k \in 0 .. n : k \in Good
    BY <1>1, <1>9, <1>10, InductionTo
  <2> QED
    BY <1>1, <2>1
<1>12. sum(n) = t[n]
  BY <1>11
<1>13. Total(Shares(rank, Only(refs, set))) = Total(c)
  BY <1>7, <1>8, <1>12 DEF Sums
<1> QED
  BY <1>4, <1>13 DEF c, n

(***************************************************************************)
(* The ranks.                                                              *)
(***************************************************************************)

\* Nobody calls a function twice.
NoneTwice ==
  \A i, j \in DOMAIN refs : i # j => <<refs[i].caller, refs[i].symbol>> # <<refs[j].caller, refs[j].symbol>>

\* How many functions and names there are.
NodeCount == Cardinality(Nodes(refs))

\* The nodes in some order.
NodeOrder(e) ==
  /\ e \in [1 .. NodeCount -> Nodes(refs)]
  /\ \A i, j \in 1 .. NodeCount : e[i] = e[j] => i = j
  /\ \A s \in Nodes(refs) : \E i \in 1 .. NodeCount : e[i] = s

\* There are finitely many nodes, and so an order of them.
LEMMA NodesAreFinite ==
  ASSUME TablesInv
  PROVE  IsFiniteSet(Nodes(refs)) /\ NodeCount \in Nat /\ \E e : NodeOrder(e)
<1> DEFINE n == Len(refs)
           S == {r.symbol : r \in ToSet(refs)}
           C == {r.caller : r \in ToSet(refs)}
           f == [p \in 1 .. n |-> refs[p].symbol]
           g == [p \in 1 .. n |-> refs[p].caller]
<1>1. n \in Nat /\ DOMAIN refs = 1 .. n
  BY RefPlaces
<1>2. f \in Surjection(1 .. n, S) /\ g \in Surjection(1 .. n, C)
  BY <1>1 DEF Surjection, ToSet
<1>3. IsFiniteSet(1 .. n)
  BY <1>1, FS_Interval
<1> HIDE DEF n, S, C, f, g
<1>4. IsFiniteSet(S) /\ IsFiniteSet(C)
  BY <1>2, <1>3, FS_Surjection
<1>5. Nodes(refs) = S \cup C
  BY DEF Nodes, S, C
<1>6. IsFiniteSet(Nodes(refs))
  BY <1>4, <1>5, FS_Union
<1>7. NodeCount \in Nat /\ ExistsBijection(1 .. NodeCount, Nodes(refs))
  BY <1>6, FS_CardinalityType DEF NodeCount
<1>8. PICK e : e \in Bijection(1 .. NodeCount, Nodes(refs))
  BY <1>7 DEF ExistsBijection
<1>9. NodeOrder(e)
  BY <1>8 DEF NodeOrder, Bijection, Injection, Surjection, IsInjective
<1> QED
  BY <1>6, <1>7, <1>9

\* The symbols that a function calls.
CalledBy(caller) == {r.symbol : r \in ToSet(FindCallees(refs, caller))}

\* A caller has as many callees as calls, when it calls nothing twice.
LEMMA OutDegreeIs ==
  ASSUME TablesInv, NEW caller
  PROVE  /\ OutDegree(refs, caller) \in Nat
         /\ (\E r \in ToSet(refs) : r.caller = caller) => OutDegree(refs, caller) # 0
         /\ NoneTwice => Len(FindCallees(refs, caller)) <= OutDegree(refs, caller)
<1> DEFINE T == RefType
           list == FindCallees(refs, caller)
           m == Len(list)
           set == {r \in ToSet(refs) : r.caller = caller}
           S == CalledBy(caller)
           f == [k \in 1 .. m |-> list[k].symbol]
<1>1. list = Only(refs, set) /\ refs \in Seq(T) /\ DOMAIN refs = 1 .. Len(refs)
  BY RefPlaces DEF FindCallees
<1>2. OutDegree(refs, caller) = Cardinality(S)
  BY DEF OutDegree, CalledBy
<1>3. S = {r.symbol : r \in ToSet(list)}
  BY DEF CalledBy
<1> HIDE DEF T, list, S
<1>4. list \in Seq(T) /\ ToSet(list) = ToSet(refs) \cap set
  BY <1>1, OnlyIs, OnlySet
<1>5. m \in Nat /\ DOMAIN list = 1 .. m
  BY <1>4, LengthIs
<1>6. f \in Surjection(1 .. m, S)
  BY <1>3, <1>5 DEF Surjection, ToSet
<1>7. IsFiniteSet(1 .. m) /\ Cardinality(1 .. m) = m
  <2>1. m \in Nat
    BY <1>5
  <2> HIDE DEF m
  <2> QED
    BY <2>1, FS_Interval
<1>8. IsFiniteSet(S) /\ Cardinality(S) \in Nat
  <2> HIDE DEF m, f
  <2> QED
    BY <1>6, <1>7, FS_Surjection, FS_CardinalityType
<1>9. ASSUME NEW r \in ToSet(refs), r.caller = caller
      PROVE  Cardinality(S) # 0
  <2>1. r \in ToSet(list)
    BY <1>4, <1>9
  <2>2. S # {}
    BY <1>3, <2>1
  <2> QED
    BY <1>8, <2>2, FS_EmptySet
<1>10. ASSUME NoneTwice
       PROVE  m <= Cardinality(S)
  <2>1. PICK at : Keeps(list, refs, Len(refs), set, at)
    BY <1>1, OnlyIs
  <2>2. ASSUME NEW i \in 1 .. m, NEW j \in 1 .. m, i < j
        PROVE  list[i].symbol # list[j].symbol
    <3>1. /\ at[i] \in 1 .. Len(refs) /\ at[j] \in 1 .. Len(refs) /\ at[i] < at[j]
          /\ list[i] = refs[at[i]] /\ list[j] = refs[at[j]] /\ list[i] \in set /\ list[j] \in set
      BY <2>1, <2>2 DEF Keeps
    <3>2. at[i] # at[j]
      BY <3>1
    <3>3. <<list[i].caller, list[i].symbol>> # <<list[j].caller, list[j].symbol>>
      BY <1>1, <1>10, <3>1, <3>2 DEF NoneTwice
    <3>4. list[i].caller = caller /\ list[j].caller = caller
      BY <3>1
    <3> QED
      BY <3>3, <3>4
  <2>3. \A i, j \in 1 .. m : f[i] = f[j] => i = j
    <3> SUFFICES ASSUME NEW i \in 1 .. m, NEW j \in 1 .. m, list[i].symbol = list[j].symbol
                 PROVE  i = j
      OBVIOUS
    <3>1. ~(i < j) /\ ~(j < i)
      BY <2>2
    <3> QED
      BY <1>5, <3>1
  <2>4. f \in Injection(1 .. m, S)
    BY <1>6, <2>3 DEF Surjection, Injection, IsInjective
  <2> HIDE DEF m, f
  <2> QED
    BY <1>7, <1>8, <2>4, FS_Injection
<1> QED
  BY <1>2, <1>8, <1>9, <1>10 DEF list

\* A rank as a function, and as the set of records that PageRank makes.
Scores == [Nodes(refs) -> Nat]
RankOf(g) == {[symbol |-> s, score |-> g[s]] : s \in Nodes(refs)}

\* The score of a node, of the set of its records.
LEMMA ScoreIs ==
  ASSUME NEW g, NEW s \in Nodes(refs)
  PROVE  Score(RankOf(g), s) = g[s]
<1>1. \E r \in RankOf(g) : r.symbol = s
  <2>1. [symbol |-> s, score |-> g[s]] \in RankOf(g)
    BY DEF RankOf
  <2> QED
    BY <2>1
<1>2. \A r \in RankOf(g) : r.symbol = s => r.score = g[s]
  BY DEF RankOf
<1> QED
  BY <1>1, <1>2 DEF Score

\* A share is that of the caller's score, rounded down.
LEMMA ShareIs ==
  ASSUME TablesInv, NEW g \in Scores, NEW r \in ToSet(refs)
  PROVE  /\ Share(refs, RankOf(g), r) \in Nat
         /\ r.caller \in Nodes(refs) /\ r.symbol \in Nodes(refs)
         /\ r.caller = "" => Share(refs, RankOf(g), r) = 0
         /\ r.caller # "" => Share(refs, RankOf(g), r) = (17 * g[r.caller]) \div (20 * OutDegree(refs, r.caller))
         /\ OutDegree(refs, r.caller) \in Nat /\ OutDegree(refs, r.caller) # 0
<1>1. r.caller \in Nodes(refs) /\ r.symbol \in Nodes(refs)
  BY DEF Nodes
<1>2. OutDegree(refs, r.caller) \in Nat /\ OutDegree(refs, r.caller) # 0
  BY OutDegreeIs
<1>3. Score(RankOf(g), r.caller) = g[r.caller] /\ g[r.caller] \in Nat
  BY <1>1, ScoreIs DEF Scores
<1> DEFINE share == (17 * g[r.caller]) \div (20 * OutDegree(refs, r.caller))
<1>4. Share(refs, RankOf(g), r) = IF r.caller = "" THEN 0 ELSE share
  BY <1>3 DEF Share
<1>5. share \in Nat
  <2> DEFINE a == 17 * g[r.caller]
             n == 20 * OutDegree(refs, r.caller)
  <2>1. a \in Nat /\ n \in Nat /\ n # 0
    BY <1>2, <1>3
  <2> HIDE DEF a, n
  <2>2. a \div n \in Nat
    BY <2>1, Quotient
  <2> QED
    BY <2>2 DEF a, n
<1> HIDE DEF share
<1>6. Share(refs, RankOf(g), r) \in Nat
  <2>1. CASE r.caller = ""
    <3>1. Share(refs, RankOf(g), r) = 0
      BY <1>4, <2>1, Zenon
    <3> QED
      BY <3>1
  <2>2. CASE r.caller # ""
    <3>1. Share(refs, RankOf(g), r) = share
      BY <1>4, <2>2, Zenon
    <3> QED
      BY <1>5, <3>1
  <2> QED
    BY <2>1, <2>2
<1> QED
  BY <1>1, <1>2, <1>4, <1>6, Zenon DEF share

\* Every rank gives shares.
LEMMA RanksGive ==
  ASSUME TablesInv, NEW g \in Scores
  PROVE  Gives(RankOf(g))
BY ShareIs DEF Gives

\* All are x.
AllAre(n, a, x) == \A i \in 1 .. n : a[i] = x

\* A sum of equals.
LEMMA TotalConstant ==
  ASSUME NEW n \in Nat, NEW a \in [1 .. n -> Int], NEW x \in Int, AllAre(n, a, x)
  PROVE  Total(a) = n * x
<1>1. PICK r : Sums(r, n, a)
  BY SumsExist
<1> DEFINE Good == {k \in 0 .. n : r[k] = k * x}
<1>2. 0 \in Good
  <2>1. 0 * x = 0
    OBVIOUS
  <2> QED
    BY <1>1, <2>1 DEF Sums
<1>3. ASSUME NEW k \in 1 .. n, k - 1 \in Good
      PROVE  k \in Good
  <2>1. r[k] = r[k - 1] + a[k] /\ a[k] = x
    BY <1>1 DEF Sums, AllAre
  <2>2. r[k - 1] = (k - 1) * x
    BY <1>3
  <2>3. (k - 1) * x + x = k * x
    OBVIOUS
  <2> QED
    BY <2>1, <2>2, <2>3
<1>4. n \in Good
  <2> HIDE DEF Good
  <2>1. \A k \in 0 .. n : k \in Good
    BY <1>2, <1>3, InductionTo
  <2> QED
    BY <2>1
<1>5. r[n] = n * x
  BY <1>4
<1> QED
  BY <1>1, <1>5 DEF Sums

\* A sum of natural numbers is one.
LEMMA TotalNat ==
  ASSUME NEW n \in Nat, NEW a \in [1 .. n -> Nat]
  PROVE  Total(a) \in Nat
<1>1. a \in [1 .. n -> Int]
  OBVIOUS
<1>2. PICK r : Sums(r, n, a)
  BY <1>1, SumsExist
<1> DEFINE Good == {k \in 0 .. n : r[k] \in Nat}
<1>3. 0 \in Good
  BY <1>2 DEF Sums
<1>4. ASSUME NEW k \in 1 .. n, k - 1 \in Good
      PROVE  k \in Good
  <2>1. r[k] = r[k - 1] + a[k] /\ a[k] \in Nat
    BY <1>2 DEF Sums
  <2> QED
    BY <1>4, <2>1
<1>5. n \in Good
  <2> HIDE DEF Good
  <2>1. \A k \in 0 .. n : k \in Good
    BY <1>3, <1>4, InductionTo
  <2> QED
    BY <2>1
<1> QED
  BY <1>2, <1>5 DEF Sums

\* The references of a caller, and those of a callee.
Calling(c) == {r \in ToSet(refs) : r.caller = c}
Calls(s) == {r \in ToSet(refs) : r.symbol = s}

\* A function gives away no more than 85 % of its rank, when it calls none
\* twice.
LEMMA GivenAtMost ==
  ASSUME TablesInv, NoneTwice, NEW g \in Scores, NEW c \in Nodes(refs)
  PROVE  /\ 20 * Total(Chosen(RankOf(g), Calling(c))) <= 17 * g[c]
         /\ Total(Chosen(RankOf(g), Calling(c))) \in Int
<1> DEFINE rank == RankOf(g)
           list == FindCallees(refs, c)
           m == Len(list)
           out == OutDegree(refs, c)
           a == Shares(rank, list)
           x == (17 * g[c]) \div (20 * out)
           total == Total(Chosen(rank, Calling(c)))
<1>1. Gives(rank)
  BY ShareIs DEF Gives
<1>2. list = Only(refs, Calling(c)) /\ refs \in Seq(RefType)
  BY RefPlaces DEF FindCallees, Calling
<1>3. g[c] \in Nat
  BY DEF Scores
<1>4. ToSet(list) \subseteq Calling(c) /\ list \in Seq(RefType)
  BY <1>2, OnlyIs, OnlySet
<1>5. m \in Nat /\ DOMAIN list = 1 .. m /\ \A k \in 1 .. m : list[k] \in ToSet(refs) /\ list[k].caller = c
  <2>1. m \in Nat /\ DOMAIN list = 1 .. m
    BY <1>4, LengthIs
  <2>2. \A k \in 1 .. m : list[k] \in Calling(c)
    BY <1>4, <2>1 DEF ToSet
  <2> QED
    BY <2>1, <2>2 DEF Calling
<1>6. list \in Seq(ToSet(refs))
  <2> DEFINE T == ToSet(refs)
  <2>1. list \in [1 .. m -> T]
    BY <1>4, <1>5, LengthIs
  <2> HIDE DEF T, list, m
  <2> QED
    BY <1>5, <2>1, AsSequence
<1>7. total = Total(a)
  BY <1>1, <1>2, ChosenSum
<1>8. a \in Seq(Int) /\ Len(a) = m /\ \A k \in 1 .. m : a[k] = Share(refs, rank, list[k])
  BY <1>1, <1>6, SharesAre
<1>9. out \in Nat /\ m <= out
  BY OutDegreeIs
<1> HIDE DEF list, m, out, a, rank, total
<1>10. a \in [1 .. m -> Int]
  BY <1>8
<1>11. CASE m = 0 \/ c = ""
  <2>1. \A k \in 1 .. m : a[k] = 0
    <3>1. CASE m = 0
      BY <3>1
    <3>2. CASE c = ""
      BY <1>5, <1>8, <3>2, ShareIs DEF rank
    <3> QED
      BY <1>11, <3>1, <3>2
  <2>2. total = m * 0
    BY <1>5, <1>7, <1>10, <2>1, TotalConstant DEF AllAre
  <2>3. total = 0
    BY <1>5, <2>2
  <2>4. 20 * total <= 17 * g[c] /\ total \in Int
    BY <1>3, <2>3
  <2> QED
    BY <2>4 DEF total, rank
<1>12. CASE m # 0 /\ c # ""
  <2>1. m # 0
    BY <1>12
  <2>2. 1 \in 1 .. m
    BY <1>5, <2>1
  <2>3. out # 0
    BY <1>5, <2>2, ShareIs DEF out
  <2>4. \A k \in 1 .. m : a[k] = x
    BY <1>5, <1>8, <1>12, ShareIs DEF rank, out
  <2> DEFINE y == 17 * g[c]
             n == 20 * out
  <2>5. y \in Nat /\ n \in Nat /\ n # 0
    BY <1>3, <1>9, <2>3
  <2>6. x \in Nat /\ n * x <= y
    <3>1. x = y \div n
      OBVIOUS
    <3> HIDE DEF x, y, n
    <3> QED
      BY <2>5, <3>1, Quotient
  <2>7. n * x = 20 * (out * x)
    <3> HIDE DEF x
    <3> QED
      BY <1>9, <2>6
  <2> HIDE DEF x, y, n
  <2>8. total = m * x
    BY <1>5, <1>7, <1>10, <2>4, <2>6, TotalConstant DEF AllAre
  <2>9. x * m <= x * out /\ x * m \in Nat /\ x * out \in Nat
    BY <1>5, <1>9, <2>6, Times, TimesMore
  <2>10. m * x = x * m /\ out * x = x * out
    BY <1>5, <1>9, <2>6
  <2>11. 20 * total <= y /\ total \in Int
    <3> DEFINE p == x * m
               q == x * out
    <3>1. p <= q /\ p \in Nat /\ q \in Nat /\ 20 * q <= y /\ total = p
      BY <2>6, <2>7, <2>8, <2>9, <2>10
    <3> HIDE DEF p, q
    <3> QED
      BY <2>5, <3>1
  <2> QED
    BY <2>11 DEF total, rank, y
<1> QED
  BY <1>11, <1>12

\* The random jumps are 15 % of all, rounded down.
LEMMA BaseRankIs ==
  ASSUME TablesInv, NodeCount # 0
  PROVE  /\ BaseRank(refs) \in Nat /\ 20 * (NodeCount * BaseRank(refs)) <= 30000
         /\ NodeCount \in Nat /\ BaseRank(refs) <= RankCap
<1> DEFINE n == NodeCount
           x == BaseRank(refs)
           d == 20 * n
<1>1. n \in Nat /\ n # 0
  BY NodesAreFinite
<1>2. x = 30000 \div d
  BY DEF BaseRank, NodeCount, Scale
<1> HIDE DEF n, x
<1>3. d \in Nat /\ d # 0
  BY <1>1
<1>4. x \in Nat /\ d * x <= 30000
  <2> HIDE DEF d
  <2> QED
    BY <1>2, <1>3, Quotient
<1>5. d * x = 20 * (n * x)
  BY <1>1, <1>4
<1>6. x <= RankCap
  <2>1. x * 1 <= x * n /\ x * 1 = x /\ x * n = n * x /\ n * x \in Nat
    BY <1>1, <1>4, TimesMore, Times
  <2> DEFINE p == n * x
  <2>2. 20 * p <= 30000 /\ x <= p /\ p \in Nat
    BY <1>4, <1>5, <2>1
  <2> HIDE DEF p, d
  <2> QED
    BY <1>4, <2>2 DEF RankCap, Scale
<1> QED
  BY <1>1, <1>4, <1>5, <1>6 DEF n, x

\* What the new rank of a function lies between.
LEMMA NewRankIs ==
  ASSUME TablesInv, NEW g \in Scores, NEW s \in Nodes(refs), NodeCount # 0
  PROVE  /\ NewRank(refs, RankOf(g), s) \in Nat
         /\ NewRank(refs, RankOf(g), s) >= BaseRank(refs)
         /\ NewRank(refs, RankOf(g), s) <= BaseRank(refs) + Total(Chosen(RankOf(g), Calls(s)))
         /\ Total(Chosen(RankOf(g), Calls(s))) \in Nat
<1> DEFINE rank == RankOf(g)
           list == FindCallers(refs, s)
           base == BaseRank(refs)
           in == Total(Chosen(rank, Calls(s)))
           sum == FoldLeft(LAMBDA sum, ref : sum + Share(refs, rank, ref), base, list)
           new == NewRank(refs, rank, s)
<1>1. Gives(rank)
  BY ShareIs DEF Gives
<1>2. base \in Nat /\ base <= RankCap
  BY BaseRankIs
<1>3. list = Only(refs, Calls(s)) /\ refs \in Seq(RefType)
  BY RefPlaces DEF FindCallers, Calls
<1>4. list \in Seq(ToSet(refs))
  <2> DEFINE T == ToSet(refs)
             n == Len(refs)
  <2>1. refs \in [1 .. n -> T] /\ n \in Nat
    BY RefPlaces DEF ToSet
  <2> HIDE DEF T, n
  <2>2. refs \in Seq(T)
    BY <2>1, AsSequence
  <2>3. Only(refs, Calls(s)) \in Seq(T)
    BY <2>2, OnlyIs
  <2> QED
    BY <1>3, <2>3 DEF T
<1>5. sum = base + Total(Shares(rank, list))
  <2>1. base \in Int
    BY <1>2
  <2> HIDE DEF rank, base, list
  <2> QED
    BY <1>1, <1>4, <2>1, ShareSumIs
<1>6. Total(Shares(rank, list)) = in
  BY <1>1, <1>3, ChosenSum
<1>7. in \in Nat
  <2>1. Len(refs) \in Nat
    BY RefPlaces
  <2>2. Chosen(rank, Calls(s)) \in [1 .. Len(refs) -> Nat]
    BY <1>1, RefPlaces DEF Chosen, Gives, ToSet
  <2> QED
    BY <2>1, <2>2, TotalNat
<1>8. new = Min({RankCap, sum})
  BY DEF NewRank
<1> HIDE DEF rank, list, base, in, sum, new
<1>9. sum = base + in /\ sum \in Nat /\ RankCap \in Nat
  BY <1>2, <1>5, <1>6, <1>7 DEF RankCap, Scale
<1>10. new \in {RankCap, sum} /\ new <= sum
  <2>1. {RankCap, sum} \in SUBSET Nat /\ {RankCap, sum} # {}
    BY <1>9
  <2> QED
    BY <1>8, <2>1, MinIs
<1>11. new \in Nat /\ new >= base /\ new <= base + in
  BY <1>2, <1>7, <1>9, <1>10
<1> QED
  BY <1>7, <1>11 DEF new, base, in, rank

\* The sets share out the references, each to the set it is at.
Splits(sets, at, n) == \A i \in 1 .. n : \A p \in 1 .. Len(refs) : refs[p] \in sets[i] <=> at[p] = i

\* All shares, divided among some.
LEMMA SplitShares ==
  ASSUME TablesInv, NEW rank, Gives(rank), NEW n \in Nat, NEW at \in [1 .. Len(refs) -> 1 .. n],
         NEW sets, Splits(sets, at, n)
  PROVE  Total([i \in 1 .. n |-> Total(Chosen(rank, sets[i]))]) = Total(Chosen(rank, ToSet(refs)))
<1> DEFINE M == Len(refs)
           w == Chosen(rank, ToSet(refs))
<1>1. M \in Nat /\ w \in [1 .. M -> Int]
  BY RefPlaces, ChosenSum
<1>2. \A p \in 1 .. M : w[p] = Share(refs, rank, refs[p])
  BY RefPlaces DEF Chosen, ToSet
<1>3. ASSUME NEW i \in 1 .. n
      PROVE  Chosen(rank, sets[i]) = PartOf(w, M, at, i)
  BY <1>2 DEF Chosen, PartOf, Splits
<1>4. [i \in 1 .. n |-> Total(Chosen(rank, sets[i]))] = [i \in 1 .. n |-> Part(w, M, at, i)]
  BY <1>3 DEF Part
<1> HIDE DEF M, w
<1>5. Total([i \in 1 .. n |-> Part(w, M, at, i)]) = Total(w)
  BY <1>1, PartsAreAll DEF M
<1> QED
  BY <1>4, <1>5 DEF w

\* The scores in an order of the nodes.
InOrder(e, g) == [i \in 1 .. NodeCount |-> g[e[i]]]

\* Nobody is below its share of the jumps, and all have no more than there is.
FairRanks(e) ==
  {g \in Scores : /\ Total(InOrder(e, g)) <= Scale
                  /\ \A s \in Nodes(refs) : BaseRank(refs) <= g[s]}

\* The scores of the nodes in an order.
LEMMA InOrderIs ==
  ASSUME TablesInv, NEW e, NodeOrder(e), NEW g \in Scores
  PROVE  InOrder(e, g) \in [1 .. NodeCount -> Int] /\ NodeCount \in Nat
         /\ \A i \in 1 .. NodeCount : InOrder(e, g)[i] = g[e[i]] /\ e[i] \in Nodes(refs)
<1>1. NodeCount \in Nat
  BY NodesAreFinite
<1>2. \A i \in 1 .. NodeCount : e[i] \in Nodes(refs)
  BY DEF NodeOrder
<1>3. \A i \in 1 .. NodeCount : g[e[i]] \in Int
  BY <1>2 DEF Scores
<1> QED
  BY <1>1, <1>2, <1>3 DEF InOrder

\* Without nodes there is nothing to share.
LEMMA NoNodes ==
  ASSUME TablesInv, NEW e, NodeOrder(e), NodeCount = 0, NEW g \in Scores
  PROVE  g \in FairRanks(e)
<1>1. Nodes(refs) = {}
  BY DEF NodeOrder
<1>2. Total(InOrder(e, g)) = 0 * 0
  <2> DEFINE a == InOrder(e, g)
             n == NodeCount
  <2>1. a \in [1 .. n -> Int] /\ AllAre(n, a, 0) /\ n \in Nat
    BY InOrderIs DEF AllAre
  <2> HIDE DEF a, n
  <2>2. Total(a) = n * 0
    BY <2>1, TotalConstant
  <2> QED
    BY <2>2 DEF a, n
<1> QED
  BY <1>1, <1>2 DEF FairRanks, Scale

\* The ranks the iteration begins with are fair.
LEMMA FirstRanks ==
  ASSUME TablesInv, NEW e, NodeOrder(e)
  PROVE  [s \in Nodes(refs) |-> Scale \div Cardinality(Nodes(refs))] \in FairRanks(e)
<1> DEFINE n == NodeCount
           x == Scale \div n
           g == [s \in Nodes(refs) |-> x]
<1>1. [s \in Nodes(refs) |-> Scale \div Cardinality(Nodes(refs))] = g
  BY DEF NodeCount
<1>2. CASE n = 0
  <2>1. Nodes(refs) = {}
    BY <1>2 DEF NodeOrder
  <2>2. g \in Scores
    BY <2>1 DEF Scores
  <2> QED
    BY <1>1, <1>2, <2>2, NoNodes
<1>3. CASE n # 0
  <2>1. n \in Nat
    BY NodesAreFinite
  <2>2. x \in Nat /\ n * x <= 10000 /\ 10000 < n * x + n
    <3> HIDE DEF n
    <3>1. x = 10000 \div n
      BY DEF Scale
    <3> HIDE DEF x
    <3> QED
      BY <1>3, <2>1, <3>1, Quotient
  <2>3. g \in Scores
    <3> HIDE DEF x
    <3> QED
      BY <2>2 DEF Scores
  <2>4. InOrder(e, g) \in [1 .. n -> Int] /\ \A i \in 1 .. n : InOrder(e, g)[i] = x
    BY <2>3, InOrderIs
  <2> DEFINE base == BaseRank(refs)
  <2>5. base \in Nat /\ 20 * (n * base) <= 30000
    BY <1>3, BaseRankIs
  <2> HIDE DEF n, x, g, base
  <2>6. Total(InOrder(e, g)) = n * x
    BY <2>1, <2>2, <2>4, TotalConstant DEF AllAre
  <2>7. base <= x
    <3> SUFFICES ASSUME x + 1 <= base
                 PROVE  FALSE
      BY <2>2, <2>5
    <3>1. n * (x + 1) <= n * base
      BY <2>1, <2>2, <2>5, TimesMore
    <3>2. n * (x + 1) = n * x + n
      BY <2>1, <2>2
    <3> DEFINE p == n * base
               q == n * x
    <3>3. p \in Nat /\ q \in Nat
      BY <2>1, <2>2, <2>5, Times
    <3>4. q + n <= p /\ 20 * p <= 30000 /\ 10000 < q + n
      BY <2>2, <2>5, <3>1, <3>2
    <3> HIDE DEF p, q
    <3> QED
      BY <2>1, <3>3, <3>4
  <2>8. Total(InOrder(e, g)) <= Scale
    BY <2>2, <2>6 DEF Scale
  <2>9. \A s \in Nodes(refs) : base <= g[s]
    BY <2>7 DEF g
  <2> QED
    BY <1>1, <2>3, <2>8, <2>9 DEF FairRanks, base
<1> QED
  BY <1>2, <1>3

\* The sum of what all get is the sum of what all give.
LEMMA GotIsGiven ==
  ASSUME TablesInv, NEW e, NodeOrder(e), NEW rank, Gives(rank)
  PROVE  Total([i \in 1 .. NodeCount |-> Total(Chosen(rank, Calls(e[i])))])
           = Total([i \in 1 .. NodeCount |-> Total(Chosen(rank, Calling(e[i])))])
<1> DEFINE n == NodeCount
           m == Len(refs)
           index(s) == CHOOSE i \in 1 .. n : e[i] = s
           called == [p \in 1 .. m |-> index(refs[p].symbol)]
           caller == [p \in 1 .. m |-> index(refs[p].caller)]
           gets == [i \in 1 .. n |-> Calls(e[i])]
           gives == [i \in 1 .. n |-> Calling(e[i])]
<1>1. n \in Nat
  BY NodesAreFinite
<1>2. \A s \in Nodes(refs) : index(s) \in 1 .. n /\ e[index(s)] = s
  BY DEF NodeOrder
<1>3. \A p \in 1 .. m : refs[p] \in ToSet(refs) /\ refs[p].symbol \in Nodes(refs) /\ refs[p].caller \in Nodes(refs)
  BY RefPlaces DEF ToSet, Nodes
<1>4. \A i, j \in 1 .. n : e[i] = e[j] => i = j
  BY DEF NodeOrder
<1> HIDE DEF n, m, index
<1>5. called \in [1 .. m -> 1 .. n] /\ caller \in [1 .. m -> 1 .. n]
  BY <1>2, <1>3
<1>6. ASSUME NEW i \in 1 .. n, NEW p \in 1 .. m
      PROVE  (refs[p] \in gets[i] <=> called[p] = i) /\ (refs[p] \in gives[i] <=> caller[p] = i)
  <2>1. /\ e[index(refs[p].symbol)] = refs[p].symbol /\ index(refs[p].symbol) \in 1 .. n
        /\ e[index(refs[p].caller)] = refs[p].caller /\ index(refs[p].caller) \in 1 .. n
    BY <1>2, <1>3
  <2>2. refs[p] \in gets[i] <=> refs[p].symbol = e[i]
    BY <1>3 DEF Calls
  <2>3. refs[p] \in gives[i] <=> refs[p].caller = e[i]
    BY <1>3 DEF Calling
  <2>4. called[p] = index(refs[p].symbol) /\ caller[p] = index(refs[p].caller)
    OBVIOUS
  <2> QED
    BY <1>4, <2>1, <2>2, <2>3, <2>4
<1> HIDE DEF called, caller
<1>7. \A i \in 1 .. n : gets[i] = Calls(e[i]) /\ gives[i] = Calling(e[i])
  OBVIOUS
<1> HIDE DEF gets, gives
<1>8. Splits(gets, called, n) /\ Splits(gives, caller, n)
  BY <1>6 DEF Splits, m
<1>9. called \in [1 .. Len(refs) -> 1 .. n] /\ caller \in [1 .. Len(refs) -> 1 .. n]
  BY <1>5 DEF m
<1>10. Total([i \in 1 .. n |-> Total(Chosen(rank, gets[i]))]) = Total(Chosen(rank, ToSet(refs)))
  BY <1>1, <1>8, <1>9, SplitShares
<1>11. Total([i \in 1 .. n |-> Total(Chosen(rank, gives[i]))]) = Total(Chosen(rank, ToSet(refs)))
  BY <1>1, <1>8, <1>9, SplitShares
<1>12. /\ [i \in 1 .. n |-> Total(Chosen(rank, gets[i]))] = [i \in 1 .. n |-> Total(Chosen(rank, Calls(e[i])))]
       /\ [i \in 1 .. n |-> Total(Chosen(rank, gives[i]))] = [i \in 1 .. n |-> Total(Chosen(rank, Calling(e[i])))]
  BY <1>7
<1> QED
  BY <1>10, <1>11, <1>12 DEF n

\* An iteration keeps the ranks fair.
LEMMA NextRanks ==
  ASSUME TablesInv, NoneTwice, NEW e, NodeOrder(e), NEW g \in FairRanks(e)
  PROVE  [s \in Nodes(refs) |-> NewRank(refs, RankOf(g), s)] \in FairRanks(e)
<1> DEFINE n == NodeCount
           rank == RankOf(g)
           h == [s \in Nodes(refs) |-> NewRank(refs, rank, s)]
           base == BaseRank(refs)
           got == [i \in 1 .. n |-> Total(Chosen(rank, Calls(e[i])))]
           given == [i \in 1 .. n |-> Total(Chosen(rank, Calling(e[i])))]
<1>1. g \in Scores /\ Total(InOrder(e, g)) <= 10000
  BY DEF FairRanks, Scale
<1>2. CASE n = 0
  <2>1. Nodes(refs) = {}
    BY <1>2 DEF NodeOrder
  <2>2. h \in Scores
    BY <2>1 DEF Scores
  <2> QED
    BY <1>2, <2>2, NoNodes
<1>3. CASE n # 0
  <2>1. n \in Nat /\ base \in Nat /\ 20 * (n * base) <= 30000
    BY <1>3, BaseRankIs
  <2>2. \A s \in Nodes(refs) :
          /\ h[s] \in Nat /\ base <= h[s] /\ h[s] <= base + Total(Chosen(rank, Calls(s)))
          /\ Total(Chosen(rank, Calls(s))) \in Nat
    BY <1>1, <1>3, NewRankIs
  <2>3. h \in Scores
    BY <2>2 DEF Scores
  <2>4. InOrder(e, h) \in [1 .. n -> Int] /\ \A i \in 1 .. n : InOrder(e, h)[i] = h[e[i]] /\ e[i] \in Nodes(refs)
    BY <2>3, InOrderIs
  <2>5. InOrder(e, g) \in [1 .. n -> Int] /\ \A i \in 1 .. n : InOrder(e, g)[i] = g[e[i]]
    BY <1>1, InOrderIs
  <2>6. Total(got) = Total(given)
    <3>1. Gives(rank)
      BY <1>1, RanksGive
    <3> HIDE DEF rank
    <3> QED
      BY <3>1, GotIsGiven
  <2>7. \A s \in Nodes(refs) : 20 * Total(Chosen(rank, Calling(s))) <= 17 * g[s] /\ Total(Chosen(rank, Calling(s))) \in Int
    BY <1>1, GivenAtMost
  <2> HIDE DEF n, rank, h, base
  <2>8. got \in [1 .. n -> Int] /\ given \in [1 .. n -> Int]
    BY <2>2, <2>4, <2>7
  <2>9. \A i \in 1 .. n : InOrder(e, h)[i] <= base + got[i]
    BY <2>2, <2>4
  <2>10. \A i \in 1 .. n : 20 * given[i] <= 17 * InOrder(e, g)[i]
    BY <2>4, <2>5, <2>7
  <2> HIDE DEF got, given
  <2> DEFINE new == InOrder(e, h)
             old == InOrder(e, g)
  <2>11. new \in [1 .. n -> Int] /\ Above(n, new, got, base) /\ old \in [1 .. n -> Int] /\ AtMost(n, given, old)
    BY <2>4, <2>5, <2>9, <2>10 DEF Above, AtMost
  <2>12. base \in Int
    BY <2>1
  <2> HIDE DEF new, old
  <2> DEFINE p == n * base
  <2>13. IsTimes(p, n, base)
    BY DEF IsTimes
  <2> HIDE DEF p
  <2>14. n \in Nat
    BY <2>1
  <2>15. Total(new) <= p + Total(got)
    BY <2>14, <2>8, <2>11, <2>12, <2>13, TotalMore
  <2>16. 20 * Total(given) <= 17 * Total(old)
    BY <2>8, <2>11, <2>14, TotalAtMost
  <2>17. Total(InOrder(e, g)) \in Int /\ Total(InOrder(e, h)) \in Int /\ Total(given) \in Int
    <3>1. PICK r1 : Sums(r1, n, InOrder(e, g))
      BY <2>1, <2>5, SumsExist
    <3>2. PICK r2 : Sums(r2, n, InOrder(e, h))
      BY <2>1, <2>4, SumsExist
    <3>3. PICK r3 : Sums(r3, n, given)
      BY <2>1, <2>8, SumsExist
    <3> QED
      BY <3>1, <3>2, <3>3 DEF Sums
  <2>18. n * base \in Nat
    BY <2>1, Times
  <2> DEFINE a == Total(InOrder(e, g))
             b == Total(InOrder(e, h))
             c == Total(given)
  <2>19. /\ p \in Nat /\ a \in Int /\ b \in Int /\ c \in Int
         /\ 20 * p <= 30000 /\ a <= 10000 /\ b <= p + c /\ 20 * c <= 17 * a
    BY <1>1, <2>1, <2>6, <2>15, <2>16, <2>17, <2>18, <2>13 DEF new, old, IsTimes
  <2> HIDE DEF a, b, c
  <2>20. b <= 10000
    BY <2>19
  <2>21. Total(InOrder(e, h)) <= Scale
    BY <2>20 DEF b, Scale
  <2> QED
    BY <2>2, <2>3, <2>21 DEF FairRanks, base, h, rank
<1> QED
  BY <1>2, <1>3

\* All iterations keep them fair.
LEMMA RanksAreFair ==
  ASSUME TablesInv, NoneTwice, NEW e, NodeOrder(e)
  PROVE  \E last \in {RankOf(g) : g \in FairRanks(e)} : PageRank(refs) = last
<1> DEFINE n == Iterations
           A == {RankOf(g) : g \in FairRanks(e)}
           base == {[symbol |-> s, score |-> Scale \div Cardinality(Nodes(refs))] : s \in Nodes(refs)}
           Op(a, k) == {[symbol |-> s, score |-> NewRank(refs, a, s)] : s \in Nodes(refs)}
           step == [p \in A \X (1 .. n) |-> Op(p[1], p[2])]
           Eq(h) == [s \in SUBSET (1 .. n) |-> IF s = {} THEN base ELSE Op(h[s \ {Max(s)}], Max(s))]
           iter == CHOOSE h : h = Eq(h)
<1>1. n \in Nat /\ base \in A
  <2> DEFINE g == [s \in Nodes(refs) |-> Scale \div Cardinality(Nodes(refs))]
  <2>1. g \in FairRanks(e)
    BY FirstRanks
  <2>2. base = RankOf(g)
    BY DEF RankOf
  <2> QED
    BY <2>1, <2>2 DEF Iterations
<1>2. ASSUME NEW a \in A, NEW k \in 1 .. n
      PROVE  Op(a, k) \in A
  <2>1. PICK g \in FairRanks(e) : a = RankOf(g)
    OBVIOUS
  <2> DEFINE h == [s \in Nodes(refs) |-> NewRank(refs, RankOf(g), s)]
  <2>2. h \in FairRanks(e)
    BY NextRanks
  <2>3. Op(a, k) = RankOf(h)
    BY <2>1 DEF RankOf
  <2> QED
    BY <2>2, <2>3
<1>3. PageRank(refs) = iter[1 .. n]
  BY DEF PageRank, FoldLeft, MapThenFoldSet
<1> HIDE DEF n, A, base, Op
<1>4. step \in Steps(A, n)
  BY <1>2 DEF Steps
<1>5. \A a \in A, k \in 1 .. n : step[<<a, k>>] = Op(a, k)
  OBVIOUS
<1>6. \A s \in SUBSET (1 .. n) : s # {} => Max(s) \in 1 .. n
  BY <1>1, MaxIs, \A s \in SUBSET (1 .. n) : s \in SUBSET (0 .. n)
<1> HIDE DEF step
<1>7. PICK g \in [SUBSET (1 .. n) -> A] : IsFold(g, n, A, base, step)
  BY <1>1, <1>4, FoldExists
<1>8. g = Eq(g)
  BY <1>5, <1>6, <1>7, \A s \in SUBSET (1 .. n) : s \ {Max(s)} \in SUBSET (1 .. n) DEF IsFold
<1>9. iter = Eq(iter)
  BY <1>8
<1> HIDE DEF iter
<1>10. IsFold(iter, n, A, base, step)
  BY <1>5, <1>6, <1>9 DEF IsFold
<1>11. PICK run : IsRun(run, n, A, base, step) /\ iter[1 .. n] = run[n]
  BY <1>1, <1>4, <1>10, RunOf
<1>12. run[n] \in A
  BY <1>1, <1>11 DEF IsRun
<1> QED
  BY <1>3, <1>11, <1>12 DEF A

\* PageRank, after all its iterations.
LEMMA RanksExact ==
  ASSUME TablesInv, NoneTwice, NEW result, result = PageRank(refs)
  PROVE  /\ MapThenSumSet(LAMBDA r : r.score, result) <= Scale
         /\ \A r \in result : r.score >= (3 * Scale) \div (20 * Cardinality(result))
<1> DEFINE n == NodeCount
<1>1. PICK e : NodeOrder(e)
  BY NodesAreFinite
<1>2. PICK g \in FairRanks(e) : result = RankOf(g)
  <2>1. \E last \in {RankOf(h) : h \in FairRanks(e)} : PageRank(refs) = last
    BY <1>1, RanksAreFair
  <2> QED
    BY <2>1
<1>3. g \in Scores /\ Total(InOrder(e, g)) <= Scale /\ \A s \in Nodes(refs) : BaseRank(refs) <= g[s]
  BY DEF FairRanks
<1>4. /\ n \in Nat /\ InOrder(e, g) \in [1 .. n -> Int]
      /\ \A i \in 1 .. n : InOrder(e, g)[i] = g[e[i]] /\ e[i] \in Nodes(refs)
  BY <1>1, <1>3, InOrderIs
<1>5. /\ \A i, j \in 1 .. n : e[i] = e[j] => i = j
      /\ \A s \in Nodes(refs) : \E i \in 1 .. n : e[i] = s
  BY <1>1 DEF NodeOrder
<1> HIDE DEF n
<1> DEFINE list == [i \in 1 .. n |-> [symbol |-> e[i], score |-> g[e[i]]]]
<1>6. ASSUME NEW i \in 1 .. n
      PROVE  list[i].score = g[e[i]] /\ list[i].symbol = e[i] /\ list[i].score \in Int /\ list[i] \in result
  BY <1>2, <1>3, <1>4 DEF Scores, RankOf
<1>7. ASSUME NEW r \in result
      PROVE  /\ \E i \in 1 .. n : list[i] = r
             /\ r.score = g[r.symbol] /\ r.symbol \in Nodes(refs)
  <2>1. PICK s \in Nodes(refs) : r = [symbol |-> s, score |-> g[s]]
    BY <1>2 DEF RankOf
  <2>2. PICK i \in 1 .. n : e[i] = s
    BY <1>5
  <2> QED
    BY <2>1, <2>2
<1>8. \A i, j \in 1 .. n : list[i] = list[j] => i = j
  <2>1. \A i, j \in 1 .. n : list[i] = list[j] => e[i] = e[j]
    BY <1>6
  <2> QED
    BY <1>5, <2>1
<1>9. [i \in 1 .. n |-> list[i].score] = InOrder(e, g)
  BY <1>6 DEF InOrder, n
<1>10. DOMAIN list = 1 .. n
  OBVIOUS
<1>11. list \in [1 .. n -> result]
  BY <1>6
<1> HIDE DEF list
<1>12. result = {list[i] : i \in 1 .. n}
  BY <1>6, <1>7
<1>13. Scored(list, n)
  BY <1>6, <1>8 DEF Scored
<1>14. MapThenSumSet(LAMBDA r : r.score, result) = Total([i \in 1 .. n |-> list[i].score])
  BY <1>4, <1>12, <1>13, ScoresSum
<1>15. MapThenSumSet(LAMBDA r : r.score, result) <= Scale
  BY <1>3, <1>9, <1>14
<1>16. Cardinality(result) = n
  <2>1. list \in Bijection(1 .. n, result)
    BY <1>7, <1>8, <1>11 DEF Bijection, Injection, Surjection, IsInjective
  <2>2. IsFiniteSet(1 .. n) /\ Cardinality(1 .. n) = n
    BY <1>4, FS_Interval
  <2>3. ExistsBijection(1 .. n, result)
    BY <2>1 DEF ExistsBijection
  <2> QED
    BY <2>2, <2>3, FS_Bijection
<1>17. ASSUME NEW r \in result
       PROVE  r.score >= (3 * Scale) \div (20 * Cardinality(result))
  <2>1. BaseRank(refs) <= r.score
    BY <1>3, <1>7
  <2>2. BaseRank(refs) = (3 * Scale) \div (20 * Cardinality(result))
    BY <1>16 DEF BaseRank, n, NodeCount
  <2>3. n # 0
    BY <1>4, <1>7
  <2>4. BaseRank(refs) \in Nat
    BY <2>3, BaseRankIs DEF n
  <2>5. r.score \in Nat
    BY <1>3, <1>7 DEF Scores
  <2> DEFINE x == (3 * Scale) \div (20 * Cardinality(result))
  <2>6. x \in Nat /\ x <= r.score
    BY <2>1, <2>2, <2>4
  <2> HIDE DEF x
  <2>7. r.score >= x
    BY <2>5, <2>6
  <2> QED
    BY <2>7 DEF x
<1> QED
  BY <1>15, <1>17

-----------------------------------------------------------------------------
(***************************************************************************)
(* The answers of the blast radius and of the page ranks.                  *)
(***************************************************************************)

\* What an answer in hand was computed from: the call graph, which has not
\* changed since.
DependentsAnswered ==
  /\ Is("blast_radius") =>
       \E name \in STRING, depth \in Int :
         answer.argument = <<name, depth>> /\ answer.result = GetBlastRadius(refs, name, depth)
  /\ Is("page_rank") => answer.result = PageRank(refs)

\* The property is what the invariant says of the answer.
LEMMA DependentsFollow ==
  ASSUME TablesInv, DependentsAnswered
  PROVE  DependentsExact
<1>1. ASSUME Is("blast_radius")
      PROVE  RadiusOf(answer.argument[1], answer.argument[2], answer.result)
  <2>1. PICK name \in STRING, depth \in Int :
          answer.argument = <<name, depth>> /\ answer.result = GetBlastRadius(refs, name, depth)
    BY <1>1 DEF DependentsAnswered
  <2>2. RadiusOf(name, depth, answer.result)
    BY <2>1, RadiusExact
  <2> QED
    BY <2>1, <2>2
<1>2. ASSUME Is("page_rank"), NoneTwice
      PROVE  /\ MapThenSumSet(LAMBDA r : r.score, answer.result) <= Scale
             /\ \A r \in answer.result : r.score >= (3 * Scale) \div (20 * Cardinality(answer.result))
  <2>1. answer.result = PageRank(refs)
    BY <1>2 DEF DependentsAnswered
  <2> QED
    BY <1>2, <2>1, RanksExact
<1> QED
  BY <1>1, <1>2, Zenon DEF DependentsExact, RadiusOf, NoneTwice

\* It is kept by the step that leaves the answer, and by the others.
LEMMA DependentsStep ==
  ASSUME DependentsAnswered, [Next]_vars
  PROVE  DependentsAnswered'
<1> SUFFICES ASSUME answer' # None
             PROVE  DependentsAnswered'
  BY DEF DependentsAnswered, Is
<1>1. CASE UNCHANGED vars
  BY <1>1 DEF DependentsAnswered, Is, vars
<1>2. CASE UNCHANGED tables /\ Called
  <2>1. refs' = refs
    BY <1>2 DEF tables
  <2>2. ASSUME answer'.tool = "blast_radius"
        PROVE  DependentsAnswered'
    <3>1. PICK name \in Names, depth \in Depths :
            Answers("blast_radius", <<name, depth>>, GetBlastRadius(refs, name, depth))
      BY <1>2, <2>2 DEF Called, BlastRadius
    <3>2. answer'.argument = <<name, depth>> /\ answer'.result = GetBlastRadius(refs, name, depth)
      BY <3>1 DEF Answers, Answer
    <3>3. name \in STRING /\ depth \in Int
      BY ConstantsAssumption
    <3> QED
      BY <2>1, <2>2, <3>2, <3>3 DEF DependentsAnswered, Is
  <2>3. ASSUME answer'.tool = "page_rank"
        PROVE  DependentsAnswered'
    <3>1. answer'.result = PageRank(refs)
      BY <1>2, <2>3 DEF Called, Ranks, Answers, Answer
    <3> QED
      BY <2>1, <2>3, <3>1 DEF DependentsAnswered, Is
  <2> QED
    BY <2>2, <2>3 DEF DependentsAnswered, Is
<1> QED
  BY <1>1, <1>2, Asked

\* Whatever the calls, in circles too, the blast radius has each function that
\* reaches the symbol within the depth, once, at its distance and the nearest
\* first; and while no function calls another twice, the page ranks sum to at
\* most 1 and none is below its share of the random jumps (GetBlastRadius,
\* computePageRankLocked).
THEOREM DependentsAreExact == Spec => []DependentsExact
<1>1. Init => DependentsAnswered
  BY TablesInit DEF DependentsAnswered, Is
<1>2. DependentsAnswered /\ [Next]_vars => DependentsAnswered'
  BY DependentsStep
<1>3. TablesInv /\ DependentsAnswered => DependentsExact
  BY DependentsFollow
<1> QED
  BY <1>1, <1>2, <1>3, TablesStay, PTL DEF Spec

-----------------------------------------------------------------------------
(***************************************************************************)
(* The diff: what git writes of the lines that were added.                 *)
(***************************************************************************)

\* The k-th of the first m sequences is in flat after its first at[k]
\* elements, and nothing else is there.
Joins(at, seqs, m, flat) ==
  /\ \A k \in 1 .. m :
       /\ at[k] \in Nat /\ at[k] + Len(seqs[k]) <= Len(flat)
       /\ \A j \in 1 .. Len(seqs[k]) : flat[at[k] + j] = seqs[k][j]
  /\ \A p \in 1 .. Len(flat) : \E k \in 1 .. m : p - at[k] \in 1 .. Len(seqs[k])

\* One more sequence follows the others.
LEMMA JoinsMore ==
  ASSUME NEW T, NEW at, NEW seqs, NEW m \in Nat, NEW flat \in Seq(T), seqs[m + 1] \in Seq(T),
         \A k \in 1 .. m : seqs[k] \in Seq(T),
         Joins(at, seqs, m, flat), at[m + 1] = Len(flat)
  PROVE  Joins(at, seqs, m + 1, flat \o seqs[m + 1])
<1> DEFINE more == seqs[m + 1]
           all == flat \o more
<1>1. /\ Len(all) = Len(flat) + Len(more) /\ Len(flat) \in Nat /\ Len(more) \in Nat
      /\ \A i \in 1 .. Len(flat) : all[i] = flat[i]
      /\ \A i \in 1 .. Len(more) : all[Len(flat) + i] = more[i]
  BY ConcatIs
<1> HIDE DEF all
<1>2. ASSUME NEW k \in 1 .. m + 1
      PROVE  /\ at[k] \in Nat /\ at[k] + Len(seqs[k]) <= Len(all)
             /\ \A j \in 1 .. Len(seqs[k]) : all[at[k] + j] = seqs[k][j]
  <2>1. CASE k = m + 1
    <3>1. at[k] = Len(flat) /\ seqs[k] = more
      BY <2>1
    <3> HIDE DEF more
    <3> QED
      BY <1>1, <3>1
  <2>2. CASE k # m + 1
    <3>1. k \in 1 .. m
      BY <2>2
    <3>2. /\ at[k] \in Nat /\ at[k] + Len(seqs[k]) <= Len(flat) /\ Len(seqs[k]) \in Nat
          /\ \A j \in 1 .. Len(seqs[k]) : flat[at[k] + j] = seqs[k][j]
      BY <3>1 DEF Joins
    <3>3. \A j \in 1 .. Len(seqs[k]) : at[k] + j \in 1 .. Len(flat)
      BY <1>1, <3>2
    <3>4. ASSUME NEW j \in 1 .. Len(seqs[k])
          PROVE  all[at[k] + j] = seqs[k][j]
      BY <1>1, <3>2, <3>3
    <3> QED
      BY <1>1, <3>2, <3>4
  <2> QED
    BY <2>1, <2>2
<1>3. ASSUME NEW p \in 1 .. Len(all)
      PROVE  \E k \in 1 .. m + 1 : p - at[k] \in 1 .. Len(seqs[k])
  <2>1. CASE p \in 1 .. Len(flat)
    <3>1. PICK k \in 1 .. m : p - at[k] \in 1 .. Len(seqs[k])
      BY <2>1 DEF Joins
    <3>2. k \in 1 .. m + 1
      OBVIOUS
    <3> QED
      BY <3>1, <3>2
  <2>2. CASE p \notin 1 .. Len(flat)
    <3>1. p - Len(flat) \in 1 .. Len(more)
      BY <1>1, <2>2
    <3>2. m + 1 \in 1 .. m + 1
      OBVIOUS
    <3> QED
      BY <3>1, <3>2
  <2> QED
    BY <2>1, <2>2
<1> QED
  BY <1>2, <1>3 DEF Joins, all

\* In FlattenSeq each sequence lies in one piece.
LEMMA FlattenPlaces ==
  ASSUME NEW T, NEW seqs \in Seq(Seq(T))
  PROVE  \E at : Joins(at, seqs, Len(seqs), FlattenSeq(seqs))
<1>1. PICK run : FlattenRun(run, T, seqs)
  BY FlattenRunExists
<1> DEFINE n == Len(seqs)
           at == [k \in 1 .. n |-> Len(run[k - 1])]
           Good == {k \in 0 .. n : Joins(at, seqs, k, run[k])}
<1>2. n \in Nat /\ \A k \in 1 .. n : seqs[k] \in Seq(T)
  <2> DEFINE Q == Seq(T)
  <2> HIDE DEF Q
  <2>1. seqs \in Seq(Q)
    BY DEF Q
  <2> QED
    BY <2>1 DEF Q
<1>3. /\ run \in [0 .. n -> Seq(T)] /\ run[0] = <<>>
      /\ \A k \in 1 .. n : run[k] = run[k - 1] \o seqs[k]
      /\ FlattenSeq(seqs) = run[n]
  BY <1>1 DEF FlattenRun
<1>4. \A k \in 1 .. n : at[k] = Len(run[k - 1])
  OBVIOUS
<1> HIDE DEF n, at
<1>5. 0 \in Good
  BY <1>2, <1>3 DEF Joins
<1>6. ASSUME NEW k \in 1 .. n, k - 1 \in Good
      PROVE  k \in Good
  <2>1. PICK m \in Nat : m = k - 1
    OBVIOUS
  <2>2. k = m + 1 /\ m \in 0 .. n /\ k \in 0 .. n
    BY <1>2, <2>1
  <2>3. run[m] \in Seq(T) /\ seqs[m + 1] \in Seq(T) /\ run[k] = run[m] \o seqs[m + 1]
        /\ at[m + 1] = Len(run[m])
    BY <1>2, <1>3, <1>4, <2>1, <2>2
  <2>4. \A j \in 1 .. m : seqs[j] \in Seq(T)
    BY <1>2, <2>2
  <2>5. Joins(at, seqs, m, run[m])
    BY <1>6, <2>1
  <2>6. Joins(at, seqs, m + 1, run[m] \o seqs[m + 1])
    BY <2>3, <2>4, <2>5, JoinsMore
  <2> QED
    BY <2>2, <2>3, <2>6
<1> HIDE DEF Good
<1>7. \A k \in 0 .. n : k \in Good
  BY <1>2, <1>5, <1>6, InductionTo
<1>8. Joins(at, seqs, n, run[n])
  BY <1>2, <1>7 DEF Good
<1> QED
  BY <1>3, <1>8 DEF n

\* What a script says of a line, and of one that is there now.
Ops == {"=", "+", "-"}
KeptOps == {"=", "+"}

\* What a script says of one line of a file, and of those removed before it.
Piece(script, lines, i) ==
  (IF i = script.removed THEN <<"-">> ELSE <<>>)
    \o (IF i > lines THEN <<>> ELSE IF i \in script.added THEN <<"+">> ELSE <<"=">>)

\* What a script says of one line: at its end what is there now, if anything.
LEMMA PieceIs ==
  ASSUME NEW script, NEW lines \in Nat, NEW i \in 1 .. lines + 1
  PROVE  /\ Piece(script, lines, i) \in Seq(Ops)
         /\ i \in 1 .. lines =>
              /\ Len(Piece(script, lines, i)) \in 1 .. Len(Piece(script, lines, i))
              /\ \A j \in 1 .. Len(Piece(script, lines, i)) :
                   Piece(script, lines, i)[j] \in KeptOps <=> j = Len(Piece(script, lines, i))
         /\ i = lines + 1 =>
              \A j \in 1 .. Len(Piece(script, lines, i)) : Piece(script, lines, i)[j] \notin KeptOps
<1> DEFINE first == IF i = script.removed THEN <<"-">> ELSE <<>>
           second == IF i > lines THEN <<>> ELSE IF i \in script.added THEN <<"+">> ELSE <<"=">>
<1>1. /\ first \in Seq(Ops) /\ Len(first) \in {0, 1}
      /\ \A j \in 1 .. Len(first) : first[j] \notin KeptOps
  <2>1. CASE i = script.removed
    <3>1. first = <<"-">>
      BY <2>1
    <3>2. "-" \in Ops /\ "-" \notin KeptOps
      BY DEF Ops, KeptOps
    <3> HIDE DEF first
    <3>3. <<"-">> \in Seq(Ops) /\ Len(<<"-">>) = 1 /\ <<"-">>[1] = "-"
      BY <3>2, SingletonIs
    <3> QED
      BY <3>1, <3>2, <3>3
  <2>2. CASE i # script.removed
    BY <2>2
  <2> QED
    BY <2>1, <2>2
<1>2. second \in Seq(Ops)
  <2>1. "+" \in Ops /\ "=" \in Ops
    BY DEF Ops
  <2>2. <<"+">> \in Seq(Ops) /\ <<"=">> \in Seq(Ops)
    BY <2>1, SingletonIs
  <2>3. <<>> \in Seq(Ops)
    OBVIOUS
  <2> QED
    BY <2>2, <2>3
<1>3. i \in 1 .. lines => Len(second) = 1 /\ second[1] \in KeptOps
  BY DEF KeptOps
<1>4. i = lines + 1 => Len(second) = 0
  OBVIOUS
<1>5. Piece(script, lines, i) = first \o second
  BY DEF Piece
<1> HIDE DEF first, second
<1>6. /\ first \o second \in Seq(Ops) /\ Len(first \o second) = Len(first) + Len(second)
      /\ \A j \in 1 .. Len(first) : (first \o second)[j] = first[j]
      /\ \A j \in 1 .. Len(second) : (first \o second)[Len(first) + j] = second[j]
  BY <1>1, <1>2, ConcatIs
<1> DEFINE piece == first \o second
<1> HIDE DEF piece
<1>7. i \in 1 .. lines =>
        Len(piece) \in 1 .. Len(piece) /\ \A j \in 1 .. Len(piece) : piece[j] \in KeptOps <=> j = Len(piece)
  <2> SUFFICES ASSUME i \in 1 .. lines
               PROVE  Len(piece) \in 1 .. Len(piece)
                      /\ \A j \in 1 .. Len(piece) : piece[j] \in KeptOps <=> j = Len(piece)
    OBVIOUS
  <2>1. Len(piece) = Len(first) + 1 /\ piece[Len(first) + 1] \in KeptOps
    <3>1. Len(second) = 1 /\ second[1] \in KeptOps /\ 1 \in 1 .. 1
      BY <1>3
    <3>2. (first \o second)[Len(first) + 1] = second[1]
      BY <1>6, <3>1
    <3>3. Len(first \o second) = Len(first) + 1
      BY <1>6, <3>1
    <3> QED
      BY <3>1, <3>2, <3>3 DEF piece
  <2>2. \A j \in 1 .. Len(first) : piece[j] \notin KeptOps
    BY <1>1, <1>6 DEF piece
  <2>3. \A j \in 1 .. Len(piece) : j = Len(piece) \/ j \in 1 .. Len(first)
    BY <1>1, <2>1
  <2> QED
    BY <1>1, <2>1, <2>2, <2>3
<1>8. i = lines + 1 => \A j \in 1 .. Len(piece) : piece[j] \notin KeptOps
  <2> SUFFICES ASSUME i = lines + 1
               PROVE  \A j \in 1 .. Len(piece) : piece[j] \notin KeptOps
    OBVIOUS
  <2>1. Len(piece) = Len(first)
    BY <1>1, <1>4, <1>6 DEF piece
  <2> QED
    BY <1>1, <1>6, <2>1 DEF piece
<1> QED
  BY <1>5, <1>6, <1>7, <1>8 DEF piece

\* A script spells out as many lines as the file has now.
LEMMA ScriptIs ==
  ASSUME NEW script, NEW lines \in Nat
  PROVE  /\ Script(script, lines) \in Seq(Ops)
         /\ Len(Only(Script(script, lines), KeptOps)) = lines
<1> DEFINE n == lines + 1
           seqs == [i \in 1 .. n |-> Piece(script, lines, i)]
           flat == FlattenSeq(seqs)
<1>1. Script(script, lines) = flat
  BY DEF Script, Piece
<1>2. n \in Nat /\ n = lines + 1 /\ (\A i \in 1 .. lines : i \in 1 .. n)
  OBVIOUS
<1>3. \A i \in 1 .. n : seqs[i] = Piece(script, lines, i)
  OBVIOUS
<1>4. seqs \in Seq(Seq(Ops)) /\ Len(seqs) = n
  <2> DEFINE Q == Seq(Ops)
  <2>1. \A i \in 1 .. n : Piece(script, lines, i) \in Q
    BY PieceIs
  <2> HIDE DEF Q, n
  <2> QED
    BY <1>2, <2>1 DEF Q
<1> HIDE DEF seqs, n, flat
<1>5. flat \in Seq(Ops) /\ \E a, b : Flattens(flat, seqs, Len(seqs), a, b)
  BY <1>4, FlattenIs DEF flat
<1>6. PICK a, b : Flattens(flat, seqs, n, a, b)
  BY <1>4, <1>5
<1> DEFINE kept == {p \in 1 .. Len(flat) : flat[p] \in KeptOps}
           f == [p \in kept |-> a[p]]
<1>7. ASSUME NEW p \in kept
      PROVE  a[p] \in 1 .. lines /\ b[p] = Len(seqs[a[p]])
  <2>1. a[p] \in 1 .. n /\ b[p] \in 1 .. Len(seqs[a[p]]) /\ flat[p] = seqs[a[p]][b[p]]
    BY <1>6 DEF Flattens
  <2>2. PICK i : i = a[p]
    OBVIOUS
  <2>3. /\ i \in 1 .. n /\ seqs[i] = Piece(script, lines, i)
        /\ b[p] \in 1 .. Len(Piece(script, lines, i))
        /\ Piece(script, lines, i)[b[p]] \in KeptOps
    BY <1>3, <2>1, <2>2
  <2>4. i # lines + 1
    BY <1>2, <2>3, PieceIs
  <2>5. i \in 1 .. lines
    BY <1>2, <2>3, <2>4
  <2> QED
    BY <1>2, <2>2, <2>3, <2>5, PieceIs
<1>8. ASSUME NEW i \in 1 .. lines
      PROVE  \E p \in kept : f[p] = i
  <2>1. i \in 1 .. n /\ seqs[i] = Piece(script, lines, i)
    BY <1>2, <1>3
  <2>2. Len(seqs[i]) \in 1 .. Len(seqs[i]) /\ seqs[i][Len(seqs[i])] \in KeptOps
    BY <1>2, <2>1, PieceIs
  <2>3. PICK p \in 1 .. Len(flat) : a[p] = i /\ b[p] = Len(seqs[i])
    BY <1>6, <2>1, <2>2 DEF Flattens
  <2>4. flat[p] = seqs[i][Len(seqs[i])]
    BY <1>6, <2>3 DEF Flattens
  <2> QED
    BY <2>2, <2>3, <2>4
<1>9. f \in Bijection(kept, 1 .. lines)
  <2>1. f \in [kept -> 1 .. lines]
    BY <1>7
  <2>2. \A p, q \in kept : f[p] = f[q] => p = q
    BY <1>6, <1>7 DEF Flattens
  <2> HIDE DEF f, kept
  <2> QED
    BY <1>8, <2>1, <2>2 DEF Bijection, Injection, Surjection, IsInjective
<1>10. Cardinality(kept) = lines
  <2>1. IsFiniteSet(1 .. lines) /\ Cardinality(1 .. lines) = lines
    BY FS_Interval
  <2>2. IsFiniteSet(kept)
    <3>1. Len(flat) \in Nat
      BY <1>5
    <3>2. IsFiniteSet(1 .. Len(flat)) /\ kept \subseteq 1 .. Len(flat)
      BY <3>1, FS_Interval
    <3> QED
      BY <3>2, FS_Subset
  <2> HIDE DEF f, kept
  <2>3. ExistsBijection(kept, 1 .. lines)
    BY <1>9 DEF ExistsBijection
  <2> QED
    BY <2>1, <2>2, <2>3, FS_Bijection
<1>11. Len(Only(flat, KeptOps)) = lines
  BY <1>5, <1>10, OnlyCount
<1> QED
  BY <1>1, <1>5, <1>11

\* The lines of a hunk, and all lines of git's output.
HunkLine == [type : {"@"}, old : Int, new : Int] \cup [type : {"-", "+"}]
DiffLine == [type : {"diff"}, file : STRING] \cup [type : {"quoted"}] \cup HunkLine

\* The fields of a line of a diff, by its type.
LEMMA LineIs ==
  ASSUME NEW x \in DiffLine
  PROVE  /\ x.type = "diff" => x.file \in STRING
         /\ x.type = "@" => x.old \in Int /\ x.new \in Int
         /\ x.type \in {"diff", "quoted", "@", "-", "+"}
<1>1. CASE x \in [type : {"diff"}, file : STRING]
  BY <1>1
<1>2. CASE x \in [type : {"quoted"}]
  BY <1>2
<1>3. CASE x \in [type : {"@"}, old : Int, new : Int]
  BY <1>3
<1>4. CASE x \in [type : {"-", "+"}]
  BY <1>4
<1> QED
  BY <1>1, <1>3, <1>4, <1>2 DEF DiffLine, HunkLine

\* The lines of a hunk are lines of a diff.
LEMMA HunkLineIs ==
  ASSUME NEW x \in HunkLine
  PROVE  x \in DiffLine /\ x.type \in {"@", "-", "+"}
<1>1. CASE x \in [type : {"@"}, old : Int, new : Int]
  BY <1>1 DEF DiffLine, HunkLine
<1>2. CASE x \in [type : {"-", "+"}]
  BY <1>2 DEF DiffLine, HunkLine
<1> QED
  BY <1>1, <1>2 DEF HunkLine

\* part is in whole after its first at elements.
Within(part, at, whole) ==
  /\ at \in Nat /\ Len(part) \in Nat /\ at + Len(part) <= Len(whole)
  /\ \A j \in 1 .. Len(part) : whole[at + j] = part[j]

\* Both parts lie within a concatenation.
LEMMA ConcatWithin ==
  ASSUME NEW T, NEW s \in Seq(T), NEW t \in Seq(T)
  PROVE  Within(s, 0, s \o t) /\ Within(t, Len(s), s \o t)
<1> DEFINE w == s \o t
<1>1. /\ Len(w) = Len(s) + Len(t) /\ Len(s) \in Nat /\ Len(t) \in Nat
      /\ \A i \in 1 .. Len(s) : w[i] = s[i]
      /\ \A i \in 1 .. Len(t) : w[Len(s) + i] = t[i]
  BY ConcatIs
<1> HIDE DEF w
<1>2. \A i \in 1 .. Len(s) : 0 + i = i
  BY <1>1
<1>3. Within(s, 0, w)
  BY <1>1, <1>2 DEF Within
<1>4. Within(t, Len(s), w)
  BY <1>1 DEF Within
<1> QED
  BY <1>3, <1>4 DEF w

\* A hunk's header at h, r lines that were removed and a that were added.
Block(text, h, r, a) ==
  /\ h \in Nat \ {0} /\ r \in Nat /\ a \in Nat \ {0} /\ h + r + a <= Len(text)
  /\ text[h].type = "@"
  /\ \A j \in 1 .. r : text[h + j].type = "-"
  /\ \A j \in 1 .. a : text[h + r + j].type = "+"

\* A hunk of a part is one of the whole.
LEMMA BlockWithin ==
  ASSUME NEW part, NEW at, NEW whole, Within(part, at, whole), Len(whole) \in Nat,
         NEW h, NEW r, NEW a, Block(part, h, r, a)
  PROVE  Block(whole, at + h, r, a) /\ whole[at + h] = part[h]
<1>1. /\ at \in Nat /\ Len(part) \in Nat /\ at + Len(part) <= Len(whole)
      /\ \A j \in 1 .. Len(part) : whole[at + j] = part[j]
  BY DEF Within
<1>2. /\ h \in Nat \ {0} /\ r \in Nat /\ a \in Nat \ {0} /\ h + r + a <= Len(part)
  BY DEF Block
<1>3. h \in 1 .. Len(part) /\ whole[at + h] = part[h]
  BY <1>1, <1>2
<1>4. ASSUME NEW j \in 1 .. r
      PROVE  whole[(at + h) + j].type = "-"
  <2>1. h + j \in 1 .. Len(part) /\ (at + h) + j = at + (h + j)
    BY <1>1, <1>2
  <2>2. whole[(at + h) + j] = part[h + j]
    BY <1>1, <2>1
  <2> QED
    BY <2>2 DEF Block
<1>5. ASSUME NEW j \in 1 .. a
      PROVE  whole[(at + h) + r + j].type = "+"
  <2>1. h + r + j \in 1 .. Len(part) /\ (at + h) + r + j = at + (h + r + j)
    BY <1>1, <1>2
  <2>2. whole[(at + h) + r + j] = part[h + r + j]
    BY <1>1, <2>1
  <2> QED
    BY <2>2 DEF Block
<1>6. at + h \in Nat \ {0} /\ (at + h) + r + a <= Len(whole)
  BY <1>1, <1>2
<1>7. whole[at + h].type = "@"
  BY <1>3 DEF Block
<1> QED
  BY <1>2, <1>3, <1>4, <1>5, <1>6, <1>7 DEF Block

\* The hunks say that line i was added.
Covered(text, i) ==
  \E h, r, a : Block(text, h, r, a) /\ i = text[h].new + a - 1

\* And so is an added line that a hunk covers.
LEMMA CoveredWithin ==
  ASSUME NEW part, NEW at, NEW whole, Within(part, at, whole), Len(whole) \in Nat,
         NEW i, Covered(part, i)
  PROVE  Covered(whole, i)
<1>1. PICK h, r, a : Block(part, h, r, a) /\ i = part[h].new + a - 1
  BY DEF Covered
<1>2. Block(whole, at + h, r, a) /\ whole[at + h] = part[h]
  BY <1>1, BlockWithin
<1> QED
  BY <1>1, <1>2 DEF Covered

\* The state of a comparison, and its first.
RunType == [old : Nat, new : Nat, removed : Nat, added : Nat, text : Seq(HunkLine)]

\* A run is written with all lines it added.
LEMMA HunkTextIs ==
  ASSUME NEW run \in RunType
  PROVE  /\ HunkText(run) \in Seq(HunkLine)
         /\ run.removed = 0 /\ run.added = 0 => HunkText(run) = <<>>
         /\ \A i \in run.new - run.added + 1 .. run.new : Covered(HunkText(run), i)
<1> DEFINE r == run.removed
           n == run.added
           from == run.new
           first == [type |-> "@", old |-> IF r = 0 THEN run.old ELSE run.old - r + 1,
                     new |-> IF n = 0 THEN from ELSE from - n + 1]
           out == [i \in 1 .. r |-> [type |-> "-"]]
           in == [i \in 1 .. n |-> [type |-> "+"]]
           head == <<first>>
<1>1. r \in Nat /\ n \in Nat /\ from \in Nat /\ run.old \in Nat
  BY DEF RunType
<1>2. HunkText(run) = IF r + n = 0 THEN <<>> ELSE (head \o out) \o in
  BY DEF HunkText
<1>3. first \in HunkLine /\ first.type = "@" /\ (n # 0 => first.new = from - n + 1)
  <2> DEFINE old == IF r = 0 THEN run.old ELSE run.old - r + 1
             new == IF n = 0 THEN from ELSE from - n + 1
  <2>1. old \in Int /\ new \in Int /\ (n # 0 => new = from - n + 1)
    BY <1>1
  <2>2. first = [type |-> "@", old |-> old, new |-> new]
    OBVIOUS
  <2> HIDE DEF first, old, new
  <2> QED
    BY <2>1, <2>2 DEF HunkLine
<1>4. [type |-> "-"] \in HunkLine /\ [type |-> "+"] \in HunkLine
  BY DEF HunkLine
<1> DEFINE minus == [type |-> "-"]
           plus == [type |-> "+"]
<1>5. minus.type = "-" /\ plus.type = "+"
  OBVIOUS
<1> HIDE DEF first, minus, plus, HunkLine, r, n, from
<1>6. out \in Seq(HunkLine) /\ Len(out) = r /\ \A j \in 1 .. r : out[j] = minus
  BY <1>1, <1>4 DEF minus
<1>7. in \in Seq(HunkLine) /\ Len(in) = n /\ \A j \in 1 .. n : in[j] = plus
  BY <1>1, <1>4 DEF plus
<1>8. head \in Seq(HunkLine) /\ Len(head) = 1 /\ head[1] = first
  BY <1>3, SingletonIs
<1> HIDE DEF out, in, head
<1> DEFINE begin == head \o out
           text == begin \o in
<1>9. begin \in Seq(HunkLine) /\ Len(begin) = 1 + r /\ begin[1] = first
      /\ \A j \in 1 .. r : begin[1 + j] = minus
  <2>1. /\ begin \in Seq(HunkLine) /\ Len(begin) = Len(head) + Len(out)
        /\ \A i \in 1 .. Len(head) : begin[i] = head[i]
        /\ \A i \in 1 .. Len(out) : begin[Len(head) + i] = out[i]
    <3>1. head \in Seq(HunkLine) /\ out \in Seq(HunkLine)
      BY <1>6, <1>8
    <3> QED
      BY <3>1, ConcatIs
  <2> HIDE DEF begin
  <2>2. begin[1] = head[1]
    BY <1>8, <2>1
  <2> QED
    BY <1>1, <1>6, <1>8, <2>1, <2>2
<1> HIDE DEF begin
<1>10. /\ text \in Seq(HunkLine) /\ Len(text) = 1 + r + n
       /\ \A j \in 1 .. 1 + r : text[j] = begin[j]
       /\ \A j \in 1 .. n : text[1 + r + j] = plus
  <2>1. /\ text \in Seq(HunkLine) /\ Len(text) = Len(begin) + Len(in)
        /\ \A i \in 1 .. Len(begin) : text[i] = begin[i]
        /\ \A i \in 1 .. Len(in) : text[Len(begin) + i] = in[i]
    <3>1. begin \in Seq(HunkLine) /\ in \in Seq(HunkLine)
      BY <1>7, <1>9
    <3> QED
      BY <3>1, ConcatIs
  <2> HIDE DEF text
  <2> QED
    BY <1>1, <1>7, <1>9, <2>1
<1> HIDE DEF text
<1>11. text[1] = first /\ \A j \in 1 .. r : text[1 + j] = minus
  <2>1. 1 \in 1 .. 1 + r /\ \A j \in 1 .. r : 1 + j \in 1 .. 1 + r
    BY <1>1
  <2> QED
    BY <1>9, <1>10, <2>1
<1>12. ASSUME NEW i \in from - n + 1 .. from
       PROVE  r + n # 0 /\ Covered(text, i)
  <2> DEFINE a == i - (from - n)
  <2>1. a \in 1 .. n /\ n # 0 /\ r + n # 0 /\ i = (from - n + 1) + a - 1
    BY <1>1
  <2> HIDE DEF a
  <2>2. a \in Nat \ {0} /\ 1 + r + a <= 1 + r + n /\ (\A j \in 1 .. a : j \in 1 .. n)
    BY <1>1, <2>1
  <2>3. text[1].type = "@" /\ text[1].new = from - n + 1
    BY <1>3, <1>11, <2>1
  <2>4. \A j \in 1 .. r : text[1 + j].type = "-"
    BY <1>5, <1>11
  <2>5. \A j \in 1 .. a : text[1 + r + j].type = "+"
    BY <1>5, <1>10, <2>2
  <2>6. Block(text, 1, r, a)
    BY <1>1, <1>10, <2>2, <2>3, <2>4, <2>5, 1 \in Nat \ {0} DEF Block
  <2>7. Covered(text, i)
    BY <2>1, <2>3, <2>6 DEF Covered
  <2> QED
    BY <2>1, <2>7
<1>13. HunkText(run) = IF r + n = 0 THEN <<>> ELSE text
  BY <1>2 DEF text, begin
<1>14. HunkText(run) \in Seq(HunkLine)
  BY <1>10, <1>13
<1>15. r = 0 /\ n = 0 => HunkText(run) = <<>>
  BY <1>13
<1>16. \A i \in from - n + 1 .. from : Covered(HunkText(run), i)
  BY <1>12, <1>13
<1> QED
  BY <1>14, <1>15, <1>16 DEF r, n, from

\* Compare, case by case.
LEMMA CompareIs ==
  ASSUME NEW run \in RunType
  PROVE  /\ Compare(run, "-") = [run EXCEPT !.old = run.old + 1, !.removed = run.removed + 1]
         /\ Compare(run, "+") = [run EXCEPT !.new = run.new + 1, !.added = run.added + 1]
         /\ Compare(run, "=") = [old |-> run.old + 1, new |-> run.new + 1, removed |-> 0, added |-> 0,
                                text |-> run.text \o HunkText(run)]
  BY DEF Compare

\* It keeps the types.
LEMMA CompareType ==
  ASSUME NEW run \in RunType, NEW op \in Ops
  PROVE  Compare(run, op) \in RunType
<1> DEFINE S == Seq(HunkLine)
<1>1. run.text \o HunkText(run) \in S
  <2>1. run.text \in Seq(HunkLine) /\ HunkText(run) \in Seq(HunkLine)
    BY HunkTextIs DEF RunType
  <2> QED
    BY <2>1, ConcatIs
<1> HIDE DEF S
<1>2. /\ run.old + 1 \in Nat /\ run.new + 1 \in Nat /\ run.removed + 1 \in Nat /\ run.added + 1 \in Nat
      /\ run \in [old : Nat, new : Nat, removed : Nat, added : Nat, text : S]
  BY DEF RunType, S
<1>3. Compare(run, "-") \in RunType
  BY <1>2, CompareIs DEF RunType, S
<1>4. Compare(run, "+") \in RunType
  BY <1>2, CompareIs DEF RunType, S
<1>5. Compare(run, "=") \in RunType
  <2> DEFINE text == run.text \o HunkText(run)
  <2>1. Compare(run, "=") = [old |-> run.old + 1, new |-> run.new + 1, removed |-> 0, added |-> 0, text |-> text]
    BY CompareIs
  <2>2. text \in S
    BY <1>1
  <2> HIDE DEF text
  <2> QED
    BY <1>2, <2>1, <2>2 DEF RunType, S
<1> QED
  BY <1>3, <1>4, <1>5 DEF Ops

\* The script, and the end of the file.
Ended(script) == Append(script, "=")

\* A script with one more line that was kept at its end.
LEMMA EndedIs ==
  ASSUME NEW script \in Seq(Ops)
  PROVE  /\ Ended(script) \in Seq(Ops) /\ Len(Ended(script)) = Len(script) + 1 /\ Len(script) \in Nat
         /\ \A k \in 1 .. Len(script) : Ended(script)[k] = script[k] /\ script[k] \in Ops
         /\ Ended(script)[Len(script) + 1] = "="
<1>1. "=" \in Ops
  BY DEF Ops
<1> QED
  BY <1>1, AppendIs DEF Ended

NoRun == [old |-> 0, new |-> 0, removed |-> 0, added |-> 0, text |-> <<>>]

\* The hunks of a file.
AllOf(script) == FoldLeft(Compare, NoRun, Ended(script)).text

\* What the comparison goes through.
DiffRun(run, script) ==
  /\ run \in [0 .. Len(script) + 1 -> RunType]
  /\ run[0] = NoRun
  /\ \A k \in 1 .. Len(script) + 1 : run[k] = Compare(run[k - 1], Ended(script)[k])
  /\ AllOf(script) = run[Len(script) + 1].text

\* The run of a diff over a script.
LEMMA DiffRunExists ==
  ASSUME NEW script \in Seq(Ops)
  PROVE  \E run : DiffRun(run, script)
<1> DEFINE n == Len(script) + 1
           A == RunType
           base == NoRun
           Op(a, k) == Compare(a, Ended(script)[k])
           step == [p \in A \X (1 .. n) |-> Op(p[1], p[2])]
           Eq(h) == [s \in SUBSET (1 .. n) |-> IF s = {} THEN base ELSE Op(h[s \ {Max(s)}], Max(s))]
           iter == CHOOSE h : h = Eq(h)
<1>1. /\ Len(script) \in Nat /\ DOMAIN Ended(script) = 1 .. n
      /\ \A k \in 1 .. n : Ended(script)[k] \in Ops
  <2>1. Ended(script) \in Seq(Ops) /\ Len(Ended(script)) = n /\ Len(script) \in Nat
    BY EndedIs
  <2> HIDE DEF n
  <2> QED
    BY <2>1
<1>2. n \in Nat /\ base \in A
  BY <1>1 DEF RunType, NoRun
<1>3. ASSUME NEW a \in A, NEW k \in 1 .. n
      PROVE  Op(a, k) \in A
  BY <1>1, CompareType
<1>4. AllOf(script) = iter[1 .. n].text
  BY <1>1 DEF AllOf, FoldLeft, MapThenFoldSet
<1> HIDE DEF n, A, base, Op
<1>5. step \in Steps(A, n)
  BY <1>3 DEF Steps
<1>6. \A a \in A, k \in 1 .. n : step[<<a, k>>] = Op(a, k)
  OBVIOUS
<1>7. \A s \in SUBSET (1 .. n) : s # {} => Max(s) \in 1 .. n
  BY <1>2, MaxIs, \A s \in SUBSET (1 .. n) : s \in SUBSET (0 .. n)
<1> HIDE DEF step
<1>8. PICK g \in [SUBSET (1 .. n) -> A] : IsFold(g, n, A, base, step)
  BY <1>2, <1>5, FoldExists
<1>9. g = Eq(g)
  BY <1>6, <1>7, <1>8, \A s \in SUBSET (1 .. n) : s \ {Max(s)} \in SUBSET (1 .. n) DEF IsFold
<1>10. iter = Eq(iter)
  BY <1>9
<1> HIDE DEF iter
<1>11. IsFold(iter, n, A, base, step)
  BY <1>6, <1>7, <1>10 DEF IsFold
<1>12. PICK run : IsRun(run, n, A, base, step) /\ iter[1 .. n] = run[n]
  BY <1>2, <1>5, <1>11, RunOf
<1>13. ASSUME NEW k \in 1 .. n
       PROVE  run[k] = Op(run[k - 1], k)
  BY <1>2, <1>6, <1>12, k - 1 \in 0 .. n DEF IsRun
<1>14. run \in [0 .. n -> A] /\ run[0] = base
  BY <1>12 DEF IsRun
<1>15. DiffRun(run, script)
  BY <1>4, <1>12, <1>13, <1>14 DEF n, A, base, Op, DiffRun
<1> QED
  BY <1>15

\* Every line added so far is in a hunk, or in the run in hand.
DiffInv(run, kept) ==
  /\ kept \in Seq(Ops) /\ run.new = Len(kept)
  /\ \A i \in 1 .. Len(kept) :
       kept[i] = "+" => i > run.new - run.added \/ Covered(run.text, i)

\* The lines that are there now, with one more.
KeptThen(kept, op) == IF op \in KeptOps THEN Append(kept, op) ELSE kept

\* The next line of the script: the lines that were added are in the text, or in
\* the run that has not ended.
LEMMA DiffStep ==
  ASSUME NEW run \in RunType, NEW kept, DiffInv(run, kept), NEW op \in Ops
  PROVE  DiffInv(Compare(run, op), KeptThen(kept, op))
<1>1. /\ kept \in Seq(Ops) /\ run.new = Len(kept) /\ Len(kept) \in Nat /\ run.added \in Nat
      /\ \A i \in 1 .. Len(kept) : kept[i] = "+" => i > run.new - run.added \/ Covered(run.text, i)
  BY DEF DiffInv, RunType
<1>2. CASE op = "-"
  <2>1. KeptThen(kept, op) = kept
    BY <1>2 DEF KeptThen, KeptOps
  <2>2. Compare(run, op).new = run.new /\ Compare(run, op).added = run.added /\ Compare(run, op).text = run.text
    BY <1>2, CompareIs DEF RunType
  <2> QED
    BY <1>1, <2>1, <2>2 DEF DiffInv
<1>3. ASSUME op \in KeptOps
      PROVE  /\ KeptThen(kept, op) \in Seq(Ops) /\ Len(KeptThen(kept, op)) = Len(kept) + 1
             /\ \A i \in 1 .. Len(kept) : KeptThen(kept, op)[i] = kept[i]
             /\ KeptThen(kept, op)[Len(kept) + 1] = op
  <2>1. KeptThen(kept, op) = Append(kept, op)
    BY <1>3 DEF KeptThen
  <2> QED
    BY <1>1, <2>1, AppendIs
<1> DEFINE more == KeptThen(kept, op)
<1> HIDE DEF more
<1>4. CASE op = "+"
  <2>1. op \in KeptOps
    BY <1>4 DEF KeptOps
  <2>2. /\ Compare(run, op).new = run.new + 1 /\ Compare(run, op).added = run.added + 1
        /\ Compare(run, op).text = run.text
    BY <1>4, CompareIs DEF RunType
  <2>3. /\ more \in Seq(Ops) /\ Len(more) = Len(kept) + 1
        /\ \A i \in 1 .. Len(kept) : more[i] = kept[i]
    BY <1>3, <2>1 DEF more
  <2>4. ASSUME NEW i \in 1 .. Len(more), more[i] = "+"
        PROVE  i > (run.new + 1) - (run.added + 1) \/ Covered(run.text, i)
    <3>1. CASE i \in 1 .. Len(kept)
      <4>1. i > run.new - run.added \/ Covered(run.text, i)
        BY <1>1, <2>3, <2>4, <3>1
      <4>2. i > run.new - run.added => i > (run.new + 1) - (run.added + 1)
        BY <1>1
      <4> QED
        BY <4>1, <4>2
    <3>2. CASE i \notin 1 .. Len(kept)
      <4>1. i > (run.new + 1) - (run.added + 1)
        BY <1>1, <2>3, <3>2
      <4> QED
        BY <4>1
    <3> QED
      BY <3>1, <3>2
  <2>5. run.new + 1 = Len(more)
    BY <1>1, <2>3
  <2>6. DiffInv(Compare(run, op), more)
    BY <2>2, <2>3, <2>4, <2>5 DEF DiffInv
  <2> QED
    BY <2>6 DEF more
<1>5. CASE op = "="
  <2>1. op \in KeptOps
    BY <1>5 DEF KeptOps
  <2> DEFINE text == run.text \o HunkText(run)
  <2>2. /\ Compare(run, op).new = run.new + 1 /\ Compare(run, op).added = 0
        /\ Compare(run, op).text = text
    <3>1. Compare(run, op) =
            [old |-> run.old + 1, new |-> run.new + 1, removed |-> 0, added |-> 0, text |-> text]
      BY <1>5, CompareIs
    <3> HIDE DEF text
    <3> QED
      BY <3>1
  <2>3. /\ more \in Seq(Ops) /\ Len(more) = Len(kept) + 1
        /\ \A i \in 1 .. Len(kept) : more[i] = kept[i]
        /\ more[Len(kept) + 1] = "="
    BY <1>3, <1>5, <2>1 DEF more
  <2>4. run.text \in Seq(HunkLine) /\ HunkText(run) \in Seq(HunkLine)
    BY HunkTextIs DEF RunType
  <2>5. Within(run.text, 0, text) /\ Within(HunkText(run), Len(run.text), text) /\ Len(text) \in Nat
    <3>1. text \in Seq(HunkLine)
      BY <2>4, ConcatIs
    <3> QED
      BY <2>4, <3>1, ConcatWithin
  <2> HIDE DEF text
  <2>6. ASSUME NEW i \in 1 .. Len(more), more[i] = "+"
        PROVE  Covered(text, i)
    <3>1. i # Len(kept) + 1
      BY <2>3, <2>6
    <3>2. i \in 1 .. Len(kept)
      BY <1>1, <2>3, <3>1
    <3>3. i > run.new - run.added \/ Covered(run.text, i)
      BY <1>1, <2>3, <2>6, <3>2
    <3>4. CASE i > run.new - run.added
      <4>1. i \in run.new - run.added + 1 .. run.new
        BY <1>1, <3>2, <3>4
      <4>2. Covered(HunkText(run), i)
        BY <4>1, HunkTextIs
      <4> QED
        BY <2>5, <4>2, CoveredWithin
    <3>5. CASE Covered(run.text, i)
      BY <2>5, <3>5, CoveredWithin
    <3> QED
      BY <3>3, <3>4, <3>5
  <2>7. run.new + 1 = Len(more)
    BY <1>1, <2>3
  <2>8. DiffInv(Compare(run, op), more)
    BY <2>2, <2>3, <2>6, <2>7 DEF DiffInv
  <2> QED
    BY <2>8 DEF more
<1> QED
  BY <1>2, <1>4, <1>5 DEF Ops

\* Every line that was added is in a hunk of the diff.
LEMMA AllCovered ==
  ASSUME NEW script \in Seq(Ops)
  PROVE  /\ AllOf(script) \in Seq(HunkLine)
         /\ \A i \in 1 .. Len(Only(script, KeptOps)) :
              Only(script, KeptOps)[i] = "+" => Covered(AllOf(script), i)
<1> DEFINE n == Len(script)
           full == Ended(script)
<1>1. PICK run : DiffRun(run, script)
  BY DiffRunExists
<1>2. PICK kept : OnlyRun(kept, Ops, script, KeptOps)
  BY OnlyRunExists
<1>3. /\ n \in Nat /\ full[n + 1] = "="
      /\ \A k \in 1 .. n : full[k] = script[k] /\ script[k] \in Ops
  BY EndedIs
<1>4. /\ run \in [0 .. n + 1 -> RunType] /\ run[0] = NoRun
      /\ \A k \in 1 .. n + 1 : run[k] = Compare(run[k - 1], full[k])
      /\ AllOf(script) = run[n + 1].text
  BY <1>1 DEF DiffRun
<1>5. /\ kept \in [0 .. n -> Seq(Ops)] /\ kept[0] = <<>>
      /\ \A k \in 1 .. n : kept[k] = KeptThen(kept[k - 1], script[k])
      /\ Only(script, KeptOps) = kept[n]
  BY <1>2 DEF OnlyRun, KeptThen
<1> HIDE DEF n, full
<1> DEFINE Good == {k \in 0 .. n : DiffInv(run[k], kept[k])}
<1>6. 0 \in Good
  <2>1. DiffInv(NoRun, <<>>)
    BY DEF DiffInv, NoRun
  <2> QED
    BY <1>3, <1>4, <1>5, <2>1
<1>7. ASSUME NEW k \in 1 .. n, k - 1 \in Good
      PROVE  k \in Good
  <2>1. k - 1 \in 0 .. n + 1 /\ k \in 1 .. n + 1 /\ k \in 0 .. n
    BY <1>3
  <2>2. run[k - 1] \in RunType /\ DiffInv(run[k - 1], kept[k - 1]) /\ script[k] \in Ops
    BY <1>3, <1>4, <1>7, <2>1
  <2>3. DiffInv(Compare(run[k - 1], script[k]), KeptThen(kept[k - 1], script[k]))
    BY <2>2, DiffStep
  <2>4. run[k] = Compare(run[k - 1], script[k]) /\ kept[k] = KeptThen(kept[k - 1], script[k])
    BY <1>3, <1>4, <1>5, <2>1
  <2> QED
    BY <2>1, <2>3, <2>4
<1>8. DiffInv(run[n], kept[n])
  <2> HIDE DEF Good
  <2>1. \A k \in 0 .. n : k \in Good
    BY <1>3, <1>6, <1>7, InductionTo
  <2>2. n \in Good
    BY <1>3, <2>1
  <2> QED
    BY <2>2 DEF Good
<1> DEFINE last == run[n]
           end == run[n + 1]
<1>9. last \in RunType /\ end = Compare(last, "=") /\ end \in RunType
  <2>1. n \in 0 .. n + 1 /\ n + 1 \in 0 .. n + 1 /\ n + 1 \in 1 .. n + 1 /\ (n + 1) - 1 = n
    BY <1>3
  <2> QED
    BY <1>3, <1>4, <2>1
<1>10. AllOf(script) = end.text /\ Only(script, KeptOps) = kept[n]
  BY <1>4, <1>5
<1> DEFINE now == kept[n]
<1>11. DiffInv(last, now)
  BY <1>8
<1> HIDE DEF last, end, now
<1>12. DiffInv(end, KeptThen(now, "="))
  BY <1>9, <1>11, DiffStep DEF Ops
<1>13. now \in Seq(Ops) /\ last.new = Len(now) /\ Len(now) \in Nat
  BY <1>11 DEF DiffInv
<1>14. KeptThen(now, "=") = Append(now, "=")
  BY DEF KeptThen, KeptOps
<1>15. /\ Len(Append(now, "=")) = Len(now) + 1
       /\ \A i \in 1 .. Len(now) : Append(now, "=")[i] = now[i]
  BY <1>13, AppendIs, "=" \in Ops DEF Ops
<1>16. end.new = Len(now) + 1 /\ end.added = 0
  <2>1. PICK text : text = last.text \o HunkText(last)
    OBVIOUS
  <2>2. end = [old |-> last.old + 1, new |-> last.new + 1, removed |-> 0, added |-> 0, text |-> text]
    BY <1>9, <2>1, CompareIs
  <2> QED
    BY <1>13, <2>2
<1>17. ASSUME NEW i \in 1 .. Len(now), now[i] = "+"
       PROVE  Covered(end.text, i)
  <2>1. i \in 1 .. Len(Append(now, "=")) /\ Append(now, "=")[i] = "+"
    BY <1>13, <1>15, <1>17
  <2>2. i > end.new - end.added \/ Covered(end.text, i)
    BY <1>12, <1>14, <2>1 DEF DiffInv
  <2>3. ~(i > end.new - end.added)
    BY <1>13, <1>16
  <2> QED
    BY <2>2, <2>3
<1>18. end.text \in Seq(HunkLine)
  BY <1>9 DEF RunType
<1> QED
  BY <1>10, <1>17, <1>18 DEF now

\* Of a file in which every line was kept there is no diff.
LEMMA AllSame ==
  ASSUME NEW script \in Seq(Ops), \A k \in 1 .. Len(script) : script[k] = "="
  PROVE  AllOf(script) = <<>>
<1> DEFINE n == Len(script)
           full == Ended(script)
           Idle(r) == r.removed = 0 /\ r.added = 0 /\ r.text = <<>>
<1>1. PICK run : DiffRun(run, script)
  BY DiffRunExists
<1>2. n \in Nat /\ \A k \in 1 .. n + 1 : full[k] = "="
  <2>1. /\ n \in Nat /\ full[n + 1] = "="
        /\ \A k \in 1 .. n : full[k] = "="
    BY EndedIs
  <2>2. \A k \in 1 .. n + 1 : k \in 1 .. n \/ k = n + 1
    BY <2>1
  <2> QED
    BY <2>1, <2>2
<1>3. /\ run \in [0 .. n + 1 -> RunType] /\ run[0] = NoRun
      /\ \A k \in 1 .. n + 1 : run[k] = Compare(run[k - 1], full[k])
      /\ AllOf(script) = run[n + 1].text
  BY <1>1 DEF DiffRun
<1> HIDE DEF n, full
<1> DEFINE Good == {k \in 0 .. n + 1 : Idle(run[k])}
<1>4. 0 \in Good
  BY <1>2, <1>3 DEF NoRun
<1>5. ASSUME NEW k \in 1 .. n + 1, k - 1 \in Good
      PROVE  k \in Good
  <2> DEFINE r == run[k - 1]
  <2>1. k - 1 \in 0 .. n + 1 /\ k \in 0 .. n + 1
    BY <1>2
  <2>2. r \in RunType /\ Idle(r) /\ run[k] = Compare(r, "=")
    BY <1>2, <1>3, <1>5, <2>1
  <2> HIDE DEF r
  <2>3. HunkText(r) = <<>>
    BY <2>2, HunkTextIs
  <2>4. r.text \o HunkText(r) = <<>>
    BY <2>2, <2>3
  <2>5. Compare(r, "=") = [old |-> r.old + 1, new |-> r.new + 1, removed |-> 0, added |-> 0, text |-> <<>>]
    BY <2>2, <2>4, CompareIs
  <2> QED
    BY <2>1, <2>2, <2>5
<1>6. n + 1 \in Good
  <2> HIDE DEF Good
  <2>1. n + 1 \in Nat /\ n + 1 \in 0 .. n + 1
    BY <1>2
  <2> DEFINE m == n + 1
  <2>2. m \in Nat /\ 0 \in Good /\ \A k \in 1 .. m : k - 1 \in Good => k \in Good
    BY <1>4, <1>5, <2>1
  <2> HIDE DEF m
  <2>3. \A k \in 0 .. m : k \in Good
    BY <2>2, InductionTo
  <2> QED
    BY <2>1, <2>3 DEF m
<1> QED
  BY <1>3, <1>6

\* Git's output for one file: nothing when all lines were kept, and otherwise
\* a header and the hunks, which cover what was added.
LEMMA FileDiffIs ==
  ASSUME NEW header \in DiffLine, NEW script \in Seq(Ops), NEW diff, diff = FileDiff(header, script)
  PROVE  /\ diff \in Seq(DiffLine)
         /\ diff # <<>> =>
              /\ ToSet(script) # {"="}
              /\ Len(diff) \in Nat \ {0} /\ diff[1] = header
              /\ \A j \in 2 .. Len(diff) : diff[j].type # "diff"
         /\ \A i \in 1 .. Len(Only(script, KeptOps)) :
              Only(script, KeptOps)[i] = "+" => Covered(diff, i)
<1> DEFINE all == AllOf(script)
           one == header
           two == [type |-> "-"]
           three == [type |-> "+"]
           head == <<one, two, three>>
           text == head \o all
<1>1. diff = IF all = <<>> THEN <<>> ELSE text
  BY DEF FileDiff, AllOf, Ended, NoRun
<1>2. /\ one \in DiffLine /\ two \in DiffLine /\ three \in DiffLine
      /\ two.type = "-" /\ three.type = "+"
  BY DEF DiffLine, HunkLine
<1>3. /\ all \in Seq(HunkLine)
      /\ \A i \in 1 .. Len(Only(script, KeptOps)) : Only(script, KeptOps)[i] = "+" => Covered(all, i)
  BY AllCovered
<1> HIDE DEF all, one, two, three
<1>4. all \in Seq(DiffLine) /\ Len(all) \in Nat /\ \A j \in 1 .. Len(all) : all[j].type # "diff"
  <2>1. Len(all) \in Nat /\ \A j \in 1 .. Len(all) : all[j] \in HunkLine
    BY <1>3
  <2>2. HunkLine \subseteq DiffLine
    BY DEF DiffLine
  <2>3. all \in Seq(DiffLine)
    BY <1>3, <2>2
  <2> QED
    BY <2>1, <2>3, HunkLineIs
<1>5. head \in Seq(DiffLine) /\ Len(head) = 3 /\ head[1] = one /\ head[2] = two /\ head[3] = three
  BY <1>2
<1> HIDE DEF head
<1>6. /\ text \in Seq(DiffLine) /\ Len(text) = 3 + Len(all)
      /\ \A i \in 1 .. 3 : text[i] = head[i]
      /\ \A i \in 1 .. Len(all) : text[3 + i] = all[i]
      /\ Within(all, 3, text)
  <2>1. /\ text \in Seq(DiffLine) /\ Len(text) = Len(head) + Len(all)
        /\ \A i \in 1 .. Len(head) : text[i] = head[i]
        /\ \A i \in 1 .. Len(all) : text[Len(head) + i] = all[i]
    <3>1. head \in Seq(DiffLine) /\ all \in Seq(DiffLine)
      BY <1>4, <1>5
    <3> QED
      BY <3>1, ConcatIs
  <2>2. Within(all, Len(head), text)
    <3>1. head \in Seq(DiffLine) /\ all \in Seq(DiffLine)
      BY <1>4, <1>5
    <3> QED
      BY <3>1, ConcatWithin
  <2> HIDE DEF text
  <2> QED
    BY <1>5, <2>1, <2>2
<1> HIDE DEF text
<1>7. ASSUME NEW i \in 1 .. Len(Only(script, KeptOps)), Only(script, KeptOps)[i] = "+"
      PROVE  Covered(diff, i)
  <2>1. Covered(all, i)
    BY <1>3, <1>7
  <2>2. all # <<>>
    <3> SUFFICES ASSUME all = <<>>
                 PROVE  FALSE
      OBVIOUS
    <3>1. Len(all) = 0
      OBVIOUS
    <3> QED
      BY <2>1, <3>1 DEF Covered, Block
  <2>3. Covered(text, i)
    BY <1>4, <1>6, <2>1, CoveredWithin
  <2> QED
    BY <1>1, <2>2, <2>3
<1>8. ASSUME diff # <<>>
      PROVE  /\ ToSet(script) # {"="}
             /\ Len(diff) \in Nat \ {0} /\ diff[1] = one
             /\ \A j \in 2 .. Len(diff) : diff[j].type # "diff"
  <2>1. diff = text /\ all # <<>>
    BY <1>1, <1>8
  <2>2. ToSet(script) # {"="}
    <3> SUFFICES ASSUME ToSet(script) = {"="}
                 PROVE  FALSE
      OBVIOUS
    <3>1. \A k \in 1 .. Len(script) : script[k] = "="
      <4>1. DOMAIN script = 1 .. Len(script)
        OBVIOUS
      <4> QED
        BY <4>1 DEF ToSet
    <3> QED
      BY <2>1, <3>1, AllSame DEF all
  <2>3. Len(text) \in Nat \ {0} /\ text[1] = one
    <3>1. text[1] = one
      BY <1>5, <1>6, 1 \in 1 .. 3
    <3>2. Len(text) \in Nat \ {0}
      BY <1>4, <1>6
    <3> QED
      BY <3>1, <3>2
  <2>4. ASSUME NEW j \in 2 .. Len(text)
        PROVE  text[j].type # "diff"
    <3>1. CASE j \in 4 .. Len(text)
      <4>1. j - 3 \in 1 .. Len(all) /\ 3 + (j - 3) = j
        BY <1>4, <1>6, <3>1
      <4>2. text[j] = all[j - 3]
        BY <1>6, <4>1
      <4> QED
        BY <1>4, <4>1, <4>2
    <3>2. CASE j = 2
      <4>1. text[2] = two
        BY <1>5, <1>6, 2 \in 1 .. 3
      <4> QED
        BY <1>2, <3>2, <4>1
    <3>3. CASE j = 3
      <4>1. text[3] = three
        BY <1>5, <1>6, 3 \in 1 .. 3
      <4> QED
        BY <1>2, <3>3, <4>1
    <3>4. j \in 4 .. Len(text) \/ j = 2 \/ j = 3
      BY <1>4, <1>6
    <3> QED
      BY <3>1, <3>2, <3>3, <3>4
  <2> QED
    BY <2>1, <2>2, <2>3, <2>4
<1>9. diff \in Seq(DiffLine)
  BY <1>1, <1>6
<1> QED
  BY <1>7, <1>8, <1>9 DEF one

-----------------------------------------------------------------------------
(***************************************************************************)
(* parseDiffOutput: what is read back from it.                             *)
(***************************************************************************)

\* What parseDiffOutput makes of a diff, and how it begins.
Hunk == [file : Scope, added : Seq(Int), removed : Seq(Int)]
ParsedType ==
  [file : Scope, hunks : Seq(Hunk), hunk : Hunk \cup {None}, added : Int, removed : Int]

\* None is not a hunk.
LEMMA NoHunk == None \notin Hunk
  BY NoneAssumption DEF Hunk, Scope

\* A line of each kind.
LEMMA ParseFile ==
  ASSUME NEW parsed \in ParsedType, NEW x \in DiffLine, x.type = "diff"
  PROVE  ParseLine(parsed, x) = [parsed EXCEPT !.file = x.file]
  BY DEF ParseLine

\* A line that begins a hunk.
LEMMA ParseHeader ==
  ASSUME NEW parsed \in ParsedType, NEW x \in DiffLine, x.type = "@"
  PROVE  ParseLine(parsed, x) =
           [file |-> parsed.file, hunks |-> AllHunks(parsed),
            hunk |-> [file |-> parsed.file, added |-> <<>>, removed |-> <<>>],
            added |-> x.new, removed |-> x.old]
  BY DEF ParseLine, ParsedType

\* A line that was added, in a hunk.
LEMMA ParseAdded ==
  ASSUME NEW parsed \in ParsedType, NEW x \in DiffLine, x.type = "+", parsed.hunk # None
  PROVE  ParseLine(parsed, x) =
           [file |-> parsed.file, hunks |-> parsed.hunks,
            hunk |-> [file |-> parsed.hunk.file, added |-> Append(parsed.hunk.added, parsed.added),
                      removed |-> parsed.hunk.removed],
            added |-> parsed.added + 1, removed |-> parsed.removed]
<1>1. parsed.hunk \in Hunk
  BY DEF ParsedType
<1>2. ParseLine(parsed, x) =
        [parsed EXCEPT !.hunk.added = Append(@, parsed.added), !.added = @ + 1]
  BY DEF ParseLine
<1> QED
  BY <1>1, <1>2 DEF ParsedType, Hunk

\* A line that was removed, in a hunk.
LEMMA ParseRemoved ==
  ASSUME NEW parsed \in ParsedType, NEW x \in DiffLine, x.type = "-", parsed.hunk # None
  PROVE  ParseLine(parsed, x) =
           [file |-> parsed.file, hunks |-> parsed.hunks,
            hunk |-> [file |-> parsed.hunk.file, added |-> parsed.hunk.added,
                      removed |-> Append(parsed.hunk.removed, parsed.removed)],
            added |-> parsed.added, removed |-> parsed.removed + 1]
<1>1. parsed.hunk \in Hunk
  BY DEF ParsedType
<1>2. ParseLine(parsed, x) =
        [parsed EXCEPT !.hunk.removed = Append(@, parsed.removed), !.removed = @ + 1]
  BY DEF ParseLine
<1> QED
  BY <1>1, <1>2 DEF ParsedType, Hunk

\* Before the first hunk, the --- and +++ of its file.
LEMMA ParseNothing ==
  ASSUME NEW parsed \in ParsedType, NEW x \in DiffLine,
         x.type = "quoted" \/ (x.type \in {"+", "-"} /\ parsed.hunk = None)
  PROVE  ParseLine(parsed, x) = parsed
  BY DEF ParseLine

\* The elements of a sequence with one more.
LEMMA AppendSet ==
  ASSUME NEW T, NEW s \in Seq(T), NEW x \in T
  PROVE  ToSet(Append(s, x)) = ToSet(s) \cup {x}
<1> DEFINE t == Append(s, x)
<1>1. /\ t \in Seq(T) /\ Len(t) = Len(s) + 1 /\ Len(s) \in Nat
      /\ \A i \in 1 .. Len(s) : t[i] = s[i]
      /\ t[Len(s) + 1] = x
  BY AppendIs
<1> HIDE DEF t
<1>2. DOMAIN s = 1 .. Len(s) /\ DOMAIN t = 1 .. Len(s) + 1
  BY <1>1
<1>3. ASSUME NEW y \in ToSet(t)
      PROVE  y \in ToSet(s) \cup {x}
  <2>1. PICK i \in 1 .. Len(s) + 1 : y = t[i]
    BY <1>2 DEF ToSet
  <2>2. i = Len(s) + 1 \/ i \in 1 .. Len(s)
    BY <1>1
  <2> QED
    BY <1>1, <1>2, <2>1, <2>2 DEF ToSet
<1>4. ASSUME NEW y \in ToSet(s) \cup {x}
      PROVE  y \in ToSet(t)
  <2>1. \E i \in 1 .. Len(s) + 1 : y = t[i]
    <3>1. CASE y = x
      BY <1>1, <3>1, Len(s) + 1 \in 1 .. Len(s) + 1
    <3>2. CASE y \in ToSet(s)
      <4>1. PICK i \in 1 .. Len(s) : y = s[i]
        BY <1>2, <3>2 DEF ToSet
      <4>2. i \in 1 .. Len(s) + 1
        BY <1>1
      <4> QED
        BY <1>1, <4>1, <4>2
    <3> QED
      BY <3>1, <3>2
  <2> QED
    BY <1>2, <2>1 DEF ToSet
<1> QED
  BY <1>3, <1>4 DEF t

\* The hunks so far, and the one in hand.
LEMMA AllHunksAre ==
  ASSUME NEW parsed \in ParsedType
  PROVE  /\ AllHunks(parsed) \in Seq(Hunk)
         /\ parsed.hunk = None => AllHunks(parsed) = parsed.hunks
         /\ ToSet(AllHunks(parsed)) = ToSet(parsed.hunks) \cup ({parsed.hunk} \ {None})
<1>1. parsed.hunks \in Seq(Hunk) /\ parsed.hunk \in Hunk \cup {None}
  BY DEF ParsedType
<1>2. CASE parsed.hunk = None
  BY <1>1, <1>2 DEF AllHunks
<1>3. CASE parsed.hunk # None
  <2> DEFINE s == parsed.hunks
             x == parsed.hunk
             t == Append(s, x)
  <2>1. AllHunks(parsed) = t
    BY <1>3 DEF AllHunks
  <2>2. s \in Seq(Hunk) /\ x \in Hunk /\ {x} \ {None} = {x}
    BY <1>1, <1>3
  <2> HIDE DEF s, x
  <2>3. t \in Seq(Hunk) /\ ToSet(t) = ToSet(s) \cup {x}
    BY <2>2, AppendSet, AppendIs
  <2> QED
    BY <1>3, <2>1, <2>2, <2>3 DEF s, x
<1> QED
  BY <1>2, <1>3

\* parseDiffOutput keeps the types, line after line.
LEMMA ParseType ==
  ASSUME NEW parsed \in ParsedType, NEW x \in DiffLine
  PROVE  ParseLine(parsed, x) \in ParsedType
<1> DEFINE I == Seq(Int)
           Q == Seq(Hunk)
<1>1. <<>> \in I /\ AllHunks(parsed) \in Q
  BY AllHunksAre
<1>2. \A s \in I, z \in Int : Append(s, z) \in I
  OBVIOUS
<1>3. /\ parsed \in [file : Scope, hunks : Q, hunk : Hunk \cup {None}, added : Int, removed : Int]
      /\ Hunk = [file : Scope, added : I, removed : I]
      /\ ParsedType = [file : Scope, hunks : Q, hunk : Hunk \cup {None}, added : Int, removed : Int]
  BY DEF ParsedType, Hunk
<1> HIDE DEF I, Q
<1>4. CASE x.type = "diff"
  <2>1. x.file \in Scope
    BY <1>4, LineIs DEF Scope
  <2> QED
    BY <1>3, <1>4, <2>1, ParseFile
<1>5. CASE x.type = "@"
  <2>1. x.new \in Int /\ x.old \in Int
    BY <1>5, LineIs
  <2> QED
    BY <1>1, <1>3, <1>5, <2>1, ParseHeader
<1>6. CASE x.type = "quoted" \/ (x.type \in {"+", "-"} /\ parsed.hunk = None)
  BY <1>6, ParseNothing
<1>7. CASE x.type = "+" /\ parsed.hunk # None
  <2>1. parsed.added + 1 \in Int /\ parsed.added \in Int /\ parsed.hunk \in Hunk
    BY <1>3, <1>7
  <2>2. Append(parsed.hunk.added, parsed.added) \in I
    BY <1>2, <1>3, <2>1
  <2> DEFINE hunk == [file |-> parsed.hunk.file, added |-> Append(parsed.hunk.added, parsed.added),
                      removed |-> parsed.hunk.removed]
  <2>3. hunk \in Hunk
    BY <1>3, <2>1, <2>2
  <2>4. ParseLine(parsed, x) =
          [file |-> parsed.file, hunks |-> parsed.hunks, hunk |-> hunk,
           added |-> parsed.added + 1, removed |-> parsed.removed]
    BY <1>7, ParseAdded
  <2> HIDE DEF hunk
  <2> QED
    BY <1>3, <2>1, <2>3, <2>4
<1>8. CASE x.type = "-" /\ parsed.hunk # None
  <2>1. parsed.removed + 1 \in Int /\ parsed.removed \in Int /\ parsed.hunk \in Hunk
    BY <1>3, <1>8
  <2>2. Append(parsed.hunk.removed, parsed.removed) \in I
    BY <1>2, <1>3, <2>1
  <2> DEFINE hunk == [file |-> parsed.hunk.file, added |-> parsed.hunk.added,
                      removed |-> Append(parsed.hunk.removed, parsed.removed)]
  <2>3. hunk \in Hunk
    BY <1>3, <2>1, <2>2
  <2>4. ParseLine(parsed, x) =
          [file |-> parsed.file, hunks |-> parsed.hunks, hunk |-> hunk,
           added |-> parsed.added, removed |-> parsed.removed + 1]
    BY <1>8, ParseRemoved
  <2> HIDE DEF hunk
  <2> QED
    BY <1>3, <2>1, <2>3, <2>4
<1> QED
  BY <1>4, <1>5, <1>6, <1>7, <1>8, LineIs

NothingParsed == [file |-> "", hunks |-> <<>>, hunk |-> None, added |-> 0, removed |-> 0]

\* What it has come to at the end of a diff.
ParsedOf(diff) == FoldLeft(ParseLine, NothingParsed, diff)

\* What the parsing goes through.
ParseRun(run, diff) ==
  /\ run \in [0 .. Len(diff) -> ParsedType]
  /\ run[0] = NothingParsed
  /\ \A k \in 1 .. Len(diff) : run[k] = ParseLine(run[k - 1], diff[k])
  /\ ParsedOf(diff) = run[Len(diff)]

\* The run of parseDiffOutput over a diff.
LEMMA ParseRunExists ==
  ASSUME NEW diff \in Seq(DiffLine)
  PROVE  \E run : ParseRun(run, diff)
<1> DEFINE n == Len(diff)
           A == ParsedType
           base == NothingParsed
           Op(a, k) == ParseLine(a, diff[k])
           step == [p \in A \X (1 .. n) |-> Op(p[1], p[2])]
           Eq(h) == [s \in SUBSET (1 .. n) |-> IF s = {} THEN base ELSE Op(h[s \ {Max(s)}], Max(s))]
           iter == CHOOSE h : h = Eq(h)
<1>1. n \in Nat /\ DOMAIN diff = 1 .. n /\ \A k \in 1 .. n : diff[k] \in DiffLine
  OBVIOUS
<1>2. n \in Nat /\ base \in A
  BY <1>1 DEF ParsedType, NothingParsed, Scope
<1>3. ASSUME NEW a \in A, NEW k \in 1 .. n
      PROVE  Op(a, k) \in A
  BY <1>1, ParseType
<1>4. ParsedOf(diff) = iter[1 .. n]
  BY <1>1 DEF ParsedOf, FoldLeft, MapThenFoldSet
<1> HIDE DEF n, A, base, Op
<1>5. step \in Steps(A, n)
  BY <1>3 DEF Steps
<1>6. \A a \in A, k \in 1 .. n : step[<<a, k>>] = Op(a, k)
  OBVIOUS
<1>7. \A s \in SUBSET (1 .. n) : s # {} => Max(s) \in 1 .. n
  BY <1>2, MaxIs, \A s \in SUBSET (1 .. n) : s \in SUBSET (0 .. n)
<1> HIDE DEF step
<1>8. PICK g \in [SUBSET (1 .. n) -> A] : IsFold(g, n, A, base, step)
  BY <1>2, <1>5, FoldExists
<1>9. g = Eq(g)
  BY <1>6, <1>7, <1>8, \A s \in SUBSET (1 .. n) : s \ {Max(s)} \in SUBSET (1 .. n) DEF IsFold
<1>10. iter = Eq(iter)
  BY <1>9
<1> HIDE DEF iter
<1>11. IsFold(iter, n, A, base, step)
  BY <1>6, <1>7, <1>10 DEF IsFold
<1>12. PICK run : IsRun(run, n, A, base, step) /\ iter[1 .. n] = run[n]
  BY <1>2, <1>5, <1>11, RunOf
<1>13. ASSUME NEW k \in 1 .. n
       PROVE  run[k] = Op(run[k - 1], k)
  BY <1>2, <1>6, <1>12, k - 1 \in 0 .. n DEF IsRun
<1>14. run \in [0 .. n -> A] /\ run[0] = base
  BY <1>12 DEF IsRun
<1>15. ParseRun(run, diff)
  BY <1>4, <1>12, <1>13, <1>14 DEF n, A, base, Op, ParseRun
<1> QED
  BY <1>15

\* A hunk says that the line was added to the file.
HasAdded(parsed, file, i) ==
  \E hunk \in ToSet(AllHunks(parsed)) : hunk.file = file /\ i \in ToSet(hunk.added)

\* Line i is among the added ones of the hunk in hand.
HunkHas(parsed, file, i) ==
  parsed.hunk # None /\ parsed.hunk.file = file /\ i \in ToSet(parsed.hunk.added)

\* A line of the hunk in hand is one of the hunks.
LEMMA HunkCounts ==
  ASSUME NEW parsed \in ParsedType, NEW file, NEW i, HunkHas(parsed, file, i)
  PROVE  HasAdded(parsed, file, i)
<1>1. parsed.hunk \in ToSet(AllHunks(parsed))
  BY AllHunksAre DEF HunkHas
<1> QED
  BY <1>1 DEF HunkHas, HasAdded

\* A + line adds its number to the hunk in hand.
LEMMA ParsedLonger ==
  ASSUME NEW parsed \in ParsedType, parsed.hunk # None, NEW x \in DiffLine, x.type = "+"
  PROVE  LET next == ParseLine(parsed, x)
         IN /\ next.hunk # None /\ next.hunk.file = parsed.hunk.file
            /\ ToSet(next.hunk.added) = ToSet(parsed.hunk.added) \cup {parsed.added}
            /\ next.added = parsed.added + 1 /\ next.hunks = parsed.hunks
<1> DEFINE more == Append(parsed.hunk.added, parsed.added)
           hunk == [file |-> parsed.hunk.file, added |-> more, removed |-> parsed.hunk.removed]
           next == ParseLine(parsed, x)
<1>1. parsed.hunk \in Hunk /\ parsed.hunk.added \in Seq(Int) /\ parsed.added \in Int
  BY DEF ParsedType, Hunk
<1>2. ToSet(more) = ToSet(parsed.hunk.added) \cup {parsed.added}
  BY <1>1, AppendSet
<1>3. next = [file |-> parsed.file, hunks |-> parsed.hunks, hunk |-> hunk,
              added |-> parsed.added + 1, removed |-> parsed.removed]
  BY ParseAdded
<1>4. hunk # None
  <2>1. next \in ParsedType
    BY ParseType
  <2>2. next.hunk = hunk
    BY <1>3
  <2>3. hunk \in Hunk \cup {None}
    BY <2>1, <2>2 DEF ParsedType
  <2>4. more \in Seq(Int)
    BY <1>1, AppendIs
  <2> HIDE DEF more
  <2>5. hunk \in Hunk
    BY <1>1, <2>4 DEF Hunk
  <2> QED
    BY <2>5, NoHunk
<1> HIDE DEF more
<1>5. hunk.file = parsed.hunk.file /\ hunk.added = more
  OBVIOUS
<1> HIDE DEF hunk
<1>6. /\ next.hunk = hunk /\ next.added = parsed.added + 1 /\ next.hunks = parsed.hunks
  BY <1>3
<1> QED
  BY <1>2, <1>4, <1>5, <1>6

\* A - line leaves the added ones alone.
LEMMA ParsedShorter ==
  ASSUME NEW parsed \in ParsedType, parsed.hunk # None, NEW x \in DiffLine, x.type = "-"
  PROVE  LET next == ParseLine(parsed, x)
         IN /\ next.hunk # None /\ next.hunk.file = parsed.hunk.file
            /\ next.hunk.added = parsed.hunk.added
            /\ next.added = parsed.added /\ next.hunks = parsed.hunks
<1> DEFINE more == Append(parsed.hunk.removed, parsed.removed)
           hunk == [file |-> parsed.hunk.file, added |-> parsed.hunk.added, removed |-> more]
           next == ParseLine(parsed, x)
<1>1. parsed.hunk \in Hunk /\ parsed.hunk.removed \in Seq(Int) /\ parsed.removed \in Int
  BY DEF ParsedType, Hunk
<1>2. next = [file |-> parsed.file, hunks |-> parsed.hunks, hunk |-> hunk,
              added |-> parsed.added, removed |-> parsed.removed + 1]
  BY ParseRemoved
<1>3. hunk # None
  <2>1. more \in Seq(Int)
    BY <1>1, AppendIs
  <2> HIDE DEF more
  <2>2. hunk \in Hunk
    BY <1>1, <2>1 DEF Hunk
  <2> QED
    BY <2>2, NoHunk
<1>4. hunk.file = parsed.hunk.file /\ hunk.added = parsed.hunk.added
  OBVIOUS
<1> HIDE DEF hunk
<1> QED
  BY <1>2, <1>3, <1>4

\* A header starts a hunk of the file read last.
LEMMA ParsedHeader ==
  ASSUME NEW parsed \in ParsedType, NEW x \in DiffLine, x.type = "@"
  PROVE  LET next == ParseLine(parsed, x)
         IN /\ next.hunk # None /\ next.hunk.file = parsed.file
            /\ next.added = x.new /\ next.hunks = AllHunks(parsed)
<1> DEFINE hunk == [file |-> parsed.file, added |-> <<>>, removed |-> <<>>]
<1>1. hunk \in Hunk
  BY DEF ParsedType, Hunk
<1>2. hunk # None /\ hunk.file = parsed.file
  BY <1>1, NoHunk
<1>3. ParseLine(parsed, x) = [file |-> parsed.file, hunks |-> AllHunks(parsed), hunk |-> hunk,
                              added |-> x.new, removed |-> x.old]
  BY ParseHeader
<1> HIDE DEF hunk
<1> QED
  BY <1>2, <1>3

\* What a hunk says is not lost.
LEMMA AddedStays ==
  ASSUME NEW parsed \in ParsedType, NEW x \in DiffLine, NEW file, NEW i, HasAdded(parsed, file, i)
  PROVE  HasAdded(ParseLine(parsed, x), file, i)
<1> DEFINE next == ParseLine(parsed, x)
<1>1. next \in ParsedType
  BY ParseType
<1>2. PICK hunk \in ToSet(AllHunks(parsed)) : hunk.file = file /\ i \in ToSet(hunk.added)
  BY DEF HasAdded
<1>3. hunk \in ToSet(parsed.hunks) \/ (parsed.hunk = hunk /\ hunk # None)
  BY <1>2, AllHunksAre
<1>4. next = ParseLine(parsed, x)
  OBVIOUS
<1> HIDE DEF next
<1>5. ToSet(AllHunks(next)) = ToSet(next.hunks) \cup ({next.hunk} \ {None})
  BY <1>1, AllHunksAre
<1>6. CASE x.type = "diff"
  <2>1. next.hunks = parsed.hunks /\ next.hunk = parsed.hunk
    BY <1>4, <1>6, ParseFile DEF ParsedType
  <2>2. hunk \in ToSet(AllHunks(next))
    BY <1>3, <1>5, <2>1
  <2> QED
    BY <1>2, <1>4, <2>2 DEF HasAdded
<1>7. CASE x.type = "@"
  <2>1. next.hunks = AllHunks(parsed)
    BY <1>4, <1>7, ParsedHeader
  <2>2. hunk \in ToSet(AllHunks(next))
    BY <1>2, <1>5, <2>1
  <2> QED
    BY <1>2, <1>4, <2>2 DEF HasAdded
<1>8. CASE x.type = "quoted" \/ (x.type \in {"+", "-"} /\ parsed.hunk = None)
  BY <1>8, ParseNothing
<1>9. CASE x.type \in {"+", "-"} /\ parsed.hunk # None
  <2>1. /\ next.hunk # None /\ next.hunk.file = parsed.hunk.file /\ next.hunks = parsed.hunks
        /\ ToSet(parsed.hunk.added) \subseteq ToSet(next.hunk.added)
    <3>1. CASE x.type = "+"
      BY <1>4, <1>9, <3>1, ParsedLonger
    <3>2. CASE x.type = "-"
      BY <1>4, <1>9, <3>2, ParsedShorter
    <3> QED
      BY <1>9, <3>1, <3>2
  <2>2. CASE hunk \in ToSet(parsed.hunks)
    <3>1. hunk \in ToSet(AllHunks(next))
      BY <1>5, <2>1, <2>2
    <3> QED
      BY <1>2, <1>4, <3>1 DEF HasAdded
  <2>3. CASE parsed.hunk = hunk
    <3>1. HunkHas(next, file, i)
      BY <1>2, <2>1, <2>3 DEF HunkHas
    <3> QED
      BY <1>1, <1>4, <3>1, HunkCounts
  <2> QED
    BY <1>3, <2>2, <2>3
<1> QED
  BY <1>6, <1>7, <1>8, <1>9, LineIs

\* The file in hand is that of the last line that named one.
LEMMA FileStays ==
  ASSUME NEW parsed \in ParsedType, NEW x \in DiffLine, x.type # "diff"
  PROVE  ParseLine(parsed, x).file = parsed.file
<1>1. CASE x.type = "@"
  BY <1>1, ParseHeader
<1>2. CASE x.type = "quoted" \/ (x.type \in {"+", "-"} /\ parsed.hunk = None)
  BY <1>2, ParseNothing
<1>3. CASE x.type = "+" /\ parsed.hunk # None
  BY <1>3, ParseAdded
<1>4. CASE x.type = "-" /\ parsed.hunk # None
  BY <1>4, ParseRemoved
<1> QED
  BY <1>1, <1>2, <1>3, <1>4, LineIs

\* Once said, it is said at the end.
LEMMA AddedLasts ==
  ASSUME NEW diff \in Seq(DiffLine), NEW run, ParseRun(run, diff), NEW file, NEW i,
         NEW m \in 0 .. Len(diff), HasAdded(run[m], file, i)
  PROVE  HasAdded(run[Len(diff)], file, i)
<1> DEFINE n == Len(diff)
           Good == {k \in 0 .. n - m : HasAdded(run[m + k], file, i)}
<1>1. n \in Nat /\ \A k \in 1 .. n : diff[k] \in DiffLine
  OBVIOUS
<1>2. /\ run \in [0 .. n -> ParsedType]
      /\ \A k \in 1 .. n : run[k] = ParseLine(run[k - 1], diff[k])
  BY DEF ParseRun
<1> HIDE DEF n
<1>3. m \in Nat /\ m \in 0 .. n /\ n - m \in Nat /\ m + 0 = m /\ m + (n - m) = n
  BY <1>1 DEF n
<1>4. 0 \in Good
  BY <1>3
<1>5. ASSUME NEW k \in 1 .. n - m, k - 1 \in Good
      PROVE  k \in Good
  <2>1. /\ k \in 0 .. n - m /\ m + k \in 1 .. n /\ m + (k - 1) = (m + k) - 1
        /\ (m + k) - 1 \in 0 .. n
    BY <1>1, <1>3
  <2>2. HasAdded(run[(m + k) - 1], file, i) /\ run[(m + k) - 1] \in ParsedType
    BY <1>2, <1>5, <2>1
  <2>3. HasAdded(ParseLine(run[(m + k) - 1], diff[m + k]), file, i)
    BY <1>1, <2>1, <2>2, AddedStays
  <2> QED
    BY <1>2, <2>1, <2>3
<1>6. n - m \in Good
  <2> HIDE DEF Good
  <2>1. \A k \in 0 .. n - m : k \in Good
    BY <1>3, <1>4, <1>5, InductionTo
  <2> QED
    BY <1>3, <2>1
<1> QED
  BY <1>3, <1>6 DEF n

\* From its header on, the file is the one in hand until the next header.
LEMMA FileInHand ==
  ASSUME NEW diff \in Seq(DiffLine), NEW run, ParseRun(run, diff),
         NEW d \in 1 .. Len(diff), diff[d].type = "diff",
         NEW h \in d .. Len(diff), \A j \in d + 1 .. h : diff[j].type # "diff"
  PROVE  run[h].file = diff[d].file
<1> DEFINE n == Len(diff)
           Good == {k \in 0 .. h - d : run[d + k].file = diff[d].file}
<1>1. n \in Nat /\ \A k \in 1 .. n : diff[k] \in DiffLine
  OBVIOUS
<1>2. /\ run \in [0 .. n -> ParsedType]
      /\ \A k \in 1 .. n : run[k] = ParseLine(run[k - 1], diff[k])
  BY DEF ParseRun
<1> HIDE DEF n
<1>3. d \in 1 .. n /\ h \in d .. n /\ h - d \in Nat /\ d + 0 = d /\ d + (h - d) = h /\ d - 1 \in 0 .. n
  BY <1>1 DEF n
<1>4. 0 \in Good
  <2>1. run[d] = ParseLine(run[d - 1], diff[d]) /\ run[d - 1] \in ParsedType /\ diff[d] \in DiffLine
    BY <1>1, <1>2, <1>3
  <2>2. run[d].file = diff[d].file
    BY <2>1, ParseFile DEF ParsedType
  <2> QED
    BY <1>3, <2>2
<1>5. ASSUME NEW k \in 1 .. h - d, k - 1 \in Good
      PROVE  k \in Good
  <2>1. /\ k \in 0 .. h - d /\ d + k \in 1 .. n /\ d + (k - 1) = (d + k) - 1
        /\ (d + k) - 1 \in 0 .. n /\ d + k \in d + 1 .. h
    BY <1>1, <1>3
  <2>2. /\ run[d + k] = ParseLine(run[(d + k) - 1], diff[d + k])
        /\ run[(d + k) - 1] \in ParsedType /\ diff[d + k] \in DiffLine
        /\ diff[d + k].type # "diff"
    BY <1>1, <1>2, <2>1
  <2>3. run[d + k].file = run[(d + k) - 1].file
    BY <2>2, FileStays
  <2> QED
    BY <1>5, <2>1, <2>3
<1>6. h - d \in Good
  <2> HIDE DEF Good
  <2>1. \A k \in 0 .. h - d : k \in Good
    BY <1>3, <1>4, <1>5, InductionTo
  <2> QED
    BY <1>3, <2>1
<1> QED
  BY <1>3, <1>6

\* The hunk in hand is of the file, and the next line added is line i.
AtLine(parsed, file, i) ==
  parsed.hunk # None /\ parsed.hunk.file = file /\ parsed.added = i

\* The lines of a hunk are counted from its header.
LEMMA HunkRead ==
  ASSUME NEW diff \in Seq(DiffLine), NEW run, ParseRun(run, diff),
         NEW h, NEW r, NEW a, Block(diff, h, r, a)
  PROVE  HunkHas(run[h + r + a], run[h - 1].file, diff[h].new + a - 1)
<1> DEFINE n == Len(diff)
           file == run[h - 1].file
           new == diff[h].new
<1>1. n \in Nat /\ \A k \in 1 .. n : diff[k] \in DiffLine
  OBVIOUS
<1>2. /\ run \in [0 .. n -> ParsedType]
      /\ \A k \in 1 .. n : run[k] = ParseLine(run[k - 1], diff[k])
  BY DEF ParseRun
<1>3. /\ h \in Nat \ {0} /\ r \in Nat /\ a \in Nat \ {0} /\ h + r + a <= n
      /\ diff[h].type = "@"
      /\ \A j \in 1 .. r : diff[h + j].type = "-"
      /\ \A j \in 1 .. a : diff[h + r + j].type = "+"
  BY DEF Block
<1>4. h \in 1 .. n /\ h - 1 \in 0 .. n
  BY <1>1, <1>3
<1>5. new \in Int
  BY <1>1, <1>3, <1>4, LineIs
<1>6. AtLine(run[h], file, new)
  <2>1. /\ run[h] = ParseLine(run[h - 1], diff[h]) /\ run[h - 1] \in ParsedType
        /\ diff[h] \in DiffLine /\ diff[h].type = "@"
    BY <1>1, <1>2, <1>3, <1>4
  <2> QED
    BY <2>1, ParsedHeader DEF AtLine
<1> HIDE DEF n, file, new
<1> DEFINE Out == {k \in 0 .. r : AtLine(run[h + k], file, new)}
           In == {k \in 0 .. a : /\ AtLine(run[h + r + k], file, new + k)
                                 /\ k # 0 => HunkHas(run[h + r + k], file, new + k - 1)}
<1>7. 0 \in Out
  BY <1>3, <1>6, h + 0 = h
<1>8. ASSUME NEW k \in 1 .. r, k - 1 \in Out
      PROVE  k \in Out
  <2>1. k \in 0 .. r /\ h + k \in 1 .. n /\ h + (k - 1) = (h + k) - 1 /\ (h + k) - 1 \in 0 .. n
    BY <1>1, <1>3
  <2>2. /\ run[h + k] = ParseLine(run[(h + k) - 1], diff[h + k])
        /\ run[(h + k) - 1] \in ParsedType /\ diff[h + k] \in DiffLine
        /\ diff[h + k].type = "-"
    BY <1>1, <1>2, <1>3, <2>1
  <2>3. AtLine(run[(h + k) - 1], file, new)
    BY <1>8, <2>1
  <2>4. AtLine(run[h + k], file, new)
    BY <2>2, <2>3, ParsedShorter DEF AtLine
  <2> QED
    BY <2>1, <2>4
<1>9. AtLine(run[h + r], file, new)
  <2> HIDE DEF Out
  <2>1. \A k \in 0 .. r : k \in Out
    BY <1>3, <1>7, <1>8, InductionTo
  <2>2. r \in Out
    BY <1>3, <2>1
  <2> QED
    BY <2>2 DEF Out
<1>10. 0 \in In
  <2>1. h + r + 0 = h + r /\ new + 0 = new /\ 0 \in 0 .. a
    BY <1>3, <1>5
  <2> QED
    BY <1>9, <2>1
<1>11. ASSUME NEW k \in 1 .. a, k - 1 \in In
       PROVE  k \in In
  <2>1. /\ k \in 0 .. a /\ h + r + k \in 1 .. n /\ h + r + (k - 1) = (h + r + k) - 1
        /\ (h + r + k) - 1 \in 0 .. n
        /\ new + (k - 1) = new + k - 1 /\ (new + k - 1) + 1 = new + k
    BY <1>1, <1>3, <1>5
  <2> DEFINE p == run[(h + r + k) - 1]
  <2>2. /\ run[h + r + k] = ParseLine(p, diff[h + r + k])
        /\ p \in ParsedType /\ diff[h + r + k] \in DiffLine
        /\ diff[h + r + k].type = "+"
    BY <1>1, <1>2, <1>3, <2>1
  <2>3. AtLine(p, file, new + k - 1)
    BY <1>11, <2>1
  <2> HIDE DEF p
  <2>4. /\ AtLine(run[h + r + k], file, (new + k - 1) + 1)
        /\ HunkHas(run[h + r + k], file, new + k - 1)
    BY <2>2, <2>3, ParsedLonger DEF AtLine, HunkHas
  <2> QED
    BY <2>1, <2>4
<1>12. a \in In
  <2> HIDE DEF In
  <2>1. \A k \in 0 .. a : k \in In
    BY <1>3, <1>10, <1>11, InductionTo
  <2> QED
    BY <1>3, <2>1
<1> QED
  BY <1>3, <1>12 DEF file, new

\* A hunk of a diff is read as one of its file, with the lines it adds.
LEMMA BlockRead ==
  ASSUME NEW diff \in Seq(DiffLine), NEW run, ParseRun(run, diff),
         NEW d \in 1 .. Len(diff), diff[d].type = "diff",
         NEW h, NEW r, NEW a, Block(diff, h, r, a), d < h,
         \A j \in d + 1 .. h : diff[j].type # "diff"
  PROVE  HasAdded(run[Len(diff)], diff[d].file, diff[h].new + a - 1)
<1> DEFINE n == Len(diff)
<1>1. h \in Nat \ {0} /\ r \in Nat /\ a \in Nat \ {0} /\ h + r + a <= n /\ n \in Nat
  BY DEF Block
<1>2. h - 1 \in d .. n /\ h + r + a \in 0 .. n /\ \A j \in d + 1 .. h - 1 : j \in d + 1 .. h
  BY <1>1
<1>3. run[h - 1].file = diff[d].file
  BY <1>2, FileInHand
<1>4. HunkHas(run[h + r + a], run[h - 1].file, diff[h].new + a - 1)
  BY HunkRead
<1>5. run[h + r + a] \in ParsedType
  BY <1>2 DEF ParseRun
<1>6. HasAdded(run[h + r + a], diff[d].file, diff[h].new + a - 1)
  BY <1>3, <1>4, <1>5, HunkCounts
<1> QED
  BY <1>2, <1>6, AddedLasts

NoFile == ""

\* Every hunk is of a file whose header was read, or of none.
LEMMA HunksOf ==
  ASSUME NEW diff \in Seq(DiffLine), NEW G,
         \A k \in 1 .. Len(diff) : diff[k].type = "diff" => diff[k].file \in G,
         NoFile \in G
  PROVE  \A hunk \in ToSet(ParseDiffOutput(diff)) : hunk.file \in G
<1> DEFINE n == Len(diff)
           Fine(p) == \A hunk \in ToSet(AllHunks(p)) : hunk.file \in G
<1>1. PICK run : ParseRun(run, diff)
  BY ParseRunExists
<1>2. n \in Nat /\ \A k \in 1 .. n : diff[k] \in DiffLine
  OBVIOUS
<1>3. /\ run \in [0 .. n -> ParsedType] /\ run[0] = NothingParsed
      /\ \A k \in 1 .. n : run[k] = ParseLine(run[k - 1], diff[k])
      /\ ParsedOf(diff) = run[n]
  BY <1>1 DEF ParseRun
<1>4. ParseDiffOutput(diff) = AllHunks(run[n])
  BY <1>3 DEF ParseDiffOutput, ParsedOf, NothingParsed
<1> DEFINE Good == {k \in 0 .. n : Fine(run[k]) /\ run[k].file \in G}
<1>5. 0 \in Good
  <2>1. AllHunks(NothingParsed) = <<>>
    BY DEF AllHunks, NothingParsed
  <2>2. ToSet(<<>>) = {}
    BY DEF ToSet
  <2>3. NothingParsed.file = NoFile
    BY DEF NothingParsed, NoFile
  <2> QED
    BY <1>2, <1>3, <2>1, <2>2, <2>3
<1>6. ASSUME NEW k \in 1 .. n, k - 1 \in Good
      PROVE  k \in Good
  <2> DEFINE p == run[k - 1]
             x == diff[k]
             q == run[k]
  <2>1. k - 1 \in 0 .. n /\ k \in 0 .. n
    BY <1>2
  <2>2. /\ q = ParseLine(p, x) /\ p \in ParsedType /\ x \in DiffLine /\ q \in ParsedType
        /\ Fine(p) /\ p.file \in G
    BY <1>2, <1>3, <1>6, <2>1
  <2>3. x.type = "diff" => x.file \in G
    BY <1>2
  <2>4. /\ ToSet(AllHunks(p)) = ToSet(p.hunks) \cup ({p.hunk} \ {None})
        /\ ToSet(AllHunks(q)) = ToSet(q.hunks) \cup ({q.hunk} \ {None})
    BY <2>2, AllHunksAre
  <2> HIDE DEF p, q, x
  <2>5. q.file \in G /\ Fine(q)
    <3>1. CASE x.type = "diff"
      <4>1. q.file = x.file /\ q.hunks = p.hunks /\ q.hunk = p.hunk
        <5>1. p \in ParsedType /\ q = [p EXCEPT !.file = x.file]
          BY <2>2, <3>1, ParseFile
        <5> QED
          BY <5>1 DEF ParsedType
      <4> QED
        BY <2>2, <2>3, <2>4, <3>1, <4>1
    <3>2. CASE x.type = "@"
      <4>1. q.file = p.file /\ q.hunks = AllHunks(p) /\ q.hunk.file = p.file
        BY <2>2, <3>2, ParsedHeader, FileStays
      <4> QED
        BY <2>2, <2>4, <3>2, <4>1
    <3>3. CASE x.type = "quoted" \/ (x.type \in {"+", "-"} /\ p.hunk = None)
      <4>1. q = p
        BY <2>2, <3>3, ParseNothing
      <4> QED
        BY <2>2, <4>1
    <3>4. CASE x.type \in {"+", "-"} /\ p.hunk # None
      <4>1. q.file = p.file /\ q.hunks = p.hunks /\ q.hunk.file = p.hunk.file
        <5>1. CASE x.type = "+"
          BY <2>2, <3>4, <5>1, ParsedLonger, FileStays
        <5>2. CASE x.type = "-"
          BY <2>2, <3>4, <5>2, ParsedShorter, FileStays
        <5> QED
          BY <3>4, <5>1, <5>2
      <4> QED
        BY <2>2, <2>4, <3>4, <4>1
    <3> QED
      BY <2>2, <3>1, <3>2, <3>3, <3>4, LineIs
  <2> QED
    BY <2>1, <2>5 DEF q
<1>7. n \in Good
  <2> HIDE DEF Good, n
  <2>1. \A k \in 0 .. n : k \in Good
    BY <1>2, <1>5, <1>6, InductionTo
  <2> QED
    BY <1>2, <2>1
<1> QED
  BY <1>4, <1>7

-----------------------------------------------------------------------------
(***************************************************************************)
(* The symbols that have changed.                                          *)
(***************************************************************************)

\* The files a line of which was not kept.
ChangedFiles(script) == {f \in ToSet(Files) : ToSet(script[f]) # {"="}}

\* The files, in the order git lists them.
LEMMA FilesAre ==
  /\ DOMAIN Files = 1 .. Len(Files) /\ Len(Files) \in Nat
  /\ \A i \in 1 .. Len(Files) : Files[i] \in ToSet(Files) /\ Files[i] \in STRING
  /\ \A f \in ToSet(Files) : f # NoFile /\ \E i \in 1 .. Len(Files) : Files[i] = f
<1> DEFINE T == STRING \ {""}
<1>1. Files \in Seq(T) /\ \A f \in T : f \in STRING /\ f # NoFile
  BY ConstantsAssumption DEF NoFile
<1> HIDE DEF T
<1>2. DOMAIN Files = 1 .. Len(Files) /\ Len(Files) \in Nat /\ \A i \in 1 .. Len(Files) : Files[i] \in STRING /\ Files[i] # NoFile
  BY <1>1
<1> QED
  BY <1>2 DEF ToSet

\* The two kinds of header.
LEMMA HeadersAre ==
  /\ \A file \in STRING : Header(file) \in DiffLine /\ Header(file).type = "diff" /\ Header(file).file = file
  /\ QuotedHeader \in DiffLine /\ QuotedHeader.type = "quoted"
BY DEF Header, QuotedHeader, DiffLine

\* A part of a part.
LEMMA WithinWithin ==
  ASSUME NEW part, NEW piece, Within(part, 0, piece), NEW at, NEW whole, Within(piece, at, whole),
         Len(whole) \in Nat
  PROVE  Within(part, at, whole)
<1>1. /\ Len(part) \in Nat /\ 0 + Len(part) <= Len(piece) /\ Len(piece) \in Nat /\ at \in Nat
      /\ at + Len(piece) <= Len(whole)
      /\ \A j \in 1 .. Len(part) : piece[0 + j] = part[j]
      /\ \A j \in 1 .. Len(piece) : whole[at + j] = piece[j]
  BY DEF Within
<1>2. \A j \in 1 .. Len(part) : j \in 1 .. Len(piece) /\ 0 + j = j
  BY <1>1
<1>3. \A j \in 1 .. Len(part) : whole[at + j] = part[j]
  BY <1>1, <1>2
<1> QED
  BY <1>1, <1>3 DEF Within

\* What has a place is not empty.
LEMMA PlaceInside ==
  ASSUME NEW s, NEW j \in 1 .. Len(s)
  PROVE  s # <<>>
<1> SUFFICES ASSUME s = <<>>
             PROVE  FALSE
  OBVIOUS
<1>1. Len(s) = 0
  OBVIOUS
<1> QED
  BY <1>1

\* What git says of a file, and of the one with a quoted name that follows.
FileText(file, script, stray) == FileDiff(Header(file), script) \o FileDiff(QuotedHeader, stray)

\* The only header in it with a name is that of the file, and it is there only if
\* a line of the file was not kept.
LEMMA FileTextIs ==
  ASSUME NEW file \in STRING, NEW script \in Seq(Ops), NEW stray \in Seq(Ops),
         NEW piece, piece = FileText(file, script, stray)
  PROVE  /\ piece \in Seq(DiffLine) /\ Within(FileDiff(Header(file), script), 0, piece)
         /\ \A j \in 1 .. Len(piece) :
              piece[j].type = "diff" => piece[j].file = file /\ ToSet(script) # {"="}
<1> DEFINE one == FileDiff(Header(file), script)
           two == FileDiff(QuotedHeader, stray)
<1>1. /\ Header(file) \in DiffLine /\ Header(file).type = "diff" /\ Header(file).file = file
      /\ QuotedHeader \in DiffLine /\ QuotedHeader.type = "quoted"
  BY HeadersAre
<1>2. /\ one \in Seq(DiffLine)
      /\ one # <<>> => /\ ToSet(script) # {"="} /\ Len(one) \in Nat \ {0} /\ one[1] = Header(file)
                       /\ \A j \in 2 .. Len(one) : one[j].type # "diff"
  BY <1>1, FileDiffIs
<1>3. /\ two \in Seq(DiffLine)
      /\ two # <<>> => /\ Len(two) \in Nat \ {0} /\ two[1] = QuotedHeader
                       /\ \A j \in 2 .. Len(two) : two[j].type # "diff"
  BY <1>1, FileDiffIs
<1>4. piece = one \o two
  BY DEF FileText
<1> HIDE DEF one, two
<1>5. /\ piece \in Seq(DiffLine) /\ Len(piece) = Len(one) + Len(two)
      /\ Len(one) \in Nat /\ Len(two) \in Nat
      /\ \A i \in 1 .. Len(one) : piece[i] = one[i]
      /\ \A i \in 1 .. Len(two) : piece[Len(one) + i] = two[i]
  BY <1>2, <1>3, <1>4, ConcatIs
<1>6. Within(one, 0, piece)
  BY <1>2, <1>3, <1>4, ConcatWithin
<1>7. ASSUME NEW j \in 1 .. Len(piece), piece[j].type = "diff"
      PROVE  piece[j].file = file /\ ToSet(script) # {"="}
  <2>1. CASE j \in 1 .. Len(one)
    <3>1. one # <<>> /\ piece[j] = one[j]
      BY <1>5, <2>1, PlaceInside
    <3>2. j = 1
      <4>1. j \notin 2 .. Len(one)
        BY <1>2, <1>7, <3>1
      <4> QED
        BY <1>5, <2>1, <4>1
    <3> QED
      BY <1>1, <1>2, <3>1, <3>2
  <2>2. CASE j \notin 1 .. Len(one)
    <3> DEFINE i == j - Len(one)
    <3>1. i \in 1 .. Len(two) /\ Len(one) + i = j
      BY <1>5, <2>2
    <3> HIDE DEF i
    <3>2. two # <<>> /\ piece[j] = two[i]
      BY <1>5, <3>1, PlaceInside
    <3>3. two[i].type # "diff"
      <4>1. CASE i = 1
        BY <1>1, <1>3, <3>2, <4>1
      <4>2. CASE i # 1
        <5>1. i \in 2 .. Len(two)
          BY <1>5, <3>1, <4>2
        <5> QED
          BY <1>3, <3>2, <5>1
      <4> QED
        BY <4>1, <4>2
    <3> QED
      BY <1>7, <3>2, <3>3
  <2> QED
    BY <2>1, <2>2
<1> QED
  BY <1>5, <1>6, <1>7 DEF one

\* Where the hunks of a file are in the whole output.
LEMMA HunksPlaced ==
  ASSUME NEW file \in STRING, NEW script \in Seq(Ops), NEW part, part = FileDiff(Header(file), script),
         NEW at, NEW diff \in Seq(DiffLine), Within(part, at, diff),
         NEW i \in 1 .. Len(Only(script, KeptOps)), Only(script, KeptOps)[i] = "+"
  PROVE  \E hunk \in ToSet(ParseDiffOutput(diff)) : hunk.file = file /\ i \in ToSet(hunk.added)
<1>1. PICK run : ParseRun(run, diff)
  BY ParseRunExists
<1>2. ParseDiffOutput(diff) = AllHunks(run[Len(diff)])
  BY <1>1 DEF ParseRun, ParseDiffOutput, ParsedOf, NothingParsed
<1>3. PICK h, r, a : Block(part, h, r, a) /\ i = part[h].new + a - 1
  BY HeadersAre, FileDiffIs DEF Covered
<1>4. /\ h \in Nat \ {0} /\ r \in Nat /\ a \in Nat \ {0} /\ h + r + a <= Len(part)
      /\ part[h].type = "@"
  BY <1>3 DEF Block
<1>5. /\ at \in Nat /\ Len(part) \in Nat /\ at + Len(part) <= Len(diff) /\ Len(diff) \in Nat
      /\ \A j \in 1 .. Len(part) : diff[at + j] = part[j]
  BY DEF Within
<1>6. part # <<>>
  <2> SUFFICES ASSUME part = <<>>
               PROVE  FALSE
    OBVIOUS
  <2>1. Len(part) = 0
    OBVIOUS
  <2> QED
    BY <1>4, <2>1
<1>7. /\ part[1].type = "diff" /\ part[1].file = file
      /\ \A j \in 2 .. Len(part) : part[j].type # "diff"
  <2>1. Header(file) \in DiffLine /\ Header(file).type = "diff" /\ Header(file).file = file
    BY HeadersAre
  <2>2. part[1] = Header(file) /\ \A j \in 2 .. Len(part) : part[j].type # "diff"
    BY <1>6, <2>1, FileDiffIs
  <2> QED
    BY <2>1, <2>2
<1>8. h # 1
  BY <1>4, <1>7
<1>9. Block(diff, at + h, r, a) /\ diff[at + h] = part[h]
  BY <1>3, <1>5, BlockWithin
<1> DEFINE d == at + 1
<1>10. d \in 1 .. Len(diff) /\ 1 \in 1 .. Len(part) /\ d < at + h
  BY <1>4, <1>5, <1>8
<1>11. diff[d].type = "diff" /\ diff[d].file = file
  BY <1>5, <1>7, <1>10
<1>12. ASSUME NEW j \in d + 1 .. at + h
       PROVE  diff[j].type # "diff"
  <2>1. j - at \in 2 .. Len(part) /\ j - at \in 1 .. Len(part) /\ at + (j - at) = j
    BY <1>4, <1>5
  <2>2. diff[j] = part[j - at]
    BY <1>5, <2>1
  <2> QED
    BY <1>7, <2>1, <2>2
<1> HIDE DEF d
<1>13. HasAdded(run[Len(diff)], diff[d].file, diff[at + h].new + a - 1)
  BY <1>1, <1>9, <1>10, <1>11, <1>12, BlockRead
<1>14. HasAdded(run[Len(diff)], file, i)
  BY <1>3, <1>9, <1>11, <1>13
<1> QED
  BY <1>2, <1>14 DEF HasAdded

\* What parseDiffOutput makes of the whole diff: every line that was added is in a
\* hunk of its file, and every hunk is of a file that has changed, or of none.
LEMMA DiffOfIs ==
  ASSUME NEW script, \A f \in ToSet(Files) : script[f] \in Seq(Ops),
         NEW stray, \A f \in ToSet(Files) : stray[f] \in Seq(Ops),
         NEW diff, diff = DiffOf(script, stray)
  PROVE  /\ \A f \in ToSet(Files) : \A i \in 1 .. Len(Only(script[f], KeptOps)) :
              Only(script[f], KeptOps)[i] = "+" =>
                \E hunk \in ToSet(ParseDiffOutput(diff)) : hunk.file = f /\ i \in ToSet(hunk.added)
         /\ \A hunk \in ToSet(ParseDiffOutput(diff)) : hunk.file \in ChangedFiles(script) \cup {NoFile}
<1> DEFINE n == Len(Files)
           seqs == [i \in 1 .. n |-> FileText(Files[i], script[Files[i]], stray[Files[i]])]
           G == ChangedFiles(script) \cup {NoFile}
<1>1. DOMAIN Files = 1 .. n /\ n \in Nat /\ \A i \in 1 .. n : Files[i] \in ToSet(Files) /\ Files[i] \in STRING
  BY FilesAre
<1>2. diff = FlattenSeq(seqs)
  BY <1>1 DEF DiffOf, FileText
<1>3. \A i \in 1 .. n : seqs[i] = FileText(Files[i], script[Files[i]], stray[Files[i]])
  OBVIOUS
<1>4. \A i \in 1 .. n : seqs[i] \in Seq(DiffLine)
  BY <1>1, FileTextIs
<1>5. seqs \in Seq(Seq(DiffLine)) /\ Len(seqs) = n
  <2> DEFINE Q == Seq(DiffLine)
  <2>1. \A i \in 1 .. n : seqs[i] \in Q
    BY <1>4
  <2> HIDE DEF Q
  <2> QED
    BY <1>1, <2>1 DEF Q
<1> HIDE DEF n, seqs
<1>6. diff \in Seq(DiffLine)
  BY <1>2, <1>5, FlattenIs
<1>7. PICK at : Joins(at, seqs, n, diff)
  BY <1>2, <1>5, FlattenPlaces
<1>8. ASSUME NEW k \in 1 .. n
      PROVE  Within(seqs[k], at[k], diff)
  <2>1. Len(seqs[k]) \in Nat
    BY <1>4
  <2> QED
    BY <1>7, <2>1 DEF Joins, Within
<1>9. ASSUME NEW p \in 1 .. Len(diff)
      PROVE  \E k \in 1 .. n :
               /\ p - at[k] \in 1 .. Len(seqs[k]) /\ diff[p] = seqs[k][p - at[k]]
               /\ at[k] \in Nat
  <2>1. PICK k \in 1 .. n : p - at[k] \in 1 .. Len(seqs[k])
    BY <1>7 DEF Joins
  <2>2. /\ at[k] \in Nat
        /\ \A j \in 1 .. Len(seqs[k]) : diff[at[k] + j] = seqs[k][j]
    BY <1>8 DEF Within
  <2>3. at[k] + (p - at[k]) = p
    BY <1>6, <2>2
  <2>4. diff[p] = seqs[k][p - at[k]]
    BY <2>1, <2>2, <2>3
  <2> QED
    BY <2>1, <2>2, <2>4
<1>10. ASSUME NEW k \in 1 .. n, NEW j \in 1 .. Len(seqs[k]), seqs[k][j].type = "diff"
       PROVE  seqs[k][j].file \in ChangedFiles(script)
  <2> DEFINE file == Files[k]
             s == script[file]
             piece == seqs[k]
  <2>1. /\ piece = FileText(file, s, stray[file]) /\ file \in STRING /\ file \in ToSet(Files)
        /\ s \in Seq(Ops) /\ stray[file] \in Seq(Ops)
    BY <1>1, <1>3
  <2> HIDE DEF piece, file
  <2>2. piece[j].file = file /\ ToSet(s) # {"="}
    BY <1>10, <2>1, FileTextIs DEF piece
  <2> QED
    BY <2>1, <2>2 DEF ChangedFiles, piece
<1>11. ASSUME NEW p \in 1 .. Len(diff), diff[p].type = "diff"
       PROVE  diff[p].file \in G
  <2>1. PICK k \in 1 .. n : /\ p - at[k] \in 1 .. Len(seqs[k]) /\ diff[p] = seqs[k][p - at[k]]
                            /\ at[k] \in Nat
    BY <1>9
  <2> QED
    BY <1>10, <1>11, <2>1
<1>12. \A hunk \in ToSet(ParseDiffOutput(diff)) : hunk.file \in G
  <2>1. NoFile \in G
    OBVIOUS
  <2> HIDE DEF G
  <2> QED
    BY <1>6, <1>11, <2>1, HunksOf
<1>13. ASSUME NEW f \in ToSet(Files), NEW i \in 1 .. Len(Only(script[f], KeptOps)),
              Only(script[f], KeptOps)[i] = "+"
       PROVE  \E hunk \in ToSet(ParseDiffOutput(diff)) : hunk.file = f /\ i \in ToSet(hunk.added)
  <2>1. PICK k \in 1 .. n : Files[k] = f
    BY FilesAre DEF n
  <2>2. /\ f \in STRING /\ script[f] \in Seq(Ops) /\ stray[f] \in Seq(Ops)
        /\ seqs[k] = FileText(f, script[f], stray[f])
    BY <1>1, <1>3, <2>1
  <2>3. Within(FileDiff(Header(f), script[f]), 0, seqs[k])
    BY <2>2, FileTextIs
  <2>4. Within(FileDiff(Header(f), script[f]), at[k], diff)
    <3>1. Len(diff) \in Nat
      BY <1>6
    <3> QED
      BY <1>8, <2>3, <3>1, WithinWithin
  <2> QED
    BY <1>6, <1>13, <2>2, <2>4, HunksPlaced
<1> QED
  BY <1>12, <1>13

\* What an answer in hand was computed from.
ChangesAnswered ==
  Is("changed_symbols") /\ ~answer.argument.failed =>
    /\ \E scripts \in [ToSet(Files) -> Scripts] :
         answer.argument.script = [f \in ToSet(Files) |-> Script(scripts[f], Len(source[f]))]
    /\ \E stray \in [ToSet(Files) -> Strays] :
         answer.result = GetChangedSymbols(DiffOf(answer.argument.script, stray))

\* The property is what the invariant says of the answer.
LEMMA ChangesFollow ==
  ASSUME TablesInv, ChangesAnswered
  PROVE  ChangesFound
<1> SUFFICES ASSUME Is("changed_symbols"), ~answer.argument.failed
             PROVE  ChangesFound
  BY DEF ChangesFound
<1> DEFINE script == answer.argument.script
<1>1. PICK stray \in [ToSet(Files) -> Strays] : answer.result = GetChangedSymbols(DiffOf(script, stray))
  BY DEF ChangesAnswered
<1>2. \A f \in ToSet(Files) : stray[f] \in Seq(Ops)
  BY ConstantsAssumption DEF Ops
<1> DEFINE diff == DiffOf(script, stray)
           Now(f) == Only(script[f], KeptOps)
<1>3. answer.result = GetChangedSymbols(diff)
  BY <1>1
<1>4. ASSUME NEW f \in ToSet(Files)
      PROVE  script[f] \in Seq(Ops) /\ Len(Now(f)) = Len(source[f])
  <2>1. PICK scripts : script = [g \in ToSet(Files) |-> Script(scripts[g], Len(source[g]))]
    BY DEF ChangesAnswered
  <2>2. script[f] = Script(scripts[f], Len(source[f]))
    BY <2>1
  <2>3. Len(source[f]) \in Nat
    BY SourceType, TreeLength
  <2> HIDE DEF script
  <2> QED
    BY <2>2, <2>3, ScriptIs
<1> HIDE DEF script, diff
<1>5. diff = DiffOf(script, stray)
  BY DEF diff
<1>6. ASSUME NEW n \in Definitions, NEW i \in n[2] .. At(n).end, Now(n[1])[i] = "+"
      PROVE  <<n[1], At(n).name>> \in answer.result
  <2>1. n \in Node /\ n = <<n[1], n[2]>> /\ n[1] \in ToSet(Files) /\ n[2] \in 1 .. Len(source[n[1]])
    BY NodesAre DEF Definitions
  <2>2. At(n).end \in n[2] .. Len(source[n[1]]) /\ Len(source[n[1]]) \in Nat
    BY <2>1, SourceType, NodeType DEF At
  <2>3. i \in 1 .. Len(Now(n[1]))
    <3>1. i \in 1 .. Len(source[n[1]])
      BY <2>1, <2>2
    <3> QED
      BY <1>4, <2>1, <3>1
  <2>4. PICK hunk \in ToSet(ParseDiffOutput(diff)) : hunk.file = n[1] /\ i \in ToSet(hunk.added)
    <3>1. \A f \in ToSet(Files) : \A j \in 1 .. Len(Now(f)) :
            Now(f)[j] = "+" => \E h \in ToSet(ParseDiffOutput(diff)) : h.file = f /\ j \in ToSet(h.added)
      BY <1>2, <1>4, <1>5, DiffOfIs
    <3> QED
      BY <1>6, <2>1, <2>3, <3>1
  <2>5. PICK p \in 1 .. Len(symbols) : Place(symbols[p]) = n
    BY SymbolsAre
  <2>6. At(n).name = symbols[p].name /\ At(n).end = symbols[p].end
    BY <2>5, SymbolsAre
  <2>7. symbols[p].file = n[1] /\ symbols[p].line = n[2]
    BY <2>1, <2>5 DEF Place
  <2>8. symbols[p] \in ToSet(symbols)
    <3>1. symbols \in Seq(SymbolType)
      BY SymbolsAre
    <3>2. DOMAIN symbols = 1 .. Len(symbols)
      BY <3>1
    <3> QED
      BY <3>2 DEF ToSet
  <2>9. Touches(hunk, symbols[p])
    BY <2>4, <2>6, <2>7 DEF Touches
  <2>10. <<symbols[p].file, symbols[p].name>> \in GetChangedSymbols(diff)
    BY <2>4, <2>7, <2>8, <2>9 DEF GetChangedSymbols
  <2> QED
    BY <1>3, <2>6, <2>7, <2>10
<1>7. ASSUME NEW key \in answer.result
      PROVE  ToSet(script[key[1]]) # {"="}
  <2>1. PICK s \in ToSet(symbols) :
          /\ key = <<s.file, s.name>>
          /\ \E hunk \in ToSet(ParseDiffOutput(diff)) : hunk.file = s.file
    BY <1>3 DEF GetChangedSymbols
  <2>2. s.file \in ChangedFiles(script) \cup {NoFile}
    BY <1>2, <1>4, <1>5, <2>1, DiffOfIs
  <2>3. s.file # NoFile
    <3>1. PICK p \in 1 .. Len(symbols) : s = symbols[p]
      BY <2>1, SymbolPlaces DEF ToSet
    <3>2. Place(s) \in Node
      BY <3>1, SymbolsAre DEF Definitions
    <3>3. s.file \in ToSet(Files)
      BY <3>2, NodesAre DEF Place
    <3> QED
      BY <3>3, FilesAre
  <2> QED
    BY <2>1, <2>2, <2>3 DEF ChangedFiles
<1> QED
  BY <1>6, <1>7 DEF ChangesFound, script, KeptOps

\* It is kept by the step that leaves the answer, and by the others.
LEMMA ChangesStep ==
  ASSUME ChangesAnswered, [Next]_vars
  PROVE  ChangesAnswered'
<1> SUFFICES ASSUME answer' # None
             PROVE  ChangesAnswered'
  BY DEF ChangesAnswered, Is
<1>1. CASE UNCHANGED vars
  BY <1>1 DEF ChangesAnswered, Is, GetChangedSymbols, vars
<1>2. CASE UNCHANGED tables /\ Called
  <2>1. source' = source /\ symbols' = symbols
    BY <1>2 DEF tables
  <2> SUFFICES ASSUME answer'.tool = "changed_symbols"
               PROVE  ChangesAnswered'
    BY DEF ChangesAnswered, Is
  <2>2. CASE DiffFails
    <3> DEFINE argument == [script |-> <<>>, failed |-> TRUE]
    <3>1. \/ Answer("changed_symbols", argument, "ok", {})
          \/ Answer("changed_symbols", argument, "failed", <<>>)
      BY <2>2, Zenon DEF DiffFails, Answers
    <3>2. argument.failed
      OBVIOUS
    <3> HIDE DEF argument
    <3>3. CASE Answer("changed_symbols", argument, "ok", {})
      BY <3>2, <3>3 DEF Answer, ChangesAnswered, Is
    <3>4. CASE Answer("changed_symbols", argument, "failed", <<>>)
      BY <3>4 DEF Answer, ChangesAnswered, Is
    <3> QED
      BY <3>1, <3>3, <3>4
  <2>3. CASE ChangedSymbols
    <3>1. /\ disk = source
          /\ \E scripts \in [ToSet(Files) -> Scripts], stray \in [ToSet(Files) -> Strays] :
               LET script == [f \in ToSet(Files) |-> Script(scripts[f], Len(disk[f]))]
               IN Answers("changed_symbols", [script |-> script, failed |-> FALSE],
                          GetChangedSymbols(DiffOf(script, stray)))
      BY <2>3, Zenon DEF ChangedSymbols
    <3>2. PICK scripts \in [ToSet(Files) -> Scripts], stray \in [ToSet(Files) -> Strays] :
            LET script == [f \in ToSet(Files) |-> Script(scripts[f], Len(source[f]))]
            IN Answers("changed_symbols", [script |-> script, failed |-> FALSE],
                       GetChangedSymbols(DiffOf(script, stray)))
      BY <3>1
    <3> DEFINE script == [f \in ToSet(Files) |-> Script(scripts[f], Len(source[f]))]
    <3> HIDE DEF script
    <3>3. answer'.argument.script = script /\ answer'.result = GetChangedSymbols(DiffOf(script, stray))
      BY <3>2 DEF script, Answers, Answer
    <3>4. answer'.argument.script = [f \in ToSet(Files) |-> Script(scripts[f], Len(source'[f]))]
      BY <2>1, <3>3 DEF script
    <3>5. GetChangedSymbols(DiffOf(answer.argument.script, stray))' = GetChangedSymbols(DiffOf(script, stray))
      BY <2>1, <3>3 DEF GetChangedSymbols
    <3>6. answer'.result = GetChangedSymbols(DiffOf(answer.argument.script, stray))'
      BY <3>3, <3>5
    <3> QED
      BY <3>4, <3>6 DEF ChangesAnswered
  <2> QED
    BY <1>2, <2>2, <2>3 DEF Called
<1> QED
  BY <1>1, <1>2, Asked

\* Unless git diff failed, which the answer need not tell, and whatever was
\* edited since the commit, a symbol with a line that was added is among the
\* changed ones, and no symbol is of a file that has not changed, also where
\* files with quoted names are in between (parseDiffOutput, GetChangedSymbols).
THEOREM ChangesAreFound == Spec => []ChangesFound
<1>1. Init => ChangesAnswered
  BY TablesInit DEF ChangesAnswered, Is
<1>2. ChangesAnswered /\ [Next]_vars => ChangesAnswered'
  BY ChangesStep
<1>3. TablesInv /\ ChangesAnswered => ChangesFound
  BY ChangesFollow
<1> QED
  BY <1>1, <1>2, <1>3, TablesStay, PTL DEF Spec
=============================================================================
