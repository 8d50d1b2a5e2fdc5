-------------------------- MODULE IngestionProofs --------------------------
(***************************************************************************)
(* What becomes of one source on its way to the chunks that are embedded,  *)
(* for every content, policy and budget: a handler that the policy allows  *)
(* takes it, what a reader sees of it is kept, and the chunks cover what   *)
(* was kept.                                                               *)
(***************************************************************************)
EXTENDS Ingestion, FiniteSetTheorems, SequenceTheorems, WellFoundedInduction, TLAPS

-----------------------------------------------------------------------------
(* Numbers in order, and the elements of a sequence at some of its         *)
(* positions.                                                              *)

\* Induction over the natural numbers, for a set of them.
LEMMA NatInductionOnSet ==
  ASSUME NEW T, 0 \in T, \A n \in Nat : n \in T => n + 1 \in T
  PROVE  Nat \subseteq T
<1> DEFINE less == {ss \in Nat \X Nat : ss[1] < ss[2]}
<1>1. IsWellFoundedOn(less, Nat)
  BY NatLessThanWellFounded, Zenon DEF OpToRel
<1> SUFFICES ASSUME Nat \ T # {} PROVE FALSE
  OBVIOUS
<1>2. PICK m \in Nat \ T : \A n \in Nat \ T : <<n, m>> \notin less
  <2> HIDE DEF less
  <2> QED
    BY <1>1, WFMin
<1>3. m \in Nat /\ m \notin T
  OBVIOUS
<1>4. m # 0 /\ m - 1 \in Nat /\ (m - 1) + 1 = m
  BY <1>3
<1>5. <<m - 1, m>> \in less
  BY <1>3, <1>4
<1>6. m - 1 \in T
  BY <1>2, <1>4, <1>5
<1> QED
  BY <1>3, <1>4, <1>6

\* r is the numbers of S, each once, the smaller first.
Increasing(r, S) ==
  /\ r \in [1 .. Cardinality(S) -> S]
  /\ \A i \in S : \E k \in DOMAIN r : r[k] = i
  /\ \A k, m \in DOMAIN r : k < m => r[k] < r[m]

\* A finite set has as many places in its order as elements: an element of each rank.
LEMMA InOrderIs ==
  ASSUME NEW S \in SUBSET Nat, IsFiniteSet(S)
  PROVE  Cardinality(S) \in Nat /\ Increasing(InOrder(S), S)
<1> DEFINE N == Cardinality(S)
           below(i) == {m \in S : m < i}
           rank == [i \in S |-> Cardinality(below(i))]
           r == InOrder(S)
<1>0. N \in Nat
  BY FS_CardinalityType
<1>1. ASSUME NEW i \in S
      PROVE  /\ IsFiniteSet(below(i)) /\ Cardinality(below(i)) \in Nat
             /\ Cardinality(below(i)) < N
  <2>1. IsFiniteSet(S \ {i}) /\ Cardinality(S \ {i}) = N - 1
    BY FS_RemoveElement
  <2>2. below(i) \in SUBSET (S \ {i})
    OBVIOUS
  <2>3. IsFiniteSet(below(i)) /\ Cardinality(below(i)) <= N - 1
    <3> HIDE DEF below
    <3> QED
      BY <2>1, <2>2, FS_Subset
  <2>4. Cardinality(below(i)) \in Nat
    <3> HIDE DEF below
    <3> QED
      BY <2>3, FS_CardinalityType
  <2> QED
    BY <1>0, <2>3, <2>4
<1>2. ASSUME NEW i \in S, NEW j \in S, i < j
      PROVE  rank[i] < rank[j]
  <2>0. i \in Nat /\ j \in Nat /\ \A m \in S : m \in Nat
    OBVIOUS
  <2>1. i \notin below(i) /\ below(i) \cup {i} \in SUBSET below(j)
    <3>1. i \notin below(i)
      BY <2>0
    <3>2. \A m \in below(i) \cup {i} : m \in below(j)
      BY <1>2, <2>0
    <3> QED
      BY <3>1, <3>2
  <2>2. /\ IsFiniteSet(below(i) \cup {i})
        /\ Cardinality(below(i) \cup {i}) = Cardinality(below(i)) + 1
    <3> HIDE DEF below
    <3> QED
      BY <1>1, <2>1, FS_AddElement
  <2>3. Cardinality(below(i) \cup {i}) <= Cardinality(below(j))
    <3> HIDE DEF below
    <3> QED
      BY <1>1, <2>1, FS_Subset
  <2>4. rank[i] = Cardinality(below(i)) /\ rank[j] = Cardinality(below(j))
    OBVIOUS
  <2> HIDE DEF below, rank
  <2> QED
    BY <1>1, <2>2, <2>3, <2>4
<1>3. rank \in [S -> 0 .. N - 1]
  <2> HIDE DEF below
  <2> QED
    BY <1>0, <1>1
<1>4. \A i, j \in S : rank[i] = rank[j] => i = j
  <2> SUFFICES ASSUME NEW i \in S, NEW j \in S, rank[i] = rank[j], i # j
               PROVE  FALSE
    OBVIOUS
  <2>1. rank[i] \in Int /\ rank[j] \in Int
    <3> HIDE DEF rank
    <3> QED
      BY <1>0, <1>3
  <2>2. i < j \/ j < i
    OBVIOUS
  <2> HIDE DEF rank
  <2> QED
    BY <1>2, <2>1, <2>2
<1>5. \A k \in 1 .. N : \E i \in S : rank[i] = k - 1
  <2> HIDE DEF rank, N
  <2>1. rank \in Injection(S, 0 .. N - 1)
    BY <1>3, <1>4 DEF Injection, IsInjective
  <2>2. IsFiniteSet(0 .. N - 1) /\ Cardinality(0 .. N - 1) = N
    BY <1>0, FS_Interval
  <2>3. rank \in Surjection(S, 0 .. N - 1)
    BY <2>1, <2>2, FS_Injection DEF N
  <2> QED
    BY <1>0, <2>3 DEF Surjection
<1>6. ASSUME NEW k \in 1 .. N
      PROVE  r[k] \in S /\ rank[r[k]] = k - 1
  <2>1. r[k] = CHOOSE n \in S : Cardinality(below(n)) = k - 1
    BY DEF InOrder
  <2>2. \E n \in S : Cardinality(below(n)) = k - 1
    <3> HIDE DEF below
    <3> QED
      BY <1>5 DEF rank
  <2>3. r[k] \in S /\ Cardinality(below(r[k])) = k - 1
    <3> HIDE DEF r, below
    <3> QED
      BY <2>1, <2>2
  <2> HIDE DEF r, below
  <2> QED
    BY <2>3 DEF rank
<1> HIDE DEF rank
<1>7. r \in [1 .. N -> S] /\ DOMAIN r = 1 .. N
  <2> DEFINE nth(k) == CHOOSE n \in S : Cardinality({m \in S : m < n}) = k - 1
  <2>0. r = [k \in 1 .. N |-> nth(k)]
    BY DEF InOrder
  <2>1. DOMAIN r = 1 .. N /\ r = [k \in 1 .. N |-> r[k]]
    <3> HIDE DEF r, nth, N
    <3> QED
      BY <2>0
  <2> HIDE DEF r, N
  <2> QED
    BY <1>6, <2>1
<1> HIDE DEF r
<1>8. \A i \in S : \E k \in 1 .. N : r[k] = i
  <2> TAKE i \in S
  <2>1. rank[i] \in 0 .. N - 1
    BY <1>3
  <2>2. rank[i] + 1 \in 1 .. N /\ (rank[i] + 1) - 1 = rank[i]
    BY <1>0, <2>1
  <2>3. r[rank[i] + 1] \in S /\ rank[r[rank[i] + 1]] = rank[i]
    BY <1>6, <2>2
  <2> QED
    BY <1>4, <2>2, <2>3
<1>9. \A k, m \in 1 .. N : k < m => r[k] < r[m]
  <2> SUFFICES ASSUME NEW k \in 1 .. N, NEW m \in 1 .. N, k < m, ~ r[k] < r[m]
               PROVE  FALSE
    OBVIOUS
  <2>1. r[k] \in S /\ r[m] \in S /\ rank[r[k]] = k - 1 /\ rank[r[m]] = m - 1
    BY <1>6
  <2>2. r[k] \in Nat /\ r[m] \in Nat
    BY <2>1
  <2>3. r[k] # r[m]
    BY <1>0, <2>1
  <2>4. r[m] < r[k]
    BY <2>2, <2>3
  <2>5. rank[r[m]] < rank[r[k]]
    BY <1>2, <2>1, <2>4
  <2> QED
    BY <1>0, <2>1, <2>5
<1> QED
  BY <1>0, <1>7, <1>8, <1>9 DEF Increasing, r

\* p is the elements of seq at the positions, which o lists.
PickedBy(p, seq, positions, o) ==
  /\ Increasing(o, positions)
  /\ Len(p) = Cardinality(positions)
  /\ DOMAIN p = DOMAIN o
  /\ \A k \in DOMAIN p : p[k] = seq[o[k]]

\* Pick takes the elements at some positions, in the order of the positions.
LEMMA PickIs ==
  ASSUME NEW T, NEW seq \in Seq(T), NEW positions \in SUBSET (DOMAIN seq)
  PROVE  /\ Pick(seq, positions) \in Seq(T)
         /\ Len(Pick(seq, positions)) <= Len(seq)
         /\ \E o : PickedBy(Pick(seq, positions), seq, positions, o)
<1> DEFINE o == InOrder(positions)
           p == Pick(seq, positions)
           N == Cardinality(positions)
<1>1. Len(seq) \in Nat /\ DOMAIN seq = 1 .. Len(seq) /\ positions \in SUBSET Nat
  OBVIOUS
<1>2. IsFiniteSet(1 .. Len(seq)) /\ Cardinality(1 .. Len(seq)) = Len(seq)
  BY SMTT(40), <1>1, FS_Interval
<1>3. IsFiniteSet(positions) /\ N <= Len(seq)
  BY <1>1, <1>2, FS_Subset
<1>4. N \in Nat /\ Increasing(o, positions)
  BY <1>1, <1>3, InOrderIs
<1>5. p = [k \in DOMAIN o |-> seq[o[k]]]
  BY DEF Pick
<1> HIDE DEF o, p
<1>6. o \in [1 .. N -> positions] /\ DOMAIN o = 1 .. N
  BY <1>4 DEF Increasing
<1>7. p \in Seq(T) /\ Len(p) = N /\ DOMAIN p = DOMAIN o
  <2>1. \A k \in 1 .. N : seq[o[k]] \in T
    BY <1>6
  <2> QED
    BY <1>4, <1>5, <1>6, <2>1
<1>8. PickedBy(p, seq, positions, o)
  BY <1>4, <1>5, <1>7 DEF PickedBy
<1> QED
  BY <1>3, <1>7, <1>8 DEF p

-----------------------------------------------------------------------------
(* Recursion over a sequence, with the step as a function.                 *)

\* f[k] is what the step makes of the first k elements.
FoldBy(f, base, step, xs, V) ==
  /\ f \in [0 .. Len(xs) -> V]
  /\ f[0] = base
  /\ \A k \in 1 .. Len(xs) : f[k] = step[<<f[k - 1], xs[k]>>]

\* There is such a function.
LEMMA FoldExists ==
  ASSUME NEW V, NEW X, NEW base \in V, NEW step \in [V \X X -> V], NEW xs \in Seq(X)
  PROVE  \E f : FoldBy(f, base, step, xs, V)
<1> DEFINE upTo(f, m) == /\ f \in [0 .. m -> V]
                         /\ f[0] = base
                         /\ \A k \in 1 .. m : f[k] = step[<<f[k - 1], xs[k]>>]
           T == {m \in Nat : m <= Len(xs) => \E f : upTo(f, m)}
<1>0. Len(xs) \in Nat /\ \A k \in 1 .. Len(xs) : xs[k] \in X
  OBVIOUS
<1>1. 0 \in T
  <2>1. upTo([k \in 0 .. 0 |-> base], 0)
    OBVIOUS
  <2> QED
    BY <2>1
<1>2. ASSUME NEW m \in Nat, m \in T PROVE m + 1 \in T
  <2> SUFFICES ASSUME m + 1 <= Len(xs) PROVE \E f : upTo(f, m + 1)
    OBVIOUS
  <2>1. PICK g : upTo(g, m)
    BY <1>0, <1>2
  <2> DEFINE e == [k \in 0 .. m + 1 |-> IF k = m + 1 THEN step[<<g[m], xs[m + 1]>>] ELSE g[k]]
  <2>2. g[m] \in V /\ xs[m + 1] \in X
    BY <1>0, <2>1
  <2>3. e \in [0 .. m + 1 -> V]
    BY <2>1, <2>2
  <2>4. /\ e[m + 1] = step[<<g[m], xs[m + 1]>>]
        /\ \A k \in 0 .. m : e[k] = g[k]
    OBVIOUS
  <2> HIDE DEF e
  <2>5. ASSUME NEW k \in 1 .. m + 1 PROVE e[k] = step[<<e[k - 1], xs[k]>>]
    <3>1. CASE k = m + 1
      <4>1. k - 1 = m
        BY <3>1
      <4> QED
        BY <2>4, <3>1, <4>1
    <3>2. CASE k \in 1 .. m
      <4>1. k - 1 \in 0 .. m /\ k \in 0 .. m
        BY <3>2
      <4> QED
        BY <2>1, <2>4, <3>2, <4>1
    <3> QED
      BY <3>1, <3>2
  <2>6. e[0] = base
    BY <2>1, <2>4
  <2> QED
    BY <2>3, <2>5, <2>6
<1>3. \E f : upTo(f, Len(xs))
  <2> HIDE DEF T, upTo
  <2>1. Nat \subseteq T
    BY <1>1, <1>2, NatInductionOnSet
  <2> QED
    BY <1>0, <2>1 DEF T
<1> QED
  BY <1>3 DEF FoldBy

\* What takes the steps is of the type the steps keep.
LEMMA FoldTyped ==
  ASSUME NEW V, NEW X, NEW base \in V, NEW step \in [V \X X -> V], NEW xs \in Seq(X), NEW f,
         f = [k \in 0 .. Len(xs) |-> f[k]],
         f[0] = base,
         \A k \in 1 .. Len(xs) : f[k - 1] \in V => f[k] = step[<<f[k - 1], xs[k]>>]
  PROVE  FoldBy(f, base, step, xs, V)
<1> DEFINE T == {m \in Nat : m <= Len(xs) => f[m] \in V}
<1>0. Len(xs) \in Nat /\ \A k \in 1 .. Len(xs) : xs[k] \in X
  OBVIOUS
<1>1. 0 \in T
  OBVIOUS
<1>2. ASSUME NEW m \in Nat, m \in T PROVE m + 1 \in T
  <2> SUFFICES ASSUME m + 1 <= Len(xs) PROVE f[m + 1] \in V
    OBVIOUS
  <2>1. m + 1 \in 1 .. Len(xs) /\ (m + 1) - 1 = m /\ f[m] \in V
    BY <1>0, <1>2
  <2>2. f[m + 1] = step[<<f[m], xs[m + 1]>>]
    BY <2>1
  <2> QED
    BY <1>0, <2>1, <2>2
<1>3. \A m \in 0 .. Len(xs) : f[m] \in V
  <2> HIDE DEF T
  <2>1. Nat \subseteq T
    BY <1>1, <1>2, NatInductionOnSet
  <2> QED
    BY <1>0, <2>1 DEF T
<1>4. f \in [0 .. Len(xs) -> V]
  BY <1>3
<1>5. \A k \in 1 .. Len(xs) : f[k] = step[<<f[k - 1], xs[k]>>]
  <2> TAKE k \in 1 .. Len(xs)
  <2>1. k - 1 \in 0 .. Len(xs)
    BY <1>0
  <2> QED
    BY <1>3, <2>1
<1> QED
  BY <1>4, <1>5 DEF FoldBy

\* What makes the function of values.
Steps(base, step, xs, X, V) ==
  /\ base \in V
  /\ step \in [V \X X -> V]
  /\ xs \in Seq(X)

Grown(ys, xs, x) == ys = Append(xs, x)

\* An element more is a step more.
LEMMA FoldAppend ==
  ASSUME NEW V, NEW X, NEW base, NEW step, NEW xs, Steps(base, step, xs, X, V),
         NEW ys, NEW x \in X, Grown(ys, xs, x),
         NEW f, FoldBy(f, base, step, xs, V), NEW g, FoldBy(g, base, step, ys, V)
  PROVE  g[Len(ys)] = step[<<f[Len(xs)], x>>]
<1> DEFINE n == Len(xs)
           T == {m \in Nat : m <= n => f[m] = g[m]}
<1> USE DEF Steps
<1>0. /\ n \in Nat /\ Len(ys) = n + 1
      /\ \A k \in 1 .. n : ys[k] = xs[k]
      /\ ys[n + 1] = x
  BY DEF Grown
<1>1. 0 \in T
  BY DEF FoldBy
<1> HIDE DEF n
<1>2. ASSUME NEW m \in Nat, m \in T PROVE m + 1 \in T
  <2> SUFFICES ASSUME m + 1 <= n PROVE f[m + 1] = g[m + 1]
    OBVIOUS
  <2>1. m + 1 \in 1 .. n /\ m + 1 \in 1 .. n + 1 /\ (m + 1) - 1 = m /\ f[m] = g[m]
    BY <1>0, <1>2
  <2>2. f[m + 1] = step[<<f[m], xs[m + 1]>>] /\ g[m + 1] = step[<<g[m], ys[m + 1]>>]
    BY <1>0, <2>1 DEF FoldBy, n
  <2> QED
    BY <1>0, <2>1, <2>2
<1>3. f[n] = g[n]
  <2> HIDE DEF T
  <2>1. Nat \subseteq T
    BY <1>1, <1>2, NatInductionOnSet
  <2> QED
    BY <1>0, <2>1 DEF T
<1>4. n + 1 \in 1 .. n + 1 /\ (n + 1) - 1 = n
  BY <1>0
<1>5. g[n + 1] = step[<<g[n], ys[n + 1]>>]
  BY <1>0, <1>4 DEF FoldBy
<1> QED
  BY <1>0, <1>3, <1>5 DEF n

-----------------------------------------------------------------------------
(* Sequences of sequences.                                                 *)

\* A sequence after another.
Joins(T) == [p \in Seq(T) \X Seq(T) |-> p[1] \o p[2]]

\* Joining sequences is a step of a fold that stays among sequences.
LEMMA JoinsIs ==
  ASSUME NEW T
  PROVE  /\ Joins(T) \in [Seq(T) \X Seq(T) -> Seq(T)]
         /\ \A a, b \in Seq(T) : Joins(T)[<<a, b>>] = a \o b
<1>1. \A p \in Seq(T) \X Seq(T) : p[1] \o p[2] \in Seq(T)
  OBVIOUS
<1> QED
  BY <1>1 DEF Joins

\* FlattenSeq is such a fold.
LEMMA FlattenFold ==
  ASSUME NEW T, NEW xs \in Seq(Seq(T))
  PROVE  \E f : FoldBy(f, <<>>, Joins(T), xs, Seq(T)) /\ FlattenSeq(xs) = f[Len(xs)]
<1> DEFINE step(f, i) == IF i = 1 THEN xs[i] ELSE f[i - 1] \o xs[i]
           flat == CHOOSE f : f = [i \in 1 .. Len(xs) |-> step(f, i)]
           g == [k \in 0 .. Len(xs) |-> IF k = 0 THEN <<>> ELSE flat[k]]
<1>0. Len(xs) \in Nat /\ \A i \in 1 .. Len(xs) : xs[i] \in Seq(T)
  OBVIOUS
<1>1. <<>> \in Seq(T)
  OBVIOUS
<1>2. PICK f : FoldBy(f, <<>>, Joins(T), xs, Seq(T))
  BY <1>1, JoinsIs, FoldExists
<1>3. \A i \in 1 .. Len(xs) : f[i] = step(f, i)
  <2> TAKE i \in 1 .. Len(xs)
  <2>1. i - 1 \in 0 .. Len(xs) /\ f[i - 1] \in Seq(T)
    <3>1. i - 1 \in 0 .. Len(xs)
      BY <1>0
    <3>2. f \in [0 .. Len(xs) -> Seq(T)]
      BY <1>2 DEF FoldBy
    <3> QED
      BY <3>1, <3>2
  <2>2. f[i] = f[i - 1] \o xs[i]
    BY <1>0, <1>2, <2>1, JoinsIs DEF FoldBy
  <2>3. CASE i = 1
    <3>1. f[0] = <<>> /\ i - 1 = 0
      BY <1>2, <2>3 DEF FoldBy
    <3>2. <<>> \o xs[i] = xs[i]
      BY <1>0, ConcatEmptySeq
    <3> QED
      BY <2>2, <2>3, <3>1, <3>2
  <2> QED
    BY <2>2, <2>3
<1>4. \E h : h = [i \in 1 .. Len(xs) |-> step(h, i)]
  <2> DEFINE h == [i \in 1 .. Len(xs) |-> f[i]]
  <2>1. \A i \in 1 .. Len(xs) : h[i] = step(h, i)
    <3> TAKE i \in 1 .. Len(xs)
    <3>1. i # 1 => i - 1 \in 1 .. Len(xs)
      BY <1>0
    <3> QED
      BY <1>3, <3>1
  <2>2. h = [i \in 1 .. Len(xs) |-> step(h, i)]
    BY <2>1
  <2> HIDE DEF h
  <2> QED
    BY <2>2
<1>5. flat = [i \in 1 .. Len(xs) |-> step(flat, i)]
  <2> HIDE DEF step
  <2> QED
    BY <1>4
<1>6. FlattenSeq(xs) = IF Len(xs) = 0 THEN xs ELSE flat[Len(xs)]
  BY Zenon DEF FlattenSeq
<1> HIDE DEF flat
<1>7. g = [k \in 0 .. Len(xs) |-> g[k]] /\ g[0] = <<>>
  BY <1>0
<1>8. ASSUME NEW k \in 1 .. Len(xs), g[k - 1] \in Seq(T)
      PROVE  g[k] = Joins(T)[<<g[k - 1], xs[k]>>]
  <2>1. k - 1 \in 0 .. Len(xs) /\ k \in 0 .. Len(xs) /\ k # 0
    BY <1>0
  <2>2. g[k] = flat[k] /\ flat[k] = step(flat, k)
    BY <1>5, <2>1
  <2>3. Joins(T)[<<g[k - 1], xs[k]>>] = g[k - 1] \o xs[k]
    BY ZenonT(60), <1>0, <1>8, JoinsIs
  <2>4. CASE k = 1
    <3>1. g[k - 1] = <<>>
      BY <1>7, <2>4
    <3>2. <<>> \o xs[k] = xs[k]
      BY <1>0, ConcatEmptySeq
    <3> HIDE DEF g
    <3> QED
      BY <2>2, <2>3, <2>4, <3>1, <3>2
  <2>5. CASE k # 1
    <3>1. g[k - 1] = flat[k - 1]
      BY <2>1, <2>5
    <3> HIDE DEF g
    <3> QED
      BY <2>2, <2>3, <2>5, <3>1
  <2> QED
    BY <2>4, <2>5
<1>9. FlattenSeq(xs) = g[Len(xs)]
  <2>1. Len(xs) = 0 => xs = <<>>
    OBVIOUS
  <2>2. Len(xs) # 0 => g[Len(xs)] = flat[Len(xs)]
    BY <1>0
  <2> HIDE DEF g
  <2> QED
    BY <1>0, <1>6, <1>7, <2>1, <2>2
<1>10. FoldBy(g, <<>>, Joins(T), xs, Seq(T))
  <2> HIDE DEF g
  <2> QED
    BY <1>1, <1>7, <1>8, JoinsIs, FoldTyped
<1> QED
  BY <1>9, <1>10

\* FlattenSeq, one sequence at a time.
LEMMA FlattenIs ==
  ASSUME NEW T, NEW xs \in Seq(Seq(T))
  PROVE  /\ FlattenSeq(xs) \in Seq(T)
         /\ FlattenSeq(<<>>) = <<>>
         /\ \A x \in Seq(T) : FlattenSeq(Append(xs, x)) = FlattenSeq(xs) \o x
<1>1. PICK f : FoldBy(f, <<>>, Joins(T), xs, Seq(T)) /\ FlattenSeq(xs) = f[Len(xs)]
  BY FlattenFold
<1>2. Len(xs) \in Nat /\ <<>> \in Seq(T)
  OBVIOUS
<1>3. FlattenSeq(xs) \in Seq(T)
  BY <1>1, <1>2 DEF FoldBy
<1>4. FlattenSeq(<<>>) = <<>>
  BY DEF FlattenSeq
<1>5. ASSUME NEW x \in Seq(T) PROVE FlattenSeq(Append(xs, x)) = FlattenSeq(xs) \o x
  <2>1. Append(xs, x) \in Seq(Seq(T))
    OBVIOUS
  <2>2. PICK g : /\ FoldBy(g, <<>>, Joins(T), Append(xs, x), Seq(T))
                 /\ FlattenSeq(Append(xs, x)) = g[Len(Append(xs, x))]
    BY <2>1, FlattenFold
  <2>3. g[Len(Append(xs, x))] = Joins(T)[<<f[Len(xs)], x>>]
    <3> DEFINE V == Seq(T)
               J == Joins(T)
               ys == Append(xs, x)
    <3>1. Steps(<<>>, J, xs, V, V)
      BY <1>2, JoinsIs DEF Steps
    <3>2. /\ x \in V /\ Grown(ys, xs, x)
          /\ FoldBy(f, <<>>, J, xs, V) /\ FoldBy(g, <<>>, J, ys, V)
      BY <1>1, <2>2 DEF Grown
    <3> HIDE DEF V, J, ys
    <3>3. g[Len(ys)] = J[<<f[Len(xs)], x>>]
      BY <3>1, <3>2, FoldAppend
    <3> QED
      BY <3>3 DEF J, ys
  <2>4. Joins(T)[<<FlattenSeq(xs), x>>] = FlattenSeq(xs) \o x
    BY <1>3, JoinsIs
  <2> QED
    BY <1>1, <2>2, <2>3, <2>4
<1> QED
  BY <1>3, <1>4, <1>5

-----------------------------------------------------------------------------
(* Texts.                                                                  *)

\* A sequence of whatever it holds, and a part of it.
IsSequence(seq) == seq \in Seq(ToSet(seq))

\* A function on 1 .. n is a sequence.
LEMMA SequenceIs ==
  ASSUME NEW T, NEW n \in Nat, NEW seq, seq = [k \in 1 .. n |-> seq[k]],
         \A k \in 1 .. n : seq[k] \in T
  PROVE  seq \in Seq(T) /\ Len(seq) = n /\ DOMAIN seq = 1 .. n
OBVIOUS

\* Take is a sequence of what it is taken from, and no longer.
LEMMA TakeIs ==
  ASSUME NEW T, NEW seq \in Seq(T), NEW n \in Nat
  PROVE  Take(n, seq) \in Seq(T)
BY DEF Take

\* Flattening with the type at hand.
LEMMA FlattenTyped ==
  ASSUME NEW T, NEW xs \in Seq(Seq(T))
  PROVE  FlattenSeq(xs) \in Seq(T)
BY FlattenIs

\* Normalizing leaves a text.
LEMMA NormalizeIs ==
  ASSUME NEW text \in Text
  PROVE  Normalize(text) \in Text
<1>1. Kept(text) \in SUBSET (DOMAIN text)
  BY DEF Kept
<1> QED
  BY <1>1, PickIs DEF Normalize, Text

\* The fragments of a text.
LEMMA FragmentsTyped ==
  ASSUME NEW text \in Text
  PROVE  Fragments(text) \in Seq(Fragment)
BY FlattenTyped DEF Fragments, Text

\* Each interval is within 1 .. n, and is not empty.
LEMMA RunsAre ==
  ASSUME NEW n \in Nat, NEW linked
  PROVE  Runs(n, linked) \in Seq(SUBSET (1 .. n))
<1> DEFINE S == {i \in 1 .. n : i = n \/ i \notin linked}
           ends == InOrder(S)
           run(k) == (IF k = 1 THEN 1 ELSE ends[k - 1] + 1) .. ends[k]
<1>1. S \in SUBSET Nat /\ IsFiniteSet(S) /\ \A i \in S : i \in 1 .. n
  <2>1. S \in SUBSET (1 .. n) /\ IsFiniteSet(1 .. n)
    BY FS_Interval
  <2> HIDE DEF S
  <2>2. IsFiniteSet(S)
    BY <2>1, FS_Subset
  <2>3. \A i \in S : i \in 1 .. n
    BY <2>1
  <2> QED
    BY <2>2, <2>3
<1> HIDE DEF S
<1>2. Cardinality(S) \in Nat /\ Increasing(ends, S)
  BY <1>1, InOrderIs
<1>3. Runs(n, linked) = [k \in DOMAIN ends |-> run(k)]
  BY DEF Runs, S
<1> HIDE DEF ends
<1>4. DOMAIN ends = 1 .. Cardinality(S)
  BY <1>2 DEF Increasing
<1>5. ASSUME NEW k \in DOMAIN ends PROVE run(k) \in SUBSET (1 .. n)
  <2>1. ends[k] \in 1 .. n
    BY <1>1, <1>2 DEF Increasing
  <2>2. k # 1 => ends[k - 1] \in 1 .. n
    <3>1. k # 1 => k - 1 \in 1 .. Cardinality(S)
      BY <1>2, <1>4
    <3> QED
      BY <1>1, <1>2, <3>1 DEF Increasing
  <2> QED
    BY <2>1, <2>2
<1> HIDE DEF run
<1> QED
  BY <1>2, <1>3, <1>4, <1>5

-----------------------------------------------------------------------------
(* What the handlers make of a source.                                     *)

Part == [tag : Tags, text : Text]

\* The fields of a part.
LEMMA PartTyped ==
  ASSUME NEW parts \in Seq(Part), NEW i \in DOMAIN parts
  PROVE  parts[i].text \in Text
<1>1. parts[i] \in Part
  OBVIOUS
<1> QED
  BY <1>1 DEF Part

\* The texts of some parts are texts.
LEMMA TextsOfAre ==
  ASSUME NEW parts \in Seq(Part), NEW positions \in SUBSET (DOMAIN parts)
  PROVE  TextsOf(parts, positions) \in Seq(Text)
<1> DEFINE p == Pick(parts, positions)
<1>1. p \in Seq(Part) /\ Len(p) = Cardinality(positions)
  BY PickIs DEF PickedBy
<1>2. TextsOf(parts, positions) = [k \in 1 .. Cardinality(positions) |-> p[k].text]
  BY DEF TextsOf
<1> HIDE DEF p
<1>3. Cardinality(positions) \in Nat /\ \A k \in 1 .. Cardinality(positions) : p[k].text \in Text
  <2>1. Len(p) \in Nat /\ \A k \in 1 .. Len(p) : p[k] \in Part
    BY <1>1
  <2>2. \A part \in Part : part.text \in Text
    BY DEF Part
  <2> QED
    BY <1>1, <2>1, <2>2
<1> QED
  BY <1>2, <1>3

\* The positions of a tag are positions of parts.
LEMMA TaggedAre ==
  ASSUME NEW parts, NEW tag
  PROVE  Tagged(parts, tag) \in SUBSET (DOMAIN parts)
BY DEF Tagged

\* A text of a file is a text.
LEMMA SourceTextIs == SourceText \subseteq Text
<1>1. {Blank} \cup {Line(f) : f \in Fragment} \subseteq Seq(Fragment)
  <2>1. Blank \in Seq(Fragment) /\ \A f \in Fragment : Line(f) \in Seq(Fragment)
    BY DEF Blank, Line
  <2> QED
    BY <2>1
<1> DEFINE V == {Blank} \cup {Line(f) : f \in Fragment}
           W == Seq(Fragment)
<1> HIDE DEF V, W
<1>2. V \subseteq W
  BY <1>1 DEF V, W
<1>3. Seq(V) \subseteq Seq(W)
  BY <1>2
<1> QED
  BY <1>3 DEF SourceText, Text, V, W

\* The parts of what is found where a source points.
SourcePart == [tag : Tags, text : SourceText]

\* They are parts, with texts.
LEMMA ContentsAre ==
  ASSUME NEW content \in Contents
  PROVE  content.parts \in Seq(Part) /\ content.parts \in Seq(SourcePart)
<1>1. content.parts \in Seq(SourcePart)
  BY DEF Contents, SourcePart
<1>2. SourcePart \subseteq Part
  BY SourceTextIs DEF SourcePart, Part
<1> HIDE DEF SourcePart, Part
<1> QED
  BY <1>1, <1>2

\* A line of one fragment is a text.
LEMMA LineIs ==
  ASSUME NEW fragment \in Fragment
  PROVE  <<Line(fragment)>> \in Text
BY DEF Line, Text

\* What is decoded is a text.
LEMMA DecodedIs ==
  ASSUME NEW content \in Contents
  PROVE  Decoded(content) \in Text
<1>1. <<Line(Garbage)>> \in Text
  BY HandlersAssumption, LineIs
<1>2. FlattenSeq(TextsOf(content.parts, DOMAIN content.parts)) \in Text
  <2>1. TextsOf(content.parts, DOMAIN content.parts) \in Seq(Seq(Seq(Fragment)))
    BY ContentsAre, TextsOfAre DEF Text
  <2> QED
    BY <2>1, FlattenTyped DEF Text
<1> QED
  BY <1>1, <1>2 DEF Decoded

\* A file of one part.
LEMMA OnePart ==
  ASSUME NEW tag \in Tags, NEW text \in Text
  PROVE  <<[tag |-> tag, text |-> text]>> \in Seq(Part)
<1>1. [tag |-> tag, text |-> text] \in Part
  BY DEF Part
<1> QED
  BY <1>1

\* The texts of the parts that are sections.
LEMMA PartsAsAre ==
  ASSUME NEW content \in Contents, NEW kind, NEW tag \in Tags
  PROVE  PartsAs(content, kind, tag) \in Seq(Part)
<1> DEFINE lines == Decoded(content)
           as == [i \in DOMAIN lines |-> [tag |-> tag, text |-> <<lines[i]>>]]
<1>1. lines \in Text
  BY DecodedIs
<1>2. PartsAs(content, kind, tag) = IF content.kind = kind THEN content.parts ELSE as
  BY DEF PartsAs
<1> HIDE DEF lines
<1>3. as \in Seq(Part)
  <2>1. \A i \in DOMAIN lines : [tag |-> tag, text |-> <<lines[i]>>] \in Part
    BY <1>1 DEF Part, Text
  <2>2. Len(lines) \in Nat /\ DOMAIN lines = 1 .. Len(lines)
    BY <1>1 DEF Text
  <2> QED
    BY <2>1, <2>2
<1> QED
  BY <1>2, <1>3, ContentsAre

\* A text, or the URI for want of one.
LEMMA OrUriIs ==
  ASSUME NEW text \in Text
  PROVE  OrUri(text) \in Text
BY HandlersAssumption, LineIs DEF OrUri

\* Sections with texts and pages, told apart by their ids.
Typed(section) == section.text \in Text /\ section.page \in Nat

HasId(section, id) == section.section_id = id

IsDocument(document) ==
  /\ IsSequence(document)
  /\ \A k \in DOMAIN document : Typed(document[k])
  /\ \A i, j \in DOMAIN document : document[i].section_id = document[j].section_id => i = j

\* What a handler returns.
Output(parsed) == parsed.error \in Error \cup {""} /\ IsDocument(parsed.sections)

\* A section has the id, the text and the page it is made of.
LEMMA SectionIs ==
  ASSUME NEW id, NEW text \in Text, NEW heading, NEW page \in Nat, NEW metadata,
         NEW section, section = Section(id, text, heading, page, metadata)
  PROVE  Typed(section) /\ HasId(section, id)
BY DEF Section, Typed, HasId

\* A handler that fails returns no section.
LEMMA FailsIs ==
  ASSUME NEW error \in Error
  PROVE  Output(Fails(error))
<1>1. IsDocument(<<>>)
  BY DEF IsDocument, IsSequence
<1> QED
  BY <1>1 DEF Fails, Output

\* A handler that parses returns a document.
LEMMA ParsesIs ==
  ASSUME NEW document, IsDocument(document)
  PROVE  Output(Parses(document))
BY DEF Parses, Output

\* Sections of a sequence, each with an id that tells its place.
LEMMA DocumentIs ==
  ASSUME NEW n \in Nat, NEW document, document = [k \in 1 .. n |-> document[k]],
         \A k \in 1 .. n : Typed(document[k]),
         \A i, j \in 1 .. n : document[i].section_id = document[j].section_id => i = j
  PROVE  IsDocument(document)
BY DEF IsDocument, IsSequence, ToSet

\* Numbered sections have ids of their own.
LEMMA NumberedIs ==
  ASSUME NEW texts \in Seq(Text)
  PROVE  IsDocument(Numbered(texts))
<1> DEFINE document == Numbered(texts)
<1>1. document = [k \in 1 .. Len(texts) |-> Section(<<k - 1>>, texts[k], "", 0, {})]
  BY DEF Numbered
<1> HIDE DEF document
<1>2. document = [k \in 1 .. Len(texts) |-> document[k]]
  BY <1>1
<1>3. \A k \in 1 .. Len(texts) : Typed(document[k]) /\ HasId(document[k], <<k - 1>>)
  <2> TAKE k \in 1 .. Len(texts)
  <2>1. texts[k] \in Text /\ 0 \in Nat
    OBVIOUS
  <2>2. document[k] = Section(<<k - 1>>, texts[k], "", 0, {})
    BY <1>1
  <2> QED
    BY <2>1, <2>2, SectionIs
<1>4. \A i, j \in 1 .. Len(texts) : document[i].section_id = document[j].section_id => i = j
  BY <1>3 DEF HasId
<1>5. IsDocument(document)
  <2>1. Len(texts) \in Nat
    OBVIOUS
  <2> QED
    BY <1>2, <1>3, <1>4, <2>1, DocumentIs
<1> QED
  BY <1>5 DEF document

\* Each handler returns an error or a document: that of texts,
LEMMA ParseTextIs ==
  ASSUME NEW content \in Contents
  PROVE  Output(ParseText(content))
<1>1. <<OrUri(Normalize(Decoded(content)))>> \in Seq(Text)
  BY DecodedIs, NormalizeIs, OrUriIs
<1> QED
  BY <1>1, NumberedIs, ParsesIs DEF ParseText

\* The positions of some parts within a run of them.
LEMMA ParseMarkdownIs ==
  ASSUME NEW content \in Contents
  PROVE  Output(ParseMarkdown(content))
<1> DEFINE all == PartsAs(content, "markdown", "line")
           parts == Pick(all, Kept([i \in DOMAIN all |-> all[i].text[1]]))
           runs == Runs(Len(parts), {i \in 1 .. Len(parts) - 1 : parts[i + 1].tag # "heading"})
           lines(run) == {i \in run : parts[i].tag = "line"}
           heading(run) == {i \in run : parts[i].tag = "heading"}
           written == {k \in DOMAIN runs : lines(runs[k]) # {}}
           full == Pick(runs, written)
           title(k) == IF heading(full[k]) = {} THEN ""
                       ELSE Pick(parts, heading(full[k]))[1].text[1][1]
           section(k) ==
             Section(<<k - 1>>, Normalize(FlattenSeq(TextsOf(parts, lines(full[k])))), title(k), 0, {})
           document == [k \in DOMAIN full |-> section(k)]
<1>1. all \in Seq(Part)
  BY PartsAsAre DEF Tags
<1>2. parts \in Seq(Part)
  <2>1. Kept([i \in DOMAIN all |-> all[i].text[1]]) \in SUBSET (DOMAIN all)
    BY DEF Kept
  <2> HIDE DEF all
  <2> QED
    BY <1>1, <2>1, PickIs
<1>3. runs \in Seq(SUBSET (1 .. Len(parts)))
  <2> HIDE DEF parts
  <2> QED
    BY <1>2, RunsAre
<1>4. full \in Seq(SUBSET (1 .. Len(parts)))
  <2> HIDE DEF parts, runs, lines
  <2>1. written \in SUBSET (DOMAIN runs)
    OBVIOUS
  <2> HIDE DEF written
  <2> QED
    BY <1>3, <2>1, PickIs
<1>5. ASSUME NEW k \in DOMAIN full
      PROVE  Normalize(FlattenSeq(TextsOf(parts, lines(full[k])))) \in Text
  <2>1. lines(full[k]) \in SUBSET (DOMAIN parts)
    <3> HIDE DEF parts, full
    <3> QED
      BY <1>2, <1>4
  <2>2. TextsOf(parts, lines(full[k])) \in Seq(Seq(Seq(Fragment)))
    <3> HIDE DEF parts, full, lines
    <3> QED
      BY <1>2, <2>1, TextsOfAre DEF Text
  <2> HIDE DEF parts, full, lines
  <2> QED
    BY <2>2, FlattenTyped, NormalizeIs DEF Text
<1>6. IsDocument(document)
  <2> DEFINE text(k) == Normalize(FlattenSeq(TextsOf(parts, lines(full[k]))))
  <2>1. \A k \in DOMAIN full : document[k] = Section(<<k - 1>>, text(k), title(k), 0, {})
    BY ZenonT(60)
  <2>2. /\ document = [k \in 1 .. Len(full) |-> document[k]]
        /\ Len(full) \in Nat /\ DOMAIN full = 1 .. Len(full)
    <3> HIDE DEF full, section
    <3> QED
      BY <1>4
  <2> HIDE DEF document, full, text, title
  <2>3. \A k \in DOMAIN full : Typed(document[k]) /\ HasId(document[k], <<k - 1>>)
    <3>1. 0 \in Nat /\ \A k \in DOMAIN full : text(k) \in Text
      BY <1>5 DEF text
    <3> QED
      BY <2>1, <3>1, SectionIs
  <2>4. \A i, j \in 1 .. Len(full) : document[i].section_id = document[j].section_id => i = j
    BY <2>2, <2>3 DEF HasId
  <2> QED
    BY ZenonT(60), <2>2, <2>3, <2>4, DocumentIs
<1>7. IsDocument(Numbered(<<Normalize(Decoded(content))>>))
  <2>1. <<Normalize(Decoded(content))>> \in Seq(Text)
    BY DecodedIs, NormalizeIs
  <2> QED
    BY <2>1, NumberedIs
<1>8. ParseMarkdown(content) = IF full = <<>> THEN Parses(Numbered(<<Normalize(Decoded(content))>>))
                               ELSE Parses(document)
  BY DEF ParseMarkdown
<1> HIDE DEF full, document
<1> QED
  BY <1>6, <1>7, <1>8, ParsesIs

\* that of HTML,
LEMMA StripIs ==
  ASSUME NEW text \in Text
  PROVE  Strip(text) \in Text
BY PickIs DEF Strip, Text

\* whose data is put together,
LEMMA BesideIs ==
  ASSUME NEW texts \in Seq(Text)
  PROVE  Beside(texts) \in Text
<1> DEFINE lines == FlattenSeq(texts)
           runs == Runs(Len(lines), {Len(FlattenSeq(SubSeq(texts, 1, k))) : k \in DOMAIN texts})
<1>1. lines \in Text
  BY FlattenTyped DEF Text
<1>2. lines \in Seq(Seq(Fragment)) /\ Len(lines) \in Nat /\ DOMAIN lines = 1 .. Len(lines)
  BY <1>1 DEF Text
<1>3. Beside(texts) = [k \in DOMAIN runs |-> Fragments(Pick(lines, runs[k]))]
  BY DEF Beside
<1> HIDE DEF lines
<1>4. runs \in Seq(SUBSET (1 .. Len(lines)))
  BY <1>2, RunsAre
<1> HIDE DEF runs
<1>5. ASSUME NEW k \in DOMAIN runs PROVE Fragments(Pick(lines, runs[k])) \in Seq(Fragment)
  <2>1. runs[k] \in SUBSET (DOMAIN lines)
    BY <1>2, <1>4
  <2>2. Pick(lines, runs[k]) \in Text
    BY <1>2, <2>1, PickIs DEF Text
  <2> QED
    BY <2>2, FragmentsTyped
<1>6. Len(runs) \in Nat /\ DOMAIN runs = 1 .. Len(runs)
  BY <1>4
<1> QED
  BY <1>3, <1>5, <1>6 DEF Text

LEMMA ParseHtmlIs ==
  ASSUME NEW content \in Contents
  PROVE  Output(ParseHtml(content))
<1> DEFINE parts == IF content.kind = "html" THEN content.parts
                    ELSE <<[tag |-> "data", text |-> Decoded(content)]>>
           depth == HtmlDepth(parts)
           inTitle(i) == \E j \in 1 .. i : /\ parts[j].tag = "title"
                                           /\ \A k \in j .. i : parts[k].tag # "endtitle"
           data == {i \in Tagged(parts, "data") : depth[i] = 0 /\ ~inTitle(i)}
           texts == TextsOf(parts, data)
           shown == [k \in DOMAIN texts |-> Strip(texts[k])]
           text == Normalize(Beside(shown))
<1>1. parts \in Seq(Part)
  BY ContentsAre, DecodedIs, OnePart DEF Tags
<1>2. data \in SUBSET (DOMAIN parts)
  BY TaggedAre
<1>3. ParseHtml(content) = Parses(Numbered(<<OrUri(text)>>))
  BY DEF ParseHtml
<1> HIDE DEF parts, data
<1>4. texts \in Seq(Text)
  BY <1>1, <1>2, TextsOfAre
<1> HIDE DEF texts
<1>5. shown \in Seq(Text)
  <2>1. \A k \in DOMAIN texts : texts[k] \in Text
    BY <1>4
  <2>2. \A k \in DOMAIN texts : Strip(texts[k]) \in Text
    BY <2>1, StripIs
  <2>3. Len(texts) \in Nat /\ DOMAIN texts = 1 .. Len(texts)
    BY <1>4
  <2> QED
    BY <2>2, <2>3
<1> HIDE DEF shown
<1>6. text \in Text
  BY <1>5, BesideIs, NormalizeIs
<1> HIDE DEF text
<1>7. <<OrUri(text)>> \in Seq(Text)
  BY <1>6, OrUriIs
<1> QED
  BY <1>3, <1>7, NumberedIs, ParsesIs

\* The rows of a table, each of them a section.
LEMMA ParseRowsIs ==
  ASSUME NEW rows \in Seq(Text)
  PROVE  Output(ParseRows(rows))
<1> DEFINE windows == Runs(Len(rows), {i \in 1 .. Len(rows) : i % Window # 0})
           texts == [w \in DOMAIN windows |-> FlattenSeq(Pick(rows, windows[w]))]
           full == Pick(texts, {w \in DOMAIN texts : Normalize(texts[w]) # <<>>})
           document == [k \in DOMAIN full |->
                          Section(<<k - 1>>, full[k], "", 0, {<<"table_window", k - 1>>})]
<1>1. windows \in Seq(SUBSET (1 .. Len(rows)))
  BY RunsAre
<1> HIDE DEF windows
<1>2. texts \in Seq(Text)
  <2>1. ASSUME NEW w \in DOMAIN windows PROVE FlattenSeq(Pick(rows, windows[w])) \in Text
    <3>1. windows[w] \in SUBSET (DOMAIN rows)
      BY <1>1
    <3>2. Pick(rows, windows[w]) \in Seq(Seq(Seq(Fragment)))
      BY <3>1, PickIs DEF Text
    <3> QED
      BY <3>2, FlattenTyped DEF Text
  <2>2. Len(windows) \in Nat /\ DOMAIN windows = 1 .. Len(windows)
    BY <1>1
  <2> QED
    BY <2>1, <2>2
<1> HIDE DEF texts
<1>3. full \in Seq(Text)
  <2>1. {w \in DOMAIN texts : Normalize(texts[w]) # <<>>} \in SUBSET (DOMAIN texts)
    OBVIOUS
  <2> QED
    BY <1>2, <2>1, PickIs
<1>4. ParseRows(rows) = IF rows = <<>> THEN Fails("ParseError") ELSE Parses(document)
  BY DEF ParseRows, windows, texts
<1> HIDE DEF full
<1>5. IsDocument(document)
  <2>1. \A k \in DOMAIN full :
          document[k] = Section(<<k - 1>>, full[k], "", 0, {<<"table_window", k - 1>>})
    OBVIOUS
  <2>2. /\ document = [k \in 1 .. Len(full) |-> document[k]]
        /\ Len(full) \in Nat /\ DOMAIN full = 1 .. Len(full)
    BY <1>3
  <2> HIDE DEF document
  <2>3. \A k \in DOMAIN full : Typed(document[k]) /\ HasId(document[k], <<k - 1>>)
    <3>1. 0 \in Nat /\ \A k \in DOMAIN full : full[k] \in Text
      BY <1>3
    <3> QED
      BY <2>1, <3>1, SectionIs
  <2>4. \A i, j \in 1 .. Len(full) : document[i].section_id = document[j].section_id => i = j
    BY <2>2, <2>3 DEF HasId
  <2> QED
    BY <2>2, <2>3, <2>4, DocumentIs
<1>6. "ParseError" \in Error
  BY DEF Error
<1> HIDE DEF document
<1> QED
  BY <1>4, <1>5, <1>6, ParsesIs, FailsIs

\* that of CSV,
LEMMA ParseCsvIs ==
  ASSUME NEW content \in Contents
  PROVE  Output(ParseCsv(content))
<1> DEFINE parts == PartsAs(content, "csv", "row")
<1>1. parts \in Seq(Part)
  BY PartsAsAre DEF Tags
<1>2. ParseCsv(content) = ParseRows(Take(MaxRows, TextsOf(parts, Tagged(parts, "row"))))
  BY DEF ParseCsv
<1> HIDE DEF parts
<1>3. MaxRows \in Nat
  BY HandlersAssumption
<1>4. TextsOf(parts, Tagged(parts, "row")) \in Seq(Text)
  BY <1>1, TaggedAre, TextsOfAre
<1> QED
  BY <1>2, <1>3, <1>4, TakeIs, ParseRowsIs

\* that of XLSX,
LEMMA ParseXlsxIs ==
  ASSUME NEW content \in Contents
  PROVE  Output(ParseXlsx(content))
<1> DEFINE parts == content.parts
           sheet(i) == Cardinality({j \in 1 .. i : parts[j].tag = "sheet"})
           rows == {i \in Tagged(parts, "row") : sheet(i) <= MaxSheets}
<1>1. parts \in Seq(Part)
  BY ContentsAre
<1>2. rows \in SUBSET (DOMAIN parts)
  BY TaggedAre
<1>3. ParseXlsx(content) = ParseRows(Take(MaxRows, TextsOf(parts, rows)))
  BY DEF ParseXlsx
<1> HIDE DEF parts, rows
<1>4. MaxRows \in Nat
  BY HandlersAssumption
<1>5. TextsOf(parts, rows) \in Seq(Text)
  BY <1>1, <1>2, TextsOfAre
<1> QED
  BY <1>3, <1>4, <1>5, TakeIs, ParseRowsIs

\* An order picks no position twice, so that sections picked from others keep their own ids.
LEMMA PickedDocument ==
  ASSUME NEW n \in Nat, NEW document, document = [k \in 1 .. n |-> document[k]],
         NEW positions \in SUBSET (1 .. n), \A k \in positions : Typed(document[k]),
         \A i, j \in positions : document[i].section_id = document[j].section_id => i = j
  PROVE  IsDocument(Pick(document, positions)) /\ Len(Pick(document, positions)) <= n
<1> DEFINE T == ToSet(document)
           p == Pick(document, positions)
<1>1. document \in Seq(T) /\ Len(document) = n /\ DOMAIN document = 1 .. n
  BY DEF ToSet
<1>2. PICK o : PickedBy(p, document, positions, o)
  BY <1>1, PickIs
<1>3. p \in Seq(T) /\ Len(p) <= n
  BY <1>1, PickIs
<1> HIDE DEF p, T
<1>4. Len(p) \in Nat /\ DOMAIN p = 1 .. Len(p) /\ p = [k \in 1 .. Len(p) |-> p[k]]
  BY <1>3
<1>5. \A k \in 1 .. Len(p) : o[k] \in positions /\ p[k] = document[o[k]]
  BY <1>2, <1>4 DEF PickedBy, Increasing
<1>6. \A k, m \in 1 .. Len(p) : o[k] = o[m] => k = m
  <2> SUFFICES ASSUME NEW k \in 1 .. Len(p), NEW m \in 1 .. Len(p), o[k] = o[m], k < m
               PROVE  FALSE
    BY <1>4
  <2>1. o[k] < o[m]
    BY <1>2, <1>4 DEF PickedBy, Increasing
  <2>2. o[k] \in Nat
    <3>1. \A i \in positions : i \in Nat
      OBVIOUS
    <3> QED
      BY <1>5, <3>1
  <2> QED
    BY <2>1, <2>2
<1>7. \A k \in 1 .. Len(p) : Typed(p[k])
  BY <1>5
<1>8. \A k, m \in 1 .. Len(p) : p[k].section_id = p[m].section_id => k = m
  <2> SUFFICES ASSUME NEW k \in 1 .. Len(p), NEW m \in 1 .. Len(p),
                      p[k].section_id = p[m].section_id
               PROVE  o[k] = o[m]
    BY <1>6
  <2>1. document[o[k]].section_id = document[o[m]].section_id
    BY <1>5
  <2> QED
    BY <1>5, <2>1
<1>9. IsDocument(p)
  BY <1>4, <1>7, <1>8, DocumentIs
<1> QED
  BY <1>3, <1>9 DEF p

\* that of PDF,
LEMMA ParsePdfIs ==
  ASSUME NEW content \in Contents
  PROVE  Output(ParsePdf(content))
<1> DEFINE pages == Take(MaxPages, content.parts)
           full == {i \in DOMAIN pages : Normalize(pages[i].text) # <<>>}
           section(i) == Section(<<i - 1>>, Normalize(pages[i].text), "", i, {})
           document == [i \in DOMAIN pages |-> section(i)]
<1>1. pages \in Seq(Part)
  BY HandlersAssumption, ContentsAre, TakeIs
<1>2. full \in SUBSET (DOMAIN pages)
  OBVIOUS
<1>3. ParsePdf(content) = IF full = {} THEN Fails("NeedsDocling") ELSE Parses(Pick(document, full))
  BY DEF ParsePdf
<1> HIDE DEF pages
<1>4. \A i \in DOMAIN pages : document[i] = section(i)
  OBVIOUS
<1>5. Len(pages) \in Nat /\ DOMAIN pages = 1 .. Len(pages)
  BY <1>1
<1>6. document = [i \in 1 .. Len(pages) |-> document[i]]
  BY <1>5
<1>7. \A i \in DOMAIN pages : i \in Nat /\ Normalize(pages[i].text) \in Text
  <2> TAKE i \in DOMAIN pages
  <2>1. pages[i].text \in Text
    BY <1>1, PartTyped
  <2> QED
    BY <1>5, <2>1, NormalizeIs
<1> HIDE DEF document, full
<1>8. \A i \in DOMAIN pages : Typed(document[i]) /\ HasId(document[i], <<i - 1>>)
  BY <1>4, <1>7, SectionIs
<1>9. \A i, j \in full : document[i].section_id = document[j].section_id => i = j
  BY <1>2, <1>5, <1>8 DEF HasId
<1>10. IsDocument(Pick(document, full))
  BY <1>2, <1>5, <1>6, <1>8, <1>9, PickedDocument
<1>11. "NeedsDocling" \in Error
  BY DEF Error
<1> QED
  BY <1>3, <1>10, <1>11, ParsesIs, FailsIs

\* that of PPTX,
LEMMA ParsePptxIs ==
  ASSUME NEW content \in Contents
  PROVE  Output(ParsePptx(content))
<1> DEFINE slides == Take(MaxSlides, content.parts)
           full == {i \in DOMAIN slides : Normalize(slides[i].text) # <<>>}
           section(i) == Section(<<i - 1>>, Normalize(slides[i].text), "", 0, {<<"slide_number", i>>})
           document == [i \in DOMAIN slides |-> section(i)]
<1>1. slides \in Seq(Part)
  BY HandlersAssumption, ContentsAre, TakeIs
<1>2. full \in SUBSET (DOMAIN slides)
  OBVIOUS
<1>3. ParsePptx(content) = IF full = {} THEN Fails("ParseError") ELSE Parses(Pick(document, full))
  BY DEF ParsePptx
<1> HIDE DEF slides
<1>4. \A i \in DOMAIN slides : document[i] = section(i)
  OBVIOUS
<1>5. Len(slides) \in Nat /\ DOMAIN slides = 1 .. Len(slides)
  BY <1>1
<1>6. document = [i \in 1 .. Len(slides) |-> document[i]]
  BY <1>5
<1>7. \A i \in DOMAIN slides : 0 \in Nat /\ Normalize(slides[i].text) \in Text
  <2> TAKE i \in DOMAIN slides
  <2>1. slides[i].text \in Text
    BY <1>1, PartTyped
  <2> QED
    BY <2>1, NormalizeIs
<1> HIDE DEF document, full
<1>8. \A i \in DOMAIN slides : Typed(document[i]) /\ HasId(document[i], <<i - 1>>)
  BY <1>4, <1>7, SectionIs
<1>9. \A i, j \in full : document[i].section_id = document[j].section_id => i = j
  BY <1>2, <1>5, <1>8 DEF HasId
<1>10. IsDocument(Pick(document, full))
  BY <1>2, <1>5, <1>6, <1>8, <1>9, PickedDocument
<1>11. "ParseError" \in Error
  BY DEF Error
<1> QED
  BY <1>3, <1>10, <1>11, ParsesIs, FailsIs

\* A document of one section.
LEMMA OneSection ==
  ASSUME NEW section, Typed(section)
  PROVE  IsDocument(<<section>>)
<1>1. <<section>> = [k \in 1 .. 1 |-> <<section>>[k]]
  OBVIOUS
<1>2. \A k \in 1 .. 1 : k = 1 /\ <<section>>[k] = section
  OBVIOUS
<1> DEFINE document == <<section>>
<1> HIDE DEF document
<1>3. IsDocument(document)
  <2>1. document = [k \in 1 .. 1 |-> document[k]] /\ \A k \in 1 .. 1 : k = 1 /\ document[k] = section
    BY <1>1, <1>2 DEF document
  <2>2. \A k \in 1 .. 1 : Typed(document[k])
    BY <2>1
  <2>3. \A i, j \in 1 .. 1 : document[i].section_id = document[j].section_id => i = j
    BY <2>1
  <2> QED
    BY <2>1, <2>2, <2>3, DocumentIs
<1> QED
  BY <1>3 DEF document

\* that of ZIP,
LEMMA ParseZipIs ==
  ASSUME NEW content \in Contents
  PROVE  Output(ParseZip(content))
<1> DEFINE parts == IF content.kind = "zip" THEN content.parts
                    ELSE <<[tag |-> "file", text |-> <<Line(Entry)>>]>>
           names == Tagged(parts, "file")
           text == FlattenSeq(TextsOf(parts, names))
           listing == Section(<<"archive">>, text, "", 0, {<<"archive_listing", TRUE>>})
<1>1. text \in Text
  <2>1. TextsOf(parts, names) \in Seq(Seq(Seq(Fragment)))
    <3>1. <<Line(Entry)>> \in Text
      BY HandlersAssumption DEF Text, Line
    <3>2. parts \in Seq(Part)
      BY <3>1, ContentsAre, OnePart DEF Tags
    <3> HIDE DEF parts
    <3> QED
      BY <3>2, TaggedAre, TextsOfAre DEF Text
  <2> HIDE DEF parts, names
  <2> QED
    BY <2>1, FlattenTyped DEF Text
<1>2. \/ ParseZip(content) = Fails("SourceTooLarge")
      \/ ParseZip(content) = Fails("ParseError")
      \/ ParseZip(content) = Parses(<<listing>>)
  BY DEF ParseZip
<1> HIDE DEF text
<1>3. Typed(listing)
  <2>1. 0 \in Nat
    OBVIOUS
  <2> QED
    BY <1>1, <2>1, SectionIs
<1>4. IsDocument(<<listing>>)
  BY <1>3, OneSection
<1>5. "ParseError" \in Error /\ "SourceTooLarge" \in Error
  BY DEF Error
<1> HIDE DEF listing
<1> QED
  BY <1>2, <1>4, <1>5, ParsesIs, FailsIs

\* Texts one below the other are a text.
LEMMA BelowIs ==
  ASSUME NEW texts \in Seq(Text)
  PROVE  Below(texts) \in Text
<1> DEFINE part(k) == IF k = 1 THEN texts[k] ELSE <<Blank>> \o texts[k]
<1>1. <<Blank>> \in Text
  BY DEF Blank, Text
<1>2. \A k \in 1 .. Len(texts) : part(k) \in Text
  <2> TAKE k \in 1 .. Len(texts)
  <2>1. texts[k] \in Text
    OBVIOUS
  <2>2. <<Blank>> \o texts[k] \in Text
    BY <1>1, <2>1 DEF Text
  <2> QED
    BY <2>1, <2>2
<1>3. Below(texts) = FlattenSeq([k \in DOMAIN texts |-> part(k)])
  BY DEF Below
<1> HIDE DEF part
<1>4. [k \in DOMAIN texts |-> part(k)] \in Seq(Text)
  BY <1>2
<1> QED
  BY <1>3, <1>4, FlattenTyped DEF Text

\* that of DOCX,
LEMMA ParseDocxIs ==
  ASSUME NEW content \in Contents
  PROVE  Output(ParseDocx(content))
<1> DEFINE parts == content.parts
           breaks == Tagged(parts, "break")
           rows == Tagged(parts, "row")
           page(i) == 1 + Cardinality({j \in breaks : j < i})
           written == {i \in Tagged(parts, "paragraph") : parts[i].text # <<>>}
           S == {page(i) : i \in written}
           numbers == InOrder(S)
           id(k) == IF breaks = {} THEN <<"paragraphs">> ELSE <<"page", numbers[k]>>
           text(k) == Below(TextsOf(parts, {i \in written : page(i) = numbers[k]}))
           number(k) == IF breaks = {} THEN 0 ELSE numbers[k]
           section(k) == Section(id(k), text(k), "", number(k), {})
           tables == Section(<<"tables">>, FlattenSeq(TextsOf(parts, rows)), "", 0, {})
           pages == [k \in DOMAIN numbers |-> section(k)]
           tail == IF rows = {} THEN <<>> ELSE <<tables>>
           document == pages \o tail
<1>1. parts \in Seq(Part)
  BY ContentsAre
<1>2. /\ breaks \in SUBSET (DOMAIN parts) /\ rows \in SUBSET (DOMAIN parts)
      /\ written \in SUBSET (DOMAIN parts)
  BY TaggedAre
<1>3. ParseDocx(content) = IF \A k \in DOMAIN document : Normalize(document[k].text) = <<>>
                           THEN Fails("ParseError") ELSE Parses(document)
  BY DEF ParseDocx
<1> HIDE DEF parts
<1>4. IsFiniteSet(DOMAIN parts)
  <2>1. Len(parts) \in Nat /\ DOMAIN parts = 1 .. Len(parts)
    BY <1>1
  <2> QED
    BY <2>1, FS_Interval
<1> HIDE DEF breaks, rows, written
<1>5. \A i : page(i) \in Nat
  <2> TAKE i
  <2>1. {j \in breaks : j < i} \in SUBSET (DOMAIN parts)
    BY <1>2
  <2>2. IsFiniteSet({j \in breaks : j < i})
    BY <1>4, <2>1, FS_Subset
  <2>3. Cardinality({j \in breaks : j < i}) \in Nat
    BY <2>2, FS_CardinalityType
  <2> QED
    BY <2>3
<1>6. S \in SUBSET Nat /\ IsFiniteSet(S)
  <2> HIDE DEF page
  <2>1. IsFiniteSet(written)
    BY <1>2, <1>4, FS_Subset
  <2>2. S \in SUBSET Nat
    BY <1>5
  <2> DEFINE f == [i \in written |-> page(i)]
  <2>3. f \in Surjection(written, S)
    BY DEF Surjection
  <2> HIDE DEF f, S
  <2> QED
    BY <2>1, <2>2, <2>3, FS_Surjection
<1>7. breaks = {} => S \subseteq {1}
  <2> SUFFICES ASSUME breaks = {}, NEW i \in written PROVE page(i) = 1
    OBVIOUS
  <2>1. {j \in breaks : j < i} = {}
    OBVIOUS
  <2> QED
    BY <2>1, FS_EmptySet
<1>8. Cardinality(S) \in Nat /\ Increasing(numbers, S)
  <2> HIDE DEF S
  <2> QED
    BY <1>6, InOrderIs
<1> HIDE DEF page, numbers
<1> DEFINE n == Cardinality(S)
<1>9. /\ n \in Nat /\ DOMAIN numbers = 1 .. n
      /\ \A k \in 1 .. n : numbers[k] \in S
      /\ \A k \in 1 .. n : numbers[k] \in Nat
  <2>1. n \in Nat /\ DOMAIN numbers = 1 .. n /\ \A k \in 1 .. n : numbers[k] \in S
    BY <1>8 DEF Increasing
  <2>2. \A m \in S : m \in Nat
    BY <1>6
  <2> HIDE DEF S
  <2> QED
    BY <2>1, <2>2
<1> HIDE DEF S, n
<1>10. \A k, m \in 1 .. n : numbers[k] = numbers[m] => k = m
  <2> SUFFICES ASSUME NEW k \in 1 .. n, NEW m \in 1 .. n, numbers[k] = numbers[m], k < m
               PROVE  FALSE
    BY <1>9
  <2>1. numbers[k] < numbers[m]
    BY <1>8, <1>9 DEF Increasing
  <2> QED
    BY <1>9, <2>1
<1>11. \A k \in 1 .. n : text(k) \in Text
  <2> TAKE k \in 1 .. n
  <2>1. {i \in written : page(i) = numbers[k]} \in SUBSET (DOMAIN parts)
    BY <1>2
  <2> QED
    BY <1>1, <2>1, TextsOfAre, BelowIs
<1>12. \A k \in 1 .. n : number(k) \in Nat
  BY <1>9
<1> HIDE DEF text, number
<1>13. FlattenSeq(TextsOf(parts, rows)) \in Text
  <2>1. TextsOf(parts, rows) \in Seq(Seq(Seq(Fragment)))
    BY <1>1, <1>2, TextsOfAre DEF Text
  <2> QED
    BY <2>1, FlattenTyped DEF Text
<1>14. \A k \in 1 .. n : Typed(section(k)) /\ HasId(section(k), id(k))
  <2> HIDE DEF id
  <2> QED
    BY <1>11, <1>12, SectionIs
<1>15. Typed(tables) /\ HasId(tables, <<"tables">>)
  <2>1. 0 \in Nat
    OBVIOUS
  <2> QED
    BY <1>13, <2>1, SectionIs
<1>16. \A k, m \in 1 .. n : id(k) = id(m) => k = m
  <2>1. CASE breaks = {}
    <3>1. \A k \in 1 .. n : numbers[k] = 1
      BY <1>7, <1>9, <2>1
    <3> QED
      BY <1>10, <3>1
  <2>2. CASE breaks # {}
    BY <1>10, <2>2
  <2> QED
    BY <2>1, <2>2
<1>17. \A k \in 1 .. n : id(k) # <<"tables">>
  OBVIOUS
<1> HIDE DEF section, tables, id
<1>18. IsDocument(document)
  <2> DEFINE N == IF rows = {} THEN n ELSE n + 1
  <2>1. /\ N \in Nat
        /\ document = [k \in 1 .. N |-> document[k]]
        /\ \A k \in 1 .. n : document[k] = section(k)
        /\ \A k \in 1 .. N : k \in 1 .. n \/ (k = n + 1 /\ document[k] = tables)
    <3>1. CASE rows = {}
      <4>1. pages \o <<>> = pages
        <5>1. pages \in Seq(ToSet(pages))
          BY <1>9 DEF ToSet
        <5> QED
          BY <5>1, ConcatEmptySeq
      <4>2. pages = [k \in 1 .. n |-> section(k)]
        BY <1>9
      <4>3. document = pages
        BY <3>1, <4>1
      <4> HIDE DEF document, pages
      <4> QED
        BY <1>9, <3>1, <4>2, <4>3
    <3>2. CASE rows # {}
      <4>1. pages = [k \in 1 .. n |-> section(k)]
        BY <1>9
      <4>2. document = pages \o <<tables>>
        BY <3>2
      <4>3. Len(pages) = n
        BY <1>9, <4>1
      <4>4. document = [k \in 1 .. n + 1 |-> IF k <= n THEN section(k) ELSE tables]
        <5> HIDE DEF pages
        <5> QED
          BY <1>9, <4>1, <4>2, <4>3
      <4> HIDE DEF document, pages
      <4> QED
        BY <1>9, <3>2, <4>4
    <3> QED
      BY <3>1, <3>2
  <2> HIDE DEF document, N
  <2>2. \A k \in 1 .. N : Typed(document[k])
    BY <1>14, <1>15, <2>1
  <2>3. \A k, m \in 1 .. N : document[k].section_id = document[m].section_id => k = m
    <3> TAKE k, m \in 1 .. N
    <3>1. CASE k \in 1 .. n /\ m \in 1 .. n
      BY <1>14, <1>16, <2>1, <3>1 DEF HasId
    <3>2. CASE k \in 1 .. n /\ m \notin 1 .. n
      BY <1>14, <1>15, <1>17, <2>1, <3>2 DEF HasId
    <3>3. CASE k \notin 1 .. n /\ m \in 1 .. n
      BY <1>14, <1>15, <1>17, <2>1, <3>3 DEF HasId
    <3>4. CASE k \notin 1 .. n /\ m \notin 1 .. n
      BY <2>1, <3>4
    <3> QED
      BY <3>1, <3>2, <3>3, <3>4
  <2> QED
    BY <2>1, <2>2, <2>3, DocumentIs
<1>19. "ParseError" \in Error
  BY DEF Error
<1> HIDE DEF document
<1> QED
  BY <1>3, <1>18, <1>19, ParsesIs, FailsIs

\* and MarkItDown.
LEMMA ParseMarkItDownIs ==
  ASSUME NEW content \in Contents, NEW converted \in Conversion
  PROVE  Output(ParseMarkItDown(content, converted))
<1>1. converted.outcome \in {"unavailable", "failed", "text"} /\ converted.text \in Text
  BY ProcessAssumption
<1>2. \/ ParseMarkItDown(content, converted) = ParseText(content)
      \/ ParseMarkItDown(content, converted) = Fails("ParseError")
      \/ ParseMarkItDown(content, converted) = Parses(Numbered(<<OrUri(Normalize(converted.text))>>))
  BY <1>1 DEF ParseMarkItDown
<1>3. IsDocument(Numbered(<<OrUri(Normalize(converted.text))>>))
  <2>1. <<OrUri(Normalize(converted.text))>> \in Seq(Text)
    BY <1>1, NormalizeIs, OrUriIs
  <2> QED
    BY <2>1, NumberedIs
<1>4. "ParseError" \in Error
  BY DEF Error
<1> QED
  BY <1>2, <1>3, <1>4, ParseTextIs, FailsIs, ParsesIs

\* The names of the handlers.
Handled ==
  {"text", "markdown", "html", "csv", "pdf", "docx", "pptx", "xlsx", "zip", "markitdown", "docling"}

\* Whichever handler is chosen.
LEMMA ParseIs ==
  ASSUME NEW name \in Handled, NEW content \in Contents, NEW converted \in Conversion
  PROVE  Output(Parse(name, content, converted))
<1>1. \/ Parse(name, content, converted) = Fails("ParseError")
      \/ Parse(name, content, converted) = ParseText(content)
      \/ Parse(name, content, converted) = ParseMarkdown(content)
      \/ Parse(name, content, converted) = ParseHtml(content)
      \/ Parse(name, content, converted) = ParseCsv(content)
      \/ Parse(name, content, converted) = ParsePdf(content)
      \/ Parse(name, content, converted) = ParseDocx(content)
      \/ Parse(name, content, converted) = ParsePptx(content)
      \/ Parse(name, content, converted) = ParseXlsx(content)
      \/ Parse(name, content, converted) = ParseZip(content)
      \/ Parse(name, content, converted) = ParseMarkItDown(content, converted)
      \/ Parse(name, content, converted) = Fails("NeedsDocling")
  BY DEF Parse, Handled
<1>2. "ParseError" \in Error /\ "NeedsDocling" \in Error
  BY DEF Error
<1> QED
  BY <1>1, <1>2, FailsIs, ParseTextIs, ParseMarkdownIs, ParseHtmlIs, ParseCsvIs, ParsePdfIs,
     ParseDocxIs, ParsePptxIs, ParseXlsxIs, ParseZipIs, ParseMarkItDownIs

-----------------------------------------------------------------------------
(* Cleaning.                                                               *)

\* Paragraphs are sequences of fragments.
LEMMA ParagraphsAre ==
  ASSUME NEW text \in Text
  PROVE  Paragraphs(text) \in Seq(Seq(Fragment))
<1> DEFINE alike == {i \in 1 .. Len(text) - 1 : text[i] = Blank <=> text[i + 1] = Blank}
           runs == Runs(Len(text), alike)
           written == {k \in DOMAIN runs : \A i \in runs[k] : text[i] # Blank}
           paragraphs == Pick(runs, written)
<1>1. text \in Seq(Seq(Fragment)) /\ Len(text) \in Nat /\ DOMAIN text = 1 .. Len(text)
  BY DEF Text
<1>2. runs \in Seq(SUBSET (1 .. Len(text)))
  BY <1>1, RunsAre
<1>3. Paragraphs(text) = [k \in DOMAIN paragraphs |-> Fragments(Pick(text, paragraphs[k]))]
  BY DEF Paragraphs
<1>4. written \in SUBSET (DOMAIN runs)
  OBVIOUS
<1> HIDE DEF runs, written
<1>5. paragraphs \in Seq(SUBSET (1 .. Len(text)))
  BY <1>2, <1>4, PickIs
<1> HIDE DEF paragraphs
<1>6. ASSUME NEW k \in DOMAIN paragraphs PROVE Fragments(Pick(text, paragraphs[k])) \in Seq(Fragment)
  <2>1. paragraphs[k] \in SUBSET (DOMAIN text)
    BY <1>1, <1>5
  <2>2. Pick(text, paragraphs[k]) \in Text
    BY <1>1, <2>1, PickIs DEF Text
  <2> QED
    BY <2>2, FragmentsTyped
<1>7. Len(paragraphs) \in Nat /\ DOMAIN paragraphs = 1 .. Len(paragraphs)
  BY <1>5
<1> QED
  BY <1>3, <1>6, <1>7

\* Repairing leaves a text.
LEMMA RepairIs ==
  ASSUME NEW text \in Text
  PROVE  Repair(text) \in Text
<1> DEFINE wraps == {i \in 1 .. Len(text) - 1 : /\ Blank \notin {text[i], text[i + 1]}
                                                /\ ~Shape[Last(text[i])].closes}
           runs == Runs(Len(text), wraps)
<1>1. text \in Seq(Seq(Fragment)) /\ Len(text) \in Nat /\ DOMAIN text = 1 .. Len(text)
  BY DEF Text
<1>2. runs \in Seq(SUBSET (1 .. Len(text)))
  BY <1>1, RunsAre
<1>3. Repair(text) = [k \in DOMAIN runs |-> Fragments(Pick(text, runs[k]))]
  BY DEF Repair
<1> HIDE DEF runs
<1>6. ASSUME NEW k \in DOMAIN runs PROVE Fragments(Pick(text, runs[k])) \in Seq(Fragment)
  <2>1. runs[k] \in SUBSET (DOMAIN text)
    BY <1>1, <1>2
  <2>2. Pick(text, runs[k]) \in Text
    BY <1>1, <2>1, PickIs DEF Text
  <2> QED
    BY <2>2, FragmentsTyped
<1>7. Len(runs) \in Nat /\ DOMAIN runs = 1 .. Len(runs)
  BY <1>2
<1> QED
  BY <1>3, <1>6, <1>7 DEF Text

\* Cleaning leaves a section its id and its page.
LEMMA CleanedIs ==
  ASSUME NEW section, Typed(section), NEW repeated, NEW switches,
         NEW cleanSection, cleanSection = Cleaned(section, repeated, switches)
  PROVE  Typed(cleanSection) /\ HasId(cleanSection, section.section_id)
<1> DEFINE joined == Normalize(IF "repair" \in switches THEN Repair(section.text) ELSE section.text)
           others == {i \in DOMAIN joined : "repeated" \in switches => joined[i] \notin repeated}
           removed == Len(joined) - Cardinality(others)
           metadata == section.metadata
             \cup (IF removed = 0 THEN {} ELSE {<<"removed_repeated_lines", removed>>})
<1>1. section.text \in Text /\ section.page \in Nat
  BY DEF Typed
<1>2. joined \in Text
  BY <1>1, RepairIs, NormalizeIs
<1>3. cleanSection = Section(section.section_id, Normalize(Pick(joined, others)), section.heading,
                             section.page, metadata)
  BY DEF Cleaned
<1>4. others \in SUBSET (DOMAIN joined)
  OBVIOUS
<1> HIDE DEF joined, others
<1>5. Normalize(Pick(joined, others)) \in Text
  <2>1. Pick(joined, others) \in Text
    BY <1>2, <1>4, PickIs DEF Text
  <2> QED
    BY <2>1, NormalizeIs
<1> HIDE DEF metadata
<1> QED
  BY <1>1, <1>3, <1>5, SectionIs

\* Cleaning leaves a document, and not a longer one.
LEMMA CleanIs ==
  ASSUME NEW document, IsDocument(document), NEW switches
  PROVE  /\ IsDocument(Clean(document, switches))
         /\ Len(Clean(document, switches)) <= Len(document)
<1> DEFINE repeated == Repeated(document)
           all == [i \in DOMAIN document |-> Cleaned(document[i], repeated, switches)]
           kept == {i \in DOMAIN all : DropReason(all[i].text, switches) = ""}
<1>1. Clean(document, switches) = IF "enabled" \in switches THEN Pick(all, kept) ELSE document
  BY DEF Clean
<1>2. Len(document) \in Nat /\ DOMAIN document = 1 .. Len(document)
  BY DEF IsDocument, IsSequence
<1> HIDE DEF repeated
<1>3. \A i \in 1 .. Len(document) : all[i] = Cleaned(document[i], repeated, switches)
  BY <1>2
<1>4. all = [k \in 1 .. Len(document) |-> all[k]]
  BY <1>2
<1>5. kept \in SUBSET (1 .. Len(document))
  BY <1>2
<1> HIDE DEF all, kept
<1>6. \A i \in 1 .. Len(document) : Typed(all[i]) /\ HasId(all[i], document[i].section_id)
  BY <1>2, <1>3, CleanedIs DEF IsDocument
<1>7. \A i, j \in kept : all[i].section_id = all[j].section_id => i = j
  BY <1>2, <1>5, <1>6 DEF HasId, IsDocument
<1>8. IsDocument(Pick(all, kept)) /\ Len(Pick(all, kept)) <= Len(document)
  BY <1>2, <1>4, <1>5, <1>6, <1>7, PickedDocument
<1> QED
  BY <1>1, <1>2, <1>8

-----------------------------------------------------------------------------
(* Slices of a paragraph.                                                  *)

\* Adding up sizes.
Sizes == [p \in Nat \X Fragment |-> p[1] + Shape[p[2]].size]

\* Adding up the characters of fragments.
LEMMA SizesTyped == Sizes \in [Nat \X Fragment -> Nat]
<1>1. \A f \in Fragment : Shape[f].size \in Nat
  BY TextsAssumption
<1> QED
  BY <1>1 DEF Sizes

\* The length of a paragraph.
LEMMA LengthIs ==
  ASSUME NEW fragments \in Seq(Fragment)
  PROVE  Length(fragments) \in Nat
<1> DEFINE step(sum, n) == IF n = 0 THEN 0 ELSE sum[n - 1] + Shape[fragments[n]].size
           sum == CHOOSE f : f = [n \in 0 .. Len(fragments) |-> step(f, n)]
<1>1. Length(fragments) = IF fragments = <<>> THEN 0 ELSE sum[Len(fragments)] + Len(fragments) - 1
  BY Zenon DEF Length, Total
<1>2. Len(fragments) \in Nat /\ \A n \in 1 .. Len(fragments) : fragments[n] \in Fragment
  OBVIOUS
<1>3. PICK f : FoldBy(f, 0, Sizes, fragments, Nat)
  BY SizesTyped, FoldExists
<1>4. \A n \in 1 .. Len(fragments) : \A s \in Nat :
        Sizes[<<s, fragments[n]>>] = s + Shape[fragments[n]].size
  BY <1>2 DEF Sizes
<1>5. f = [n \in 0 .. Len(fragments) |-> step(f, n)]
  <2>1. \A n \in 0 .. Len(fragments) : f[n] = step(f, n)
    <3> TAKE n \in 0 .. Len(fragments)
    <3>1. n # 0 => n \in 1 .. Len(fragments) /\ n - 1 \in 0 .. Len(fragments)
      BY <1>2
    <3>2. n # 0 => f[n - 1] \in Nat /\ f[n] = Sizes[<<f[n - 1], fragments[n]>>]
      BY <1>3, <3>1 DEF FoldBy
    <3> QED
      BY <1>3, <1>4, <3>1, <3>2 DEF FoldBy
  <2>2. f = [n \in 0 .. Len(fragments) |-> f[n]]
    BY <1>3 DEF FoldBy
  <2> HIDE DEF step
  <2> QED
    BY <2>1, <2>2
<1>6. sum = [n \in 0 .. Len(fragments) |-> step(sum, n)]
  <2> HIDE DEF step
  <2> QED
    BY <1>5
<1> HIDE DEF sum
<1>7. /\ sum = [n \in 0 .. Len(fragments) |-> sum[n]]
      /\ sum[0] = 0
      /\ \A n \in 1 .. Len(fragments) : sum[n] = sum[n - 1] + Shape[fragments[n]].size
  <2>1. \A n \in 0 .. Len(fragments) : sum[n] = step(sum, n)
    <3> HIDE DEF step
    <3> QED
      BY <1>6
  <2>2. sum = [n \in 0 .. Len(fragments) |-> sum[n]]
    <3> HIDE DEF step
    <3> QED
      BY <1>6
  <2> QED
    BY <1>2, <2>1, <2>2
<1>8. FoldBy(sum, 0, Sizes, fragments, Nat)
  <2>1. \A n \in 1 .. Len(fragments) : sum[n - 1] \in Nat => sum[n] = Sizes[<<sum[n - 1], fragments[n]>>]
    BY <1>4, <1>7
  <2> QED
    BY <1>7, <2>1, SizesTyped, FoldTyped
<1>9. sum[Len(fragments)] \in Nat
  BY <1>2, <1>8 DEF FoldBy
<1>10. fragments # <<>> => Len(fragments) > 0
  OBVIOUS
<1> QED
  BY <1>1, <1>2, <1>9, <1>10

Interval == [from : Int, to : Int]

\* Slices that are not empty or too long, one after the other, of all characters of a
\* paragraph but blanks.
SlicesOf(slices, length, blanks) ==
  /\ slices \in Seq(Interval)
  /\ \A k \in DOMAIN slices : /\ slices[k].from < slices[k].to
                              /\ slices[k].to - slices[k].from <= MaxChars
  /\ \A k, m \in DOMAIN slices : k < m => slices[k].to <= slices[m].from
  /\ \A c \in (0 .. length - 1) \ blanks :
       \E k \in DOMAIN slices : slices[k].from <= c /\ c < slices[k].to

\* Where a slice of M characters begins and ends.
LEMMA CutIs ==
  ASSUME NEW length \in Nat, NEW M \in Nat \ {0}, NEW N, N = (length + M - 1) \div M
  PROVE  /\ N \in Nat
         /\ \A c \in 0 .. length - 1 : \E k \in 1 .. N : (k - 1) * M <= c /\ c < k * M
<1>1. N \in Nat
  OBVIOUS
<1>2. length + M - 1 < (N + 1) * M
  OBVIOUS
<1>3. ASSUME NEW c \in 0 .. length - 1 PROVE \E k \in 1 .. N : (k - 1) * M <= c /\ c < k * M
  <2> DEFINE q == c \div M
  <2>1. q \in Nat /\ q * M <= c /\ c < (q + 1) * M
    OBVIOUS
  <2> HIDE DEF q
  <2>2. q < N
    <3> SUFFICES ASSUME N <= q PROVE FALSE
      BY <1>1, <2>1
    <3>1. N * M <= q * M
      BY <1>1, <2>1
    <3>2. (N + 1) * M = N * M + M
      BY <1>1
    <3>3. N * M \in Int /\ q * M \in Int
      BY <1>1, <2>1
    <3> QED
      BY <1>2, <2>1, <3>1, <3>2, <3>3
  <2>3. q + 1 \in 1 .. N /\ (q + 1) - 1 = q
    BY <1>1, <2>1, <2>2
  <2> QED
    BY <2>1, <2>3
<1> QED
  BY <1>1, <1>3

\* The slices of a paragraph: in order, of MaxChars at most, and with every character that is
\* no separator.
LEMMA SlicesAre ==
  ASSUME NEW paragraph \in Seq(Fragment)
  PROVE  SlicesOf(Slices(paragraph), Length(paragraph), Separators(paragraph))
<1> DEFINE length == Length(paragraph)
           blanks == Separators(paragraph)
           first(k) == (k - 1) * MaxChars
           last(k) == IF k * MaxChars < length THEN k * MaxChars ELSE length
           slice(k) == [from |-> IF first(k) \in blanks THEN first(k) + 1 ELSE first(k),
                        to |-> IF last(k) - 1 \in blanks THEN last(k) - 1 ELSE last(k)]
           N == (length + MaxChars - 1) \div MaxChars
           slices == [k \in 1 .. N |-> slice(k)]
           full == {k \in DOMAIN slices : slices[k].from < slices[k].to}
           p == Pick(slices, full)
<1>1. length \in Nat /\ MaxChars \in Nat \ {0}
  BY LengthIs, ChunkingAssumption
<1>2. Slices(paragraph) = p
  BY DEF Slices
<1> HIDE DEF length, blanks
<1>3. /\ N \in Nat
      /\ \A c \in 0 .. length - 1 : \E k \in 1 .. N : (k - 1) * MaxChars <= c /\ c < k * MaxChars
  BY <1>1, CutIs
<1> HIDE DEF N
<1>4. \A k \in 1 .. N : first(k) \in Int /\ last(k) \in Int
  BY <1>1, <1>3
<1>5. \A k \in 1 .. N : last(k) <= length /\ last(k) - first(k) <= MaxChars
  <2> TAKE k \in 1 .. N
  <2>1. k * MaxChars \in Int /\ (k - 1) * MaxChars = k * MaxChars - MaxChars
    BY <1>1, <1>3
  <2> QED
    BY <1>1, <2>1
<1>6. \A k, m \in 1 .. N : k < m => last(k) <= first(m)
  <2> SUFFICES ASSUME NEW k \in 1 .. N, NEW m \in 1 .. N, k < m PROVE last(k) <= first(m)
    OBVIOUS
  <2>1. k \in Int /\ m - 1 \in Int /\ k <= m - 1
    BY <1>3
  <2>2. k * MaxChars <= (m - 1) * MaxChars
    BY <1>1, <2>1
  <2>3. k * MaxChars \in Int /\ (m - 1) * MaxChars \in Int
    BY <1>1, <1>3
  <2> QED
    BY <1>1, <2>2, <2>3
<1>7. \A c \in 0 .. length - 1 : \E k \in 1 .. N : first(k) <= c /\ c < last(k)
  <2> TAKE c \in 0 .. length - 1
  <2>1. PICK k \in 1 .. N : (k - 1) * MaxChars <= c /\ c < k * MaxChars
    BY <1>3
  <2>2. k * MaxChars \in Int
    BY <1>1, <1>3
  <2>3. first(k) <= c /\ c < last(k)
    BY <1>1, <2>1, <2>2
  <2> QED
    BY <2>3
<1> HIDE DEF first, last
<1>8. \A k \in 1 .. N : /\ slices[k].from \in {first(k), first(k) + 1}
                        /\ slices[k].from = first(k) + 1 => first(k) \in blanks
                        /\ slices[k].to \in {last(k), last(k) - 1}
                        /\ slices[k].to = last(k) - 1 => last(k) - 1 \in blanks
  BY <1>4
<1>9. slices \in Seq(Interval) /\ DOMAIN slices = 1 .. N
  <2>1. \A k \in 1 .. N : slice(k) \in Interval
    BY <1>4 DEF Interval
  <2> HIDE DEF slice
  <2> QED
    BY <1>3, <2>1
<1>10. full \in SUBSET (DOMAIN slices)
  OBVIOUS
<1>11. \A k \in full : k \in 1 .. N /\ slices[k].from < slices[k].to
  BY <1>9
<1>12. \A k \in 1 .. N : slices[k].from < slices[k].to => k \in full
  BY <1>9
<1> HIDE DEF slices, full
<1>13. p \in Seq(Interval)
  BY <1>9, <1>10, PickIs
<1>14. PICK o : PickedBy(p, slices, full, o)
  BY <1>9, <1>10, PickIs
<1> HIDE DEF p
<1>15. /\ \A k \in DOMAIN p : o[k] \in full /\ p[k] = slices[o[k]]
       /\ \A k, m \in DOMAIN p : k < m => o[k] < o[m]
       /\ \A i \in full : \E k \in DOMAIN p : o[k] = i
  BY <1>14 DEF PickedBy, Increasing
<1>16. \A k \in DOMAIN p : p[k].from < p[k].to /\ p[k].to - p[k].from <= MaxChars
  <2> TAKE k \in DOMAIN p
  <2>1. o[k] \in 1 .. N /\ slices[o[k]].from < slices[o[k]].to
    BY <1>11, <1>15
  <2>2. last(o[k]) - first(o[k]) <= MaxChars /\ last(o[k]) \in Int /\ first(o[k]) \in Int
    BY <1>4, <1>5, <2>1
  <2>3. p[k].to <= last(o[k]) /\ first(o[k]) <= p[k].from
    BY <1>4, <1>8, <1>15, <2>1
  <2>4. p[k].to \in Int /\ p[k].from \in Int
    BY <1>4, <1>8, <1>15, <2>1
  <2>5. p[k].from < p[k].to
    BY <1>15, <2>1
  <2> QED
    BY <1>1, <2>2, <2>3, <2>4, <2>5
<1>17. \A k, m \in DOMAIN p : k < m => p[k].to <= p[m].from
  <2> SUFFICES ASSUME NEW k \in DOMAIN p, NEW m \in DOMAIN p, k < m PROVE p[k].to <= p[m].from
    OBVIOUS
  <2>1. o[k] \in 1 .. N /\ o[m] \in 1 .. N /\ o[k] < o[m]
    BY <1>11, <1>15
  <2>2. last(o[k]) <= first(o[m])
    BY <1>6, <2>1
  <2>3. p[k].to <= last(o[k]) /\ first(o[m]) <= p[m].from
    BY <1>4, <1>8, <1>15, <2>1
  <2>4. p[k].to \in Int /\ p[m].from \in Int
    BY SMTT(40), <1>4, <1>8, <1>15, <2>1
  <2> QED
    BY <1>4, <2>1, <2>2, <2>3, <2>4
<1>18. ASSUME NEW c \in (0 .. length - 1) \ blanks
       PROVE  \E k \in DOMAIN p : p[k].from <= c /\ c < p[k].to
  <2>1. PICK i \in 1 .. N : first(i) <= c /\ c < last(i)
    BY <1>7
  <2>2. slices[i].from <= c /\ c < slices[i].to /\ slices[i].from \in Int /\ slices[i].to \in Int
    BY <1>1, <1>4, <1>8, <2>1
  <2>3. i \in full
    BY <1>1, <1>12, <2>2
  <2> QED
    BY <1>15, <2>2, <2>3
<1>19. SlicesOf(p, length, blanks)
  BY <1>13, <1>16, <1>17, <1>18 DEF SlicesOf
<1> QED
  BY <1>2, <1>19 DEF length, blanks

-----------------------------------------------------------------------------
(* Induction over sequences, for a set of them.                            *)

\* Induction over sequences, for a set of them.
LEMMA SeqInductionOnSet ==
  ASSUME NEW S, NEW T, <<>> \in T, \A s \in Seq(S) : s \in T => \A e \in S : Append(s, e) \in T
  PROVE  Seq(S) \subseteq T
<1> DEFINE L == {n \in Nat : \A s \in Seq(S) : Len(s) = n => s \in T}
<1>1. 0 \in L
  <2>1. \A s \in Seq(S) : Len(s) = 0 => s = <<>>
    OBVIOUS
  <2> QED
    BY <2>1
<1>2. ASSUME NEW n \in Nat, n \in L PROVE n + 1 \in L
  <2> SUFFICES ASSUME NEW s \in Seq(S), Len(s) = n + 1 PROVE s \in T
    OBVIOUS
  <2>1. s # <<>>
    OBVIOUS
  <2>2. PICK r \in Seq(S), e \in S : s = Append(r, e)
    BY <2>1, SequenceEmptyOrAppend
  <2>3. Len(r) = n
    BY <2>2
  <2> QED
    BY <1>2, <2>2, <2>3
<1>3. Nat \subseteq L
  <2> HIDE DEF L
  <2> QED
    BY <1>1, <1>2, NatInductionOnSet
<1> QED
  BY <1>3

-----------------------------------------------------------------------------
(* Order in a flattened sequence.                                          *)

\* Every element comes before all after it, in its own sequence or another.
SortedBy(xs, R) ==
  /\ \A i \in DOMAIN xs : \A j, k \in DOMAIN xs[i] : j < k => <<xs[i][j], xs[i][k]>> \in R
  /\ \A i, h \in DOMAIN xs : i < h =>
       \A j \in DOMAIN xs[i], k \in DOMAIN xs[h] : <<xs[i][j], xs[h][k]>> \in R

SameElements(flat, xs) ==
  /\ \A k \in DOMAIN flat : \E i \in DOMAIN xs : \E j \in DOMAIN xs[i] : flat[k] = xs[i][j]
  /\ \A i \in DOMAIN xs : \A j \in DOMAIN xs[i] : \E k \in DOMAIN flat : flat[k] = xs[i][j]

InOrderBy(flat, R) == \A k, m \in DOMAIN flat : k < m => <<flat[k], flat[m]>> \in R

\* FlattenSeq holds the elements of the sequences and no other.
LEMMA FlattenElements ==
  ASSUME NEW T, NEW xs \in Seq(Seq(T))
  PROVE  SameElements(FlattenSeq(xs), xs)
<1> DEFINE V == Seq(T)
           K == {ys \in Seq(V) : SameElements(FlattenSeq(ys), ys)}
<1>1. <<>> \in K
  <2>1. FlattenSeq(<<>>) = <<>> /\ <<>> \in Seq(V)
    BY FlattenIs
  <2>2. SameElements(<<>>, <<>>)
    BY DEF SameElements
  <2> QED
    BY <2>1, <2>2
<1>2. ASSUME NEW ys \in Seq(V), ys \in K, NEW y \in V PROVE Append(ys, y) \in K
  <2> DEFINE zs == Append(ys, y)
             flat == FlattenSeq(ys)
             more == FlattenSeq(zs)
  <2>1. more = flat \o y /\ flat \in Seq(T)
    BY FlattenIs
  <2>2. zs \in Seq(V) /\ SameElements(flat, ys)
    BY <1>2
  <2>3. /\ Len(ys) \in Nat /\ DOMAIN ys = 1 .. Len(ys)
        /\ DOMAIN zs = 1 .. Len(ys) + 1 /\ zs[Len(ys) + 1] = y
        /\ \A i \in 1 .. Len(ys) : zs[i] = ys[i]
    OBVIOUS
  <2> HIDE DEF flat, more, zs
  <2>4. /\ Len(flat) \in Nat /\ Len(y) \in Nat
        /\ DOMAIN flat = 1 .. Len(flat) /\ DOMAIN y = 1 .. Len(y)
        /\ DOMAIN more = 1 .. Len(flat) + Len(y)
        /\ \A k \in 1 .. Len(flat) : more[k] = flat[k]
        /\ \A k \in 1 .. Len(y) : more[Len(flat) + k] = y[k]
    BY <2>1
  <2>5. ASSUME NEW k \in DOMAIN more
        PROVE  \E i \in DOMAIN zs : \E j \in DOMAIN zs[i] : more[k] = zs[i][j]
    <3>1. CASE k \in 1 .. Len(flat)
      <4>1. PICK i \in DOMAIN ys : \E j \in DOMAIN ys[i] : flat[k] = ys[i][j]
        BY <2>2, <2>4, <3>1 DEF SameElements
      <4>2. i \in DOMAIN zs /\ zs[i] = ys[i]
        BY <2>3, <4>1
      <4> QED
        BY <2>4, <3>1, <4>1, <4>2
    <3>2. CASE k \notin 1 .. Len(flat)
      <4>1. k - Len(flat) \in 1 .. Len(y) /\ Len(flat) + (k - Len(flat)) = k
        BY <2>4, <3>2
      <4>2. more[k] = y[k - Len(flat)]
        BY <2>4, <4>1
      <4>3. Len(ys) + 1 \in DOMAIN zs
        BY <2>3
      <4> QED
        BY <2>3, <2>4, <4>1, <4>2, <4>3
    <3> QED
      BY <3>1, <3>2
  <2>6. ASSUME NEW i \in DOMAIN zs, NEW j \in DOMAIN zs[i]
        PROVE  \E k \in DOMAIN more : more[k] = zs[i][j]
    <3>1. CASE i \in 1 .. Len(ys)
      <4>1. zs[i] = ys[i]
        BY <2>3, <3>1
      <4>2. PICK k \in DOMAIN flat : flat[k] = ys[i][j]
        BY <2>2, <2>3, <3>1, <4>1 DEF SameElements
      <4>3. k \in DOMAIN more /\ more[k] = flat[k]
        BY <2>4, <4>2
      <4> QED
        BY <4>1, <4>2, <4>3
    <3>2. CASE i \notin 1 .. Len(ys)
      <4>1. i = Len(ys) + 1 /\ zs[i] = y
        BY SMTT(40), <2>3, <3>2
      <4>2. Len(flat) + j \in DOMAIN more /\ more[Len(flat) + j] = y[j]
        BY <2>4, <4>1
      <4> QED
        BY <4>1, <4>2
    <3> QED
      BY <3>1, <3>2
  <2>7. SameElements(more, zs)
    BY <2>5, <2>6 DEF SameElements
  <2> QED
    BY <2>2, <2>7 DEF more, zs
<1> HIDE DEF V, K
<1>3. Seq(V) \subseteq K
  BY <1>1, <1>2, SeqInductionOnSet
<1>4. xs \in K
  BY <1>3 DEF V
<1> QED
  BY <1>4 DEF K

\* FlattenSeq is in order if each sequence is, and each is before the next ones.
LEMMA FlattenInOrder ==
  ASSUME NEW T, NEW R, NEW xs \in Seq(Seq(T)), SortedBy(xs, R)
  PROVE  InOrderBy(FlattenSeq(xs), R)
<1> DEFINE V == Seq(T)
           K == {ys \in Seq(V) : SortedBy(ys, R) => InOrderBy(FlattenSeq(ys), R)}
<1>1. <<>> \in K
  <2>1. FlattenSeq(<<>>) = <<>> /\ <<>> \in Seq(V)
    BY FlattenIs
  <2>2. InOrderBy(<<>>, R)
    BY DEF InOrderBy
  <2> QED
    BY <2>1, <2>2
<1>2. ASSUME NEW ys \in Seq(V), ys \in K, NEW y \in V PROVE Append(ys, y) \in K
  <2> DEFINE zs == Append(ys, y)
             flat == FlattenSeq(ys)
             more == FlattenSeq(zs)
  <2>0. zs \in Seq(V)
    OBVIOUS
  <2> SUFFICES ASSUME SortedBy(zs, R) PROVE InOrderBy(more, R)
    BY <2>0
  <2>1. more = flat \o y /\ flat \in Seq(T)
    BY FlattenIs
  <2>2. SameElements(flat, ys)
    BY FlattenElements
  <2>3. /\ Len(ys) \in Nat /\ DOMAIN ys = 1 .. Len(ys)
        /\ DOMAIN zs = 1 .. Len(ys) + 1 /\ zs[Len(ys) + 1] = y
        /\ \A i \in 1 .. Len(ys) : zs[i] = ys[i]
    OBVIOUS
  <2> HIDE DEF zs
  <2>4. SortedBy(ys, R)
    <3>1. \A i \in DOMAIN ys : i \in DOMAIN zs /\ zs[i] = ys[i]
      BY <2>3
    <3>2. \A i \in DOMAIN ys : \A j, k \in DOMAIN ys[i] : j < k => <<ys[i][j], ys[i][k]>> \in R
      BY <3>1 DEF SortedBy
    <3>3. ASSUME NEW i \in DOMAIN ys, NEW h \in DOMAIN ys, i < h,
                 NEW j \in DOMAIN ys[i], NEW k \in DOMAIN ys[h]
          PROVE  <<ys[i][j], ys[h][k]>> \in R
      <4>1. j \in DOMAIN zs[i] /\ k \in DOMAIN zs[h] /\ zs[i][j] = ys[i][j] /\ zs[h][k] = ys[h][k]
        BY <3>1
      <4>2. <<zs[i][j], zs[h][k]>> \in R
        BY <3>1, <3>3, <4>1 DEF SortedBy
      <4> QED
        BY <4>1, <4>2
    <3> QED
      BY <3>2, <3>3 DEF SortedBy
  <2>5. InOrderBy(flat, R)
    BY <1>2, <2>4
  <2> HIDE DEF flat, more
  <2>6. /\ Len(flat) \in Nat /\ Len(y) \in Nat
        /\ DOMAIN flat = 1 .. Len(flat) /\ DOMAIN y = 1 .. Len(y)
        /\ DOMAIN more = 1 .. Len(flat) + Len(y)
        /\ \A k \in 1 .. Len(flat) : more[k] = flat[k]
        /\ \A k \in 1 .. Len(flat) + Len(y) : k > Len(flat) => more[k] = y[k - Len(flat)]
    BY <2>1
  <2>7. ASSUME NEW k \in DOMAIN more, NEW m \in DOMAIN more, k < m
        PROVE  <<more[k], more[m]>> \in R
    <3>1. CASE m <= Len(flat)
      <4>1. k \in DOMAIN flat /\ m \in DOMAIN flat /\ more[k] = flat[k] /\ more[m] = flat[m]
        BY <2>6, <2>7, <3>1
      <4>2. <<flat[k], flat[m]>> \in R
        BY <2>5, <2>7, <4>1 DEF InOrderBy
      <4> QED
        BY <4>1, <4>2
    <3>2. CASE k <= Len(flat) /\ m > Len(flat)
      <4>1. PICK i \in DOMAIN ys : \E j \in DOMAIN ys[i] : flat[k] = ys[i][j]
        BY <2>2, <2>6, <3>2 DEF SameElements
      <4>2. PICK j \in DOMAIN ys[i] : flat[k] = ys[i][j]
        BY <4>1
      <4>3. i \in DOMAIN zs /\ Len(ys) + 1 \in DOMAIN zs /\ i < Len(ys) + 1 /\ zs[i] = ys[i]
        BY <2>3, <4>1
      <4>4. m - Len(flat) \in DOMAIN y /\ more[m] = y[m - Len(flat)] /\ more[k] = flat[k]
        BY SMTT(40), <2>6, <3>2
      <4>5. <<zs[i][j], zs[Len(ys) + 1][m - Len(flat)]>> \in R
        BY <2>3, <4>2, <4>3, <4>4 DEF SortedBy
      <4> QED
        BY <2>3, <4>2, <4>3, <4>4, <4>5
    <3>3. CASE k > Len(flat)
      <4>1. /\ k - Len(flat) \in DOMAIN y /\ more[k] = y[k - Len(flat)]
            /\ m - Len(flat) \in DOMAIN y /\ more[m] = y[m - Len(flat)]
            /\ k - Len(flat) < m - Len(flat)
        <5>1. k \in 1 .. Len(flat) + Len(y) /\ m \in 1 .. Len(flat) + Len(y) /\ m > Len(flat)
          BY <2>6, <2>7, <3>3
        <5>2. k - Len(flat) \in DOMAIN y /\ m - Len(flat) \in DOMAIN y
          BY <2>6, <3>3, <5>1
        <5> QED
          BY <2>6, <2>7, <3>3, <5>1, <5>2
      <4>2. Len(ys) + 1 \in DOMAIN zs
        BY <2>3
      <4> QED
        BY <2>3, <4>1, <4>2 DEF SortedBy
    <3> QED
      BY <2>6, <3>1, <3>2, <3>3
  <2> QED
    BY <2>7 DEF InOrderBy
<1> HIDE DEF V, K
<1>3. Seq(V) \subseteq K
  BY <1>1, <1>2, SeqInductionOnSet
<1>4. xs \in K
  BY <1>3 DEF V
<1> QED
  BY <1>4 DEF K

-----------------------------------------------------------------------------
(* Packing units in groups.                                                *)

Unit == [section : Nat, paragraph : Nat, from : Int, to : Int]

\* Adding up the characters of units.
Widths == [p \in Int \X Unit |-> p[1] + p[2].to - p[2].from + 2]

\* A step of the sum is a number.
LEMMA WidthsTyped ==
  /\ Widths \in [Int \X Unit -> Int]
  /\ \A s \in Int, u \in Unit : Widths[<<s, u>>] = s + u.to - u.from + 2
<1>1. \A u \in Unit : u.to \in Int /\ u.from \in Int
  BY DEF Unit
<1>2. \A p \in Int \X Unit : p[1] + p[2].to - p[2].from + 2 \in Int
  BY <1>1
<1> QED
  BY <1>2 DEF Widths

\* Joined is such a fold.
LEMMA JoinedFold ==
  ASSUME NEW units \in Seq(Unit)
  PROVE  \E f : FoldBy(f, 0, Widths, units, Int) /\ Joined(units) = f[Len(units)] - 2
<1> DEFINE step(sum, n) == IF n = 0 THEN 0 ELSE sum[n - 1] + units[n].to - units[n].from + 2
           sum == CHOOSE f : f = [n \in 0 .. Len(units) |-> step(f, n)]
<1>1. Joined(units) = sum[Len(units)] - 2
  BY Zenon DEF Joined
<1>2. Len(units) \in Nat /\ \A n \in 1 .. Len(units) : units[n] \in Unit
  OBVIOUS
<1>3. PICK f : FoldBy(f, 0, Widths, units, Int)
  <2> DEFINE V == Int
  <2>1. 0 \in V /\ Widths \in [V \X Unit -> V]
    BY WidthsTyped
  <2> HIDE DEF V
  <2>2. \E f : FoldBy(f, 0, Widths, units, V)
    BY <2>1, FoldExists
  <2> QED
    BY <2>2 DEF V
<1>4. \A n \in 1 .. Len(units) : \A s \in Int :
        Widths[<<s, units[n]>>] = s + units[n].to - units[n].from + 2
  BY <1>2, WidthsTyped
<1>5. f = [n \in 0 .. Len(units) |-> step(f, n)]
  <2>1. \A n \in 0 .. Len(units) : f[n] = step(f, n)
    <3> TAKE n \in 0 .. Len(units)
    <3>1. n # 0 => n \in 1 .. Len(units) /\ n - 1 \in 0 .. Len(units)
      BY <1>2
    <3>2. n # 0 => f[n - 1] \in Int /\ f[n] = Widths[<<f[n - 1], units[n]>>]
      BY <1>3, <3>1 DEF FoldBy
    <3> QED
      BY <1>3, <1>4, <3>1, <3>2 DEF FoldBy
  <2>2. f = [n \in 0 .. Len(units) |-> f[n]]
    BY <1>3 DEF FoldBy
  <2> HIDE DEF step
  <2> QED
    BY <2>1, <2>2
<1>6. sum = [n \in 0 .. Len(units) |-> step(sum, n)]
  <2> HIDE DEF step
  <2> QED
    BY <1>5
<1> HIDE DEF sum
<1>7. /\ sum = [n \in 0 .. Len(units) |-> sum[n]]
      /\ sum[0] = 0
      /\ \A n \in 1 .. Len(units) : sum[n] = sum[n - 1] + units[n].to - units[n].from + 2
  <2>1. \A n \in 0 .. Len(units) : sum[n] = step(sum, n)
    <3> HIDE DEF step
    <3> QED
      BY <1>6
  <2>2. sum = [n \in 0 .. Len(units) |-> sum[n]]
    <3> HIDE DEF step
    <3> QED
      BY <1>6
  <2> QED
    BY <1>2, <2>1, <2>2
<1>8. FoldBy(sum, 0, Widths, units, Int)
  <2>1. \A n \in 1 .. Len(units) : sum[n - 1] \in Int => sum[n] = Widths[<<sum[n - 1], units[n]>>]
    BY <1>4, <1>7
  <2> DEFINE V == Int
  <2>2. /\ 0 \in V /\ Widths \in [V \X Unit -> V]
        /\ \A n \in 1 .. Len(units) : sum[n - 1] \in V => sum[n] = Widths[<<sum[n - 1], units[n]>>]
    BY <2>1, WidthsTyped
  <2> HIDE DEF V
  <2>3. FoldBy(sum, 0, Widths, units, V)
    BY <1>7, <2>2, FoldTyped
  <2> QED
    BY <2>3 DEF V
<1> QED
  BY <1>1, <1>8

\* Joined, one unit at a time.
LEMMA JoinedIs ==
  /\ Joined(<<>>) = -2
  /\ \A units \in Seq(Unit), unit \in Unit :
       /\ Joined(units) \in Int
       /\ Joined(Append(units, unit)) = Joined(units) + unit.to - unit.from + 2
<1>1. Joined(<<>>) = -2
  <2>1. <<>> \in Seq(Unit) /\ Len(<<>>) = 0
    OBVIOUS
  <2>2. PICK f : FoldBy(f, 0, Widths, <<>>, Int) /\ Joined(<<>>) = f[0] - 2
    BY <2>1, JoinedFold
  <2>3. f[0] = 0
    BY <2>2 DEF FoldBy
  <2> QED
    BY <2>2, <2>3
<1>2. ASSUME NEW units \in Seq(Unit), NEW unit \in Unit
      PROVE  /\ Joined(units) \in Int
             /\ Joined(Append(units, unit)) = Joined(units) + unit.to - unit.from + 2
  <2> DEFINE more == Append(units, unit)
  <2>1. more \in Seq(Unit) /\ Len(units) \in Nat
    OBVIOUS
  <2>2. Grown(more, units, unit) /\ Steps(0, Widths, units, Unit, Int)
    BY WidthsTyped DEF Grown, Steps
  <2> HIDE DEF more
  <2>3. PICK f : FoldBy(f, 0, Widths, units, Int) /\ Joined(units) = f[Len(units)] - 2
    BY JoinedFold
  <2>4. PICK g : FoldBy(g, 0, Widths, more, Int) /\ Joined(more) = g[Len(more)] - 2
    BY <2>1, JoinedFold
  <2>5. g[Len(more)] = Widths[<<f[Len(units)], unit>>]
    BY <2>2, <2>3, <2>4, FoldAppend
  <2>6. f[Len(units)] \in Int
    BY <2>1, <2>3 DEF FoldBy
  <2>7. unit.to \in Int /\ unit.from \in Int
    BY DEF Unit
  <2>8. g[Len(more)] = f[Len(units)] + unit.to - unit.from + 2
    BY <2>5, <2>6, WidthsTyped
  <2>9. Joined(more) = Joined(units) + unit.to - unit.from + 2
    BY <2>3, <2>4, <2>6, <2>7, <2>8
  <2> QED
    BY <2>3, <2>6, <2>9 DEF more
<1> QED
  BY <1>1, <1>2

\* AddUnit as a function of groups.
Groups == Seq(Seq(Unit))
AddUnits == [p \in Groups \X Unit |-> AddUnit(p[1], p[2])]

\* A unit more leaves groups of units.
LEMMA AddUnitTyped ==
  ASSUME NEW groups \in Groups, NEW unit \in Unit
  PROVE  AddUnit(groups, unit) \in Groups
<1> DEFINE last == Len(groups)
<1>1. last \in Nat /\ Append(groups, <<unit>>) \in Groups
  BY DEF Groups
<1>2. last > 0 => [groups EXCEPT ![last] = Append(@, unit)] \in Groups
  <2> SUFFICES ASSUME last > 0 PROVE [groups EXCEPT ![last] = Append(@, unit)] \in Groups
    OBVIOUS
  <2>1. groups[last] \in Seq(Unit) /\ last \in 1 .. Len(groups)
    BY <1>1 DEF Groups
  <2>2. Append(groups[last], unit) \in Seq(Unit)
    BY <2>1
  <2> QED
    BY <2>1, <2>2 DEF Groups
<1> QED
  BY <1>1, <1>2 DEF AddUnit

\* As a function.
LEMMA AddUnitsTyped ==
  /\ AddUnits \in [Groups \X Unit -> Groups]
  /\ \A g \in Groups, u \in Unit : AddUnits[<<g, u>>] = AddUnit(g, u)
<1>1. \A p \in Groups \X Unit : AddUnit(p[1], p[2]) \in Groups
  BY AddUnitTyped
<1> QED
  BY <1>1 DEF AddUnits

\* Pack is a fold of it.
LEMMA PackFold ==
  ASSUME NEW units \in Seq(Unit)
  PROVE  \E f : FoldBy(f, <<>>, AddUnits, units, Groups) /\ Pack(units) = f[Len(units)]
<1> DEFINE step(packed, n) == IF n = 0 THEN <<>> ELSE AddUnit(packed[n - 1], units[n])
           packed == CHOOSE f : f = [n \in 0 .. Len(units) |-> step(f, n)]
<1>1. Pack(units) = packed[Len(units)]
  BY Zenon DEF Pack
<1>2. Len(units) \in Nat /\ \A n \in 1 .. Len(units) : units[n] \in Unit
  OBVIOUS
<1>0. <<>> \in Groups
  BY DEF Groups
<1>3. PICK f : FoldBy(f, <<>>, AddUnits, units, Groups)
  BY <1>0, AddUnitsTyped, FoldExists
<1>4. \A n \in 1 .. Len(units) : \A g \in Groups : AddUnits[<<g, units[n]>>] = AddUnit(g, units[n])
  BY <1>2, AddUnitsTyped
<1>5. f = [n \in 0 .. Len(units) |-> step(f, n)]
  <2>1. \A n \in 0 .. Len(units) : f[n] = step(f, n)
    <3> TAKE n \in 0 .. Len(units)
    <3>1. n # 0 => n \in 1 .. Len(units) /\ n - 1 \in 0 .. Len(units)
      BY <1>2
    <3>2. n # 0 => f[n - 1] \in Groups /\ f[n] = AddUnits[<<f[n - 1], units[n]>>]
      BY <1>3, <3>1 DEF FoldBy
    <3> QED
      BY <1>3, <1>4, <3>1, <3>2 DEF FoldBy
  <2>2. f = [n \in 0 .. Len(units) |-> f[n]]
    BY <1>3 DEF FoldBy
  <2> HIDE DEF step
  <2> QED
    BY <2>1, <2>2
<1>6. packed = [n \in 0 .. Len(units) |-> step(packed, n)]
  <2> HIDE DEF step
  <2> QED
    BY <1>5
<1> HIDE DEF packed
<1>7. /\ packed = [n \in 0 .. Len(units) |-> packed[n]]
      /\ packed[0] = <<>>
      /\ \A n \in 1 .. Len(units) : packed[n] = AddUnit(packed[n - 1], units[n])
  <2>1. \A n \in 0 .. Len(units) : packed[n] = step(packed, n)
    <3> HIDE DEF step
    <3> QED
      BY <1>6
  <2>2. packed = [n \in 0 .. Len(units) |-> packed[n]]
    <3> HIDE DEF step
    <3> QED
      BY <1>6
  <2> QED
    BY <1>2, <2>1, <2>2
<1>8. FoldBy(packed, <<>>, AddUnits, units, Groups)
  <2>1. \A n \in 1 .. Len(units) :
          packed[n - 1] \in Groups => packed[n] = AddUnits[<<packed[n - 1], units[n]>>]
    BY <1>4, <1>7
  <2> QED
    BY <1>0, <1>7, <2>1, AddUnitsTyped, FoldTyped
<1> QED
  BY <1>1, <1>8

\* Pack, one unit at a time.
LEMMA PackIs ==
  /\ Pack(<<>>) = <<>>
  /\ \A units \in Seq(Unit), unit \in Unit :
       /\ Pack(units) \in Groups
       /\ Pack(Append(units, unit)) = AddUnit(Pack(units), unit)
<1>0. <<>> \in Groups
  BY DEF Groups
<1>1. Pack(<<>>) = <<>>
  <2>1. <<>> \in Seq(Unit) /\ Len(<<>>) = 0
    OBVIOUS
  <2>2. PICK f : FoldBy(f, <<>>, AddUnits, <<>>, Groups) /\ Pack(<<>>) = f[0]
    BY <2>1, PackFold
  <2> QED
    BY <2>2 DEF FoldBy
<1>2. ASSUME NEW units \in Seq(Unit), NEW unit \in Unit
      PROVE  /\ Pack(units) \in Groups
             /\ Pack(Append(units, unit)) = AddUnit(Pack(units), unit)
  <2> DEFINE more == Append(units, unit)
  <2>1. more \in Seq(Unit) /\ Len(units) \in Nat
    OBVIOUS
  <2>2. Grown(more, units, unit) /\ Steps(<<>>, AddUnits, units, Unit, Groups)
    BY <1>0, AddUnitsTyped DEF Grown, Steps
  <2> HIDE DEF more
  <2>3. PICK f : FoldBy(f, <<>>, AddUnits, units, Groups) /\ Pack(units) = f[Len(units)]
    BY PackFold
  <2>4. PICK g : FoldBy(g, <<>>, AddUnits, more, Groups) /\ Pack(more) = g[Len(more)]
    BY <2>1, PackFold
  <2>5. g[Len(more)] = AddUnits[<<f[Len(units)], unit>>]
    BY <2>2, <2>3, <2>4, FoldAppend
  <2>6. f[Len(units)] \in Groups
    BY <2>1, <2>3 DEF FoldBy
  <2> QED
    BY <2>3, <2>4, <2>5, <2>6, AddUnitsTyped DEF more
<1> QED
  BY <1>1, <1>2

\* Groups of units that are full: none too long, each begun because the last had no room.
Packs(groups, units) ==
  /\ groups \in Groups
  /\ FlattenSeq(groups) = units
  /\ \A g \in DOMAIN groups : groups[g] # <<>> /\ Joined(groups[g]) <= MaxChars
  /\ \A g, h \in DOMAIN groups : h = g + 1 => Joined(Append(groups[g], groups[h][1])) > MaxChars

Fits(unit) == unit.from < unit.to /\ unit.to - unit.from <= MaxChars

\* What a unit joins, and where it begins another group.
LEMMA AddUnitIs ==
  ASSUME NEW groups \in Groups, NEW unit \in Unit, NEW more, more = AddUnit(groups, unit),
         NEW last, last = Len(groups)
  PROVE  \/ /\ last > 0
            /\ Joined(Append(groups[last], unit)) <= MaxChars
            /\ more \in Groups /\ Len(more) = last
            /\ \A g \in 1 .. last : more[g] = IF g = last THEN Append(groups[last], unit) ELSE groups[g]
         \/ /\ last > 0 => Joined(Append(groups[last], unit)) > MaxChars
            /\ more = Append(groups, <<unit>>)
            /\ more \in Groups
<1>1. last \in Nat
  BY DEF Groups
<1>2. more \in Groups
  BY AddUnitTyped
<1>3. CASE last > 0 /\ Joined(Append(groups[last], unit)) <= MaxChars
  <2>1. more = [groups EXCEPT ![last] = Append(groups[last], unit)]
    BY <1>3 DEF AddUnit
  <2>2. last \in 1 .. Len(groups) /\ groups[last] \in Seq(Unit)
    BY <1>1, <1>3 DEF Groups
  <2> DEFINE e == Append(groups[last], unit)
  <2>3. e \in Seq(Unit) /\ groups \in Seq(Seq(Unit))
    BY <2>2 DEF Groups
  <2> HIDE DEF e
  <2>4. /\ Len([groups EXCEPT ![last] = e]) = Len(groups)
        /\ \A g \in 1 .. Len(groups) : [groups EXCEPT ![last] = e][g] = IF g = last THEN e ELSE groups[g]
    BY <2>2, <2>3, ExceptSeq
  <2>5. Len(more) = last /\ \A g \in 1 .. last : more[g] = IF g = last THEN e ELSE groups[g]
    BY <2>1, <2>4 DEF e
  <2> QED
    BY <1>2, <1>3, <2>5 DEF e
<1>4. CASE ~(last > 0 /\ Joined(Append(groups[last], unit)) <= MaxChars)
  <2>1. more = Append(groups, <<unit>>)
    BY <1>4 DEF AddUnit
  <2>2. last > 0 => Joined(Append(groups[last], unit)) > MaxChars
    <3> SUFFICES ASSUME last > 0 PROVE Joined(Append(groups[last], unit)) > MaxChars
      OBVIOUS
    <3>1. groups[last] \in Seq(Unit)
      BY <1>1 DEF Groups
    <3>2. Joined(Append(groups[last], unit)) \in Int
      <4>1. Append(groups[last], unit) \in Seq(Unit)
        BY <3>1
      <4> QED
        BY <4>1, JoinedIs
    <3> QED
      BY <1>4, <3>2, ChunkingAssumption
  <2> QED
    BY <1>2, <2>1, <2>2
<1> QED
  BY <1>3, <1>4

\* ys is xs with x at the end of its last sequence.
GrownLast(ys, xs, x) ==
  /\ xs # <<>>
  /\ Len(ys) = Len(xs)
  /\ \A i \in 1 .. Len(xs) : ys[i] = IF i = Len(xs) THEN Append(xs[Len(xs)], x) ELSE xs[i]

\* FlattenSeq, when the last sequence has grown.
LEMMA FlattenLast ==
  ASSUME NEW T, NEW xs \in Seq(Seq(T)), NEW x \in T, NEW ys \in Seq(Seq(T)), GrownLast(ys, xs, x)
  PROVE  FlattenSeq(ys) = Append(FlattenSeq(xs), x)
<1> DEFINE V == Seq(T)
<1>1. PICK front \in Seq(V), last \in V : xs = Append(front, last)
  <2>1. xs \in Seq(V)
    OBVIOUS
  <2>2. xs # <<>>
    BY DEF GrownLast
  <2> HIDE DEF V
  <2> QED
    BY <2>1, <2>2, SequenceEmptyOrAppend
<1>2. Len(front) \in Nat /\ Len(xs) = Len(front) + 1 /\ xs[Len(xs)] = last
      /\ \A i \in 1 .. Len(front) : xs[i] = front[i]
  BY <1>1
<1>3. Append(last, x) \in V
  OBVIOUS
<1>4. ys = Append(front, Append(last, x))
  <2> DEFINE e == Append(last, x)
  <2>1. /\ ys \in Seq(V) /\ Len(ys) = Len(front) + 1 /\ ys[Len(front) + 1] = e
        /\ \A i \in 1 .. Len(front) : ys[i] = front[i]
    <3>1. Len(xs) \in 1 .. Len(xs) /\ ys[Len(xs)] = Append(xs[Len(xs)], x)
      BY <1>2 DEF GrownLast
    <3>2. \A i \in 1 .. Len(front) : i \in 1 .. Len(xs) /\ i # Len(xs)
      BY <1>2
    <3>3. \A i \in 1 .. Len(front) : ys[i] = front[i]
      BY <1>2, <3>2 DEF GrownLast
    <3> QED
      BY <1>2, <3>1, <3>3 DEF GrownLast
  <2> HIDE DEF e, V
  <2>2. Append(front, e) \in Seq(V) /\ Len(Append(front, e)) = Len(front) + 1
        /\ Append(front, e)[Len(front) + 1] = e
        /\ \A i \in 1 .. Len(front) : Append(front, e)[i] = front[i]
    BY <1>1, <1>3 DEF e
  <2>3. \A i \in 1 .. Len(ys) : ys[i] = Append(front, e)[i]
    BY <1>2, <2>1, <2>2
  <2>4. ys = Append(front, e)
    BY <2>1, <2>2, <2>3, SeqEqual
  <2> QED
    BY <2>4 DEF e
<1>5. FlattenSeq(xs) = FlattenSeq(front) \o last /\ FlattenSeq(front) \in Seq(T)
  BY <1>1, FlattenIs
<1>6. FlattenSeq(ys) = FlattenSeq(front) \o Append(last, x)
  BY <1>1, <1>3, <1>4, FlattenIs
<1> DEFINE f == FlattenSeq(front)
<1>7. f \o Append(last, x) = Append(f \o last, x)
  <2>1. f \in Seq(T) /\ last \in Seq(T)
    BY <1>1, <1>5
  <2> HIDE DEF f
  <2> QED
    BY <2>1
<1> QED
  BY <1>5, <1>6, <1>7

\* A unit more leaves the groups full.
LEMMA PacksStep ==
  ASSUME NEW groups, NEW units \in Seq(Unit), Packs(groups, units), NEW unit \in Unit, Fits(unit)
  PROVE  Packs(AddUnit(groups, unit), Append(units, unit))
<1> DEFINE more == AddUnit(groups, unit)
           last == Len(groups)
<1>1. groups \in Groups /\ last \in Nat /\ DOMAIN groups = 1 .. last
  BY DEF Packs, Groups
<1>2. \A g \in 1 .. last : groups[g] \in Seq(Unit)
  BY <1>1 DEF Groups
<1>0. last = Len(groups)
  OBVIOUS
<1> HIDE DEF last
<1>3. CASE /\ last > 0
           /\ Joined(Append(groups[last], unit)) <= MaxChars
           /\ more \in Groups /\ Len(more) = last
           /\ \A g \in 1 .. last : more[g] = IF g = last THEN Append(groups[last], unit) ELSE groups[g]
  <2> HIDE DEF more
  <2>1. FlattenSeq(more) = Append(units, unit)
    <3>1. groups # <<>> /\ groups \in Seq(Seq(Unit)) /\ more \in Seq(Seq(Unit))
      <4>1. groups \in Seq(Seq(Unit)) /\ more \in Seq(Seq(Unit))
        BY <1>1, <1>3 DEF Groups
      <4>2. groups # <<>>
        <5> SUFFICES ASSUME groups = <<>> PROVE last = 0
          BY <1>3
        <5> QED
          BY <1>0
      <4> QED
        BY <4>1, <4>2
    <3>2. GrownLast(more, groups, unit)
      BY <1>0, <1>3, <3>1 DEF GrownLast
    <3>3. FlattenSeq(more) = Append(FlattenSeq(groups), unit)
      BY <3>1, <3>2, FlattenLast
    <3> QED
      BY <3>3 DEF Packs
  <2>2. DOMAIN more = 1 .. last
    BY <1>3 DEF Groups
  <2>3. \A g \in 1 .. last : more[g] # <<>> /\ Joined(more[g]) <= MaxChars
    <3> TAKE g \in 1 .. last
    <3>1. CASE g = last
      <4>1. more[g] = Append(groups[last], unit)
        BY <1>3, <3>1
      <4>2. Append(groups[last], unit) # <<>>
        BY <1>2, <3>1, AppendProperties
      <4> QED
        BY <1>3, <4>1, <4>2
    <3>2. CASE g # last
      BY <1>1, <1>3, <3>2 DEF Packs
    <3> QED
      BY <3>1, <3>2
  <2>4. ASSUME NEW g \in 1 .. last, NEW h \in 1 .. last, h = g + 1
        PROVE  Joined(Append(more[g], more[h][1])) > MaxChars
    <3>1. more[g] = groups[g]
      <4>1. g # last
        BY <1>1, <2>4
      <4> QED
        BY <1>3, <4>1
    <3>2. more[h][1] = groups[h][1]
      <4>1. CASE h = last
        <5>1. more[h] = Append(groups[h], unit) /\ groups[h] # <<>> /\ groups[h] \in Seq(Unit)
          BY <1>1, <1>2, <1>3, <4>1 DEF Packs
        <5> QED
          BY <5>1
      <4>2. CASE h # last
        BY <1>3, <4>2
      <4> QED
        BY <4>1, <4>2
    <3> QED
      BY <1>1, <2>4, <3>1, <3>2 DEF Packs
  <2>5. Packs(more, Append(units, unit))
    BY <1>3, <2>1, <2>2, <2>3, <2>4 DEF Packs
  <2> QED
    BY <2>5 DEF more
<1>4. CASE /\ last > 0 => Joined(Append(groups[last], unit)) > MaxChars
           /\ more = Append(groups, <<unit>>)
           /\ more \in Groups
  <2> HIDE DEF more
  <2>1. <<unit>> \in Seq(Unit)
    OBVIOUS
  <2>2. FlattenSeq(more) = Append(units, unit)
    <3>1. FlattenSeq(more) = FlattenSeq(groups) \o <<unit>>
      BY <1>1, <1>4, <2>1, FlattenIs DEF Groups
    <3>2. units \o <<unit>> = Append(units, unit)
      BY AppendIsConcat
    <3> QED
      BY <3>1, <3>2 DEF Packs
  <2>3. /\ DOMAIN more = 1 .. last + 1 /\ more[last + 1] = <<unit>>
        /\ \A g \in 1 .. last : more[g] = groups[g]
    BY <1>1, <1>4 DEF Groups
  <2>4. Joined(<<unit>>) <= MaxChars
    <3>1. Append(<<>>, unit) = <<unit>> /\ <<>> \in Seq(Unit)
      OBVIOUS
    <3>2. Joined(<<unit>>) = Joined(<<>>) + unit.to - unit.from + 2
      BY <3>1, JoinedIs
    <3>3. unit.to \in Int /\ unit.from \in Int
      BY DEF Unit
    <3> QED
      BY <3>2, <3>3, JoinedIs DEF Fits
  <2>5. \A g \in 1 .. last + 1 : more[g] # <<>> /\ Joined(more[g]) <= MaxChars
    <3> TAKE g \in 1 .. last + 1
    <3>1. CASE g = last + 1
      <4>1. more[g] = <<unit>> /\ <<unit>> # <<>>
        BY <2>3, <3>1
      <4> QED
        BY <2>4, <4>1
    <3>2. CASE g # last + 1
      <4>1. g \in DOMAIN groups /\ more[g] = groups[g]
        BY <1>1, <2>3, <3>2
      <4>2. groups[g] # <<>> /\ Joined(groups[g]) <= MaxChars
        BY <4>1, Zenon DEF Packs
      <4> QED
        BY <4>1, <4>2
    <3> QED
      BY <3>1, <3>2
  <2>6. ASSUME NEW g \in 1 .. last + 1, NEW h \in 1 .. last + 1, h = g + 1
        PROVE  Joined(Append(more[g], more[h][1])) > MaxChars
    <3>1. g \in 1 .. last /\ more[g] = groups[g]
      BY <1>1, <2>3, <2>6
    <3>2. CASE h = last + 1
      <4>1. g = last /\ last > 0
        BY <1>1, <2>6, <3>1, <3>2
      <4>2. more[h][1] = unit
        BY <2>3, <3>2
      <4> QED
        BY <1>4, <3>1, <4>1, <4>2
    <3>3. CASE h # last + 1
      <4>1. h \in 1 .. last /\ more[h] = groups[h]
        BY <1>1, <2>3, <3>3
      <4> QED
        BY <1>1, <2>6, <3>1, <4>1 DEF Packs
    <3> QED
      BY <3>2, <3>3
  <2>7. Packs(more, Append(units, unit))
    BY <1>4, <2>2, <2>3, <2>5, <2>6 DEF Packs
  <2> QED
    BY <2>7 DEF more
<1> QED
  BY <1>0, <1>1, <1>3, <1>4, AddUnitIs

\* Packing is greedy: no group is too long, and none had room for the next unit.
LEMMA PackPacks ==
  ASSUME NEW units \in Seq(Unit), \A k \in DOMAIN units : Fits(units[k])
  PROVE  Packs(Pack(units), units)
<1> DEFINE K == {us \in Seq(Unit) : (\A k \in DOMAIN us : Fits(us[k])) => Packs(Pack(us), us)}
<1>1. <<>> \in K
  <2>1. FlattenSeq(<<>>) = <<>> /\ Pack(<<>>) = <<>> /\ <<>> \in Groups /\ <<>> \in Seq(Unit)
    BY PackIs DEF FlattenSeq, Groups
  <2>2. Packs(<<>>, <<>>)
    BY <2>1 DEF Packs
  <2> QED
    BY <2>1, <2>2
<1>2. ASSUME NEW us \in Seq(Unit), us \in K, NEW unit \in Unit PROVE Append(us, unit) \in K
  <2> DEFINE more == Append(us, unit)
  <2>1. /\ more \in Seq(Unit) /\ Len(us) \in Nat /\ DOMAIN us = 1 .. Len(us)
        /\ DOMAIN more = 1 .. Len(us) + 1 /\ more[Len(us) + 1] = unit
        /\ \A k \in 1 .. Len(us) : more[k] = us[k]
    OBVIOUS
  <2> SUFFICES ASSUME \A k \in DOMAIN more : Fits(more[k]) PROVE Packs(Pack(more), more)
    BY <2>1
  <2> HIDE DEF more
  <2>2. Fits(unit) /\ \A k \in DOMAIN us : Fits(us[k])
    BY <2>1
  <2>3. Packs(Pack(us), us)
    BY <1>2, <2>2
  <2>4. Packs(AddUnit(Pack(us), unit), Append(us, unit))
    BY <2>2, <2>3, PacksStep
  <2> QED
    BY <2>4, PackIs DEF more
<1> HIDE DEF K
<1>3. Seq(Unit) \subseteq K
  BY <1>1, <1>2, SeqInductionOnSet
<1> QED
  BY <1>3 DEF K

-----------------------------------------------------------------------------
(* The units of a document.                                                *)

Before(u, v) ==
  \/ u.section < v.section
  \/ u.section = v.section /\ u.paragraph < v.paragraph
  \/ u.section = v.section /\ u.paragraph = v.paragraph /\ u.to <= v.from

UnitOrder == {p \in Unit \X Unit : Before(p[1], p[2])}

\* The order of units as a relation.
LEMMA UnitOrderIs ==
  ASSUME NEW u \in Unit, NEW v \in Unit
  PROVE  <<u, v>> \in UnitOrder <=> Before(u, v)
BY DEF UnitOrder

Holds(unit, section, paragraph, c) ==
  unit.section = section /\ unit.paragraph = paragraph /\ unit.from <= c /\ c < unit.to

\* The characters of a paragraph that matter.
Written(paragraph) == (0 .. Length(paragraph) - 1) \ Separators(paragraph)

UnitsIn(i, p, paragraph) ==
  LET slices == Slices(paragraph) IN
  [k \in DOMAIN slices |->
    [section |-> i, paragraph |-> p, from |-> slices[k].from, to |-> slices[k].to]]

UnitsAt(i, text) ==
  LET paragraphs == Paragraphs(text) IN
  FlattenSeq([p \in DOMAIN paragraphs |-> UnitsIn(i, p, paragraphs[p])])

\* Units of a section, in order.
InSection(units, i) ==
  /\ units \in Seq(Unit)
  /\ \A k \in DOMAIN units : units[k].section = i /\ Fits(units[k])
  /\ InOrderBy(units, UnitOrder)

InParagraph(units, p) == \A k \in DOMAIN units : units[k].paragraph = p

Covers(units, i, p, paragraph) ==
  \A c \in Written(paragraph) : \E k \in DOMAIN units : Holds(units[k], i, p, c)

\* The units of a paragraph cover it,
LEMMA UnitsInAre ==
  ASSUME NEW i \in Nat, NEW p \in Nat, NEW paragraph \in Seq(Fragment),
         NEW units, units = UnitsIn(i, p, paragraph)
  PROVE  InSection(units, i) /\ InParagraph(units, p) /\ Covers(units, i, p, paragraph)
<1> DEFINE slices == Slices(paragraph)
           unit(k) == [section |-> i, paragraph |-> p, from |-> slices[k].from, to |-> slices[k].to]
<1>1. SlicesOf(slices, Length(paragraph), Separators(paragraph))
  BY SlicesAre
<1>2. units = [k \in DOMAIN slices |-> unit(k)]
  BY DEF UnitsIn
<1> HIDE DEF slices
<1>3. /\ Len(slices) \in Nat /\ DOMAIN slices = 1 .. Len(slices)
      /\ \A k \in DOMAIN slices : slices[k] \in Interval
  BY <1>1 DEF SlicesOf
<1>4. \A k \in DOMAIN slices : slices[k].from \in Int /\ slices[k].to \in Int
  BY <1>3 DEF Interval
<1>5. \A k \in DOMAIN slices : unit(k) \in Unit
  BY <1>4 DEF Unit
<1>6. DOMAIN units = DOMAIN slices /\ \A k \in DOMAIN slices : units[k] = unit(k)
  BY <1>2
<1>7. units \in Seq(Unit)
  <2> HIDE DEF unit
  <2> QED
    BY <1>2, <1>3, <1>5
<1>8. \A k \in DOMAIN units : /\ units[k] \in Unit
                              /\ units[k].section = i /\ units[k].paragraph = p
                              /\ units[k].from = slices[k].from /\ units[k].to = slices[k].to
  BY <1>5, <1>6
<1> HIDE DEF unit
<1>9. \A k \in DOMAIN units : Fits(units[k])
  BY <1>1, <1>6, <1>8 DEF SlicesOf, Fits
<1>10. InOrderBy(units, UnitOrder)
  <2> SUFFICES ASSUME NEW k \in DOMAIN units, NEW m \in DOMAIN units, k < m
               PROVE  <<units[k], units[m]>> \in UnitOrder
    BY DEF InOrderBy
  <2>1. slices[k].to <= slices[m].from
    BY <1>1, <1>6 DEF SlicesOf
  <2>2. Before(units[k], units[m])
    BY <1>8, <2>1 DEF Before
  <2> QED
    BY <1>8, <2>2, UnitOrderIs
<1>11. Covers(units, i, p, paragraph)
  <2> SUFFICES ASSUME NEW c \in Written(paragraph)
               PROVE  \E k \in DOMAIN units : Holds(units[k], i, p, c)
    BY DEF Covers
  <2>1. PICK k \in DOMAIN slices : slices[k].from <= c /\ c < slices[k].to
    BY <1>1 DEF SlicesOf, Written
  <2>2. k \in DOMAIN units /\ Holds(units[k], i, p, c)
    BY <1>6, <1>8, <2>1 DEF Holds
  <2> QED
    BY <2>2
<1> QED
  BY <1>7, <1>8, <1>9, <1>10, <1>11 DEF InSection, InParagraph

\* those of a section its paragraphs, in their order,
LEMMA UnitsAtAre ==
  ASSUME NEW i \in Nat, NEW text \in Text, NEW units, units = UnitsAt(i, text)
  PROVE  /\ InSection(units, i)
         /\ \A p \in DOMAIN Paragraphs(text) : Covers(units, i, p, Paragraphs(text)[p])
<1> DEFINE paragraphs == Paragraphs(text)
           parts == [p \in DOMAIN paragraphs |-> UnitsIn(i, p, paragraphs[p])]
<1>1. paragraphs \in Seq(Seq(Fragment))
  BY ParagraphsAre
<1>2. units = FlattenSeq(parts)
  BY DEF UnitsAt
<1> HIDE DEF paragraphs
<1>3. /\ Len(paragraphs) \in Nat /\ DOMAIN paragraphs = 1 .. Len(paragraphs)
      /\ \A p \in DOMAIN paragraphs : p \in Nat /\ paragraphs[p] \in Seq(Fragment)
  BY <1>1
<1>4. parts = [p \in 1 .. Len(paragraphs) |-> parts[p]] /\ DOMAIN parts = 1 .. Len(paragraphs)
  BY <1>3
<1>5. \A p \in DOMAIN paragraphs : parts[p] = UnitsIn(i, p, paragraphs[p])
  OBVIOUS
<1> HIDE DEF parts
<1>6. \A p \in DOMAIN paragraphs : /\ InSection(parts[p], i) /\ InParagraph(parts[p], p)
                                   /\ Covers(parts[p], i, p, paragraphs[p])
  BY <1>3, <1>5, UnitsInAre
<1>7. parts \in Seq(Seq(Unit))
  <2>1. \A p \in 1 .. Len(paragraphs) : parts[p] \in Seq(Unit)
    BY <1>3, <1>6 DEF InSection
  <2> DEFINE V == Seq(Unit)
  <2> HIDE DEF V
  <2>2. \A p \in 1 .. Len(paragraphs) : parts[p] \in V
    BY <2>1 DEF V
  <2>3. parts \in Seq(V)
    BY <1>3, <1>4, <2>2
  <2> QED
    BY <2>3 DEF V
<1>8. SameElements(units, parts) /\ units \in Seq(Unit)
  BY <1>2, <1>7, FlattenElements, FlattenTyped
<1>9. \A k \in DOMAIN units : units[k].section = i /\ Fits(units[k])
  <2> TAKE k \in DOMAIN units
  <2>1. PICK p \in DOMAIN parts : \E j \in DOMAIN parts[p] : units[k] = parts[p][j]
    BY <1>8 DEF SameElements
  <2>2. PICK j \in DOMAIN parts[p] : units[k] = parts[p][j]
    BY <2>1
  <2> QED
    BY <1>3, <1>4, <1>6, <2>2 DEF InSection
<1>10. InOrderBy(units, UnitOrder)
  <2>1. \A p \in DOMAIN parts : \A j, k \in DOMAIN parts[p] :
          j < k => <<parts[p][j], parts[p][k]>> \in UnitOrder
    BY <1>3, <1>4, <1>6 DEF InSection, InOrderBy
  <2>2. ASSUME NEW p \in DOMAIN parts, NEW q \in DOMAIN parts, p < q,
               NEW j \in DOMAIN parts[p], NEW k \in DOMAIN parts[q]
        PROVE  <<parts[p][j], parts[q][k]>> \in UnitOrder
    <3>1. /\ InSection(parts[p], i) /\ InParagraph(parts[p], p)
          /\ InSection(parts[q], i) /\ InParagraph(parts[q], q)
      BY <1>3, <1>4, <1>6
    <3>2. parts[p][j] \in Unit /\ parts[q][k] \in Unit
      BY <3>1 DEF InSection
    <3>3. Before(parts[p][j], parts[q][k])
      BY <2>2, <3>1 DEF Before, InSection, InParagraph
    <3> QED
      BY <3>2, <3>3, UnitOrderIs
  <2>3. SortedBy(parts, UnitOrder)
    BY <2>1, <2>2 DEF SortedBy
  <2> QED
    BY <1>2, <1>7, <2>3, FlattenInOrder
<1>11. ASSUME NEW p \in DOMAIN paragraphs PROVE Covers(units, i, p, paragraphs[p])
  <2> SUFFICES ASSUME NEW c \in Written(paragraphs[p])
               PROVE  \E k \in DOMAIN units : Holds(units[k], i, p, c)
    BY DEF Covers
  <2>1. PICK j \in DOMAIN parts[p] : Holds(parts[p][j], i, p, c)
    BY <1>6 DEF Covers
  <2>2. PICK k \in DOMAIN units : units[k] = parts[p][j]
    BY <1>3, <1>4, <1>8 DEF SameElements
  <2> QED
    BY <2>1, <2>2
<1> QED
  BY <1>8, <1>9, <1>10, <1>11 DEF InSection, paragraphs

\* All text of the sections, in its order.
UnitsOf(units, document) ==
  /\ units \in Seq(Unit)
  /\ \A k \in DOMAIN units : units[k].section \in DOMAIN document /\ Fits(units[k])
  /\ InOrderBy(units, UnitOrder)
  /\ \A i \in DOMAIN document : \A p \in DOMAIN Paragraphs(document[i].text) :
       Covers(units, i, p, Paragraphs(document[i].text)[p])

\* and those of a document its sections.
LEMMA UnitsAre ==
  ASSUME NEW document, IsDocument(document)
  PROVE  UnitsOf(Units(document), document)
<1> DEFINE units == Units(document)
           parts == [i \in DOMAIN document |-> UnitsAt(i, document[i].text)]
<1>2. units = FlattenSeq(parts)
  BY DEF Units, UnitsAt, UnitsIn
<1> HIDE DEF units
<1>3. /\ Len(document) \in Nat /\ DOMAIN document = 1 .. Len(document)
      /\ \A i \in DOMAIN document : i \in Nat /\ document[i].text \in Text
  <2>1. Len(document) \in Nat /\ DOMAIN document = 1 .. Len(document)
    BY DEF IsDocument, IsSequence
  <2>2. \A i \in DOMAIN document : document[i].text \in Text
    BY DEF IsDocument, Typed
  <2> QED
    BY <2>1, <2>2
<1>4. parts = [i \in 1 .. Len(document) |-> parts[i]] /\ DOMAIN parts = 1 .. Len(document)
  BY <1>3
<1>5. \A i \in DOMAIN document : parts[i] = UnitsAt(i, document[i].text)
  OBVIOUS
<1> HIDE DEF parts
<1>6. \A i \in DOMAIN document :
        /\ InSection(parts[i], i)
        /\ \A p \in DOMAIN Paragraphs(document[i].text) :
             Covers(parts[i], i, p, Paragraphs(document[i].text)[p])
  BY <1>3, <1>5, UnitsAtAre
<1>7. parts \in Seq(Seq(Unit))
  <2>1. \A i \in 1 .. Len(document) : parts[i] \in Seq(Unit)
    BY <1>3, <1>6 DEF InSection
  <2> DEFINE V == Seq(Unit)
  <2> HIDE DEF V
  <2>2. \A i \in 1 .. Len(document) : parts[i] \in V
    BY <2>1 DEF V
  <2>3. parts \in Seq(V)
    BY <1>3, <1>4, <2>2
  <2> QED
    BY <2>3 DEF V
<1>8. SameElements(units, parts) /\ units \in Seq(Unit)
  BY <1>2, <1>7, FlattenElements, FlattenTyped
<1>9. \A k \in DOMAIN units : units[k].section \in DOMAIN document /\ Fits(units[k])
  <2> TAKE k \in DOMAIN units
  <2>1. PICK i \in DOMAIN parts : \E j \in DOMAIN parts[i] : units[k] = parts[i][j]
    BY <1>8 DEF SameElements
  <2>2. PICK j \in DOMAIN parts[i] : units[k] = parts[i][j]
    BY <2>1
  <2>3. i \in DOMAIN document /\ InSection(parts[i], i)
    BY <1>3, <1>4, <1>6
  <2>4. parts[i][j].section = i /\ Fits(parts[i][j])
    BY <2>3 DEF InSection
  <2> QED
    BY <2>2, <2>3, <2>4
<1>10. InOrderBy(units, UnitOrder)
  <2>1. \A i \in DOMAIN parts : \A j, k \in DOMAIN parts[i] :
          j < k => <<parts[i][j], parts[i][k]>> \in UnitOrder
    BY <1>3, <1>4, <1>6 DEF InSection, InOrderBy
  <2>2. ASSUME NEW i \in DOMAIN parts, NEW h \in DOMAIN parts, i < h,
               NEW j \in DOMAIN parts[i], NEW k \in DOMAIN parts[h]
        PROVE  <<parts[i][j], parts[h][k]>> \in UnitOrder
    <3>1. InSection(parts[i], i) /\ InSection(parts[h], h)
      BY <1>3, <1>4, <1>6
    <3>2. parts[i][j] \in Unit /\ parts[h][k] \in Unit
      BY <3>1 DEF InSection
    <3>3. Before(parts[i][j], parts[h][k])
      BY <2>2, <3>1 DEF Before, InSection
    <3> QED
      BY <3>2, <3>3, UnitOrderIs
  <2>3. SortedBy(parts, UnitOrder)
    BY <2>1, <2>2 DEF SortedBy
  <2> QED
    BY <1>2, <1>7, <2>3, FlattenInOrder
<1>11. ASSUME NEW i \in DOMAIN document, NEW p \in DOMAIN Paragraphs(document[i].text)
       PROVE  Covers(units, i, p, Paragraphs(document[i].text)[p])
  <2> DEFINE paragraph == Paragraphs(document[i].text)[p]
  <2>0. Covers(parts[i], i, p, paragraph)
    BY <1>6
  <2> HIDE DEF paragraph
  <2>1. ASSUME NEW c \in Written(paragraph)
        PROVE  \E k \in DOMAIN units : Holds(units[k], i, p, c)
    <3>1. PICK j \in DOMAIN parts[i] : Holds(parts[i][j], i, p, c)
      BY <2>0 DEF Covers
    <3>2. PICK k \in DOMAIN units : units[k] = parts[i][j]
      BY <1>3, <1>4, <1>8 DEF SameElements
    <3> QED
      BY <3>1, <3>2
  <2>2. Covers(units, i, p, paragraph)
    BY <2>1 DEF Covers
  <2> QED
    BY <2>2 DEF paragraph
<1> QED
  BY <1>8, <1>9, <1>10, <1>11 DEF UnitsOf, units

-----------------------------------------------------------------------------
(* Which handler takes a source.                                           *)

Names ==
  <<"text", "markdown", "html", "csv", "pdf", "docx", "pptx", "xlsx", "zip", "markitdown", "docling">>

\* A handler takes these types and extensions, whatever the policy says of Docling.
IsHandler(h, name, kinds, extensions) ==
  /\ h.name = name
  /\ h.types = kinds
  /\ h.extensions = extensions
  /\ \A chosen : ResourceAllowed(h, chosen)

\* A handler that Docling is not needed for.
LEMMA HandlerIs ==
  ASSUME NEW name, NEW kinds, NEW extensions, NEW h,
         h = [name |-> name, types |-> kinds, extensions |-> extensions, docling |-> FALSE]
  PROVE  IsHandler(h, name, kinds, extensions)
<1>1. h.name = name /\ h.types = kinds /\ h.extensions = extensions /\ h.docling = FALSE
  OBVIOUS
<1> QED
  BY <1>1 DEF IsHandler, ResourceAllowed

\* A handler of one kind of file.
LEMMA NativeIs ==
  ASSUME NEW kind, NEW h, h = Native(kind)
  PROVE  IsHandler(h, kind, {kind}, {kind})
BY HandlerIs DEF Native

\* The names of the handlers, one by one.
LEMMA NamesAre ==
  /\ Names[1] = "text" /\ Names[2] = "markdown" /\ Names[3] = "html" /\ Names[4] = "csv"
  /\ Names[5] = "pdf" /\ Names[6] = "docx" /\ Names[7] = "pptx" /\ Names[8] = "xlsx"
  /\ Names[9] = "zip" /\ Names[10] = "markitdown" /\ Names[11] = "docling"
BY DEF Names

\* The handlers, in the order they are asked; all but the last two without a condition.
LEMMA HandlersAre ==
  /\ DOMAIN DefaultHandlers = 1 .. 11
  /\ \A i \in 1 .. 11 : DefaultHandlers[i].name = Names[i]
  /\ \A i \in 2 .. 9 : IsHandler(DefaultHandlers[i], Names[i], {Names[i]}, {Names[i]})
  /\ IsHandler(DefaultHandlers[1], Names[1], {"text", ""}, {"text", ""})
<1> DEFINE D == DefaultHandlers
<1>1. DOMAIN D = 1 .. 11
  BY DEF DefaultHandlers
<1>2. /\ D[2] = Native("markdown") /\ D[3] = Native("html") /\ D[4] = Native("csv")
      /\ D[5] = Native("pdf") /\ D[6] = Native("docx") /\ D[7] = Native("pptx")
      /\ D[8] = Native("xlsx") /\ D[9] = Native("zip")
  BY DEF DefaultHandlers
<1>3. D[1] = [name |-> "text", types |-> {"text", ""}, extensions |-> {"text", ""}, docling |-> FALSE]
  BY DEF DefaultHandlers
<1>4. D[10].name = "markitdown" /\ D[11].name = "docling"
  BY DEF DefaultHandlers
<1> HIDE DEF D
<1>5. IsHandler(D[1], Names[1], {"text", ""}, {"text", ""})
  <2> DEFINE kinds == {"text", ""}
  <2>1. D[1] = [name |-> "text", types |-> kinds, extensions |-> kinds, docling |-> FALSE]
    BY <1>3
  <2> HIDE DEF kinds
  <2>2. IsHandler(D[1], "text", kinds, kinds)
    BY <2>1, HandlerIs
  <2> QED
    BY <2>2, NamesAre DEF kinds
<1>6. /\ IsHandler(D[2], Names[2], {Names[2]}, {Names[2]})
      /\ IsHandler(D[3], Names[3], {Names[3]}, {Names[3]})
      /\ IsHandler(D[4], Names[4], {Names[4]}, {Names[4]})
      /\ IsHandler(D[5], Names[5], {Names[5]}, {Names[5]})
      /\ IsHandler(D[6], Names[6], {Names[6]}, {Names[6]})
      /\ IsHandler(D[7], Names[7], {Names[7]}, {Names[7]})
      /\ IsHandler(D[8], Names[8], {Names[8]}, {Names[8]})
      /\ IsHandler(D[9], Names[9], {Names[9]}, {Names[9]})
  BY <1>2, NamesAre, NativeIs
<1>7. \A i \in 2 .. 9 : IsHandler(D[i], Names[i], {Names[i]}, {Names[i]})
  <2>1. \A i \in 2 .. 9 : i \in {2, 3, 4, 5, 6, 7, 8, 9}
    OBVIOUS
  <2> QED
    BY <1>6, <2>1
<1>8. \A i \in 1 .. 11 : D[i].name = Names[i]
  <2>1. \A i \in 1 .. 11 : i = 1 \/ i \in 2 .. 9 \/ i = 10 \/ i = 11
    OBVIOUS
  <2> QED
    <3>1. D[1].name = Names[1] /\ \A i \in 2 .. 9 : D[i].name = Names[i]
      BY <1>5, <1>7 DEF IsHandler
    <3>2. D[10].name = Names[10] /\ D[11].name = Names[11]
      BY <1>4, NamesAre
    <3> QED
      BY <2>1, <3>1, <3>2
<1> QED
  BY <1>1, <1>5, <1>7, <1>8 DEF D

\* The least of some numbers.
LEMMA MinIs ==
  ASSUME NEW S \in SUBSET Nat, NEW n \in S
  PROVE  Min(S) \in S /\ \A m \in S : Min(S) <= m
<1> DEFINE K == {k \in Nat : \A m \in S : m <= k => \E x \in S : \A y \in S : x <= y}
<1>1. 0 \in K
  <2> SUFFICES ASSUME NEW m \in S, m <= 0 PROVE \A y \in S : m <= y
    OBVIOUS
  <2> QED
    OBVIOUS
<1>2. ASSUME NEW k \in Nat, k \in K PROVE k + 1 \in K
  <2> SUFFICES ASSUME NEW m \in S, m <= k + 1 PROVE \E x \in S : \A y \in S : x <= y
    OBVIOUS
  <2>1. CASE \A y \in S : m <= y
    BY <2>1
  <2>2. CASE \E y \in S : ~(m <= y)
    <3>1. PICK y \in S : ~(m <= y)
      BY <2>2
    <3>2. y \in Nat /\ m \in Nat
      OBVIOUS
    <3>3. y <= k
      BY <3>1, <3>2
    <3> QED
      BY <1>2, <3>3
  <2> QED
    BY <2>1, <2>2
<1>3. Nat \subseteq K
  <2> HIDE DEF K
  <2> QED
    BY <1>1, <1>2, NatInductionOnSet
<1>4. n \in K
  BY <1>3
<1>5. \E x \in S : \A y \in S : x <= y
  BY <1>4
<1> QED
  BY <1>5 DEF Min

\* Those that may take a source.
LEMMA HandlingIs ==
  ASSUME NEW chosen, NEW type, NEW extension
  PROVE  \A i : i \in Handling(chosen, type, extension) <=>
                  /\ i \in 1 .. 11
                  /\ ResourceAllowed(DefaultHandlers[i], chosen)
                  /\ Matches(DefaultHandlers[i], type, extension)
BY HandlersAre DEF Handling

\* A source that is what it says goes to the handler of its kind.
LEMMA HonestHandling ==
  ASSUME NEW chosen, NEW kind \in TextKinds \cup BinaryKinds
  PROVE  \E n \in Handling(chosen, kind, kind) :
           Names[n] = kind /\ \A m \in Handling(chosen, kind, kind) : n <= m
<1>2. PICK n \in 1 .. 9 : Names[n] = kind
  <2>1. \E n \in {1, 2, 3, 4, 5, 6, 7, 8, 9} : Names[n] = kind
    BY NamesAre DEF TextKinds, BinaryKinds, Archives
  <2> QED
    BY <2>1
<1>3. n \in Handling(chosen, kind, kind)
  <2>0. n = 1 \/ n \in 2 .. 9
    OBVIOUS
  <2>1. ResourceAllowed(DefaultHandlers[n], chosen)
    BY <2>0, HandlersAre DEF IsHandler
  <2>2. Matches(DefaultHandlers[n], kind, kind)
    <3>1. kind \in DefaultHandlers[n].types
      <4>1. CASE n = 1
        <5>1. kind = "text" /\ DefaultHandlers[n].types = {"text", ""}
          BY <1>2, <4>1, NamesAre, HandlersAre DEF IsHandler
        <5> QED
          BY <5>1
      <4>2. CASE n \in 2 .. 9
        <5>1. DefaultHandlers[n].types = {kind}
          BY <1>2, <4>2, HandlersAre DEF IsHandler
        <5> QED
          BY <5>1
      <4> QED
        BY <2>0, <4>1, <4>2
    <3> QED
      BY <3>1 DEF Matches
  <2> QED
    BY <2>1, <2>2, HandlingIs
<1>4. ASSUME NEW m \in Handling(chosen, kind, kind) PROVE n <= m
  <2>1. m \in 1 .. 11 /\ Matches(DefaultHandlers[m], kind, kind)
    BY HandlingIs
  <2>2. CASE m = 1
    <3>1. kind = "text" \/ kind = ""
      BY <2>1, <2>2, HandlersAre DEF Matches, IsHandler
    <3>2. kind = "text"
      BY <3>1 DEF TextKinds, BinaryKinds, Archives
    <3>3. n = 1
      <4>1. n \in {1, 2, 3, 4, 5, 6, 7, 8, 9}
        OBVIOUS
      <4> QED
        BY <1>2, <3>2, <4>1, NamesAre
    <3> QED
      BY <2>2, <3>3
  <2>3. CASE m \in 2 .. 9
    <3>1. Names[m] = kind
      <4>1. DefaultHandlers[m].types = {Names[m]} /\ DefaultHandlers[m].extensions = {Names[m]}
        BY <2>3, HandlersAre DEF IsHandler
      <4> QED
        BY <2>1, <4>1 DEF Matches
    <3>2. n = m
      <4>1. n \in {1, 2, 3, 4, 5, 6, 7, 8, 9} /\ m \in {2, 3, 4, 5, 6, 7, 8, 9}
        BY <2>3
      <4> QED
        BY <1>2, <3>1, <4>1, NamesAre
    <3> QED
      BY <3>2
  <2>4. CASE m > 9
    BY <2>4, <2>1
  <2> QED
    BY <2>1, <2>2, <2>3, <2>4
<1> QED
  BY <1>2, <1>3, <1>4

\* A route that is found is one the policy allows, to a handler that is known.
RouteIsFit(route, chosen, type, extension) ==
  /\ route.error \in {"", "Unsupported", "NeedsDocling"}
  /\ route.error = "" =>
       /\ Allowed(chosen, type, extension)
       /\ route.handler \in Handled
       /\ type = extension /\ type \in TextKinds \cup BinaryKinds => route.handler = type

\* The router.
LEMMA RouteIs ==
  ASSUME NEW chosen, NEW type, NEW extension
  PROVE  RouteIsFit(Route(chosen, type, extension), chosen, type, extension)
<1> DEFINE candidates == Handling(chosen, type, extension)
           found == [error |-> "", handler |-> DefaultHandlers[Min(candidates)].name]
<1>1. \/ Route(chosen, type, extension).error \in {"Unsupported", "NeedsDocling"}
      \/ /\ Route(chosen, type, extension) = found
         /\ Allowed(chosen, type, extension) /\ candidates # {}
  BY DEF Route
<1>2. CASE Allowed(chosen, type, extension) /\ candidates # {}
  <2>1. PICK known \in candidates : TRUE
    BY <1>2
  <2>2. \A j \in candidates : j \in 1 .. 11
    BY HandlingIs
  <2> HIDE DEF candidates
  <2>3. candidates \in SUBSET Nat
    BY <2>2
  <2>4. Min(candidates) \in candidates /\ \A m \in candidates : Min(candidates) <= m
    BY <2>1, <2>3, MinIs
  <2>5. /\ DefaultHandlers[Min(candidates)].name = Names[Min(candidates)]
        /\ Names[Min(candidates)] \in Handled
    <3>1. \A i \in 1 .. 11 : Names[i] \in Handled
      <4>1. \A i \in 1 .. 11 : i \in {1, 2, 3, 4, 5, 6, 7, 8, 9, 10, 11}
        OBVIOUS
      <4> QED
        BY <4>1, NamesAre DEF Handled
    <3> QED
      BY <2>2, <2>4, <3>1, HandlersAre
  <2>6. ASSUME type = extension, type \in TextKinds \cup BinaryKinds
        PROVE  Names[Min(candidates)] = type
    <3>1. PICK n \in candidates : Names[n] = type /\ \A m \in candidates : n <= m
      BY <2>6, HonestHandling DEF candidates
    <3>2. n = Min(candidates)
      <4>1. n \in Nat /\ Min(candidates) \in Nat
        BY <2>3, <2>4
      <4>2. n <= Min(candidates) /\ Min(candidates) <= n
        BY <2>4, <3>1
      <4> QED
        BY <4>1, <4>2
    <3> QED
      BY <3>1, <3>2
  <2>7. RouteIsFit(found, chosen, type, extension)
    BY <1>2, <2>5, <2>6 DEF RouteIsFit
  <2> QED
    BY <1>1, <2>7 DEF RouteIsFit
<1> QED
  BY <1>1, <1>2 DEF RouteIsFit

-----------------------------------------------------------------------------
(* Chunks.                                                                 *)

\* The greatest and the least of the pages of some units are among them.
LEMMA PagesAre ==
  ASSUME NEW S \in SUBSET Nat, IsFiniteSet(S), NEW n \in S
  PROVE  /\ Min(S) \in S /\ Max(S) \in S
         /\ \A m \in S : m \in Min(S) .. Max(S)
<1>1. Min(S) \in S /\ \A m \in S : Min(S) <= m
  BY MinIs
<1>2. Max(S) \in S /\ \A m \in S : m <= Max(S)
  <2> DEFINE N == Cardinality(S)
             o == InOrder(S)
  <2>1. N \in Nat /\ Increasing(o, S)
    BY InOrderIs
  <2> HIDE DEF N, o
  <2>2. /\ o \in [1 .. N -> S] /\ DOMAIN o = 1 .. N
        /\ \A i \in S : \E k \in 1 .. N : o[k] = i
        /\ \A k, m \in 1 .. N : k < m => o[k] < o[m]
    BY <2>1 DEF Increasing, N
  <2>3. N \in 1 .. N
    BY <2>1, <2>2
  <2>4. ASSUME NEW m \in S PROVE o[N] >= m
    <3>1. PICK k \in 1 .. N : o[k] = m
      BY <2>2
    <3>2. k = N \/ k < N
      BY <2>1
    <3>3. o[N] \in Nat /\ m \in Nat
      BY <2>2, <2>3
    <3> QED
      BY <2>2, <2>3, <3>1, <3>2, <3>3
  <2>5. \E x \in S : \A y \in S : x >= y
    BY <2>2, <2>3, <2>4
  <2>6. Max(S) \in S /\ \A y \in S : Max(S) >= y
    BY <2>5 DEF Max
  <2>7. \A y \in S : y \in Nat
    OBVIOUS
  <2> QED
    BY <2>6, <2>7
<1>3. \A m \in S : m \in Nat
  OBVIOUS
<1> QED
  BY <1>1, <1>2, <1>3

\* What SectionAwareChunker.chunk makes of a document.
ChunksOf(made, groups, document) ==
  \/ /\ groups = <<>>
     /\ Len(made) = 1 /\ DOMAIN made = {1} /\ made[1].chunk_index = 0
     /\ made[1].units = <<>> /\ made[1].metadata.pages = <<>>
  \/ /\ groups # <<>>
     /\ Len(made) = Len(groups) /\ DOMAIN made = DOMAIN groups
     /\ \A g \in DOMAIN groups :
          /\ made[g].chunk_index = g - 1
          /\ made[g].units = groups[g]
          /\ made[g].metadata = ChunkMetadata(document, groups[g])

\* Chunk makes one chunk of each group, or one of the URI.
LEMMA ChunkIs ==
  ASSUME NEW document, IsDocument(document)
  PROVE  ChunksOf(Chunk(document), Pack(Units(document)), document)
<1> DEFINE groups == Pack(Units(document))
           fallback == [sections |-> <<>>, headings |-> <<>>, pages |-> <<>>, common |-> {}]
           chunk(g) == [chunk_index |-> g - 1, units |-> groups[g],
                        metadata |-> ChunkMetadata(document, groups[g])]
<1>1. Chunk(document) = IF groups = <<>>
                        THEN <<[chunk_index |-> 0, units |-> <<>>, metadata |-> fallback]>>
                        ELSE [g \in DOMAIN groups |-> chunk(g)]
  BY DEF Chunk
<1>2. groups \in Groups
  <2>1. Units(document) \in Seq(Unit)
    BY UnitsAre DEF UnitsOf
  <2>2. [section |-> 0, paragraph |-> 0, from |-> 0, to |-> 0] \in Unit
    BY DEF Unit
  <2> QED
    BY <2>1, <2>2, PackIs
<1> HIDE DEF groups
<1>3. Len(groups) \in Nat /\ DOMAIN groups = 1 .. Len(groups)
  BY <1>2 DEF Groups
<1>4. CASE groups = <<>>
  <2> DEFINE one == [chunk_index |-> 0, units |-> <<>>, metadata |-> fallback]
  <2>1. one.chunk_index = 0 /\ one.units = <<>> /\ one.metadata.pages = <<>>
    OBVIOUS
  <2> HIDE DEF one
  <2>2. Len(<<one>>) = 1 /\ DOMAIN <<one>> = {1} /\ <<one>>[1] = one
    OBVIOUS
  <2>3. Chunk(document) = <<one>>
    BY <1>1, <1>4 DEF one
  <2> QED
    BY <1>4, <2>1, <2>2, <2>3 DEF ChunksOf, groups
<1>5. CASE groups # <<>>
  <2>1. Chunk(document) = [g \in 1 .. Len(groups) |-> chunk(g)]
    BY <1>1, <1>3, <1>5
  <2>2. \A g : /\ chunk(g).chunk_index = g - 1 /\ chunk(g).units = groups[g]
               /\ chunk(g).metadata = ChunkMetadata(document, groups[g])
    OBVIOUS
  <2> HIDE DEF chunk
  <2>3. Len(Chunk(document)) = Len(groups) /\ DOMAIN Chunk(document) = DOMAIN groups
        /\ \A g \in DOMAIN groups : Chunk(document)[g] = chunk(g)
    BY <1>3, <2>1
  <2> QED
    BY <1>5, <2>2, <2>3 DEF ChunksOf, groups
<1> QED
  BY <1>4, <1>5

\* Two units before one another hold no character in common.
LEMMA HeldOnce ==
  ASSUME NEW u \in Unit, NEW v \in Unit, Before(u, v), NEW i, NEW p, NEW c \in Int,
         Holds(u, i, p, c)
  PROVE  ~ Holds(v, i, p, c)
BY DEF Before, Holds, Unit

\* The order of units is the one in which a reader meets them.
LEMMA BeforePrecedes ==
  ASSUME NEW u \in Unit, NEW v \in Unit, Before(u, v), Fits(u)
  PROVE  Precedes(<<u.section, u.paragraph, u.from>>, <<v.section, v.paragraph, v.from>>)
<1>1. u.from \in Int /\ u.to \in Int /\ v.from \in Int
  BY DEF Unit
<1> QED
  BY <1>1 DEF Before, Precedes, Fits

\* The first and the last page of a chunk.
PagesOf(chunk, document) ==
  LET pages == {document[chunk.units[k].section].page : k \in DOMAIN chunk.units} \ {0}
  IN  /\ chunk.metadata.pages = <<>> <=> pages = {}
      /\ pages # {} =>
           /\ {chunk.metadata.pages[1], chunk.metadata.pages[2]} \subseteq pages
           /\ \A n \in pages : n \in chunk.metadata.pages[1] .. chunk.metadata.pages[2]

\* The pages a chunk cites are the first and the last of its units.
LEMMA MetadataPages ==
  ASSUME NEW document, IsDocument(document), NEW units \in Seq(Unit),
         \A k \in DOMAIN units : units[k].section \in DOMAIN document,
         NEW chunk, chunk.units = units, chunk.metadata = ChunkMetadata(document, units)
  PROVE  PagesOf(chunk, document)
<1> DEFINE page(k) == document[units[k].section].page
           pages == {page(k) : k \in DOMAIN units} \ {0}
<1>1. \A k \in DOMAIN units : page(k) \in Nat
  BY DEF IsDocument, Typed
<1>2. pages \in SUBSET Nat
  BY <1>1
<1>3. IsFiniteSet(pages)
  <2> DEFINE S == DOMAIN units
             T == {page(k) : k \in S}
             f == [k \in S |-> page(k)]
  <2>1. IsFiniteSet(S)
    <3>1. S = 1 .. Len(units) /\ Len(units) \in Int
      OBVIOUS
    <3>2. \A a, b \in Int : IsFiniteSet(a .. b)
      BY FS_Interval
    <3> HIDE DEF S
    <3> QED
      BY <3>1, <3>2
  <2>2. f \in Surjection(S, T)
    BY DEF Surjection
  <2>3. IsFiniteSet(T)
    BY <2>1, <2>2, FS_Surjection
  <2>4. pages \subseteq T
    OBVIOUS
  <2> QED
    BY <2>3, <2>4, FS_Subset
<1>4. chunk.metadata.pages = IF pages = {} THEN <<>> ELSE <<Min(pages), Max(pages)>>
  <2>1. ChunkMetadata(document, units).pages = IF pages = {} THEN <<>> ELSE <<Min(pages), Max(pages)>>
    BY DEF ChunkMetadata
  <2> QED
    BY <2>1
<1>5. pages = {document[chunk.units[k].section].page : k \in DOMAIN chunk.units} \ {0}
  OBVIOUS
<1> HIDE DEF pages
<1>6. CASE pages = {}
  <2> QED
    BY <1>4, <1>5, <1>6 DEF PagesOf
<1>7. CASE pages # {}
  <2>1. PICK n : n \in pages
    BY <1>7
  <2>2. /\ Min(pages) \in pages /\ Max(pages) \in pages
        /\ \A m \in pages : m \in Min(pages) .. Max(pages)
    BY <1>2, <1>3, <2>1, PagesAre
  <2> DEFINE cited == <<Min(pages), Max(pages)>>
  <2>3. cited # <<>> /\ cited[1] = Min(pages) /\ cited[2] = Max(pages)
    OBVIOUS
  <2>4. chunk.metadata.pages = cited
    BY <1>4, <1>7
  <2> HIDE DEF cited
  <2> QED
    BY <1>5, <1>7, <2>2, <2>3, <2>4 DEF PagesOf
<1> QED
  BY <1>6, <1>7

\* A section that holds a character of the text, and the paragraph, are those of the character.
LEMMA CharactersAre ==
  ASSUME IsDocument(cleaned), NEW c \in Characters
  PROVE  /\ c[1] \in DOMAIN cleaned /\ c[3] \in Int
         /\ c[2] \in DOMAIN Paragraphs(cleaned[c[1]].text)
         /\ c[3] \in Written(Paragraphs(cleaned[c[1]].text)[c[2]])
<1>1. PICK i \in DOMAIN cleaned : \E p \in DOMAIN Paragraphs(cleaned[i].text) :
        \E n \in Written(Paragraphs(cleaned[i].text)[p]) : c = <<i, p, n>>
  BY DEF Characters, Written
<1>2. PICK p \in DOMAIN Paragraphs(cleaned[i].text) :
        \E n \in Written(Paragraphs(cleaned[i].text)[p]) : c = <<i, p, n>>
  BY <1>1
<1>5. PICK n \in Written(Paragraphs(cleaned[i].text)[p]) : c = <<i, p, n>>
  BY <1>2
<1>3. c[1] = i /\ c[2] = p /\ c[3] = n
  BY <1>5
<1>4. n \in Int
  BY DEF Written
<1> QED
  BY <1>3, <1>4

\* The chunks of a document hold its units, each in one chunk, in their order.
LEMMA ChunksHoldUnits ==
  ASSUME NEW document, IsDocument(document), NEW made, made = Chunk(document),
         NEW units, units = FlattenSeq([g \in DOMAIN made |-> made[g].units])
  PROVE  /\ UnitsOf(units, document)
         /\ \A g \in DOMAIN made : Joined(made[g].units) <= MaxChars
         /\ \A g \in DOMAIN made : g < Len(made) =>
              Joined(Append(made[g].units, made[g + 1].units[1])) > MaxChars
         /\ \A g \in DOMAIN made : PagesOf(made[g], document)
<1> DEFINE all == Units(document)
           groups == Pack(all)
           of == [g \in DOMAIN made |-> made[g].units]
<1>1. UnitsOf(all, document)
  BY UnitsAre
<1>2. Packs(groups, all)
  BY <1>1, PackPacks DEF UnitsOf
<1>3. ChunksOf(made, groups, document)
  BY ChunkIs
<1> HIDE DEF groups, all
<1>4. groups \in Seq(Seq(Unit)) /\ Len(groups) \in Nat /\ DOMAIN groups = 1 .. Len(groups)
  BY <1>2 DEF Packs, Groups
<1>5. CASE groups = <<>>
  <2>1. all = <<>>
    BY <1>2, <1>5 DEF Packs, FlattenSeq
  <2>2. Len(made) = 1 /\ DOMAIN made = {1} /\ made[1].units = <<>> /\ made[1].metadata.pages = <<>>
    BY <1>3, <1>5 DEF ChunksOf
  <2>3. of = <<<<>>>>
    BY <2>2
  <2>4. units = <<>>
    <3>1. <<>> \in Seq(Seq(Unit)) /\ <<>> \in Seq(Unit) /\ <<<<>>>> = Append(<<>>, <<>>)
      OBVIOUS
    <3>2. FlattenSeq(<<>>) = <<>> /\ FlattenSeq(<<<<>>>>) = FlattenSeq(<<>>) \o <<>>
      BY <3>1, FlattenIs
    <3> QED
      BY <2>3, <3>2
  <2>5. PagesOf(made[1], document)
    <3>1. {document[made[1].units[k].section].page : k \in DOMAIN made[1].units} \ {0} = {}
      BY <2>2
    <3> QED
      BY <2>2, <3>1 DEF PagesOf
  <2>6. Joined(made[1].units) <= MaxChars
    BY <2>2, JoinedIs, ChunkingAssumption
  <2> QED
    BY <1>1, <2>1, <2>2, <2>4, <2>5, <2>6
<1>6. CASE groups # <<>>
  <2>1. /\ Len(made) = Len(groups) /\ DOMAIN made = DOMAIN groups
        /\ \A g \in DOMAIN groups : /\ made[g].units = groups[g]
                                    /\ made[g].metadata = ChunkMetadata(document, groups[g])
    BY <1>3, <1>6 DEF ChunksOf
  <2>2. of = groups
    <3>1. \A g \in 1 .. Len(groups) : of[g] = groups[g]
      BY <1>4, <2>1
    <3>2. of = [g \in 1 .. Len(groups) |-> of[g]] /\ groups = [g \in 1 .. Len(groups) |-> groups[g]]
      <4> DEFINE V == Seq(Unit)
      <4>1. groups \in Seq(V)
        BY <1>4
      <4> HIDE DEF V
      <4>2. groups = [g \in 1 .. Len(groups) |-> groups[g]]
        BY <4>1
      <4> QED
        BY <1>4, <2>1, <4>2
    <3> HIDE DEF of
    <3> QED
      BY <3>1, <3>2
  <2>3. units = all
    BY <1>2, <2>2 DEF Packs
  <2>4. \A g \in DOMAIN made : Joined(made[g].units) <= MaxChars
    BY <1>2, <2>1 DEF Packs
  <2>5. ASSUME NEW g \in DOMAIN made, g < Len(made)
        PROVE  Joined(Append(made[g].units, made[g + 1].units[1])) > MaxChars
    <3>1. g \in DOMAIN groups /\ g + 1 \in DOMAIN groups
      BY <1>4, <2>1, <2>5
    <3> DEFINE h == g + 1
    <3>2. h \in DOMAIN groups /\ h = g + 1
      BY <3>1
    <3> HIDE DEF h
    <3>3. Joined(Append(groups[g], groups[h][1])) > MaxChars
      BY <1>2, <3>1, <3>2 DEF Packs
    <3> QED
      BY <2>1, <3>1, <3>2, <3>3
  <2>6. ASSUME NEW g \in DOMAIN made PROVE PagesOf(made[g], document)
    <3>1. groups[g] \in Seq(Unit) /\ g \in DOMAIN groups
      BY <1>4, <2>1
    <3>2. SameElements(FlattenSeq(groups), groups)
      BY <1>4, FlattenElements
    <3>3. ASSUME NEW k \in DOMAIN groups[g] PROVE groups[g][k].section \in DOMAIN document
      <4>1. PICK m \in DOMAIN FlattenSeq(groups) : FlattenSeq(groups)[m] = groups[g][k]
        BY <3>1, <3>2 DEF SameElements
      <4>2. m \in DOMAIN all /\ all[m] = groups[g][k]
        BY <1>2, <4>1 DEF Packs
      <4> QED
        BY <1>1, <4>2 DEF UnitsOf
    <3>4. made[g].units = groups[g] /\ made[g].metadata = ChunkMetadata(document, groups[g])
      BY SMTT(40), <2>1
    <3> QED
      BY <3>1, <3>3, <3>4, MetadataPages
  <2> QED
    BY <1>1, <2>3, <2>4, <2>5, <2>6
<1> QED
  BY <1>5, <1>6

\* The chunks of a document cover it.
LEMMA CoverIs ==
  ASSUME IsDocument(cleaned), chunks = Chunk(cleaned)
  PROVE  ChunksCover
<1> DEFINE units == FlattenSeq([g \in DOMAIN chunks |-> chunks[g].units])
           held(k, c) == /\ units[k].section = c[1] /\ units[k].paragraph = c[2]
                         /\ c[3] \in units[k].from .. units[k].to - 1
<1>1. /\ UnitsOf(units, cleaned)
      /\ \A g \in DOMAIN chunks : Joined(chunks[g].units) <= MaxChars
      /\ \A g \in DOMAIN chunks : g < Len(chunks) =>
           Joined(Append(chunks[g].units, chunks[g + 1].units[1])) > MaxChars
      /\ \A g \in DOMAIN chunks : PagesOf(chunks[g], cleaned)
  BY ChunksHoldUnits
<1>2. units \in Seq(Unit)
  BY <1>1 DEF UnitsOf
<1>0. UnitsOf(units, cleaned)
  BY <1>1
<1> HIDE DEF units
<1>3. /\ Len(units) \in Nat /\ DOMAIN units = 1 .. Len(units)
      /\ \A k \in DOMAIN units : units[k] \in Unit /\ units[k].from \in Int /\ units[k].to \in Int
  <2>1. \A k \in DOMAIN units : units[k] \in Unit
    BY <1>2
  <2> QED
    BY <1>2, <2>1 DEF Unit
<1>4. \A k, m \in DOMAIN units : k < m => Before(units[k], units[m])
  BY <1>0, <1>3, UnitOrderIs DEF UnitsOf, InOrderBy
<1>5. ASSUME NEW c \in Characters
      PROVE  Cardinality({k \in DOMAIN units : held(k, c)}) = 1
  <2>1. /\ c[1] \in DOMAIN cleaned /\ c[3] \in Int
        /\ c[2] \in DOMAIN Paragraphs(cleaned[c[1]].text)
        /\ c[3] \in Written(Paragraphs(cleaned[c[1]].text)[c[2]])
    BY CharactersAre
  <2>2. \A k \in DOMAIN units : held(k, c) <=> Holds(units[k], c[1], c[2], c[3])
    BY <1>3, <2>1 DEF Holds
  <2>3. PICK k \in DOMAIN units : Holds(units[k], c[1], c[2], c[3])
    BY <1>0, <2>1 DEF UnitsOf, Covers
  <2>4. ASSUME NEW m \in DOMAIN units, m # k PROVE ~ Holds(units[m], c[1], c[2], c[3])
    <3>1. k < m \/ m < k
      BY <1>3, <2>4
    <3> QED
      BY <1>3, <1>4, <2>1, <2>3, <3>1, HeldOnce
  <2> HIDE DEF held
  <2>5. {m \in DOMAIN units : held(m, c)} = {k}
    BY <2>2, <2>3, <2>4
  <2> QED
    BY <2>5, FS_Singleton
<1>6. ASSUME NEW k \in 1 .. Len(units) - 1
      PROVE  Precedes(<<units[k].section, units[k].paragraph, units[k].from>>,
                      <<units[k + 1].section, units[k + 1].paragraph, units[k + 1].from>>)
  <2>1. k \in DOMAIN units /\ k + 1 \in DOMAIN units /\ k < k + 1
    BY <1>3
  <2>2. Before(units[k], units[k + 1]) /\ Fits(units[k])
    BY <1>0, <1>4, <2>1 DEF UnitsOf
  <2> QED
    BY SMTT(40), <1>3, <2>1, <2>2, BeforePrecedes
<1>7. ASSUME NEW g \in DOMAIN chunks
      PROVE  LET pages == {cleaned[chunks[g].units[k].section].page :
                             k \in DOMAIN chunks[g].units} \ {0}
             IN  /\ chunks[g].metadata.pages = <<>> <=> pages = {}
                 /\ pages # {} =>
                      /\ {chunks[g].metadata.pages[1], chunks[g].metadata.pages[2]} \subseteq pages
                      /\ \A n \in pages :
                           n \in chunks[g].metadata.pages[1] .. chunks[g].metadata.pages[2]
  BY <1>1 DEF PagesOf
<1> QED
  BY ZenonT(60), <1>1, <1>5, <1>6, <1>7 DEF ChunksCover, units

-----------------------------------------------------------------------------
(* Sequences picked from others.                                           *)

\* Sequences with the same elements.
LEMMA SameSequence ==
  ASSUME NEW T, NEW xs \in Seq(T), NEW ys \in Seq(T), Len(xs) = Len(ys),
         \A k \in 1 .. Len(xs) : xs[k] = ys[k]
  PROVE  xs = ys
OBVIOUS

\* A list of S in increasing order.
Enumerates(r, n, S) ==
  /\ n \in Nat
  /\ r \in [1 .. n -> S]
  /\ \A i \in S : \E k \in 1 .. n : r[k] = i
  /\ \A k, m \in 1 .. n : k < m => r[k] < r[m]

\* There is one such list, which is InOrder.
LEMMA EnumeratesIs ==
  ASSUME NEW S \in SUBSET Nat, NEW n, NEW r, Enumerates(r, n, S)
  PROVE  IsFiniteSet(S) /\ Cardinality(S) = n /\ InOrder(S) = r
<1> DEFINE o == InOrder(S)
<1>0. n \in Nat /\ r \in [1 .. n -> S] /\ \A i \in S : i \in Nat
  BY DEF Enumerates
<1>1. \A k, m \in 1 .. n : r[k] = r[m] => k = m
  <2> SUFFICES ASSUME NEW k \in 1 .. n, NEW m \in 1 .. n, r[k] = r[m], k # m PROVE FALSE
    OBVIOUS
  <2>1. k < m \/ m < k
    BY <1>0
  <2>2. r[k] \in Nat
    BY <1>0
  <2> QED
    BY <2>1, <2>2 DEF Enumerates
<1>2. r \in Bijection(1 .. n, S)
  BY <1>1 DEF Enumerates, Bijection, Injection, Surjection, IsInjective
<1>3. IsFiniteSet(1 .. n) /\ Cardinality(1 .. n) = n
  BY <1>0, FS_Interval
<1>4. IsFiniteSet(S) /\ Cardinality(S) = n
  <2>1. ExistsBijection(1 .. n, S)
    BY <1>2 DEF ExistsBijection
  <2> QED
    BY <1>3, <2>1, FS_Bijection
<1>5. Increasing(o, S)
  BY <1>4, InOrderIs
<1> HIDE DEF o
<1>6. /\ o \in [1 .. n -> S]
      /\ \A i \in S : \E k \in 1 .. n : o[k] = i
      /\ \A k, m \in 1 .. n : k < m => o[k] < o[m]
  BY <1>4, <1>5 DEF Increasing
<1> DEFINE T == {k \in Nat : \A j \in 1 .. n : j <= k => o[j] = r[j]}
<1>7. 0 \in T
  OBVIOUS
<1>8. ASSUME NEW k \in Nat, k \in T PROVE k + 1 \in T
  <2> SUFFICES ASSUME k + 1 \in 1 .. n PROVE o[k + 1] = r[k + 1]
    <3> QED
      BY <1>8, <1>0
  <2>1. \A j \in 1 .. n : j < k + 1 => o[j] = r[j]
    BY <1>8, <1>0
  <2>2. o[k + 1] \in Nat /\ r[k + 1] \in Nat /\ o[k + 1] \in S /\ r[k + 1] \in S
    BY <1>0, <1>6
  <2>3. CASE o[k + 1] < r[k + 1]
    <3>1. PICK j \in 1 .. n : r[j] = o[k + 1]
      BY <2>2 DEF Enumerates
    <3>2. j < k + 1
      <4>1. j = k + 1 \/ k + 1 < j \/ j < k + 1
        BY <1>0
      <4>2. k + 1 < j => r[k + 1] < r[j]
        BY DEF Enumerates
      <4> QED
        BY <2>2, <2>3, <3>1, <4>1, <4>2
    <3> QED
      BY <1>6, <2>1, <2>2, <3>1, <3>2
  <2>4. CASE r[k + 1] < o[k + 1]
    <3>1. PICK j \in 1 .. n : o[j] = r[k + 1]
      BY <2>2, <1>6
    <3>2. j < k + 1
      <4>1. j = k + 1 \/ k + 1 < j \/ j < k + 1
        BY <1>0
      <4>2. k + 1 < j => o[k + 1] < o[j]
        BY <1>6
      <4> QED
        BY <2>2, <2>4, <3>1, <4>1, <4>2
    <3>3. r[j] < r[k + 1]
      BY <3>2 DEF Enumerates
    <3> QED
      BY <2>1, <2>2, <3>1, <3>2, <3>3
  <2> QED
    BY <2>2, <2>3, <2>4
<1>9. Nat \subseteq T
  <2> HIDE DEF T
  <2> QED
    BY <1>7, <1>8, NatInductionOnSet
<1>10. \A j \in 1 .. n : o[j] = r[j]
  BY <1>0, <1>9
<1> QED
  BY <1>0, <1>4, <1>6, <1>10 DEF o

\* The order of positions of a sequence is such a list.
LEMMA Enumerated ==
  ASSUME NEW T, NEW xs \in Seq(T), NEW K \in SUBSET (DOMAIN xs)
  PROVE  \E o : Enumerates(o, Cardinality(K), K)
<1>1. Len(xs) \in Nat /\ DOMAIN xs = 1 .. Len(xs) /\ K \in SUBSET Nat
  OBVIOUS
<1>2. IsFiniteSet(1 .. Len(xs))
  BY <1>1, FS_Interval
<1>3. IsFiniteSet(K)
  BY <1>1, <1>2, FS_Subset
<1>4. Cardinality(K) \in Nat /\ Increasing(InOrder(K), K)
  BY <1>1, <1>3, InOrderIs
<1>5. Enumerates(InOrder(K), Cardinality(K), K)
  BY <1>4 DEF Increasing, Enumerates
<1> QED
  BY <1>5

\* What is picked, given the order.
LEMMA PickBy ==
  ASSUME NEW T, NEW xs \in Seq(T), NEW K \in SUBSET (DOMAIN xs), NEW n, NEW r, Enumerates(r, n, K)
  PROVE  /\ Pick(xs, K) = [k \in 1 .. n |-> xs[r[k]]]
         /\ Pick(xs, K) \in Seq(T)
         /\ Len(Pick(xs, K)) = n
         /\ DOMAIN Pick(xs, K) = 1 .. n
         /\ \A k \in 1 .. n : Pick(xs, K)[k] = xs[r[k]]
<1>1. K \in SUBSET Nat
  OBVIOUS
<1>2. InOrder(K) = r
  BY <1>1, EnumeratesIs
<1>3. n \in Nat /\ r \in [1 .. n -> K] /\ DOMAIN r = 1 .. n
  BY DEF Enumerates
<1>4. Pick(xs, K) = [k \in 1 .. n |-> xs[r[k]]]
  BY <1>2, <1>3 DEF Pick
<1>5. \A k \in 1 .. n : xs[r[k]] \in T
  BY <1>3
<1> QED
  BY <1>3, <1>4, <1>5

\* The same, said of a sequence.
PickedIn(p, xs, r, n, T) ==
  /\ n \in Nat /\ p \in Seq(T) /\ Len(p) = n /\ DOMAIN p = 1 .. n
  /\ \A k \in 1 .. n : p[k] = xs[r[k]]

\* What is picked is typed, and found at the positions in their order.
LEMMA PickIn ==
  ASSUME NEW T, NEW xs \in Seq(T), NEW K \in SUBSET (DOMAIN xs), NEW n, NEW r, Enumerates(r, n, K)
  PROVE  PickedIn(Pick(xs, K), xs, r, n, T)
<1> DEFINE p == Pick(xs, K)
<1>1. /\ p \in Seq(T) /\ Len(p) = n /\ DOMAIN p = 1 .. n
      /\ \A k \in 1 .. n : p[k] = xs[r[k]]
  BY PickBy
<1> HIDE DEF p
<1>2. PickedIn(p, xs, r, n, T)
  BY <1>1 DEF PickedIn, Enumerates
<1> QED
  BY <1>2 DEF p

\* Picking what comes first and what comes after it.
LEMMA PickSplit ==
  ASSUME NEW T, NEW xs \in Seq(T), NEW A \in SUBSET (DOMAIN xs), NEW B \in SUBSET (DOMAIN xs),
         \A a \in A, b \in B : a < b
  PROVE  Pick(xs, A \cup B) = Pick(xs, A) \o Pick(xs, B)
<1> DEFINE n == Cardinality(A)
           m == Cardinality(B)
<1>1. PICK p : Enumerates(p, n, A)
  BY Enumerated
<1>2. PICK q : Enumerates(q, m, B)
  BY Enumerated
<1> HIDE DEF n, m
<1> DEFINE r == [k \in 1 .. n + m |-> IF k <= n THEN p[k] ELSE q[k - n]]
<1>3. n \in Nat /\ m \in Nat /\ n + m \in Nat
  BY <1>1, <1>2 DEF Enumerates
<1>4. Enumerates(r, n + m, A \cup B)
  <2>1. r \in [1 .. n + m -> A \cup B]
    <3>1. ASSUME NEW k \in 1 .. n + m PROVE r[k] \in A \cup B
      <4>1. CASE k <= n
        BY <1>1, <1>3, <4>1 DEF Enumerates
      <4>2. CASE ~ (k <= n)
        <5>1. k - n \in 1 .. m
          BY <1>3, <4>2
        <5> QED
          BY <1>2, <1>3, <4>2, <5>1 DEF Enumerates
      <4> QED
        BY <4>1, <4>2
    <3> QED
      BY <3>1
  <2>2. ASSUME NEW i \in A \cup B PROVE \E k \in 1 .. n + m : r[k] = i
    <3>1. CASE i \in A
      <4>1. PICK k \in 1 .. n : p[k] = i
        BY <1>1, <3>1 DEF Enumerates
      <4> QED
        BY <1>3, <4>1
    <3>2. CASE i \in B
      <4>1. PICK k \in 1 .. m : q[k] = i
        BY <1>2, <3>2 DEF Enumerates
      <4>2. k + n \in 1 .. n + m /\ ~ (k + n <= n) /\ (k + n) - n = k
        BY <1>3
      <4> QED
        BY <4>1, <4>2
    <3> QED
      BY <3>1, <3>2
  <2>3. ASSUME NEW k \in 1 .. n + m, NEW h \in 1 .. n + m, k < h PROVE r[k] < r[h]
    <3>1. CASE h <= n
      <4>1. k \in 1 .. n /\ h \in 1 .. n
        BY <1>3, <2>3, <3>1
      <4> QED
        BY <1>1, <2>3, <4>1 DEF Enumerates
    <3>2. CASE k <= n /\ ~ (h <= n)
      <4>1. k \in 1 .. n /\ h - n \in 1 .. m
        BY <1>3, <3>2
      <4>2. p[k] \in A /\ q[h - n] \in B
        BY <1>1, <1>2, <4>1 DEF Enumerates
      <4> QED
        BY <3>2, <4>2
    <3>3. CASE ~ (k <= n)
      <4>1. k - n \in 1 .. m /\ h - n \in 1 .. m /\ k - n < h - n /\ ~ (h <= n)
        BY <1>3, <2>3, <3>3
      <4>2. q[k - n] < q[h - n]
        BY <1>2, <4>1 DEF Enumerates
      <4> QED
        BY <3>3, <4>1, <4>2
    <3> QED
      BY <1>3, <3>1, <3>2, <3>3
  <2> HIDE DEF r
  <2> QED
    BY <1>3, <2>1, <2>2, <2>3 DEF Enumerates
<1> DEFINE U == A \cup B
           N == n + m
           a == Pick(xs, A)
           b == Pick(xs, B)
           c == Pick(xs, U)
<1>5. \A k \in 1 .. N : r[k] = IF k <= n THEN p[k] ELSE q[k - n]
  OBVIOUS
<1>6. U \in SUBSET (DOMAIN xs)
  OBVIOUS
<1>7. Enumerates(r, N, U)
  BY <1>4
<1> HIDE DEF U, N, r
<1>8. c \in Seq(T) /\ Len(c) = N /\ \A k \in 1 .. N : c[k] = xs[r[k]]
  BY <1>6, <1>7, PickBy
<1>9. a \in Seq(T) /\ Len(a) = n /\ \A k \in 1 .. n : a[k] = xs[p[k]]
  BY <1>1, PickBy
<1>10. b \in Seq(T) /\ Len(b) = m /\ \A k \in 1 .. m : b[k] = xs[q[k]]
  BY <1>2, PickBy
<1> HIDE DEF a, b, c
<1>11. /\ a \o b \in Seq(T) /\ Len(a \o b) = N
       /\ \A k \in 1 .. N : (a \o b)[k] = IF k <= n THEN a[k] ELSE b[k - n]
  <2>1. /\ a \o b \in Seq(T) /\ Len(a \o b) = Len(a) + Len(b)
        /\ \A k \in 1 .. Len(a) + Len(b) : (a \o b)[k] = IF k <= Len(a) THEN a[k] ELSE b[k - Len(a)]
    BY ZenonT(60), <1>9, <1>10, ConcatProperties
  <2> QED
    BY <1>9, <1>10, <2>1 DEF N
<1>12. ASSUME NEW k \in 1 .. N PROVE c[k] = (a \o b)[k]
  <2>1. CASE k <= n
    <3>1. k \in 1 .. n
      BY <1>3, <2>1 DEF N
    <3> QED
      <4>1. c[k] = xs[p[k]]
        BY <1>5, <1>8, <2>1
      <4>2. a[k] = xs[p[k]]
        BY <1>9, <3>1
      <4>3. (a \o b)[k] = a[k]
        BY <1>11, <2>1
      <4> QED
        BY <4>1, <4>2, <4>3
  <2>2. CASE ~ (k <= n)
    <3>1. k - n \in 1 .. m
      BY <1>3, <2>2 DEF N
    <3>2. c[k] = xs[q[k - n]]
      BY <1>5, <1>8, <2>2
    <3>3. b[k - n] = xs[q[k - n]]
      BY <1>10, <3>1
    <3>4. (a \o b)[k] = b[k - n]
      BY <1>11, <2>2
    <3> QED
      BY <3>2, <3>3, <3>4
  <2> QED
    BY <2>1, <2>2
<1>13. c = a \o b
  BY <1>8, <1>11, <1>12, SameSequence
<1> QED
  BY <1>13 DEF a, b, c, U

-----------------------------------------------------------------------------
\* Picking nothing, all, or one.
LEMMA PickEnds ==
  ASSUME NEW T, NEW xs \in Seq(T)
  PROVE  /\ Pick(xs, {}) = <<>>
         /\ Pick(xs, DOMAIN xs) = xs
         /\ \A i \in DOMAIN xs : Pick(xs, {i}) = <<xs[i]>>
<1>0. Len(xs) \in Nat /\ DOMAIN xs = 1 .. Len(xs)
  OBVIOUS
<1>1. Pick(xs, {}) = <<>>
  <2>1. Enumerates(<<>>, 0, {})
    BY DEF Enumerates
  <2> DEFINE N == {}
  <2>2. N \in SUBSET (DOMAIN xs)
    OBVIOUS
  <2>3. Pick(xs, N) \in Seq(T) /\ Len(Pick(xs, N)) = 0
    <3> HIDE DEF N
    <3>1. N = {}
      BY DEF N
    <3> QED
      BY <2>1, <2>2, <3>1, PickBy
  <2> QED
    BY <2>3
<1>2. Pick(xs, DOMAIN xs) = xs
  <2> DEFINE r == [k \in 1 .. Len(xs) |-> k]
             D == DOMAIN xs
  <2>1. Enumerates(r, Len(xs), D)
    BY <1>0 DEF Enumerates
  <2>2. \A k \in 1 .. Len(xs) : r[k] = k
    OBVIOUS
  <2> HIDE DEF r
  <2>3. /\ Pick(xs, D) \in Seq(T) /\ Len(Pick(xs, D)) = Len(xs)
        /\ \A k \in 1 .. Len(xs) : Pick(xs, D)[k] = xs[r[k]]
    <3>1. D \in SUBSET (DOMAIN xs)
      OBVIOUS
    <3> HIDE DEF D
    <3> QED
      BY <2>1, <3>1, PickBy
  <2> DEFINE p == Pick(xs, D)
  <2>4. p \in Seq(T) /\ Len(p) = Len(xs) /\ \A k \in 1 .. Len(xs) : p[k] = xs[k]
    BY <2>2, <2>3
  <2> HIDE DEF p
  <2>5. p = xs
    BY <2>4, SameSequence
  <2> QED
    BY <2>5 DEF p
<1>3. ASSUME NEW i \in DOMAIN xs PROVE Pick(xs, {i}) = <<xs[i]>>
  <2> DEFINE r == [k \in 1 .. 1 |-> i]
             D == {i}
             p == Pick(xs, D)
  <2>1. Enumerates(r, 1, D)
    BY DEF Enumerates
  <2>2. D \in SUBSET (DOMAIN xs) /\ r[1] = i
    OBVIOUS
  <2> HIDE DEF r, D
  <2>3. PickedIn(p, xs, r, 1, T)
    BY <2>1, <2>2, PickIn
  <2> HIDE DEF p
  <2>4. p = <<xs[i]>>
    BY <2>2, <2>3 DEF PickedIn
  <2> QED
    BY <2>4 DEF p, D
<1> QED
  BY <1>1, <1>2, <1>3

\* What is picked depends on the elements at the positions alone.
AlikeAt(xs, ys, K) ==
  K \in SUBSET (DOMAIN xs) /\ K \in SUBSET (DOMAIN ys) /\ \A k \in K : xs[k] = ys[k]

\* Two sequences that are alike there have the same elements picked.
LEMMA PickWithin ==
  ASSUME NEW T, NEW xs \in Seq(T), NEW ys \in Seq(T), NEW K, AlikeAt(xs, ys, K)
  PROVE  Pick(xs, K) = Pick(ys, K)
<1>0. K \in SUBSET (DOMAIN xs) /\ K \in SUBSET (DOMAIN ys) /\ \A k \in K : xs[k] = ys[k]
  BY DEF AlikeAt
<1>1. PICK o : Enumerates(o, Cardinality(K), K)
  BY <1>0, Enumerated
<1> DEFINE n == Cardinality(K)
           p == Pick(xs, K)
           q == Pick(ys, K)
<1>2. p \in Seq(T) /\ Len(p) = n /\ \A k \in 1 .. n : p[k] = xs[o[k]]
  BY <1>0, <1>1, PickBy
<1>3. q \in Seq(T) /\ Len(q) = n /\ \A k \in 1 .. n : q[k] = ys[o[k]]
  BY <1>0, <1>1, PickBy
<1>4. \A k \in 1 .. n : o[k] \in K
  BY <1>1 DEF Enumerates
<1> HIDE DEF n, p, q
<1>5. p = q
  BY SMTT(40), <1>0, <1>2, <1>3, <1>4, SameSequence
<1> QED
  BY <1>5 DEF p, q

\* Positions in the second of two sequences, in their concatenation.
Shifted(n, K) == {n + k : k \in K}

\* Picking from the second of two sequences.
LEMMA PickShifted ==
  ASSUME NEW T, NEW xs \in Seq(T), NEW ys \in Seq(T), NEW K \in SUBSET (DOMAIN ys),
         NEW S, S = Shifted(Len(xs), K)
  PROVE  /\ S \in SUBSET (DOMAIN (xs \o ys))
         /\ Pick(xs \o ys, S) = Pick(ys, K)
<1> DEFINE zs == xs \o ys
           n == Len(xs)
           m == Cardinality(K)
           q == Pick(ys, K)
           p == Pick(zs, S)
<1>1. PICK o : Enumerates(o, m, K)
  BY Enumerated
<1>2. /\ zs \in Seq(T) /\ Len(zs) = n + Len(ys)
      /\ \A k \in 1 .. Len(ys) : zs[n + k] = ys[k]
  <2>1. /\ zs \in Seq(T) /\ Len(zs) = Len(xs) + Len(ys)
        /\ \A k \in 1 .. Len(xs) + Len(ys) : zs[k] = IF k <= Len(xs) THEN xs[k] ELSE ys[k - Len(xs)]
    BY ConcatProperties
  <2>2. n \in Nat /\ Len(ys) \in Nat
    OBVIOUS
  <2> HIDE DEF zs
  <2>3. ASSUME NEW k \in 1 .. Len(ys) PROVE zs[n + k] = ys[k]
    <3>1. n + k \in 1 .. n + Len(ys) /\ ~ (n + k <= n) /\ (n + k) - n = k
      BY <2>2
    <3> QED
      BY <2>1, <3>1
  <2> QED
    BY <2>1, <2>3
<1>3. m \in Nat /\ n \in Nat /\ Len(ys) \in Nat /\ K \in SUBSET (1 .. Len(ys))
  BY <1>1 DEF Enumerates
<1> HIDE DEF zs, n, m
<1>4. S \in SUBSET (DOMAIN zs)
  BY <1>2, <1>3 DEF Shifted, n
<1> DEFINE r == [k \in 1 .. m |-> n + o[k]]
<1>5. Enumerates(r, m, S)
  <2>1. r \in [1 .. m -> S]
    BY <1>1 DEF Enumerates, Shifted, n
  <2>2. ASSUME NEW i \in S PROVE \E k \in 1 .. m : r[k] = i
    <3>1. PICK j \in K : i = n + j
      BY DEF Shifted, n
    <3>2. PICK k \in 1 .. m : o[k] = j
      BY <1>1 DEF Enumerates
    <3> QED
      BY <3>1, <3>2
  <2>3. ASSUME NEW k \in 1 .. m, NEW h \in 1 .. m, k < h PROVE r[k] < r[h]
    <3>1. o[k] < o[h] /\ o[k] \in Nat /\ o[h] \in Nat
      BY <1>1, <1>3, <2>3 DEF Enumerates
    <3> QED
      BY <1>3, <3>1
  <2> HIDE DEF r
  <2> QED
    BY <1>3, <2>1, <2>2, <2>3 DEF Enumerates
<1>6. \A k \in 1 .. m : r[k] = n + o[k]
  OBVIOUS
<1> HIDE DEF r
<1>7. p \in Seq(T) /\ Len(p) = m /\ \A k \in 1 .. m : p[k] = zs[r[k]]
  BY <1>2, <1>4, <1>5, PickBy
<1>8. q \in Seq(T) /\ Len(q) = m /\ \A k \in 1 .. m : q[k] = ys[o[k]]
  BY <1>1, PickBy DEF m
<1> HIDE DEF p, q
<1>9. ASSUME NEW k \in 1 .. m PROVE p[k] = q[k]
  <2>1. o[k] \in 1 .. Len(ys)
    BY <1>1, <1>3 DEF Enumerates
  <2> QED
    BY ZenonT(60), <1>2, <1>6, <1>7, <1>8, <2>1
<1>10. p = q
  BY <1>7, <1>8, <1>9, SameSequence
<1> QED
  BY <1>4, <1>10 DEF p, q, zs

\* Picking from two sequences at once.
IsJoined(zs, xs, ys) == zs = xs \o ys

PickJoined(C, zs, xs, A, ys, B) ==
  C \in SUBSET (DOMAIN zs) /\ Pick(zs, C) = Pick(xs, A) \o Pick(ys, B)

\* It is picking from each, one after the other.
LEMMA PickConcat ==
  ASSUME NEW T, NEW xs \in Seq(T), NEW ys \in Seq(T), NEW A \in SUBSET (DOMAIN xs),
         NEW B \in SUBSET (DOMAIN ys), NEW zs, IsJoined(zs, xs, ys)
  PROVE  PickJoined(A \cup Shifted(Len(xs), B), zs, xs, A, ys, B)
<1> DEFINE S == Shifted(Len(xs), B)
<1>1. zs \in Seq(T) /\ Len(zs) = Len(xs) + Len(ys) /\ \A k \in 1 .. Len(xs) : zs[k] = xs[k]
  <2>1. /\ zs \in Seq(T) /\ Len(zs) = Len(xs) + Len(ys)
        /\ \A k \in 1 .. Len(xs) + Len(ys) : zs[k] = IF k <= Len(xs) THEN xs[k] ELSE ys[k - Len(xs)]
    BY ConcatProperties DEF IsJoined
  <2>2. Len(xs) \in Nat /\ Len(ys) \in Nat
    OBVIOUS
  <2> QED
    BY <2>1, <2>2
<1>2. S \in SUBSET (DOMAIN zs) /\ Pick(zs, S) = Pick(ys, B)
  BY PickShifted DEF IsJoined
<1>3. Len(xs) \in Nat /\ A \in SUBSET (1 .. Len(xs)) /\ B \in SUBSET (1 .. Len(ys)) /\ Len(ys) \in Nat
  OBVIOUS
<1>4. A \in SUBSET (DOMAIN zs)
  BY <1>1, <1>3
<1>5. Pick(zs, A) = Pick(xs, A)
  <2>1. AlikeAt(zs, xs, A)
    BY <1>1, <1>3, <1>4 DEF AlikeAt
  <2> QED
    BY <1>1, <2>1, PickWithin
<1>6. \A a \in A, b \in S : a < b
  BY <1>3 DEF Shifted
<1> HIDE DEF S
<1>7. Pick(zs, A \cup S) = Pick(zs, A) \o Pick(zs, S)
  BY <1>1, <1>2, <1>4, <1>6, PickSplit
<1> QED
  BY <1>2, <1>4, <1>5, <1>7 DEF PickJoined, S

\* Picking from what was picked.
IsImage(C, o, B) == C = {o[b] : b \in B}

PickedAgain(p, B, xs, C) == Pick(p, B) = Pick(xs, C)

\* It is picking once, at fewer positions.
LEMMA PickPick ==
  ASSUME NEW T, NEW xs \in Seq(T), NEW A \in SUBSET (DOMAIN xs), NEW n, NEW o,
         Enumerates(o, n, A), NEW B \in SUBSET (1 .. n), NEW C, IsImage(C, o, B)
  PROVE  C \in SUBSET A /\ PickedAgain(Pick(xs, A), B, xs, C)
<1> DEFINE p == Pick(xs, A)
           q == Pick(p, B)
           m == Cardinality(B)
<1>0. o \in [1 .. n -> A] /\ n \in Nat /\ A \in SUBSET Nat
  BY DEF Enumerates
<1>1. p \in Seq(T) /\ Len(p) = n /\ DOMAIN p = 1 .. n /\ \A k \in 1 .. n : p[k] = xs[o[k]]
  BY PickBy
<1>2. C \in SUBSET A /\ C \in SUBSET (DOMAIN xs)
  BY <1>0 DEF IsImage
<1> HIDE DEF p
<1>3. PICK e : Enumerates(e, m, B)
  BY <1>1, Enumerated
<1>4. m \in Nat /\ e \in [1 .. m -> B]
  BY <1>3 DEF Enumerates
<1>5. q \in Seq(T) /\ Len(q) = m /\ \A k \in 1 .. m : q[k] = p[e[k]]
  <2>1. p \in Seq(T) /\ B \in SUBSET (DOMAIN p)
    BY <1>1
  <2>2. PickedIn(q, p, e, m, T)
    BY <1>3, <2>1, PickIn
  <2> QED
    BY <2>2 DEF PickedIn
<1> HIDE DEF q, m
<1> DEFINE r == [k \in 1 .. m |-> o[e[k]]]
<1>6. Enumerates(r, m, C)
  <2>1. r \in [1 .. m -> C]
    BY <1>4 DEF IsImage
  <2>2. ASSUME NEW i \in C PROVE \E k \in 1 .. m : r[k] = i
    <3>1. PICK b \in B : i = o[b]
      BY DEF IsImage
    <3>2. PICK k \in 1 .. m : e[k] = b
      BY <1>3 DEF Enumerates
    <3> QED
      BY <3>1, <3>2
  <2>3. ASSUME NEW k \in 1 .. m, NEW h \in 1 .. m, k < h PROVE r[k] < r[h]
    <3>1. e[k] < e[h] /\ e[k] \in 1 .. n /\ e[h] \in 1 .. n
      BY <1>3, <1>4, <2>3 DEF Enumerates
    <3> QED
      BY <3>1 DEF Enumerates
  <2> HIDE DEF r
  <2> QED
    BY <1>4, <2>1, <2>2, <2>3 DEF Enumerates
<1>7. \A k \in 1 .. m : r[k] = o[e[k]]
  OBVIOUS
<1> HIDE DEF r
<1> DEFINE t == Pick(xs, C)
<1>8. t \in Seq(T) /\ Len(t) = m /\ \A k \in 1 .. m : t[k] = xs[r[k]]
  <2>1. C \in SUBSET (DOMAIN xs)
    BY <1>2
  <2>2. PickedIn(t, xs, r, m, T)
    BY <1>6, <2>1, PickIn
  <2> QED
    BY <2>2 DEF PickedIn
<1> HIDE DEF t
<1>9. ASSUME NEW k \in 1 .. m PROVE q[k] = t[k]
  <2>1. e[k] \in 1 .. n
    BY <1>4
  <2> QED
    BY <1>1, <1>5, <1>7, <1>8, <2>1
<1>10. q = t
  BY <1>5, <1>8, <1>9, SameSequence
<1> QED
  BY <1>2, <1>10 DEF q, t, p, PickedAgain

\* The elements with a property among those picked.
AreThose(C, A, xs, W) == C = {i \in A : xs[i] \in W}

\* They are picked from the sequence itself.
LEMMA PickThose ==
  ASSUME NEW T, NEW xs \in Seq(T), NEW A \in SUBSET (DOMAIN xs), NEW W, NEW C, AreThose(C, A, xs, W),
         NEW B, AreThose(B, DOMAIN Pick(xs, A), Pick(xs, A), W)
  PROVE  PickedAgain(Pick(xs, A), B, xs, C)
<1> DEFINE n == Cardinality(A)
           p == Pick(xs, A)
<1>1. PICK o : Enumerates(o, n, A)
  BY Enumerated
<1>2. p \in Seq(T) /\ DOMAIN p = 1 .. n /\ \A k \in 1 .. n : p[k] = xs[o[k]]
  BY <1>1, PickBy
<1>3. C = {i \in A : xs[i] \in W} /\ B = {b \in DOMAIN p : p[b] \in W}
  BY DEF AreThose
<1> HIDE DEF p
<1>4. IsImage(C, o, B)
  BY <1>1, <1>2, <1>3 DEF Enumerates, IsImage
<1>5. B \in SUBSET (1 .. n)
  BY <1>2, <1>3
<1> HIDE DEF n
<1> QED
  BY <1>1, <1>4, <1>5, PickPick

-----------------------------------------------------------------------------
(* Flattening.                                                             *)

\* A sequence that is another with one element more.
LEMMA AppendedIs ==
  ASSUME NEW T, NEW ys \in Seq(T), NEW zs \in Seq(T), NEW x \in T, Len(zs) = Len(ys) + 1,
         \A k \in 1 .. Len(ys) : zs[k] = ys[k], zs[Len(ys) + 1] = x
  PROVE  zs = Append(ys, x)
<1>1. /\ Append(ys, x) \in Seq(T) /\ Len(Append(ys, x)) = Len(ys) + 1
      /\ \A k \in 1 .. Len(ys) : Append(ys, x)[k] = ys[k]
      /\ Append(ys, x)[Len(ys) + 1] = x
  BY AppendProperties
<1> DEFINE a == Append(ys, x)
<1>2. Len(ys) \in Nat
  OBVIOUS
<1>3. ASSUME NEW k \in 1 .. Len(ys) + 1 PROVE zs[k] = a[k]
  <2>1. k \in 1 .. Len(ys) \/ k = Len(ys) + 1
    BY <1>2
  <2> HIDE DEF a
  <2> QED
    BY <1>1, <2>1 DEF a
<1>4. a \in Seq(T) /\ Len(a) = Len(zs) /\ \A k \in 1 .. Len(zs) : zs[k] = a[k]
  <2>1. a \in Seq(T) /\ Len(a) = Len(zs)
    BY <1>1
  <2> HIDE DEF a
  <2> QED
    BY <1>3, <2>1
<1> HIDE DEF a
<1>5. zs = a
  BY <1>4, SameSequence
<1> QED
  BY <1>5 DEF a

\* Flattening two sequences of sequences.
LEMMA FlattenConcat ==
  ASSUME NEW T, NEW xs \in Seq(Seq(T)), NEW ys \in Seq(Seq(T))
  PROVE  FlattenSeq(xs \o ys) = FlattenSeq(xs) \o FlattenSeq(ys)
<1> DEFINE V == Seq(T)
           S == {zs \in Seq(V) : FlattenSeq(xs \o zs) = FlattenSeq(xs) \o FlattenSeq(zs)}
<1>1. <<>> \in S
  <2>1. FlattenSeq(xs) \in Seq(T) /\ FlattenSeq(<<>>) = <<>>
    BY FlattenIs
  <2>2. xs \o <<>> = xs /\ FlattenSeq(xs) \o <<>> = FlattenSeq(xs)
    BY <2>1, ConcatEmptySeq
  <2> QED
    BY <2>1, <2>2
<1>2. ASSUME NEW zs \in Seq(V), zs \in S, NEW z \in V PROVE Append(zs, z) \in S
  <2>1. xs \o Append(zs, z) = Append(xs \o zs, z)
    <3>1. xs \in Seq(V)
      OBVIOUS
    <3> HIDE DEF V
    <3> QED
      BY <3>1
  <2>2. xs \o zs \in Seq(V) /\ Append(zs, z) \in Seq(V)
    <3>1. xs \in Seq(V)
      OBVIOUS
    <3> HIDE DEF V
    <3> QED
      BY <3>1
  <2>3. /\ FlattenSeq(Append(xs \o zs, z)) = FlattenSeq(xs \o zs) \o z
        /\ FlattenSeq(Append(zs, z)) = FlattenSeq(zs) \o z
    BY <2>2, FlattenIs
  <2>4. FlattenSeq(xs) \in Seq(T) /\ FlattenSeq(zs) \in Seq(T)
    BY FlattenIs
  <2>5. (FlattenSeq(xs) \o FlattenSeq(zs)) \o z = FlattenSeq(xs) \o (FlattenSeq(zs) \o z)
    <3> DEFINE a == FlattenSeq(xs)
               b == FlattenSeq(zs)
    <3>1. a \in Seq(T) /\ b \in Seq(T) /\ z \in Seq(T)
      BY <2>4 DEF a, b
    <3> HIDE DEF a, b, S, V
    <3>2. (a \o b) \o z = a \o (b \o z)
      BY SMTT(40), <3>1, ConcatAssociative
    <3> QED
      BY <3>2 DEF a, b
  <2> QED
    BY <1>2, <2>1, <2>2, <2>3, <2>5
<1>3. Seq(V) \subseteq S
  <2> HIDE DEF V, S
  <2> QED
    BY <1>1, <1>2, SeqInductionOnSet
<1> QED
  BY <1>3

\* The sequence with nothing in place of the elements that are not picked.
Masked(xs, K) == [k \in DOMAIN xs |-> IF k \in K THEN xs[k] ELSE <<>>]

MaskedBy(m, xs, K, V) ==
  /\ m \in Seq(V) /\ Len(m) = Len(xs) /\ DOMAIN m = 1 .. Len(xs)
  /\ \A k \in 1 .. Len(xs) : m[k] = IF k \in K THEN xs[k] ELSE <<>>

\* It has the length of the sequence.
LEMMA MaskedIs ==
  ASSUME NEW T, NEW xs \in Seq(Seq(T)), NEW K
  PROVE  MaskedBy(Masked(xs, K), xs, K, Seq(T))
<1> DEFINE V == Seq(T)
           m == Masked(xs, K)
<1>1. Len(xs) \in Nat /\ DOMAIN xs = 1 .. Len(xs) /\ \A k \in DOMAIN xs : xs[k] \in V
  <2>1. xs \in Seq(V)
    OBVIOUS
  <2> HIDE DEF V
  <2> QED
    BY <2>1
<1>2. <<>> \in V
  OBVIOUS
<1> HIDE DEF V
<1>3. m = [k \in 1 .. Len(xs) |-> m[k]] /\ \A k \in 1 .. Len(xs) : m[k] = IF k \in K THEN xs[k] ELSE <<>>
  BY <1>1 DEF Masked
<1> HIDE DEF m
<1>4. \A k \in 1 .. Len(xs) : m[k] \in V
  BY <1>1, <1>2, <1>3
<1>5. m \in Seq(V) /\ Len(m) = Len(xs) /\ DOMAIN m = 1 .. Len(xs)
  BY <1>1, <1>3, <1>4, SequenceIs
<1>6. MaskedBy(m, xs, K, V)
  BY <1>3, <1>5 DEF MaskedBy
<1> QED
  BY <1>6 DEF m, V

\* One element more to pick from.
LEMMA PickGrown ==
  ASSUME NEW T, NEW xs \in Seq(T), NEW x \in T, NEW K \in SUBSET (DOMAIN Append(xs, x))
  PROVE  Pick(Append(xs, x), K) =
           IF Len(xs) + 1 \in K THEN Append(Pick(xs, K \cap DOMAIN xs), x)
                                ELSE Pick(xs, K \cap DOMAIN xs)
<1> DEFINE ys == Append(xs, x)
           L == K \cap DOMAIN xs
<1>0. Len(xs) \in Nat /\ DOMAIN xs = 1 .. Len(xs)
  OBVIOUS
<1>1. /\ ys \in Seq(T) /\ Len(ys) = Len(xs) + 1 /\ DOMAIN ys = 1 .. Len(xs) + 1
      /\ \A k \in 1 .. Len(xs) : ys[k] = xs[k]
      /\ ys[Len(xs) + 1] = x
  BY AppendProperties
<1> HIDE DEF ys
<1>2. L \in SUBSET (DOMAIN xs) /\ L \in SUBSET (DOMAIN ys) /\ \A k \in L : xs[k] = ys[k]
  BY <1>0, <1>1
<1>K. K \in SUBSET (DOMAIN ys) /\ L = K \cap DOMAIN xs
  BY DEF ys
<1> HIDE DEF L
<1>3. Pick(ys, L) = Pick(xs, L)
  <2>1. AlikeAt(ys, xs, L)
    BY <1>2 DEF AlikeAt
  <2> QED
    BY <1>1, <2>1, PickWithin
<1>4. CASE Len(xs) + 1 \in K
  <2> DEFINE B == {Len(xs) + 1}
  <2>1. B \in SUBSET (DOMAIN ys) /\ K = L \cup B /\ \A a \in L, b \in B : a < b
    BY <1>0, <1>1, <1>4, <1>K
  <2>2. Pick(ys, B) = <<x>>
    <3> DEFINE h == Len(xs) + 1
    <3>1. h \in DOMAIN ys /\ ys[h] = x /\ ys \in Seq(T)
      BY <1>0, <1>1
    <3> HIDE DEF h
    <3>2. Pick(ys, {h}) = <<ys[h]>>
      BY <3>1, PickEnds
    <3> QED
      BY <3>1, <3>2 DEF h
  <2> HIDE DEF B
  <2>3. Pick(ys, K) = Pick(ys, L) \o Pick(ys, B)
    BY <1>1, <1>2, <2>1, PickSplit
  <2> DEFINE p == Pick(xs, L)
  <2>4. p \in Seq(T)
    BY <1>2, PickIs
  <2> HIDE DEF p
  <2>5. Append(p, x) = p \o <<x>>
    BY <2>4
  <2> QED
    BY <1>3, <1>4, <2>2, <2>3, <2>5 DEF p, ys, L
<1>5. CASE ~ (Len(xs) + 1 \in K)
  <2>1. K = L
    BY <1>0, <1>1, <1>5, <1>K
  <2> QED
    BY <1>3, <1>5, <2>1 DEF ys, L
<1> QED
  BY <1>4, <1>5

\* One element more to mask.
LEMMA MaskedGrown ==
  ASSUME NEW T, NEW xs \in Seq(Seq(T)), NEW x \in Seq(T), NEW K
  PROVE  Masked(Append(xs, x), K) =
           Append(Masked(xs, K \cap DOMAIN xs), IF Len(xs) + 1 \in K THEN x ELSE <<>>)
<1> DEFINE V == Seq(T)
           ys == Append(xs, x)
           L == K \cap DOMAIN xs
           n == Len(xs)
           y == IF n + 1 \in K THEN x ELSE <<>>
           a == Masked(xs, L)
           b == Masked(ys, K)
<1>0. n \in Nat /\ DOMAIN xs = 1 .. n /\ xs \in Seq(V) /\ x \in V /\ y \in V
  OBVIOUS
<1>1. /\ ys \in Seq(V) /\ Len(ys) = n + 1 /\ DOMAIN ys = 1 .. n + 1
      /\ \A k \in 1 .. n : ys[k] = xs[k]
      /\ ys[n + 1] = x
  <2> HIDE DEF V
  <2> QED
    BY <1>0, AppendProperties
<1>2. /\ a \in Seq(V) /\ Len(a) = n
      /\ \A k \in 1 .. n : a[k] = IF k \in L THEN xs[k] ELSE <<>>
  <2>1. MaskedBy(a, xs, L, V)
    BY MaskedIs
  <2> HIDE DEF a
  <2> QED
    BY <2>1 DEF MaskedBy
<1>3. /\ b \in Seq(V) /\ Len(b) = n + 1
      /\ \A k \in 1 .. n + 1 : b[k] = IF k \in K THEN ys[k] ELSE <<>>
  <2>1. MaskedBy(b, ys, K, V)
    BY <1>1, MaskedIs
  <2> HIDE DEF b
  <2> QED
    BY <1>1, <2>1 DEF MaskedBy
<1> HIDE DEF V, a, b, ys
<1>4. ASSUME NEW k \in 1 .. n PROVE b[k] = a[k]
  <2>1. k \in 1 .. n + 1 /\ (k \in L <=> k \in K)
    BY <1>0
  <2> QED
    BY <1>1, <1>2, <1>3, <2>1
<1>5. b[n + 1] = y
  BY <1>0, <1>1, <1>3
<1> HIDE DEF y, n
<1>6. b = Append(a, y)
  BY <1>0, <1>2, <1>3, <1>4, <1>5, AppendedIs
<1> QED
  BY <1>6 DEF a, b, y, n, ys

\* What flattens to nothing is as good as not there.
LEMMA FlattenPick ==
  ASSUME NEW T, NEW xs \in Seq(Seq(T)), NEW K \in SUBSET (DOMAIN xs)
  PROVE  FlattenSeq(Pick(xs, K)) = FlattenSeq(Masked(xs, K))
<1> DEFINE V == Seq(T)
           S == {ys \in Seq(V) : \A L \in SUBSET (DOMAIN ys) :
                   FlattenSeq(Pick(ys, L)) = FlattenSeq(Masked(ys, L))}
<1>1. <<>> \in S
  <2>1. ASSUME NEW L \in SUBSET (DOMAIN <<>>)
        PROVE  FlattenSeq(Pick(<<>>, L)) = FlattenSeq(Masked(<<>>, L))
    <3> DEFINE e == <<>>
    <3>1. L = {} /\ e \in Seq(T) /\ DOMAIN e = {}
      OBVIOUS
    <3>2. Pick(e, {}) = <<>>
      BY <3>1, PickEnds
    <3>3. Masked(e, L) = <<>>
      BY DEF Masked
    <3> QED
      BY <3>1, <3>2, <3>3
  <2>2. <<>> \in Seq(V)
    <3> HIDE DEF V
    <3> QED
      OBVIOUS
  <2> QED
    BY <2>1, <2>2
<1>2. ASSUME NEW ys \in Seq(V), ys \in S, NEW y \in V PROVE Append(ys, y) \in S
  <2> DEFINE zs == Append(ys, y)
  <2>1. zs \in Seq(V)
    <3> HIDE DEF V
    <3> QED
      OBVIOUS
  <2> HIDE DEF zs
  <2>2. ASSUME NEW L \in SUBSET (DOMAIN zs)
        PROVE  FlattenSeq(Pick(zs, L)) = FlattenSeq(Masked(zs, L))
    <3> DEFINE M == L \cap DOMAIN ys
               p == Pick(ys, M)
               q == Masked(ys, M)
               w == IF Len(ys) + 1 \in L THEN y ELSE <<>>
    <3>0. M \in SUBSET (DOMAIN ys)
      OBVIOUS
    <3>1. p \in Seq(V) /\ Pick(zs, L) = IF Len(ys) + 1 \in L THEN Append(p, y) ELSE p
      <4> HIDE DEF V, M
      <4>1. p \in Seq(V)
        BY <3>0, PickIs
      <4>2. L \in SUBSET (DOMAIN Append(ys, y))
        BY DEF zs
      <4>3. Pick(Append(ys, y), L) =
              IF Len(ys) + 1 \in L THEN Append(Pick(ys, L \cap DOMAIN ys), y)
                                   ELSE Pick(ys, L \cap DOMAIN ys)
        BY <4>2, PickGrown
      <4> QED
        BY <4>1, <4>3 DEF zs, M
    <3>2. q \in Seq(V) /\ Masked(zs, L) = Append(q, w)
      <4>1. MaskedBy(q, ys, M, V)
        BY MaskedIs
      <4>2. q \in Seq(V)
        <5> HIDE DEF q, V, M
        <5> QED
          BY <4>1 DEF MaskedBy
      <4>3. Masked(Append(ys, y), L) =
              Append(Masked(ys, L \cap DOMAIN ys), IF Len(ys) + 1 \in L THEN y ELSE <<>>)
        BY MaskedGrown
      <4> QED
        BY <4>2, <4>3 DEF zs
    <3>3. FlattenSeq(p) = FlattenSeq(q)
      BY <1>2, <3>0
    <3>4. w \in Seq(T)
      OBVIOUS
    <3> HIDE DEF p, q, w, M
    <3>5. FlattenSeq(Append(q, w)) = FlattenSeq(q) \o w
      BY <3>2, <3>4, FlattenIs
    <3>6. FlattenSeq(Append(p, y)) = FlattenSeq(p) \o y /\ FlattenSeq(p) \in Seq(T)
      BY <3>1, FlattenIs
    <3>7. CASE Len(ys) + 1 \in L
      BY <3>1, <3>2, <3>3, <3>5, <3>6, <3>7 DEF w
    <3>8. CASE ~ (Len(ys) + 1 \in L)
      <4>1. w = <<>> /\ FlattenSeq(p) \o <<>> = FlattenSeq(p)
        BY <3>6, <3>8, ConcatEmptySeq DEF w
      <4> QED
        BY <3>1, <3>2, <3>3, <3>5, <3>8, <4>1
    <3> QED
      BY <3>7, <3>8
  <2> QED
    BY <2>1, <2>2 DEF zs
<1>3. Seq(V) \subseteq S
  <2> HIDE DEF V, S
  <2> QED
    BY <1>1, <1>2, SeqInductionOnSet
<1> QED
  BY <1>3

-----------------------------------------------------------------------------
\* A function of every element.
Mapped(F, xs) == [k \in DOMAIN xs |-> F[xs[k]]]

MappedBy(m, F, xs, U) ==
  /\ m \in Seq(U) /\ Len(m) = Len(xs) /\ DOMAIN m = 1 .. Len(xs)
  /\ \A k \in 1 .. Len(xs) : m[k] = F[xs[k]]

\* It is typed, and has the length of the sequence.
LEMMA MappedIs ==
  ASSUME NEW T, NEW U, NEW F \in [T -> U], NEW xs \in Seq(T)
  PROVE  MappedBy(Mapped(F, xs), F, xs, U)
<1> DEFINE m == Mapped(F, xs)
<1>1. Len(xs) \in Nat /\ DOMAIN xs = 1 .. Len(xs) /\ \A k \in 1 .. Len(xs) : xs[k] \in T
  OBVIOUS
<1>2. m = [k \in 1 .. Len(xs) |-> m[k]] /\ \A k \in 1 .. Len(xs) : m[k] = F[xs[k]]
  BY <1>1 DEF Mapped
<1> HIDE DEF m
<1>3. \A k \in 1 .. Len(xs) : m[k] \in U
  BY <1>1, <1>2
<1>4. m \in Seq(U) /\ Len(m) = Len(xs) /\ DOMAIN m = 1 .. Len(xs)
  BY <1>1, <1>2, <1>3, SequenceIs
<1>5. MappedBy(m, F, xs, U)
  BY <1>2, <1>4 DEF MappedBy
<1> QED
  BY <1>5 DEF m

\* One element more, and two sequences.
LEMMA MappedGrown ==
  ASSUME NEW T, NEW U, NEW F \in [T -> U], NEW xs \in Seq(T), NEW x \in T
  PROVE  Mapped(F, Append(xs, x)) = Append(Mapped(F, xs), F[x])
<1> DEFINE ys == Append(xs, x)
           a == Mapped(F, xs)
           b == Mapped(F, ys)
           n == Len(xs)
<1>1. /\ ys \in Seq(T) /\ Len(ys) = n + 1 /\ n \in Nat
      /\ \A k \in 1 .. n : ys[k] = xs[k]
      /\ ys[n + 1] = x
  BY AppendProperties
<1> HIDE DEF ys, a, b
<1>2. MappedBy(a, F, xs, U) /\ MappedBy(b, F, ys, U)
  BY <1>1, MappedIs DEF a, b
<1>3. a \in Seq(U) /\ Len(a) = n /\ \A k \in 1 .. n : a[k] = F[xs[k]]
  BY <1>2 DEF MappedBy
<1>4. b \in Seq(U) /\ Len(b) = n + 1 /\ \A k \in 1 .. n + 1 : b[k] = F[ys[k]]
  BY <1>1, <1>2 DEF MappedBy
<1> HIDE DEF n
<1>5. ASSUME NEW k \in 1 .. n PROVE b[k] = a[k]
  <2>1. k \in 1 .. n + 1
    BY <1>1
  <2> QED
    BY <1>1, <1>3, <1>4, <2>1
<1>6. b[n + 1] = F[x] /\ F[x] \in U
  BY <1>1, <1>4
<1>7. b = Append(a, F[x])
  BY <1>3, <1>4, <1>5, <1>6, AppendedIs
<1> QED
  BY <1>7 DEF a, b, ys

\* It goes through concatenation.
LEMMA MappedConcat ==
  ASSUME NEW T, NEW U, NEW F \in [T -> U], NEW xs \in Seq(T), NEW ys \in Seq(T),
         NEW zs, IsJoined(zs, xs, ys)
  PROVE  IsJoined(Mapped(F, zs), Mapped(F, xs), Mapped(F, ys))
<1> DEFINE a == Mapped(F, xs)
           b == Mapped(F, ys)
           c == Mapped(F, zs)
           n == Len(xs)
           m == Len(ys)
<1>1. /\ zs \in Seq(T) /\ Len(zs) = n + m
      /\ \A k \in 1 .. n + m : zs[k] = IF k <= n THEN xs[k] ELSE ys[k - n]
  BY ConcatProperties DEF IsJoined
<1>2. n \in Nat /\ m \in Nat
  OBVIOUS
<1> HIDE DEF a, b, c
<1>3. MappedBy(a, F, xs, U) /\ MappedBy(b, F, ys, U) /\ MappedBy(c, F, zs, U)
  BY <1>1, MappedIs DEF a, b, c
<1>4. a \in Seq(U) /\ Len(a) = n /\ \A k \in 1 .. n : a[k] = F[xs[k]]
  BY <1>3 DEF MappedBy
<1>5. b \in Seq(U) /\ Len(b) = m /\ \A k \in 1 .. m : b[k] = F[ys[k]]
  BY <1>3 DEF MappedBy
<1>6. c \in Seq(U) /\ Len(c) = n + m /\ \A k \in 1 .. n + m : c[k] = F[zs[k]]
  BY <1>1, <1>3 DEF MappedBy
<1> HIDE DEF n, m
<1>7. /\ a \o b \in Seq(U) /\ Len(a \o b) = n + m
      /\ \A k \in 1 .. n + m : (a \o b)[k] = IF k <= n THEN a[k] ELSE b[k - n]
  <2>1. /\ a \o b \in Seq(U) /\ Len(a \o b) = Len(a) + Len(b)
        /\ \A k \in 1 .. Len(a) + Len(b) : (a \o b)[k] = IF k <= Len(a) THEN a[k] ELSE b[k - Len(a)]
    BY ZenonT(60), <1>4, <1>5, ConcatProperties
  <2> QED
    BY <1>4, <1>5, <2>1
<1>8. ASSUME NEW k \in 1 .. n + m PROVE c[k] = (a \o b)[k]
  <2>1. CASE k <= n
    <3>1. k \in 1 .. n
      BY <1>2, <2>1
    <3> QED
      BY <1>1, <1>4, <1>6, <1>7, <2>1, <3>1
  <2>2. CASE ~ (k <= n)
    <3>1. k - n \in 1 .. m
      BY <1>2, <2>2
    <3> QED
      BY ZenonT(60), <1>1, <1>5, <1>6, <1>7, <2>2, <3>1
  <2> QED
    BY <2>1, <2>2
<1>9. c = a \o b
  BY <1>6, <1>7, <1>8, SameSequence
<1> QED
  BY <1>9 DEF a, b, c, IsJoined

\* Picking and a function of every element, in either order.
IsMapped(q, F, p) == q = Mapped(F, p)

\* They commute.
LEMMA PickMapped ==
  ASSUME NEW T, NEW U, NEW F \in [T -> U], NEW xs \in Seq(T), NEW K \in SUBSET (DOMAIN xs)
  PROVE  IsMapped(Pick(Mapped(F, xs), K), F, Pick(xs, K))
<1> DEFINE ys == Mapped(F, xs)
           p == Pick(xs, K)
           a == Pick(ys, K)
           b == Mapped(F, p)
           n == Cardinality(K)
<1>1. PICK o : Enumerates(o, n, K)
  BY Enumerated
<1>2. MappedBy(ys, F, xs, U)
  BY MappedIs
<1> HIDE DEF ys, n
<1>3. /\ ys \in Seq(U) /\ Len(ys) = Len(xs) /\ DOMAIN ys = 1 .. Len(xs)
      /\ \A k \in 1 .. Len(xs) : ys[k] = F[xs[k]]
  BY <1>2 DEF MappedBy
<1>4. K \in SUBSET (DOMAIN ys) /\ K \in SUBSET (1 .. Len(xs))
  BY <1>3
<1>5. PickedIn(p, xs, o, n, T) /\ PickedIn(a, ys, o, n, U)
  BY <1>1, <1>3, <1>4, PickIn
<1> HIDE DEF p, a
<1>6. p \in Seq(T) /\ Len(p) = n /\ \A k \in 1 .. n : p[k] = xs[o[k]]
  BY <1>5 DEF PickedIn
<1>7. a \in Seq(U) /\ Len(a) = n /\ \A k \in 1 .. n : a[k] = ys[o[k]]
  BY <1>5 DEF PickedIn
<1>8. MappedBy(b, F, p, U)
  BY <1>6, MappedIs
<1> HIDE DEF b
<1>9. b \in Seq(U) /\ Len(b) = n /\ \A k \in 1 .. n : b[k] = F[p[k]]
  BY <1>6, <1>8 DEF MappedBy
<1>10. ASSUME NEW k \in 1 .. n PROVE a[k] = b[k]
  <2>1. o[k] \in 1 .. Len(xs)
    BY <1>1, <1>4 DEF Enumerates
  <2> QED
    BY <1>3, <1>6, <1>7, <1>9, <2>1
<1>11. a = b
  BY <1>7, <1>9, <1>10, SameSequence
<1> QED
  BY <1>11 DEF a, b, p, ys, IsMapped

\* Flattening as a function.
Flat(T) == [xs \in Seq(Seq(T)) |-> FlattenSeq(xs)]

\* It flattens.
LEMMA FlatIs ==
  ASSUME NEW T
  PROVE  Flat(T) \in [Seq(Seq(T)) -> Seq(T)] /\ \A xs \in Seq(Seq(T)) : Flat(T)[xs] = FlattenSeq(xs)
<1>1. \A xs \in Seq(Seq(T)) : FlattenSeq(xs) \in Seq(T)
  BY FlattenTyped
<1> QED
  BY <1>1 DEF Flat

\* Flattening inside first, or outside first.
LEMMA FlattenFlatten ==
  ASSUME NEW T, NEW zs \in Seq(Seq(Seq(T)))
  PROVE  FlattenSeq(Mapped(Flat(T), zs)) = FlattenSeq(FlattenSeq(zs))
<1> DEFINE V == Seq(T)
           W == Seq(V)
           F == Flat(T)
           S == {xs \in Seq(W) : FlattenSeq(Mapped(F, xs)) = FlattenSeq(FlattenSeq(xs))}
<1>0. F \in [W -> V] /\ \A xs \in W : F[xs] = FlattenSeq(xs)
  BY FlatIs
<1> HIDE DEF F
<1>1. <<>> \in S
  <2>1. Mapped(F, <<>>) = <<>>
    BY DEF Mapped
  <2>2. <<>> \in Seq(V) /\ <<>> \in Seq(T) /\ <<>> \in Seq(W)
    <3> HIDE DEF V, W
    <3> QED
      OBVIOUS
  <2>3. FlattenSeq(<<>>) = <<>>
    BY <2>2, FlattenIs
  <2> QED
    BY <2>1, <2>2, <2>3
<1>2. ASSUME NEW xs \in Seq(W), xs \in S, NEW x \in W PROVE Append(xs, x) \in S
  <2>1. Mapped(F, Append(xs, x)) = Append(Mapped(F, xs), F[x])
    <3> HIDE DEF V, W
    <3> QED
      BY ZenonT(60), <1>0, MappedGrown
  <2> DEFINE m == Mapped(F, xs)
             f == FlattenSeq(xs)
  <2>2. m \in Seq(V) /\ F[x] \in V /\ Append(xs, x) \in Seq(W)
    <3> HIDE DEF V, W
    <3>1. MappedBy(m, F, xs, V)
      BY <1>0, MappedIs
    <3> QED
      BY <1>0, <3>1 DEF MappedBy
  <2>3. f \in Seq(V) /\ FlattenSeq(Append(xs, x)) = f \o x
    <3> HIDE DEF V
    <3> QED
      BY FlattenIs
  <2> HIDE DEF m, f
  <2>4. FlattenSeq(Append(m, F[x])) = FlattenSeq(m) \o F[x]
    BY <2>2, FlattenIs
  <2>5. FlattenSeq(f \o x) = FlattenSeq(f) \o FlattenSeq(x)
    BY <2>3, FlattenConcat
  <2>6. FlattenSeq(m) = FlattenSeq(f)
    BY <1>2 DEF m, f
  <2> QED
    BY <1>0, <2>1, <2>2, <2>3, <2>4, <2>5, <2>6 DEF m
<1>3. Seq(W) \subseteq S
  <2> HIDE DEF W, S
  <2> QED
    BY <1>1, <1>2, SeqInductionOnSet
<1> QED
  BY <1>3 DEF F

\* A function of every element, as a function of sequences.
Each(F, T) == [xs \in Seq(T) |-> Mapped(F, xs)]

\* It maps.
LEMMA EachIs ==
  ASSUME NEW T, NEW U, NEW F \in [T -> U]
  PROVE  Each(F, T) \in [Seq(T) -> Seq(U)] /\ \A xs \in Seq(T) : Each(F, T)[xs] = Mapped(F, xs)
<1>1. ASSUME NEW xs \in Seq(T) PROVE Mapped(F, xs) \in Seq(U)
  <2>1. MappedBy(Mapped(F, xs), F, xs, U)
    BY MappedIs
  <2> QED
    BY <2>1 DEF MappedBy
<1> QED
  BY <1>1 DEF Each

\* Flattening and a function of every element, in either order.
LEMMA FlattenMapped ==
  ASSUME NEW T, NEW U, NEW F \in [T -> U], NEW zs \in Seq(Seq(T))
  PROVE  Mapped(F, FlattenSeq(zs)) = FlattenSeq(Mapped(Each(F, T), zs))
<1> DEFINE V == Seq(T)
           W == Seq(U)
           E == Each(F, T)
           S == {xs \in Seq(V) : Mapped(F, FlattenSeq(xs)) = FlattenSeq(Mapped(E, xs))}
<1>0. E \in [V -> W] /\ \A xs \in V : E[xs] = Mapped(F, xs)
  BY EachIs
<1> HIDE DEF E
<1>1. <<>> \in S
  <2>1. Mapped(F, <<>>) = <<>> /\ Mapped(E, <<>>) = <<>>
    BY DEF Mapped
  <2>2. <<>> \in Seq(V) /\ <<>> \in Seq(T) /\ <<>> \in Seq(W)
    <3> HIDE DEF V, W
    <3> QED
      OBVIOUS
  <2>3. FlattenSeq(<<>>) = <<>>
    BY <2>2, FlattenIs
  <2> QED
    BY <2>1, <2>2, <2>3
<1>2. ASSUME NEW xs \in Seq(V), xs \in S, NEW x \in V PROVE Append(xs, x) \in S
  <2>1. Mapped(E, Append(xs, x)) = Append(Mapped(E, xs), E[x])
    <3>1. E \in [V -> W] /\ xs \in Seq(V) /\ x \in V
      BY <1>0
    <3> HIDE DEF V, W, S
    <3> QED
      BY ZenonT(60), <3>1, MappedGrown
  <2> DEFINE m == Mapped(E, xs)
             f == FlattenSeq(xs)
  <2>2. m \in Seq(W) /\ E[x] \in W /\ Append(xs, x) \in Seq(V)
    <3> HIDE DEF V, W
    <3>1. MappedBy(m, E, xs, W)
      BY <1>0, MappedIs
    <3> QED
      BY <1>0, <3>1 DEF MappedBy
  <2>3. f \in V /\ FlattenSeq(Append(xs, x)) = f \o x
    BY FlattenIs
  <2> HIDE DEF m, f
  <2>4. FlattenSeq(Append(m, E[x])) = FlattenSeq(m) \o E[x]
    BY <2>2, FlattenIs
  <2>5. Mapped(F, f \o x) = Mapped(F, f) \o Mapped(F, x)
    <3> DEFINE g == f \o x
    <3>1. f \in Seq(T) /\ x \in Seq(T) /\ IsJoined(g, f, x)
      BY <2>3 DEF IsJoined
    <3> HIDE DEF g
    <3>2. IsJoined(Mapped(F, g), Mapped(F, f), Mapped(F, x))
      BY <3>1, MappedConcat
    <3> QED
      BY <3>2 DEF IsJoined, g
  <2>6. Mapped(F, f) = FlattenSeq(m)
    BY <1>2 DEF m, f
  <2> QED
    BY <1>0, <2>1, <2>2, <2>3, <2>4, <2>5, <2>6 DEF m
<1>3. Seq(V) \subseteq S
  <2> HIDE DEF V, S
  <2> QED
    BY <1>1, <1>2, SeqInductionOnSet
<1> QED
  BY <1>3 DEF E

\* Picking as a function of the positions.
Picks(xs) == [K \in SUBSET (DOMAIN xs) |-> Pick(xs, K)]

\* It picks.
LEMMA PicksIs ==
  ASSUME NEW T, NEW xs \in Seq(T)
  PROVE  /\ Picks(xs) \in [SUBSET (DOMAIN xs) -> Seq(T)]
         /\ \A K \in SUBSET (DOMAIN xs) : Picks(xs)[K] = Pick(xs, K)
<1>1. \A K \in SUBSET (DOMAIN xs) : Pick(xs, K) \in Seq(T)
  BY PickIs
<1> QED
  BY <1>1 DEF Picks

\* Sets of numbers, each before the next ones.
Ascends(Ks) == \A h, k \in DOMAIN Ks : h < k => \A a \in Ks[h], b \in Ks[k] : a < b

\* Picking piece by piece.
LEMMA FlattenPicks ==
  ASSUME NEW T, NEW xs \in Seq(T), NEW Ks \in Seq(SUBSET (DOMAIN xs)), Ascends(Ks)
  PROVE  FlattenSeq(Mapped(Picks(xs), Ks)) = Pick(xs, UNION {Ks[k] : k \in DOMAIN Ks})
<1> DEFINE D == SUBSET (DOMAIN xs)
           V == Seq(T)
           F == Picks(xs)
           all(ks) == UNION {ks[k] : k \in DOMAIN ks}
           S == {ks \in Seq(D) : Ascends(ks) => FlattenSeq(Mapped(F, ks)) = Pick(xs, all(ks))}
<1>0. F \in [D -> V] /\ \A K \in D : F[K] = Pick(xs, K)
  BY PicksIs
<1> HIDE DEF F
<1>1. <<>> \in S
  <2>1. Mapped(F, <<>>) = <<>> /\ all(<<>>) = {}
    BY DEF Mapped
  <2>2. <<>> \in Seq(D) /\ <<>> \in Seq(V) /\ <<>> \in Seq(T)
    <3> HIDE DEF D, V
    <3> QED
      OBVIOUS
  <2>3. FlattenSeq(<<>>) = <<>>
    BY <2>2, FlattenIs
  <2>4. Pick(xs, {}) = <<>>
    BY PickEnds
  <2> QED
    BY <2>1, <2>2, <2>3, <2>4
<1>2. ASSUME NEW ks \in Seq(D), ks \in S, NEW K \in D PROVE Append(ks, K) \in S
  <2> DEFINE ys == Append(ks, K)
             n == Len(ks)
  <2>1. /\ ys \in Seq(D) /\ Len(ys) = n + 1 /\ n \in Nat /\ DOMAIN ys = 1 .. n + 1
        /\ \A k \in 1 .. n : ys[k] = ks[k]
        /\ ys[n + 1] = K
    <3> HIDE DEF D
    <3> QED
      BY AppendProperties
  <2>2. DOMAIN ks = 1 .. n /\ \A k \in 1 .. n : ks[k] \in D
    <3> HIDE DEF D
    <3> QED
      OBVIOUS
  <2>3. Mapped(F, ys) = Append(Mapped(F, ks), F[K])
    <3> HIDE DEF D, V
    <3> QED
      BY ZenonT(60), <1>0, MappedGrown
  <2> HIDE DEF ys, n
  <2>4. SUFFICES ASSUME Ascends(ys) PROVE FlattenSeq(Mapped(F, ys)) = Pick(xs, all(ys))
    BY <2>1 DEF ys
  <2>5. Ascends(ks)
    <3> SUFFICES ASSUME NEW h \in 1 .. n, NEW k \in 1 .. n, h < k, NEW a \in ks[h], NEW b \in ks[k]
                 PROVE  a < b
      BY <2>2 DEF Ascends
    <3>1. h \in 1 .. n + 1 /\ k \in 1 .. n + 1
      BY <2>1
    <3> QED
      BY <2>1, <2>4, <3>1 DEF Ascends
  <2>6. ASSUME NEW a \in all(ks), NEW b \in K PROVE a < b
    <3>1. PICK k \in 1 .. n : a \in ks[k]
      BY <2>2
    <3>2. k \in 1 .. n + 1 /\ n + 1 \in 1 .. n + 1 /\ k < n + 1
      BY <2>1
    <3> QED
      BY <2>1, <2>4, <3>1, <3>2 DEF Ascends
  <2>7. all(ks) \in SUBSET (DOMAIN xs)
    BY <2>2
  <2>8. all(ys) = all(ks) \cup K
    <3>1. DOMAIN ys = (1 .. n) \cup {n + 1}
      BY <2>1
    <3> QED
      BY <2>1, <2>2, <3>1
  <2> DEFINE A == all(ks)
             m == Mapped(F, ks)
  <2> HIDE DEF A
  <2>9. Pick(xs, A \cup K) = Pick(xs, A) \o Pick(xs, K)
    BY <2>6, <2>7, PickSplit DEF A
  <2>10. m \in Seq(V) /\ F[K] \in V
    <3> HIDE DEF V, D
    <3>1. MappedBy(m, F, ks, V)
      BY <1>0, MappedIs
    <3> QED
      BY <1>0, <3>1 DEF MappedBy
  <2> HIDE DEF m
  <2>11. FlattenSeq(Append(m, F[K])) = FlattenSeq(m) \o F[K]
    BY <2>10, FlattenIs
  <2>12. FlattenSeq(m) = Pick(xs, A)
    BY <1>2, <2>5 DEF m, A
  <2> QED
    BY <1>0, <2>3, <2>8, <2>9, <2>11, <2>12 DEF m, A
<1>3. Seq(D) \subseteq S
  <2> HIDE DEF D, S
  <2> QED
    BY <1>1, <1>2, SeqInductionOnSet
<1>4. Ks \in S
  <2>1. Ks \in Seq(D)
    OBVIOUS
  <2> HIDE DEF D, S
  <2> QED
    BY <1>3, <2>1
<1> QED
  BY <1>4 DEF F

-----------------------------------------------------------------------------
(* The fragments of texts.                                                 *)

\* Leaving out what is empty leaves the same when flattened.
LEMMA FlattenPickAll ==
  ASSUME NEW T, NEW xs \in Seq(Seq(T)), NEW K \in SUBSET (DOMAIN xs),
         \A i \in DOMAIN xs \ K : xs[i] = <<>>
  PROVE  FlattenSeq(Pick(xs, K)) = FlattenSeq(xs)
<1> DEFINE V == Seq(T)
           m == Masked(xs, K)
<1>1. FlattenSeq(Pick(xs, K)) = FlattenSeq(m)
  BY FlattenPick
<1>2. MaskedBy(m, xs, K, V)
  BY MaskedIs
<1> HIDE DEF m
<1>3. xs \in Seq(V) /\ Len(xs) \in Nat /\ DOMAIN xs = 1 .. Len(xs)
  OBVIOUS
<1> HIDE DEF V
<1>4. m \in Seq(V) /\ Len(m) = Len(xs) /\ \A k \in 1 .. Len(xs) : m[k] = xs[k]
  BY <1>2, <1>3 DEF MaskedBy
<1>5. m = xs
  BY <1>3, <1>4, SameSequence
<1> QED
  BY <1>1, <1>5

\* The concatenations of some pieces of a sequence of sequences.
Pieces(ys, xs, Ks) == ys = [k \in DOMAIN Ks |-> FlattenSeq(Pick(xs, Ks[k]))]

\* Flattening piece by piece, the pieces in their order.
LEMMA FlattenPieces ==
  ASSUME NEW T, NEW xs \in Seq(Seq(T)), NEW Ks \in Seq(SUBSET (DOMAIN xs)), Ascends(Ks),
         NEW ys, Pieces(ys, xs, Ks)
  PROVE  /\ ys \in Seq(Seq(T)) /\ Len(ys) = Len(Ks)
         /\ FlattenSeq(ys) = FlattenSeq(Pick(xs, UNION {Ks[k] : k \in DOMAIN Ks}))
<1> DEFINE V == Seq(T)
           D == SUBSET (DOMAIN xs)
           W == Seq(V)
           P == Picks(xs)
           F == Flat(T)
           ps == Mapped(P, Ks)
           fs == Mapped(F, ps)
           U == UNION {Ks[k] : k \in DOMAIN Ks}
<1>1. P \in [D -> W] /\ \A K \in D : P[K] = Pick(xs, K)
  <2>1. xs \in Seq(V)
    OBVIOUS
  <2> HIDE DEF V
  <2> QED
    BY <2>1, PicksIs
<1>2. F \in [W -> V] /\ \A zs \in W : F[zs] = FlattenSeq(zs)
  BY FlatIs
<1>3. FlattenSeq(ps) = Pick(xs, U)
  <2>1. xs \in Seq(V)
    OBVIOUS
  <2> HIDE DEF V
  <2> QED
    BY <2>1, FlattenPicks
<1> HIDE DEF P, F, U
<1>4. Ks \in Seq(D) /\ Len(Ks) \in Nat /\ DOMAIN Ks = 1 .. Len(Ks)
  OBVIOUS
<1>5. MappedBy(ps, P, Ks, W)
  <2> HIDE DEF D, W
  <2> QED
    BY <1>1, <1>4, MappedIs
<1> HIDE DEF ps
<1>6. ps \in Seq(W) /\ Len(ps) = Len(Ks) /\ \A k \in 1 .. Len(Ks) : ps[k] = P[Ks[k]]
  BY <1>5 DEF MappedBy
<1>7. FlattenSeq(fs) = FlattenSeq(FlattenSeq(ps))
  BY <1>6, FlattenFlatten DEF F
<1>8. MappedBy(fs, F, ps, V)
  <2> HIDE DEF V, W
  <2> QED
    BY <1>2, <1>6, MappedIs
<1> HIDE DEF fs
<1>9. fs \in Seq(V) /\ Len(fs) = Len(Ks) /\ \A k \in 1 .. Len(Ks) : fs[k] = F[ps[k]]
  BY <1>6, <1>8 DEF MappedBy
<1>10. ASSUME NEW k \in 1 .. Len(Ks) PROVE fs[k] = FlattenSeq(Pick(xs, Ks[k]))
  <2>1. Ks[k] \in D
    <3> HIDE DEF D
    <3> QED
      BY <1>4
  <2>2. ps[k] \in W
    <3> HIDE DEF W
    <3> QED
      BY <1>6
  <2>3. P[Ks[k]] = Pick(xs, Ks[k])
    <3> HIDE DEF D
    <3> QED
      BY <1>1, <2>1
  <2>4. F[ps[k]] = FlattenSeq(ps[k])
    <3> HIDE DEF W
    <3> QED
      BY <1>2, <2>2
  <2> QED
    BY <1>6, <1>9, <2>3, <2>4
<1>11. fs = ys
  <2>1. ys = [k \in 1 .. Len(Ks) |-> FlattenSeq(Pick(xs, Ks[k]))]
    BY <1>4 DEF Pieces
  <2>2. fs = [k \in 1 .. Len(Ks) |-> fs[k]]
    <3> HIDE DEF V
    <3> QED
      BY <1>9
  <2>3. [k \in 1 .. Len(Ks) |-> fs[k]] = [k \in 1 .. Len(Ks) |-> FlattenSeq(Pick(xs, Ks[k]))]
    BY <1>10
  <2> QED
    BY <2>1, <2>2, <2>3
<1> QED
  BY <1>3, <1>7, <1>9, <1>11 DEF U

\* Normalizing a text leaves its fragments.
LEMMA NormalizeKeeps ==
  ASSUME NEW text \in Text
  PROVE  Fragments(Normalize(text)) = Fragments(text)
<1>1. Kept(text) \in SUBSET (DOMAIN text) /\ \A i \in DOMAIN text \ Kept(text) : text[i] = <<>>
  BY DEF Kept, Blank
<1>2. text \in Seq(Seq(Fragment))
  BY DEF Text
<1>3. FlattenSeq(Pick(text, Kept(text))) = FlattenSeq(text)
  BY <1>1, <1>2, FlattenPickAll
<1> QED
  BY <1>3 DEF Normalize, Fragments

\* The intervals are in order, and of all numbers up to n.
Divides(Ks, n) ==
  /\ Ks \in Seq(SUBSET (1 .. n))
  /\ Ascends(Ks)
  /\ UNION {Ks[k] : k \in DOMAIN Ks} = 1 .. n

\* Runs are such intervals.
LEMMA RunsDivide ==
  ASSUME NEW n \in Nat, NEW linked
  PROVE  Divides(Runs(n, linked), n)
<1> DEFINE S == {i \in 1 .. n : i = n \/ i \notin linked}
           e == InOrder(S)
           N == Cardinality(S)
           runs == Runs(n, linked)
<1>1. S \in SUBSET Nat /\ IsFiniteSet(S)
  <2>1. IsFiniteSet(1 .. n) /\ S \in SUBSET (1 .. n)
    BY FS_Interval
  <2>2. IsFiniteSet(S)
    <3> HIDE DEF S
    <3> QED
      BY <2>1, FS_Subset
  <2> QED
    BY <2>2
<1>2. N \in Nat /\ Increasing(e, S)
  <2> HIDE DEF S
  <2> QED
    BY <1>1, InOrderIs
<1>3. runs \in Seq(SUBSET (1 .. n))
  BY RunsAre
<1>4. runs = [k \in DOMAIN e |-> (IF k = 1 THEN 1 ELSE e[k - 1] + 1) .. e[k]]
  BY DEF Runs
<1>5. \A i \in S : i \in 1 .. n
  OBVIOUS
<1>6. n = 0 \/ n \in S
  OBVIOUS
<1>7. /\ e \in [1 .. N -> S] /\ DOMAIN e = 1 .. N
      /\ \A i \in S : \E k \in 1 .. N : e[k] = i
      /\ \A k, m \in 1 .. N : k < m => e[k] < e[m]
  <2> HIDE DEF e, S, N
  <2> QED
    BY <1>2 DEF Increasing, N
<1> HIDE DEF S, e, runs, N
<1>8. \A k \in 1 .. N : e[k] \in 1 .. n
  BY <1>5, <1>7
<1>9. DOMAIN runs = 1 .. N
  BY <1>4, <1>7
<1>10. \A k \in 1 .. N : runs[k] = (IF k = 1 THEN 1 ELSE e[k - 1] + 1) .. e[k]
  BY <1>4, <1>7
<1>11. Ascends(runs)
  <2> SUFFICES ASSUME NEW h \in 1 .. N, NEW k \in 1 .. N, h < k, NEW a \in runs[h], NEW b \in runs[k]
               PROVE  a < b
    BY <1>9 DEF Ascends
  <2>1. k - 1 \in 1 .. N /\ (h < k - 1 \/ h = k - 1) /\ k # 1
    BY <1>2
  <2>2. e[h] \in Int /\ e[k - 1] \in Int /\ e[k] \in Int
    BY <1>8, <2>1
  <2>3. e[h] <= e[k - 1]
    BY <1>7, <2>1, <2>2
  <2>4. a \in Int /\ a <= e[h]
    <3>1. CASE h = 1
      BY <1>10, <2>2, <3>1
    <3>2. CASE h # 1
      <4>1. h - 1 \in 1 .. N
        BY <1>2, <3>2
      <4>2. e[h - 1] \in Int /\ runs[h] = (e[h - 1] + 1) .. e[h]
        BY <1>8, <1>10, <3>2, <4>1
      <4> QED
        BY <2>2, <4>2
    <3> QED
      BY <3>1, <3>2
  <2>5. b \in Int /\ e[k - 1] + 1 <= b
    BY <1>10, <2>1, <2>2
  <2> QED
    BY <2>2, <2>3, <2>4, <2>5
<1>12. ASSUME NEW i \in 1 .. n PROVE \E k \in 1 .. N : i \in runs[k]
  <2> DEFINE A == {k \in Nat : k \in 1 .. N /\ i <= e[k]}
  <2>1. PICK h \in 1 .. N : e[h] = n
    BY <1>6, <1>7
  <2>2. h \in A
    BY <1>2, <2>1
  <2>3. Min(A) \in A /\ \A m \in A : Min(A) <= m
    BY <2>2, MinIs
  <2> DEFINE k == Min(A)
  <2>4. k \in 1 .. N /\ i <= e[k] /\ e[k] \in Int
    BY <1>8, <2>3
  <2>5. CASE k = 1
    <3>1. runs[k] = 1 .. e[k]
      BY <1>10, <2>4, <2>5
    <3> HIDE DEF k
    <3> QED
      BY <2>4, <3>1
  <2>6. CASE k # 1
    <3>1. k - 1 \in 1 .. N /\ k - 1 \in Nat /\ ~ (k <= k - 1)
      <4> HIDE DEF k
      <4> QED
        BY <1>2, <2>4, <2>6
    <3>2. k - 1 \notin A
      BY <2>3, <3>1
    <3>3. ~ (i <= e[k - 1]) /\ e[k - 1] \in Int
      BY <1>8, <3>1, <3>2
    <3>4. runs[k] = (e[k - 1] + 1) .. e[k]
      BY <1>10, <2>4, <2>6
    <3> HIDE DEF k
    <3> QED
      BY <2>4, <3>3, <3>4
  <2> QED
    BY <2>5, <2>6
<1>13. UNION {runs[k] : k \in DOMAIN runs} = 1 .. n
  <2>1. \A k \in DOMAIN runs : runs[k] \in SUBSET (1 .. n)
    BY <1>3
  <2> QED
    BY <1>9, <1>12, <2>1
<1>14. Divides(runs, n)
  BY <1>3, <1>11, <1>13 DEF Divides
<1> QED
  BY <1>14 DEF runs

\* Repairing a text leaves its fragments.
LEMMA RepairKeeps ==
  ASSUME NEW text \in Text
  PROVE  Fragments(Repair(text)) = Fragments(text)
<1> DEFINE V == Seq(Fragment)
           wraps == {i \in 1 .. Len(text) - 1 : /\ Blank \notin {text[i], text[i + 1]}
                                                /\ ~Shape[Last(text[i])].closes}
           runs == Runs(Len(text), wraps)
           ys == Repair(text)
<1>0. Len(text) \in Nat /\ DOMAIN text = 1 .. Len(text) /\ text \in Seq(V)
  BY DEF Text
<1>1. ys = [k \in DOMAIN runs |-> FlattenSeq(Pick(text, runs[k]))]
  BY DEF Repair, Fragments
<1> HIDE DEF wraps, ys
<1>2. Divides(runs, Len(text))
  BY <1>0, RunsDivide
<1> HIDE DEF runs
<1>3. Pieces(ys, text, runs)
  BY <1>1 DEF Pieces
<1>4. runs \in Seq(SUBSET (DOMAIN text)) /\ Ascends(runs)
  BY <1>0, <1>2 DEF Divides
<1>5. FlattenSeq(ys) = FlattenSeq(Pick(text, UNION {runs[k] : k \in DOMAIN runs}))
  BY <1>0, <1>3, <1>4, FlattenPieces
<1>6. UNION {runs[k] : k \in DOMAIN runs} = DOMAIN text
  BY <1>0, <1>2 DEF Divides
<1>7. Pick(text, DOMAIN text) = text
  <2> HIDE DEF V
  <2> QED
    BY <1>0, PickEnds
<1> QED
  BY <1>5, <1>6, <1>7 DEF ys, Fragments

-----------------------------------------------------------------------------
(* What is left when elements of a kind may be lost.                       *)

\* ys is xs without some elements, which are of L.
Thin(ys, xs, L) ==
  \E K \in SUBSET (DOMAIN xs) : ys = Pick(xs, K) /\ \A i \in DOMAIN xs \ K : xs[i] \in L

\* Nothing is lost, or all.
LEMMA ThinEnds ==
  ASSUME NEW T, NEW xs \in Seq(T), NEW L
  PROVE  /\ Thin(xs, xs, L)
         /\ (\A i \in DOMAIN xs : xs[i] \in L) => Thin(<<>>, xs, L)
<1>1. xs = Pick(xs, DOMAIN xs) /\ <<>> = Pick(xs, {})
  BY PickEnds
<1>2. Thin(xs, xs, L)
  <2>1. DOMAIN xs \in SUBSET (DOMAIN xs) /\ \A i \in DOMAIN xs \ DOMAIN xs : xs[i] \in L
    OBVIOUS
  <2> DEFINE D == DOMAIN xs
  <2>2. D \in SUBSET (DOMAIN xs) /\ xs = Pick(xs, D) /\ \A i \in DOMAIN xs \ D : xs[i] \in L
    BY <1>1, <2>1
  <2> HIDE DEF D
  <2> QED
    BY <2>2 DEF Thin
<1>3. ASSUME \A i \in DOMAIN xs : xs[i] \in L PROVE Thin(<<>>, xs, L)
  <2> DEFINE D == {}
  <2>1. D \in SUBSET (DOMAIN xs) /\ <<>> = Pick(xs, D) /\ \A i \in DOMAIN xs \ D : xs[i] \in L
    BY <1>1, <1>3
  <2> HIDE DEF D
  <2> QED
    BY <2>1 DEF Thin
<1> QED
  BY <1>2, <1>3

\* More may be lost.
LEMMA ThinMore ==
  ASSUME NEW T, NEW xs \in Seq(T), NEW L, NEW M, NEW ys, Thin(ys, xs, L),
         \A t \in T : t \in L => t \in M
  PROVE  Thin(ys, xs, M)
BY DEF Thin

\* One sequence after another.
LEMMA ThinConcat ==
  ASSUME NEW T, NEW xs \in Seq(T), NEW ys \in Seq(T), NEW L, NEW p, Thin(p, xs, L),
         NEW q, Thin(q, ys, L),
         NEW zs, IsJoined(zs, xs, ys), NEW r, IsJoined(r, p, q)
  PROVE  Thin(r, zs, L)
<1>1. PICK A \in SUBSET (DOMAIN xs) : p = Pick(xs, A) /\ \A i \in DOMAIN xs \ A : xs[i] \in L
  BY DEF Thin
<1>2. PICK B \in SUBSET (DOMAIN ys) : q = Pick(ys, B) /\ \A i \in DOMAIN ys \ B : ys[i] \in L
  BY DEF Thin
<1> DEFINE n == Len(xs)
           m == Len(ys)
           C == A \cup Shifted(Len(xs), B)
<1>3. PickJoined(C, zs, xs, A, ys, B)
  BY PickConcat
<1>4. C \in SUBSET (DOMAIN zs) /\ r = Pick(zs, C)
  BY <1>1, <1>2, <1>3 DEF PickJoined, IsJoined
<1>5. /\ zs \in Seq(T) /\ Len(zs) = n + m
      /\ \A k \in 1 .. n + m : zs[k] = IF k <= n THEN xs[k] ELSE ys[k - n]
  BY ConcatProperties DEF IsJoined
<1>6. n \in Nat /\ m \in Nat /\ DOMAIN xs = 1 .. n /\ DOMAIN ys = 1 .. m /\ DOMAIN zs = 1 .. n + m
  BY <1>5
<1>7. ASSUME NEW i \in DOMAIN zs \ C PROVE zs[i] \in L
  <2>1. CASE i <= n
    <3>1. i \in DOMAIN xs \ A
      BY <1>6, <2>1
    <3> QED
      BY <1>1, <1>5, <1>6, <2>1, <3>1
  <2>2. CASE ~ (i <= n)
    <3>1. i - n \in 1 .. m /\ i = n + (i - n)
      BY <1>6, <2>2
    <3>2. i - n \notin B
      BY <3>1 DEF Shifted
    <3>3. zs[i] = ys[i - n]
      BY <1>5, <1>6, <2>2
    <3> QED
      BY <1>2, <1>6, <3>1, <3>2, <3>3
  <2> QED
    BY <2>1, <2>2
<1> HIDE DEF C
<1> QED
  BY <1>4, <1>7 DEF Thin

\* What is left of what is left.
LEMMA ThinAgain ==
  ASSUME NEW T, NEW xs \in Seq(T), NEW L, NEW ys, Thin(ys, xs, L), NEW zs, Thin(zs, ys, L)
  PROVE  Thin(zs, xs, L)
<1>1. PICK A \in SUBSET (DOMAIN xs) : ys = Pick(xs, A) /\ \A i \in DOMAIN xs \ A : xs[i] \in L
  BY DEF Thin
<1>2. PICK B \in SUBSET (DOMAIN ys) : zs = Pick(ys, B) /\ \A i \in DOMAIN ys \ B : ys[i] \in L
  BY DEF Thin
<1> DEFINE n == Cardinality(A)
<1>3. PICK o : Enumerates(o, n, A)
  BY Enumerated
<1> HIDE DEF n
<1>4. PickedIn(ys, xs, o, n, T)
  BY <1>1, <1>3, PickIn
<1>5. ys \in Seq(T) /\ DOMAIN ys = 1 .. n /\ \A k \in 1 .. n : ys[k] = xs[o[k]]
  BY <1>4 DEF PickedIn
<1> DEFINE C == {o[b] : b \in B}
<1>6. B \in SUBSET (1 .. n)
  BY <1>2, <1>5
<1>7. C \in SUBSET A /\ PickedAgain(Pick(xs, A), B, xs, C)
  <2>1. IsImage(C, o, B)
    BY DEF IsImage
  <2> HIDE DEF C
  <2> QED
    BY <1>3, <1>6, <2>1, PickPick
<1>8. C \in SUBSET (DOMAIN xs) /\ zs = Pick(xs, C)
  BY <1>1, <1>2, <1>7 DEF PickedAgain
<1>9. ASSUME NEW i \in DOMAIN xs \ C PROVE xs[i] \in L
  <2>1. CASE i \in A
    <3>1. PICK k \in 1 .. n : o[k] = i
      BY <1>3, <2>1 DEF Enumerates
    <3>2. k \notin B
      BY <3>1
    <3> QED
      BY <1>2, <1>5, <3>1, <3>2
  <2>2. CASE i \notin A
    BY <1>1, <2>2
  <2> QED
    BY <2>1, <2>2
<1> HIDE DEF C
<1> QED
  BY <1>8, <1>9 DEF Thin

\* Those with a value there.
Behind(F, T, L) == {t \in T : F[t] \in L}

ThinBehind(ys, F, xs, T, L) ==
  \E zs \in Seq(T) : Thin(zs, xs, Behind(F, T, L)) /\ ys = Mapped(F, zs)

\* What is left of the values is the values of what is left.
LEMMA ThinMapped ==
  ASSUME NEW T, NEW U, NEW F \in [T -> U], NEW xs \in Seq(T), NEW L,
         NEW ys, Thin(ys, Mapped(F, xs), L)
  PROVE  ThinBehind(ys, F, xs, T, L)
<1> DEFINE m == Mapped(F, xs)
<1>1. MappedBy(m, F, xs, U)
  BY MappedIs
<1> HIDE DEF m
<1>2. /\ m \in Seq(U) /\ Len(m) = Len(xs) /\ DOMAIN m = 1 .. Len(xs)
      /\ \A k \in 1 .. Len(xs) : m[k] = F[xs[k]]
  BY <1>1 DEF MappedBy
<1>3. Thin(ys, m, L)
  BY DEF m
<1>4. PICK K \in SUBSET (DOMAIN m) : ys = Pick(m, K) /\ \A i \in DOMAIN m \ K : m[i] \in L
  BY <1>3 DEF Thin
<1>5. DOMAIN xs = 1 .. Len(xs) /\ K \in SUBSET (DOMAIN xs) /\ \A i \in DOMAIN xs : xs[i] \in T
  BY <1>2
<1> DEFINE zs == Pick(xs, K)
           M == Behind(F, T, L)
<1>6. zs \in Seq(T)
  BY <1>5, PickIs
<1>7. IsMapped(Pick(Mapped(F, xs), K), F, zs)
  <2>1. K \in SUBSET (DOMAIN xs)
    BY <1>5
  <2> QED
    BY <2>1, PickMapped
<1>8. \A i \in DOMAIN xs \ K : xs[i] \in M
  BY <1>2, <1>4, <1>5 DEF Behind
<1> HIDE DEF M
<1>9. Thin(zs, xs, M)
  BY <1>5, <1>8 DEF Thin
<1> QED
  BY <1>4, <1>6, <1>7, <1>9 DEF M, m, IsMapped, ThinBehind

\* One sequence of each is what is left of the other.
ThinEach(ys, xs, L) == Len(ys) = Len(xs) /\ \A i \in 1 .. Len(xs) : Thin(ys[i], xs[i], L)

\* Flattening what is left of each.
LEMMA ThinFlatten ==
  ASSUME NEW T, NEW xs \in Seq(Seq(T)), NEW ys \in Seq(Seq(T)), NEW L, ThinEach(ys, xs, L)
  PROVE  Thin(FlattenSeq(ys), FlattenSeq(xs), L)
<1> DEFINE V == Seq(T)
           S == {us \in Seq(V) : \A vs \in Seq(V) :
                   ThinEach(vs, us, L) => Thin(FlattenSeq(vs), FlattenSeq(us), L)}
<1>1. <<>> \in S
  <2>1. <<>> \in Seq(V) /\ <<>> \in Seq(T)
    <3> HIDE DEF V
    <3> QED
      OBVIOUS
  <2>2. ASSUME NEW vs \in Seq(V), ThinEach(vs, <<>>, L) PROVE Thin(FlattenSeq(vs), FlattenSeq(<<>>), L)
    <3>1. vs = <<>>
      <4> HIDE DEF V
      <4> QED
        BY <2>2 DEF ThinEach
    <3>2. FlattenSeq(<<>>) = <<>>
      BY <2>1, FlattenIs
    <3>3. Thin(<<>>, <<>>, L)
      BY <2>1, ThinEnds
    <3> QED
      BY <3>1, <3>2, <3>3
  <2> QED
    BY <2>1, <2>2
<1>2. ASSUME NEW us \in Seq(V), us \in S, NEW u \in V PROVE Append(us, u) \in S
  <2> DEFINE ws == Append(us, u)
             n == Len(us)
  <2>1. /\ ws \in Seq(V) /\ Len(ws) = n + 1 /\ n \in Nat
        /\ \A k \in 1 .. n : ws[k] = us[k]
        /\ ws[n + 1] = u
    <3> HIDE DEF V
    <3> QED
      BY AppendProperties
  <2>2. ASSUME NEW vs \in Seq(V), ThinEach(vs, ws, L) PROVE Thin(FlattenSeq(vs), FlattenSeq(ws), L)
    <3> HIDE DEF ws
    <3>1. Len(vs) = n + 1 /\ \A i \in 1 .. n + 1 : Thin(vs[i], ws[i], L)
      BY <2>1, <2>2 DEF ThinEach
    <3>2. vs # <<>>
      BY <2>1, <3>1
    <3>3. \E a \in Seq(V), b \in V : vs = Append(a, b)
      <4> HIDE DEF V
      <4> QED
        BY <3>2, SequenceEmptyOrAppend
    <3>4. PICK a \in Seq(V), b \in V : vs = Append(a, b)
      BY <3>3
    <3>5. /\ Len(a) = n
          /\ \A k \in 1 .. n : vs[k] = a[k]
          /\ vs[n + 1] = b
      <4>1. /\ Len(vs) = Len(a) + 1 /\ Len(a) \in Nat
            /\ \A k \in 1 .. Len(a) : vs[k] = a[k]
            /\ vs[Len(a) + 1] = b
        <5> HIDE DEF V
        <5> QED
          BY <3>4, AppendProperties
      <4> QED
        BY <2>1, <3>1, <4>1
    <3>6. ThinEach(a, us, L)
      <4> SUFFICES ASSUME NEW i \in 1 .. n PROVE Thin(a[i], us[i], L)
        BY <3>5 DEF ThinEach
      <4>1. i \in 1 .. n + 1
        BY <2>1
      <4> QED
        BY <2>1, <3>1, <3>5, <4>1
    <3>7. Thin(b, u, L)
      <4>1. n + 1 \in 1 .. n + 1
        BY <2>1
      <4> QED
        BY <2>1, <3>1, <3>5, <4>1
    <3> DEFINE f == FlattenSeq(a)
               g == FlattenSeq(us)
               fb == FlattenSeq(vs)
               gu == FlattenSeq(ws)
    <3>8. f \in V /\ g \in V /\ fb = f \o b /\ gu = g \o u
      BY <3>4, FlattenIs DEF ws
    <3>9. Thin(f, g, L)
      BY <1>2, <3>6
    <3> HIDE DEF f, g, fb, gu, S
    <3>10. IsJoined(fb, f, b) /\ IsJoined(gu, g, u)
      BY <3>8 DEF IsJoined
    <3>11. Thin(fb, gu, L)
      BY <3>7, <3>8, <3>9, <3>10, ThinConcat
    <3> QED
      BY <3>11 DEF fb, gu
  <2> QED
    BY <2>1, <2>2
<1>3. Seq(V) \subseteq S
  <2> HIDE DEF V, S
  <2> QED
    BY <1>1, <1>2, SeqInductionOnSet
<1>4. xs \in S
  BY <1>3
<1> QED
  BY <1>4

\* Leaving out sequences of elements that may be lost.
LEMMA ThinPicked ==
  ASSUME NEW T, NEW xs \in Seq(Seq(T)), NEW L, NEW K \in SUBSET (DOMAIN xs),
         \A i \in DOMAIN xs \ K : \A j \in DOMAIN xs[i] : xs[i][j] \in L
  PROVE  Thin(FlattenSeq(Pick(xs, K)), FlattenSeq(xs), L)
<1> DEFINE V == Seq(T)
           m == Masked(xs, K)
<1>1. FlattenSeq(Pick(xs, K)) = FlattenSeq(m)
  BY FlattenPick
<1>2. MaskedBy(m, xs, K, V)
  BY MaskedIs
<1> HIDE DEF m
<1>3. xs \in Seq(V) /\ Len(xs) \in Nat /\ DOMAIN xs = 1 .. Len(xs) /\ \A i \in 1 .. Len(xs) : xs[i] \in V
  <2>1. xs \in Seq(V)
    OBVIOUS
  <2> HIDE DEF V
  <2> QED
    BY <2>1
<1>4. m \in Seq(V) /\ Len(m) = Len(xs) /\ \A k \in 1 .. Len(xs) : m[k] = IF k \in K THEN xs[k] ELSE <<>>
  <2> HIDE DEF V
  <2> QED
    BY <1>2 DEF MaskedBy
<1>5. ASSUME NEW k \in 1 .. Len(xs) PROVE Thin(m[k], xs[k], L)
  <2>1. xs[k] \in Seq(T)
    BY <1>3
  <2>2. CASE k \in K
    <3>1. Thin(xs[k], xs[k], L)
      BY <2>1, ThinEnds
    <3> QED
      BY <1>4, <2>2, <3>1
  <2>3. CASE k \notin K
    <3>1. \A j \in DOMAIN xs[k] : xs[k][j] \in L
      BY <1>3, <2>3
    <3>2. Thin(<<>>, xs[k], L)
      BY <2>1, <3>1, ThinEnds
    <3> QED
      BY <1>4, <2>3, <3>2
  <2> QED
    BY <2>2, <2>3
<1>6. ThinEach(m, xs, L)
  BY <1>4, <1>5 DEF ThinEach
<1>7. Thin(FlattenSeq(m), FlattenSeq(xs), L)
  BY <1>4, <1>6, ThinFlatten
<1> QED
  BY <1>1, <1>7

-----------------------------------------------------------------------------
(* The fragments of a file, part by part, and what a reader sees of them.  *)

\* The texts of the parts, and their fragments.
PartTexts(parts) == [i \in DOMAIN parts |-> parts[i].text]
PartFragments(parts) == [i \in DOMAIN parts |-> Fragments(parts[i].text)]

\* There is one of each for a part.
LEMMA PartTextsAre ==
  ASSUME NEW parts \in Seq(Part)
  PROVE  /\ PartTexts(parts) \in Seq(Text) /\ DOMAIN PartTexts(parts) = DOMAIN parts
         /\ Len(PartTexts(parts)) = Len(parts)
         /\ PartFragments(parts) \in Seq(Seq(Fragment)) /\ DOMAIN PartFragments(parts) = DOMAIN parts
         /\ Len(PartFragments(parts)) = Len(parts)
<1> DEFINE n == Len(parts)
           V == Seq(Fragment)
           p == PartTexts(parts)
           f == PartFragments(parts)
<1>1. n \in Nat /\ DOMAIN parts = 1 .. n /\ \A i \in 1 .. n : parts[i].text \in Text
  <2>1. n \in Nat /\ DOMAIN parts = 1 .. n
    OBVIOUS
  <2> QED
    BY <2>1, PartTyped
<1>2. p = [i \in 1 .. n |-> p[i]] /\ \A i \in 1 .. n : p[i] \in Text
  BY <1>1 DEF PartTexts
<1>3. \A i \in 1 .. n : Fragments(parts[i].text) \in V
  BY <1>1, FragmentsTyped
<1>4. f = [i \in 1 .. n |-> f[i]] /\ \A i \in 1 .. n : f[i] \in V
  BY <1>1, <1>3 DEF PartFragments
<1> HIDE DEF p, f, V
<1>5. p \in Seq(Text) /\ DOMAIN p = 1 .. n /\ Len(p) = n
  BY <1>1, <1>2, SequenceIs
<1>6. f \in Seq(V) /\ DOMAIN f = 1 .. n /\ Len(f) = n
  BY <1>1, <1>4, SequenceIs
<1> QED
  BY <1>1, <1>5, <1>6 DEF p, f, V

\* The fragments of a text are found by flattening.
LEMMA FragmentsFlat ==
  /\ Flat(Fragment) \in [Text -> Seq(Fragment)]
  /\ \A text \in Text : Flat(Fragment)[text] = Fragments(text)
BY FlatIs DEF Text, Fragments

\* So the fragments of all parts are a function of their texts.
LEMMA PartFragmentsMapped ==
  ASSUME NEW parts \in Seq(Part)
  PROVE  PartFragments(parts) = Mapped(Flat(Fragment), PartTexts(parts))
<1> DEFINE F == Flat(Fragment)
<1>1. \A i \in DOMAIN parts : parts[i].text \in Text
  BY PartTyped
<1>2. \A i \in DOMAIN parts : F[parts[i].text] = Fragments(parts[i].text)
  BY <1>1, FragmentsFlat
<1> HIDE DEF F
<1>3. /\ DOMAIN PartTexts(parts) = DOMAIN parts
      /\ \A i \in DOMAIN parts : PartTexts(parts)[i] = parts[i].text
  BY DEF PartTexts
<1>4. Mapped(F, PartTexts(parts)) = [i \in DOMAIN parts |-> F[parts[i].text]]
  BY <1>3 DEF Mapped
<1> QED
  BY <1>2, <1>4 DEF PartFragments, F

\* The texts of some parts are picked from the texts.
LEMMA TextsOfPicked ==
  ASSUME NEW parts \in Seq(Part), NEW K \in SUBSET (DOMAIN parts)
  PROVE  TextsOf(parts, K) = Pick(PartTexts(parts), K)
<1> DEFINE n == Cardinality(K)
           xs == PartTexts(parts)
           p == Pick(parts, K)
           q == Pick(xs, K)
           t == TextsOf(parts, K)
<1>1. PICK o : Enumerates(o, n, K)
  BY Enumerated
<1>2. t = [k \in 1 .. n |-> p[k].text]
  BY DEF TextsOf
<1>3. xs \in Seq(Text) /\ DOMAIN xs = DOMAIN parts /\ \A i \in DOMAIN parts : xs[i] = parts[i].text
  BY PartTextsAre DEF PartTexts
<1> HIDE DEF n, xs
<1>4. PickedIn(p, parts, o, n, Part)
  BY <1>1, PickIn
<1>5. PickedIn(q, xs, o, n, Text)
  BY <1>1, <1>3, PickIn
<1> HIDE DEF p, q
<1>6. n \in Nat /\ \A k \in 1 .. n : p[k] = parts[o[k]]
  BY <1>4 DEF PickedIn
<1>7. q \in Seq(Text) /\ Len(q) = n /\ \A k \in 1 .. n : q[k] = xs[o[k]]
  BY <1>5 DEF PickedIn
<1>8. \A k \in 1 .. n : o[k] \in DOMAIN parts
  BY <1>1 DEF Enumerates
<1>9. \A k \in 1 .. n : q[k] = p[k].text
  BY <1>3, <1>6, <1>7, <1>8
<1>10. q = [k \in 1 .. n |-> q[k]]
  BY <1>7
<1>11. t = q
  BY <1>2, <1>9, <1>10
<1> QED
  BY <1>11 DEF t, q, xs

\* The fragments of the texts of some parts, one after the other.
LEMMA TextsFragments ==
  ASSUME NEW parts \in Seq(Part), NEW K \in SUBSET (DOMAIN parts)
  PROVE  /\ FlattenSeq(TextsOf(parts, K)) \in Text
         /\ Fragments(FlattenSeq(TextsOf(parts, K))) = FlattenSeq(Pick(PartFragments(parts), K))
<1> DEFINE F == Flat(Fragment)
           V == Seq(Fragment)
           xs == PartTexts(parts)
           p == Pick(xs, K)
<1>1. TextsOf(parts, K) = p
  BY TextsOfPicked
<1>2. xs \in Seq(Text) /\ K \in SUBSET (DOMAIN xs)
  BY PartTextsAre
<1>3. F \in [Text -> V] /\ PartFragments(parts) = Mapped(F, xs)
  BY FragmentsFlat, PartFragmentsMapped
<1> HIDE DEF xs, F
<1>4. p \in Seq(Text)
  BY <1>2, PickIs
<1>5. IsMapped(Pick(Mapped(F, xs), K), F, p)
  BY <1>2, <1>3, PickMapped
<1> HIDE DEF p
<1>6. FlattenSeq(p) \in Text
  BY <1>4, FlattenTyped DEF Text
<1>7. FlattenSeq(Mapped(F, p)) = FlattenSeq(FlattenSeq(p))
  BY <1>4, FlattenFlatten DEF F, Text
<1> QED
  BY <1>1, <1>3, <1>5, <1>6, <1>7 DEF IsMapped, Fragments

-----------------------------------------------------------------------------
\* Occurrences of fragments.
Occurrence == [fragment : Fragment, part : Nat]

FragmentOf == [o \in Occurrence |-> o.fragment]

OccurrencesIn(parts, i) ==
  LET fragments == Fragments(parts[i].text) IN
  [n \in DOMAIN fragments |-> [fragment |-> fragments[n], part |-> i]]

PartOccurrences(parts) == [i \in DOMAIN parts |-> OccurrencesIn(parts, i)]

\* An occurrence has a fragment.
LEMMA FragmentOfIs ==
  /\ FragmentOf \in [Occurrence -> Fragment]
  /\ \A o \in Occurrence : FragmentOf[o] = o.fragment
BY DEF FragmentOf, Occurrence

\* What occurs in a part are its fragments.
InPart(os, i, parts) ==
  /\ os \in Seq(Occurrence)
  /\ Mapped(FragmentOf, os) = Fragments(parts[i].text)
  /\ \A k \in DOMAIN os : os[k].part = i

\* It holds of the occurrences in any part.
LEMMA OccurrencesInAre ==
  ASSUME NEW parts \in Seq(Part), NEW i \in DOMAIN parts
  PROVE  InPart(OccurrencesIn(parts, i), i, parts)
<1> DEFINE f == Fragments(parts[i].text)
           os == OccurrencesIn(parts, i)
           n == Len(f)
<1>1. f \in Seq(Fragment) /\ i \in Nat
  BY PartTyped, FragmentsTyped
<1>2. os = [k \in DOMAIN f |-> [fragment |-> f[k], part |-> i]]
  BY DEF OccurrencesIn
<1> HIDE DEF f, os
<1>3. n \in Nat /\ DOMAIN f = 1 .. n /\ \A k \in 1 .. n : f[k] \in Fragment
  BY <1>1
<1>4. ASSUME NEW k \in 1 .. n
      PROVE  os[k] \in Occurrence /\ os[k].fragment = f[k] /\ os[k].part = i
  <2>1. os[k] = [fragment |-> f[k], part |-> i]
    BY <1>2, <1>3
  <2> QED
    BY <1>1, <1>3, <2>1 DEF Occurrence
<1>5. os = [k \in 1 .. n |-> os[k]]
  BY <1>2, <1>3
<1>6. os \in Seq(Occurrence) /\ Len(os) = n /\ DOMAIN os = 1 .. n
  BY <1>3, <1>4, <1>5, SequenceIs
<1> DEFINE m == Mapped(FragmentOf, os)
<1>7. MappedBy(m, FragmentOf, os, Fragment)
  BY <1>6, FragmentOfIs, MappedIs
<1> HIDE DEF m
<1>8. m \in Seq(Fragment) /\ Len(m) = n /\ \A k \in 1 .. n : m[k] = FragmentOf[os[k]]
  BY <1>6, <1>7 DEF MappedBy
<1>9. m = f
  BY <1>1, <1>4, <1>8, FragmentOfIs, SameSequence
<1> QED
  BY <1>4, <1>6, <1>9 DEF InPart, m, f, os

\* What occurs in all parts are the fragments of all parts.
LEMMA PartOccurrencesAre ==
  ASSUME NEW parts \in Seq(Part)
  PROVE  /\ PartOccurrences(parts) \in Seq(Seq(Occurrence))
         /\ DOMAIN PartOccurrences(parts) = DOMAIN parts
         /\ PartFragments(parts) = Mapped(Each(FragmentOf, Occurrence), PartOccurrences(parts))
<1> DEFINE os == PartOccurrences(parts)
           n == Len(parts)
           V == Seq(Occurrence)
           E == Each(FragmentOf, Occurrence)
<1>1. n \in Nat /\ DOMAIN parts = 1 .. n
  OBVIOUS
<1>2. os = [i \in 1 .. n |-> os[i]] /\ \A i \in 1 .. n : os[i] = OccurrencesIn(parts, i)
  BY <1>1 DEF PartOccurrences
<1>3. \A i \in 1 .. n : os[i] \in V /\ Mapped(FragmentOf, os[i]) = Fragments(parts[i].text)
  BY <1>1, <1>2, OccurrencesInAre DEF InPart
<1>4. \A xs \in V : E[xs] = Mapped(FragmentOf, xs)
  BY FragmentOfIs, EachIs
<1> HIDE DEF os, V, E
<1>5. os \in Seq(V) /\ DOMAIN os = 1 .. n
  BY <1>1, <1>2, <1>3, SequenceIs
<1>6. Mapped(E, os) = [i \in 1 .. n |-> E[os[i]]]
  BY <1>5 DEF Mapped
<1>7. PartFragments(parts) = [i \in 1 .. n |-> Fragments(parts[i].text)]
  BY <1>1 DEF PartFragments
<1>8. \A i \in 1 .. n : E[os[i]] = Fragments(parts[i].text)
  BY <1>3, <1>4
<1> QED
  BY <1>1, <1>5, <1>6, <1>7, <1>8 DEF os, V, E

\* The fragments of what occurs in some parts.
LEMMA OccurrencesFragments ==
  ASSUME NEW parts \in Seq(Part), NEW K \in SUBSET (DOMAIN parts)
  PROVE  /\ FlattenSeq(Pick(PartOccurrences(parts), K)) \in Seq(Occurrence)
         /\ Mapped(FragmentOf, FlattenSeq(Pick(PartOccurrences(parts), K)))
              = FlattenSeq(Pick(PartFragments(parts), K))
<1> DEFINE xs == PartOccurrences(parts)
           V == Seq(Occurrence)
           W == Seq(Fragment)
           E == Each(FragmentOf, Occurrence)
           p == Pick(xs, K)
<1>1. xs \in Seq(V) /\ K \in SUBSET (DOMAIN xs) /\ PartFragments(parts) = Mapped(E, xs)
  BY PartOccurrencesAre
<1>2. E \in [V -> W] /\ FragmentOf \in [Occurrence -> Fragment]
  BY FragmentOfIs, EachIs
<1> HIDE DEF xs, E
<1>3. p \in Seq(V) /\ IsMapped(Pick(Mapped(E, xs), K), E, p)
  <2> HIDE DEF V, W
  <2>1. p \in Seq(V)
    BY <1>1, PickIs
  <2> QED
    BY <1>1, <1>2, <2>1, PickMapped
<1> HIDE DEF p
<1>4. Mapped(FragmentOf, FlattenSeq(p)) = FlattenSeq(Mapped(E, p))
  BY <1>2, <1>3, FlattenMapped DEF E
<1>5. FlattenSeq(p) \in V
  BY <1>3, FlattenTyped
<1> QED
  BY <1>1, <1>3, <1>4, <1>5 DEF p, xs, IsMapped

-----------------------------------------------------------------------------
\* A reader reads parts of the file.
LEMMA ReadIs ==
  ASSUME NEW content
  PROVE  Read(content) \in SUBSET (DOMAIN content.parts)
<1> DEFINE parts == content.parts
           first(n, positions) == {i \in positions : Cardinality({j \in positions : j <= i}) <= n}
           rows == Tagged(parts, "row")
<1>1. \A tag : Tagged(parts, tag) \in SUBSET (DOMAIN parts)
  BY TaggedAre
<1>2. \A n, positions : first(n, positions) \in SUBSET positions
  OBVIOUS
<1>3. Read(content) =
        CASE content.kind = "html" -> {i \in Tagged(parts, "data") : ~Hidden(parts, i)}
          [] content.kind = "csv" -> first(MaxRows, rows)
          [] content.kind = "xlsx" ->
               first(MaxRows, {i \in rows : Count(parts, "sheet", 1, i) <= MaxSheets})
          [] content.kind = "pdf" -> first(MaxPages, DOMAIN parts)
          [] content.kind = "pptx" -> first(MaxSlides, DOMAIN parts)
          [] content.kind = "zip" -> Tagged(parts, "file")
          [] content.kind = "docx" -> Tagged(parts, "paragraph")
          [] OTHER -> DOMAIN parts
  BY DEF Read
<1> HIDE DEF first, parts
<1>4. rows \in SUBSET (DOMAIN parts)
  BY <1>1
<1>5. {i \in rows : Count(parts, "sheet", 1, i) <= MaxSheets} \in SUBSET (DOMAIN parts)
  BY <1>4
<1>6. {i \in Tagged(parts, "data") : ~Hidden(parts, i)} \in SUBSET (DOMAIN parts)
  BY <1>1
<1> HIDE DEF rows
<1>7. Read(content) \in SUBSET (DOMAIN parts)
  <2>1. first(MaxRows, rows) \in SUBSET (DOMAIN parts)
    BY <1>2, <1>4
  <2>2. /\ first(MaxPages, DOMAIN parts) \in SUBSET (DOMAIN parts)
        /\ first(MaxSlides, DOMAIN parts) \in SUBSET (DOMAIN parts)
    BY <1>2
  <2>3. first(MaxRows, {i \in rows : Count(parts, "sheet", 1, i) <= MaxSheets}) \in SUBSET (DOMAIN parts)
    <3> DEFINE s == {i \in rows : Count(parts, "sheet", 1, i) <= MaxSheets}
    <3> HIDE DEF s
    <3> QED
      BY <1>2, <1>5 DEF s
  <2>4. /\ Tagged(parts, "file") \in SUBSET (DOMAIN parts)
        /\ Tagged(parts, "paragraph") \in SUBSET (DOMAIN parts)
        /\ DOMAIN parts \in SUBSET (DOMAIN parts)
    BY <1>1
  <2> QED
    BY <1>3, <1>6, <2>1, <2>2, <2>3, <2>4
<1> QED
  BY <1>7 DEF parts

\* What occurs at some parts.
LEMMA OccurrencesPicked ==
  ASSUME NEW parts \in Seq(Part), NEW K \in SUBSET (DOMAIN parts)
  PROVE  /\ InOrder(K) \in Seq(DOMAIN parts)
         /\ Mapped(PartOccurrences(parts), InOrder(K)) = Pick(PartOccurrences(parts), K)
<1> DEFINE o == InOrder(K)
           D == DOMAIN parts
<1>1. PICK r : Enumerates(r, Cardinality(K), K)
  BY Enumerated
<1>2. K \in SUBSET Nat
  OBVIOUS
<1>3. o = r
  BY <1>1, <1>2, EnumeratesIs
<1> HIDE DEF o
<1>4. Cardinality(K) \in Nat /\ o \in [1 .. Cardinality(K) -> D]
  BY <1>1, <1>3 DEF Enumerates
<1> HIDE DEF D
<1>5. o \in Seq(D)
  BY <1>4
<1>6. Pick(PartOccurrences(parts), K) = [k \in DOMAIN o |-> PartOccurrences(parts)[o[k]]]
  BY DEF Pick, o
<1> QED
  BY <1>5, <1>6 DEF Mapped, o, D

\* All that is read, in its order, tables last.
Tables(content) == IF content.kind = "docx" THEN Tagged(content.parts, "row") ELSE {}

\* Occurrences are those of the parts that are read, then of the tables.
LEMMA SeenIs ==
  ASSUME NEW content \in Contents
  PROVE  IsJoined(Occurrences(content),
                  FlattenSeq(Pick(PartOccurrences(content.parts), Read(content))),
                  FlattenSeq(Pick(PartOccurrences(content.parts), Tables(content))))
<1> DEFINE parts == content.parts
           D == DOMAIN parts
           V == Seq(Occurrence)
           os == PartOccurrences(parts)
           a == InOrder(Read(content))
           b == InOrder(Tables(content))
           c == IF content.kind = "docx" THEN InOrder(Tagged(parts, "row")) ELSE <<>>
           order == a \o c
           p == Pick(os, Read(content))
           q == Pick(os, Tables(content))
<1>1. parts \in Seq(Part)
  BY ContentsAre
<1>2. Read(content) \in SUBSET D /\ Tables(content) \in SUBSET D
  BY ReadIs, TaggedAre DEF Tables
<1>3. InOrder({}) = <<>>
  <2>1. Enumerates(<<>>, 0, {})
    BY DEF Enumerates
  <2> DEFINE N == {}
  <2>2. N \in SUBSET Nat
    OBVIOUS
  <2> QED
    BY <2>1, <2>2, EnumeratesIs
<1>4. c = b
  BY <1>3 DEF Tables
<1>5. Occurrences(content) = FlattenSeq([k \in DOMAIN order |-> OccurrencesIn(parts, order[k])])
  BY DEF Occurrences, OccurrencesIn
<1> HIDE DEF parts
<1>6. a \in Seq(D) /\ b \in Seq(D) /\ Mapped(os, a) = p /\ Mapped(os, b) = q
  BY <1>1, <1>2, OccurrencesPicked
<1>7. os \in [D -> V] /\ \A i \in D : os[i] = OccurrencesIn(parts, i)
  <2>1. \A i \in D : OccurrencesIn(parts, i) \in V
    BY <1>1, OccurrencesInAre DEF InPart
  <2> HIDE DEF V
  <2> QED
    BY <2>1 DEF PartOccurrences
<1> HIDE DEF c, a, b
<1>8. order \in Seq(D) /\ IsJoined(order, a, b)
  <2> HIDE DEF D
  <2> QED
    BY <1>4, <1>6 DEF IsJoined
<1> HIDE DEF order
<1>9. Mapped(os, order) = [k \in DOMAIN order |-> OccurrencesIn(parts, order[k])]
  <2>1. \A k \in DOMAIN order : order[k] \in D
    <3> HIDE DEF D
    <3> QED
      BY <1>8
  <2>2. \A k \in DOMAIN order : os[order[k]] = OccurrencesIn(parts, order[k])
    <3> HIDE DEF D, os
    <3> QED
      BY <1>7, <2>1
  <2> HIDE DEF os
  <2> QED
    BY <2>2 DEF Mapped
<1> HIDE DEF os
<1>10. IsJoined(Mapped(os, order), Mapped(os, a), Mapped(os, b))
  <2> HIDE DEF D, V
  <2> QED
    BY <1>6, <1>7, <1>8, MappedConcat
<1>11. p \in Seq(V) /\ q \in Seq(V)
  <2>1. os \in Seq(V) /\ DOMAIN os = D
    BY <1>1, PartOccurrencesAre DEF os
  <2> HIDE DEF D, V
  <2> QED
    BY <1>2, <2>1, PickIs
<1> HIDE DEF p, q
<1>12. FlattenSeq(p \o q) = FlattenSeq(p) \o FlattenSeq(q)
  BY <1>11, FlattenConcat
<1> QED
  BY <1>5, <1>6, <1>9, <1>10, <1>12 DEF IsJoined, p, q, os, parts

\* The fragments of sections, one after the other.
SectionFragments(document) ==
  FlattenSeq([i \in DOMAIN document |-> Fragments(document[i].text)])

Headings(content) == {o \in Occurrence : content.parts[o.part].tag = "heading"}

\* Sections are what is read but for headings, or the URI for want of anything.
Faithful(document, content) ==
  \/ Occurrences(content) = <<>> /\ SectionFragments(document) \in {<<>>, <<Uri>>}
  \/ \E os \in Seq(Occurrence) : /\ Thin(os, Occurrences(content), Headings(content))
                                 /\ SectionFragments(document) = Mapped(FragmentOf, os)

\* What is read of a file, as fragments.
ReadFragments(content) ==
  FlattenSeq(Pick(PartFragments(content.parts), Read(content)))
    \o FlattenSeq(Pick(PartFragments(content.parts), Tables(content)))

\* They are the fragments of what occurs.
LEMMA SeenFragments ==
  ASSUME NEW content \in Contents
  PROVE  /\ Occurrences(content) \in Seq(Occurrence)
         /\ ReadFragments(content) = Mapped(FragmentOf, Occurrences(content))
<1> DEFINE parts == content.parts
           os == PartOccurrences(parts)
           a == FlattenSeq(Pick(os, Read(content)))
           b == FlattenSeq(Pick(os, Tables(content)))
           seen == Occurrences(content)
<1>1. /\ parts \in Seq(Part) /\ Read(content) \in SUBSET (DOMAIN parts)
      /\ Tables(content) \in SUBSET (DOMAIN parts)
  BY ContentsAre, ReadIs, TaggedAre DEF Tables
<1>2. /\ a \in Seq(Occurrence)
      /\ Mapped(FragmentOf, a) = FlattenSeq(Pick(PartFragments(parts), Read(content)))
      /\ b \in Seq(Occurrence)
      /\ Mapped(FragmentOf, b) = FlattenSeq(Pick(PartFragments(parts), Tables(content)))
  BY <1>1, OccurrencesFragments
<1>3. IsJoined(seen, a, b)
  BY SeenIs
<1> HIDE DEF a, b, seen
<1>4. IsJoined(Mapped(FragmentOf, seen), Mapped(FragmentOf, a), Mapped(FragmentOf, b))
  BY <1>2, <1>3, FragmentOfIs, MappedConcat
<1>5. seen \in Seq(Occurrence)
  BY <1>2, <1>3 DEF IsJoined
<1> QED
  BY <1>2, <1>4, <1>5 DEF IsJoined, ReadFragments, seen

\* Sections that are all that is read.
LEMMA FaithfulIf ==
  ASSUME NEW content \in Contents, NEW document,
         \/ SectionFragments(document) = ReadFragments(content)
         \/ ReadFragments(content) = <<>> /\ SectionFragments(document) \in {<<>>, <<Uri>>}
  PROVE  Faithful(document, content)
<1> DEFINE seen == Occurrences(content)
<1>1. seen \in Seq(Occurrence) /\ ReadFragments(content) = Mapped(FragmentOf, seen)
  BY SeenFragments
<1> HIDE DEF seen
<1>2. CASE SectionFragments(document) = ReadFragments(content)
  <2>1. Thin(seen, seen, Headings(content))
    BY <1>1, ThinEnds
  <2> QED
    BY <1>1, <1>2, <2>1 DEF Faithful, seen
<1>3. CASE ReadFragments(content) = <<>> /\ SectionFragments(document) \in {<<>>, <<Uri>>}
  <2>1. MappedBy(Mapped(FragmentOf, seen), FragmentOf, seen, Fragment)
    BY <1>1, FragmentOfIs, MappedIs
  <2>2. Len(seen) = 0
    BY <1>1, <1>3, <2>1 DEF MappedBy
  <2>3. seen = <<>>
    BY <1>1, <2>2
  <2> QED
    BY <1>3, <2>3 DEF Faithful, seen
<1> QED
  BY <1>2, <1>3

-----------------------------------------------------------------------------
(* The fragments of sections.                                              *)

\* The texts of sections.
HasTexts(document, texts) ==
  DOMAIN document = DOMAIN texts /\ \A k \in DOMAIN texts : document[k].text = texts[k]

\* The fragments of all texts.
AllFragments(texts) == Fragments(FlattenSeq(texts))

\* They are those of each, one after the other.
LEMMA AllFragmentsAre ==
  ASSUME NEW texts \in Seq(Text)
  PROVE  /\ AllFragments(texts) = FlattenSeq(Mapped(Flat(Fragment), texts))
         /\ MappedBy(Mapped(Flat(Fragment), texts), Flat(Fragment), texts, Seq(Fragment))
         /\ FlattenSeq(texts) \in Text
<1> DEFINE F == Flat(Fragment)
           V == Seq(Fragment)
<1>1. F \in [Text -> V]
  BY FragmentsFlat
<1>2. FlattenSeq(Mapped(F, texts)) = FlattenSeq(FlattenSeq(texts))
  BY FlattenFlatten DEF Text
<1>3. FlattenSeq(texts) \in Text
  BY FlattenTyped DEF Text
<1> HIDE DEF F, V
<1>4. MappedBy(Mapped(F, texts), F, texts, V)
  BY <1>1, MappedIs
<1> QED
  BY <1>2, <1>3, <1>4 DEF AllFragments, Fragments, F, V

\* The fragments of sections are those of their texts.
LEMMA TextsJoined ==
  ASSUME NEW texts \in Seq(Text), NEW document, HasTexts(document, texts)
  PROVE  SectionFragments(document) = AllFragments(texts)
<1>1. \A k \in DOMAIN texts : texts[k] \in Text
  OBVIOUS
<1>2. \A k \in DOMAIN texts : Flat(Fragment)[texts[k]] = Fragments(texts[k])
  BY <1>1, FragmentsFlat
<1>3. [i \in DOMAIN document |-> Fragments(document[i].text)] = Mapped(Flat(Fragment), texts)
  BY <1>2 DEF HasTexts, Mapped
<1> QED
  BY <1>3, AllFragmentsAre DEF SectionFragments

\* Texts with the same fragments, one by one.
LEMMA SameFragments ==
  ASSUME NEW xs \in Seq(Text), NEW ys \in Seq(Text), Len(xs) = Len(ys),
         \A k \in 1 .. Len(xs) : Fragments(xs[k]) = Fragments(ys[k])
  PROVE  AllFragments(xs) = AllFragments(ys)
<1> DEFINE F == Flat(Fragment)
<1>1. /\ \A k \in 1 .. Len(xs) : xs[k] \in Text /\ ys[k] \in Text
      /\ DOMAIN xs = 1 .. Len(xs) /\ DOMAIN ys = 1 .. Len(xs)
  OBVIOUS
<1>2. \A k \in 1 .. Len(xs) : F[xs[k]] = F[ys[k]]
  BY <1>1, FragmentsFlat
<1> HIDE DEF F
<1>3. Mapped(F, xs) = Mapped(F, ys)
  BY <1>1, <1>2 DEF Mapped
<1> QED
  BY <1>3, AllFragmentsAre DEF F

\* Leaving out texts without fragments.
LEMMA FullTexts ==
  ASSUME NEW texts \in Seq(Text), NEW K \in SUBSET (DOMAIN texts),
         \A i \in DOMAIN texts \ K : Fragments(texts[i]) = <<>>
  PROVE  Pick(texts, K) \in Seq(Text) /\ AllFragments(Pick(texts, K)) = AllFragments(texts)
<1> DEFINE F == Flat(Fragment)
           V == Seq(Fragment)
           m == Mapped(F, texts)
           p == Pick(texts, K)
<1>1. F \in [Text -> V] /\ \A i \in DOMAIN texts : F[texts[i]] = Fragments(texts[i])
  <2>1. \A i \in DOMAIN texts : texts[i] \in Text
    OBVIOUS
  <2> QED
    BY <2>1, FragmentsFlat
<1>2. MappedBy(m, F, texts, V) /\ AllFragments(texts) = FlattenSeq(m)
  BY AllFragmentsAre
<1>3. p \in Seq(Text)
  BY PickIs
<1>4. AllFragments(p) = FlattenSeq(Mapped(F, p))
  BY <1>3, AllFragmentsAre
<1> HIDE DEF F, m
<1>5. IsMapped(Pick(m, K), F, p)
  <2> HIDE DEF V
  <2> QED
    BY <1>1, PickMapped DEF m
<1> HIDE DEF p
<1>6. m \in Seq(V) /\ DOMAIN m = DOMAIN texts /\ \A i \in DOMAIN m \ K : m[i] = <<>>
  BY <1>1, <1>2 DEF MappedBy
<1>7. FlattenSeq(Pick(m, K)) = FlattenSeq(m)
  BY <1>6, FlattenPickAll
<1> QED
  BY <1>2, <1>3, <1>4, <1>5, <1>7 DEF IsMapped, p

\* The texts of picked sections are picked.
LEMMA PickTexts ==
  ASSUME NEW document, NEW n \in Nat, document = [k \in 1 .. n |-> document[k]],
         NEW texts \in Seq(Text), HasTexts(document, texts), NEW K \in SUBSET (DOMAIN texts)
  PROVE  HasTexts(Pick(document, K), Pick(texts, K))
<1> DEFINE D == ToSet(document)
           p == Pick(document, K)
           q == Pick(texts, K)
           c == Cardinality(K)
<1>1. document \in Seq(D) /\ DOMAIN document = DOMAIN texts
  BY SequenceIs DEF ToSet, HasTexts
<1>2. PICK o : Enumerates(o, c, K)
  BY Enumerated
<1> HIDE DEF D, c
<1>3. PickedIn(p, document, o, c, D)
  BY <1>1, <1>2, PickIn
<1>4. PickedIn(q, texts, o, c, Text)
  BY <1>2, PickIn
<1> HIDE DEF p, q
<1>5. \A k \in 1 .. c : o[k] \in DOMAIN texts
  BY <1>2 DEF Enumerates
<1> QED
  BY ZenonT(60), <1>3, <1>4, <1>5 DEF PickedIn, HasTexts, p, q

\* A single text.
LEMMA OneText ==
  ASSUME NEW text \in Text
  PROVE  <<text>> \in Seq(Text) /\ AllFragments(<<text>>) = Fragments(text)
<1>1. <<>> \in Seq(Text) /\ <<text>> = Append(<<>>, text)
  OBVIOUS
<1>2. FlattenSeq(Append(<<>>, text)) = FlattenSeq(<<>>) \o text
  <2> DEFINE e == <<>>
  <2>1. e \in Seq(Text)
    OBVIOUS
  <2> HIDE DEF e
  <2>2. FlattenSeq(Append(e, text)) = FlattenSeq(e) \o text
    BY <2>1, FlattenIs DEF Text
  <2> QED
    BY <2>2 DEF e
<1>3. FlattenSeq(<<>>) = <<>>
  BY <1>1, FlattenIs DEF Text
<1>4. <<>> \o text = text
  BY ConcatEmptySeq DEF Text
<1>5. <<text>> \in Seq(Text)
  <2> HIDE DEF Text
  <2> QED
    OBVIOUS
<1>6. FlattenSeq(<<text>>) = text
  BY <1>1, <1>2, <1>3, <1>4
<1> QED
  BY <1>5, <1>6 DEF AllFragments

\* A text of no line has no fragment.
LEMMA NoLines == <<>> \in Text /\ Fragments(<<>>) = <<>>
<1>1. <<>> \in Text
  BY DEF Text
<1> QED
  BY <1>1, FlattenIs DEF Fragments, Text

\* All that a reader sees of a file, as texts.
ReadTexts(content) == Pick(PartTexts(content.parts), Read(content))

\* They are texts of parts, and their fragments are what is read.
LEMMA ReadTextsAre ==
  ASSUME NEW content \in Contents, content.kind # "docx"
  PROVE  /\ content.parts \in Seq(Part)
         /\ PartTexts(content.parts) \in Seq(Text)
         /\ DOMAIN PartTexts(content.parts) = DOMAIN content.parts
         /\ Read(content) \in SUBSET (DOMAIN content.parts)
         /\ ReadTexts(content) \in Seq(Text)
         /\ ReadFragments(content) = AllFragments(ReadTexts(content))
<1> DEFINE parts == content.parts
           K == Read(content)
           xs == PartFragments(parts)
           p == FlattenSeq(Pick(xs, K))
<1>1. parts \in Seq(Part) /\ K \in SUBSET (DOMAIN parts)
  BY ContentsAre, ReadIs
<1>2. PartTexts(parts) \in Seq(Text) /\ DOMAIN PartTexts(parts) = DOMAIN parts
  BY <1>1, PartTextsAre
<1>3. ReadTexts(content) = TextsOf(parts, K)
  BY <1>1, TextsOfPicked DEF ReadTexts
<1>4. ReadTexts(content) \in Seq(Text)
  BY <1>1, <1>2, PickIs DEF ReadTexts
<1>5. AllFragments(ReadTexts(content)) = p
  BY <1>1, <1>3, TextsFragments DEF AllFragments
<1>6. Tables(content) = {}
  BY DEF Tables
<1>7. xs \in Seq(Seq(Fragment))
  BY <1>1, PartTextsAre
<1>8. p \in Seq(Fragment)
  <2>1. K \in SUBSET (DOMAIN xs)
    BY <1>1, PartTextsAre
  <2>2. Pick(xs, K) \in Seq(Seq(Fragment))
    <3> DEFINE V == Seq(Fragment)
    <3> HIDE DEF V
    <3> QED
      BY <1>7, <2>1, PickIs DEF V
  <2> QED
    BY <2>2, FlattenTyped
<1>9. FlattenSeq(Pick(xs, {})) = <<>>
  <2>1. Pick(xs, {}) = <<>>
    BY <1>7, PickEnds
  <2> QED
    BY <1>7, <2>1, FlattenIs
<1>10. ReadFragments(content) = p
  <2>1. ReadFragments(content) = p \o <<>>
    BY <1>6, <1>9 DEF ReadFragments
  <2> HIDE DEF p
  <2> QED
    BY <1>8, <2>1, ConcatEmptySeq
<1> QED
  BY <1>1, <1>2, <1>4, <1>5, <1>10

\* Sections whose texts have the fragments that are read.
LEMMA TextsFaithful ==
  ASSUME NEW content \in Contents, content.kind # "docx", NEW document, NEW texts \in Seq(Text),
         HasTexts(document, texts), AllFragments(texts) = AllFragments(ReadTexts(content))
  PROVE  Faithful(document, content)
BY TextsJoined, ReadTextsAre, FaithfulIf

\* A single section, of a text or the URI.
LEMMA OneFaithful ==
  ASSUME NEW content \in Contents, content.kind # "docx", NEW text \in Text,
         Fragments(text) = AllFragments(ReadTexts(content)),
         NEW short \in Text, Fragments(short) = Fragments(text)
  PROVE  Faithful(Numbered(<<OrUri(short)>>), content)
<1> DEFINE x == OrUri(short)
           document == Numbered(<<x>>)
<1>1. x \in Text
  BY OrUriIs
<1>2. <<x>> \in Seq(Text) /\ AllFragments(<<x>>) = Fragments(x)
  BY <1>1, OneText
<1>3. HasTexts(document, <<x>>)
  BY DEF Numbered, Section, HasTexts
<1>4. SectionFragments(document) = Fragments(x)
  BY <1>2, <1>3, TextsJoined
<1>5. ReadFragments(content) = Fragments(text)
  BY ReadTextsAre
<1>6. CASE short # <<>>
  BY <1>4, <1>5, <1>6, FaithfulIf DEF OrUri
<1>7. CASE short = <<>>
  <2>1. Fragments(short) = <<>>
    BY <1>7, NoLines
  <2>2. x = <<Line(Uri)>>
    BY <1>7 DEF OrUri
  <2>3. Fragments(x) = <<Uri>>
    <3>1. Line(Uri) \in Seq(Fragment)
      BY <1>1, <2>2 DEF Text
    <3> DEFINE V == Seq(Fragment)
               e == <<>>
    <3>2. /\ e \in Seq(V) /\ FlattenSeq(Append(e, Line(Uri))) = FlattenSeq(e) \o Line(Uri)
          /\ FlattenSeq(e) = <<>>
      <4>1. e \in Seq(V)
        OBVIOUS
      <4> HIDE DEF e
      <4>2. FlattenSeq(Append(e, Line(Uri))) = FlattenSeq(e) \o Line(Uri)
        BY <3>1, <4>1, FlattenIs
      <4>3. FlattenSeq(<<>>) = <<>>
        BY <4>1, FlattenIs
      <4> QED
        BY <4>1, <4>2, <4>3 DEF e
    <3>3. x = Append(e, Line(Uri))
      BY <2>2
    <3> QED
      BY <3>1, <3>2, <3>3, ConcatEmptySeq DEF Fragments, Line
  <2> QED
    BY <1>4, <1>5, <2>1, <2>3, FaithfulIf
<1> QED
  BY <1>6, <1>7

-----------------------------------------------------------------------------
(* What is read is what is parsed: plain text, archives.                   *)

\* Plain text is kept.
LEMMA TextFaithful ==
  ASSUME NEW content \in Contents, content.kind = "text"
  PROVE  Faithful(ParseText(content).sections, content)
<1> DEFINE parts == content.parts
           D == DOMAIN parts
           text == Decoded(content)
           short == Normalize(text)
<1>1. text \in Text /\ short \in Text /\ Fragments(short) = Fragments(text)
  BY DecodedIs, NormalizeIs, NormalizeKeeps
<1>2. text = FlattenSeq(TextsOf(parts, D))
  BY DEF Decoded, BinaryKinds, Archives
<1>3. Read(content) = D
  BY DEF Read
<1>4. parts \in Seq(Part) /\ PartTexts(parts) \in Seq(Text) /\ DOMAIN PartTexts(parts) = D
  BY ReadTextsAre
<1>5. ReadTexts(content) = TextsOf(parts, D)
  BY <1>3, <1>4, TextsOfPicked DEF ReadTexts
<1>6. Fragments(text) = AllFragments(ReadTexts(content))
  BY <1>2, <1>5 DEF AllFragments
<1> HIDE DEF text, short
<1>7. Faithful(Numbered(<<OrUri(short)>>), content)
  BY <1>1, <1>6, OneFaithful
<1> QED
  BY <1>7 DEF ParseText, Parses, short, text

\* The text of a single section.
LEMMA HasOne ==
  ASSUME NEW section, NEW text, section.text = text
  PROVE  HasTexts(<<section>>, <<text>>)
<1>1. DOMAIN <<section>> = {1} /\ DOMAIN <<text>> = {1}
  OBVIOUS
<1>2. <<section>>[1] = section /\ <<text>>[1] = text
  OBVIOUS
<1> QED
  BY <1>1, <1>2 DEF HasTexts

\* The names of the files of an archive are kept.
LEMMA ZipFaithful ==
  ASSUME NEW content \in Contents, content.kind = "zip", ParseZip(content).error = ""
  PROVE  Faithful(ParseZip(content).sections, content)
<1> DEFINE parts == content.parts
           K == Tagged(parts, "file")
           text == FlattenSeq(TextsOf(parts, K))
           listing == Section(<<"archive">>, text, "", 0, {<<"archive_listing", TRUE>>})
<1>1. ParseZip(content).sections = <<listing>>
  BY DEF ParseZip, Fails, Parses
<1>2. Read(content) = K
  BY DEF Read
<1>3. parts \in Seq(Part) /\ K \in SUBSET (DOMAIN parts)
  BY ReadTextsAre, TaggedAre
<1>4. TextsOf(parts, K) = ReadTexts(content) /\ text \in Text
  BY <1>2, <1>3, TextsOfPicked, TextsFragments DEF ReadTexts
<1> HIDE DEF K
<1>5. listing.text = text
  BY DEF Section
<1>6. HasTexts(<<listing>>, <<text>>)
  <2> HIDE DEF text, listing
  <2> QED
    BY <1>5, HasOne
<1>7. Fragments(text) = AllFragments(ReadTexts(content))
  BY <1>4 DEF AllFragments
<1> HIDE DEF text, listing
<1>8. <<text>> \in Seq(Text) /\ AllFragments(<<text>>) = Fragments(text)
  BY <1>4, OneText
<1>9. Faithful(<<listing>>, content)
  BY <1>6, <1>7, <1>8, TextsFaithful
<1> QED
  BY <1>1, <1>9

-----------------------------------------------------------------------------
(* The first of some elements.                                             *)

Earliest(n, K) == {i \in K : Cardinality({j \in K : j <= i}) <= n}

\* Picking the first ones is picking them all and taking the first.
LEMMA PickFirst ==
  ASSUME NEW T, NEW xs \in Seq(T), NEW b \in 0 .. Len(xs)
  PROVE  Pick(xs, 1 .. b) = SubSeq(xs, 1, b)
<1> DEFINE r == [k \in 1 .. b |-> k]
           K == 1 .. b
           s == SubSeq(xs, 1, b)
<1>1. b \in Nat /\ K \in SUBSET (DOMAIN xs) /\ Len(xs) \in Nat
  OBVIOUS
<1>2. Enumerates(r, b, K)
  BY <1>1 DEF Enumerates
<1>3. Pick(xs, K) = [k \in 1 .. b |-> xs[r[k]]]
  BY SMTT(40), <1>1, <1>2, PickBy
<1>4. s = [k \in 1 .. b |-> xs[k]]
  BY <1>1
<1> QED
  BY <1>3, <1>4

\* How many are at or before the k-th.
LEMMA RankIs ==
  ASSUME NEW K \in SUBSET Nat, NEW n, NEW o, Enumerates(o, n, K), NEW k \in 1 .. n
  PROVE  Cardinality({j \in K : j <= o[k]}) = k
<1> DEFINE S == {j \in K : j <= o[k]}
           r == [m \in 1 .. k |-> o[m]]
<1>1. /\ n \in Nat /\ o \in [1 .. n -> K]
      /\ \A i \in K : \E m \in 1 .. n : o[m] = i
      /\ \A h, m \in 1 .. n : h < m => o[h] < o[m]
  BY DEF Enumerates
<1>2. k \in Nat /\ \A m \in 1 .. k : m \in 1 .. n
  BY <1>1
<1>3. \A m \in 1 .. n : o[m] \in Nat
  BY <1>1
<1>4. \A m \in 1 .. k : o[m] \in S
  <2> TAKE m \in 1 .. k
  <2>1. m = k \/ m < k
    BY <1>2
  <2>2. o[m] = o[k] \/ o[m] < o[k]
    BY <1>1, <1>2, <2>1
  <2>3. o[m] <= o[k] /\ o[m] \in K
    BY <1>1, <1>2, <1>3, <2>2
  <2> QED
    BY <2>3
<1>5. ASSUME NEW i \in S
      PROVE  \E m \in 1 .. k : o[m] = i
  <2>1. PICK m \in 1 .. n : o[m] = i
    BY <1>1
  <2>2. ~ (k < m)
    BY <1>1, <1>3, <2>1
  <2> QED
    BY <1>2, <2>1, <2>2
<1> HIDE DEF S
<1>6. \A h, m \in 1 .. k : h < m => r[h] < r[m]
  BY <1>1, <1>2
<1>7. Enumerates(r, k, S)
  BY <1>2, <1>4, <1>5, <1>6 DEF Enumerates
<1>8. S \in SUBSET Nat
  BY DEF S
<1> HIDE DEF r
<1>9. Cardinality(S) = k
  BY <1>7, <1>8, EnumeratesIs
<1> QED
  BY <1>9 DEF S

\* Taking the first of what is picked is picking the first.
LEMMA TakePicks ==
  ASSUME NEW T, NEW xs \in Seq(T), NEW K \in SUBSET (DOMAIN xs), NEW n \in Nat
  PROVE  Take(n, Pick(xs, K)) = Pick(xs, Earliest(n, K))
<1> DEFINE c == Cardinality(K)
           C == Earliest(n, K)
           p == Pick(xs, K)
           b == IF c < n THEN c ELSE n
           B == 1 .. b
<1>1. PICK o : Enumerates(o, c, K)
  BY Enumerated
<1>2. K \in SUBSET Nat
  OBVIOUS
<1>3. \A k \in 1 .. c : Cardinality({j \in K : j <= o[k]}) = k
  BY <1>1, <1>2, RankIs
<1> HIDE DEF c, C, p
<1>4. c \in Nat /\ o \in [1 .. c -> K] /\ \A i \in K : \E k \in 1 .. c : o[k] = i
  BY <1>1 DEF Enumerates
<1>5. b \in Nat /\ B \in SUBSET (1 .. c)
  BY <1>4
<1>6. \A k \in 1 .. c : o[k] \in C <=> k <= n
  BY <1>3, <1>4 DEF Earliest, C
<1>7. C \subseteq K
  BY DEF C, Earliest
<1>8. \A k \in 1 .. c : k <= n <=> k \in B
  BY <1>4
<1> HIDE DEF B
<1>9. C = {o[k] : k \in B}
  <2>1. ASSUME NEW i \in C PROVE i \in {o[k] : k \in B}
    <3>1. PICK k \in 1 .. c : o[k] = i
      BY <1>4, <1>7
    <3> QED
      BY <1>6, <1>8, <3>1
  <2>2. \A k \in B : o[k] \in C
    BY <1>5, <1>6, <1>8
  <2> QED
    BY <2>1, <2>2
<1>10. IsImage(C, o, B)
  BY <1>9 DEF IsImage
<1>11. PickedAgain(p, B, xs, C)
  BY <1>1, <1>5, <1>10, PickPick DEF p
<1>12. PickedIn(p, xs, o, c, T)
  BY <1>1, PickIn DEF p
<1>13. p \in Seq(T) /\ Len(p) = c
  BY <1>12 DEF PickedIn
<1>14. Pick(p, 1 .. b) = SubSeq(p, 1, b)
  <2>1. b \in 0 .. Len(p)
    BY <1>4, <1>13
  <2> HIDE DEF b
  <2> QED
    BY <1>13, <2>1, PickFirst
<1>15. Take(n, p) = SubSeq(p, 1, b)
  BY <1>13 DEF Take
<1> QED
  BY <1>11, <1>14, <1>15 DEF PickedAgain, B, C, p

-----------------------------------------------------------------------------
(* Files with pages.                                                       *)

\* The texts of the first parts are the first texts.
LEMMA TakeTexts ==
  ASSUME NEW parts \in Seq(Part), NEW n \in Nat
  PROVE  /\ Take(n, parts) \in Seq(Part)
         /\ PartTexts(Take(n, parts)) = Pick(PartTexts(parts), Earliest(n, DOMAIN parts))
<1> DEFINE xs == PartTexts(parts)
           pages == Take(n, parts)
           D == DOMAIN parts
           b == IF Len(parts) < n THEN Len(parts) ELSE n
<1>1. /\ xs \in Seq(Text) /\ DOMAIN xs = D /\ Len(xs) = Len(parts)
      /\ \A i \in D : xs[i] = parts[i].text
  BY PartTextsAre DEF PartTexts
<1> HIDE DEF xs
<1>2. D \in SUBSET (DOMAIN xs) /\ Pick(xs, DOMAIN xs) = xs
  BY <1>1, PickEnds
<1> HIDE DEF D
<1>3. Take(n, Pick(xs, D)) = Pick(xs, Earliest(n, D))
  BY <1>1, <1>2, TakePicks
<1>4. Take(n, xs) = Pick(xs, Earliest(n, D))
  BY <1>1, <1>2, <1>3
<1>5. b \in Nat /\ b <= Len(parts) /\ pages = SubSeq(parts, 1, b) /\ Take(n, xs) = SubSeq(xs, 1, b)
  BY <1>1 DEF Take
<1> HIDE DEF b, pages
<1> DEFINE P == Part
<1>6. pages \in Seq(P) /\ pages = [i \in 1 .. b |-> parts[i]] /\ Take(n, xs) = [i \in 1 .. b |-> xs[i]]
  <2> HIDE DEF P
  <2>1. parts \in Seq(P)
    BY DEF P
  <2> QED
    BY <1>1, <1>5, <2>1
<1> HIDE DEF P
<1>7. D = 1 .. Len(parts)
  BY DEF D
<1>8. \A i \in 1 .. b : xs[i] = parts[i].text
  BY <1>1, <1>5, <1>7
<1>9. PartTexts(pages) = Take(n, xs)
  BY <1>6, <1>8 DEF PartTexts
<1> QED
  BY <1>4, <1>6, <1>9 DEF P, pages, xs, D

\* A section for each of the first pages that has text.
LEMMA PagesFaithful ==
  ASSUME NEW content \in Contents, content.kind # "docx", NEW n \in Nat,
         Read(content) = Earliest(n, DOMAIN content.parts),
         NEW pages, pages = Take(n, content.parts),
         NEW document, document = [i \in DOMAIN pages |-> document[i]],
         \A i \in DOMAIN pages : document[i].text = Normalize(pages[i].text),
         NEW full, full = {i \in DOMAIN pages : Normalize(pages[i].text) # <<>>}
  PROVE  Faithful(Pick(document, full), content)
<1> DEFINE parts == content.parts
           texts == [i \in DOMAIN pages |-> Normalize(pages[i].text)]
           xs == PartTexts(pages)
           m == Len(pages)
<1>1. parts \in Seq(Part) /\ ReadTexts(content) = Pick(PartTexts(parts), Earliest(n, DOMAIN parts))
  BY ReadTextsAre DEF ReadTexts
<1>2. pages \in Seq(Part) /\ ReadTexts(content) = xs
  BY <1>1, TakeTexts
<1>3. xs \in Seq(Text) /\ Len(xs) = m /\ DOMAIN pages = 1 .. m /\ m \in Nat
  BY <1>2, PartTextsAre
<1>4. \A i \in 1 .. m : xs[i] \in Text /\ xs[i] = pages[i].text
  BY <1>3 DEF PartTexts
<1>5. \A i \in 1 .. m : /\ Normalize(xs[i]) \in Text
                        /\ Fragments(Normalize(xs[i])) = Fragments(xs[i])
  BY <1>4, NormalizeIs, NormalizeKeeps
<1>6. texts = [i \in 1 .. m |-> texts[i]] /\ \A i \in 1 .. m : texts[i] = Normalize(xs[i])
  BY <1>3, <1>4
<1> HIDE DEF texts, xs
<1>7. texts \in Seq(Text) /\ Len(texts) = m /\ DOMAIN texts = 1 .. m
  BY <1>3, <1>5, <1>6, SequenceIs
<1>8. AllFragments(texts) = AllFragments(xs)
  <2>1. \A i \in 1 .. Len(texts) : Fragments(texts[i]) = Fragments(xs[i])
    BY <1>5, <1>6, <1>7
  <2>2. Len(texts) = Len(xs)
    BY <1>3, <1>7
  <2> QED
    BY <1>3, <1>7, <2>1, <2>2, SameFragments
<1>9. full \in SUBSET (DOMAIN texts) /\ \A i \in DOMAIN texts \ full : Fragments(texts[i]) = <<>>
  <2>1. \A i \in DOMAIN texts \ full : texts[i] = <<>>
    BY <1>3, <1>4, <1>6, <1>7
  <2> QED
    BY <1>3, <1>7, <2>1, NoLines
<1>10. Pick(texts, full) \in Seq(Text) /\ AllFragments(Pick(texts, full)) = AllFragments(texts)
  BY <1>7, <1>9, FullTexts
<1>11. HasTexts(document, texts)
  <2>1. DOMAIN document = 1 .. m
    BY <1>3
  <2>2. \A i \in 1 .. m : document[i].text = texts[i]
    BY <1>3, <1>4, <1>6
  <2> QED
    BY <1>7, <2>1, <2>2 DEF HasTexts
<1>12. HasTexts(Pick(document, full), Pick(texts, full))
  <2>1. document = [i \in 1 .. m |-> document[i]]
    BY <1>3
  <2> QED
    BY <1>3, <1>7, <1>9, <1>11, <2>1, PickTexts
<1> QED
  BY <1>2, <1>8, <1>10, <1>12, TextsFaithful

\* The pages of a PDF are kept,
LEMMA PdfFaithful ==
  ASSUME NEW content \in Contents, content.kind = "pdf", ParsePdf(content).error = ""
  PROVE  Faithful(ParsePdf(content).sections, content)
<1> DEFINE pages == Take(MaxPages, content.parts)
           full == {i \in DOMAIN pages : Normalize(pages[i].text) # <<>>}
           section(i) == Section(<<i - 1>>, Normalize(pages[i].text), "", i, {})
           document == [i \in DOMAIN pages |-> section(i)]
<1>1. ParsePdf(content).sections = Pick(document, full)
  BY DEF ParsePdf, Fails, Parses
<1>2. Read(content) = Earliest(MaxPages, DOMAIN content.parts)
  BY DEF Read, Earliest
<1>3. MaxPages \in Nat
  BY HandlersAssumption
<1>4. /\ document = [i \in DOMAIN pages |-> document[i]]
      /\ \A i \in DOMAIN pages : document[i].text = Normalize(pages[i].text)
  BY DEF Section
<1> HIDE DEF document, pages
<1>5. Faithful(Pick(document, full), content)
  <2> DEFINE f == full
  <2>1. /\ f = {i \in DOMAIN pages : Normalize(pages[i].text) # <<>>}
        /\ pages = Take(MaxPages, content.parts)
    BY DEF pages
  <2> HIDE DEF f
  <2>2. Faithful(Pick(document, f), content)
    BY ZenonT(60), <1>2, <1>3, <1>4, <2>1, PagesFaithful
  <2> QED
    BY <2>2 DEF f
<1> QED
  BY <1>1, <1>5 DEF pages

\* and the slides of a presentation.
LEMMA PptxFaithful ==
  ASSUME NEW content \in Contents, content.kind = "pptx", ParsePptx(content).error = ""
  PROVE  Faithful(ParsePptx(content).sections, content)
<1> DEFINE slides == Take(MaxSlides, content.parts)
           full == {i \in DOMAIN slides : Normalize(slides[i].text) # <<>>}
           section(i) ==
             Section(<<i - 1>>, Normalize(slides[i].text), "", 0, {<<"slide_number", i>>})
           document == [i \in DOMAIN slides |-> section(i)]
<1>1. ParsePptx(content).sections = Pick(document, full)
  BY DEF ParsePptx, Fails, Parses
<1>2. Read(content) = Earliest(MaxSlides, DOMAIN content.parts)
  BY DEF Read, Earliest
<1>3. MaxSlides \in Nat
  BY HandlersAssumption
<1>4. /\ document = [i \in DOMAIN slides |-> document[i]]
      /\ \A i \in DOMAIN slides : document[i].text = Normalize(slides[i].text)
  BY DEF Section
<1> HIDE DEF document, slides
<1>5. Faithful(Pick(document, full), content)
  <2> DEFINE f == full
  <2>1. /\ f = {i \in DOMAIN slides : Normalize(slides[i].text) # <<>>}
        /\ slides = Take(MaxSlides, content.parts)
    BY DEF slides
  <2> HIDE DEF f
  <2>2. Faithful(Pick(document, f), content)
    BY ZenonT(60), <1>2, <1>3, <1>4, <2>1, PagesFaithful
  <2> QED
    BY <2>2 DEF f
<1> QED
  BY <1>1, <1>5 DEF slides

-----------------------------------------------------------------------------
(* Tables.                                                                 *)

\* Windows of rows, but for the blank ones.
LEMMA RowsKept ==
  ASSUME NEW rows \in Seq(Text), ParseRows(rows).error = ""
  PROVE  \E texts \in Seq(Text) : /\ HasTexts(ParseRows(rows).sections, texts)
                                  /\ AllFragments(texts) = AllFragments(rows)
<1> DEFINE n == Len(rows)
           windows == Runs(n, {i \in 1 .. n : i % Window # 0})
           texts == [w \in DOMAIN windows |-> FlattenSeq(Pick(rows, windows[w]))]
           K == {w \in DOMAIN texts : Normalize(texts[w]) # <<>>}
           full == Pick(texts, K)
           document == [k \in DOMAIN full |->
                         Section(<<k - 1>>, full[k], "", 0, {<<"table_window", k - 1>>})]
<1>1. ParseRows(rows).sections = document
  BY DEF ParseRows, Fails, Parses
<1>2. HasTexts(document, full)
  BY DEF HasTexts, Section
<1>3. n \in Nat /\ DOMAIN rows = 1 .. n
  <2>1. rows \in Seq(Text)
    OBVIOUS
  <2> QED
    BY ONLY <2>1
<1>4. Divides(windows, n)
  BY <1>3, RunsDivide
<1> HIDE DEF document, full, n
<1>5. /\ windows \in Seq(SUBSET (DOMAIN rows)) /\ Ascends(windows)
      /\ UNION {windows[w] : w \in DOMAIN windows} = DOMAIN rows
  BY <1>3, <1>4 DEF Divides
<1> HIDE DEF windows
<1>6. Pieces(texts, rows, windows)
  BY DEF Pieces
<1> HIDE DEF texts
<1>7. texts \in Seq(Text) /\ FlattenSeq(texts) = FlattenSeq(Pick(rows, DOMAIN rows))
  <2> DEFINE V == Seq(Fragment)
             U == DOMAIN rows
  <2>1. rows \in Seq(Seq(V))
    BY DEF Text
  <2> HIDE DEF V
  <2>2. /\ texts \in Seq(Seq(V))
        /\ FlattenSeq(texts) = FlattenSeq(Pick(rows, UNION {windows[w] : w \in DOMAIN windows}))
    BY <1>5, <1>6, <2>1, FlattenPieces
  <2> QED
    BY <1>5, <2>2 DEF V, Text
<1>8. Pick(rows, DOMAIN rows) = rows
  BY PickEnds
<1>9. AllFragments(texts) = AllFragments(rows)
  BY <1>7, <1>8 DEF AllFragments
<1>10. K \in SUBSET (DOMAIN texts) /\ \A w \in DOMAIN texts \ K : Fragments(texts[w]) = <<>>
  <2>1. \A w \in DOMAIN texts : texts[w] \in Text
    <3>1. texts \in Seq(Text)
      BY <1>7
    <3> QED
      BY ONLY <3>1
  <2>2. \A w \in DOMAIN texts \ K : Normalize(texts[w]) = <<>>
    OBVIOUS
  <2> QED
    BY <2>1, <2>2, NormalizeKeeps, NoLines
<1> HIDE DEF K
<1>11. full \in Seq(Text) /\ AllFragments(full) = AllFragments(texts)
  BY <1>7, <1>10, FullTexts DEF full
<1> QED
  BY <1>1, <1>2, <1>9, <1>11

\* The first rows of a table.
LEMMA TableFaithful ==
  ASSUME NEW content \in Contents, content.kind # "docx",
         NEW K \in SUBSET (DOMAIN content.parts), Read(content) = Earliest(MaxRows, K),
         NEW rows, rows = Take(MaxRows, TextsOf(content.parts, K)), ParseRows(rows).error = ""
  PROVE  Faithful(ParseRows(rows).sections, content)
<1> DEFINE parts == content.parts
           xs == PartTexts(parts)
<1>1. parts \in Seq(Part) /\ xs \in Seq(Text) /\ K \in SUBSET (DOMAIN xs) /\ MaxRows \in Nat
  BY ReadTextsAre, HandlersAssumption
<1>2. ReadTexts(content) = Pick(xs, Earliest(MaxRows, K)) /\ ReadTexts(content) \in Seq(Text)
  BY ReadTextsAre DEF ReadTexts
<1>3. TextsOf(parts, K) = Pick(xs, K)
  BY <1>1, TextsOfPicked
<1> HIDE DEF xs
<1>4. rows = ReadTexts(content) /\ rows \in Seq(Text)
  BY <1>1, <1>2, <1>3, TakePicks
<1> QED
  BY <1>4, RowsKept, TextsFaithful

\* The rows of a CSV are kept,
LEMMA CsvFaithful ==
  ASSUME NEW content \in Contents, content.kind = "csv", ParseCsv(content).error = ""
  PROVE  Faithful(ParseCsv(content).sections, content)
<1> DEFINE parts == content.parts
           K == Tagged(parts, "row")
           rows == Take(MaxRows, TextsOf(parts, K))
<1>1. ParseCsv(content) = ParseRows(rows)
  BY DEF ParseCsv, PartsAs
<1>2. Read(content) = Earliest(MaxRows, K) /\ K \in SUBSET (DOMAIN parts)
  BY TaggedAre DEF Read, Earliest
<1> QED
  BY <1>1, <1>2, TableFaithful

\* and those of a workbook.
LEMMA XlsxFaithful ==
  ASSUME NEW content \in Contents, content.kind = "xlsx", ParseXlsx(content).error = ""
  PROVE  Faithful(ParseXlsx(content).sections, content)
<1> DEFINE parts == content.parts
           K == {i \in Tagged(parts, "row") :
                  Cardinality({j \in 1 .. i : parts[j].tag = "sheet"}) <= MaxSheets}
           rows == Take(MaxRows, TextsOf(parts, K))
<1>1. ParseXlsx(content) = ParseRows(rows)
  BY DEF ParseXlsx
<1>2. K \in SUBSET (DOMAIN parts)
  BY TaggedAre
<1>3. K = {i \in Tagged(parts, "row") : Count(parts, "sheet", 1, i) <= MaxSheets}
  BY DEF Count
<1>4. Read(content) = Earliest(MaxRows, K)
  <2> DEFINE J == {i \in Tagged(parts, "row") : Count(parts, "sheet", 1, i) <= MaxSheets}
  <2>1. Read(content) = Earliest(MaxRows, J)
    <3> HIDE DEF J
    <3>1. Read(content) = {i \in J : Cardinality({j \in J : j <= i}) <= MaxRows}
      BY DEF Read, J
    <3> QED
      BY <3>1 DEF Earliest
  <2> QED
    BY <1>3, <2>1
<1> HIDE DEF K
<1> QED
  BY <1>1, <1>2, <1>4, TableFaithful

-----------------------------------------------------------------------------
(* HTML.                                                                   *)

\* How many parts of a tag, with one part more.
Counts(parts, tag, j, i) ==
         /\ Count(parts, tag, j, i) \in Nat
         /\ Count(parts, tag, i + 1, i) = 0
         /\ Count(parts, tag, j, i + 1) =
              IF parts[i + 1].tag = tag THEN Count(parts, tag, j, i) + 1 ELSE Count(parts, tag, j, i)
         /\ Count(parts, tag, j, i) = 0 <=> \A k \in j .. i : parts[k].tag # tag

\* Counting part by part.
LEMMA CountIs ==
  ASSUME NEW parts, NEW tag, NEW i \in Nat, NEW j \in 1 .. i + 1
  PROVE  Counts(parts, tag, j, i)
<1> DEFINE S == {k \in j .. i : parts[k].tag = tag}
           R == {k \in j .. i + 1 : parts[k].tag = tag}
<1>1. IsFiniteSet(j .. i)
  BY FS_Interval
<1>2. S \subseteq j .. i /\ IsFiniteSet(S)
  BY <1>1, FS_Subset
<1>3. R = IF parts[i + 1].tag = tag THEN S \cup {i + 1} ELSE S
  BY Z3
<1>4. i + 1 \notin S
  BY <1>2
<1>5. /\ Cardinality(S) \in Nat /\ (Cardinality(S) = 0 <=> S = {})
      /\ Cardinality(S \cup {i + 1}) = Cardinality(S) + 1
  <2> HIDE DEF S
  <2> QED
    BY <1>2, <1>4, FS_CardinalityType, FS_EmptySet, FS_AddElement
<1>6. {k \in i + 1 .. i : parts[k].tag = tag} = {}
  OBVIOUS
<1>7. Count(parts, tag, i + 1, i) = 0
  BY <1>6, FS_EmptySet DEF Count
<1>8. Count(parts, tag, j, i) = Cardinality(S) /\ Count(parts, tag, j, i + 1) = Cardinality(R)
  BY DEF Count
<1>9. S = {} <=> \A k \in j .. i : parts[k].tag # tag
  OBVIOUS
<1> HIDE DEF S, R
<1> QED
  BY <1>3, <1>5, <1>7, <1>8, <1>9 DEF Counts

\* The depth after one tag more.
Opens == [p \in Nat \X Part |->
            CASE p[2].tag = "skip" -> p[1] + 1
              [] p[2].tag = "endskip" /\ p[1] > 0 -> p[1] - 1
              [] OTHER -> p[1]]

\* As a function.
LEMMA OpensIs ==
  /\ Opens \in [Nat \X Part -> Nat]
  /\ \A d \in Nat, part \in Part :
       Opens[<<d, part>>] = CASE part.tag = "skip" -> d + 1
                              [] part.tag = "endskip" /\ d > 0 -> d - 1
                              [] OTHER -> d
BY DEF Opens

\* HtmlDepth is such a fold.
LEMMA DepthFold ==
  ASSUME NEW parts \in Seq(Part)
  PROVE  FoldBy(HtmlDepth(parts), 0, Opens, parts, Nat)
<1> DEFINE step(depth, i) ==
             IF i = 0 THEN 0
             ELSE CASE parts[i].tag = "skip" -> depth[i - 1] + 1
                    [] parts[i].tag = "endskip" /\ depth[i - 1] > 0 -> depth[i - 1] - 1
                    [] OTHER -> depth[i - 1]
           n == Len(parts)
           depth == CHOOSE f : f = [i \in 0 .. n |-> step(f, i)]
<1>1. HtmlDepth(parts) = depth
  BY Zenon DEF HtmlDepth
<1>2. n \in Nat /\ \A i \in 1 .. n : parts[i] \in Part
  OBVIOUS
<1>3. PICK f : FoldBy(f, 0, Opens, parts, Nat)
  <2> DEFINE V == Nat
  <2>1. 0 \in V /\ Opens \in [V \X Part -> V]
    BY OpensIs
  <2> HIDE DEF V
  <2>2. \E f : FoldBy(f, 0, Opens, parts, V)
    BY <2>1, FoldExists
  <2> QED
    BY <2>2 DEF V
<1>4. \A i \in 1 .. n : \A d \in Nat :
        Opens[<<d, parts[i]>>] = CASE parts[i].tag = "skip" -> d + 1
                                   [] parts[i].tag = "endskip" /\ d > 0 -> d - 1
                                   [] OTHER -> d
  BY <1>2, OpensIs
<1>5. f = [i \in 0 .. n |-> step(f, i)]
  <2>1. \A i \in 0 .. n : f[i] = step(f, i)
    <3> TAKE i \in 0 .. n
    <3>1. i # 0 => i \in 1 .. n /\ i - 1 \in 0 .. n
      BY <1>2
    <3>2. i # 0 => f[i - 1] \in Nat /\ f[i] = Opens[<<f[i - 1], parts[i]>>]
      BY <1>3, <3>1 DEF FoldBy
    <3> QED
      BY <1>3, <1>4, <3>1, <3>2 DEF FoldBy
  <2>2. f = [i \in 0 .. n |-> f[i]]
    BY <1>3 DEF FoldBy
  <2> HIDE DEF step
  <2> QED
    BY <2>1, <2>2
<1>6. depth = [i \in 0 .. n |-> step(depth, i)]
  <2> HIDE DEF step
  <2> QED
    BY <1>5
<1> HIDE DEF depth
<1>7. /\ depth = [i \in 0 .. n |-> depth[i]]
      /\ depth[0] = 0
      /\ \A i \in 1 .. n :
           depth[i] = CASE parts[i].tag = "skip" -> depth[i - 1] + 1
                        [] parts[i].tag = "endskip" /\ depth[i - 1] > 0 -> depth[i - 1] - 1
                        [] OTHER -> depth[i - 1]
  <2>1. \A i \in 0 .. n : depth[i] = step(depth, i)
    <3> HIDE DEF step
    <3> QED
      BY <1>6
  <2>2. depth = [i \in 0 .. n |-> depth[i]]
    <3> HIDE DEF step
    <3> QED
      BY <1>6
  <2> QED
    BY <1>2, <2>1, <2>2
<1>8. \A i \in 1 .. n : depth[i - 1] \in Nat => depth[i] = Opens[<<depth[i - 1], parts[i]>>]
  BY <1>4, <1>7
<1> DEFINE V == Nat
<1>9. 0 \in V /\ Opens \in [V \X Part -> V]
  BY OpensIs
<1>10. \A i \in 1 .. n : depth[i - 1] \in V => depth[i] = Opens[<<depth[i - 1], parts[i]>>]
  BY <1>8
<1> HIDE DEF V
<1>11. FoldBy(depth, 0, Opens, parts, V)
  BY <1>7, <1>9, <1>10, FoldTyped
<1> QED
  BY <1>1, <1>11 DEF V

\* Tags opened and not closed since a part.
Open(parts, j, i) == Count(parts, "skip", j, i) - Count(parts, "endskip", j, i)

\* The depth is the greatest such number.
Deepest(parts, i, d) ==
  /\ d \in Nat
  /\ \A j \in 1 .. i + 1 : Open(parts, j, i) <= d
  /\ \E j \in 1 .. i + 1 : Open(parts, j, i) = d

\* The number, with one tag more.
LEMMA OpenIs ==
  ASSUME NEW parts, NEW i \in Nat, NEW j \in 1 .. i + 1
  PROVE  /\ Open(parts, j, i) \in Int
         /\ Open(parts, i + 1, i) = 0
         /\ Open(parts, j, i + 1) = CASE parts[i + 1].tag = "skip" -> Open(parts, j, i) + 1
                                      [] parts[i + 1].tag = "endskip" -> Open(parts, j, i) - 1
                                      [] OTHER -> Open(parts, j, i)
<1> DEFINE a == Count(parts, "skip", j, i)
           b == Count(parts, "endskip", j, i)
<1>0. Counts(parts, "skip", j, i) /\ Counts(parts, "endskip", j, i)
  BY CountIs
<1>1. a \in Nat /\ b \in Nat
  BY <1>0 DEF Counts
<1>2. Count(parts, "skip", i + 1, i) = 0 /\ Count(parts, "endskip", i + 1, i) = 0
  BY <1>0 DEF Counts
<1>3. /\ Count(parts, "skip", j, i + 1) = IF parts[i + 1].tag = "skip" THEN a + 1 ELSE a
      /\ Count(parts, "endskip", j, i + 1) = IF parts[i + 1].tag = "endskip" THEN b + 1 ELSE b
  BY <1>0 DEF Counts
<1> HIDE DEF a, b
<1>4. Open(parts, j, i) = a - b
  BY DEF Open, a, b
<1> QED
  BY <1>1, <1>2, <1>3, <1>4 DEF Open

\* One tag more, and the depth after it.
LEMMA DeepestStep ==
  ASSUME NEW parts, NEW i \in Nat, NEW d, Deepest(parts, i, d),
         NEW e, e = CASE parts[i + 1].tag = "skip" -> d + 1
                      [] parts[i + 1].tag = "endskip" /\ d > 0 -> d - 1
                      [] OTHER -> d
  PROVE  Deepest(parts, i + 1, e)
<1> DEFINE v(j) == Open(parts, j, i)
           w(j) == Open(parts, j, i + 1)
           tag == parts[i + 1].tag
<1>1. \A j \in 1 .. i + 1 : /\ v(j) \in Int
                            /\ w(j) = CASE tag = "skip" -> v(j) + 1
                                        [] tag = "endskip" -> v(j) - 1
                                        [] OTHER -> v(j)
  BY OpenIs
<1>2. w(i + 2) = 0
  <2> DEFINE h == i + 1
  <2>1. h \in Nat /\ h \in 1 .. h + 1 /\ h + 1 = i + 2
    OBVIOUS
  <2> HIDE DEF h
  <2>2. Open(parts, h + 1, h) = 0
    BY <2>1, OpenIs
  <2> QED
    BY <2>1, <2>2 DEF h
<1>3. d \in Nat /\ \A j \in 1 .. i + 1 : v(j) <= d
  BY DEF Deepest
<1>4. PICK j \in 1 .. i + 1 : v(j) = d
  BY DEF Deepest
<1>5. (i + 1) + 1 = i + 2 /\ \A k \in 1 .. i + 2 : k \in 1 .. i + 1 \/ k = i + 2
  OBVIOUS
<1>6. i + 2 \in 1 .. i + 2 /\ j \in 1 .. i + 2
  OBVIOUS
<1> HIDE DEF v, w, tag
<1>7. e = CASE tag = "skip" -> d + 1
            [] tag = "endskip" /\ d > 0 -> d - 1
            [] OTHER -> d
  BY DEF tag
<1>8. /\ e \in Nat
      /\ \A k \in 1 .. i + 1 : w(k) <= e
      /\ w(j) = e \/ e = 0
  <2>1. CASE tag = "skip"
    BY <1>1, <1>3, <1>4, <1>7, <2>1
  <2>2. CASE tag = "endskip" /\ d > 0
    BY <1>1, <1>3, <1>4, <1>7, <2>2
  <2>3. CASE tag = "endskip" /\ d = 0
    BY <1>1, <1>3, <1>4, <1>7, <2>3
  <2>4. CASE tag # "skip" /\ tag # "endskip"
    BY <1>1, <1>3, <1>4, <1>7, <2>4
  <2> QED
    BY <1>3, <2>1, <2>2, <2>3, <2>4
<1>9. \A k \in 1 .. i + 2 : w(k) <= e
  BY <1>2, <1>5, <1>8
<1>10. \E k \in 1 .. i + 2 : w(k) = e
  BY <1>2, <1>6, <1>8
<1> QED
  BY <1>5, <1>8, <1>9, <1>10 DEF Deepest, w

\* Nothing is open where the depth is 0.
LEMMA DepthIs ==
  ASSUME NEW parts \in Seq(Part), NEW i \in DOMAIN parts
  PROVE  HtmlDepth(parts)[i] = 0 <=>
           ~ \E j \in 1 .. i : Count(parts, "skip", j, i) > Count(parts, "endskip", j, i)
<1> DEFINE n == Len(parts)
           depth == HtmlDepth(parts)
           T == {k \in Nat : k <= n => Deepest(parts, k, depth[k])}
<1>1. FoldBy(depth, 0, Opens, parts, Nat)
  BY DepthFold
<1>2. n \in Nat /\ DOMAIN parts = 1 .. n /\ \A k \in 1 .. n : parts[k] \in Part
  OBVIOUS
<1> HIDE DEF depth
<1>3. depth[0] = 0 /\ \A k \in 1 .. n : depth[k] = Opens[<<depth[k - 1], parts[k]>>]
  BY <1>1 DEF FoldBy
<1>4. 0 \in T
  <2>1. Open(parts, 0 + 1, 0) = 0
    BY OpenIs
  <2>2. Open(parts, 1, 0) = 0
    BY <2>1
  <2>3. Deepest(parts, 0, 0)
    BY <2>2 DEF Deepest
  <2> QED
    BY <1>3, <2>3
<1>5. ASSUME NEW k \in Nat, k \in T PROVE k + 1 \in T
  <2> SUFFICES ASSUME k + 1 <= n PROVE Deepest(parts, k + 1, depth[k + 1])
    BY <1>5
  <2>1. Deepest(parts, k, depth[k])
    BY <1>2, <1>5
  <2>2. k + 1 \in 1 .. n /\ (k + 1) - 1 = k /\ parts[k + 1] \in Part
    BY <1>2
  <2>3. depth[k] \in Nat
    BY <2>1 DEF Deepest
  <2>4. depth[k + 1] = Opens[<<depth[k], parts[k + 1]>>]
    BY <1>3, <2>2
  <2>5. depth[k + 1] = CASE parts[k + 1].tag = "skip" -> depth[k] + 1
                         [] parts[k + 1].tag = "endskip" /\ depth[k] > 0 -> depth[k] - 1
                         [] OTHER -> depth[k]
    BY <2>2, <2>3, <2>4, OpensIs
  <2> QED
    BY <2>1, <2>5, DeepestStep
<1>6. i \in T
  <2> HIDE DEF T
  <2>1. Nat \subseteq T
    BY <1>4, <1>5, NatInductionOnSet
  <2> QED
    BY <1>2, <2>1
<1>7. Deepest(parts, i, depth[i]) /\ i \in Nat
  BY <1>2, <1>6
<1>8. \A j \in 1 .. i + 1 : /\ Count(parts, "skip", j, i) \in Nat
                            /\ Count(parts, "endskip", j, i) \in Nat
  BY <1>7, CountIs DEF Counts
<1>9. Open(parts, i + 1, i) = 0
  <2>1. i + 1 \in 1 .. i + 1
    BY <1>7
  <2> QED
    BY <1>7, <2>1, OpenIs
<1>10. \A j \in 1 .. i + 1 : j \in 1 .. i \/ j = i + 1
  BY <1>7
<1>11. \A j \in 1 .. i : j \in 1 .. i + 1
  BY <1>7
<1>12. \A j \in 1 .. i + 1 :
         Open(parts, j, i) > 0 <=> Count(parts, "skip", j, i) > Count(parts, "endskip", j, i)
  BY <1>8 DEF Open
<1>13. ASSUME depth[i] = 0
       PROVE  ~ \E j \in 1 .. i : Count(parts, "skip", j, i) > Count(parts, "endskip", j, i)
  <2>1. \A j \in 1 .. i : ~ (Open(parts, j, i) > 0)
    <3>1. \A j \in 1 .. i + 1 : Open(parts, j, i) \in Int /\ Open(parts, j, i) <= 0
      BY <1>7, <1>13, OpenIs DEF Deepest
    <3> QED
      BY <1>11, <3>1
  <2> QED
    BY <1>11, <1>12, <2>1
<1>14. ASSUME depth[i] # 0
       PROVE  \E j \in 1 .. i : Count(parts, "skip", j, i) > Count(parts, "endskip", j, i)
  <2>1. PICK j \in 1 .. i + 1 : Open(parts, j, i) = depth[i]
    BY <1>7 DEF Deepest
  <2>2. depth[i] > 0
    BY <1>7, <1>14 DEF Deepest
  <2>3. j \in 1 .. i
    BY <1>9, <1>10, <2>1, <2>2
  <2> QED
    BY <1>12, <2>1, <2>2, <2>3
<1> QED
  BY <1>13, <1>14 DEF depth

\* Stripping a text leaves its fragments,
LEMMA StripKeeps ==
  ASSUME NEW text \in Text
  PROVE  Fragments(Strip(text)) = Fragments(text)
<1> DEFINE K == {i \in DOMAIN text : /\ \E j \in 1 .. i : text[j] # Blank
                                    /\ \E j \in i .. Len(text) : text[j] # Blank}
<1>1. text \in Seq(Seq(Fragment))
  BY DEF Text
<1>2. \A i \in DOMAIN text : i \in 1 .. i /\ i \in i .. Len(text)
  BY <1>1
<1>3. K \in SUBSET (DOMAIN text) /\ \A i \in DOMAIN text \ K : text[i] = <<>>
  BY <1>2 DEF Blank
<1>4. Strip(text) = Pick(text, K)
  BY DEF Strip
<1> HIDE DEF K
<1>5. FlattenSeq(Pick(text, K)) = FlattenSeq(text)
  BY <1>1, <1>3, FlattenPickAll
<1> QED
  BY <1>4, <1>5 DEF Fragments

\* and so does putting texts one after the other.
LEMMA BesideKeeps ==
  ASSUME NEW texts \in Seq(Text)
  PROVE  Fragments(Beside(texts)) = AllFragments(texts)
<1> DEFINE lines == FlattenSeq(texts)
           n == Len(lines)
           runs == Runs(n, {Len(FlattenSeq(SubSeq(texts, 1, k))) : k \in DOMAIN texts})
           pieces == Beside(texts)
<1>1. lines \in Seq(Seq(Fragment))
  BY FlattenTyped DEF Text
<1>2. Pieces(pieces, lines, runs)
  BY DEF Pieces, Beside, Fragments
<1>3. AllFragments(texts) = FlattenSeq(lines)
  BY DEF AllFragments, Fragments
<1> HIDE DEF lines, pieces
<1>4. n \in Nat /\ DOMAIN lines = 1 .. n
  BY <1>1
<1> HIDE DEF n
<1>5. Divides(runs, n)
  BY <1>4, RunsDivide
<1> HIDE DEF runs
<1>6. /\ runs \in Seq(SUBSET (DOMAIN lines)) /\ Ascends(runs)
      /\ UNION {runs[k] : k \in DOMAIN runs} = DOMAIN lines
  BY <1>4, <1>5 DEF Divides
<1>7. FlattenSeq(pieces) = FlattenSeq(Pick(lines, DOMAIN lines))
  BY <1>1, <1>2, <1>6, FlattenPieces
<1>8. Pick(lines, DOMAIN lines) = lines
  BY <1>1, PickEnds
<1> QED
  BY <1>3, <1>7, <1>8 DEF pieces, Fragments

\* The data that is shown is kept.
LEMMA HtmlFaithful ==
  ASSUME NEW content \in Contents, content.kind = "html"
  PROVE  Faithful(ParseHtml(content).sections, content)
<1> DEFINE parts == content.parts
           depth == HtmlDepth(parts)
           inTitle(i) == \E j \in 1 .. i : /\ parts[j].tag = "title"
                                           /\ \A k \in j .. i : parts[k].tag # "endtitle"
           K == {i \in Tagged(parts, "data") : depth[i] = 0 /\ ~inTitle(i)}
           texts == TextsOf(parts, K)
           shown == [k \in DOMAIN texts |-> Strip(texts[k])]
           text == Beside(shown)
<1>1. parts \in Seq(Part)
  BY ReadTextsAre
<1>2. \A i \in DOMAIN parts : (depth[i] = 0 /\ ~inTitle(i)) <=> ~Hidden(parts, i)
  <2> TAKE i \in DOMAIN parts
  <2>1. i \in Nat
    BY <1>1
  <2>2. \A j \in 1 .. i :
          Count(parts, "endtitle", j, i) = 0 <=> \A k \in j .. i : parts[k].tag # "endtitle"
    <3>1. \A j \in 1 .. i : j \in 1 .. i + 1
      BY <2>1
    <3> QED
      BY <2>1, <3>1, CountIs DEF Counts
  <2>3. inTitle(i) <=> \E j \in 1 .. i : parts[j].tag = "title" /\ Count(parts, "endtitle", j, i) = 0
    BY <2>2
  <2>4. depth[i] = 0 <=> ~ \E j \in 1 .. i : Count(parts, "skip", j, i) > Count(parts, "endskip", j, i)
    BY <1>1, DepthIs
  <2> HIDE DEF depth, inTitle
  <2> QED
    BY <2>3, <2>4 DEF Hidden
<1>3. Read(content) = {i \in Tagged(parts, "data") : ~Hidden(parts, i)}
  BY DEF Read
<1>4. Tagged(parts, "data") \in SUBSET (DOMAIN parts)
  BY TaggedAre
<1> HIDE DEF depth, inTitle
<1>5. K = Read(content)
  BY <1>2, <1>3, <1>4
<1>6. ParseHtml(content).sections = Numbered(<<OrUri(Normalize(text))>>)
  BY DEF ParseHtml, Parses, depth, inTitle
<1> HIDE DEF K
<1>7. K \in SUBSET (DOMAIN parts)
  BY <1>4, <1>5, ReadIs
<1>8. /\ texts \in Seq(Text) /\ texts = ReadTexts(content)
      /\ AllFragments(texts) = AllFragments(ReadTexts(content))
  BY <1>1, <1>5, <1>7, TextsOfAre, TextsOfPicked DEF ReadTexts
<1> HIDE DEF texts
<1>9. Len(texts) \in Nat /\ DOMAIN texts = 1 .. Len(texts) /\ \A k \in DOMAIN texts : texts[k] \in Text
  BY <1>8
<1>10. \A k \in DOMAIN texts : Strip(texts[k]) \in Text /\ Fragments(Strip(texts[k])) = Fragments(texts[k])
  BY <1>9, StripIs, StripKeeps
<1>11. shown \in Seq(Text) /\ Len(shown) = Len(texts)
  BY <1>9, <1>10
<1>12. AllFragments(texts) = AllFragments(shown)
  <2>1. \A k \in 1 .. Len(texts) : Fragments(texts[k]) = Fragments(shown[k])
    BY <1>9, <1>10
  <2> HIDE DEF shown
  <2> QED
    BY <1>8, <1>11, <2>1, SameFragments
<1> HIDE DEF shown
<1>13. text \in Text /\ Fragments(text) = AllFragments(ReadTexts(content))
  BY <1>8, <1>11, <1>12, BesideIs, BesideKeeps
<1> HIDE DEF text
<1>14. Normalize(text) \in Text /\ Fragments(Normalize(text)) = Fragments(text)
  BY <1>13, NormalizeIs, NormalizeKeeps
<1>15. Faithful(Numbered(<<OrUri(Normalize(text))>>), content)
  BY <1>13, <1>14, OneFaithful
<1> QED
  BY <1>6, <1>15

-----------------------------------------------------------------------------
(* DOCX.                                                                   *)

\* The fragments of texts and of more texts.
LEMMA AllConcat ==
  ASSUME NEW xs \in Seq(Text), NEW ys \in Seq(Text)
  PROVE  AllFragments(xs \o ys) = AllFragments(xs) \o AllFragments(ys)
<1> DEFINE a == FlattenSeq(xs)
           b == FlattenSeq(ys)
<1>1. FlattenSeq(xs \o ys) = a \o b
  BY FlattenConcat DEF Text
<1>2. a \in Text /\ b \in Text
  BY AllFragmentsAre
<1> HIDE DEF a, b
<1>3. FlattenSeq(a \o b) = FlattenSeq(a) \o FlattenSeq(b)
  BY <1>2, FlattenConcat DEF Text
<1> QED
  BY <1>1, <1>3 DEF AllFragments, Fragments, a, b

\* Sections after sections.
LEMMA HasBoth ==
  ASSUME NEW m \in Nat, NEW n \in Nat, NEW a, a = [k \in 1 .. m |-> a[k]],
         NEW b, b = [k \in 1 .. n |-> b[k]],
         NEW xs \in Seq(Text), NEW ys \in Seq(Text), HasTexts(a, xs), HasTexts(b, ys)
  PROVE  HasTexts(a \o b, xs \o ys)
<1> DEFINE T == {a[k] : k \in 1 .. m} \cup {b[k] : k \in 1 .. n}
<1>1. (\A k \in 1 .. m : a[k] \in T) /\ (\A k \in 1 .. n : b[k] \in T)
  OBVIOUS
<1> HIDE DEF T
<1>2. a \in Seq(T) /\ Len(a) = m
  BY <1>1, SequenceIs
<1>3. b \in Seq(T) /\ Len(b) = n
  BY <1>1, SequenceIs
<1>4. DOMAIN a = 1 .. m /\ DOMAIN b = 1 .. n
  OBVIOUS
<1>5. DOMAIN xs = 1 .. m /\ DOMAIN ys = 1 .. n
  BY <1>4 DEF HasTexts
<1>6. Len(xs) = m /\ Len(ys) = n
  BY <1>5
<1>7. DOMAIN (a \o b) = 1 .. m + n /\ DOMAIN (xs \o ys) = 1 .. m + n
  BY <1>2, <1>3, <1>6
<1>8. ASSUME NEW k \in 1 .. m + n
      PROVE  (a \o b)[k].text = (xs \o ys)[k]
  <2>1. CASE k \in 1 .. m
    <3>1. (a \o b)[k] = a[k]
      BY <1>2, <1>3, <2>1
    <3>2. (xs \o ys)[k] = xs[k]
      BY <1>6, <2>1
    <3> QED
      BY <1>5, <2>1, <3>1, <3>2 DEF HasTexts
  <2>2. CASE k \notin 1 .. m
    <3>1. k - m \in 1 .. n
      BY <2>2
    <3>2. (a \o b)[k] = b[k - m]
      BY <1>2, <1>3, <2>2, <3>1
    <3>3. (xs \o ys)[k] = ys[k - m]
      BY <1>6, <2>2, <3>1
    <3> QED
      BY <1>5, <3>1, <3>2, <3>3 DEF HasTexts
  <2> QED
    BY <2>1, <2>2
<1> QED
  BY <1>7, <1>8 DEF HasTexts

\* A blank line above a text.
LEMMA BlankAbove ==
  ASSUME NEW text \in Text
  PROVE  <<Blank>> \o text \in Text /\ Fragments(<<Blank>> \o text) = Fragments(text)
<1> DEFINE V == Seq(Fragment)
           e == <<>>
           b == <<Blank>>
<1>1. Blank \in V /\ e \in Seq(V) /\ b = Append(e, Blank) /\ Blank = <<>>
  BY DEF Blank
<1> HIDE DEF e
<1>2. b \in Seq(V)
  <2> HIDE DEF V, Blank
  <2> QED
    BY <1>1
<1>3. FlattenSeq(Append(e, Blank)) = FlattenSeq(e) \o Blank
  BY <1>1, FlattenIs
<1>4. FlattenSeq(e) = <<>>
  BY <1>1, FlattenIs DEF e
<1>5. FlattenSeq(b) = <<>>
  <2>1. <<>> \o <<>> = <<>>
    <3>1. <<>> \in Seq(Fragment)
      OBVIOUS
    <3> QED
      BY <3>1, ConcatEmptySeq
  <2> QED
    BY <1>1, <1>3, <1>4, <2>1
<1> HIDE DEF b
<1>6. text \in Seq(V) /\ FlattenSeq(text) \in Seq(Fragment)
  BY FragmentsTyped DEF Text, Fragments
<1>7. b \o text \in Seq(V)
  <2> HIDE DEF V
  <2> QED
    BY <1>2, <1>6
<1>8. FlattenSeq(b \o text) = FlattenSeq(b) \o FlattenSeq(text)
  BY <1>2, <1>6, FlattenConcat
<1>9. FlattenSeq(b \o text) = FlattenSeq(text)
  BY <1>5, <1>6, <1>8, ConcatEmptySeq
<1> QED
  BY <1>7, <1>9 DEF Fragments, Text, b

\* Blank lines between texts are no fragments.
LEMMA BelowKeeps ==
  ASSUME NEW texts \in Seq(Text)
  PROVE  Fragments(Below(texts)) = AllFragments(texts)
<1> DEFINE n == Len(texts)
           ys == [k \in DOMAIN texts |-> IF k = 1 THEN texts[k] ELSE <<Blank>> \o texts[k]]
<1>1. n \in Nat /\ DOMAIN texts = 1 .. n /\ \A k \in 1 .. n : texts[k] \in Text
  OBVIOUS
<1>2. \A k \in 1 .. n : /\ <<Blank>> \o texts[k] \in Text
                        /\ Fragments(<<Blank>> \o texts[k]) = Fragments(texts[k])
  BY <1>1, BlankAbove
<1>3. /\ ys = [k \in 1 .. n |-> ys[k]]
      /\ \A k \in 1 .. n : ys[k] = IF k = 1 THEN texts[k] ELSE <<Blank>> \o texts[k]
  BY <1>1
<1>4. Below(texts) = FlattenSeq(ys)
  BY DEF Below
<1> HIDE DEF ys
<1>5. \A k \in 1 .. n : ys[k] \in Text /\ Fragments(ys[k]) = Fragments(texts[k])
  BY <1>1, <1>2, <1>3
<1>6. ys \in Seq(Text) /\ Len(ys) = n
  BY <1>1, <1>3, <1>5, SequenceIs
<1>7. AllFragments(ys) = AllFragments(texts)
  BY <1>5, <1>6, SameFragments
<1> QED
  BY <1>4, <1>7 DEF AllFragments

\* Leaving out texts without a line.
LEMMA WrittenKeeps ==
  ASSUME NEW T, NEW xs \in Seq(Seq(T)), NEW P \in SUBSET (DOMAIN xs), NEW K \in SUBSET P,
         \A i \in P \ K : xs[i] = <<>>
  PROVE  FlattenSeq(Pick(xs, K)) = FlattenSeq(Pick(xs, P))
<1>1. Masked(xs, K) = Masked(xs, P)
  <2>1. \A k \in DOMAIN xs : (IF k \in K THEN xs[k] ELSE <<>>) = (IF k \in P THEN xs[k] ELSE <<>>)
    OBVIOUS
  <2> QED
    BY <2>1 DEF Masked
<1>2. K \in SUBSET (DOMAIN xs)
  OBVIOUS
<1>3. /\ FlattenSeq(Pick(xs, K)) = FlattenSeq(Masked(xs, K))
      /\ FlattenSeq(Pick(xs, P)) = FlattenSeq(Masked(xs, P))
  BY <1>2, FlattenPick
<1> QED
  BY <1>1, <1>3

\* The page of a part after some breaks.
PageOf(breaks, i) == 1 + Cardinality({j \in breaks : j < i})

\* Pages are numbered in the order of the parts.
LEMMA PageOfIs ==
  ASSUME NEW n \in Nat, NEW breaks \in SUBSET (1 .. n)
  PROVE  /\ \A i \in 1 .. n : PageOf(breaks, i) \in Nat
         /\ \A i, j \in 1 .. n : PageOf(breaks, i) < PageOf(breaks, j) => i < j
<1>1. IsFiniteSet(breaks)
  <2>1. IsFiniteSet(1 .. n)
    BY FS_Interval
  <2> QED
    BY <2>1, FS_Subset
<1> DEFINE S(i) == {j \in breaks : j < i}
<1>2. \A i \in 1 .. n : IsFiniteSet(S(i)) /\ Cardinality(S(i)) \in Nat
  BY <1>1, FS_Subset, FS_CardinalityType
<1>3. ASSUME NEW i \in 1 .. n, NEW j \in 1 .. n, ~ (i < j)
      PROVE  Cardinality(S(j)) <= Cardinality(S(i))
  <2>1. S(j) \subseteq S(i)
    <3> SUFFICES ASSUME NEW k \in breaks, k < j PROVE k < i
      OBVIOUS
    <3>1. k \in Int /\ i \in Int /\ j \in Int
      OBVIOUS
    <3> QED
      BY <1>3, <3>1
  <2> QED
    BY <1>2, <2>1, FS_Subset
<1> HIDE DEF S
<1>4. \A i \in 1 .. n : PageOf(breaks, i) = 1 + Cardinality(S(i))
  BY DEF PageOf, S
<1> QED
  BY <1>2, <1>3, <1>4
\* The paragraphs with a line, their pages, and the texts of the pages.
IsWritten(written, parts, P) == written = {i \in P : parts[i].text # <<>>}
IsNumbers(numbers, breaks, written) == numbers = InOrder({PageOf(breaks, i) : i \in written})
ArePages(texts, parts, breaks, written, numbers) ==
  texts = [k \in DOMAIN numbers |->
            Below(TextsOf(parts, {i \in written : PageOf(breaks, i) = numbers[k]}))]

\* They are the paragraphs.
PagesKeep(texts, numbers, parts, P) ==
  /\ \E n \in Nat : DOMAIN numbers = 1 .. n
  /\ texts \in Seq(Text)
  /\ AllFragments(texts) = AllFragments(Pick(PartTexts(parts), P))

\* The numbers are the pages of the paragraphs, in order.
AreNumbers(numbers, n, breaks, written) ==
  /\ n \in Nat
  /\ DOMAIN numbers = 1 .. n
  /\ \A k \in 1 .. n : numbers[k] \in Nat /\ \E i \in written : numbers[k] = PageOf(breaks, i)
  /\ \A h, k \in 1 .. n : h < k => numbers[h] < numbers[k]
  /\ \A i \in written : \E k \in 1 .. n : numbers[k] = PageOf(breaks, i)

\* There are finitely many paragraphs, and pages.
LEMMA NumbersAre ==
  ASSUME NEW m \in Nat, NEW breaks \in SUBSET (1 .. m), NEW written \in SUBSET (1 .. m),
         NEW numbers, IsNumbers(numbers, breaks, written)
  PROVE  /\ AreNumbers(numbers, Cardinality({PageOf(breaks, i) : i \in written}), breaks, written)
         /\ IsFiniteSet({PageOf(breaks, i) : i \in written})
<1> DEFINE S == {PageOf(breaks, i) : i \in written}
           n == Cardinality(S)
<1>2. \A i \in 1 .. m : PageOf(breaks, i) \in Nat
  BY PageOfIs
<1>4. S \in SUBSET Nat /\ IsFiniteSet(S)
  <2>1. IsFiniteSet(written)
    <3>1. IsFiniteSet(1 .. m)
      BY FS_Interval
    <3> QED
      BY <3>1, FS_Subset
  <2>2. S \in SUBSET Nat
    BY <1>2
  <2> DEFINE f == [i \in written |-> PageOf(breaks, i)]
  <2>3. f \in Surjection(written, S)
    BY DEF Surjection
  <2> HIDE DEF f, S
  <2> QED
    BY <2>1, <2>2, <2>3, FS_Surjection
<1>5. n \in Nat /\ Increasing(numbers, S)
  <2> HIDE DEF S
  <2>1. numbers = InOrder(S)
    BY DEF S, IsNumbers
  <2> QED
    BY <1>4, <2>1, InOrderIs
<1>6. numbers \in [1 .. n -> S]
  BY <1>5 DEF Increasing
<1> HIDE DEF n
<1>7. DOMAIN numbers = 1 .. n /\ \A k \in 1 .. n : numbers[k] \in Nat /\ numbers[k] \in S
  <2> HIDE DEF S
  <2> QED
    BY <1>4, <1>6
<1>8. \A h, k \in 1 .. n : h < k => numbers[h] < numbers[k]
  BY <1>5, <1>7 DEF Increasing
<1>9. \A q \in S : \E k \in 1 .. n : numbers[k] = q
  BY <1>5, <1>7 DEF Increasing
<1> QED
  BY <1>4, <1>5, <1>7, <1>8, <1>9 DEF AreNumbers, n, S

\* The texts of the pages, each the paragraphs with one number.
LEMMA PagesKept ==
  ASSUME NEW parts \in Seq(Part), NEW breaks \in SUBSET (DOMAIN parts), NEW P \in SUBSET (DOMAIN parts),
         NEW written, IsWritten(written, parts, P), NEW numbers, IsNumbers(numbers, breaks, written),
         NEW texts, ArePages(texts, parts, breaks, written, numbers)
  PROVE  PagesKeep(texts, numbers, parts, P)
<1> DEFINE xs == PartTexts(parts)
           D == DOMAIN parts
           S == {PageOf(breaks, i) : i \in written}
           n == Cardinality(S)
           Q(k) == {i \in written : PageOf(breaks, i) = numbers[k]}
           Ks == [k \in 1 .. n |-> Q(k)]
           ys == [k \in DOMAIN Ks |-> FlattenSeq(Pick(xs, Ks[k]))]
<1>1. Len(parts) \in Nat /\ D = 1 .. Len(parts) /\ written \in SUBSET P /\ written \in SUBSET D
  BY DEF IsWritten
<1>2. /\ \A i \in D : PageOf(breaks, i) \in Nat
      /\ \A i, j \in D : PageOf(breaks, i) < PageOf(breaks, j) => i < j
  BY <1>1, PageOfIs
<1>3. /\ xs \in Seq(Text) /\ DOMAIN xs = D /\ \A i \in D : xs[i] = parts[i].text
  BY PartTextsAre DEF PartTexts
<1>4. AreNumbers(numbers, n, breaks, written)
  <2>1. breaks \in SUBSET (1 .. Len(parts)) /\ written \in SUBSET (1 .. Len(parts))
    BY <1>1
  <2> QED
    BY <1>1, <2>1, NumbersAre
<1>5. n \in Nat
  BY <1>4 DEF AreNumbers
<1>6. /\ DOMAIN numbers = 1 .. n
      /\ \A k \in 1 .. n : numbers[k] \in Nat
      /\ \A h, k \in 1 .. n : h < k => numbers[h] < numbers[k]
      /\ \A i \in written : \E k \in 1 .. n : numbers[k] = PageOf(breaks, i)
  BY <1>4 DEF AreNumbers
<1> HIDE DEF xs, n
<1> HIDE DEF S
<1>7. \A k \in 1 .. n : Q(k) \in SUBSET D
  BY <1>1
<1>8. Ks \in Seq(SUBSET (DOMAIN xs)) /\ Len(Ks) = n /\ DOMAIN Ks = 1 .. n
  <2> DEFINE U == SUBSET (DOMAIN xs)
  <2>1. Ks = [k \in 1 .. n |-> Ks[k]] /\ \A k \in 1 .. n : Ks[k] \in U
    BY <1>3, <1>7
  <2> HIDE DEF Ks, U
  <2> QED
    BY <1>5, <2>1, SequenceIs DEF U
<1>9. Ascends(Ks)
  <2> SUFFICES ASSUME NEW h \in 1 .. n, NEW k \in 1 .. n, h < k, NEW a \in Q(h), NEW b \in Q(k)
               PROVE  a < b
    BY <1>8 DEF Ascends
  <2>1. PageOf(breaks, a) < PageOf(breaks, b)
    BY <1>6
  <2> QED
    BY <1>1, <1>2, <2>1
<1>10. UNION {Ks[k] : k \in DOMAIN Ks} = written
  <2>1. \A i \in written : \E k \in 1 .. n : i \in Q(k)
    BY <1>6
  <2>2. \A k \in 1 .. n : Q(k) \subseteq written
    OBVIOUS
  <2>3. \A k \in 1 .. n : Ks[k] = Q(k)
    OBVIOUS
  <2> HIDE DEF Q, Ks
  <2> QED
    BY <1>8, <2>1, <2>2, <2>3
<1>11. \A k \in 1 .. n : /\ TextsOf(parts, Q(k)) = Pick(xs, Ks[k])
                         /\ TextsOf(parts, Q(k)) \in Seq(Text)
  <2> TAKE k \in 1 .. n
  <2> DEFINE R == Q(k)
  <2>1. R \in SUBSET (DOMAIN parts) /\ Ks[k] = R
    BY <1>7
  <2> HIDE DEF R, Ks
  <2>2. TextsOf(parts, R) = Pick(xs, R) /\ TextsOf(parts, R) \in Seq(Text)
    BY <2>1, TextsOfPicked, TextsOfAre DEF xs
  <2> QED
    BY <2>1, <2>2 DEF R
<1>12. texts = [k \in 1 .. n |-> Below(TextsOf(parts, Q(k)))]
  BY <1>6 DEF ArePages
<1> HIDE DEF Q
<1>13. \A k \in 1 .. n : /\ texts[k] \in Text
                         /\ Fragments(texts[k]) = AllFragments(TextsOf(parts, Q(k)))
  BY <1>11, <1>12, BelowIs, BelowKeeps
<1>14. texts = [k \in 1 .. n |-> texts[k]]
  BY <1>12
<1>15. texts \in Seq(Text) /\ Len(texts) = n
  <2>1. \A k \in 1 .. n : texts[k] \in Text
    BY <1>13
  <2>2. n \in Nat
    BY <1>5
  <2> HIDE DEF Ks, ys
  <2> QED
    BY <1>14, <2>1, <2>2, SequenceIs
<1> HIDE DEF Ks
<1>16. Pieces(ys, xs, Ks)
  BY DEF Pieces
<1>17. \A k \in 1 .. n : ys[k] = FlattenSeq(TextsOf(parts, Q(k)))
  BY <1>8, <1>11
<1> HIDE DEF ys
<1>18. ys \in Seq(Text) /\ Len(ys) = n /\ FlattenSeq(ys) = FlattenSeq(Pick(xs, written))
  <2> DEFINE V == Seq(Fragment)
  <2>1. xs \in Seq(Seq(V))
    BY <1>3 DEF Text
  <2> HIDE DEF V
  <2>2. /\ ys \in Seq(Seq(V)) /\ Len(ys) = Len(Ks)
        /\ FlattenSeq(ys) = FlattenSeq(Pick(xs, UNION {Ks[k] : k \in DOMAIN Ks}))
    BY <1>8, <1>9, <1>16, <2>1, FlattenPieces
  <2> QED
    BY <1>8, <1>10, <2>2 DEF V, Text
<1>19. AllFragments(texts) = AllFragments(ys)
  <2>1. \A k \in 1 .. Len(texts) : Fragments(texts[k]) = Fragments(ys[k])
    BY <1>13, <1>15, <1>17 DEF AllFragments
  <2> QED
    BY <1>15, <1>18, <2>1, SameFragments
<1>20. FlattenSeq(Pick(xs, written)) = FlattenSeq(Pick(xs, P))
  <2>1. P \in SUBSET (DOMAIN xs) /\ written \in SUBSET P /\ \A i \in P \ written : xs[i] = <<>>
    BY <1>1, <1>3 DEF IsWritten
  <2>2. xs \in Seq(Seq(Seq(Fragment)))
    BY <1>3 DEF Text
  <2> QED
    BY <2>1, <2>2, WrittenKeeps
<1> QED
  BY <1>5, <1>6, <1>15, <1>18, <1>19, <1>20 DEF AllFragments, xs, PagesKeep

\* No section, and one.
LEMMA NoTexts ==
  /\ <<>> \in Seq(Text)
  /\ HasTexts(<<>>, <<>>)
  /\ <<>> = [k \in 1 .. 0 |-> <<>>[k]]
BY DEF HasTexts

\* One section.
LEMMA SingleIs ==
  ASSUME NEW x
  PROVE  <<x>> = [k \in 1 .. 1 |-> <<x>>[k]]
OBVIOUS

\* The paragraphs and the tables are kept.
LEMMA DocxFaithful ==
  ASSUME NEW content \in Contents, content.kind = "docx", ParseDocx(content).error = ""
  PROVE  Faithful(ParseDocx(content).sections, content)
<1> DEFINE parts == content.parts
           xs == PartTexts(parts)
           breaks == Tagged(parts, "break")
           rows == Tagged(parts, "row")
           P == Tagged(parts, "paragraph")
           written == {i \in P : parts[i].text # <<>>}
           numbers == InOrder({PageOf(breaks, i) : i \in written})
           text(k) == Below(TextsOf(parts, {i \in written : PageOf(breaks, i) = numbers[k]}))
           section(k) ==
             Section(IF breaks = {} THEN <<"paragraphs">> ELSE <<"page", numbers[k]>>, text(k), "",
                     IF breaks = {} THEN 0 ELSE numbers[k], {})
           tables == Section(<<"tables">>, FlattenSeq(TextsOf(parts, rows)), "", 0, {})
           first == [k \in DOMAIN numbers |-> section(k)]
           last == IF rows = {} THEN <<>> ELSE <<tables>>
           document == first \o last
           texts == [k \in DOMAIN numbers |-> text(k)]
           t == FlattenSeq(TextsOf(parts, rows))
           more == IF rows = {} THEN <<>> ELSE <<t>>
<1>1. ParseDocx(content).sections = document
  <2> DEFINE page(i) == 1 + Cardinality({j \in breaks : j < i})
  <2>1. \A i : PageOf(breaks, i) = page(i)
    BY ZenonT(60) DEF PageOf
  <2>2. ParseDocx(content) = IF \A k \in DOMAIN document : Normalize(document[k].text) = <<>>
                             THEN Fails("ParseError") ELSE Parses(document)
    BY ZenonT(60) DEF ParseDocx, PageOf
  <2> DEFINE blank == \A k \in DOMAIN document : Normalize(document[k].text) = <<>>
  <2>3. ParseDocx(content) = IF blank THEN Fails("ParseError") ELSE Parses(document)
    BY ZenonT(60), <2>2
  <2> HIDE DEF document, blank
  <2>4. CASE blank
    <3>1. ParseDocx(content) = Fails("ParseError")
      BY <2>3, <2>4
    <3>2. Fails("ParseError").error = "ParseError"
      BY DEF Fails
    <3> QED
      BY <3>1, <3>2
  <2>5. CASE ~blank
    <3>1. ParseDocx(content) = Parses(document)
      BY <2>3, <2>5
    <3>2. Parses(document).sections = document
      BY DEF Parses
    <3> QED
      BY <3>1, <3>2
  <2> QED
    BY <2>4, <2>5
<1>2. /\ parts \in Seq(Part) /\ xs \in Seq(Text) /\ DOMAIN xs = DOMAIN parts
      /\ breaks \in SUBSET (DOMAIN parts) /\ rows \in SUBSET (DOMAIN parts)
      /\ P \in SUBSET (DOMAIN parts)
  BY ContentsAre, TaggedAre, PartTextsAre
<1>3. Read(content) = P /\ Tables(content) = rows
  BY DEF Read, Tables
<1> HIDE DEF parts, xs, breaks, rows, P
<1>4. /\ \E n \in Nat : DOMAIN numbers = 1 .. n
      /\ texts \in Seq(Text)
      /\ AllFragments(texts) = AllFragments(Pick(xs, P))
  <2> DEFINE w == written
  <2> DEFINE ns == InOrder({PageOf(breaks, i) : i \in w})
  <2> DEFINE ts == [k \in DOMAIN ns |-> Below(TextsOf(parts, {i \in w : PageOf(breaks, i) = ns[k]}))]
  <2>1. IsWritten(w, parts, P)
    BY DEF IsWritten
  <2> HIDE DEF w
  <2>2. IsNumbers(ns, breaks, w)
    BY DEF IsNumbers
  <2> HIDE DEF ns
  <2>3. ArePages(ts, parts, breaks, w, ns)
    BY DEF ArePages
  <2> HIDE DEF ts
  <2>4. PagesKeep(ts, ns, parts, P)
    BY <1>2, <2>1, <2>2, <2>3, PagesKept
  <2>5. ts = texts /\ ns = numbers
    BY DEF ts, ns, w
  <2> QED
    BY <2>4, <2>5 DEF PagesKeep, xs
<1>5. HasTexts(first, texts)
  BY DEF HasTexts, Section
<1> HIDE DEF numbers, text
<1>6. PICK n \in Nat : DOMAIN numbers = 1 .. n
  BY <1>4
<1>7. first = [k \in 1 .. n |-> first[k]]
  BY <1>6
<1>8. t \in Text /\ Fragments(t) = FlattenSeq(Pick(PartFragments(parts), rows))
  BY <1>2, TextsFragments
<1>9. tables.text = t
  BY DEF Section
<1> HIDE DEF tables, t, first, texts
<1>10. /\ more \in Seq(Text) /\ HasTexts(last, more)
       /\ \E m \in Nat : last = [k \in 1 .. m |-> last[k]]
       /\ AllFragments(more) = FlattenSeq(Pick(PartFragments(parts), rows))
  <2>1. CASE rows = {}
    <3>1. last = <<>> /\ more = <<>>
      BY <2>1
    <3> HIDE DEF last, more
    <3>2. more \in Seq(Text)
      BY <3>1, NoTexts
    <3>3. HasTexts(last, more)
      BY <3>1, NoTexts
    <3>4. last = [k \in 1 .. 0 |-> last[k]]
      BY <3>1, NoTexts
    <3>5. AllFragments(more) = <<>>
      <4>1. FlattenSeq(more) = <<>>
        BY <3>1, <3>2, FlattenIs DEF Text
      <4> QED
        BY <4>1, NoLines DEF AllFragments
    <3>6. FlattenSeq(Pick(PartFragments(parts), rows)) = <<>>
      <4>1. PartFragments(parts) \in Seq(Seq(Fragment))
        BY <1>2, PartTextsAre
      <4>2. Pick(PartFragments(parts), rows) = <<>>
        BY <2>1, <4>1, PickEnds
      <4> QED
        BY <4>1, <4>2, FlattenIs
    <3> QED
      BY <3>2, <3>3, <3>4, <3>5, <3>6
  <2>2. CASE rows # {}
    <3>1. last = <<tables>> /\ more = <<t>>
      BY <2>2
    <3> HIDE DEF last, more
    <3>2. more \in Seq(Text) /\ AllFragments(more) = Fragments(t)
      BY <1>8, <3>1, OneText
    <3>3. HasTexts(last, more)
      BY <1>9, <3>1, HasOne
    <3>4. last = [k \in 1 .. 1 |-> last[k]]
      BY <3>1, SingleIs
    <3> QED
      BY <1>8, <3>2, <3>3, <3>4
  <2> QED
    BY <2>1, <2>2
<1>11. PICK m \in Nat : last = [k \in 1 .. m |-> last[k]]
  BY <1>10
<1> HIDE DEF last, more
<1>12. HasTexts(document, texts \o more)
  BY <1>4, <1>5, <1>7, <1>10, <1>11, HasBoth
<1>13. texts \o more \in Seq(Text)
  <2>1. texts \in Seq(Text) /\ more \in Seq(Text)
    BY <1>4, <1>10
  <2> QED
    BY ONLY <2>1
<1>14. SectionFragments(document) = AllFragments(texts) \o AllFragments(more)
  BY <1>4, <1>10, <1>12, <1>13, TextsJoined, AllConcat
<1>15. AllFragments(Pick(xs, P)) = FlattenSeq(Pick(PartFragments(parts), P))
  BY <1>2, TextsOfPicked, TextsFragments DEF AllFragments, xs
<1>16. SectionFragments(document) = ReadFragments(content)
  BY <1>3, <1>4, <1>10, <1>14, <1>15 DEF ReadFragments, parts
<1> QED
  BY <1>1, <1>16, FaithfulIf

-----------------------------------------------------------------------------
(* Markdown.                                                               *)

\* The texts of some parts.
LEMMA TextsOfThose ==
  ASSUME NEW parts \in Seq(Part), NEW K \in SUBSET (DOMAIN parts)
  PROVE  Pick(parts, K) \in Seq(Part) /\ TextsOf(parts, K) = PartTexts(Pick(parts, K))
<1> DEFINE p == Pick(parts, K)
           c == Cardinality(K)
<1>1. PICK o : Enumerates(o, c, K)
  BY Enumerated
<1>2. TextsOf(parts, K) = [k \in 1 .. c |-> p[k].text]
  BY DEF TextsOf
<1> HIDE DEF c
<1>3. PickedIn(p, parts, o, c, Part)
  BY <1>1, PickIn
<1> HIDE DEF p
<1>4. p \in Seq(Part) /\ DOMAIN p = 1 .. c
  BY <1>3 DEF PickedIn
<1> QED
  BY <1>2, <1>4 DEF PartTexts, p

\* The texts of the parts of a tag among some parts.
LEMMA TextsOfTagged ==
  ASSUME NEW all \in Seq(Part), NEW G \in SUBSET (DOMAIN all), NEW tag
  PROVE  TextsOf(Pick(all, G), Tagged(Pick(all, G), tag)) = TextsOf(all, {i \in G : all[i].tag = tag})
<1> DEFINE p == Pick(all, G)
           W == {part \in Part : part.tag = tag}
           B == {b \in DOMAIN p : p[b] \in W}
           C == {i \in G : all[i] \in W}
<1>1. p \in Seq(Part) /\ \A b \in DOMAIN p : p[b] \in Part
  <2>1. p \in Seq(Part)
    BY PickIs
  <2> HIDE DEF p
  <2> QED
    BY <2>1
<1>2. \A i \in G : all[i] \in Part
  OBVIOUS
<1>3. B = Tagged(p, tag)
  <2> HIDE DEF p
  <2> QED
    BY <1>1 DEF Tagged
<1>4. C = {i \in G : all[i].tag = tag}
  BY <1>2
<1>5. p = Pick(all, G)
  OBVIOUS
<1> HIDE DEF p, W
<1>6. AreThose(B, DOMAIN p, p, W) /\ AreThose(C, G, all, W)
  BY DEF AreThose
<1>7. B \in SUBSET (DOMAIN p) /\ C \in SUBSET (DOMAIN all)
  OBVIOUS
<1> HIDE DEF B, C
<1>8. Pick(p, B) = Pick(all, C)
  BY <1>5, <1>6, PickThose DEF PickedAgain
<1>9. TextsOf(p, B) = TextsOf(all, C)
  BY <1>1, <1>8, <1>7, TextsOfThose
<1> QED
  BY <1>3, <1>4, <1>9 DEF p

\* The texts of the lines of each run, the runs without a line left out.
RunTexts(texts, parts, runs) ==
  \E F \in SUBSET (DOMAIN runs) :
    /\ \A k \in DOMAIN runs \ F : runs[k] \cap Tagged(parts, "line") = {}
    /\ texts = [k \in DOMAIN Pick(runs, F) |->
                 Normalize(FlattenSeq(TextsOf(parts, Pick(runs, F)[k] \cap Tagged(parts, "line"))))]

\* They have the fragments of the lines.
LEMMA RunsKept ==
  ASSUME NEW parts \in Seq(Part), NEW runs, Divides(runs, Len(parts)),
         NEW texts, RunTexts(texts, parts, runs)
  PROVE  texts \in Seq(Text) /\ AllFragments(texts) = AllFragments(TextsOf(parts, Tagged(parts, "line")))
<1> DEFINE L == Tagged(parts, "line")
           xs == PartTexts(parts)
           D == DOMAIN parts
           n == Len(runs)
           Ks == [k \in 1 .. n |-> runs[k] \cap L]
           ys == [k \in DOMAIN Ks |-> FlattenSeq(Pick(xs, Ks[k]))]
<1>1. PICK F \in SUBSET (DOMAIN runs) :
        /\ \A k \in DOMAIN runs \ F : runs[k] \cap L = {}
        /\ texts = [k \in DOMAIN Pick(runs, F) |->
                     Normalize(FlattenSeq(TextsOf(parts, Pick(runs, F)[k] \cap L)))]
  BY DEF RunTexts
<1>2. D = 1 .. Len(parts) /\ L \in SUBSET D /\ xs \in Seq(Text) /\ DOMAIN xs = D
  BY TaggedAre, PartTextsAre
<1> HIDE DEF L, xs
<1> DEFINE U == SUBSET D
<1>3. runs \in Seq(U) /\ Ascends(runs) /\ UNION {runs[k] : k \in DOMAIN runs} = D
  BY <1>2 DEF Divides
<1>4. n \in Nat /\ DOMAIN runs = 1 .. n /\ \A k \in 1 .. n : runs[k] \in U
  <2> HIDE DEF U
  <2> QED
    BY <1>3
<1>5. /\ Ks \in Seq(SUBSET (DOMAIN xs)) /\ Len(Ks) = n /\ DOMAIN Ks = 1 .. n
      /\ \A k \in 1 .. n : Ks[k] = runs[k] \cap L
  <2>1. Ks = [k \in 1 .. n |-> Ks[k]] /\ \A k \in 1 .. n : Ks[k] \in U
    BY <1>2, <1>4
  <2>2. U = SUBSET (DOMAIN xs)
    BY <1>2
  <2>3. \A k \in 1 .. n : Ks[k] = runs[k] \cap L
    OBVIOUS
  <2> HIDE DEF Ks, U
  <2> QED
    BY <1>4, <2>1, <2>2, <2>3, SequenceIs
<1> HIDE DEF n
<1>6. Ascends(Ks)
  <2> HIDE DEF Ks
  <2> QED
    BY <1>3, <1>4, <1>5 DEF Ascends
<1>7. UNION {Ks[k] : k \in DOMAIN Ks} = L
  <2> HIDE DEF Ks
  <2>1. \A i \in L : \E k \in 1 .. n : i \in runs[k]
    BY <1>2, <1>3, <1>4
  <2> QED
    BY <1>4, <1>5, <2>1
<1>8. Pieces(ys, xs, Ks)
  BY DEF Pieces
<1>9. \A k \in 1 .. n : ys[k] = FlattenSeq(Pick(xs, runs[k] \cap L))
  BY <1>5
<1> HIDE DEF Ks, ys
<1>10. ys \in Seq(Text) /\ Len(ys) = n /\ FlattenSeq(ys) = FlattenSeq(Pick(xs, L))
  <2> DEFINE V == Seq(Fragment)
  <2>1. xs \in Seq(Seq(V))
    BY <1>2 DEF Text
  <2> HIDE DEF V
  <2>2. /\ ys \in Seq(Seq(V)) /\ Len(ys) = Len(Ks)
        /\ FlattenSeq(ys) = FlattenSeq(Pick(xs, UNION {Ks[k] : k \in DOMAIN Ks}))
    BY <1>5, <1>6, <1>8, <2>1, FlattenPieces
  <2> QED
    BY <1>5, <1>7, <2>2 DEF V, Text
<1>11. TextsOf(parts, L) = Pick(xs, L)
  BY <1>2, TextsOfPicked DEF xs
<1>12. AllFragments(ys) = AllFragments(TextsOf(parts, L))
  BY <1>10, <1>11 DEF AllFragments
<1>13. DOMAIN ys = 1 .. n /\ F \in SUBSET (DOMAIN ys)
  BY <1>4, <1>10
<1>14. \A k \in DOMAIN ys \ F : Fragments(ys[k]) = <<>>
  <2> TAKE k \in DOMAIN ys \ F
  <2>1. ys[k] = FlattenSeq(Pick(xs, {}))
    BY <1>1, <1>4, <1>9, <1>13
  <2>2. Pick(xs, {}) = <<>>
    BY <1>2, PickEnds
  <2>3. ys[k] = <<>>
    BY <1>2, <2>1, <2>2, FlattenIs DEF Text
  <2> QED
    BY <2>3, NoLines
<1> DEFINE q == Pick(ys, F)
           f == Pick(runs, F)
           c == Cardinality(F)
<1>15. q \in Seq(Text) /\ AllFragments(q) = AllFragments(ys)
  BY <1>10, <1>13, <1>14, FullTexts
<1>16. PICK o : Enumerates(o, c, F)
  BY <1>3, Enumerated
<1> HIDE DEF c
<1>17. PickedIn(q, ys, o, c, Text)
  BY <1>10, <1>13, <1>16, PickIn
<1>18. PickedIn(f, runs, o, c, U)
  <2> HIDE DEF U
  <2> QED
    BY <1>1, <1>3, <1>16, PickIn
<1>19. texts = [k \in DOMAIN f |-> Normalize(FlattenSeq(TextsOf(parts, f[k] \cap L)))]
  BY <1>1
<1> HIDE DEF q, f
<1>20. /\ c \in Nat /\ DOMAIN f = 1 .. c /\ Len(q) = c
       /\ \A k \in 1 .. c : q[k] = ys[o[k]] /\ f[k] = runs[o[k]] /\ o[k] \in 1 .. n
  <2>1. \A k \in 1 .. c : o[k] \in F
    BY <1>16 DEF Enumerates
  <2> QED
    BY <1>13, <1>17, <1>18, <2>1 DEF PickedIn
<1>21. \A k \in 1 .. c : q[k] = FlattenSeq(TextsOf(parts, f[k] \cap L))
  <2> TAKE k \in 1 .. c
  <2> DEFINE R == runs[o[k]] \cap L
  <2>1. R \in SUBSET D
    BY <1>2
  <2>2. q[k] = FlattenSeq(Pick(xs, R)) /\ f[k] \cap L = R
    BY <1>9, <1>20
  <2> HIDE DEF R
  <2>3. TextsOf(parts, R) = Pick(xs, R)
    BY <2>1, TextsOfPicked DEF xs
  <2> QED
    BY <2>2, <2>3
<1>22. \A k \in 1 .. c : texts[k] = Normalize(q[k])
  BY <1>19, <1>20, <1>21
<1>23. \A k \in 1 .. c : q[k] \in Text
  BY <1>15, <1>20
<1>24. \A k \in 1 .. c : texts[k] \in Text /\ Fragments(texts[k]) = Fragments(q[k])
  BY <1>22, <1>23, NormalizeIs, NormalizeKeeps
<1>25. texts = [k \in 1 .. c |-> texts[k]]
  BY <1>19, <1>20
<1>26. texts \in Seq(Text) /\ Len(texts) = c
  <2>1. \A k \in 1 .. c : texts[k] \in Text
    BY <1>24
  <2> QED
    BY <1>20, <1>25, <2>1, SequenceIs
<1>27. AllFragments(texts) = AllFragments(q)
  BY <1>15, <1>20, <1>24, <1>26, SameFragments
<1> QED
  BY <1>12, <1>15, <1>26, <1>27 DEF L
\* A part of a Markdown file that is dropped is blank.
LEMMA MarkdownParts ==
  ASSUME NEW content \in Contents, content.kind = "markdown",
         NEW lines, lines = [i \in DOMAIN content.parts |-> content.parts[i].text[1]]
  PROVE  /\ lines \in Text /\ DOMAIN lines = DOMAIN content.parts
         /\ \A i \in DOMAIN content.parts : content.parts[i].tag \in {"line", "heading"}
         /\ \A i \in DOMAIN content.parts \ Kept(lines) : Fragments(content.parts[i].text) = <<>>
<1> DEFINE parts == content.parts
           D == DOMAIN parts
           V == Seq(Fragment)
<1>1. parts \in Seq(Part) /\ \A i \in D : parts[i].text \in Text
  BY ContentsAre, PartTyped
<1>2. \A i \in D : parts[i].tag \in {"line", "heading"} /\ Len(parts[i].text) = 1
  BY DEF Contents
<1> HIDE DEF parts
<1>3. Len(parts) \in Nat /\ D = 1 .. Len(parts)
  BY <1>1
<1>4. \A i \in D : lines[i] = parts[i].text[1] /\ lines[i] \in V /\ parts[i].text = <<lines[i]>>
  <2> TAKE i \in D
  <2> DEFINE t == parts[i].text
  <2>1. lines[i] = t[1]
    BY DEF parts
  <2>2. t \in Seq(V) /\ Len(t) = 1
    BY <1>1, <1>2 DEF Text
  <2> HIDE DEF t, V
  <2>3. t[1] \in V /\ t = <<t[1]>>
    BY <2>2
  <2> QED
    BY <2>1, <2>3 DEF t
<1>5. lines = [i \in 1 .. Len(parts) |-> lines[i]]
  BY <1>3 DEF parts
<1>6. lines \in Text /\ DOMAIN lines = D
  <2>1. \A i \in 1 .. Len(parts) : lines[i] \in V
    BY <1>3, <1>4
  <2>2. lines \in Seq(V) /\ DOMAIN lines = 1 .. Len(parts)
    <3> HIDE DEF V
    <3> QED
      BY ZenonT(60), <1>3, <1>5, <2>1, SequenceIs
  <2> QED
    BY <1>3, <2>2 DEF Text
<1>7. ASSUME NEW i \in D, i \notin Kept(lines)
      PROVE  Fragments(parts[i].text) = <<>>
  <2>1. lines[i] = Blank
    BY <1>6, <1>7 DEF Kept
  <2>2. parts[i].text = <<Blank>>
    BY <1>4, <2>1
  <2>3. <<Blank>> \o <<>> = <<Blank>>
    OBVIOUS
  <2>4. Fragments(<<Blank>> \o <<>>) = Fragments(<<>>)
    BY NoLines, BlankAbove
  <2> QED
    BY <2>2, <2>3, <2>4, NoLines
<1> QED
  BY <1>2, <1>6, <1>7 DEF parts

\* What is read of a Markdown file are its lines and its headings, and headings may be lost.
LEMMA HeadingsLost ==
  ASSUME NEW content \in Contents, content.kind = "markdown",
         NEW G \in SUBSET (DOMAIN content.parts),
         \A i \in DOMAIN content.parts : content.parts[i].tag \in {"line", "heading"},
         \A i \in DOMAIN content.parts \ G : Fragments(content.parts[i].text) = <<>>,
         NEW K, K = {i \in G : content.parts[i].tag = "line"},
         NEW document, SectionFragments(document) = AllFragments(TextsOf(content.parts, K))
  PROVE  Faithful(document, content)
<1> DEFINE all == content.parts
           D == DOMAIN all
           V == Seq(Occurrence)
           po == PartOccurrences(all)
           seen == Occurrences(content)
           os == FlattenSeq(Pick(po, K))
<1>1. all \in Seq(Part) /\ K \in SUBSET (DOMAIN all)
  BY ContentsAre
<1>2. po \in Seq(V) /\ DOMAIN po = D
  BY <1>1, PartOccurrencesAre
<1>3. Read(content) = D /\ Tables(content) = {}
  BY DEF Read, Tables
<1>4. IsJoined(seen, FlattenSeq(Pick(po, Read(content))), FlattenSeq(Pick(po, Tables(content))))
  BY SeenIs
<1> HIDE DEF po, D
<1>5. Pick(po, D) = po /\ Pick(po, {}) = <<>> /\ FlattenSeq(<<>>) = <<>> /\ FlattenSeq(po) \in V
  <2> HIDE DEF V
  <2>1. Pick(po, DOMAIN po) = po /\ Pick(po, {}) = <<>>
    BY <1>2, PickEnds
  <2>2. FlattenSeq(<<>>) = <<>> /\ FlattenSeq(po) \in Seq(Occurrence)
    BY <1>2, FlattenIs DEF V
  <2> QED
    BY <1>2, <2>1, <2>2 DEF V
<1>6. seen = FlattenSeq(po)
  BY <1>3, <1>4, <1>5, ConcatEmptySeq DEF IsJoined
<1>7. os \in V /\ Mapped(FragmentOf, os) = FlattenSeq(Pick(PartFragments(all), K))
  BY <1>1, OccurrencesFragments DEF po
<1>8. AllFragments(TextsOf(all, K)) = FlattenSeq(Pick(PartFragments(all), K))
  BY <1>1, TextsFragments DEF AllFragments
<1>9. ASSUME NEW i \in DOMAIN po, i \notin K, NEW j \in DOMAIN po[i]
      PROVE  po[i][j] \in Headings(content)
  <2>1. i \in DOMAIN all
    BY <1>2, <1>9 DEF D
  <2>2. po[i] = OccurrencesIn(all, i)
    BY <1>2, <1>9 DEF po, PartOccurrences
  <2>3. InPart(po[i], i, all)
    BY <1>1, <2>1, <2>2, OccurrencesInAre
  <2>4. po[i] \in V /\ po[i][j] \in Occurrence /\ po[i][j].part = i
    <3>1. po[i] \in Seq(Occurrence) /\ \A k \in DOMAIN po[i] : po[i][k].part = i
      BY <2>3 DEF InPart
    <3> QED
      BY <1>9, <3>1
  <2>5. CASE i \in G
    <3>1. all[i].tag = "heading"
      BY <1>9, <2>1, <2>5
    <3> QED
      BY <2>4, <3>1 DEF Headings
  <2>6. CASE i \notin G
    <3>1. Fragments(all[i].text) = <<>>
      BY <2>1, <2>6
    <3>2. MappedBy(Mapped(FragmentOf, po[i]), FragmentOf, po[i], Fragment)
      <4>1. po[i] \in Seq(Occurrence)
        BY <2>4
      <4> QED
        BY <4>1, FragmentOfIs, MappedIs
    <3>3. Len(po[i]) = 0
      BY <2>3, <3>1, <3>2 DEF MappedBy, InPart
    <3>4. DOMAIN po[i] = {}
      BY <2>4, <3>3
    <3> QED
      BY <1>9, <3>4
  <2> QED
    BY <2>5, <2>6
<1>10. Thin(os, seen, Headings(content))
  <2>1. \A i \in DOMAIN po \ K : \A j \in DOMAIN po[i] : po[i][j] \in Headings(content)
    BY <1>9
  <2>2. K \in SUBSET (DOMAIN po)
    BY <1>1, <1>2 DEF D
  <2>3. Thin(FlattenSeq(Pick(po, K)), FlattenSeq(po), Headings(content))
    BY SMTT(40), <1>2, <2>1, <2>2, ThinPicked
  <2> QED
    BY <1>6, <2>3
<1> HIDE DEF os, seen
<1> QED
  BY <1>7, <1>8, <1>10 DEF Faithful, seen

\* The lines of Markdown are kept.
LEMMA MarkdownFaithful ==
  ASSUME NEW content \in Contents, content.kind = "markdown"
  PROVE  Faithful(ParseMarkdown(content).sections, content)
<1> DEFINE all == content.parts
           ls == [i \in DOMAIN all |-> all[i].text[1]]
           G == Kept(ls)
           parts == Pick(all, G)
           runs == Runs(Len(parts), {i \in 1 .. Len(parts) - 1 : parts[i + 1].tag # "heading"})
           lines(run) == {i \in run : parts[i].tag = "line"}
           heading(run) == {i \in run : parts[i].tag = "heading"}
           F == {k \in DOMAIN runs : lines(runs[k]) # {}}
           full == Pick(runs, F)
           title(k) == IF heading(full[k]) = {} THEN ""
                       ELSE Pick(parts, heading(full[k]))[1].text[1][1]
           text(k) == Normalize(FlattenSeq(TextsOf(parts, lines(full[k]))))
           document == [k \in DOMAIN full |-> Section(<<k - 1>>, text(k), title(k), 0, {})]
           whole == Normalize(Decoded(content))
           L == Tagged(parts, "line")
           texts == [k \in DOMAIN full |-> Normalize(FlattenSeq(TextsOf(parts, full[k] \cap L)))]
<1>1. ParseMarkdown(content) = IF full = <<>> THEN Parses(Numbered(<<whole>>)) ELSE Parses(document)
  BY DEF ParseMarkdown, PartsAs
<1>2. all \in Seq(Part)
  BY ContentsAre
<1>3. /\ ls \in Text /\ DOMAIN ls = DOMAIN all
      /\ \A i \in DOMAIN all : all[i].tag \in {"line", "heading"}
      /\ \A i \in DOMAIN all \ G : Fragments(all[i].text) = <<>>
  BY MarkdownParts
<1>4. G \in SUBSET (DOMAIN all)
  BY <1>3 DEF Kept
<1>5. CASE full = <<>>
  <2>1. ParseMarkdown(content).sections = Numbered(<<whole>>)
    <3> HIDE DEF full, document, whole
    <3>1. ParseMarkdown(content) = Parses(Numbered(<<whole>>))
      BY <1>1, <1>5
    <3>2. Parses(Numbered(<<whole>>)).sections = Numbered(<<whole>>)
      BY DEF Parses
    <3> QED
      BY <3>1, <3>2
  <2>2. Decoded(content) = FlattenSeq(TextsOf(all, DOMAIN all)) /\ Read(content) = DOMAIN all
    BY DEF Decoded, BinaryKinds, Archives, Read
  <2>3. TextsOf(all, DOMAIN all) = ReadTexts(content)
    <3>1. DOMAIN all \in SUBSET (DOMAIN all)
      OBVIOUS
    <3> QED
      BY <1>2, <2>2, <3>1, TextsOfPicked DEF ReadTexts
  <2>4. whole \in Text /\ Fragments(whole) = AllFragments(ReadTexts(content))
    BY <2>2, <2>3, DecodedIs, NormalizeIs, NormalizeKeeps DEF AllFragments
  <2> HIDE DEF whole
  <2>5. <<whole>> \in Seq(Text) /\ AllFragments(<<whole>>) = Fragments(whole)
    BY <2>4, OneText
  <2>6. HasTexts(Numbered(<<whole>>), <<whole>>)
    BY DEF Numbered, Section, HasTexts
  <2> QED
    BY <2>1, <2>4, <2>5, <2>6, TextsFaithful
<1>6. CASE full # <<>>
  <2>1. ParseMarkdown(content).sections = document
    <3> HIDE DEF full, document, whole
    <3>1. ParseMarkdown(content) = Parses(document)
      BY <1>1, <1>6
    <3>2. Parses(document).sections = document
      BY DEF Parses
    <3> QED
      BY <3>1, <3>2
  <2>2. parts \in Seq(Part)
    BY <1>2, <1>4, TextsOfThose
  <2>3. Divides(runs, Len(parts))
    <3>1. Len(parts) \in Nat
      <4> HIDE DEF parts
      <4> QED
        BY <2>2
    <3> QED
      BY <3>1, RunsDivide
  <2> HIDE DEF runs, parts, G
  <2>4. \A k \in DOMAIN runs : runs[k] \in SUBSET (DOMAIN parts)
    <3> DEFINE U == SUBSET (1 .. Len(parts))
    <3>1. runs \in Seq(U) /\ DOMAIN parts = 1 .. Len(parts)
      BY <2>2, <2>3 DEF Divides
    <3>2. \A k \in DOMAIN runs : runs[k] \in U
      <4> HIDE DEF U
      <4> QED
        BY <3>1
    <3> QED
      BY <3>1, <3>2
  <2>5. \A k \in DOMAIN runs : lines(runs[k]) = runs[k] \cap L
    BY <2>4 DEF Tagged
  <2>6. F \in SUBSET (DOMAIN runs) /\ \A k \in DOMAIN runs \ F : runs[k] \cap L = {}
    BY <2>5
  <2>7. \A k \in DOMAIN full : full[k] \in SUBSET (DOMAIN parts)
    <3> DEFINE U == SUBSET (1 .. Len(parts))
    <3>1. runs \in Seq(U) /\ DOMAIN parts = 1 .. Len(parts)
      BY <2>2, <2>3 DEF Divides
    <3> HIDE DEF U, F
    <3>2. full \in Seq(U)
      BY <2>6, <3>1, PickIs
    <3> HIDE DEF full
    <3>3. \A k \in DOMAIN full : full[k] \in U
      BY <3>2
    <3> QED
      BY <3>1, <3>3 DEF U
  <2> HIDE DEF F
  <2>8. RunTexts(texts, parts, runs)
    BY <2>6 DEF RunTexts
  <2>9. \A k \in DOMAIN full : lines(full[k]) = full[k] \cap L
    <3> HIDE DEF full
    <3> QED
      BY <2>7 DEF Tagged
  <2>10. HasTexts(document, texts)
    <3>1. \A k \in DOMAIN full : text(k) = texts[k]
      BY <2>9
    <3> HIDE DEF text, title, full, texts
    <3>2. DOMAIN texts = DOMAIN full
      BY DEF texts
    <3> QED
      BY <3>1, <3>2 DEF HasTexts, Section
  <2> HIDE DEF document, texts
  <2>11. SectionFragments(document) = AllFragments(TextsOf(parts, L))
    BY <2>2, <2>3, <2>8, <2>10, RunsKept, TextsJoined
  <2>12. TextsOf(parts, L) = TextsOf(all, {i \in G : all[i].tag = "line"})
    BY <1>2, <1>4, TextsOfTagged DEF parts
  <2> QED
    BY <1>3, <1>4, <2>1, <2>11, <2>12, HeadingsLost DEF G
<1> QED
  BY ZenonT(60), <1>5, <1>6

-----------------------------------------------------------------------------
\* The handler of the content's kind keeps what is read.
LEMMA ParseFaithful ==
  ASSUME NEW content \in Contents, NEW converted, Parse(content.kind, content, converted).error = ""
  PROVE  Faithful(Parse(content.kind, content, converted).sections, content)
<1>1. content.kind \in TextKinds \cup BinaryKinds
  BY DEF Contents
<1>2. /\ content.kind = "text" => Parse(content.kind, content, converted) = ParseText(content)
      /\ content.kind = "markdown" => Parse(content.kind, content, converted) = ParseMarkdown(content)
      /\ content.kind = "html" => Parse(content.kind, content, converted) = ParseHtml(content)
      /\ content.kind = "csv" => Parse(content.kind, content, converted) = ParseCsv(content)
      /\ content.kind = "pdf" => Parse(content.kind, content, converted) = ParsePdf(content)
      /\ content.kind = "docx" => Parse(content.kind, content, converted) = ParseDocx(content)
      /\ content.kind = "pptx" => Parse(content.kind, content, converted) = ParsePptx(content)
      /\ content.kind = "xlsx" => Parse(content.kind, content, converted) = ParseXlsx(content)
      /\ content.kind = "zip" => Parse(content.kind, content, converted) = ParseZip(content)
  BY DEF Parse, CanOpen
<1>3. \/ content.kind = "text" \/ content.kind = "markdown" \/ content.kind = "html"
      \/ content.kind = "csv" \/ content.kind = "pdf" \/ content.kind = "docx"
      \/ content.kind = "pptx" \/ content.kind = "xlsx" \/ content.kind = "zip"
  BY <1>1 DEF TextKinds, BinaryKinds, Archives
<1> QED
  BY <1>2, <1>3, TextFaithful, MarkdownFaithful, HtmlFaithful, CsvFaithful, PdfFaithful, DocxFaithful,
     PptxFaithful, XlsxFaithful, ZipFaithful

-----------------------------------------------------------------------------
(* The edges of pages.                                                     *)

\* The positions of lines that are not blank.
Lines(text) == {i \in DOMAIN text : text[i] # Blank}

\* A line is at an edge by its rank among them.
LEMMA AtEdgeIs ==
  ASSUME NEW text
  PROVE  \A line : line \in AtEdge(text) <=>
           \E i \in Lines(text) :
             /\ line = text[i]
             /\ \/ Cardinality({j \in Lines(text) : j <= i}) <= EdgeLines
                \/ Cardinality({j \in Lines(text) : j >= i}) <= EdgeLines
BY DEF AtEdge, Lines

\* A set of numbers and its image in order.
IsOrdered(o, S, R) ==
  /\ S \in SUBSET Nat /\ IsFiniteSet(S) /\ R \in SUBSET Nat
  /\ o \in [S -> R] /\ \A r \in R : \E s \in S : o[s] = r
  /\ \A s, t \in S : s < t => o[s] < o[t]

SameRanks(S, b, R, c) ==
  /\ Cardinality({s \in S : s <= b}) = Cardinality({r \in R : r <= c})
  /\ Cardinality({s \in S : s >= b}) = Cardinality({r \in R : r >= c})

\* A number and its image have the same rank.
LEMMA SameRank ==
  ASSUME NEW S, NEW R, NEW o, IsOrdered(o, S, R), NEW b \in S
  PROVE  SameRanks(S, b, R, o[b])
<1> DEFINE A == {s \in S : s <= b}
           B == {r \in R : r <= o[b]}
           C == {s \in S : s >= b}
           D == {r \in R : r >= o[b]}
           f == [s \in A |-> o[s]]
           g == [s \in C |-> o[s]]
<1>0. /\ S \in SUBSET Nat /\ IsFiniteSet(S) /\ R \in SUBSET Nat
      /\ o \in [S -> R] /\ \A r \in R : \E s \in S : o[s] = r
      /\ \A s, t \in S : s < t => o[s] < o[t]
  BY DEF IsOrdered
<1>1. \A s \in S : s \in Nat /\ o[s] \in Nat /\ o[s] \in R
  BY <1>0
<1>2. \A s, t \in S : (s <= t <=> o[s] <= o[t]) /\ (s = t <=> o[s] = o[t])
  <2> TAKE s, t \in S
  <2>1. s < t => o[s] < o[t]
    BY <1>0
  <2>2. t < s => o[t] < o[s]
    BY <1>0
  <2> QED
    BY <1>1, <2>1, <2>2
<1>3. IsFiniteSet(A) /\ IsFiniteSet(C)
  <2>1. A \subseteq S /\ C \subseteq S
    OBVIOUS
  <2> HIDE DEF A, C
  <2> QED
    BY <1>0, <2>1, FS_Subset
<1>4. f \in Bijection(A, B)
  <2>1. \A s \in A : f[s] \in B
    BY <1>1, <1>2
  <2>2. \A s, t \in A : f[s] = f[t] => s = t
    BY <1>2
  <2>3. \A r \in B : \E s \in A : f[s] = r
    BY <1>0, <1>1, <1>2
  <2> QED
    BY <2>1, <2>2, <2>3 DEF Bijection, Injection, Surjection, IsInjective
<1>5. g \in Bijection(C, D)
  <2>1. \A s \in C : g[s] \in D
    BY <1>1, <1>2
  <2>2. \A s, t \in C : g[s] = g[t] => s = t
    BY <1>2
  <2>3. \A r \in D : \E s \in C : g[s] = r
    BY <1>0, <1>1, <1>2
  <2> QED
    BY <2>1, <2>2, <2>3 DEF Bijection, Injection, Surjection, IsInjective
<1> HIDE DEF A, B, C, D, f, g
<1>6. Cardinality(A) = Cardinality(B)
  BY <1>3, <1>4, FS_Bijection DEF ExistsBijection
<1>7. Cardinality(C) = Cardinality(D)
  BY <1>3, <1>5, FS_Bijection DEF ExistsBijection
<1> QED
  BY <1>6, <1>7 DEF SameRanks, A, B, C, D

\* Leaving out blank lines leaves the edges.
LEMMA AtEdgePicked ==
  ASSUME NEW text \in Text, NEW K \in SUBSET (DOMAIN text), Lines(text) \subseteq K
  PROVE  AtEdge(Pick(text, K)) \subseteq AtEdge(text)
<1> DEFINE V == Seq(Fragment)
           p == Pick(text, K)
           n == Cardinality(K)
           S == Lines(p)
           R == Lines(text)
<1>1. PICK o : Enumerates(o, n, K)
  BY Enumerated DEF Text
<1> HIDE DEF n
<1>2. PickedIn(p, text, o, n, V)
  <2>1. text \in Seq(V)
    BY DEF Text
  <2> HIDE DEF V
  <2> QED
    BY <1>1, <2>1, PickIn
<1>3. n \in Nat /\ DOMAIN p = 1 .. n /\ \A k \in 1 .. n : p[k] = text[o[k]]
  BY <1>2 DEF PickedIn
<1>4. /\ o \in [1 .. n -> K]
      /\ \A i \in K : \E k \in 1 .. n : o[k] = i
      /\ \A k, m \in 1 .. n : k < m => o[k] < o[m]
  BY <1>1 DEF Enumerates
<1>5. DOMAIN text \subseteq Nat
  BY DEF Text
<1> HIDE DEF p
<1> DEFINE h == [s \in S |-> o[s]]
<1>6. S \subseteq 1 .. n /\ R \subseteq K /\ R \subseteq Nat /\ S \subseteq Nat
  BY <1>3, <1>5 DEF Lines
<1>7. \A k \in 1 .. n : k \in S <=> o[k] \in R
  BY <1>3, <1>4 DEF Lines
<1> HIDE DEF S, R
<1>8. h \in [S -> R] /\ \A s \in S : h[s] = o[s]
  BY <1>6, <1>7
<1>9. \A r \in R : \E s \in S : h[s] = r
  BY <1>4, <1>6, <1>7
<1>10. \A s, t \in S : s < t => h[s] < h[t]
  BY <1>4, <1>6
<1>11. IsFiniteSet(S)
  <2>1. IsFiniteSet(1 .. n)
    BY <1>3, FS_Interval
  <2> QED
    BY <1>6, <2>1, FS_Subset
<1> HIDE DEF h
<1>12. ASSUME NEW line \in AtEdge(p)
       PROVE  line \in AtEdge(text)
  <2>1. PICK s \in S : /\ line = p[s]
                       /\ \/ Cardinality({j \in S : j <= s}) <= EdgeLines
                          \/ Cardinality({j \in S : j >= s}) <= EdgeLines
    BY AtEdgeIs DEF S
  <2>2. SameRanks(S, s, R, h[s])
    <3>1. IsOrdered(h, S, R)
      BY <1>6, <1>8, <1>9, <1>10, <1>11 DEF IsOrdered
    <3> QED
      BY <3>1, SameRank
  <2>3. h[s] \in R /\ line = text[h[s]]
    BY <1>3, <1>6, <1>8, <2>1
  <2> QED
    BY <2>1, <2>2, <2>3, AtEdgeIs DEF R, SameRanks
<1> QED
  BY <1>12 DEF p

\* Normalizing leaves the edges.
LEMMA AtEdgeNormalized ==
  ASSUME NEW text \in Text
  PROVE  AtEdge(Normalize(text)) \subseteq AtEdge(text)
<1>1. Kept(text) \in SUBSET (DOMAIN text) /\ Lines(text) \subseteq Kept(text)
  BY DEF Kept, Lines
<1> QED
  BY <1>1, AtEdgePicked DEF Normalize

-----------------------------------------------------------------------------
(* Lines that several pages repeat.                                        *)

\* A section with a page has the number of a page of the file, and its lines at its edges.
PageLike(section, content) ==
  section.page # 0 =>
    \E page \in PageTexts(content) :
      /\ page[1] = section.page
      /\ AtEdge(section.text) \subseteq AtEdge(page[2])
      /\ \A line \in AtEdge(section.text) : \E f \in Fragment : line = Line(f)

\* No two sections are one page.
PagesOfFile(document, content) ==
  /\ IsFiniteSet(PageTexts(content))
  /\ \A i \in DOMAIN document : PageLike(document[i], content)
  /\ \A i, j \in DOMAIN document :
       document[i].page # 0 /\ document[i].page = document[j].page => i = j

OnPages(content, f) == {page \in PageTexts(content) : Line(f) \in AtEdge(page[2])}

\* A line that sections repeat is one that the pages repeat.
LEMMA RepeatedOnPages ==
  ASSUME NEW content, NEW document, PagesOfFile(document, content), NEW line \in Repeated(document)
  PROVE  \E f \in Fragment : line = Line(f) /\ Cardinality(OnPages(content, f)) >= MinPages
<1> DEFINE P == {i \in DOMAIN document : document[i].page # 0}
           A == {i \in P : line \in AtEdge(document[i].text)}
<1>1. Cardinality(A) >= MinPages /\ \E i \in P : line \in AtEdge(document[i].text)
  BY DEF Repeated
<1>2. PICK f \in Fragment : line = Line(f)
  BY <1>1 DEF PagesOfFile, PageLike
<1> DEFINE B == OnPages(content, f)
           page(i) == CHOOSE q \in B : q[1] = document[i].page
           g == [i \in A |-> page(i)]
<1>3. \A i \in A : \E q \in B : q[1] = document[i].page
  BY <1>2 DEF PagesOfFile, PageLike, OnPages
<1>4. \A i \in A : page(i) \in B /\ page(i)[1] = document[i].page
  <2> HIDE DEF A, B
  <2> QED
    BY <1>3
<1> HIDE DEF page
<1>5. \A i, j \in A : page(i) = page(j) => i = j
  <2>1. \A i, j \in A : page(i) = page(j) => document[i].page = document[j].page
    <3> HIDE DEF A, B
    <3> QED
      BY <1>4
  <2> QED
    BY <2>1 DEF PagesOfFile
<1>6. IsFiniteSet(B)
  BY FS_Subset DEF OnPages, PagesOfFile
<1> HIDE DEF A, B
<1>7. g \in Injection(A, B)
  BY <1>4, <1>5 DEF Injection, IsInjective
<1> HIDE DEF g
<1>8. Cardinality(A) <= Cardinality(B) /\ IsFiniteSet(A)
  BY <1>6, <1>7, FS_Injection
<1>9. Cardinality(A) \in Nat /\ Cardinality(B) \in Nat /\ MinPages \in Nat
  BY <1>6, <1>8, FS_CardinalityType, CleaningAssumption
<1> QED
  BY <1>1, <1>2, <1>8, <1>9 DEF B

-----------------------------------------------------------------------------
(* The pages of what is parsed.                                            *)

\* What is picked is from where the positions say, in their order.
PickedFrom(p, document, K) ==
  \E o : /\ Enumerates(o, Cardinality(K), K)
         /\ DOMAIN p = 1 .. Cardinality(K)
         /\ \A k \in DOMAIN p : p[k] = document[o[k]]

\* Picking sections.
LEMMA PickedSections ==
  ASSUME NEW document, NEW n \in Nat, document = [k \in 1 .. n |-> document[k]],
         NEW K \in SUBSET (1 .. n)
  PROVE  PickedFrom(Pick(document, K), document, K)
<1> DEFINE D == ToSet(document)
           c == Cardinality(K)
           p == Pick(document, K)
<1>1. document \in Seq(D) /\ DOMAIN document = 1 .. n
  BY SequenceIs DEF ToSet
<1>2. PICK o : Enumerates(o, c, K)
  BY <1>1, Enumerated
<1> HIDE DEF D, c
<1>3. PickedIn(p, document, o, c, D)
  BY <1>1, <1>2, PickIn
<1> HIDE DEF p
<1> QED
  BY <1>2, <1>3 DEF PickedIn, PickedFrom, p, c

\* Most sections have no page.
ZeroPages(document) == \A i \in DOMAIN document : document[i].page = 0

\* Those of a list of texts have none.
LEMMA NumberedPages ==
  ASSUME NEW texts
  PROVE  ZeroPages(Numbered(texts))
BY DEF ZeroPages, Numbered, Section

\* Plain text has no pages,
LEMMA TextPages ==
  ASSUME NEW content
  PROVE  ZeroPages(ParseText(content).sections)
<1> DEFINE document == Numbered(<<OrUri(Normalize(Decoded(content)))>>)
<1>1. ParseText(content) = Parses(document)
  BY DEF ParseText
<1>2. ZeroPages(document)
  BY NumberedPages
<1> HIDE DEF document
<1>3. Parses(document).sections = document
  BY DEF Parses
<1> QED
  BY <1>1, <1>2, <1>3

\* nor has Markdown,
LEMMA MarkdownPages ==
  ASSUME NEW content
  PROVE  ZeroPages(ParseMarkdown(content).sections)
<1> DEFINE all == PartsAs(content, "markdown", "line")
           parts == Pick(all, Kept([i \in DOMAIN all |-> all[i].text[1]]))
           runs == Runs(Len(parts), {i \in 1 .. Len(parts) - 1 : parts[i + 1].tag # "heading"})
           lines(run) == {i \in run : parts[i].tag = "line"}
           heading(run) == {i \in run : parts[i].tag = "heading"}
           full == Pick(runs, {k \in DOMAIN runs : lines(runs[k]) # {}})
           section(k) ==
             Section(<<k - 1>>, Normalize(FlattenSeq(TextsOf(parts, lines(full[k])))),
                     IF heading(full[k]) = {} THEN ""
                     ELSE Pick(parts, heading(full[k]))[1].text[1][1], 0, {})
           one == Numbered(<<Normalize(Decoded(content))>>)
           several == [k \in DOMAIN full |-> section(k)]
<1>1. ParseMarkdown(content) = IF full = <<>> THEN Parses(one) ELSE Parses(several)
  BY DEF ParseMarkdown
<1>2. ZeroPages(one)
  BY NumberedPages
<1>3. \A k : section(k).page = 0
  BY DEF Section
<1> HIDE DEF section, full, one
<1>4. ZeroPages(several)
  BY <1>3 DEF ZeroPages
<1> HIDE DEF several
<1>5. Parses(one).sections = one /\ Parses(several).sections = several
  BY DEF Parses
<1> QED
  BY <1>1, <1>2, <1>4, <1>5

\* HTML,
LEMMA HtmlPages ==
  ASSUME NEW content
  PROVE  ZeroPages(ParseHtml(content).sections)
<1>1. \E text : ParseHtml(content) = Parses(Numbered(<<text>>))
  BY DEF ParseHtml
<1>2. PICK text : ParseHtml(content) = Parses(Numbered(<<text>>))
  BY <1>1
<1> DEFINE document == Numbered(<<text>>)
<1>3. ZeroPages(document)
  BY NumberedPages
<1> HIDE DEF document
<1>4. Parses(document).sections = document
  BY DEF Parses
<1> QED
  BY <1>2, <1>3, <1>4 DEF document

\* tables,
LEMMA RowPages ==
  ASSUME NEW rows
  PROVE  ZeroPages(ParseRows(rows).sections)
<1> DEFINE windows == Runs(Len(rows), {i \in 1 .. Len(rows) : i % Window # 0})
           texts == [w \in DOMAIN windows |-> FlattenSeq(Pick(rows, windows[w]))]
           full == Pick(texts, {w \in DOMAIN texts : Normalize(texts[w]) # <<>>})
           section(k) == Section(<<k - 1>>, full[k], "", 0, {<<"table_window", k - 1>>})
           document == [k \in DOMAIN full |-> section(k)]
<1>1. ParseRows(rows) = IF rows = <<>> THEN Fails("ParseError") ELSE Parses(document)
  BY DEF ParseRows
<1>2. \A k : section(k).page = 0
  BY DEF Section
<1> HIDE DEF section, full
<1>3. ZeroPages(document)
  BY <1>2 DEF ZeroPages
<1> HIDE DEF document
<1>4. Parses(document).sections = document /\ Fails("ParseError").sections = <<>>
  BY DEF Parses, Fails
<1>5. ZeroPages(<<>>)
  BY DEF ZeroPages
<1> QED
  BY <1>1, <1>3, <1>4, <1>5

\* slides
LEMMA PptxPages ==
  ASSUME NEW content \in Contents
  PROVE  ZeroPages(ParsePptx(content).sections)
<1> DEFINE slides == Take(MaxSlides, content.parts)
           full == {i \in DOMAIN slides : Normalize(slides[i].text) # <<>>}
           section(i) ==
             Section(<<i - 1>>, Normalize(slides[i].text), "", 0, {<<"slide_number", i>>})
           all == [i \in DOMAIN slides |-> section(i)]
           document == Pick(all, full)
<1>1. ParsePptx(content) = IF full = {} THEN Fails("ParseError") ELSE Parses(document)
  BY DEF ParsePptx
<1>2. \A i : section(i).page = 0
  BY DEF Section
<1>3. slides \in Seq(Part)
  BY ContentsAre, TakeTexts, HandlersAssumption
<1>4. DOMAIN slides = 1 .. Len(slides) /\ Len(slides) \in Nat
  BY ONLY <1>3
<1> HIDE DEF section, slides
<1>5. full \in SUBSET (1 .. Len(slides))
  BY <1>4
<1>6. all = [k \in 1 .. Len(slides) |-> all[k]] /\ \A i \in 1 .. Len(slides) : all[i].page = 0
  BY <1>2, <1>4
<1> HIDE DEF all, full
<1>7. PickedFrom(document, all, full)
  BY <1>4, <1>5, <1>6, PickedSections
<1> HIDE DEF document
<1>8. ZeroPages(document)
  <2>1. PICK o : /\ Enumerates(o, Cardinality(full), full)
                 /\ DOMAIN document = 1 .. Cardinality(full)
                 /\ \A k \in DOMAIN document : document[k] = all[o[k]]
    BY <1>7 DEF PickedFrom
  <2>2. \A k \in DOMAIN document : o[k] \in full
    BY <2>1 DEF Enumerates
  <2> QED
    BY SMTT(40), <1>5, <1>6, <2>1, <2>2 DEF ZeroPages
<1>9. Parses(document).sections = document /\ Fails("ParseError").sections = <<>>
  BY DEF Parses, Fails
<1>10. ZeroPages(<<>>)
  BY DEF ZeroPages
<1> QED
  BY <1>1, <1>8, <1>9, <1>10

\* and archives.
LEMMA ZipPages ==
  ASSUME NEW content
  PROVE  ZeroPages(ParseZip(content).sections)
<1> DEFINE parts == IF content.kind = "zip" THEN content.parts
                    ELSE <<[tag |-> "file", text |-> <<Line(Entry)>>]>>
           names == Tagged(parts, "file")
           listing == Section(<<"archive">>, FlattenSeq(TextsOf(parts, names)), "", 0,
                              {<<"archive_listing", TRUE>>})
           document == <<listing>>
<1>1. ParseZip(content) \in {Fails("SourceTooLarge"), Fails("ParseError"), Parses(document)}
  BY DEF ParseZip
<1>2. listing.page = 0
  BY DEF Section
<1> HIDE DEF listing
<1>3. ZeroPages(document)
  BY <1>2 DEF ZeroPages
<1> HIDE DEF document
<1>4. /\ Parses(document).sections = document
      /\ Fails("ParseError").sections = <<>> /\ Fails("SourceTooLarge").sections = <<>>
  BY DEF Parses, Fails
<1>5. ZeroPages(<<>>)
  BY DEF ZeroPages
<1> QED
  BY <1>1, <1>3, <1>4, <1>5

\* A file without pages.
LEMMA NoPages ==
  ASSUME NEW content, PageTexts(content) = {}, NEW document, ZeroPages(document)
  PROVE  PagesOfFile(document, content)
BY FS_EmptySet DEF PagesOfFile, PageLike, ZeroPages

\* Only PDF and DOCX have pages.
LEMMA FewPages ==
  ASSUME NEW content, content.kind \notin {"pdf", "docx"}
  PROVE  PageTexts(content) = {}
BY DEF PageTexts

\* The lines at the edges of a text of a file.
LEMMA EdgesAre ==
  ASSUME NEW text \in SourceText
  PROVE  \A line \in AtEdge(text) : \E f \in Fragment : line = Line(f)
<1> DEFINE L == {Blank} \cup {Line(f) : f \in Fragment}
<1>1. text \in Seq(L)
  BY DEF SourceText
<1>2. \A x \in L : x = Blank \/ \E f \in Fragment : x = Line(f)
  OBVIOUS
<1> HIDE DEF L
<1>3. \A i \in DOMAIN text : text[i] \in L
  BY <1>1
<1> SUFFICES ASSUME NEW line \in AtEdge(text) PROVE \E f \in Fragment : line = Line(f)
  OBVIOUS
<1>4. \E i \in Lines(text) : line = text[i]
  BY AtEdgeIs
<1>5. PICK i \in DOMAIN text : line = text[i] /\ text[i] # Blank
  BY <1>4 DEF Lines
<1> QED
  BY <1>2, <1>3, <1>5

-----------------------------------------------------------------------------
(* The pages of a PDF.                                                     *)

\* The part of each page.
PartsOf(pages, parts, n) ==
  /\ Len(pages) \in Nat /\ DOMAIN pages = 1 .. Len(pages)
  /\ \A i \in DOMAIN pages : i \in Earliest(n, DOMAIN parts) /\ pages[i] = parts[i]

\* The first parts are the earliest.
LEMMA TakeEarliest ==
  ASSUME NEW T, NEW parts \in Seq(T), NEW n \in Nat
  PROVE  PartsOf(Take(n, parts), parts, n)
<1> DEFINE b == IF Len(parts) < n THEN Len(parts) ELSE n
<1>1. Take(n, parts) = SubSeq(parts, 1, b)
  BY DEF Take
<1>2. b \in Nat /\ b <= n /\ b <= Len(parts) /\ Len(parts) \in Nat /\ DOMAIN parts = 1 .. Len(parts)
  OBVIOUS
<1> HIDE DEF b
<1>3. /\ Len(Take(n, parts)) = b /\ DOMAIN Take(n, parts) = 1 .. b
      /\ \A i \in 1 .. b : Take(n, parts)[i] = parts[i]
  BY <1>1, <1>2
<1>4. ASSUME NEW i \in 1 .. b
      PROVE  i \in Earliest(n, DOMAIN parts)
  <2>1. {j \in DOMAIN parts : j <= i} = 1 .. i
    BY <1>2
  <2>2. Cardinality(1 .. i) = i
    <3>1. 1 \in Int /\ i \in Int /\ i >= 1
      BY <1>2
    <3> QED
      BY <3>1, FS_Interval
  <2>3. i <= n /\ i \in DOMAIN parts
    BY <1>2
  <2> QED
    BY <2>1, <2>2, <2>3 DEF Earliest
<1> QED
  BY <1>2, <1>3, <1>4 DEF PartsOf

\* A finite set of pages.
LEMMA FinitePages ==
  ASSUME NEW S, IsFiniteSet(S), NEW pages, NEW f, f = [i \in S |-> f[i]],
         \A page \in pages : \E i \in S : f[i] = page, \A i \in S : f[i] \in pages
  PROVE  IsFiniteSet(pages)
<1>1. f \in Surjection(S, pages)
  BY DEF Surjection
<1> QED
  BY <1>1, FS_Surjection

\* The text of a part of a file, as it stands there.
LEMMA SourceLines ==
  ASSUME NEW content \in Contents, NEW i \in DOMAIN content.parts
  PROVE  content.parts[i].text \in SourceText
<1>1. content.parts \in Seq(SourcePart)
  BY ContentsAre
<1>2. content.parts[i] \in SourcePart
  BY <1>1
<1> QED
  BY <1>2 DEF SourcePart

\* A section is one page of the PDF.
LEMMA PdfPages ==
  ASSUME NEW content \in Contents, content.kind = "pdf"
  PROVE  PagesOfFile(ParsePdf(content).sections, content)
<1> DEFINE parts == content.parts
           pages == Take(MaxPages, parts)
           full == {i \in DOMAIN pages : Normalize(pages[i].text) # <<>>}
           section(i) == Section(<<i - 1>>, Normalize(pages[i].text), "", i, {})
           all == [i \in DOMAIN pages |-> section(i)]
           document == Pick(all, full)
           m == Len(pages)
<1>1. ParsePdf(content) = IF full = {} THEN Fails("NeedsDocling") ELSE Parses(document)
  BY DEF ParsePdf
<1>2. \A i : section(i).page = i /\ section(i).text = Normalize(pages[i].text)
  BY DEF Section
<1>3. parts \in Seq(Part) /\ MaxPages \in Nat
  BY ContentsAre, HandlersAssumption
<1>4. PartsOf(pages, parts, MaxPages)
  BY <1>3, TakeEarliest
<1>5. Read(content) = Earliest(MaxPages, DOMAIN parts)
  BY DEF Read, Earliest
<1>6. PageTexts(content) = {<<i, parts[i].text>> : i \in Read(content)}
  BY DEF PageTexts
<1>7. IsFiniteSet(PageTexts(content))
  <2> DEFINE f == [i \in Read(content) |-> <<i, parts[i].text>>]
  <2>1. IsFiniteSet(Read(content))
    <3>1. DOMAIN parts = 1 .. Len(parts) /\ Len(parts) \in Nat
      BY <1>3
    <3>2. IsFiniteSet(DOMAIN parts)
      BY <3>1, FS_Interval
    <3>3. Read(content) \subseteq DOMAIN parts
      BY ReadIs
    <3> QED
      BY <3>2, <3>3, FS_Subset
  <2>2. f = [i \in Read(content) |-> f[i]] /\ \A i \in Read(content) : f[i] = <<i, parts[i].text>>
    OBVIOUS
  <2>3. /\ \A page \in PageTexts(content) : \E i \in Read(content) : f[i] = page
        /\ \A i \in Read(content) : f[i] \in PageTexts(content)
    BY <1>6, <2>2
  <2> HIDE DEF f
  <2> QED
    BY <2>1, <2>2, <2>3, FinitePages
<1> HIDE DEF section, pages, parts
<1>8. /\ m \in Nat /\ DOMAIN pages = 1 .. m
      /\ \A i \in 1 .. m : i \in Read(content) /\ pages[i] = parts[i]
  BY <1>4, <1>5 DEF PartsOf
<1>9. /\ all = [i \in 1 .. m |-> all[i]]
      /\ \A i \in 1 .. m : all[i].page = i /\ all[i].text = Normalize(parts[i].text)
  BY <1>2, <1>8
<1>10. full \in SUBSET (1 .. m)
  BY <1>8
<1> HIDE DEF all, full, m
<1>11. ASSUME NEW i \in 1 .. m
       PROVE  PageLike(all[i], content)
  <2>1. <<i, parts[i].text>> \in PageTexts(content)
    BY <1>6, <1>8
  <2>2. parts[i].text \in SourceText
    BY <1>8, ReadIs, SourceLines DEF parts
  <2>3. AtEdge(Normalize(parts[i].text)) \subseteq AtEdge(parts[i].text)
    BY <2>2, SourceTextIs, AtEdgeNormalized
  <2>4. \A line \in AtEdge(parts[i].text) : \E f \in Fragment : line = Line(f)
    BY <2>2, EdgesAre
  <2> QED
    BY <1>9, <2>1, <2>3, <2>4 DEF PageLike
<1>12. PickedFrom(document, all, full)
  BY <1>8, <1>9, <1>10, PickedSections
<1> HIDE DEF document
<1>13. PagesOfFile(document, content)
  <2>1. PICK o : /\ Enumerates(o, Cardinality(full), full)
                 /\ DOMAIN document = 1 .. Cardinality(full)
                 /\ \A k \in DOMAIN document : document[k] = all[o[k]]
    BY <1>12 DEF PickedFrom
  <2>2. \A k \in DOMAIN document : o[k] \in 1 .. m
    BY <1>10, <2>1 DEF Enumerates
  <2>3. \A h, k \in DOMAIN document : o[h] = o[k] => h = k
    <3>1. \A h, k \in DOMAIN document : h < k => o[h] < o[k]
      BY <2>1 DEF Enumerates
    <3>2. Cardinality(full) \in Nat
      BY <2>1 DEF Enumerates
    <3> QED
      BY <2>1, <2>2, <3>1, <3>2
  <2>4. \A k \in DOMAIN document : document[k].page = o[k] /\ PageLike(document[k], content)
    BY <1>9, <1>11, <2>1, <2>2
  <2> QED
    BY <1>7, <2>3, <2>4 DEF PagesOfFile
<1>14. PagesOfFile(<<>>, content)
  BY <1>7 DEF PagesOfFile
<1>15. Parses(document).sections = document /\ Fails("NeedsDocling").sections = <<>>
  BY DEF Parses, Fails
<1> QED
  BY <1>1, <1>13, <1>14, <1>15

-----------------------------------------------------------------------------
(* The pages of a DOCX.                                                    *)

\* A concatenation has the elements of both.
LEMMA ConcatElements ==
  ASSUME NEW m \in Nat, NEW n \in Nat, NEW a, a = [k \in 1 .. m |-> a[k]],
         NEW b, b = [k \in 1 .. n |-> b[k]]
  PROVE  /\ DOMAIN (a \o b) = 1 .. m + n
         /\ \A k \in 1 .. m + n : /\ k \in 1 .. m => (a \o b)[k] = a[k]
                                  /\ k \notin 1 .. m => k - m \in 1 .. n /\ (a \o b)[k] = b[k - m]
<1> DEFINE T == {a[k] : k \in 1 .. m} \cup {b[k] : k \in 1 .. n}
<1>1. (\A k \in 1 .. m : a[k] \in T) /\ (\A k \in 1 .. n : b[k] \in T)
  OBVIOUS
<1> HIDE DEF T
<1>2. a \in Seq(T) /\ Len(a) = m
  BY <1>1, SequenceIs
<1>3. b \in Seq(T) /\ Len(b) = n
  BY <1>1, SequenceIs
<1> QED
  BY <1>2, <1>3

\* Texts of a file one below the other.
LEMMA BelowLines ==
  ASSUME NEW content \in Contents, NEW K \in SUBSET (DOMAIN content.parts)
  PROVE  Below(TextsOf(content.parts, K)) \in SourceText
<1> DEFINE parts == content.parts
           L == {Blank} \cup {Line(f) : f \in Fragment}
           V == Seq(L)
           xs == PartTexts(parts)
           texts == TextsOf(parts, K)
           part(k) == IF k = 1 THEN texts[k] ELSE <<Blank>> \o texts[k]
           all == [k \in DOMAIN texts |-> part(k)]
<1>1. parts \in Seq(Part) /\ \A i \in DOMAIN parts : parts[i].text \in V
  BY ContentsAre, SourceLines DEF SourceText
<1>2. Blank \in L
  OBVIOUS
<1> HIDE DEF L, parts
<1>3. xs \in Seq(V)
  <2>1. Len(parts) \in Nat /\ DOMAIN parts = 1 .. Len(parts)
    BY <1>1
  <2>2. xs = [k \in 1 .. Len(parts) |-> xs[k]] /\ \A k \in 1 .. Len(parts) : xs[k] \in V
    BY <1>1, <2>1 DEF PartTexts
  <2> HIDE DEF xs, V
  <2> QED
    BY <2>1, <2>2, SequenceIs
<1>4. K \in SUBSET (DOMAIN xs) /\ texts = Pick(xs, K)
  <2>1. K \in SUBSET (DOMAIN parts)
    BY DEF parts
  <2>2. texts = Pick(xs, K)
    BY <1>1, <2>1, TextsOfPicked
  <2> QED
    BY <2>1, <2>2 DEF PartTexts
<1> HIDE DEF xs, texts
<1>5. texts \in Seq(V)
  <2> HIDE DEF V
  <2>1. PICK o : Enumerates(o, Cardinality(K), K)
    BY <1>3, <1>4, Enumerated
  <2> QED
    BY <1>3, <1>4, <2>1, PickBy
<1>6. \A k \in DOMAIN texts : part(k) \in V
  <2> TAKE k \in DOMAIN texts
  <2>1. texts[k] \in Seq(L)
    BY <1>5
  <2>2. <<Blank>> \o texts[k] \in Seq(L)
    BY <1>2, <2>1
  <2> QED
    BY <2>1, <2>2
<1>7. Below(texts) = FlattenSeq(all)
  BY DEF Below
<1> HIDE DEF part
<1>8. all \in Seq(V)
  <2>1. Len(texts) \in Nat /\ DOMAIN texts = 1 .. Len(texts)
    BY <1>5
  <2>2. all = [k \in 1 .. Len(texts) |-> all[k]] /\ \A k \in 1 .. Len(texts) : all[k] \in V
    BY <1>6, <2>1
  <2> HIDE DEF all, V
  <2> QED
    BY <2>1, <2>2, SequenceIs
<1> HIDE DEF all
<1>9. Below(texts) \in V
  BY <1>7, <1>8, FlattenIs
<1> QED
  BY <1>9 DEF SourceText, L, texts, parts

-----------------------------------------------------------------------------
\* The page of a paragraph is one more than the breaks up to it, itself being none.
LEMMA PageCounted ==
  ASSUME NEW parts \in Seq(Part), NEW i \in Tagged(parts, "paragraph")
  PROVE  1 + Count(parts, "break", 1, i) = PageOf(Tagged(parts, "break"), i)
<1>1. /\ DOMAIN parts = 1 .. Len(parts) /\ Len(parts) \in Nat /\ i \in DOMAIN parts
      /\ parts[i].tag = "paragraph"
  BY DEF Tagged
<1>2. {j \in 1 .. i : parts[j].tag = "break"} = {j \in Tagged(parts, "break") : j < i}
  <2>1. \A j \in 1 .. i : parts[j].tag = "break" => j \in Tagged(parts, "break") /\ j < i
    BY <1>1 DEF Tagged
  <2>2. \A j \in Tagged(parts, "break") : j < i => j \in 1 .. i /\ parts[j].tag = "break"
    BY <1>1 DEF Tagged
  <2> QED
    BY <2>1, <2>2
<1> QED
  BY <1>2 DEF Count, PageOf

\* The pages of a DOCX, by the breaks.
WrittenParts(parts) == {i \in Tagged(parts, "paragraph") : parts[i].text # <<>>}
PageNumbers(parts) == {PageOf(Tagged(parts, "break"), i) : i \in WrittenParts(parts)}
OnPage(parts, number) == {i \in WrittenParts(parts) : PageOf(Tagged(parts, "break"), i) = number}

\* PageTexts says the same of them.
LEMMA DocxPageTexts ==
  ASSUME NEW content \in Contents, content.kind = "docx", Tagged(content.parts, "break") # {}
  PROVE  PageTexts(content) =
           {<<n, Below(TextsOf(content.parts, OnPage(content.parts, n)))>> :
              n \in PageNumbers(content.parts)}
<1> DEFINE parts == content.parts
           page(i) == 1 + Count(parts, "break", 1, i)
           written == {i \in Tagged(parts, "paragraph") : parts[i].text # <<>>}
<1>1. PageTexts(content) =
        {<<n, Below(TextsOf(parts, {i \in written : page(i) = n}))>> : n \in {page(i) : i \in written}}
  BY DEF PageTexts
<1>2. parts \in Seq(Part)
  BY ContentsAre
<1>3. \A i \in written : page(i) = PageOf(Tagged(parts, "break"), i)
  BY <1>2, PageCounted
<1>4. written = WrittenParts(parts)
  BY DEF WrittenParts
<1> HIDE DEF parts, page, written
<1>5. {page(i) : i \in written} = PageNumbers(parts)
  BY <1>3, <1>4 DEF PageNumbers
<1> DEFINE on(n) == {i \in written : page(i) = n}
           numbers == {page(i) : i \in written}
<1>6. \A n : on(n) = OnPage(parts, n)
  BY <1>3, <1>4 DEF OnPage
<1>7. PageTexts(content) = {<<n, Below(TextsOf(parts, on(n)))>> : n \in numbers}
  BY <1>1
<1>8. numbers = PageNumbers(parts)
  BY <1>5
<1> HIDE DEF on, numbers
<1> QED
  BY <1>6, <1>7, <1>8 DEF parts

\* There are finitely many.
LEMMA DocxPagesFinite ==
  ASSUME NEW content \in Contents, content.kind = "docx"
  PROVE  IsFiniteSet(PageTexts(content))
<1> DEFINE parts == content.parts
           breaks == Tagged(parts, "break")
           written == WrittenParts(parts)
           S == PageNumbers(parts)
<1>1. CASE breaks = {}
  <2>1. PageTexts(content) = {}
    BY <1>1 DEF PageTexts
  <2> QED
    BY <2>1, FS_EmptySet
<1>2. CASE breaks # {}
  <2> DEFINE f == [n \in S |-> <<n, Below(TextsOf(parts, OnPage(parts, n)))>>]
  <2>1. PageTexts(content) = {<<n, Below(TextsOf(parts, OnPage(parts, n)))>> : n \in S}
    BY <1>2, DocxPageTexts
  <2>2. IsFiniteSet(S)
    <3>1. parts \in Seq(Part)
      BY ContentsAre
    <3>2. /\ Len(parts) \in Nat /\ breaks \in SUBSET (1 .. Len(parts))
          /\ written \in SUBSET (1 .. Len(parts))
      BY <3>1 DEF WrittenParts, Tagged
    <3> DEFINE numbers == InOrder({PageOf(breaks, i) : i \in written})
    <3>3. IsNumbers(numbers, breaks, written)
      BY DEF IsNumbers
    <3> HIDE DEF numbers, breaks, written
    <3>4. IsFiniteSet({PageOf(breaks, i) : i \in written})
      BY <3>2, <3>3, NumbersAre
    <3> QED
      BY <3>4 DEF PageNumbers, breaks, written
  <2>3. /\ f = [n \in S |-> f[n]]
        /\ \A page \in PageTexts(content) : \E n \in S : f[n] = page
        /\ \A n \in S : f[n] \in PageTexts(content)
    BY <2>1
  <2> HIDE DEF f, S
  <2> QED
    BY <2>2, <2>3, FinitePages
<1> QED
  BY <1>1, <1>2

\* A section is one page of the DOCX, or none.
LEMMA DocxPages ==
  ASSUME NEW content \in Contents, content.kind = "docx"
  PROVE  PagesOfFile(ParseDocx(content).sections, content)
<1> DEFINE parts == content.parts
           breaks == Tagged(parts, "break")
           rows == Tagged(parts, "row")
           written == {i \in Tagged(parts, "paragraph") : parts[i].text # <<>>}
           numbers == InOrder({PageOf(breaks, i) : i \in written})
           text(k) == Below(TextsOf(parts, {i \in written : PageOf(breaks, i) = numbers[k]}))
           section(k) ==
             Section(IF breaks = {} THEN <<"paragraphs">> ELSE <<"page", numbers[k]>>, text(k), "",
                     IF breaks = {} THEN 0 ELSE numbers[k], {})
           tables == Section(<<"tables">>, FlattenSeq(TextsOf(parts, rows)), "", 0, {})
           first == [k \in DOMAIN numbers |-> section(k)]
           last == IF rows = {} THEN <<>> ELSE <<tables>>
           document == first \o last
           blank == \A k \in DOMAIN document : Normalize(document[k].text) = <<>>
<1>1. ParseDocx(content) = IF blank THEN Fails("ParseError") ELSE Parses(document)
  BY DEF ParseDocx, PageOf
<1>2. \A k : section(k).page = (IF breaks = {} THEN 0 ELSE numbers[k]) /\ section(k).text = text(k)
  BY DEF Section
<1>3. tables.page = 0
  BY DEF Section
<1> HIDE DEF section, tables, blank
<1>4. \E n \in Nat : last = [k \in 1 .. n |-> last[k]] /\ \A k \in 1 .. n : last[k].page = 0
  <2>1. CASE rows = {}
    <3>1. last = [k \in 1 .. 0 |-> last[k]] /\ \A k \in 1 .. 0 : last[k].page = 0
      BY <2>1, NoTexts
    <3> QED
      BY <3>1
  <2>2. CASE rows # {}
    <3>1. last = <<tables>>
      BY <2>2
    <3>2. last = [k \in 1 .. 1 |-> last[k]] /\ \A k \in 1 .. 1 : last[k].page = 0
      BY <1>3, <3>1, SingleIs
    <3> QED
      BY <3>2
  <2> QED
    BY <2>1, <2>2
<1> HIDE DEF last
<1>5. PICK n \in Nat : last = [k \in 1 .. n |-> last[k]] /\ \A k \in 1 .. n : last[k].page = 0
  BY <1>4
<1>6. parts \in Seq(Part)
  BY ContentsAre
<1>7. written = WrittenParts(parts)
  BY DEF WrittenParts
<1> DEFINE m == Cardinality({PageOf(breaks, i) : i \in written})
<1>8. AreNumbers(numbers, m, breaks, written)
  <2>1. /\ Len(parts) \in Nat /\ breaks \in SUBSET (1 .. Len(parts))
        /\ written \in SUBSET (1 .. Len(parts))
    BY <1>6 DEF Tagged
  <2>2. IsNumbers(numbers, breaks, written)
    BY DEF IsNumbers
  <2> HIDE DEF numbers, breaks, written
  <2> QED
    BY <2>1, <2>2, NumbersAre
<1> HIDE DEF m, text
<1>9. /\ m \in Nat /\ DOMAIN numbers = 1 .. m
      /\ \A k \in 1 .. m : numbers[k] \in Nat /\ \E i \in written : numbers[k] = PageOf(breaks, i)
      /\ \A h, k \in 1 .. m : h < k => numbers[h] < numbers[k]
  <2> HIDE DEF numbers, breaks, written
  <2> QED
    BY <1>8 DEF AreNumbers
<1> HIDE DEF numbers
<1>10. first = [k \in 1 .. m |-> first[k]] /\ \A k \in 1 .. m : first[k] = section(k)
  BY <1>9
<1> HIDE DEF first
<1>11. /\ DOMAIN document = 1 .. m + n
       /\ \A k \in 1 .. m + n : /\ k \in 1 .. m => document[k] = first[k]
                                /\ k \notin 1 .. m => k - m \in 1 .. n /\ document[k] = last[k - m]
  BY <1>5, <1>9, <1>10, ConcatElements
<1> HIDE DEF document
<1>12. /\ \A k \in 1 .. m : document[k] = section(k)
       /\ \A k \in 1 .. m + n : k \notin 1 .. m => document[k].page = 0
  <2>1. \A k \in 1 .. m : k \in 1 .. m + n
    BY <1>5, <1>9
  <2> QED
    BY ZenonT(60), <1>5, <1>10, <1>11, <2>1
<1>13. IsFiniteSet(PageTexts(content))
  BY DocxPagesFinite
<1>14. PagesOfFile(document, content)
  <2>1. CASE breaks = {}
    <3>1. PageTexts(content) = {}
      BY <2>1 DEF PageTexts
    <3>2. ZeroPages(document)
      BY <1>2, <1>11, <1>12, <2>1 DEF ZeroPages
    <3> QED
      BY <3>1, <3>2, NoPages
  <2>2. CASE breaks # {}
    <3>1. \A k \in 1 .. m : document[k].page = numbers[k]
      BY <1>2, <1>12, <2>2
    <3>2. ASSUME NEW k \in 1 .. m
          PROVE  PageLike(document[k], content)
      <4> DEFINE t == Below(TextsOf(parts, OnPage(parts, numbers[k])))
      <4>1. numbers[k] \in PageNumbers(parts)
        BY <1>7, <1>9 DEF PageNumbers
      <4>2. <<numbers[k], t>> \in PageTexts(content)
        BY <2>2, <4>1, DocxPageTexts
      <4>3. document[k].text = t
        BY <1>2, <1>7, <1>12 DEF text, OnPage
      <4>4. t \in SourceText
        <5>1. OnPage(parts, numbers[k]) \in SUBSET (DOMAIN content.parts)
          BY DEF OnPage, WrittenParts, Tagged
        <5> QED
          BY <5>1, BelowLines
      <4> HIDE DEF t
      <4>5. \A line \in AtEdge(t) : \E f \in Fragment : line = Line(f)
        BY <4>4, EdgesAre
      <4> QED
        BY <3>1, <4>2, <4>3, <4>5 DEF PageLike
    <3>3. \A k \in DOMAIN document : PageLike(document[k], content)
      <4>1. \A k \in DOMAIN document : k \notin 1 .. m => PageLike(document[k], content)
        BY <1>11, <1>12 DEF PageLike
      <4> QED
        BY <3>2, <4>1
    <3>4. \A h, k \in DOMAIN document :
            document[h].page # 0 /\ document[h].page = document[k].page => h = k
      <4> SUFFICES ASSUME NEW h \in DOMAIN document, NEW k \in DOMAIN document,
                          document[h].page # 0, document[h].page = document[k].page
                   PROVE  h = k
        OBVIOUS
      <4>1. h \in 1 .. m /\ k \in 1 .. m
        BY <1>11, <1>12
      <4>2. numbers[h] = numbers[k]
        BY <3>1, <4>1
      <4>3. ~ (h < k) /\ ~ (k < h)
        BY <1>9, <4>1, <4>2
      <4> QED
        BY <1>9, <4>1, <4>3
    <3> QED
      BY <1>13, <3>3, <3>4 DEF PagesOfFile
  <2> QED
    BY <2>1, <2>2
<1>15. PagesOfFile(<<>>, content)
  BY <1>13 DEF PagesOfFile
<1>16. Parses(document).sections = document /\ Fails("ParseError").sections = <<>>
  BY DEF Parses, Fails
<1> QED
  BY <1>1, <1>14, <1>15, <1>16

\* Whatever the kind, sections with pages are those pages.
LEMMA ParsePages ==
  ASSUME NEW content \in Contents, NEW converted, Parse(content.kind, content, converted).error = ""
  PROVE  PagesOfFile(Parse(content.kind, content, converted).sections, content)
<1>1. content.kind \in TextKinds \cup BinaryKinds
  BY DEF Contents
<1>2. /\ content.kind = "text" => Parse(content.kind, content, converted) = ParseText(content)
      /\ content.kind = "markdown" => Parse(content.kind, content, converted) = ParseMarkdown(content)
      /\ content.kind = "html" => Parse(content.kind, content, converted) = ParseHtml(content)
      /\ content.kind = "csv" => Parse(content.kind, content, converted) = ParseCsv(content)
      /\ content.kind = "pdf" => Parse(content.kind, content, converted) = ParsePdf(content)
      /\ content.kind = "docx" => Parse(content.kind, content, converted) = ParseDocx(content)
      /\ content.kind = "pptx" => Parse(content.kind, content, converted) = ParsePptx(content)
      /\ content.kind = "xlsx" => Parse(content.kind, content, converted) = ParseXlsx(content)
      /\ content.kind = "zip" => Parse(content.kind, content, converted) = ParseZip(content)
  BY DEF Parse, CanOpen
<1>3. \/ content.kind = "text" \/ content.kind = "markdown" \/ content.kind = "html"
      \/ content.kind = "csv" \/ content.kind = "pdf" \/ content.kind = "docx"
      \/ content.kind = "pptx" \/ content.kind = "xlsx" \/ content.kind = "zip"
  BY <1>1 DEF TextKinds, BinaryKinds, Archives
<1>4. ZeroPages(ParseCsv(content).sections) /\ ZeroPages(ParseXlsx(content).sections)
  BY RowPages DEF ParseCsv, ParseXlsx
<1>5. content.kind \notin {"pdf", "docx"} => PageTexts(content) = {}
  BY FewPages
<1> QED
  BY <1>2, <1>3, <1>4, <1>5, NoPages, TextPages, MarkdownPages, HtmlPages, PdfPages, DocxPages,
     PptxPages, ZipPages

-----------------------------------------------------------------------------
(* Sums.                                                                   *)

\* The sums of the first numbers.
Sums(sum, ws) ==
  /\ sum \in [0 .. Len(ws) -> Nat]
  /\ sum[0] = 0
  /\ \A n \in 1 .. Len(ws) : sum[n] = sum[n - 1] + ws[n]

Plus == [p \in Nat \X Nat |-> p[1] + p[2]]

\* There are such sums.
LEMMA SumsExist ==
  ASSUME NEW ws \in Seq(Nat)
  PROVE  \E f : Sums(f, ws)
<1>1. Plus \in [Nat \X Nat -> Nat] /\ \A a, b \in Nat : Plus[<<a, b>>] = a + b
  BY DEF Plus
<1>2. PICK f : FoldBy(f, 0, Plus, ws, Nat)
  BY <1>1, FoldExists
<1>3. /\ f \in [0 .. Len(ws) -> Nat] /\ f[0] = 0
      /\ \A n \in 1 .. Len(ws) : f[n] = Plus[<<f[n - 1], ws[n]>>]
  BY <1>2 DEF FoldBy
<1>4. \A n \in 1 .. Len(ws) : n - 1 \in 0 .. Len(ws) /\ ws[n] \in Nat
  OBVIOUS
<1>5. \A n \in 1 .. Len(ws) : f[n] = f[n - 1] + ws[n]
  BY <1>1, <1>3, <1>4
<1> QED
  BY <1>3, <1>5 DEF Sums

\* What adds up numbers is such sums.
LEMMA SumsOnly ==
  ASSUME NEW ws \in Seq(Nat), NEW sum, sum = [n \in 0 .. Len(ws) |-> sum[n]], sum[0] = 0,
         \A n \in 1 .. Len(ws) : sum[n] = sum[n - 1] + ws[n]
  PROVE  Sums(sum, ws)
<1>1. Plus \in [Nat \X Nat -> Nat] /\ \A a, b \in Nat : Plus[<<a, b>>] = a + b
  BY DEF Plus
<1>2. \A n \in 1 .. Len(ws) : sum[n - 1] \in Nat => sum[n] = Plus[<<sum[n - 1], ws[n]>>]
  <2>1. \A n \in 1 .. Len(ws) : ws[n] \in Nat
    OBVIOUS
  <2> QED
    BY <1>1, <2>1
<1>3. FoldBy(sum, 0, Plus, ws, Nat)
  BY <1>1, <1>2, FoldTyped
<1> QED
  BY <1>3 DEF FoldBy, Sums

\* Less is added up to less.
LEMMA SumsOrder ==
  ASSUME NEW vs \in Seq(Nat), NEW ws \in Seq(Nat), Len(vs) = Len(ws),
         \A n \in 1 .. Len(ws) : vs[n] <= ws[n], NEW s, Sums(s, vs), NEW t, Sums(t, ws)
  PROVE  s[Len(vs)] <= t[Len(ws)]
<1> DEFINE K == {k \in Nat : k <= Len(ws) => s[k] <= t[k]}
<1>1. /\ Len(ws) \in Nat /\ \A n \in 1 .. Len(ws) : vs[n] \in Nat /\ ws[n] \in Nat
      /\ \A n \in 0 .. Len(ws) : s[n] \in Nat /\ t[n] \in Nat
      /\ s[0] = 0 /\ t[0] = 0
      /\ \A n \in 1 .. Len(ws) : s[n] = s[n - 1] + vs[n] /\ t[n] = t[n - 1] + ws[n]
  <2>1. Len(ws) \in Nat /\ \A n \in 1 .. Len(ws) : vs[n] \in Nat /\ ws[n] \in Nat
    OBVIOUS
  <2>2. /\ s \in [0 .. Len(ws) -> Nat] /\ s[0] = 0
        /\ \A n \in 1 .. Len(ws) : s[n] = s[n - 1] + vs[n]
    BY DEF Sums
  <2>3. /\ t \in [0 .. Len(ws) -> Nat] /\ t[0] = 0
        /\ \A n \in 1 .. Len(ws) : t[n] = t[n - 1] + ws[n]
    BY DEF Sums
  <2> QED
    BY <2>1, <2>2, <2>3
<1>2. 0 \in K
  BY <1>1
<1>3. ASSUME NEW k \in Nat, k \in K PROVE k + 1 \in K
  <2> SUFFICES ASSUME k + 1 <= Len(ws) PROVE s[k + 1] <= t[k + 1]
    OBVIOUS
  <2>1. k + 1 \in 1 .. Len(ws) /\ (k + 1) - 1 = k /\ k \in 0 .. Len(ws)
    BY <1>1
  <2>2. s[k] <= t[k] /\ vs[k + 1] <= ws[k + 1]
    BY <1>1, <1>3, <2>1
  <2>3. s[k + 1] = s[k] + vs[k + 1] /\ t[k + 1] = t[k] + ws[k + 1]
    BY <1>1, <2>1
  <2> QED
    BY SMTT(40), <1>1, <2>1, <2>2, <2>3
<1>4. Nat \subseteq K
  <2> HIDE DEF K
  <2> QED
    BY <1>2, <1>3, NatInductionOnSet
<1> QED
  BY <1>1, <1>4

\* A sum is at least each of its numbers.
LEMMA SumsOver ==
  ASSUME NEW ws \in Seq(Nat), NEW s, Sums(s, ws), NEW n \in 1 .. Len(ws)
  PROVE  ws[n] <= s[Len(ws)]
<1> DEFINE K == {k \in Nat : n + k <= Len(ws) => ws[n] <= s[n + k]}
<1>1. /\ Len(ws) \in Nat /\ n \in Nat /\ \A i \in 1 .. Len(ws) : ws[i] \in Nat
      /\ \A i \in 0 .. Len(ws) : s[i] \in Nat
      /\ \A i \in 1 .. Len(ws) : s[i] = s[i - 1] + ws[i]
  <2>1. Len(ws) \in Nat /\ n \in Nat /\ \A i \in 1 .. Len(ws) : ws[i] \in Nat
    OBVIOUS
  <2>2. /\ s \in [0 .. Len(ws) -> Nat]
        /\ \A i \in 1 .. Len(ws) : s[i] = s[i - 1] + ws[i]
    BY DEF Sums
  <2> QED
    BY <2>1, <2>2
<1>2. 0 \in K
  <2>1. n + 0 = n /\ n - 1 \in 0 .. Len(ws) /\ s[n] = s[n - 1] + ws[n]
    BY <1>1
  <2>2. s[n - 1] \in Nat /\ ws[n] \in Nat
    BY <1>1, <2>1
  <2> QED
    BY <2>1, <2>2
<1>3. ASSUME NEW k \in Nat, k \in K PROVE k + 1 \in K
  <2> SUFFICES ASSUME n + (k + 1) <= Len(ws) PROVE ws[n] <= s[n + (k + 1)]
    OBVIOUS
  <2>1. /\ n + (k + 1) \in 1 .. Len(ws) /\ (n + (k + 1)) - 1 = n + k
        /\ n + k \in 0 .. Len(ws) /\ n + k <= Len(ws)
    BY <1>1
  <2>2. s[n + (k + 1)] = s[n + k] + ws[n + (k + 1)]
    BY <1>1, <2>1
  <2>3. ws[n] <= s[n + k]
    BY <1>3, <2>1
  <2>4. ws[n + (k + 1)] \in Nat /\ s[n + k] \in Nat /\ ws[n] \in Nat
    BY <1>1, <2>1
  <2> QED
    BY <2>2, <2>3, <2>4
<1>4. Nat \subseteq K
  <2> HIDE DEF K
  <2> QED
    BY <1>2, <1>3, NatInductionOnSet
<1> DEFINE k == Len(ws) - n
<1>5. k \in Nat /\ n + k = Len(ws)
  BY <1>1
<1>6. k \in K
  BY <1>4, <1>5
<1> HIDE DEF k
<1>7. n + k <= Len(ws) => ws[n] <= s[n + k]
  BY <1>6
<1>8. n + k <= Len(ws)
  BY <1>1, <1>5
<1>9. ws[n] <= s[n + k]
  BY <1>7, <1>8
<1> QED
  BY <1>5, <1>9

\* A sum of zeros.
LEMMA SumsZero ==
  ASSUME NEW ws \in Seq(Nat), NEW s, Sums(s, ws), \A n \in 1 .. Len(ws) : ws[n] = 0
  PROVE  s[Len(ws)] = 0
<1> DEFINE t == [n \in 0 .. Len(ws) |-> 0]
<1>1. Sums(t, ws)
  BY DEF Sums
<1>2. \A n \in 1 .. Len(ws) : ws[n] <= ws[n]
  OBVIOUS
<1> HIDE DEF t
<1>3. s[Len(ws)] <= t[Len(ws)]
  BY <1>1, <1>2, SumsOrder
<1>4. t[Len(ws)] = 0 /\ s[Len(ws)] \in Nat
  BY DEF Sums, t
<1> QED
  BY <1>3, <1>4

-----------------------------------------------------------------------------
(* What the fragments of a text add up to.                                 *)

\* Characters but blanks,
VisibleOf(fragments) == [n \in DOMAIN fragments |-> Shape[fragments[n]].visible]

\* Total is their sum;
LEMMA VisibleTotal ==
  ASSUME NEW fragments \in Seq(Fragment)
  PROVE  /\ VisibleOf(fragments) \in Seq(Nat) /\ Len(VisibleOf(fragments)) = Len(fragments)
         /\ \E s : /\ Sums(s, VisibleOf(fragments))
                  /\ Total(fragments, LAMBDA shape : shape.visible) = s[Len(fragments)]
<1> DEFINE ws == VisibleOf(fragments)
           step(f, n) == IF n = 0 THEN 0 ELSE f[n - 1] + Shape[fragments[n]].visible
           sum == CHOOSE f : f = [n \in 0 .. Len(fragments) |-> step(f, n)]
<1>1. Total(fragments, LAMBDA shape : shape.visible) = sum[Len(fragments)]
  BY Zenon DEF Total
<1>2. Len(fragments) \in Nat /\ DOMAIN fragments = 1 .. Len(fragments)
  OBVIOUS
<1>3. \A n \in 1 .. Len(fragments) : Shape[fragments[n]].visible \in Nat
  <2>1. \A n \in 1 .. Len(fragments) : fragments[n] \in Fragment
    OBVIOUS
  <2> QED
    BY <2>1, TextsAssumption
<1>4. /\ ws = [n \in 1 .. Len(fragments) |-> ws[n]]
      /\ \A n \in 1 .. Len(fragments) : ws[n] \in Nat /\ ws[n] = Shape[fragments[n]].visible
  BY <1>2, <1>3 DEF VisibleOf
<1> HIDE DEF ws
<1>5. ws \in Seq(Nat) /\ Len(ws) = Len(fragments)
  BY <1>2, <1>4, SequenceIs
<1>6. PICK f : Sums(f, ws)
  BY <1>5, SumsExist
<1>7. f = [n \in 0 .. Len(fragments) |-> step(f, n)]
  <2>1. \A n \in 0 .. Len(fragments) : f[n] = step(f, n)
    BY <1>2, <1>4, <1>5, <1>6 DEF Sums
  <2>2. f = [n \in 0 .. Len(fragments) |-> f[n]]
    BY <1>5, <1>6 DEF Sums
  <2> HIDE DEF step
  <2> QED
    BY <2>1, <2>2
<1>8. sum = [n \in 0 .. Len(fragments) |-> step(sum, n)]
  <2> HIDE DEF step
  <2> QED
    BY <1>7
<1> HIDE DEF sum
<1>9. /\ sum = [n \in 0 .. Len(fragments) |-> sum[n]]
      /\ \A n \in 0 .. Len(fragments) : sum[n] = step(sum, n)
  <2> HIDE DEF step
  <2> QED
    BY <1>8
<1>10. sum[0] = 0 /\ \A n \in 1 .. Len(fragments) : sum[n] = sum[n - 1] + ws[n]
  <2>1. 0 \in 0 .. Len(fragments)
    BY <1>2
  <2>2. \A n \in 1 .. Len(fragments) : n \in 0 .. Len(fragments) /\ n # 0
    BY <1>2
  <2> QED
    BY <1>4, <1>9, <2>1, <2>2
<1>11. Sums(sum, ws)
  BY <1>5, <1>9, <1>10, SumsOnly
<1> QED
  BY <1>1, <1>5, <1>11 DEF ws

\* punctuation,
SymbolsOf(fragments) == [n \in DOMAIN fragments |-> Shape[fragments[n]].symbols]

\* Total is their sum;
LEMMA SymbolsTotal ==
  ASSUME NEW fragments \in Seq(Fragment)
  PROVE  /\ SymbolsOf(fragments) \in Seq(Nat) /\ Len(SymbolsOf(fragments)) = Len(fragments)
         /\ \E s : /\ Sums(s, SymbolsOf(fragments))
                  /\ Total(fragments, LAMBDA shape : shape.symbols) = s[Len(fragments)]
<1> DEFINE ws == SymbolsOf(fragments)
           step(f, n) == IF n = 0 THEN 0 ELSE f[n - 1] + Shape[fragments[n]].symbols
           sum == CHOOSE f : f = [n \in 0 .. Len(fragments) |-> step(f, n)]
<1>1. Total(fragments, LAMBDA shape : shape.symbols) = sum[Len(fragments)]
  BY Zenon DEF Total
<1>2. Len(fragments) \in Nat /\ DOMAIN fragments = 1 .. Len(fragments)
  OBVIOUS
<1>3. \A n \in 1 .. Len(fragments) : Shape[fragments[n]].symbols \in Nat
  <2>1. \A n \in 1 .. Len(fragments) : fragments[n] \in Fragment
    OBVIOUS
  <2> QED
    BY <2>1, TextsAssumption
<1>4. /\ ws = [n \in 1 .. Len(fragments) |-> ws[n]]
      /\ \A n \in 1 .. Len(fragments) : ws[n] \in Nat /\ ws[n] = Shape[fragments[n]].symbols
  BY <1>2, <1>3 DEF SymbolsOf
<1> HIDE DEF ws
<1>5. ws \in Seq(Nat) /\ Len(ws) = Len(fragments)
  BY <1>2, <1>4, SequenceIs
<1>6. PICK f : Sums(f, ws)
  BY <1>5, SumsExist
<1>7. f = [n \in 0 .. Len(fragments) |-> step(f, n)]
  <2>1. \A n \in 0 .. Len(fragments) : f[n] = step(f, n)
    BY <1>2, <1>4, <1>5, <1>6 DEF Sums
  <2>2. f = [n \in 0 .. Len(fragments) |-> f[n]]
    BY <1>5, <1>6 DEF Sums
  <2> HIDE DEF step
  <2> QED
    BY <2>1, <2>2
<1>8. sum = [n \in 0 .. Len(fragments) |-> step(sum, n)]
  <2> HIDE DEF step
  <2> QED
    BY <1>7
<1> HIDE DEF sum
<1>9. /\ sum = [n \in 0 .. Len(fragments) |-> sum[n]]
      /\ \A n \in 0 .. Len(fragments) : sum[n] = step(sum, n)
  <2> HIDE DEF step
  <2> QED
    BY <1>8
<1>10. sum[0] = 0 /\ \A n \in 1 .. Len(fragments) : sum[n] = sum[n - 1] + ws[n]
  <2>1. 0 \in 0 .. Len(fragments)
    BY <1>2
  <2>2. \A n \in 1 .. Len(fragments) : n \in 0 .. Len(fragments) /\ n # 0
    BY <1>2
  <2> QED
    BY <1>4, <1>9, <2>1, <2>2
<1>11. Sums(sum, ws)
  BY <1>5, <1>9, <1>10, SumsOnly
<1> QED
  BY <1>1, <1>5, <1>11 DEF ws

\* letters and digits,
AlnumOf(fragments) == [n \in DOMAIN fragments |-> Shape[fragments[n]].alnum]

\* Total is their sum;
LEMMA AlnumTotal ==
  ASSUME NEW fragments \in Seq(Fragment)
  PROVE  /\ AlnumOf(fragments) \in Seq(Nat) /\ Len(AlnumOf(fragments)) = Len(fragments)
         /\ \E s : /\ Sums(s, AlnumOf(fragments))
                  /\ Total(fragments, LAMBDA shape : shape.alnum) = s[Len(fragments)]
<1> DEFINE ws == AlnumOf(fragments)
           step(f, n) == IF n = 0 THEN 0 ELSE f[n - 1] + Shape[fragments[n]].alnum
           sum == CHOOSE f : f = [n \in 0 .. Len(fragments) |-> step(f, n)]
<1>1. Total(fragments, LAMBDA shape : shape.alnum) = sum[Len(fragments)]
  BY Zenon DEF Total
<1>2. Len(fragments) \in Nat /\ DOMAIN fragments = 1 .. Len(fragments)
  OBVIOUS
<1>3. \A n \in 1 .. Len(fragments) : Shape[fragments[n]].alnum \in Nat
  <2>1. \A n \in 1 .. Len(fragments) : fragments[n] \in Fragment
    OBVIOUS
  <2> QED
    BY <2>1, TextsAssumption
<1>4. /\ ws = [n \in 1 .. Len(fragments) |-> ws[n]]
      /\ \A n \in 1 .. Len(fragments) : ws[n] \in Nat /\ ws[n] = Shape[fragments[n]].alnum
  BY <1>2, <1>3 DEF AlnumOf
<1> HIDE DEF ws
<1>5. ws \in Seq(Nat) /\ Len(ws) = Len(fragments)
  BY <1>2, <1>4, SequenceIs
<1>6. PICK f : Sums(f, ws)
  BY <1>5, SumsExist
<1>7. f = [n \in 0 .. Len(fragments) |-> step(f, n)]
  <2>1. \A n \in 0 .. Len(fragments) : f[n] = step(f, n)
    BY <1>2, <1>4, <1>5, <1>6 DEF Sums
  <2>2. f = [n \in 0 .. Len(fragments) |-> f[n]]
    BY <1>5, <1>6 DEF Sums
  <2> HIDE DEF step
  <2> QED
    BY <2>1, <2>2
<1>8. sum = [n \in 0 .. Len(fragments) |-> step(sum, n)]
  <2> HIDE DEF step
  <2> QED
    BY <1>7
<1> HIDE DEF sum
<1>9. /\ sum = [n \in 0 .. Len(fragments) |-> sum[n]]
      /\ \A n \in 0 .. Len(fragments) : sum[n] = step(sum, n)
  <2> HIDE DEF step
  <2> QED
    BY <1>8
<1>10. sum[0] = 0 /\ \A n \in 1 .. Len(fragments) : sum[n] = sum[n - 1] + ws[n]
  <2>1. 0 \in 0 .. Len(fragments)
    BY <1>2
  <2>2. \A n \in 1 .. Len(fragments) : n \in 0 .. Len(fragments) /\ n # 0
    BY <1>2
  <2> QED
    BY <1>4, <1>9, <2>1, <2>2
<1>11. Sums(sum, ws)
  BY <1>5, <1>9, <1>10, SumsOnly
<1> QED
  BY <1>1, <1>5, <1>11 DEF ws

\* and all characters.
SizesOf(fragments) == [n \in DOMAIN fragments |-> Shape[fragments[n]].size]

\* Total is their sum.
LEMMA SizesTotal ==
  ASSUME NEW fragments \in Seq(Fragment)
  PROVE  /\ SizesOf(fragments) \in Seq(Nat) /\ Len(SizesOf(fragments)) = Len(fragments)
         /\ \E s : /\ Sums(s, SizesOf(fragments))
                  /\ Total(fragments, LAMBDA shape : shape.size) = s[Len(fragments)]
<1> DEFINE ws == SizesOf(fragments)
           step(f, n) == IF n = 0 THEN 0 ELSE f[n - 1] + Shape[fragments[n]].size
           sum == CHOOSE f : f = [n \in 0 .. Len(fragments) |-> step(f, n)]
<1>1. Total(fragments, LAMBDA shape : shape.size) = sum[Len(fragments)]
  BY Zenon DEF Total
<1>2. Len(fragments) \in Nat /\ DOMAIN fragments = 1 .. Len(fragments)
  OBVIOUS
<1>3. \A n \in 1 .. Len(fragments) : Shape[fragments[n]].size \in Nat
  <2>1. \A n \in 1 .. Len(fragments) : fragments[n] \in Fragment
    OBVIOUS
  <2> QED
    BY <2>1, TextsAssumption
<1>4. /\ ws = [n \in 1 .. Len(fragments) |-> ws[n]]
      /\ \A n \in 1 .. Len(fragments) : ws[n] \in Nat /\ ws[n] = Shape[fragments[n]].size
  BY <1>2, <1>3 DEF SizesOf
<1> HIDE DEF ws
<1>5. ws \in Seq(Nat) /\ Len(ws) = Len(fragments)
  BY <1>2, <1>4, SequenceIs
<1>6. PICK f : Sums(f, ws)
  BY <1>5, SumsExist
<1>7. f = [n \in 0 .. Len(fragments) |-> step(f, n)]
  <2>1. \A n \in 0 .. Len(fragments) : f[n] = step(f, n)
    BY <1>2, <1>4, <1>5, <1>6 DEF Sums
  <2>2. f = [n \in 0 .. Len(fragments) |-> f[n]]
    BY <1>5, <1>6 DEF Sums
  <2> HIDE DEF step
  <2> QED
    BY <2>1, <2>2
<1>8. sum = [n \in 0 .. Len(fragments) |-> step(sum, n)]
  <2> HIDE DEF step
  <2> QED
    BY <1>7
<1> HIDE DEF sum
<1>9. /\ sum = [n \in 0 .. Len(fragments) |-> sum[n]]
      /\ \A n \in 0 .. Len(fragments) : sum[n] = step(sum, n)
  <2> HIDE DEF step
  <2> QED
    BY <1>8
<1>10. sum[0] = 0 /\ \A n \in 1 .. Len(fragments) : sum[n] = sum[n - 1] + ws[n]
  <2>1. 0 \in 0 .. Len(fragments)
    BY <1>2
  <2>2. \A n \in 1 .. Len(fragments) : n \in 0 .. Len(fragments) /\ n # 0
    BY <1>2
  <2> QED
    BY <1>4, <1>9, <2>1, <2>2
<1>11. Sums(sum, ws)
  BY <1>5, <1>9, <1>10, SumsOnly
<1> QED
  BY <1>1, <1>5, <1>11 DEF ws

-----------------------------------------------------------------------------
\* A line with a fragment has a length.
LEMMA LengthAtLeast ==
  ASSUME NEW fragments \in Seq(Fragment), fragments # <<>>
  PROVE  Length(fragments) \in Nat /\ Length(fragments) >= 1
<1> DEFINE ws == SizesOf(fragments)
           total == Total(fragments, LAMBDA shape : shape.size)
<1>1. Length(fragments) = total + Len(fragments) - 1
  BY Zenon DEF Length
<1>2. Len(fragments) \in Nat /\ Len(fragments) >= 1 /\ DOMAIN fragments = 1 .. Len(fragments)
  OBVIOUS
<1>3. PICK s : Sums(s, ws) /\ total = s[Len(fragments)]
  BY SizesTotal
<1>4. ws \in Seq(Nat) /\ Len(ws) = Len(fragments)
  BY SizesTotal
<1> HIDE DEF total
<1>5. ws[1] \in Nat \ {0}
  <2>1. 1 \in DOMAIN fragments /\ fragments[1] \in Fragment
    BY <1>2
  <2>2. Shape[fragments[1]].size \in Nat \ {0}
    BY <2>1, TextsAssumption
  <2> QED
    BY <2>1, <2>2 DEF SizesOf
<1> HIDE DEF ws
<1>6. ws[1] <= s[Len(ws)]
  <2>1. 1 \in 1 .. Len(ws)
    BY <1>2, <1>4
  <2> QED
    BY <1>3, <1>4, <2>1, SumsOver
<1>7. s[Len(ws)] \in Nat
  BY <1>2, <1>3, <1>4 DEF Sums
<1> QED
  BY <1>1, <1>2, <1>3, <1>4, <1>5, <1>6, <1>7

\* The lengths of lines.
LengthsOf(text) == [i \in DOMAIN text |-> Length(text[i])]

\* TextLength is their sum, and the line ends between them.
LEMMA LengthsTotal ==
  ASSUME NEW text \in Text
  PROVE  /\ LengthsOf(text) \in Seq(Nat) /\ Len(LengthsOf(text)) = Len(text)
         /\ \E s : /\ Sums(s, LengthsOf(text))
                   /\ TextLength(text) = IF text = <<>> THEN 0 ELSE s[Len(text)] + Len(text) - 1
<1> DEFINE ws == LengthsOf(text)
           step(f, n) == IF n = 0 THEN 0 ELSE f[n - 1] + Length(text[n])
           sum == CHOOSE f : f = [n \in 0 .. Len(text) |-> step(f, n)]
<1>1. TextLength(text) = IF text = <<>> THEN 0 ELSE sum[Len(text)] + Len(text) - 1
  BY Zenon DEF TextLength
<1>2. /\ Len(text) \in Nat /\ DOMAIN text = 1 .. Len(text)
      /\ \A n \in 1 .. Len(text) : text[n] \in Seq(Fragment)
  BY DEF Text
<1>3. \A n \in 1 .. Len(text) : Length(text[n]) \in Nat
  BY <1>2, LengthIs
<1>4. /\ ws = [n \in 1 .. Len(text) |-> ws[n]]
      /\ \A n \in 1 .. Len(text) : ws[n] \in Nat /\ ws[n] = Length(text[n])
  BY <1>2, <1>3 DEF LengthsOf
<1> HIDE DEF ws
<1>5. ws \in Seq(Nat) /\ Len(ws) = Len(text)
  BY <1>2, <1>4, SequenceIs
<1>6. PICK f : Sums(f, ws)
  BY <1>5, SumsExist
<1>7. f = [n \in 0 .. Len(text) |-> step(f, n)]
  <2>1. \A n \in 0 .. Len(text) : f[n] = step(f, n)
    BY <1>2, <1>4, <1>5, <1>6 DEF Sums
  <2>2. f = [n \in 0 .. Len(text) |-> f[n]]
    BY <1>5, <1>6 DEF Sums
  <2> HIDE DEF step
  <2> QED
    BY <2>1, <2>2
<1>8. sum = [n \in 0 .. Len(text) |-> step(sum, n)]
  <2> HIDE DEF step
  <2> QED
    BY <1>7
<1> HIDE DEF sum
<1>9. sum = [n \in 0 .. Len(text) |-> sum[n]] /\ \A n \in 0 .. Len(text) : sum[n] = step(sum, n)
  <2> HIDE DEF step
  <2> QED
    BY <1>8
<1>10. sum[0] = 0 /\ \A n \in 1 .. Len(text) : sum[n] = sum[n - 1] + ws[n]
  <2>1. 0 \in 0 .. Len(text)
    BY <1>2
  <2>2. \A n \in 1 .. Len(text) : n \in 0 .. Len(text) /\ n # 0
    BY <1>2
  <2> QED
    BY <1>4, <1>9, <2>1, <2>2
<1>11. Sums(sum, ws)
  BY <1>5, <1>9, <1>10, SumsOnly
<1> QED
  BY <1>1, <1>5, <1>11 DEF ws

\* Without a fragment in any line there is none in the text.
LEMMA NoFragments ==
  ASSUME NEW text \in Text, Fragments(text) # <<>>
  PROVE  text # <<>> /\ \E i \in DOMAIN text : text[i] # <<>>
<1>1. text # <<>>
  BY NoLines
<1>2. ASSUME \A i \in DOMAIN text : text[i] = <<>>
      PROVE  FALSE
  <2>1. text \in Seq(Seq(Fragment))
    BY DEF Text
  <2>2. FlattenSeq(Pick(text, {})) = FlattenSeq(text)
    BY <1>2, <2>1, FlattenPickAll
  <2>3. Pick(text, {}) = <<>>
    BY <2>1, PickEnds
  <2> QED
    BY <2>1, <2>2, <2>3, FlattenIs DEF Fragments
<1> QED
  BY <1>1, <1>2

\* A text with a fragment has a length.
LEMMA TextLengthAtLeast ==
  ASSUME NEW text \in Text, Fragments(text) # <<>>
  PROVE  TextLength(text) \in Nat /\ TextLength(text) >= 1
<1> DEFINE ws == LengthsOf(text)
<1>1. text # <<>>
  BY NoFragments
<1>2. PICK i \in DOMAIN text : text[i] # <<>>
  BY NoFragments
<1>3. PICK s : Sums(s, ws) /\ TextLength(text) = s[Len(text)] + Len(text) - 1
  BY <1>1, LengthsTotal
<1>4. ws \in Seq(Nat) /\ Len(ws) = Len(text)
  BY LengthsTotal
<1>5. Len(text) \in Nat /\ Len(text) >= 1 /\ i \in 1 .. Len(text) /\ text[i] \in Seq(Fragment)
  BY <1>1 DEF Text
<1>6. ws[i] = Length(text[i]) /\ Length(text[i]) \in Nat /\ Length(text[i]) >= 1
  BY <1>2, <1>5, LengthAtLeast DEF LengthsOf
<1> HIDE DEF ws
<1>7. ws[i] <= s[Len(ws)]
  BY <1>3, <1>4, <1>5, SumsOver
<1>8. s[Len(ws)] \in Nat
  <2>1. s \in [0 .. Len(ws) -> Nat]
    BY <1>3 DEF Sums
  <2>2. Len(ws) \in 0 .. Len(ws)
    BY <1>4, <1>5
  <2> QED
    BY <2>1, <2>2
<1> QED
  BY <1>3, <1>4, <1>5, <1>6, <1>7, <1>8

-----------------------------------------------------------------------------
(* Noise.                                                                  *)

\* All characters of the fragments but blanks are letters and digits.
Plain(fragments) == \A k \in DOMAIN fragments : Shape[fragments[k]].alnum >= Shape[fragments[k]].visible

\* The score of a text without punctuation, by its characters and its length.
NoisyAt(v, t, a, bound) ==
  1200 * 0 + 30 * v * AtLeast0(20 - t) + AtLeast0(360 * v - 800 * a) >= bound * v

\* What is short is not that noisy.
LEMMA ShortNoise ==
  ASSUME NEW v \in Nat \ {0}, NEW t \in Nat, t >= 1, NEW a \in Nat, a >= v,
         NEW bound \in Nat, bound > 30 * 19
  PROVE  ~ NoisyAt(v, t, a, bound)
<1> DEFINE x == AtLeast0(20 - t)
<1>1. x \in 0 .. 19
  BY DEF AtLeast0
<1>2. AtLeast0(360 * v - 800 * a) = 0
  <2>1. 360 * v - 800 * a <= 0
    OBVIOUS
  <2> QED
    BY <2>1 DEF AtLeast0
<1> HIDE DEF x
<1>3. 30 * v * x <= 570 * v
  <2>1. 19 - x \in Nat /\ v * (19 - x) >= 0
    BY <1>1
  <2> QED
    BY <1>1, <2>1
<1>4. bound * v >= 571 * v
  <2>1. (bound - 571) \in Nat /\ (bound - 571) * v >= 0
    OBVIOUS
  <2> QED
    BY <2>1
<1> QED
  BY <1>1, <1>2, <1>3, <1>4 DEF x, NoisyAt

\* A text of letters and digits alone is not noise.
LEMMA PlainNoise ==
  ASSUME NEW text \in Text, Fragments(text) # <<>>, Plain(Fragments(text)),
         NEW bound \in Nat, bound > 30 * 19
  PROVE  ~ NoisierThan(text, bound)
<1> DEFINE fragments == Fragments(text)
           visible == Total(fragments, LAMBDA shape : shape.visible)
           symbols == Total(fragments, LAMBDA shape : shape.symbols)
           alnum == Total(fragments, LAMBDA shape : shape.alnum)
<1>0. NoisierThan(text, bound) <=> Noise(text) >= bound * visible
  BY Zenon DEF NoisierThan
<1>1. Noise(text) = 1200 * symbols + 30 * visible * AtLeast0(20 - TextLength(text))
                      + AtLeast0(360 * visible - 800 * alnum)
  BY Zenon DEF Noise
<1>2. fragments \in Seq(Fragment)
  BY FragmentsTyped
<1> DEFINE vs == VisibleOf(fragments)
           ss == SymbolsOf(fragments)
           as == AlnumOf(fragments)
           n == Len(fragments)
<1>3. PICK v : Sums(v, vs) /\ visible = v[n]
  BY <1>2, VisibleTotal
<1>4. PICK s : Sums(s, ss) /\ symbols = s[n]
  BY <1>2, SymbolsTotal
<1>5. PICK a : Sums(a, as) /\ alnum = a[n]
  BY <1>2, AlnumTotal
<1>6. /\ vs \in Seq(Nat) /\ Len(vs) = n /\ ss \in Seq(Nat) /\ Len(ss) = n
      /\ as \in Seq(Nat) /\ Len(as) = n
  BY <1>2, VisibleTotal, SymbolsTotal, AlnumTotal
<1> HIDE DEF visible, symbols, alnum
<1>7. n \in Nat /\ n >= 1 /\ DOMAIN fragments = 1 .. n /\ \A k \in 1 .. n : fragments[k] \in Fragment
  <2>1. fragments # <<>>
    OBVIOUS
  <2> HIDE DEF fragments
  <2> QED
    BY <1>2, <2>1
<1>8. \A k \in 1 .. n : vs[k] <= as[k] /\ ss[k] = 0 /\ vs[k] \in Nat \ {0}
  <2> TAKE k \in 1 .. n
  <2> DEFINE shape == Shape[fragments[k]]
  <2>1. /\ shape.visible \in Nat \ {0} /\ shape.symbols \in Nat /\ shape.alnum \in Nat
        /\ shape.symbols + shape.alnum <= shape.visible
    BY <1>7, TextsAssumption
  <2>2. shape.alnum >= shape.visible
    BY <1>7 DEF Plain
  <2>3. vs[k] = shape.visible /\ ss[k] = shape.symbols /\ as[k] = shape.alnum
    BY <1>7 DEF VisibleOf, SymbolsOf, AlnumOf
  <2> HIDE DEF shape
  <2> QED
    BY <2>1, <2>2, <2>3
<1> HIDE DEF fragments, vs, ss, as, n
<1>9. v[n] <= a[n]
  BY <1>3, <1>5, <1>6, <1>8, SumsOrder
<1>10. s[n] = 0
  BY <1>4, <1>6, <1>8, SumsZero
<1>11. v[n] \in Nat \ {0} /\ a[n] \in Nat
  <2>1. v[n] \in Nat /\ a[n] \in Nat
    BY <1>3, <1>5, <1>6, <1>7 DEF Sums
  <2>2. vs[1] <= v[n] /\ vs[1] \in Nat \ {0}
    <3>1. 1 \in 1 .. n
      BY <1>7
    <3> QED
      BY <1>3, <1>6, <1>8, <3>1, SumsOver
  <2> QED
    BY <2>1, <2>2
<1>12. TextLength(text) \in Nat /\ TextLength(text) >= 1
  BY TextLengthAtLeast
<1> DEFINE t == TextLength(text)
           x == v[n]
           y == a[n]
<1>13. visible = x /\ symbols = 0 /\ alnum = y
  BY <1>3, <1>4, <1>5, <1>10
<1>14. Noise(text) = 1200 * 0 + 30 * x * AtLeast0(20 - t) + AtLeast0(360 * x - 800 * y)
  BY <1>1, <1>13
<1>15. t \in Nat /\ t >= 1 /\ x \in Nat \ {0} /\ y \in Nat /\ y >= x
  BY <1>9, <1>11, <1>12
<1> HIDE DEF t, x, y
<1>16. ~ NoisyAt(x, t, y, bound)
  BY <1>15, ShortNoise
<1> QED
  BY <1>0, <1>13, <1>14, <1>16 DEF NoisyAt

-----------------------------------------------------------------------------
(* What cleaning leaves out.                                               *)

\* What is left is in what there was.
LEMMA ThinElements ==
  ASSUME NEW T, NEW xs \in Seq(T), NEW L, NEW ys, Thin(ys, xs, L)
  PROVE  \A j \in DOMAIN ys : \E i \in DOMAIN xs : ys[j] = xs[i]
<1>1. PICK K \in SUBSET (DOMAIN xs) : ys = Pick(xs, K)
  BY DEF Thin
<1>2. PICK o : Enumerates(o, Cardinality(K), K)
  BY Enumerated
<1>3. PickedIn(ys, xs, o, Cardinality(K), T)
  BY <1>1, <1>2, PickIn
<1> QED
  BY <1>2, <1>3 DEF PickedIn, Enumerates

\* Lines of one of some fragments each.
LinesOf(lines, L) == \A line \in lines : \E f \in L : line = Line(f)

\* A cleaned section is without such lines.
LEMMA CleanedThin ==
  ASSUME NEW section, section.text \in Text, NEW repeated, NEW L, LinesOf(repeated, L), NEW switches
  PROVE  /\ Cleaned(section, repeated, switches).text \in Text
         /\ Thin(Fragments(Cleaned(section, repeated, switches).text), Fragments(section.text), L)
<1> DEFINE wrapped == IF "repair" \in switches THEN Repair(section.text) ELSE section.text
           joined == Normalize(wrapped)
           others == {i \in DOMAIN joined : "repeated" \in switches => joined[i] \notin repeated}
           left == Pick(joined, others)
<1>1. Cleaned(section, repeated, switches).text = Normalize(left)
  BY DEF Cleaned, Section
<1>2. wrapped \in Text /\ Fragments(wrapped) = Fragments(section.text)
  BY RepairIs, RepairKeeps
<1> HIDE DEF wrapped
<1>3. joined \in Text /\ Fragments(joined) = Fragments(section.text)
  BY <1>2, NormalizeIs, NormalizeKeeps
<1> HIDE DEF joined
<1>4. /\ others \in SUBSET (DOMAIN joined)
      /\ \A i \in DOMAIN joined \ others : joined[i] \in repeated
  OBVIOUS
<1>5. \A i \in DOMAIN joined \ others : \A j \in DOMAIN joined[i] : joined[i][j] \in L
  BY <1>4 DEF LinesOf, Line
<1> HIDE DEF others
<1>6. joined \in Seq(Seq(Fragment))
  BY <1>3 DEF Text
<1>7. Thin(FlattenSeq(left), FlattenSeq(joined), L)
  BY <1>4, <1>5, <1>6, ThinPicked
<1>8. left \in Text
  <2>1. PICK o : Enumerates(o, Cardinality(others), others)
    BY <1>4, <1>6, Enumerated
  <2> DEFINE V == Seq(Fragment)
  <2>2. joined \in Seq(V)
    BY <1>6
  <2> HIDE DEF V
  <2>3. left \in Seq(V)
    BY <1>4, <2>1, <2>2, PickBy
  <2> QED
    BY <2>3 DEF V, Text
<1> HIDE DEF left
<1>9. Normalize(left) \in Text /\ Fragments(Normalize(left)) = Fragments(left)
  BY <1>8, NormalizeIs, NormalizeKeeps
<1>10. Thin(Fragments(Normalize(left)), Fragments(section.text), L)
  BY <1>3, <1>7, <1>9 DEF Fragments
<1> QED
  BY <1>1, <1>9, <1>10

IsDropped(text, switches) == DropReason(text, switches) # ""

\* A section that is dropped has no fragment, or one with other signs than letters and digits.
LEMMA DroppedIs ==
  ASSUME NEW text \in Text, NEW switches, IsDropped(text, switches), ~ (MaxNoise <= 30 * 19)
  PROVE  Fragments(text) = <<>> \/ ~ Plain(Fragments(text))
<1>1. \/ text = <<>> \/ NoisierThan(text, MaxNoise) \/ NoisierThan(text, 1900)
  BY DEF DropReason, IsDropped
<1>2. MaxNoise \in Nat
  BY CleaningAssumption
<1>3. MaxNoise > 30 * 19
  BY <1>2
<1>4. SUFFICES ASSUME Fragments(text) # <<>>, Plain(Fragments(text))
               PROVE  FALSE
  OBVIOUS
<1>5. ~ NoisierThan(text, MaxNoise)
  BY <1>2, <1>3, <1>4, PlainNoise
<1>6. ~ NoisierThan(text, 1900)
  BY <1>4, PlainNoise
<1>7. text # <<>>
  BY <1>4, NoLines
<1> QED
  BY <1>1, <1>5, <1>6, <1>7

\* Fragments that cleaning may leave out.
MixedWith(f, document) ==
  \E i \in DOMAIN document :
    LET all == ToSet(Fragments(document[i].text))
    IN  f \in all /\ \E g \in all : Shape[g].alnum < Shape[g].visible

Lost(document, content) ==
  {f \in Fragment : \/ Cardinality(OnPages(content, f)) >= MinPages
                    \/ MixedWith(f, document)
                    \/ MaxNoise <= 30 * 19}

\* Lines that are repeated may be lost.
LEMMA RepeatedLost ==
  ASSUME NEW content, NEW document, PagesOfFile(document, content)
  PROVE  LinesOf(Repeated(document), Lost(document, content))
<1> SUFFICES ASSUME NEW line \in Repeated(document)
             PROVE  \E f \in Lost(document, content) : line = Line(f)
  BY DEF LinesOf
<1>1. PICK f \in Fragment : line = Line(f) /\ Cardinality(OnPages(content, f)) >= MinPages
  BY RepeatedOnPages
<1> QED
  BY <1>1 DEF Lost

\* The fragments of a section that is dropped once clean may be lost.
LEMMA DroppedLost ==
  ASSUME NEW document, NEW content, NEW i \in DOMAIN document, document[i].text \in Text,
         NEW text \in Text, Thin(Fragments(text), Fragments(document[i].text), Lost(document, content)),
         NEW switches, IsDropped(text, switches)
  PROVE  \A j \in DOMAIN Fragments(text) : Fragments(text)[j] \in Lost(document, content)
<1> DEFINE xs == Fragments(document[i].text)
           ys == Fragments(text)
           L == Lost(document, content)
<1>1. xs \in Seq(Fragment) /\ ys \in Seq(Fragment)
  BY FragmentsTyped
<1>2. Thin(ys, xs, L)
  OBVIOUS
<1>3. ~ (MaxNoise <= 30 * 19) => ys = <<>> \/ ~ Plain(ys)
  BY DroppedIs
<1>4. \A f \in Fragment : MixedWith(f, document) \/ MaxNoise <= 30 * 19 => f \in L
  BY DEF Lost
<1>5. \A f \in ToSet(xs), g \in ToSet(xs) :
        Shape[g].alnum < Shape[g].visible => MixedWith(f, document)
  BY DEF MixedWith
<1> SUFFICES \A j \in DOMAIN ys : ys[j] \in L
  OBVIOUS
<1> HIDE DEF xs, ys, L
<1>6. \A j \in DOMAIN ys : ys[j] \in Fragment
  BY <1>1
<1>7. CASE MaxNoise <= 30 * 19
  BY <1>4, <1>6, <1>7
<1>8. CASE ys = <<>>
  BY <1>8
<1>9. CASE ~ Plain(ys)
  <2>1. \A j \in DOMAIN ys : ys[j] \in ToSet(xs)
    BY <1>1, <1>2, ThinElements DEF ToSet
  <2>2. PICK k \in DOMAIN ys : ~ (Shape[ys[k]].alnum >= Shape[ys[k]].visible)
    BY <1>9 DEF Plain
  <2>3. Shape[ys[k]].alnum < Shape[ys[k]].visible
    <3> DEFINE shape == Shape[ys[k]]
    <3>1. shape.alnum \in Nat /\ shape.visible \in Nat
      BY <1>6, TextsAssumption
    <3> HIDE DEF shape
    <3>2. ~ (shape.alnum >= shape.visible)
      BY <2>2 DEF shape
    <3>3. shape.alnum < shape.visible
      BY <3>1, <3>2
    <3> QED
      BY <3>3 DEF shape
  <2> QED
    BY <1>4, <1>5, <1>6, <2>1, <2>3
<1> QED
  BY <1>3, <1>7, <1>8, <1>9

-----------------------------------------------------------------------------
\* The fragments of each section.
EachFragments(document) == [i \in DOMAIN document |-> Fragments(document[i].text)]

\* Sections that have texts have fragments.
LEMMA EachFragmentsAre ==
  ASSUME NEW document, NEW n \in Nat, document = [i \in 1 .. n |-> document[i]],
         \A i \in 1 .. n : document[i].text \in Text
  PROVE  /\ EachFragments(document) \in Seq(Seq(Fragment))
         /\ Len(EachFragments(document)) = n /\ DOMAIN EachFragments(document) = 1 .. n
         /\ \A i \in 1 .. n : EachFragments(document)[i] = Fragments(document[i].text)
<1> DEFINE V == Seq(Fragment)
           xs == EachFragments(document)
<1>1. DOMAIN document = 1 .. n
  OBVIOUS
<1>2. \A i \in 1 .. n : Fragments(document[i].text) \in V
  BY FragmentsTyped
<1> HIDE DEF V
<1>3. xs = [i \in 1 .. n |-> xs[i]] /\ \A i \in 1 .. n : xs[i] = Fragments(document[i].text)
  BY <1>1 DEF EachFragments
<1> HIDE DEF xs
<1>4. \A i \in 1 .. n : xs[i] \in V
  BY <1>2, <1>3
<1>5. xs \in Seq(V) /\ Len(xs) = n /\ DOMAIN xs = 1 .. n
  BY <1>3, <1>4, SequenceIs
<1> QED
  BY <1>3, <1>5 DEF V, xs

\* The fragments of the sections that are picked.
LEMMA EachPicked ==
  ASSUME NEW document, NEW n \in Nat, document = [i \in 1 .. n |-> document[i]],
         \A i \in 1 .. n : document[i].text \in Text, NEW K \in SUBSET (1 .. n)
  PROVE  EachFragments(Pick(document, K)) = Pick(EachFragments(document), K)
<1> DEFINE D == ToSet(document)
           V == Seq(Fragment)
           c == Cardinality(K)
           p == Pick(document, K)
           xs == EachFragments(document)
           q == Pick(xs, K)
           r == EachFragments(p)
<1>1. document \in Seq(D) /\ DOMAIN document = 1 .. n
  BY SequenceIs DEF ToSet
<1>2. /\ xs \in Seq(V) /\ DOMAIN xs = 1 .. n
      /\ \A i \in 1 .. n : xs[i] = Fragments(document[i].text)
  BY EachFragmentsAre
<1> HIDE DEF D, V, c, xs
<1>3. PICK o : Enumerates(o, c, K)
  BY <1>1, Enumerated DEF c
<1>4. PickedIn(p, document, o, c, D)
  BY <1>1, <1>3, PickIn
<1>5. PickedIn(q, xs, o, c, V)
  BY <1>2, <1>3, PickIn
<1> HIDE DEF p, q
<1>6. /\ c \in Nat /\ DOMAIN p = 1 .. c /\ \A k \in 1 .. c : p[k] = document[o[k]]
      /\ q \in Seq(V) /\ DOMAIN q = 1 .. c /\ \A k \in 1 .. c : q[k] = xs[o[k]]
  BY <1>4, <1>5 DEF PickedIn
<1>7. \A k \in 1 .. c : o[k] \in 1 .. n
  BY <1>3 DEF Enumerates
<1>8. r = [k \in 1 .. c |-> Fragments(p[k].text)]
  BY <1>6 DEF EachFragments
<1>9. \A k \in 1 .. c : Fragments(p[k].text) = q[k]
  BY <1>2, <1>6, <1>7
<1>10. q = [k \in 1 .. c |-> q[k]]
  BY <1>6
<1> HIDE DEF r
<1>11. r = q
  BY <1>8, <1>9, <1>10
<1> QED
  BY <1>11 DEF r, p, q, xs

\* Cleaning leaves the fragments of the sections, in their order, but those that may be lost.
LEMMA CleanThin ==
  ASSUME NEW content, NEW document, IsDocument(document), PagesOfFile(document, content), NEW switches
  PROVE  Thin(SectionFragments(Clean(document, switches)), SectionFragments(document),
              Lost(document, content))
<1> DEFINE repeated == Repeated(document)
           L == Lost(document, content)
           all == [i \in DOMAIN document |-> Cleaned(document[i], repeated, switches)]
           full == {i \in DOMAIN all : DropReason(all[i].text, switches) = ""}
           n == Len(document)
           xs == EachFragments(document)
           ys == EachFragments(all)
<1>1. Clean(document, switches) = IF "enabled" \in switches THEN Pick(all, full) ELSE document
  BY DEF Clean
<1>2. /\ n \in Nat /\ DOMAIN document = 1 .. n /\ document = [i \in 1 .. n |-> document[i]]
      /\ \A i \in 1 .. n : document[i].text \in Text
  BY DEF IsDocument, IsSequence, Typed
<1>3. LinesOf(repeated, L)
  BY RepeatedLost
<1> HIDE DEF repeated, L
<1>4. /\ all = [i \in 1 .. n |-> all[i]]
      /\ \A i \in 1 .. n : all[i] = Cleaned(document[i], repeated, switches)
  BY <1>2
<1>5. full \in SUBSET (1 .. n) /\ \A i \in (1 .. n) \ full : IsDropped(all[i].text, switches)
  BY <1>2 DEF IsDropped
<1> HIDE DEF all, full, n
<1>6. \A i \in 1 .. n : /\ all[i].text \in Text
                        /\ Thin(Fragments(all[i].text), Fragments(document[i].text), L)
  BY <1>2, <1>3, <1>4, CleanedThin
<1>7. /\ xs \in Seq(Seq(Fragment)) /\ Len(xs) = n /\ DOMAIN xs = 1 .. n
      /\ \A i \in 1 .. n : xs[i] = Fragments(document[i].text)
  BY <1>2, EachFragmentsAre
<1>8. /\ ys \in Seq(Seq(Fragment)) /\ Len(ys) = n /\ DOMAIN ys = 1 .. n
      /\ \A i \in 1 .. n : ys[i] = Fragments(all[i].text)
  BY <1>2, <1>4, <1>6, EachFragmentsAre
<1> HIDE DEF xs, ys
<1>9. Thin(FlattenSeq(ys), FlattenSeq(xs), L)
  <2>1. ThinEach(ys, xs, L)
    BY <1>6, <1>7, <1>8 DEF ThinEach
  <2> QED
    BY <1>7, <1>8, <2>1, ThinFlatten
<1>10. \A i \in (1 .. n) \ full : \A j \in DOMAIN ys[i] : ys[i][j] \in L
  <2> TAKE i \in (1 .. n) \ full
  <2>1. i \in DOMAIN document /\ document[i].text \in Text /\ all[i].text \in Text
    BY <1>2, <1>6
  <2>2. \A j \in DOMAIN Fragments(all[i].text) : Fragments(all[i].text)[j] \in L
    BY <1>5, <1>6, <2>1, DroppedLost DEF L
  <2> QED
    BY <1>8, <2>2
<1>11. Thin(FlattenSeq(Pick(ys, full)), FlattenSeq(ys), L)
  BY <1>5, <1>8, <1>10, ThinPicked
<1>12. FlattenSeq(xs) \in Seq(Fragment)
  BY <1>7, FlattenIs
<1>13. Thin(FlattenSeq(Pick(ys, full)), FlattenSeq(xs), L)
  BY <1>9, <1>11, <1>12, ThinAgain
<1>14. SectionFragments(document) = FlattenSeq(xs)
  BY DEF SectionFragments, EachFragments, xs
<1>15. SectionFragments(Pick(all, full)) = FlattenSeq(Pick(ys, full))
  <2>1. EachFragments(Pick(all, full)) = Pick(EachFragments(all), full)
    BY <1>2, <1>4, <1>5, <1>6, EachPicked
  <2> QED
    BY <2>1 DEF SectionFragments, EachFragments, ys
<1>16. Thin(SectionFragments(document), SectionFragments(document), L)
  BY <1>12, <1>14, ThinEnds
<1> QED
  BY <1>1, <1>13, <1>14, <1>15, <1>16 DEF L

-----------------------------------------------------------------------------
(* From the file to the cleaned sections.                                  *)

\* What MayBeLost says, of sections that are given.
LostFrom(document, content, occurrence) ==
  \/ occurrence \in Headings(content)
  \/ occurrence.fragment \in Lost(document, content)

KeptFrom(kept, document, content) ==
  LET seen == Occurrences(content)
      mayBeLost == {i \in DOMAIN seen : LostFrom(document, content, seen[i])}
  IN  \/ seen = <<>> /\ kept \in {<<>>, <<Uri>>}
      \/ \E lost \in SUBSET mayBeLost :
           kept = [k \in DOMAIN Pick(seen, DOMAIN seen \ lost) |->
                     Pick(seen, DOMAIN seen \ lost)[k].fragment]

\* What is left of one fragment or none.
LEMMA ThinOfOne ==
  ASSUME NEW T, NEW x \in T, NEW L, NEW xs \in {<<>>, <<x>>}, NEW ys, Thin(ys, xs, L)
  PROVE  ys \in {<<>>, <<x>>}
<1>1. xs \in Seq(T)
  <2>1. <<>> \in Seq(T)
    OBVIOUS
  <2>2. <<x>> \in Seq(T)
    OBVIOUS
  <2> QED
    BY <2>1, <2>2
<1>2. PICK K \in SUBSET (DOMAIN xs) : ys = Pick(xs, K)
  BY DEF Thin
<1>3. K = {} \/ K = DOMAIN xs
  <2>1. DOMAIN xs \subseteq {1}
    OBVIOUS
  <2> QED
    BY <1>2, <2>1
<1>4. Pick(xs, {}) = <<>> /\ Pick(xs, DOMAIN xs) = xs
  BY <1>1, PickEnds
<1> QED
  BY <1>2, <1>3, <1>4

\* Sections that are what is read are, once clean, what is read but for what may be lost.
LEMMA CleanKeeps ==
  ASSUME NEW content \in Contents, NEW document, IsDocument(document),
         Faithful(document, content), PagesOfFile(document, content), NEW switches
  PROVE  KeptFrom(SectionFragments(Clean(document, switches)), document, content)
<1> DEFINE kept == SectionFragments(Clean(document, switches))
           all == SectionFragments(document)
           seen == Occurrences(content)
           L == Lost(document, content)
           H == Headings(content)
           M == {o \in Occurrence : o \in H \/ o.fragment \in L}
<1>1. Thin(kept, all, L)
  BY CleanThin
<1>2. seen \in Seq(Occurrence)
  BY SeenFragments
<1> SUFFICES KeptFrom(kept, document, content)
  OBVIOUS
<1>3. CASE seen = <<>> /\ all \in {<<>>, <<Uri>>}
  <2>1. Uri \in Fragment
    BY HandlersAssumption
  <2> HIDE DEF kept, all, L
  <2>2. kept \in {<<>>, <<Uri>>}
    BY <1>1, <1>3, <2>1, ThinOfOne
  <2> QED
    BY <1>3, <2>2 DEF KeptFrom
<1>4. CASE \E os \in Seq(Occurrence) : Thin(os, seen, H) /\ all = Mapped(FragmentOf, os)
  <2> HIDE DEF kept, all, L, H, seen
  <2>1. PICK os \in Seq(Occurrence) : Thin(os, seen, H) /\ all = Mapped(FragmentOf, os)
    BY <1>4
  <2> DEFINE N == Behind(FragmentOf, Occurrence, L)
  <2>2. PICK zs \in Seq(Occurrence) : Thin(zs, os, N) /\ kept = Mapped(FragmentOf, zs)
    <3>1. Thin(kept, Mapped(FragmentOf, os), L)
      BY <1>1, <2>1
    <3>2. ThinBehind(kept, FragmentOf, os, Occurrence, L)
      BY <3>1, FragmentOfIs, ThinMapped
    <3> QED
      BY <3>2 DEF ThinBehind
  <2>3. \A o \in Occurrence : (o \in N => o \in M) /\ (o \in H => o \in M)
    BY FragmentOfIs DEF Behind
  <2>4. \A i \in Occurrence : i \in M => i \in H \/ i.fragment \in L
    OBVIOUS
  <2> HIDE DEF N, M
  <2>5. Thin(zs, os, M)
    BY <2>2, <2>3, ThinMore
  <2>6. Thin(os, seen, M)
    BY <1>2, <2>1, <2>3, ThinMore
  <2>7. Thin(zs, seen, M)
    BY <1>2, <2>5, <2>6, ThinAgain
  <2>8. PICK K \in SUBSET (DOMAIN seen) : zs = Pick(seen, K) /\ \A i \in DOMAIN seen \ K : seen[i] \in M
    BY <2>7 DEF Thin
  <2> DEFINE lost == DOMAIN seen \ K
  <2>9. DOMAIN seen \ lost = K
    BY <2>8
  <2>10. \A i \in lost : seen[i] \in H \/ seen[i].fragment \in L
    <3>1. \A i \in lost : seen[i] \in Occurrence
      BY <1>2
    <3> QED
      BY <2>4, <2>8, <3>1
  <2>11. lost \in SUBSET {i \in DOMAIN seen : LostFrom(document, content, seen[i])}
    BY <2>10 DEF LostFrom, H, L
  <2>12. kept = [k \in DOMAIN zs |-> zs[k].fragment]
    <3>1. \A k \in DOMAIN zs : FragmentOf[zs[k]] = zs[k].fragment
      <4>1. \A k \in DOMAIN zs : zs[k] \in Occurrence
        BY <2>2
      <4> QED
        BY <4>1, FragmentOfIs
    <3> QED
      BY <2>2, <3>1 DEF Mapped
  <2> HIDE DEF lost
  <2>13. kept = [k \in DOMAIN Pick(seen, DOMAIN seen \ lost) |->
                   Pick(seen, DOMAIN seen \ lost)[k].fragment]
    BY <2>8, <2>9, <2>12
  <2> QED
    BY <2>11, <2>13 DEF KeptFrom, seen
<1> QED
  BY <1>3, <1>4 DEF Faithful

-----------------------------------------------------------------------------
(* The inductive invariant.                                                *)

Stage == {"load", "route", "parse", "clean", "chunk", "done"} \cup Error

SourceIs == source.content \in Contents /\ (source.file => source.scheme \in {"", "file"})

\* A redirect leads from one scheme of the web to another.
Landed(scheme) == scheme # source.scheme => {source.scheme, scheme} \subseteq Web /\ ~source.raw

\* What is loaded was asked for under an allowed scheme, and is no local file if none is allowed.

Loaded ==
  stage \in {"route", "parse", "clean", "chunk", "done"} =>
    /\ source.raw \/ source.scheme \in policy.allowed_schemes
    /\ Landed(blob.scheme)
    /\ blob.content = source.content /\ source.file /\ ~source.raw => policy.allow_local_files

\* The handler is one the policy allows for what was loaded.
Routed ==
  stage \in {"parse", "clean", "chunk", "done"} =>
    /\ Allowed(policy, blob.type, blob.extension)
    /\ handler \in Handled
    /\ Honest => handler = blob.content.kind

\* Parsing and cleaning leave documents.
DocumentsTyped ==
  /\ IsDocument(sections)
  /\ IsDocument(cleaned)
  /\ Len(cleaned) <= Len(sections)
  /\ stage \notin {"chunk", "done"} => cleaned = <<>>

ChunksMade == IF stage = "done" THEN chunks = Chunk(cleaned) ELSE chunks = <<>>

ProcessInv ==
  /\ stage \in Stage
  /\ SourceIs
  /\ blob.content \in Contents
  /\ Loaded /\ Routed /\ DocumentsTyped /\ ChunksMade

\* No section at all is a document.
LEMMA EmptyDocument == IsDocument(<<>>) /\ Len(<<>>) = 0
<1>1. IsSequence(<<>>)
  BY DEF IsSequence
<1> QED
  BY <1>1 DEF IsDocument

\* Nothing loaded yet.
LEMMA NoContentIs == NoContent \in Contents
<1>1. NoContent \in [kind : TextKinds \cup BinaryKinds, parts : Seq(SourcePart), size : Nat,
                     expanded : Nat]
  BY DEF NoContent, TextKinds
<1> QED
  BY <1>1 DEF NoContent, Contents, SourcePart

\* A URI that names no file is a text of one line.
LEMMA UriContent ==
  [kind |-> "text", parts |-> <<[tag |-> "line", text |-> <<Line(Uri)>>]>>,
   size |-> Shape[Uri].size, expanded |-> 0] \in Contents
<1> DEFINE V == {Blank} \cup {Line(f) : f \in Fragment}
           t == <<Line(Uri)>>
           part == [tag |-> "line", text |-> t]
<1>1. t \in Seq(V)
  <2>1. Line(Uri) \in V
    BY HandlersAssumption
  <2> HIDE DEF V
  <2> QED
    BY <2>1
<1>2. t \in SourceText
  BY <1>1 DEF SourceText
<1>3. Shape[Uri].size \in Nat
  BY TextsAssumption, HandlersAssumption
<1> HIDE DEF t
<1>4. part \in SourcePart
  BY <1>2 DEF SourcePart, Tags
<1> HIDE DEF part
<1>5. <<part>> \in Seq(SourcePart)
  <2> HIDE DEF SourcePart
  <2> QED
    BY <1>4
<1>6. [kind |-> "text", parts |-> <<part>>, size |-> Shape[Uri].size, expanded |-> 0] \in Contents
  BY <1>3, <1>5 DEF Contents, TextKinds, SourcePart
<1> QED
  BY <1>6 DEF part, t

\* A source that nothing was done with.
LEMMA ProcessInvInit == ProcessInit => ProcessInv
<1> SUFFICES ASSUME ProcessInit PROVE ProcessInv
  OBVIOUS
<1>1. stage = "load" /\ sections = <<>> /\ cleaned = <<>> /\ chunks = <<>>
  BY DEF ProcessInit
<1>2. SourceIs
  <2>1. PICK request \in Request : source = request.source
    BY DEF ProcessInit
  <2> QED
    BY <2>1, ProcessAssumption DEF SourceIs
<1>3. blob.content \in Contents
  <2>1. blob.content = NoContent
    BY DEF ProcessInit
  <2> QED
    BY <2>1, NoContentIs
<1>4. Loaded /\ Routed /\ ChunksMade
  BY <1>1 DEF Loaded, Routed, ChunksMade
<1>5. DocumentsTyped
  BY <1>1, EmptyDocument DEF DocumentsTyped
<1> QED
  BY <1>1, <1>2, <1>3, <1>4, <1>5 DEF ProcessInv, Stage

\* A step refused before anything was parsed changes the stage alone.
LEMMA RefuseKeeps ==
  ASSUME ProcessInv, stage = "load", NEW error \in Error, Refuse(error)
  PROVE  ProcessInv'
<1>1. stage' = error
      /\ UNCHANGED source /\ UNCHANGED policy /\ UNCHANGED blob /\ UNCHANGED handler
      /\ UNCHANGED sections /\ UNCHANGED cleaned /\ UNCHANGED chunks
  BY DEF Refuse
<1>2. error \notin {"load", "route", "parse", "clean", "chunk", "done"}
  BY DEF Error
<1>3. cleaned = <<>> /\ chunks = <<>>
  BY DEF ProcessInv, DocumentsTyped, ChunksMade
<1>4. SourceIs' /\ Loaded' /\ Routed' /\ ChunksMade'
  BY <1>1, <1>2, <1>3 DEF ProcessInv, SourceIs, Loaded, Routed, ChunksMade
<1>5. DocumentsTyped'
  BY <1>1, <1>2, <1>3 DEF ProcessInv, DocumentsTyped
<1>6. (blob.content \in Contents)' /\ (stage \in Stage)'
  BY <1>1 DEF ProcessInv, Stage
<1> QED
  BY <1>4, <1>5, <1>6 DEF ProcessInv

\* What is loaded within the scheme and the policy may be routed.
LEMMA MakeBlobKeeps ==
  ASSUME ProcessInv, stage = "load", NEW content \in Contents, NEW declared, NEW extension,
         NEW scheme, MakeBlob(content, declared, extension, scheme), Landed(scheme),
         source.raw \/ source.scheme \in policy.allowed_schemes,
         content = source.content /\ source.file /\ ~source.raw => policy.allow_local_files
  PROVE  ProcessInv'
<1>1. CASE Refuse("SourceTooLarge")
  <2>1. "SourceTooLarge" \in Error
    BY DEF Error
  <2> QED
    BY <1>1, <2>1, RefuseKeeps
<1>2. CASE /\ blob' = [content |-> content, extension |-> extension, scheme |-> scheme,
                       type |-> Detect(declared, extension, content.kind)]
           /\ stage' = "route"
           /\ UNCHANGED <<source, policy, handler, sections, cleaned, chunks>>
  <2>1. blob'.content = content /\ blob'.scheme = scheme
    BY <1>2
  <2>2. stage' = "route" /\ UNCHANGED source /\ UNCHANGED policy /\ UNCHANGED handler
        /\ UNCHANGED sections /\ UNCHANGED cleaned /\ UNCHANGED chunks
    BY <1>2
  <2>3. cleaned = <<>> /\ chunks = <<>>
    BY DEF ProcessInv, DocumentsTyped, ChunksMade
  <2>4. SourceIs' /\ Routed' /\ ChunksMade'
    BY <2>2, <2>3 DEF ProcessInv, SourceIs, Routed, ChunksMade
  <2>5. Loaded'
    BY <2>1, <2>2 DEF Loaded, Landed
  <2>6. DocumentsTyped'
    BY <2>2, <2>3 DEF ProcessInv, DocumentsTyped
  <2>7. (blob.content \in Contents)' /\ (stage \in Stage)'
    BY <2>1, <2>2 DEF Stage
  <2> QED
    BY <2>4, <2>5, <2>6, <2>7 DEF ProcessInv
<1> QED
  BY <1>1, <1>2 DEF MakeBlob

\* Each step keeps the invariant: content that came with the request,
LEMMA LoadRawKeeps == ProcessInv /\ LoadRaw => ProcessInv'
<1> SUFFICES ASSUME ProcessInv, LoadRaw PROVE ProcessInv'
  OBVIOUS
<1>1. source.content \in Contents
  BY DEF ProcessInv, SourceIs
<1> QED
  BY <1>1, MakeBlobKeeps DEF LoadRaw, Landed

\* a scheme that is not allowed,
LEMMA RefuseSchemeKeeps == ProcessInv /\ RefuseScheme => ProcessInv'
<1>1. "SourceLoadError" \in Error
  BY DEF Error
<1> QED
  BY <1>1, RefuseKeeps DEF RefuseScheme

\* a web server,
LEMMA LoadHttpKeeps ==
  ASSUME ProcessInv, NEW header, NEW extension, NEW landed \in Web,
         LoadHttp(header, extension, landed)
  PROVE  ProcessInv'
<1>1. "SourceLoadError" \in Error
  BY DEF Error
<1>2. source.content \in Contents /\ ~source.file
  BY DEF ProcessInv, SourceIs, LoadHttp, Web
<1>3. stage = "load" /\ source.scheme \in policy.allowed_schemes /\ Landed(landed)
  BY DEF LoadHttp, Loads, Landed
<1>4. CASE Refuse("SourceLoadError")
  BY <1>1, <1>3, <1>4, RefuseKeeps
<1>5. CASE MakeBlob(source.content, IF header = "" THEN source.declared ELSE header,
                    IF source.named THEN source.extension ELSE extension, landed)
  BY <1>2, <1>3, <1>5, MakeBlobKeeps
<1> QED
  BY <1>4, <1>5 DEF LoadHttp

\* a file,
LEMMA LoadFileKeeps == ProcessInv /\ LoadFile => ProcessInv'
<1> SUFFICES ASSUME ProcessInv, LoadFile PROVE ProcessInv'
  OBVIOUS
<1>1. "SourceLoadError" \in Error
  BY DEF Error
<1>2. source.content \in Contents
  BY DEF ProcessInv, SourceIs
<1>3. stage = "load" /\ source.scheme \in policy.allowed_schemes /\ Landed(source.scheme)
  BY DEF LoadFile, Loads, Landed
<1>4. CASE Refuse("SourceLoadError")
  BY <1>1, <1>3, <1>4, RefuseKeeps
<1>5. CASE /\ policy.allow_local_files
           /\ MakeBlob(source.content, source.declared, source.extension, source.scheme)
  BY <1>2, <1>3, <1>5, MakeBlobKeeps
<1> QED
  BY <1>4, <1>5 DEF LoadFile

\* a URI that is the text,
LEMMA LoadUriKeeps == ProcessInv /\ LoadUri => ProcessInv'
<1> SUFFICES ASSUME ProcessInv, LoadUri PROVE ProcessInv'
  OBVIOUS
<1>1. /\ stage = "load" /\ source.scheme \in policy.allowed_schemes /\ ~source.file
      /\ Landed(source.scheme)
  BY DEF LoadUri, Loads, Landed
<1> DEFINE content == [kind |-> "text", parts |-> <<[tag |-> "line", text |-> <<Line(Uri)>>]>>,
                       size |-> Shape[Uri].size, expanded |-> 0]
<1>2. content \in Contents
  BY UriContent
<1>3. MakeBlob(content, source.declared, source.extension, source.scheme)
  BY DEF LoadUri
<1> HIDE DEF content
<1> QED
  BY <1>1, <1>2, <1>3, MakeBlobKeeps

\* the router,
LEMMA RouteSourceKeeps == ProcessInv /\ RouteSource => ProcessInv'
<1> SUFFICES ASSUME ProcessInv, RouteSource PROVE ProcessInv'
  OBVIOUS
<1> DEFINE route == Route(policy, blob.type, blob.extension)
<1>1. /\ stage = "route"
      /\ stage' = IF route.error = "" THEN "parse" ELSE route.error
      /\ handler' = route.handler
      /\ UNCHANGED source /\ UNCHANGED policy /\ UNCHANGED blob
      /\ UNCHANGED sections /\ UNCHANGED cleaned /\ UNCHANGED chunks
  BY DEF RouteSource
<1>2. RouteIsFit(route, policy, blob.type, blob.extension)
  BY RouteIs
<1> HIDE DEF route
<1>3. cleaned = <<>> /\ chunks = <<>>
  BY <1>1 DEF ProcessInv, DocumentsTyped, ChunksMade
<1>4. stage' \in {"parse", "Unsupported", "NeedsDocling"} /\ (stage' = "parse" => route.error = "")
  BY <1>1, <1>2 DEF RouteIsFit
<1>5. SourceIs' /\ Loaded' /\ ChunksMade'
  BY <1>1, <1>3, <1>4 DEF ProcessInv, SourceIs, Loaded, Landed, ChunksMade
<1>6. Routed'
  <2> SUFFICES ASSUME stage' = "parse"
               PROVE  /\ Allowed(policy, blob.type, blob.extension)'
                      /\ handler' \in Handled
                      /\ Honest' => handler' = blob'.content.kind
    BY <1>4 DEF Routed
  <2>1. /\ Allowed(policy, blob.type, blob.extension)
        /\ handler' \in Handled
        /\ blob.type = blob.extension /\ blob.type \in TextKinds \cup BinaryKinds => handler' = blob.type
    BY <1>1, <1>2, <1>4 DEF RouteIsFit
  <2>2. blob.content.kind \in TextKinds \cup BinaryKinds
    BY DEF ProcessInv, Contents
  <2>3. Honest' => handler' = blob'.content.kind
    BY <1>1, <2>1, <2>2 DEF Honest
  <2>4. Allowed(policy, blob.type, blob.extension)'
    BY <1>1, <2>1 DEF Allowed
  <2> QED
    BY <2>1, <2>3, <2>4
<1>7. DocumentsTyped'
  BY <1>1, <1>3 DEF ProcessInv, DocumentsTyped
<1>8. (blob.content \in Contents)' /\ (stage \in Stage)'
  BY <1>1, <1>4 DEF ProcessInv, Stage, Error
<1> QED
  BY <1>5, <1>6, <1>7, <1>8 DEF ProcessInv

\* the handler,
LEMMA ParseSourceKeeps ==
  ASSUME ProcessInv, NEW converted \in Conversion, ParseSource(converted)
  PROVE  ProcessInv'
<1> DEFINE parsed == Parse(handler, blob.content, converted)
<1>1. /\ stage = "parse"
      /\ stage' = IF parsed.error = "" THEN "clean" ELSE parsed.error
      /\ sections' = parsed.sections
      /\ UNCHANGED source /\ UNCHANGED policy /\ UNCHANGED blob /\ UNCHANGED handler
      /\ UNCHANGED cleaned /\ UNCHANGED chunks
  BY DEF ParseSource
<1>2. Output(parsed)
  <2>1. handler \in Handled /\ blob.content \in Contents
    BY <1>1 DEF ProcessInv, Routed
  <2> QED
    BY <2>1, ParseIs
<1> HIDE DEF parsed
<1>3. cleaned = <<>> /\ chunks = <<>>
  BY <1>1 DEF ProcessInv, DocumentsTyped, ChunksMade
<1>4. stage' \in Error \cup {"clean"}
  BY <1>1, <1>2 DEF Output
<1>5. SourceIs' /\ Loaded' /\ Routed' /\ ChunksMade'
  <2>1. stage' \notin {"parse", "chunk", "done"}
    BY <1>4 DEF Error
  <2>2. Allowed(policy, blob.type, blob.extension)' <=> Allowed(policy, blob.type, blob.extension)
    BY <1>1 DEF Allowed
  <2>3. Honest' <=> Honest
    BY <1>1 DEF Honest
  <2>4. Routed'
    BY <1>1, <2>2, <2>3 DEF ProcessInv, Routed
  <2> QED
    BY <1>1, <1>3, <2>1, <2>4 DEF ProcessInv, SourceIs, Loaded, Landed, ChunksMade
<1>6. DocumentsTyped'
  <2>1. IsDocument(sections')
    BY <1>1, <1>2 DEF Output
  <2>2. Len(sections') \in Nat
    BY <2>1 DEF IsDocument, IsSequence
  <2>3. cleaned' = <<>> /\ IsDocument(cleaned') /\ Len(cleaned') <= Len(sections')
    <3>1. cleaned' = <<>>
      BY <1>1, <1>3
    <3>2. IsDocument(cleaned')
      BY <3>1, EmptyDocument, Zenon
    <3>3. Len(cleaned') = 0
      BY <3>1
    <3>4. 0 <= Len(sections')
      BY <2>2
    <3> QED
      BY <3>1, <3>2, <3>3, <3>4
  <2> QED
    BY <2>1, <2>3 DEF DocumentsTyped, IsDocument, IsSequence
<1>7. (blob.content \in Contents)' /\ (stage \in Stage)'
  BY <1>1, <1>4 DEF ProcessInv, Stage
<1> QED
  BY <1>5, <1>6, <1>7 DEF ProcessInv

\* the cleaner,
LEMMA CleanSectionsKeeps == ProcessInv /\ CleanSections => ProcessInv'
<1> SUFFICES ASSUME ProcessInv, CleanSections PROVE ProcessInv'
  OBVIOUS
<1>1. /\ stage = "clean" /\ stage' = "chunk" /\ cleaned' = Clean(sections, policy.cleaning)
      /\ UNCHANGED source /\ UNCHANGED policy /\ UNCHANGED blob /\ UNCHANGED handler
      /\ UNCHANGED sections /\ UNCHANGED chunks
  BY DEF CleanSections
<1>2. IsDocument(sections) /\ chunks = <<>>
  BY <1>1 DEF ProcessInv, DocumentsTyped, ChunksMade
<1>3. IsDocument(cleaned') /\ Len(cleaned') <= Len(sections)
  BY <1>1, <1>2, CleanIs
<1>4. SourceIs' /\ Loaded' /\ ChunksMade'
  BY <1>1, <1>2 DEF ProcessInv, SourceIs, Loaded, Landed, ChunksMade
<1>5. Routed'
  <2>1. Allowed(policy, blob.type, blob.extension)' <=> Allowed(policy, blob.type, blob.extension)
    BY <1>1 DEF Allowed
  <2>2. Honest' <=> Honest
    BY <1>1 DEF Honest
  <2> QED
    BY <1>1, <2>1, <2>2 DEF ProcessInv, Routed
<1>6. DocumentsTyped'
  BY <1>1, <1>2, <1>3 DEF DocumentsTyped, IsDocument, IsSequence
<1>7. (blob.content \in Contents)' /\ (stage \in Stage)'
  BY <1>1 DEF ProcessInv, Stage
<1> QED
  BY <1>4, <1>5, <1>6, <1>7 DEF ProcessInv

\* and the chunker.
LEMMA ChunkSectionsKeeps == ProcessInv /\ ChunkSections => ProcessInv'
<1> SUFFICES ASSUME ProcessInv, ChunkSections PROVE ProcessInv'
  OBVIOUS
<1>1. /\ stage = "chunk" /\ stage' = "done" /\ chunks' = Chunk(cleaned)
      /\ UNCHANGED source /\ UNCHANGED policy /\ UNCHANGED blob /\ UNCHANGED handler
      /\ UNCHANGED sections /\ UNCHANGED cleaned
  BY DEF ChunkSections
<1>2. ChunksMade'
  <2>1. chunks' = Chunk(cleaned')
    BY <1>1
  <2> QED
    BY <1>1, <2>1 DEF ChunksMade
<1>3. SourceIs' /\ Loaded'
  BY <1>1 DEF ProcessInv, SourceIs, Loaded, Landed
<1>4. Routed'
  <2>1. Allowed(policy, blob.type, blob.extension)' <=> Allowed(policy, blob.type, blob.extension)
    BY <1>1 DEF Allowed
  <2>2. Honest' <=> Honest
    BY <1>1 DEF Honest
  <2> QED
    BY <1>1, <2>1, <2>2 DEF ProcessInv, Routed
<1>5. DocumentsTyped'
  BY <1>1 DEF ProcessInv, DocumentsTyped, IsDocument, IsSequence
<1>6. (blob.content \in Contents)' /\ (stage \in Stage)'
  BY <1>1 DEF ProcessInv, Stage
<1> QED
  BY <1>2, <1>3, <1>4, <1>5, <1>6 DEF ProcessInv

\* The invariant holds whatever the sources, the policies, the servers and MarkItDown do.
THEOREM ProcessInvariant == ProcessSpec => []ProcessInv
<1>1. ASSUME ProcessInv, UNCHANGED processVars PROVE ProcessInv'
  <2>1. /\ UNCHANGED source /\ UNCHANGED policy /\ UNCHANGED stage /\ UNCHANGED blob
        /\ UNCHANGED handler /\ UNCHANGED sections /\ UNCHANGED cleaned /\ UNCHANGED chunks
    BY <1>1 DEF processVars
  <2>2. ChunksMade'
    <3>1. chunks = Chunk(cleaned) => chunks' = Chunk(cleaned')
      BY <2>1
    <3> QED
      BY <1>1, <2>1, <3>1 DEF ProcessInv, ChunksMade
  <2>3. Allowed(policy, blob.type, blob.extension)' <=> Allowed(policy, blob.type, blob.extension)
    BY <2>1 DEF Allowed
  <2>4. Routed'
    BY <1>1, <2>1, <2>3 DEF ProcessInv, Routed, Honest
  <2>5. DocumentsTyped'
    BY <1>1, <2>1 DEF ProcessInv, DocumentsTyped, IsDocument, IsSequence
  <2>6. SourceIs' /\ Loaded' /\ (blob.content \in Contents)' /\ (stage \in Stage)'
    BY <1>1, <2>1 DEF ProcessInv, SourceIs, Loaded, Landed
  <2> QED
    BY <2>2, <2>4, <2>5, <2>6 DEF ProcessInv
<1>2. ProcessInv /\ [ProcessNext]_processVars => ProcessInv'
  BY <1>1, LoadRawKeeps, RefuseSchemeKeeps, LoadFileKeeps, LoadUriKeeps, LoadHttpKeeps,
     RouteSourceKeeps, ParseSourceKeeps, CleanSectionsKeeps, ChunkSectionsKeeps DEF ProcessNext
<1> QED
  BY <1>2, ProcessInvInit, PTL DEF ProcessSpec

\* What the invariant implies: the types,
LEMMA ProcessInvTypes == ProcessInv => ProcessTypeOK
<1> SUFFICES ASSUME ProcessInv PROVE ProcessTypeOK
  OBVIOUS
<1>1. stage \in {"load", "route", "parse", "clean", "chunk", "done"} \cup Error
  BY DEF ProcessInv, Stage
<1>2. /\ Len(cleaned) <= Len(sections)
      /\ \A i, j \in DOMAIN sections : sections[i].section_id = sections[j].section_id => i = j
  BY DEF ProcessInv, DocumentsTyped, IsDocument
<1>3. CASE stage = "done"
  <2>1. ChunksOf(chunks, Pack(Units(cleaned)), cleaned)
    BY <1>3, ChunkIs DEF ProcessInv, ChunksMade, DocumentsTyped
  <2> DEFINE groups == Pack(Units(cleaned))
  <2>2. Packs(groups, Units(cleaned))
    BY UnitsAre, PackPacks DEF ProcessInv, DocumentsTyped, UnitsOf
  <2> HIDE DEF groups
  <2>3. Len(groups) \in Nat /\ DOMAIN groups = 1 .. Len(groups) /\ (groups # <<>> => Len(groups) > 0)
    BY <2>2 DEF Packs, Groups
  <2>4. 1 \in DOMAIN chunks /\ \A i \in DOMAIN chunks : chunks[i].chunk_index = i - 1
    BY <2>1, <2>3 DEF ChunksOf, groups
  <2>5. chunks # <<>>
    BY <2>4
  <2> QED
    BY <1>1, <1>2, <1>3, <2>4, <2>5 DEF ProcessTypeOK
<1>4. CASE stage # "done"
  <2>1. chunks = <<>>
    BY <1>4 DEF ProcessInv, ChunksMade
  <2> QED
    BY <1>1, <1>2, <1>4, <2>1 DEF ProcessTypeOK
<1> QED
  BY <1>3, <1>4

\* the choice of a handler,
LEMMA ProcessInvFits == ProcessInv => RouteFits
BY DEF ProcessInv, Loaded, Landed, Routed, RouteFits

\* and the chunks.
LEMMA ProcessInvCovers == ProcessInv => ChunksCover
<1> SUFFICES ASSUME ProcessInv PROVE ChunksCover
  OBVIOUS
<1>1. CASE stage = "done"
  <2>1. IsDocument(cleaned) /\ chunks = Chunk(cleaned)
    BY SMTT(40), <1>1 DEF ProcessInv, DocumentsTyped, ChunksMade
  <2> QED
    BY <2>1, CoverIs
<1>2. CASE stage # "done"
  BY <1>2 DEF ChunksCover
<1> QED
  BY <1>1, <1>2

\* Chunks are numbered without gaps and exist only once every step succeeded, and no two
\* sections share an id (service.py:50-74).
THEOREM ProcessTypes == ProcessSpec => []ProcessTypeOK
BY ProcessInvariant, ProcessInvTypes, PTL

\* What goes to a handler was asked for within the policy, and an honest source goes to the
\* handler of its kind, for every content, policy, answer of a server and redirect
\* (fetchers.py:38-64, router.py:38-74).
THEOREM ProcessFits == ProcessSpec => []RouteFits
BY ProcessInvariant, ProcessInvFits, PTL

\* Every character of the cleaned sections is in exactly one chunk, in order; chunks are not
\* too long, packed greedily, and cite the pages they are from, for every document and every
\* max_chars (section.py:29-169).
THEOREM ProcessCovers == ProcessSpec => []ChunksCover
BY ProcessInvariant, ProcessInvCovers, PTL

-----------------------------------------------------------------------------
(* What is kept of a source.                                               *)

\* Sections are what a reader sees of the file, until they are cleaned.
SectionsRead ==
  stage \in {"clean", "chunk", "done"} /\ handler = blob.content.kind =>
    Faithful(sections, blob.content) /\ PagesOfFile(sections, blob.content)

SectionsCleaned == stage \in {"chunk", "done"} => cleaned = Clean(sections, policy.cleaning)

KeepsInv == ProcessInv /\ SectionsRead /\ SectionsCleaned

\* Nothing is read before the parser ran.
LEMMA Unread == stage \notin {"clean", "chunk", "done"} => SectionsRead /\ SectionsCleaned
BY DEF SectionsRead, SectionsCleaned

\* Loading and routing end before it.
LEMMA LoadingUnread ==
  ASSUME ProcessInv,
         \/ LoadRaw \/ RefuseScheme \/ LoadFile \/ LoadUri \/ RouteSource
         \/ \E header \in Header, extension \in {source.extension, ""}, landed \in Web :
              LoadHttp(header, extension, landed)
  PROVE  stage' \notin {"clean", "chunk", "done"}
<1> DEFINE Early == stage' \notin {"clean", "chunk", "done"}
<1>1. \A error \in Error : Refuse(error) => Early
  BY DEF Refuse, Error
<1>2. {"SourceLoadError", "SourceTooLarge"} \subseteq Error
  BY DEF Error
<1>3. ASSUME NEW content, NEW declared, NEW extension, NEW scheme,
             MakeBlob(content, declared, extension, scheme)
      PROVE  Early
  BY <1>1, <1>2, <1>3 DEF MakeBlob
<1>4. CASE LoadRaw
  BY <1>3, <1>4 DEF LoadRaw
<1>5. CASE RefuseScheme
  BY <1>1, <1>2, <1>5 DEF RefuseScheme
<1>6. CASE LoadFile
  BY <1>1, <1>2, <1>3, <1>6 DEF LoadFile
<1>7. CASE LoadUri
  BY <1>3, <1>7 DEF LoadUri
<1>8. CASE RouteSource
  <2> DEFINE route == Route(policy, blob.type, blob.extension)
  <2>1. stage' = IF route.error = "" THEN "parse" ELSE route.error
    BY <1>8 DEF RouteSource
  <2>2. RouteIsFit(route, policy, blob.type, blob.extension)
    BY RouteIs
  <2> HIDE DEF route
  <2> QED
    BY <2>1, <2>2 DEF RouteIsFit
<1>9. ASSUME NEW header, NEW extension, NEW landed, LoadHttp(header, extension, landed)
      PROVE  Early
  BY <1>1, <1>2, <1>3, <1>9 DEF LoadHttp
<1> QED
  BY <1>4, <1>5, <1>6, <1>7, <1>8, <1>9

\* The handler reads the file, and the cleaner takes what was read.
LEMMA ReadNext == KeepsInv /\ [ProcessNext]_processVars => (SectionsRead /\ SectionsCleaned)'
<1> SUFFICES ASSUME KeepsInv, [ProcessNext]_processVars PROVE (SectionsRead /\ SectionsCleaned)'
  OBVIOUS
<1>1. ProcessInv /\ SectionsRead /\ SectionsCleaned
  BY DEF KeepsInv
<1>2. ASSUME stage' \notin {"clean", "chunk", "done"} PROVE (SectionsRead /\ SectionsCleaned)'
  BY <1>2 DEF SectionsRead, SectionsCleaned
<1>3. ASSUME NEW converted \in Conversion, ParseSource(converted)
      PROVE  (SectionsRead /\ SectionsCleaned)'
  <2> DEFINE parsed == Parse(handler, blob.content, converted)
  <2>1. /\ stage = "parse"
        /\ stage' = IF parsed.error = "" THEN "clean" ELSE parsed.error
        /\ sections' = parsed.sections
        /\ blob' = blob /\ handler' = handler
    BY <1>3 DEF ParseSource
  <2>2. handler \in Handled /\ blob.content \in Contents
    BY <1>1, <2>1 DEF ProcessInv, Routed
  <2>3. Output(parsed)
    BY <2>2, ParseIs
  <2>4. CASE parsed.error = ""
    <3>1. ASSUME handler = blob.content.kind
          PROVE  Faithful(parsed.sections, blob.content) /\ PagesOfFile(parsed.sections, blob.content)
      <4>1. parsed = Parse(blob.content.kind, blob.content, converted)
        BY <3>1
      <4> DEFINE content == blob.content
      <4>2. content \in Contents /\ Parse(content.kind, content, converted).error = ""
        BY <2>2, <2>4, <4>1
      <4> HIDE DEF content
      <4>3. Faithful(Parse(content.kind, content, converted).sections, content)
        BY <4>2, ParseFaithful
      <4>4. PagesOfFile(Parse(content.kind, content, converted).sections, content)
        BY <4>2, ParsePages
      <4> QED
        BY <4>1, <4>3, <4>4 DEF content
    <3> HIDE DEF parsed
    <3>2. handler' = blob'.content.kind =>
            Faithful(sections', blob'.content) /\ PagesOfFile(sections', blob'.content)
      BY <2>1, <3>1
    <3>3. stage' = "clean"
      BY <2>1, <2>4
    <3> QED
      BY <3>2, <3>3 DEF SectionsRead, SectionsCleaned
  <2>5. CASE parsed.error # ""
    <3> HIDE DEF parsed
    <3>1. stage' \in Error
      BY <2>1, <2>3, <2>5 DEF Output
    <3> QED
      BY <1>2, <3>1 DEF Error
  <2> QED
    BY <2>4, <2>5
<1>4. ASSUME stage \in {"clean", "chunk", "done"}, UNCHANGED <<blob, handler, sections>>
      PROVE  SectionsRead'
  BY <1>1, <1>4 DEF SectionsRead
<1>5. CASE CleanSections
  <2>1. stage = "clean" /\ stage' = "chunk" /\ cleaned' = Clean(sections, policy.cleaning)
        /\ UNCHANGED <<blob, handler, sections>> /\ UNCHANGED policy
    BY <1>5 DEF CleanSections
  <2>2. cleaned' = Clean(sections', policy'.cleaning)
    BY <2>1
  <2> QED
    BY <1>4, <2>1, <2>2 DEF SectionsCleaned
<1>6. ASSUME stage \in {"chunk", "done"}, UNCHANGED <<sections, policy, cleaned>>
      PROVE  SectionsCleaned'
  <2>1. cleaned' = Clean(sections', policy'.cleaning)
    BY <1>1, <1>6 DEF SectionsCleaned
  <2> QED
    BY <2>1 DEF SectionsCleaned
<1>7. CASE ChunkSections
  BY <1>4, <1>6, <1>7 DEF ChunkSections
<1>8. CASE UNCHANGED processVars
  <2>1. /\ UNCHANGED stage /\ UNCHANGED <<blob, handler, sections>>
        /\ UNCHANGED <<sections, policy, cleaned>>
    BY <1>8 DEF processVars
  <2>2. CASE stage \notin {"clean", "chunk", "done"}
    BY <1>2, <2>1, <2>2
  <2>3. CASE stage = "clean"
    BY <1>4, <2>1, <2>3 DEF SectionsCleaned
  <2>4. CASE stage \in {"chunk", "done"}
    BY <1>4, <1>6, <2>1, <2>4
  <2> QED
    BY <2>2, <2>3, <2>4
<1> QED
  BY <1>1, <1>2, <1>3, <1>5, <1>7, <1>8, LoadingUnread DEF ProcessNext

\* What was read and cleaned is what may be lost of it.
LEMMA KeepsInvKeeps == KeepsInv => TextKept
<1> SUFFICES ASSUME KeepsInv, stage = "done", handler = blob.content.kind PROVE TextKept
  BY DEF TextKept
<1> DEFINE content == blob.content
           kept == SectionFragments(cleaned)
           seen == Occurrences(content)
           mayBeLost == {i \in DOMAIN seen : MayBeLost(content, seen[i])}
           lostFrom == {i \in DOMAIN seen : LostFrom(sections, content, seen[i])}
<1>1. /\ content \in Contents /\ IsDocument(sections)
      /\ Faithful(sections, content) /\ PagesOfFile(sections, content)
      /\ cleaned = Clean(sections, policy.cleaning)
  BY DEF KeepsInv, ProcessInv, DocumentsTyped, SectionsRead, SectionsCleaned
<1>2. KeptFrom(kept, sections, content)
  <2> HIDE DEF content
  <2> QED
    BY <1>1, CleanKeeps
<1>3. seen \in Seq(Occurrence)
  BY <1>1, SeenFragments
<1>4. ASSUME NEW i \in DOMAIN seen, LostFrom(sections, content, seen[i])
      PROVE  MayBeLost(content, seen[i])
  <2>1. seen[i] \in Occurrence
    BY <1>3
  <2> DEFINE o == seen[i]
  <2> HIDE DEF seen, content
  <2>2. CASE o \in Headings(content)
    BY <2>2 DEF Headings, MayBeLost
  <2>3. CASE o.fragment \in Lost(sections, content)
    BY <2>3 DEF Lost, OnPages, MixedWith, MayBeLost
  <2> QED
    BY <1>4, <2>2, <2>3 DEF LostFrom
<1>5. lostFrom \subseteq mayBeLost
  BY <1>4
<1>6. kept = FlattenSeq([i \in DOMAIN cleaned |-> Fragments(cleaned[i].text)])
  BY DEF SectionFragments
<1>7. \/ seen = <<>> /\ kept \in {<<>>, <<Uri>>}
      \/ \E lost \in SUBSET lostFrom :
           kept = [k \in DOMAIN Pick(seen, DOMAIN seen \ lost) |->
                     Pick(seen, DOMAIN seen \ lost)[k].fragment]
  BY <1>2 DEF KeptFrom
<1> HIDE DEF lostFrom, mayBeLost
<1>8. \/ seen = <<>> /\ kept \in {<<>>, <<Uri>>}
      \/ \E lost \in SUBSET mayBeLost :
           kept = [k \in DOMAIN Pick(seen, DOMAIN seen \ lost) |->
                     Pick(seen, DOMAIN seen \ lost)[k].fragment]
  BY <1>5, <1>7
<1> QED
  BY <1>6, <1>8 DEF TextKept, mayBeLost

\* From the file to the cleaned sections, text is neither lost nor invented nor moved but for
\* headings, lines that pages repeat and noise, for every content, policy and conversion.
THEOREM ProcessKeepsText == ProcessSpec => []TextKept
<1>1. ProcessInit => KeepsInv
  BY ProcessInvInit, Unread DEF ProcessInit, KeepsInv
<1>2. []ProcessInv /\ SectionsRead /\ SectionsCleaned /\ [][ProcessNext]_processVars
        => [](SectionsRead /\ SectionsCleaned)
  <2>1. ProcessInv /\ (SectionsRead /\ SectionsCleaned) /\ [ProcessNext]_processVars
          => (SectionsRead /\ SectionsCleaned)'
    BY ReadNext DEF KeepsInv
  <2> QED
    BY <2>1, PTL
<1>3. ProcessInv /\ SectionsRead /\ SectionsCleaned => TextKept
  BY KeepsInvKeeps DEF KeepsInv
<1>4. ProcessInit => SectionsRead /\ SectionsCleaned
  BY <1>1 DEF KeepsInv
<1> QED
  BY <1>2, <1>3, <1>4, ProcessInvariant, PTL DEF ProcessSpec
=============================================================================
