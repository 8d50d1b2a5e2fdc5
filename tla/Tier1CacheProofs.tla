-------------------------- MODULE Tier1CacheProofs --------------------------
(***************************************************************************)
(* What the tier-1 cache keeps, for any projects, keys and values, any     *)
(* capacity and any time to live.                                          *)
(*                                                                         *)
(* RecentIsKept is not inductive: that the least recently used key is the  *)
(* right one to drop depends on the order of the store agreeing with the   *)
(* order in which the keys were used.  The invariant says so, and the      *)
(* proof counts: the keys of a full store come after the dropped one.      *)
(***************************************************************************)
EXTENDS Tier1Cache, SequenceTheorems, WellFoundedInduction, TLAPS

-----------------------------------------------------------------------------
(* Sequences without repetition.                                           *)

\* What s and t have in common comes in the same order in both, each once in s.
Follows(s, t) ==
  \A i, j \in DOMAIN s, a, b \in DOMAIN t :
    s[i] = t[a] /\ s[j] = t[b] /\ i < j => a < b

\* Induction over the natural numbers, for a set of them.
LEMMA NatInductionOnSet ==
  ASSUME NEW T, 0 \in T, \A n \in Nat : n \in T => n + 1 \in T
  PROVE  Nat \subseteq T
<1> DEFINE less == {ss \in Nat \X Nat : ss[1] < ss[2]}
<1>1. IsWellFoundedOn(less, Nat)
  BY NatLessThanWellFounded, Zenon DEF OpToRel
<1> SUFFICES ASSUME Nat \ T # {} PROVE FALSE
  OBVIOUS
<1>2. PICK m \in Nat \ T : \A n \in Nat \ T : <<n, m>> \notin less
  <2> HIDE DEF less
  <2> QED
    BY <1>1, WFMin
<1>3. m \in Nat /\ m \notin T
  OBVIOUS
<1>4. m # 0 /\ m - 1 \in Nat /\ (m - 1) + 1 = m
  BY <1>3
<1>5. <<m - 1, m>> \in less
  BY <1>3, <1>4
<1>6. m - 1 \in T
  BY <1>2, <1>4, <1>5
<1> QED
  BY <1>3, <1>4, <1>6

\* A sequence that follows one it is contained in repeats nothing.
LEMMA FollowsIsInjective ==
  ASSUME NEW S, NEW s \in Seq(S), NEW t \in Seq(S),
         Follows(s, t), Range(s) \subseteq Range(t)
  PROVE  IsInjective(s)
<1> SUFFICES ASSUME NEW i \in DOMAIN s, NEW j \in DOMAIN s, s[i] = s[j], i < j
             PROVE  FALSE
  BY DEF IsInjective
<1>1. PICK a \in DOMAIN t : t[a] = s[i]
  BY DEF Range
<1>2. a < a
  BY <1>1 DEF Follows
<1> QED
  BY <1>2

LEMMA FollowsTransitive ==
  ASSUME NEW S, NEW r \in Seq(S), NEW s \in Seq(S), NEW t \in Seq(S),
         Follows(r, s), Follows(s, t), Range(r) \subseteq Range(s)
  PROVE  Follows(r, t)
<1> SUFFICES ASSUME NEW i \in DOMAIN r, NEW j \in DOMAIN r,
                    NEW a \in DOMAIN t, NEW b \in DOMAIN t,
                    r[i] = t[a], r[j] = t[b], i < j
             PROVE  a < b
  BY DEF Follows
<1>1. PICK c \in DOMAIN s : s[c] = r[i]
  BY DEF Range
<1>2. PICK d \in DOMAIN s : s[d] = r[j]
  BY DEF Range
<1>3. c < d
  BY <1>1, <1>2 DEF Follows
<1> QED
  BY <1>1, <1>2, <1>3 DEF Follows

LEMMA FollowsItself ==
  ASSUME NEW S, NEW s \in Seq(S), IsInjective(s)
  PROVE  Follows(s, s)
BY DEF Follows, IsInjective

\* Of a sequence that follows t, the n-th is at least n - 1 places after the first in t.
LEMMA FollowsCount ==
  ASSUME NEW S, NEW s \in Seq(S), NEW t \in Seq(S),
         Follows(s, t), Range(s) \subseteq Range(t),
         IsInjective(t), NEW a \in DOMAIN t, Len(s) > 0, t[a] = s[1]
  PROVE  a + Len(s) - 1 <= Len(t)
<1> DEFINE T == {n \in Nat : n + 1 <= Len(s) =>
                   \A b \in DOMAIN t : t[b] = s[n + 1] => a + n <= b}
<1>0. Len(s) \in Nat /\ Len(t) \in Nat /\ DOMAIN t = 1 .. Len(t) /\ DOMAIN s = 1 .. Len(s)
  OBVIOUS
<1>p. \A i \in DOMAIN s : \E b \in DOMAIN t : t[b] = s[i]
  BY DEF Range
<1>1. 0 \in T
  BY <1>0 DEF IsInjective
<1>2. ASSUME NEW n \in Nat, n \in T PROVE n + 1 \in T
  <2> SUFFICES ASSUME (n + 1) + 1 <= Len(s), NEW b \in DOMAIN t, t[b] = s[(n + 1) + 1]
               PROVE  a + (n + 1) <= b
    OBVIOUS
  <2>1. PICK c \in DOMAIN t : t[c] = s[n + 1]
    <3>1. n + 1 \in DOMAIN s
      BY <1>0
    <3> QED
      BY <1>p, <3>1
  <2>2. a + n <= c
    BY <1>0, <1>2, <2>1
  <2>3. c < b
    <3>1. n + 1 \in DOMAIN s /\ (n + 1) + 1 \in DOMAIN s /\ n + 1 < (n + 1) + 1
      BY <1>0
    <3> QED
      BY <2>1, <3>1 DEF Follows
  <2> QED
    BY <1>0, <2>2, <2>3
<1>3. Len(s) - 1 \in T
  <2> HIDE DEF T
  <2>1. Nat \subseteq T
    BY <1>1, <1>2, NatInductionOnSet
  <2> QED
    BY <1>0, <2>1
<1>4. PICK b \in DOMAIN t : t[b] = s[Len(s)]
  BY <1>0, <1>p
<1>5. Len(s) - 1 \in Nat /\ (Len(s) - 1) + 1 = Len(s)
  BY <1>0
<1>6. a + (Len(s) - 1) <= b
  BY <1>3, <1>4, <1>5
<1> QED
  BY <1>0, <1>4, <1>6

LEMMA RemoveAtIs ==
  ASSUME NEW S, NEW s \in Seq(S), NEW i \in 1 .. Len(s)
  PROVE  /\ RemoveAt(s, i) \in Seq(S)
         /\ Len(RemoveAt(s, i)) = Len(s) - 1
         /\ \A j \in 1 .. Len(s) - 1 :
              RemoveAt(s, i)[j] = IF j < i THEN s[j] ELSE s[j + 1]
<1> DEFINE a == SubSeq(s, 1, i - 1)
           b == SubSeq(s, i + 1, Len(s))
<1>0. Len(s) \in Nat
  OBVIOUS
<1>1. a \in Seq(S) /\ Len(a) = i - 1 /\ \A j \in 1 .. i - 1 : a[j] = s[j]
  BY <1>0, SubSeqProperties
<1>2. b \in Seq(S) /\ Len(b) = Len(s) - i /\ \A j \in 1 .. Len(s) - i : b[j] = s[i + j]
  BY <1>0, SubSeqProperties
<1>3. RemoveAt(s, i) = a \o b
  BY DEF RemoveAt
<1> HIDE DEF a, b
<1>4. /\ a \o b \in Seq(S)
      /\ Len(a \o b) = Len(a) + Len(b)
      /\ \A j \in 1 .. Len(a) + Len(b) :
           (a \o b)[j] = IF j <= Len(a) THEN a[j] ELSE b[j - Len(a)]
  BY <1>1, <1>2, ConcatProperties
<1>5. ASSUME NEW j \in 1 .. Len(s) - 1
      PROVE  (a \o b)[j] = IF j < i THEN s[j] ELSE s[j + 1]
  <2>1. CASE j < i
    BY <1>0, <1>1, <1>2, <1>4, <2>1
  <2>2. CASE ~(j < i)
    <3>1. j - Len(a) \in 1 .. Len(s) - i
      BY <1>0, <1>1, <2>2
    <3>2. b[j - Len(a)] = s[i + (j - Len(a))]
      BY <1>2, <3>1
    <3>3. i + (j - Len(a)) = j + 1
      BY <1>0, <1>1
    <3> QED
      BY <1>0, <1>1, <1>2, <1>4, <2>2, <3>2, <3>3
  <2> QED
    BY <2>1, <2>2
<1> QED
  BY <1>0, <1>1, <1>2, <1>3, <1>4, <1>5

\* What r is when k was taken out of s: the others keep their order, and none has fewer
\* others behind it than before, but for the removed one.
Removed(S, s, k, r) ==
  /\ r \in Seq(S)
  /\ Range(r) = Range(s) \ {k}
  /\ Follows(r, s)
  /\ Len(r) = IF k \in Range(s) THEN Len(s) - 1 ELSE Len(s)
  /\ \A a \in DOMAIN s, b \in DOMAIN r :
       r[b] = s[a] => Len(s) - a <= Len(r) + 1 - b

LEMMA RemoveFirstIs ==
  ASSUME NEW S, NEW s \in Seq(S), IsInjective(s), NEW k
  PROVE  Removed(S, s, k, RemoveFirst(s, k))
<1> PICK r : r = RemoveFirst(s, k)
  OBVIOUS
<1>0. Len(s) \in Nat /\ DOMAIN s = 1 .. Len(s)
  OBVIOUS
<1>1. CASE k \notin Range(s)
  <2>1. r = s
    BY <1>0, <1>1, Zenon DEF RemoveFirst, Range
  <2> QED
    BY <1>0, <1>1, <2>1, FollowsItself DEF IsInjective, Removed
<1>2. CASE k \in Range(s)
  <2>1. PICK i \in 1 .. Len(s) : s[i] = k
    BY <1>0, <1>2 DEF Range
  <2>2. {j \in 1 .. Len(s) : s[j] = k} = {i}
    BY <2>1 DEF IsInjective
  <2>3. Min({i}) = i
    BY DEF Min
  <2>4. SelectInSeq(s, LAMBDA v : v = k) = i
    BY <2>2, <2>3, Zenon DEF SelectInSeq
  <2>5. r = RemoveAt(s, i)
    BY <2>1, <2>4, Zenon DEF RemoveFirst
  <2>6. /\ r \in Seq(S)
        /\ Len(r) = Len(s) - 1
        /\ \A j \in 1 .. Len(s) - 1 : r[j] = IF j < i THEN s[j] ELSE s[j + 1]
    BY <2>5, RemoveAtIs
  <2>7. DOMAIN r = 1 .. Len(s) - 1
    BY <2>6
  <2>8. ASSUME NEW b \in DOMAIN r, NEW a \in DOMAIN s, r[b] = s[a]
        PROVE  a = IF b < i THEN b ELSE b + 1
    <3>1. CASE b < i
      BY <1>0, <2>6, <2>7, <2>8, <3>1 DEF IsInjective
    <3>2. CASE ~(b < i)
      <4>1. b + 1 \in DOMAIN s /\ r[b] = s[b + 1]
        BY <1>0, <2>6, <2>7, <3>2
      <4> QED
        BY <1>0, <2>7, <2>8, <3>2, <4>1 DEF IsInjective
    <3> QED
      BY <3>1, <3>2
  <2>9. Range(r) = Range(s) \ {k}
    <3>1. ASSUME NEW b \in DOMAIN r PROVE r[b] \in Range(s) \ {k}
      <4>1. CASE b < i
        <5>1. b \in DOMAIN s /\ r[b] = s[b] /\ b # i
          BY <1>0, <2>6, <2>7, <4>1
        <5> QED
          BY <1>0, <2>1, <5>1 DEF IsInjective, Range
      <4>2. CASE ~(b < i)
        <5>1. b + 1 \in DOMAIN s /\ r[b] = s[b + 1] /\ b + 1 # i
          BY <1>0, <2>6, <2>7, <4>2
        <5> QED
          BY <1>0, <2>1, <5>1 DEF IsInjective, Range
      <4> QED
        BY <4>1, <4>2
    <3>2. ASSUME NEW a \in DOMAIN s, s[a] # k PROVE s[a] \in Range(r)
      <4>1. CASE a < i
        <5>1. a \in DOMAIN r /\ r[a] = s[a]
          BY <1>0, <2>6, <2>7, <4>1
        <5> QED
          BY <5>1 DEF Range
      <4>2. CASE ~(a < i)
        <5>1. a # i
          BY <2>1, <3>2
        <5>2. a - 1 \in DOMAIN r /\ r[a - 1] = s[(a - 1) + 1] /\ (a - 1) + 1 = a
          BY <1>0, <2>6, <2>7, <4>2, <5>1
        <5>3. r[a - 1] = s[a]
          BY <5>2
        <5> QED
          BY <5>2, <5>3 DEF Range
      <4> QED
        BY <4>1, <4>2
    <3> QED
      BY <3>1, <3>2 DEF Range
  <2>10. Follows(r, s)
    <3> SUFFICES ASSUME NEW x \in DOMAIN r, NEW y \in DOMAIN r,
                        NEW a \in DOMAIN s, NEW b \in DOMAIN s,
                        r[x] = s[a], r[y] = s[b], x < y
                 PROVE  a < b
      BY DEF Follows
    <3> QED
      BY <2>7, <2>8
  <2> QED
    BY <1>0, <1>2, <2>6, <2>7, <2>8, <2>9, <2>10 DEF Removed
<1> QED
  BY <1>1, <1>2

\* What q is when k was appended to s, both over S.
Appended(S, s, k, q) ==
  /\ q \in Seq(S)
  /\ DOMAIN q = 1 .. Len(s) + 1
  /\ Len(q) = Len(s) + 1
  /\ \A i \in DOMAIN s : q[i] = s[i]
  /\ q[Len(s) + 1] = k
  /\ Range(q) = Range(s) \cup {k}

LEMMA AppendIs ==
  ASSUME NEW S, NEW s \in Seq(S), NEW k \in S
  PROVE  Appended(S, s, k, Append(s, k))
<1> DEFINE m == Append(s, k)
<1>1. /\ m \in Seq(S) /\ Len(m) = Len(s) + 1
      /\ \A i \in 1 .. Len(s) : m[i] = s[i]
      /\ m[Len(s) + 1] = k
  BY AppendProperties
<1>2. Len(s) \in Nat /\ DOMAIN s = 1 .. Len(s) /\ DOMAIN m = 1 .. Len(s) + 1
  BY <1>1
<1> HIDE DEF m
<1>3. Range(m) = Range(s) \cup {k}
  <2>1. ASSUME NEW i \in DOMAIN m PROVE m[i] \in Range(s) \cup {k}
    <3>1. i \in DOMAIN s \/ i = Len(s) + 1
      BY <1>2
    <3> QED
      BY <1>1, <1>2, <3>1 DEF Range
  <2>2. ASSUME NEW i \in DOMAIN s PROVE s[i] \in Range(m)
    <3>1. i \in DOMAIN m /\ m[i] = s[i]
      BY <1>1, <1>2
    <3> QED
      BY <3>1 DEF Range
  <2>3. k \in Range(m)
    <3>1. Len(s) + 1 \in DOMAIN m
      BY <1>2
    <3> QED
      BY <1>1, <3>1 DEF Range
  <2> QED
    BY <2>1, <2>2, <2>3 DEF Range
<1> QED
  BY <1>1, <1>2, <1>3 DEF m, Appended

\* What m is when k was moved to the end of t: k is the last one, the others keep their
\* order, and no other has fewer keys behind it than before.
Moved(S, t, k, m) ==
  /\ m \in Seq(S)
  /\ IsInjective(m)
  /\ Range(m) = Range(t) \cup {k}
  /\ Len(m) = IF k \in Range(t) THEN Len(t) ELSE Len(t) + 1
  /\ m[Len(m)] = k
  /\ \A a \in DOMAIN t, b \in DOMAIN m :
       t[a] # k /\ m[b] = t[a] => Len(t) - a <= Len(m) - b
  /\ \A a, c \in DOMAIN t, b, d \in DOMAIN m :
       t[a] # k /\ t[c] # k /\ m[b] = t[a] /\ m[d] = t[c] /\ a < c => b < d

LEMMA MoveToEndIs ==
  ASSUME NEW S, NEW t \in Seq(S), IsInjective(t), NEW k \in S
  PROVE  Moved(S, t, k, MoveToEnd(t, k))
<1> PICK m : m = MoveToEnd(t, k)
  OBVIOUS
<1> PICK r : r = RemoveFirst(t, k)
  OBVIOUS
<1>0. Len(t) \in Nat /\ DOMAIN t = 1 .. Len(t)
  OBVIOUS
<1>1. /\ r \in Seq(S)
      /\ Range(r) = Range(t) \ {k}
      /\ Follows(r, t)
      /\ Len(r) = IF k \in Range(t) THEN Len(t) - 1 ELSE Len(t)
      /\ \A a \in DOMAIN t, b \in DOMAIN r :
           r[b] = t[a] => Len(t) - a <= Len(r) + 1 - b
  BY RemoveFirstIs DEF Removed
<1>2. m = Append(r, k)
  BY DEF MoveToEnd
<1>3. IsInjective(r)
  BY <1>1, FollowsIsInjective
<1>4. Len(r) \in Nat /\ DOMAIN r = 1 .. Len(r)
  BY <1>1
<1>5. /\ m \in Seq(S)
      /\ DOMAIN m = 1 .. Len(r) + 1
      /\ Len(m) = Len(r) + 1
      /\ \A i \in DOMAIN r : m[i] = r[i]
      /\ m[Len(r) + 1] = k
      /\ Range(m) = Range(r) \cup {k}
  BY <1>1, <1>2, AppendIs DEF Appended
<1>6. \A i \in DOMAIN m : m[i] # k => i \in DOMAIN r
  BY <1>4, <1>5
<1>7. \A i \in DOMAIN r : r[i] # k
  BY <1>1 DEF Range
<1>8. IsInjective(m)
  <2> SUFFICES ASSUME NEW i \in DOMAIN m, NEW j \in DOMAIN m, m[i] = m[j]
               PROVE  i = j
    BY DEF IsInjective
  <2>1. CASE m[i] = k
    <3>1. i \notin DOMAIN r /\ j \notin DOMAIN r
      BY <1>5, <1>7, <2>1
    <3> QED
      BY <1>4, <1>5, <3>1
  <2>2. CASE m[i] # k
    BY <1>3, <1>5, <1>6, <2>2 DEF IsInjective
  <2> QED
    BY <2>1, <2>2
<1>9. ASSUME NEW a \in DOMAIN t, NEW b \in DOMAIN m, t[a] # k, m[b] = t[a]
      PROVE  Len(t) - a <= Len(m) - b
  <2>1. b \in DOMAIN r /\ r[b] = t[a]
    BY <1>5, <1>6, <1>9
  <2>2. Len(t) - a <= Len(r) + 1 - b
    BY <1>1, <2>1
  <2> QED
    BY <1>5, <2>2
<1>10. ASSUME NEW a \in DOMAIN t, NEW c \in DOMAIN t, NEW b \in DOMAIN m, NEW d \in DOMAIN m,
              t[a] # k, t[c] # k, m[b] = t[a], m[d] = t[c], a < c
       PROVE  b < d
  <2>1. b \in DOMAIN r /\ r[b] = t[a] /\ d \in DOMAIN r /\ r[d] = t[c]
    BY <1>5, <1>6, <1>10
  <2>2. b # d
    BY <1>0, <1>10, <2>1 DEF IsInjective
  <2>3. ~(d < b)
    <3>1. d < b => c < a
      BY <1>1, <2>1 DEF Follows
    <3> QED
      BY <1>0, <1>10, <3>1
  <2> QED
    BY <1>4, <2>1, <2>2, <2>3
<1> QED
  BY <1>1, <1>4, <1>5, <1>8, <1>9, <1>10 DEF Moved

\* What follows t follows it still after both had k put at the end.
LEMMA AppendFollows ==
  ASSUME NEW S, NEW s \in Seq(S), NEW t \in Seq(S), NEW k \in S,
         IsInjective(t), Follows(s, t), Range(s) \subseteq Range(t), k \notin Range(s)
  PROVE  Follows(Append(s, k), MoveToEnd(t, k))
<1> PICK m : m = MoveToEnd(t, k)
  OBVIOUS
<1> DEFINE q == Append(s, k)
<1>0. Len(s) \in Nat /\ DOMAIN s = 1 .. Len(s)
  OBVIOUS
<1>1. /\ m \in Seq(S)
      /\ IsInjective(m)
      /\ m[Len(m)] = k
      /\ Range(m) = Range(t) \cup {k}
      /\ \A a, c \in DOMAIN t, b, d \in DOMAIN m :
           t[a] # k /\ t[c] # k /\ m[b] = t[a] /\ m[d] = t[c] /\ a < c => b < d
  BY MoveToEndIs DEF Moved
<1>2. /\ DOMAIN q = 1 .. Len(s) + 1
      /\ \A i \in DOMAIN s : q[i] = s[i]
      /\ q[Len(s) + 1] = k
  BY AppendIs DEF Appended
<1> HIDE DEF q
<1>3. Len(m) \in Nat /\ DOMAIN m = 1 .. Len(m)
  BY <1>1
<1>4. SUFFICES ASSUME NEW i \in DOMAIN q, NEW j \in DOMAIN q, NEW b \in DOMAIN m, NEW d \in DOMAIN m,
                      q[i] = m[b], q[j] = m[d], i < j
               PROVE  b < d
  BY DEF Follows, q
<1>5. i \in DOMAIN s /\ q[i] = s[i] /\ s[i] # k
  BY <1>0, <1>2, <1>4 DEF Range
<1>6. PICK a \in DOMAIN t : t[a] = s[i]
  BY <1>5 DEF Range
<1>7. CASE j \in DOMAIN s
  <2>1. q[j] = s[j] /\ s[j] # k
    BY <1>2, <1>7 DEF Range
  <2>2. PICK c \in DOMAIN t : t[c] = s[j]
    BY <1>7 DEF Range
  <2>3. a < c
    BY <1>4, <1>5, <1>6, <1>7, <2>2 DEF Follows
  <2> QED
    BY <1>1, <1>4, <1>5, <1>6, <2>1, <2>2, <2>3
<1>8. CASE j \notin DOMAIN s
  <2>1. q[j] = k
    BY <1>0, <1>2, <1>8
  <2>2. d = Len(m)
    <3>1. Len(m) \in DOMAIN m /\ m[d] = m[Len(m)]
      BY <1>1, <1>3, <1>4, <2>1
    <3> QED
      BY <1>1, <1>4, <3>1 DEF IsInjective
  <2>3. b # Len(m)
    BY <1>1, <1>4, <1>5
  <2> QED
    BY <1>3, <2>2, <2>3
<1> QED
  BY <1>7, <1>8

\* Kept is what its recursion says: the function it defines exists.
LEMMA KeptFunction ==
  ASSUME NEW keys, Len(keys) \in Nat, NEW live
  PROVE  \E f : /\ Kept(keys, live) = f[Len(keys)]
                /\ f = [n \in 0 .. Len(keys) |->
                          IF n = 0 THEN <<>>
                          ELSE IF keys[n] \in live THEN Append(f[n - 1], keys[n])
                          ELSE f[n - 1]]
<1> DEFINE step(f, n) ==
             IF n = 0 THEN <<>>
             ELSE IF keys[n] \in live THEN Append(f[n - 1], keys[n])
             ELSE f[n - 1]
           T == {m \in Nat : \E g : g = [n \in 0 .. m |-> step(g, n)]}
<1>1. 0 \in T
  <2> DEFINE g == [n \in 0 .. 0 |-> <<>>]
  <2>1. g = [n \in 0 .. 0 |-> step(g, n)]
    OBVIOUS
  <2> QED
    BY <2>1
<1>2. ASSUME NEW m \in Nat, m \in T PROVE m + 1 \in T
  <2>1. PICK g : g = [n \in 0 .. m |-> step(g, n)]
    BY <1>2
  <2> DEFINE h == [n \in 0 .. m + 1 |-> IF n = m + 1 THEN step(g, n) ELSE g[n]]
  <2>2. ASSUME NEW n \in 0 .. m + 1 PROVE h[n] = step(h, n)
    <3>1. CASE n = m + 1
      <4>1. h[m] = g[m] /\ h[m + 1] = step(g, m + 1)
        OBVIOUS
      <4> QED
        BY <3>1, <4>1
    <3>2. CASE n \in 0 .. m
      <4>1. h[n] = g[n] /\ (n # 0 => h[n - 1] = g[n - 1])
        BY <3>2
      <4>2. g[n] = step(g, n)
        BY <2>1, <3>2
      <4> QED
        BY <3>2, <4>1, <4>2
    <3> QED
      BY <3>1, <3>2
  <2>3. h = [n \in 0 .. m + 1 |-> step(h, n)]
    BY <2>2
  <2>4. \E f : f = [n \in 0 .. m + 1 |-> step(f, n)]
    <3> HIDE DEF h, step
    <3> QED
      BY <2>3
  <2> QED
    BY <2>4
<1>3. Len(keys) \in T
  <2> HIDE DEF T
  <2>1. Nat \subseteq T
    BY <1>1, <1>2, NatInductionOnSet
  <2> QED
    BY <2>1
<1> DEFINE kept == CHOOSE f : f = [n \in 0 .. Len(keys) |-> step(f, n)]
<1>4. kept = [n \in 0 .. Len(keys) |-> step(kept, n)]
  BY <1>3
<1>5. Kept(keys, live) = kept[Len(keys)]
  BY Zenon DEF Kept
<1> QED
  BY <1>4, <1>5

\* Kept takes the keys of a set, each once, in their order.
LEMMA KeptIs ==
  ASSUME NEW S, NEW keys \in Seq(S), IsInjective(keys), NEW live
  PROVE  /\ Kept(keys, live) \in Seq(S)
         /\ Len(Kept(keys, live)) <= Len(keys)
         /\ Range(Kept(keys, live)) = Range(keys) \cap live
         /\ Follows(Kept(keys, live), keys)
<1>0. Len(keys) \in Nat /\ DOMAIN keys = 1 .. Len(keys) /\ \A i \in DOMAIN keys : keys[i] \in S
  OBVIOUS
<1>1. PICK f : /\ Kept(keys, live) = f[Len(keys)]
               /\ f = [n \in 0 .. Len(keys) |->
                         IF n = 0 THEN <<>>
                         ELSE IF keys[n] \in live THEN Append(f[n - 1], keys[n])
                         ELSE f[n - 1]]
  BY <1>0, KeptFunction
<1> DEFINE Good(n, s) ==
             /\ s \in Seq(S)
             /\ Len(s) <= n
             /\ Range(s) = {keys[a] : a \in 1 .. n} \cap live
             /\ Follows(s, keys)
           T == {n \in Nat : n <= Len(keys) => Good(n, f[n])}
<1>2. 0 \in T
  <2>1. f[0] = <<>>
    BY <1>0, <1>1
  <2>2. Good(0, <<>>)
    BY DEF Range, Follows
  <2> QED
    BY <2>1, <2>2
<1>3. ASSUME NEW n \in Nat, n \in T PROVE n + 1 \in T
  <2> SUFFICES ASSUME n + 1 <= Len(keys) PROVE Good(n + 1, f[n + 1])
    OBVIOUS
  <2>0. n \in 0 .. Len(keys) /\ n + 1 \in 0 .. Len(keys) /\ n + 1 \in DOMAIN keys
    BY <1>0
  <2>1. Good(n, f[n])
    BY <1>0, <1>3, <2>0
  <2>2. f[n + 1] = IF keys[n + 1] \in live THEN Append(f[n], keys[n + 1]) ELSE f[n]
    <3>1. \A i \in 0 .. Len(keys) :
            f[i] = IF i = 0 THEN <<>>
                   ELSE IF keys[i] \in live THEN Append(f[i - 1], keys[i])
                   ELSE f[i - 1]
      BY <1>1
    <3>2. (n + 1) - 1 = n /\ n + 1 # 0
      OBVIOUS
    <3> QED
      BY <2>0, <3>1, <3>2
  <2>3. {keys[a] : a \in 1 .. n + 1} = {keys[a] : a \in 1 .. n} \cup {keys[n + 1]}
    BY <2>0
  <2>4. CASE keys[n + 1] \notin live
    BY <2>1, <2>2, <2>3, <2>4
  <2>5. CASE keys[n + 1] \in live
    <3> PICK s : s = f[n]
      OBVIOUS
    <3> PICK k \in S : k = keys[n + 1]
      BY <1>0, <2>0
    <3>1. /\ Append(s, k) \in Seq(S)
          /\ DOMAIN Append(s, k) = 1 .. Len(s) + 1
          /\ Len(Append(s, k)) = Len(s) + 1
          /\ \A i \in DOMAIN s : Append(s, k)[i] = s[i]
          /\ Append(s, k)[Len(s) + 1] = k
          /\ Range(Append(s, k)) = Range(s) \cup {k}
      BY <2>1, AppendIs DEF Appended
    <3>2. Len(s) \in Nat /\ DOMAIN s = 1 .. Len(s)
      BY <2>1
    <3>3. Follows(Append(s, k), keys)
      <4> SUFFICES ASSUME NEW i \in DOMAIN Append(s, k), NEW j \in DOMAIN Append(s, k),
                          NEW a \in DOMAIN keys, NEW b \in DOMAIN keys,
                          Append(s, k)[i] = keys[a], Append(s, k)[j] = keys[b], i < j
                   PROVE  a < b
        BY DEF Follows
      <4>1. i \in DOMAIN s /\ s[i] = keys[a]
        BY <3>1, <3>2
      <4>2. CASE j \in DOMAIN s
        BY <2>1, <3>1, <4>1, <4>2 DEF Follows
      <4>3. CASE j \notin DOMAIN s
        <5>1. b = n + 1
          <6>1. j = Len(s) + 1
            <7>1. j \in 1 .. Len(s) + 1 /\ j \notin 1 .. Len(s)
              BY <3>1, <3>2, <4>3, Zenon
            <7> QED
              BY <3>2, <7>1
          <6>2. keys[b] = keys[n + 1]
            BY <3>1, <6>1
          <6> QED
            BY <2>0, <6>2 DEF IsInjective
        <5>2. PICK c \in 1 .. n : s[i] = keys[c]
          BY <2>1, <4>1 DEF Range
        <5>3. c \in DOMAIN keys
          BY <1>0, <2>0
        <5>4. a = c
          BY <4>1, <5>2, <5>3 DEF IsInjective
        <5> QED
          BY <5>1, <5>4
      <4> QED
        BY <4>2, <4>3
    <3>4. Good(n + 1, Append(s, k))
      BY <2>1, <2>3, <2>5, <3>1, <3>2, <3>3
    <3> QED
      BY <2>2, <2>5, <3>4
  <2> QED
    BY <2>4, <2>5
<1>4. Len(keys) \in T
  <2> HIDE DEF T
  <2>1. Nat \subseteq T
    BY <1>2, <1>3, NatInductionOnSet
  <2> QED
    BY <1>0, <2>1
<1>5. Good(Len(keys), Kept(keys, live))
  BY <1>0, <1>1, <1>4
<1>6. {keys[a] : a \in 1 .. Len(keys)} = Range(keys)
  BY <1>0 DEF Range
<1> QED
  BY <1>5, <1>6

-----------------------------------------------------------------------------
(* One project's store: its order, its entries, and the two histories.     *)

StoreSound(o, e, r, l) ==
  /\ o \in Seq(Key)
  /\ r \in Seq(Key)
  /\ e \in [Key -> Entry \cup {None}]
  /\ l \in [Key -> Entry \cup {None}]
  /\ Range(o) = {k \in Key : e[k] # None}
  /\ Len(o) <= MaxEntries
  /\ Range(r) = {k \in Key : l[k] # None}
  /\ IsInjective(r)
  /\ Follows(o, r)
  /\ \A k \in Key : e[k] # None => e[k] = l[k]
  /\ \A b \in DOMAIN r :
       Live(l[r[b]]) /\ e[r[b]] = None => b + MaxEntries <= Len(r)

LEMMA StoreOrder ==
  ASSUME NEW o, NEW e, NEW r, NEW l, StoreSound(o, e, r, l)
  PROVE  Range(o) \subseteq Range(r) /\ IsInjective(o)
<1>1. Range(o) \subseteq Range(r)
  BY DEF StoreSound
<1> QED
  BY <1>1, FollowsIsInjective DEF StoreSound

LEMMA HitSound ==
  ASSUME NEW o, NEW e, NEW r, NEW l, StoreSound(o, e, r, l),
         NEW k \in Key, e[k] # None
  PROVE  StoreSound(MoveToEnd(o, k), e, MoveToEnd(r, k), l)
<1>1. k \in Range(o) /\ k \in Range(r)
  BY StoreOrder DEF StoreSound
<1> PICK q : q = RemoveFirst(o, k)
  OBVIOUS
<1> PICK n : n = MoveToEnd(o, k)
  OBVIOUS
<1> PICK m : m = MoveToEnd(r, k)
  OBVIOUS
<1>2. o \in Seq(Key) /\ r \in Seq(Key) /\ IsInjective(o) /\ IsInjective(r) /\ Follows(o, r)
  BY StoreOrder DEF StoreSound
<1>3. q \in Seq(Key) /\ Range(q) = Range(o) \ {k} /\ Follows(q, o)
  BY <1>2, RemoveFirstIs DEF Removed
<1>4. Follows(q, r)
  BY <1>2, <1>3, StoreOrder, FollowsTransitive
<1>5. n = Append(q, k)
  BY DEF MoveToEnd
<1>6. Follows(n, m)
  BY <1>2, <1>3, <1>4, <1>5, StoreOrder, AppendFollows
<1>7. n \in Seq(Key) /\ Range(n) = Range(o) /\ Len(n) = Len(o)
  <2>1. Moved(Key, o, k, n)
    BY <1>2, MoveToEndIs
  <2>2. Range(o) \cup {k} = Range(o)
    BY <1>1
  <2> QED
    BY <1>1, <2>1, <2>2 DEF Moved
<1>8. /\ m \in Seq(Key) /\ IsInjective(m) /\ Range(m) = Range(r) /\ Len(m) = Len(r)
      /\ \A a \in DOMAIN r, b \in DOMAIN m :
           r[a] # k /\ m[b] = r[a] => Len(r) - a <= Len(m) - b
  <2>1. Moved(Key, r, k, m)
    BY <1>2, MoveToEndIs
  <2>2. Range(r) \cup {k} = Range(r)
    BY <1>1
  <2> QED
    BY <1>1, <2>1, <2>2 DEF Moved
<1>9. ASSUME NEW b \in DOMAIN m, Live(l[m[b]]), e[m[b]] = None
      PROVE  b + MaxEntries <= Len(m)
  <2>1. m[b] # k
    BY <1>9
  <2>2. PICK a \in DOMAIN r : r[a] = m[b]
    BY <1>8 DEF Range
  <2>3. a + MaxEntries <= Len(r)
    BY <1>9, <2>2 DEF StoreSound
  <2>4. Len(r) - a <= Len(m) - b
    BY <1>8, <2>1, <2>2
  <2>5. a \in Int /\ b \in Int /\ Len(r) \in Int /\ Len(m) \in Int
    BY <1>2, <1>8
  <2> QED
    BY <2>3, <2>4, <2>5, Tier1CacheAssumption DEF Tier1CacheAssumption
<1> QED
  BY <1>6, <1>7, <1>8, <1>9 DEF StoreSound

LEMMA MissSound ==
  ASSUME NEW o, NEW e, NEW r, NEW l, StoreSound(o, e, r, l),
         NEW k \in Key, ~Live(e[k])
  PROVE  StoreSound(RemoveFirst(o, k), [e EXCEPT ![k] = None], r, l)
<1> PICK q : q = RemoveFirst(o, k)
  OBVIOUS
<1> PICK f : f = [e EXCEPT ![k] = None]
  OBVIOUS
<1>1. o \in Seq(Key) /\ r \in Seq(Key) /\ IsInjective(o) /\ IsInjective(r) /\ Follows(o, r)
  BY StoreOrder DEF StoreSound
<1>2. q \in Seq(Key) /\ Range(q) = Range(o) \ {k} /\ Follows(q, o) /\ Len(q) <= Len(o)
  BY <1>1, RemoveFirstIs DEF Removed
<1>3. Follows(q, r)
  BY <1>1, <1>2, StoreOrder, FollowsTransitive
<1>4. f \in [Key -> Entry \cup {None}] /\ f[k] = None /\ \A j \in Key \ {k} : f[j] = e[j]
  BY DEF StoreSound
<1>5. ASSUME NEW b \in DOMAIN r, Live(l[r[b]]), f[r[b]] = None
      PROVE  b + MaxEntries <= Len(r)
  <2>1. r[b] \in Key
    BY <1>1
  <2>2. CASE r[b] = k
    BY <1>5, <2>2 DEF StoreSound, Live
  <2>3. CASE r[b] # k
    BY <1>4, <1>5, <2>1, <2>3 DEF StoreSound
  <2> QED
    BY <2>2, <2>3
<1>6. Len(q) <= MaxEntries
  BY <1>1, <1>2, Tier1CacheAssumption DEF StoreSound, Tier1CacheAssumption
<1>7. Range(q) = {j \in Key : f[j] # None}
  BY <1>2, <1>4 DEF StoreSound
<1> QED
  BY <1>2, <1>3, <1>4, <1>5, <1>6, <1>7 DEF StoreSound

\* What a set leaves in the store before it appends the key: without the key, with a
\* place free, and without one other key only if the store was full of others, whose
\* first it was.
RoomFor(o, k, kept) ==
  /\ kept \in Seq(Key)
  /\ k \notin Range(kept)
  /\ Range(kept) \subseteq Range(o)
  /\ Follows(kept, o)
  /\ Len(kept) < MaxEntries
  /\ \A j \in Range(o) \ Range(kept) :
       j # k => /\ k \notin Range(o)
                /\ Len(o) >= MaxEntries
                /\ j = o[1]

LEMMA SetKeeps ==
  ASSUME NEW o, NEW e, NEW r, NEW l, StoreSound(o, e, r, l), NEW k
  PROVE  RoomFor(o, k, IF k \in Range(o) THEN RemoveFirst(o, k)
                       ELSE IF Len(o) >= MaxEntries THEN Tail(o)
                       ELSE o)
<1>1. o \in Seq(Key) /\ IsInjective(o) /\ Len(o) <= MaxEntries /\ Len(o) \in Nat
  BY StoreOrder DEF StoreSound
<1>2. MaxEntries \in Nat /\ MaxEntries > 0
  BY Tier1CacheAssumption DEF Tier1CacheAssumption
<1>3. CASE k \in Range(o)
  <2> PICK kept : kept = RemoveFirst(o, k)
    OBVIOUS
  <2>1. Removed(Key, o, k, kept)
    BY <1>1, RemoveFirstIs
  <2> QED
    BY <1>1, <1>2, <1>3, <2>1 DEF Removed, RoomFor
<1>4. CASE k \notin Range(o) /\ Len(o) >= MaxEntries
  <2> PICK kept : kept = Tail(o)
    OBVIOUS
  <2>1. o # <<>>
    BY <1>1, <1>2, <1>4
  <2>2. /\ kept \in Seq(Key) /\ Len(kept) = Len(o) - 1
        /\ \A i \in 1 .. Len(kept) : kept[i] = o[i + 1]
    BY <1>1, <2>1, HeadTailProperties
  <2>3. DOMAIN kept = 1 .. Len(o) - 1 /\ DOMAIN o = 1 .. Len(o) /\ DOMAIN kept = 1 .. Len(kept)
    BY <1>1, <2>2
  <2>4. \A i \in DOMAIN kept : i + 1 \in DOMAIN o /\ kept[i] = o[i + 1]
    <3>1. \A i \in DOMAIN kept : kept[i] = o[i + 1]
      BY <2>2, <2>3, Zenon
    <3>2. \A i \in 1 .. Len(o) - 1 : i + 1 \in 1 .. Len(o)
      BY <1>1
    <3> QED
      BY <2>3, <3>1, <3>2, Zenon
  <2>5. Range(kept) \subseteq Range(o)
    BY <2>4 DEF Range
  <2>6. Follows(kept, o)
    <3> SUFFICES ASSUME NEW i \in DOMAIN kept, NEW j \in DOMAIN kept,
                        NEW a \in DOMAIN o, NEW b \in DOMAIN o,
                        kept[i] = o[a], kept[j] = o[b], i < j
                 PROVE  a < b
      BY DEF Follows
    <3>1. a = i + 1 /\ b = j + 1
      BY <1>1, <2>4 DEF IsInjective
    <3> QED
      BY <2>3, <3>1
  <2>7. ASSUME NEW j \in Range(o) \ Range(kept) PROVE j = o[1]
    <3>1. PICK i \in DOMAIN o : o[i] = j
      BY DEF Range
    <3>2. CASE i = 1
      BY <3>1, <3>2
    <3>3. CASE i # 1
      <4>1. i - 1 \in DOMAIN kept /\ (i - 1) + 1 = i
        BY <1>1, <2>3, <3>3
      <4>2. kept[i - 1] = o[i]
        BY <2>4, <4>1
      <4> QED
        BY <3>1, <4>1, <4>2 DEF Range
    <3> QED
      BY <3>2, <3>3
  <2>8. RoomFor(o, k, kept)
    BY <1>1, <1>2, <1>4, <2>2, <2>5, <2>6, <2>7 DEF RoomFor
  <2> QED
    BY <1>4, <2>8
<1>5. CASE k \notin Range(o) /\ ~(Len(o) >= MaxEntries)
  <2>1. Follows(o, o)
    BY <1>1, FollowsItself
  <2> QED
    BY <1>1, <1>2, <1>5, <2>1 DEF RoomFor
<1> QED
  BY <1>3, <1>4, <1>5

LEMMA SetSound ==
  ASSUME NEW o, NEW e, NEW r, NEW l, StoreSound(o, e, r, l), NEW k \in Key, NEW v \in Entry,
         NEW kept, RoomFor(o, k, kept)
  PROVE  StoreSound(Append(kept, k),
                    [j \in Key |-> IF j = k THEN v
                                   ELSE IF j \in Range(kept) THEN e[j] ELSE None],
                    MoveToEnd(r, k),
                    [l EXCEPT ![k] = v])
<1> PICK n : n = Append(kept, k)
  OBVIOUS
<1> PICK m : m = MoveToEnd(r, k)
  OBVIOUS
<1> PICK f : f = [j \in Key |-> IF j = k THEN v
                                ELSE IF j \in Range(kept) THEN e[j] ELSE None]
  OBVIOUS
<1> PICK g : g = [l EXCEPT ![k] = v]
  OBVIOUS
<1>0. MaxEntries \in Nat /\ None \notin Entry
  BY Tier1CacheAssumption DEF Tier1CacheAssumption
<1>1. o \in Seq(Key) /\ r \in Seq(Key) /\ IsInjective(o) /\ IsInjective(r) /\ Follows(o, r)
  BY StoreOrder DEF StoreSound
<1>2. /\ kept \in Seq(Key)
      /\ k \notin Range(kept)
      /\ Range(kept) \subseteq Range(o)
      /\ Follows(kept, o)
      /\ Len(kept) < MaxEntries
      /\ \A j \in Range(o) \ Range(kept) :
           j # k => /\ k \notin Range(o)
                    /\ Len(o) >= MaxEntries
                    /\ j = o[1]
  BY DEF RoomFor
<1>3. Range(o) \subseteq Range(r) /\ Follows(kept, r)
  BY <1>1, <1>2, StoreOrder, FollowsTransitive
<1>4. Follows(n, m)
  <2>1. Range(kept) \subseteq Range(r)
    BY <1>2, <1>3
  <2> QED
    BY <1>1, <1>2, <1>3, <2>1, AppendFollows
<1>5. n \in Seq(Key) /\ Len(n) = Len(kept) + 1 /\ Range(n) = Range(kept) \cup {k}
  BY <1>2, AppendIs DEF Appended
<1>6. /\ m \in Seq(Key) /\ IsInjective(m) /\ Range(m) = Range(r) \cup {k}
      /\ \A a \in DOMAIN r, b \in DOMAIN m :
           r[a] # k /\ m[b] = r[a] => Len(r) - a <= Len(m) - b
  BY <1>1, MoveToEndIs DEF Moved
<1>7. /\ f \in [Key -> Entry \cup {None}]
      /\ f[k] = v
      /\ \A j \in Key \ {k} : f[j] = IF j \in Range(kept) THEN e[j] ELSE None
  BY DEF StoreSound
<1>8. /\ g \in [Key -> Entry \cup {None}]
      /\ g[k] = v
      /\ \A j \in Key \ {k} : g[j] = l[j]
  BY DEF StoreSound
<1>9. Range(n) = {j \in Key : f[j] # None}
  <2>1. \A j \in Range(kept) : j \in Key /\ j # k /\ e[j] # None
    BY <1>2 DEF StoreSound
  <2> QED
    BY <1>0, <1>5, <1>7, <2>1
<1>10. Range(m) = {j \in Key : g[j] # None}
  BY <1>0, <1>6, <1>8 DEF StoreSound
<1>11. \A j \in Key : f[j] # None => f[j] = g[j]
  BY <1>7, <1>8 DEF StoreSound
<1>12. ASSUME NEW b \in DOMAIN m, Live(g[m[b]]), f[m[b]] = None
       PROVE  b + MaxEntries <= Len(m)
  <2>1. m[b] \in Key /\ m[b] \in Range(m)
    BY <1>6 DEF Range
  <2>2. m[b] # k /\ m[b] \notin Range(kept)
    BY <1>0, <1>2, <1>7, <1>12, <2>1 DEF StoreSound
  <2>3. Live(l[m[b]])
    BY <1>8, <1>12, <2>1, <2>2
  <2>4. Len(m) \in Int /\ b \in Int /\ Len(r) \in Int /\ Len(o) \in Nat
    BY <1>1, <1>6
  <2>5. CASE m[b] \in Range(o)
    \* It is the key dropped: the rest of the full store and the new key come after it.
    <3>1. k \notin Range(o) /\ Len(o) >= MaxEntries /\ m[b] = o[1]
      BY <1>2, <2>2, <2>5
    <3> PICK q : q = Append(o, k)
      OBVIOUS
    <3>2. /\ q \in Seq(Key) /\ Len(q) = Len(o) + 1 /\ Range(q) = Range(o) \cup {k}
          /\ \A i \in DOMAIN o : q[i] = o[i]
      BY <1>1, AppendIs DEF Appended
    <3>3. Follows(q, m)
      BY <1>1, <1>3, <3>1, AppendFollows
    <3>4. Range(q) \subseteq Range(m)
      BY <1>3, <1>6, <3>2
    <3>5. q[1] = m[b] /\ Len(q) > 0
      <4>1. 1 \in DOMAIN o
        BY <1>1, <2>4, <2>5 DEF Range
      <4> QED
        BY <2>4, <3>1, <3>2, <4>1
    <3>6. b + Len(q) - 1 <= Len(m)
      BY <1>6, <3>2, <3>3, <3>4, <3>5, FollowsCount
    <3> QED
      BY <1>0, <2>4, <3>1, <3>2, <3>6
  <2>6. CASE m[b] \notin Range(o)
    <3>1. e[m[b]] = None
      BY <2>1, <2>6 DEF StoreSound
    <3>2. PICK a \in DOMAIN r : r[a] = m[b]
      BY <1>6, <2>1, <2>2 DEF Range
    <3>3. a + MaxEntries <= Len(r)
      BY <2>3, <3>1, <3>2 DEF StoreSound
    <3>4. Len(r) - a <= Len(m) - b
      BY <1>6, <2>2, <3>2
    <3>5. a \in Int
      BY <1>1
    <3> QED
      BY <1>0, <2>4, <3>3, <3>4, <3>5
  <2> QED
    BY <2>5, <2>6
<1>13. Len(n) <= MaxEntries
  BY <1>0, <1>2, <1>5
<1> QED
  BY <1>4, <1>5, <1>6, <1>7, <1>8, <1>9, <1>10, <1>11, <1>12, <1>13 DEF StoreSound

LEMMA ClearSound ==
  ASSUME NEW o, NEW e, NEW r, NEW l, StoreSound(o, e, r, l)
  PROVE  StoreSound(Kept(o, {k \in Key : Live(e[k])}),
                    [k \in Key |-> IF Live(e[k]) THEN e[k] ELSE None], r, l)
<1>1. /\ o \in Seq(Key) /\ r \in Seq(Key) /\ IsInjective(o) /\ Follows(o, r)
      /\ Range(o) \subseteq Range(r) /\ Len(o) <= MaxEntries
  <2>1. Range(o) \subseteq Range(r) /\ IsInjective(o)
    BY StoreOrder
  <2> QED
    BY <2>1 DEF StoreSound
<1> PICK live : live = {k \in Key : Live(e[k])}
  OBVIOUS
<1> PICK q : q = Kept(o, live)
  OBVIOUS
<1> PICK f : f = [k \in Key |-> IF Live(e[k]) THEN e[k] ELSE None]
  OBVIOUS
<1>2. q \in Seq(Key) /\ Len(q) <= Len(o) /\ Range(q) = Range(o) \cap live /\ Follows(q, o)
  BY <1>1, KeptIs
<1>3. Follows(q, r)
  BY <1>1, <1>2, FollowsTransitive
<1>4. Len(q) <= MaxEntries
  BY <1>1, <1>2, Tier1CacheAssumption DEF Tier1CacheAssumption
<1>5. /\ f \in [Key -> Entry \cup {None}]
      /\ \A k \in Key : f[k] = IF k \in live THEN e[k] ELSE None
      /\ \A k \in live : k \in Key /\ e[k] # None
  BY DEF StoreSound, Live
<1>6. Range(q) = {k \in Key : f[k] # None}
  BY <1>2, <1>5 DEF StoreSound
<1>7. ASSUME NEW b \in DOMAIN r, Live(l[r[b]]), f[r[b]] = None
      PROVE  b + MaxEntries <= Len(r)
  <2>1. r[b] \in Key
    BY <1>1
  <2>2. e[r[b]] = None
    <3>1. CASE r[b] \in live
      BY <1>5, <1>7, <2>1, <3>1
    <3>2. CASE r[b] \notin live
      BY <1>7, <2>1, <3>2 DEF StoreSound
    <3> QED
      BY <3>1, <3>2
  <2> QED
    BY <1>7, <2>2 DEF StoreSound
<1>8. \A k \in Key : f[k] # None => f[k] = l[k]
  BY <1>5 DEF StoreSound
<1> QED
  BY <1>2, <1>3, <1>4, <1>5, <1>6, <1>7, <1>8 DEF StoreSound

\* An entry grows older, and stays an entry.
LEMMA OlderIs ==
  ASSUME NEW x \in Entry \cup {None}
  PROVE  /\ Older(x) \in Entry \cup {None}
         /\ Older(x) = None <=> x = None
         /\ Live(Older(x)) => Live(x)
<1>0. None \notin Entry /\ Ttl \in Nat
  BY Tier1CacheAssumption DEF Tier1CacheAssumption
<1>1. CASE Live(x)
  <2>1. x \in Entry /\ x.left \in 0 .. Ttl
    BY <1>0, <1>1 DEF Live, Entry
  <2>2. [x EXCEPT !.left = @ - 1] \in Entry
    BY <1>0, <2>1 DEF Entry
  <2> QED
    BY <1>0, <1>1, <2>1, <2>2 DEF Older, Live
<1>2. CASE ~Live(x)
  BY <1>2 DEF Older
<1> QED
  BY <1>1, <1>2

LEMMA TickSound ==
  ASSUME NEW o, NEW e, NEW r, NEW l, StoreSound(o, e, r, l)
  PROVE  StoreSound(o, [k \in Key |-> Older(e[k])], r, [k \in Key |-> Older(l[k])])
<1> PICK f : f = [k \in Key |-> Older(e[k])]
  OBVIOUS
<1> PICK g : g = [k \in Key |-> Older(l[k])]
  OBVIOUS
<1>1. \A k \in Key : e[k] \in Entry \cup {None} /\ l[k] \in Entry \cup {None}
  BY DEF StoreSound
<1>2. /\ f \in [Key -> Entry \cup {None}]
      /\ g \in [Key -> Entry \cup {None}]
      /\ \A k \in Key : f[k] = Older(e[k]) /\ g[k] = Older(l[k])
      /\ \A k \in Key : f[k] = None <=> e[k] = None
      /\ \A k \in Key : g[k] = None <=> l[k] = None
      /\ \A k \in Key : Live(g[k]) => Live(l[k])
  BY <1>1, OlderIs
<1>3. Range(o) = {k \in Key : f[k] # None} /\ Range(r) = {k \in Key : g[k] # None}
  BY <1>2 DEF StoreSound
<1>4. \A k \in Key : f[k] # None => f[k] = g[k]
  BY <1>2 DEF StoreSound
<1>5. ASSUME NEW b \in DOMAIN r, Live(g[r[b]]), f[r[b]] = None
      PROVE  b + MaxEntries <= Len(r)
  <2>1. r[b] \in Key
    BY DEF StoreSound
  <2> QED
    BY <1>2, <1>5, <2>1 DEF StoreSound
<1>6. /\ o \in Seq(Key) /\ r \in Seq(Key) /\ Len(o) <= MaxEntries
      /\ IsInjective(r) /\ Follows(o, r)
  BY DEF StoreSound
<1> QED
  BY <1>2, <1>3, <1>4, <1>5, <1>6 DEF StoreSound

LEMMA EmptySound == StoreSound(<<>>, Empty, <<>>, Empty)
<1>1. Range(<<>>) = {} /\ IsInjective(<<>>) /\ Follows(<<>>, <<>>)
  BY DEF Range, IsInjective, Follows
<1>2. \A k \in Key : Empty[k] = None
  BY DEF Empty
<1>3. Empty \in [Key -> Entry \cup {None}]
  BY DEF Empty
<1> QED
  BY <1>1, <1>2, <1>3, Tier1CacheAssumption DEF StoreSound, Tier1CacheAssumption

-----------------------------------------------------------------------------
(* The cache.                                                              *)

Tier1Inv ==
  /\ order \in [Project -> Seq(Key)]
  /\ recent \in [Project -> Seq(Key)]
  /\ entry \in [Project -> [Key -> Entry \cup {None}]]
  /\ latest \in [Project -> [Key -> Entry \cup {None}]]
  /\ \A p \in Project : StoreSound(order[p], entry[p], recent[p], latest[p])

LEMMA Tier1Init == Init => Tier1Inv
<1>1. Empty \in [Key -> Entry \cup {None}] /\ <<>> \in Seq(Key)
  BY DEF Empty
<1> QED
  BY <1>1, EmptySound DEF Init, Tier1Inv

\* A step that changes one project's store, and leaves it sound, keeps the invariant.
LEMMA OneStore ==
  ASSUME Tier1Inv, NEW p \in Project, NEW o, NEW e, NEW r, NEW l, StoreSound(o, e, r, l),
         order' = [order EXCEPT ![p] = o], entry' = [entry EXCEPT ![p] = e],
         recent' = [recent EXCEPT ![p] = r], latest' = [latest EXCEPT ![p] = l]
  PROVE  Tier1Inv'
<1>1. /\ o \in Seq(Key) /\ r \in Seq(Key)
      /\ e \in [Key -> Entry \cup {None}] /\ l \in [Key -> Entry \cup {None}]
  BY DEF StoreSound
<1>2. /\ order' \in [Project -> Seq(Key)]
      /\ recent' \in [Project -> Seq(Key)]
      /\ entry' \in [Project -> [Key -> Entry \cup {None}]]
      /\ latest' \in [Project -> [Key -> Entry \cup {None}]]
  BY <1>1 DEF Tier1Inv
<1>3. ASSUME NEW q \in Project
      PROVE  StoreSound(order'[q], entry'[q], recent'[q], latest'[q])
  <2>1. CASE q = p
    <3>1. order'[q] = o /\ entry'[q] = e /\ recent'[q] = r /\ latest'[q] = l
      BY <2>1 DEF Tier1Inv
    <3> QED
      BY <3>1
  <2>2. CASE q # p
    <3>1. /\ order'[q] = order[q] /\ entry'[q] = entry[q]
          /\ recent'[q] = recent[q] /\ latest'[q] = latest[q]
      BY <2>2 DEF Tier1Inv
    <3> QED
      BY <3>1 DEF Tier1Inv
  <2> QED
    BY <2>1, <2>2
<1> QED
  BY <1>2, <1>3 DEF Tier1Inv

LEMMA Tier1Next == Tier1Inv /\ [Next]_vars => Tier1Inv'
<1> SUFFICES ASSUME Tier1Inv, [Next]_vars PROVE Tier1Inv'
  OBVIOUS
<1>0. \A p \in Project : StoreSound(order[p], entry[p], recent[p], latest[p])
  BY DEF Tier1Inv
<1>f. \A p \in Project : /\ order = [order EXCEPT ![p] = order[p]]
                         /\ entry = [entry EXCEPT ![p] = entry[p]]
                         /\ recent = [recent EXCEPT ![p] = recent[p]]
                         /\ latest = [latest EXCEPT ![p] = latest[p]]
  BY DEF Tier1Inv
<1>1. ASSUME NEW p \in Project, NEW k \in Key, Hit(p, k)
      PROVE  Tier1Inv'
  <2>1. StoreSound(MoveToEnd(order[p], k), entry[p], MoveToEnd(recent[p], k), latest[p])
    BY <1>0, <1>1, HitSound DEF Hit, Live
  <2>2. /\ order' = [order EXCEPT ![p] = MoveToEnd(order[p], k)]
        /\ entry' = [entry EXCEPT ![p] = entry[p]]
        /\ recent' = [recent EXCEPT ![p] = MoveToEnd(recent[p], k)]
        /\ latest' = [latest EXCEPT ![p] = latest[p]]
    BY <1>f, <1>1 DEF Hit, Used
  <2> QED
    BY <2>1, <2>2, OneStore
<1>2. ASSUME NEW p \in Project, NEW k \in Key, MissExpired(p, k)
      PROVE  Tier1Inv'
  <2>1. StoreSound(RemoveFirst(order[p], k), [entry[p] EXCEPT ![k] = None],
                   recent[p], latest[p])
    BY <1>0, <1>2, MissSound DEF MissExpired
  <2>2. /\ order' = [order EXCEPT ![p] = RemoveFirst(order[p], k)]
        /\ entry' = [entry EXCEPT ![p] = [entry[p] EXCEPT ![k] = None]]
        /\ recent' = [recent EXCEPT ![p] = recent[p]]
        /\ latest' = [latest EXCEPT ![p] = latest[p]]
    BY <1>f, <1>2 DEF MissExpired
  <2> QED
    BY <2>1, <2>2, OneStore
<1>3. ASSUME NEW p \in Project, NEW k \in Key, NEW v \in Value, Set(p, k, v)
      PROVE  Tier1Inv'
  <2> PICK new : new = [value |-> v, left |-> Ttl]
    OBVIOUS
  <2> PICK kept : kept = IF k \in Range(order[p]) THEN RemoveFirst(order[p], k)
                         ELSE IF Len(order[p]) >= MaxEntries THEN Tail(order[p])
                         ELSE order[p]
    OBVIOUS
  <2>1. new \in Entry
    BY Tier1CacheAssumption DEF Tier1CacheAssumption, Entry
  <2>2. RoomFor(order[p], k, kept)
    BY <1>0, SetKeeps
  <2> PICK e : e = [j \in Key |-> IF j = k THEN new
                                  ELSE IF j \in Range(kept) THEN entry[p][j] ELSE None]
    OBVIOUS
  <2>3. StoreSound(Append(kept, k), e, MoveToEnd(recent[p], k), [latest[p] EXCEPT ![k] = new])
    BY <1>0, <2>1, <2>2, SetSound
  <2>4. SetKeeping(p, k, v, kept)
    BY <1>3 DEF Set
  <2>5. /\ order' = [order EXCEPT ![p] = Append(kept, k)]
        /\ entry' = [entry EXCEPT ![p] = e]
        /\ recent' = [recent EXCEPT ![p] = MoveToEnd(recent[p], k)]
        /\ latest' = [latest EXCEPT ![p] = [latest[p] EXCEPT ![k] = new]]
    BY <2>4 DEF SetKeeping, Used
  <2> QED
    BY <2>3, <2>5, OneStore
<1>4. ASSUME NEW p \in Project, Invalidate(p)
      PROVE  Tier1Inv'
  BY <1>4, EmptySound, OneStore DEF Invalidate
<1>5. CASE ClearExpired
  <2>1. /\ order' = [p \in Project |-> Kept(order[p], {k \in Key : Live(entry[p][k])})]
        /\ entry' = [p \in Project |-> [k \in Key |->
                       IF Live(entry[p][k]) THEN entry[p][k] ELSE None]]
        /\ recent' = recent /\ latest' = latest
    BY <1>5 DEF ClearExpired
  <2>2. ASSUME NEW p \in Project
        PROVE  StoreSound(order'[p], entry'[p], recent'[p], latest'[p])
    <3>1. StoreSound(Kept(order[p], {k \in Key : Live(entry[p][k])}),
                     [k \in Key |-> IF Live(entry[p][k]) THEN entry[p][k] ELSE None],
                     recent[p], latest[p])
      BY <1>0, ClearSound
    <3> QED
      BY <2>1, <3>1
  <2>3. \A p \in Project : /\ order'[p] \in Seq(Key)
                           /\ entry'[p] \in [Key -> Entry \cup {None}]
    BY <2>2 DEF StoreSound
  <2>4. /\ order' \in [Project -> Seq(Key)]
        /\ entry' \in [Project -> [Key -> Entry \cup {None}]]
    <3>1. order' = [p \in Project |-> order'[p]] /\ entry' = [p \in Project |-> entry'[p]]
      BY <2>1
    <3> QED
      BY <2>3, <3>1
  <2> QED
    BY <2>1, <2>2, <2>4 DEF Tier1Inv
<1>6. CASE Tick
  <2>1. /\ order' = order /\ recent' = recent
        /\ entry' = [p \in Project |-> [k \in Key |-> Older(entry[p][k])]]
        /\ latest' = [p \in Project |-> [k \in Key |-> Older(latest[p][k])]]
    BY <1>6 DEF Tick
  <2>2. ASSUME NEW p \in Project
        PROVE  StoreSound(order'[p], entry'[p], recent'[p], latest'[p])
    <3>1. StoreSound(order[p], [k \in Key |-> Older(entry[p][k])],
                     recent[p], [k \in Key |-> Older(latest[p][k])])
      BY <1>0, TickSound
    <3> QED
      BY <2>1, <3>1
  <2>3. \A p \in Project : /\ latest'[p] \in [Key -> Entry \cup {None}]
                           /\ entry'[p] \in [Key -> Entry \cup {None}]
    BY <2>2 DEF StoreSound
  <2>4. /\ latest' \in [Project -> [Key -> Entry \cup {None}]]
        /\ entry' \in [Project -> [Key -> Entry \cup {None}]]
    <3>1. latest' = [p \in Project |-> latest'[p]] /\ entry' = [p \in Project |-> entry'[p]]
      BY <2>1
    <3> QED
      BY <2>3, <3>1
  <2> QED
    BY <2>1, <2>2, <2>4 DEF Tier1Inv
<1>7. CASE UNCHANGED vars
  BY <1>7 DEF Tier1Inv, vars
<1> QED
  BY <1>1, <1>2, <1>3, <1>4, <1>5, <1>6, <1>7 DEF Next

\* In every reachable state every store is sound.
THEOREM Tier1Invariant == Spec => []Tier1Inv
<1>1. Tier1Inv /\ [Next]_vars => Tier1Inv'
  BY Tier1Next
<1> QED
  BY <1>1, Tier1Init, PTL DEF Spec

\* Store and order name the same keys, and no store grows beyond its capacity.
THEOREM Tier1TypeOK == Spec => []TypeOK
<1>1. ASSUME Tier1Inv PROVE TypeOK
  <2>1. ASSUME NEW p \in Project
        PROVE  /\ Range(order[p]) = {k \in Key : entry[p][k] # None}
               /\ IsInjective(order[p])
               /\ Len(order[p]) <= MaxEntries
               /\ Range(recent[p]) = {k \in Key : latest[p][k] # None}
               /\ IsInjective(recent[p])
    <3>1. StoreSound(order[p], entry[p], recent[p], latest[p])
      BY <1>1 DEF Tier1Inv
    <3>2. IsInjective(order[p])
      BY <3>1, StoreOrder
    <3> QED
      BY <3>1, <3>2 DEF StoreSound
  <2> QED
    BY <1>1, <2>1 DEF Tier1Inv, TypeOK
<1> QED
  BY <1>1, Tier1Invariant, PTL

\* A hit returns what was set last.
THEOREM Tier1OnlyLatest == Spec => []OnlyLatest
<1>1. Tier1Inv => OnlyLatest
  BY DEF Tier1Inv, OnlyLatest, StoreSound
<1> QED
  BY <1>1, Tier1Invariant, PTL

\* Of a project's keys, the MaxEntries used last are there while they live.
THEOREM Tier1RecentIsKept == Spec => []RecentIsKept
<1>1. ASSUME Tier1Inv PROVE RecentIsKept
  <2> SUFFICES ASSUME NEW p \in Project, NEW i \in DOMAIN recent[p],
                      i > Len(recent[p]) - MaxEntries,
                      Live(latest[p][recent[p][i]])
               PROVE  entry[p][recent[p][i]] = latest[p][recent[p][i]]
    BY DEF RecentIsKept, LastUsed
  <2>1. StoreSound(order[p], entry[p], recent[p], latest[p])
    BY <1>1 DEF Tier1Inv
  <2>2. recent[p] \in Seq(Key) /\ recent[p][i] \in Key
    BY <2>1 DEF StoreSound
  <2>3. ~(i + MaxEntries <= Len(recent[p]))
    BY <2>2, Tier1CacheAssumption DEF Tier1CacheAssumption
  <2>4. entry[p][recent[p][i]] # None
    BY <2>1, <2>3 DEF StoreSound
  <2> QED
    BY <2>1, <2>2, <2>4 DEF StoreSound
<1> QED
  BY <1>1, Tier1Invariant, PTL
=============================================================================
