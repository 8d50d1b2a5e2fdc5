---------------------------- MODULE SearchProofs ----------------------------
(***************************************************************************)
(* The two searches of the RAG engine: against the cache, and on a miss    *)
(* the hybrid search in Qdrant.                                            *)
(*                                                                         *)
(* Coherent, for any documents, keys, searches and writers, any time to    *)
(* live and any number of writes.  It is not inductive: what a search in   *)
(* progress has read is stored later, so the invariant says of a view in   *)
(* flight what Coherent says of a stored one.  That an invalidation leaves *)
(* nothing in the cache makes every stored entry one of this epoch.        *)
(*                                                                         *)
(* The three invariants of the hybrid search, for any points, chunk ids,   *)
(* entities, scores, settings and limits.  The steps are few, and the      *)
(* invariant is small: a result is what Finish makes of the two answers    *)
(* the search still holds.  What is to be shown is what the pipeline       *)
(* computes.  It is a chain of operators on lists, each characterised by a *)
(* predicate that the next one is shown from: Sorted by SortedBy, Union by *)
(* UnionBy, Fuse by FusedAs, Boosted by BoostedBy, the result by ResultBy. *)
(***************************************************************************)
EXTENDS SearchCache, HybridSearch, FiniteSetTheorems, SequenceTheorems,
        WellFoundedInduction, TLAPS

\* A view is from this epoch or an earlier one, and current if it is from this one.
Sound(view) ==
  /\ view.epoch <= epoch
  /\ view.epoch = epoch => Current(view)

ViewsSound ==
  \A r \in Reader :
    reader[r] # None /\ reader[r].view # None => Sound(reader[r].view)

EntriesSound ==
  \A k \in Key :
    cache[k] # None => cache[k].filled = epoch /\ Sound(cache[k].view)

CacheInv ==
  /\ TypeOK
  /\ ViewsSound
  /\ EntriesSound

\* A step that changes the index only for documents it leaves unannounced, announces
\* nothing and starts no epoch keeps sound views sound.
LEMMA SoundKept ==
  ASSUME NEW view, Sound(view), epoch' = epoch,
         Unannounced \subseteq Unannounced',
         \A d \in Doc : index'[d] = index[d] \/ d \in Unannounced'
  PROVE  /\ view.epoch <= epoch'
         /\ view.epoch = epoch' =>
              \A d \in Doc : view.index[d] = index'[d] \/ d \in Unannounced'
BY DEF Sound, Current

\* Nothing is stored or indexed at the start.
LEMMA CacheInit == Init => CacheInv
BY SearchCacheAssumption
   DEF Init, CacheInv, TypeOK, ViewsSound, EntriesSound, Version, SearchCacheAssumption

\* Every step keeps the types.
LEMMA TypeNext == TypeOK /\ [Next]_vars => TypeOK'
<1> SUFFICES ASSUME TypeOK, [Next]_vars PROVE TypeOK'
  OBVIOUS
<1> USE SearchCacheAssumption DEF SearchCacheAssumption
<1>1. ASSUME NEW r \in Reader, NEW k \in Key, Miss(r, k)
      PROVE  TypeOK'
  BY <1>1 DEF Miss, TypeOK, Request
<1>2. ASSUME NEW r \in Reader, ReadIndex(r)
      PROVE  TypeOK'
  <2>1. reader[r] \in Request
    BY <1>2 DEF ReadIndex, TypeOK
  <2>2. [index |-> index, epoch |-> epoch] \in View
    BY DEF TypeOK, View
  <2>3. [reader[r] EXCEPT !.view = [index |-> index, epoch |-> epoch]] \in Request
    BY <2>1, <2>2 DEF Request
  <2> QED
    BY <1>2, <2>3 DEF ReadIndex, TypeOK
<1>3. ASSUME NEW r \in Reader, NEW dropped \in Key, Store(r, dropped)
      PROVE  TypeOK'
  <2>1. reader[r] \in Request /\ reader[r].key \in Key /\ reader[r].view \in View
    BY <1>3 DEF Store, StoreFor, TypeOK, Request
  <2>2. [view |-> reader[r].view, filled |-> epoch, left |-> Ttl] \in Entry
    BY <2>1 DEF TypeOK, Entry
  <2> QED
    BY <1>3, <2>1, <2>2 DEF Store, StoreFor, TypeOK
<1>4. ASSUME NEW r \in Reader, AbortSearch(r)
      PROVE  TypeOK'
  BY <1>4 DEF AbortSearch, TypeOK
<1>5. ASSUME Tick
      PROVE  TypeOK'
  <2>1. ASSUME NEW k \in Key
        PROVE  cache'[k] \in Entry \cup {None}
    <3>1. CASE Live(cache[k])
      <4>1. cache[k] \in Entry /\ cache[k].left \in 0 .. Ttl
        BY <3>1 DEF TypeOK, Live, Entry
      <4>2. [cache[k] EXCEPT !.left = @ - 1] \in Entry
        BY <4>1 DEF Entry
      <4> QED
        BY <1>5, <3>1, <4>2 DEF Tick
    <3>2. CASE ~Live(cache[k])
      BY <1>5, <3>2 DEF Tick, TypeOK
    <3> QED
      BY <3>1, <3>2
  <2> QED
    BY <1>5, <2>1 DEF Tick, TypeOK
<1>6. ASSUME NEW w \in Writer, NEW d \in Doc, NEW kind \in {"ingest", "delete"},
             Send(w, d, kind)
      PROVE  TypeOK'
  BY <1>6 DEF Send, TypeOK, Write
<1>7. ASSUME NEW w \in Writer, Apply(w) \/ ApplyStray(w)
      PROVE  TypeOK'
  <2>1. writer[w] \in Write /\ writer[w].doc \in Doc
    BY <1>7 DEF Apply, ApplyStray, TypeOK, Write
  <2>2. writes' \in Version /\ index' \in [Doc -> Version]
    BY <1>7, <2>1 DEF Apply, ApplyStray, ApplyWrite, TypeOK, Version
  <2>3. [writer[w] EXCEPT !.at = "applied"] \in Write
    BY <2>1 DEF Write
  <2>4. writer' \in [Writer -> Write \cup {None}]
    BY <1>7, <2>3 DEF Apply, ApplyStray, TypeOK
  <2> QED
    BY <1>7, <2>1, <2>2, <2>4 DEF Apply, ApplyStray, ApplyWrite, TypeOK
<1>8. ASSUME NEW w \in Writer, Invalidate(w)
      PROVE  TypeOK'
  BY <1>8 DEF Invalidate, TypeOK
<1>9. ASSUME NEW w \in Writer, FailApplied(w)
      PROVE  TypeOK'
  BY <1>9 DEF FailApplied, TypeOK, Write
<1>10. ASSUME NEW w \in Writer, FailSent(w)
       PROVE  TypeOK'
  <2>1. writer[w] \in Write
    BY <1>10 DEF FailSent, TypeOK
  <2>2. [writer[w] EXCEPT !.at = "stray"] \in Write
    BY <2>1 DEF Write
  <2> QED
    BY <1>10, <2>2 DEF FailSent, TypeOK
<1>11. ASSUME NEW w \in Writer, DropStray(w)
       PROVE  TypeOK'
  BY <1>11 DEF DropStray, TypeOK
<1>12. ASSUME UNCHANGED vars
       PROVE  TypeOK'
  BY <1>12 DEF vars, TypeOK
<1> QED
  BY <1>1, <1>2, <1>3, <1>4, <1>5, <1>6, <1>7, <1>8, <1>9, <1>10, <1>11, <1>12
     DEF Next, Hit

\* Every step keeps what searches hold and what the cache stores sound.
LEMMA SoundNext == CacheInv /\ [Next]_vars => (ViewsSound /\ EntriesSound)'
<1> SUFFICES ASSUME CacheInv, [Next]_vars PROVE (ViewsSound /\ EntriesSound)'
  OBVIOUS
<1> USE DEF CacheInv
\* The steps that leave the index, the epoch and what is unannounced alone.
<1>1. ASSUME UNCHANGED <<index, epoch, silent, writer>>,
             \A r \in Reader : reader'[r] # None /\ reader'[r].view # None =>
               Sound(reader'[r].view),
             \A k \in Key : cache'[k] # None =>
               cache'[k].filled = epoch /\ Sound(cache'[k].view)
      PROVE  (ViewsSound /\ EntriesSound)'
  <2>1. Unannounced' = Unannounced
    BY <1>1 DEF Unannounced
  <2> QED
    BY <1>1, <2>1 DEF ViewsSound, EntriesSound, Sound, Current
\* The steps of writers before they announce anything.
<1>2. ASSUME UNCHANGED <<epoch, reader, cache>>,
             Unannounced \subseteq Unannounced',
             \A d \in Doc : index'[d] = index[d] \/ d \in Unannounced'
      PROVE  (ViewsSound /\ EntriesSound)'
  BY <1>2, SoundKept DEF ViewsSound, EntriesSound, Sound, Current
<1>3. ASSUME NEW r \in Reader, NEW k \in Key, Miss(r, k)
      PROVE  (ViewsSound /\ EntriesSound)'
  BY <1>1, <1>3 DEF Miss, TypeOK, ViewsSound, EntriesSound
<1>4. ASSUME NEW r \in Reader, ReadIndex(r)
      PROVE  (ViewsSound /\ EntriesSound)'
  <2>1. Sound([index |-> index, epoch |-> epoch])
    BY DEF Sound, Current, TypeOK
  <2>2. reader[r] \in Request
    BY <1>4 DEF ReadIndex, TypeOK
  <2>3. reader'[r].view = [index |-> index, epoch |-> epoch]
    BY <1>4, <2>2 DEF ReadIndex, TypeOK, Request
  <2>4. \A q \in Reader : q # r => reader'[q] = reader[q]
    BY <1>4 DEF ReadIndex, TypeOK
  <2> QED
    BY <1>1, <1>4, <2>1, <2>3, <2>4 DEF ReadIndex, ViewsSound, EntriesSound
<1>5. ASSUME NEW r \in Reader, NEW dropped \in Key, Store(r, dropped)
      PROVE  (ViewsSound /\ EntriesSound)'
  <2>1. reader[r] \in Request /\ reader[r].key \in Key
    BY <1>5 DEF Store, StoreFor, TypeOK, Request
  <2>2. Sound(reader[r].view)
    BY <1>5 DEF Store, StoreFor, ViewsSound
  <2>3. cache'[reader[r].key] = [view |-> reader[r].view, filled |-> epoch,
                                 left |-> Ttl]
    BY <1>5, <2>1 DEF Store, StoreFor, TypeOK
  <2>4. \A k \in Key : k # reader[r].key => cache'[k] \in {cache[k], None}
    BY <1>5, <2>1 DEF Store, StoreFor, TypeOK
  <2>5. \A q \in Reader : reader'[q] \in {reader[q], None}
    BY <1>5 DEF Store, StoreFor, TypeOK
  <2>6. cache'[reader[r].key].filled = epoch
        /\ cache'[reader[r].key].view = reader[r].view
    BY <2>3
  <2>7. \A k \in Key : cache'[k] # None =>
          cache'[k].filled = epoch /\ Sound(cache'[k].view)
    BY <2>2, <2>4, <2>6 DEF EntriesSound
  <2> QED
    BY <1>1, <1>5, <2>5, <2>7 DEF Store, StoreFor, ViewsSound
<1>6. ASSUME NEW r \in Reader, AbortSearch(r)
      PROVE  (ViewsSound /\ EntriesSound)'
  BY <1>1, <1>6 DEF AbortSearch, TypeOK, ViewsSound, EntriesSound
<1>7. ASSUME Tick
      PROVE  (ViewsSound /\ EntriesSound)'
  <2>1. \A k \in Key : cache'[k] # None =>
          /\ cache[k] # None
          /\ cache'[k].filled = cache[k].filled
          /\ cache'[k].view = cache[k].view
    BY <1>7 DEF Tick, TypeOK, Live, Entry
  <2> QED
    BY <1>1, <1>7, <2>1 DEF Tick, ViewsSound, EntriesSound
<1>8. ASSUME NEW w \in Writer, NEW d \in Doc, NEW kind \in {"ingest", "delete"},
             Send(w, d, kind)
      PROVE  (ViewsSound /\ EntriesSound)'
  <2>1. Unannounced \subseteq Unannounced'
    BY <1>8 DEF Send, TypeOK, Unannounced
  <2> QED
    BY <1>2, <1>8, <2>1 DEF Send
<1>9. ASSUME NEW w \in Writer, Apply(w)
      PROVE  (ViewsSound /\ EntriesSound)'
  <2>1. writer[w] \in Write
    BY <1>9 DEF Apply, TypeOK
  <2>2. /\ writer'[w].at = "applied"
        /\ writer'[w].doc = writer[w].doc
        /\ \A v \in Writer : v # w => writer'[v] = writer[v]
    BY <1>9, <2>1 DEF Apply, TypeOK, Write
  <2>3. writer'[w] # None
    BY <1>9, <2>1, SearchCacheAssumption DEF Apply, TypeOK, Write, SearchCacheAssumption
  <2>4. Unannounced' = Unannounced \cup {writer[w].doc}
    BY <1>9, <2>1, <2>2, <2>3 DEF Apply, Unannounced
  <2>5. \A d \in Doc : d # writer[w].doc => index'[d] = index[d]
    BY <1>9, <2>1 DEF Apply, ApplyWrite, TypeOK, Write
  <2> QED
    BY <1>2, <1>9, <2>4, <2>5 DEF Apply
<1>10. ASSUME NEW w \in Writer, Invalidate(w)
       PROVE  (ViewsSound /\ EntriesSound)'
  <2>1. \A r \in Reader : reader[r] # None /\ reader[r].view # None =>
          reader[r].view.epoch <= epoch /\ reader[r].view.epoch \in Nat
    BY DEF ViewsSound, Sound, TypeOK, Request, View
  <2> QED
    BY <1>10, <2>1 DEF Invalidate, TypeOK, ViewsSound, EntriesSound, Sound
<1>11. ASSUME NEW w \in Writer, FailApplied(w)
       PROVE  (ViewsSound /\ EntriesSound)'
  <2>1. Unannounced \subseteq Unannounced'
    BY <1>11 DEF FailApplied, TypeOK, Unannounced
  <2> QED
    BY <1>2, <1>11, <2>1 DEF FailApplied
<1>12. ASSUME NEW w \in Writer, FailSent(w)
       PROVE  (ViewsSound /\ EntriesSound)'
  <2>1. Unannounced \subseteq Unannounced'
    BY <1>12 DEF FailSent, TypeOK, Unannounced
  <2> QED
    BY <1>2, <1>12, <2>1 DEF FailSent
<1>13. ASSUME NEW w \in Writer, ApplyStray(w)
       PROVE  (ViewsSound /\ EntriesSound)'
  <2>1. writer[w] \in Write
    BY <1>13 DEF ApplyStray, TypeOK
  <2>2. Unannounced \cup {writer[w].doc} \subseteq Unannounced'
    BY <1>13 DEF ApplyStray, TypeOK, Unannounced
  <2>3. \A d \in Doc : d # writer[w].doc => index'[d] = index[d]
    BY <1>13, <2>1 DEF ApplyStray, ApplyWrite, TypeOK, Write
  <2> QED
    BY <1>2, <1>13, <2>2, <2>3 DEF ApplyStray
<1>14. ASSUME NEW w \in Writer, DropStray(w)
       PROVE  (ViewsSound /\ EntriesSound)'
  <2>1. Unannounced \subseteq Unannounced'
    BY <1>14 DEF DropStray, TypeOK, Unannounced
  <2> QED
    BY <1>2, <1>14, <2>1 DEF DropStray
<1>15. ASSUME UNCHANGED vars
       PROVE  (ViewsSound /\ EntriesSound)'
  BY <1>1, <1>15 DEF vars, ViewsSound, EntriesSound
<1> QED
  BY <1>3, <1>4, <1>5, <1>6, <1>7, <1>8, <1>9, <1>10, <1>11, <1>12, <1>13, <1>14,
     <1>15 DEF Next, Hit

\* The strengthened invariant of RagEngine.search and _invalidate_caches.
THEOREM CacheInvariant == Spec => []CacheInv
<1>1. CacheInv /\ [Next]_vars => CacheInv'
  BY TypeNext, SoundNext DEF CacheInv
<1> QED
  BY <1>1, CacheInit, PTL DEF Spec

\* Types: among them, that no entry outlives its time to live.
THEOREM CacheTypeOK == Spec => []TypeOK
<1>1. CacheInv => TypeOK
  BY DEF CacheInv
<1> QED
  BY <1>1, CacheInvariant, PTL

\* A stored result is out of date only while the write is unannounced, or because the
\* search that stored it raced an invalidation.
THEOREM CacheCoherent == Spec => []Coherent
<1>1. CacheInv => Coherent
  BY DEF CacheInv, TypeOK, EntriesSound, Sound, Coherent, Raced, Entry, View
<1> QED
  BY <1>1, CacheInvariant, PTL

-----------------------------------------------------------------------------
(* Orders.                                                                 *)

StrictOrder(S, before) ==
  /\ before \in [S -> SUBSET S]
  /\ \A i \in S : i \notin before[i]
  /\ \A i, j, k \in S : i \in before[j] /\ j \in before[k] => i \in before[k]
  /\ \A i, j \in S : i = j \/ i \in before[j] \/ j \in before[i]

\* A sequence of all elements of S, each once, as the order has them.
Enumerates(r, S, before) ==
  /\ r \in [1 .. Cardinality(S) -> S]
  /\ \A i \in S : \E k \in DOMAIN r : r[k] = i
  /\ \A k, m \in DOMAIN r : r[k] = r[m] => k = m
  /\ \A k, m \in DOMAIN r : k < m => r[k] \in before[r[m]]

\* A finite set has as many places in its order as elements: an element of each rank.
LEMMA RankingIs ==
  ASSUME NEW S, IsFiniteSet(S), NEW before, StrictOrder(S, before)
  PROVE  Enumerates(Ranking(S, before), S, before)
<1> DEFINE N == Cardinality(S)
           rank == [i \in S |-> Cardinality(before[i])]
           r == Ranking(S, before)
<1>0. N \in Nat
  BY FS_CardinalityType
<1>1. ASSUME NEW i \in S
      PROVE  /\ IsFiniteSet(before[i]) /\ Cardinality(before[i]) \in Nat
             /\ Cardinality(before[i]) < N
  <2>1. IsFiniteSet(S \ {i}) /\ Cardinality(S \ {i}) = N - 1
    BY FS_RemoveElement
  <2>2. before[i] \in SUBSET (S \ {i})
    BY DEF StrictOrder
  <2>3. IsFiniteSet(before[i]) /\ Cardinality(before[i]) <= N - 1
    BY <2>1, <2>2, FS_Subset
  <2>4. Cardinality(before[i]) \in Nat
    BY <2>3, FS_CardinalityType
  <2> QED
    BY <1>0, <2>3, <2>4
<1>2. ASSUME NEW i \in S, NEW j \in S, i \in before[j]
      PROVE  rank[i] < rank[j]
  <2>1. /\ IsFiniteSet(before[i] \cup {i})
        /\ Cardinality(before[i] \cup {i}) = Cardinality(before[i]) + 1
    <3>1. i \notin before[i]
      BY DEF StrictOrder
    <3> QED
      BY <1>1, <3>1, FS_AddElement
  <2>2. before[i] \cup {i} \in SUBSET before[j]
    BY <1>2 DEF StrictOrder
  <2>3. Cardinality(before[i] \cup {i}) <= Cardinality(before[j])
    <3> QED
      BY <1>1, <2>2, FS_Subset
  <2> QED
    BY <1>1, <2>1, <2>3
<1>3. rank \in [S -> 0 .. N - 1]
  <2> QED
    BY <1>0, <1>1
<1>4. \A i, j \in S : rank[i] = rank[j] => i = j
  <2> SUFFICES ASSUME NEW i \in S, NEW j \in S, rank[i] = rank[j], i # j
               PROVE  FALSE
    OBVIOUS
  <2>1. rank[i] \in Int /\ rank[j] \in Int
    BY <1>0, <1>3
  <2>2. i \in before[j] \/ j \in before[i]
    BY DEF StrictOrder
  <2> HIDE DEF rank
  <2> QED
    BY <1>2, <2>1, <2>2
<1>5. \A k \in 1 .. N : \E i \in S : rank[i] = k - 1
  <2> HIDE DEF rank, N
  <2>1. rank \in Injection(S, 0 .. N - 1)
    BY <1>3, <1>4 DEF Injection, IsInjective
  <2>2. IsFiniteSet(0 .. N - 1) /\ Cardinality(0 .. N - 1) = N
    BY <1>0, FS_Interval
  <2>3. rank \in Surjection(S, 0 .. N - 1)
    BY <2>1, <2>2, FS_Injection DEF N
  <2> QED
    BY <1>0, <2>3 DEF Surjection
<1>6. ASSUME NEW k \in 1 .. N
      PROVE  r[k] \in S /\ rank[r[k]] = k - 1
  <2>1. r[k] = CHOOSE i \in S : Cardinality(before[i]) = k - 1
    BY DEF Ranking
  <2>2. \E i \in S : Cardinality(before[i]) = k - 1
    BY <1>5
  <2>3. r[k] \in S /\ Cardinality(before[r[k]]) = k - 1
    <3> HIDE DEF r
    <3> QED
      BY <2>1, <2>2
  <2> QED
    BY <2>3
<1> HIDE DEF rank
<1>7. r \in [1 .. N -> S] /\ DOMAIN r = 1 .. N
  <2>1. DOMAIN r = 1 .. N /\ r = [k \in 1 .. N |-> r[k]]
    BY DEF Ranking
  <2> HIDE DEF r, N
  <2> QED
    BY <1>6, <2>1
<1> HIDE DEF r
<1>8. \A i \in S : \E k \in 1 .. N : r[k] = i
  <2> TAKE i \in S
  <2>1. rank[i] \in 0 .. N - 1
    BY <1>3
  <2>2. rank[i] + 1 \in 1 .. N /\ (rank[i] + 1) - 1 = rank[i]
    BY <1>0, <2>1
  <2>3. r[rank[i] + 1] \in S /\ rank[r[rank[i] + 1]] = rank[i]
    BY <1>6, <2>2
  <2> QED
    BY <1>4, <2>2, <2>3
<1>9. \A k, m \in 1 .. N : r[k] = r[m] => k = m
  <2> TAKE k, m \in 1 .. N
  <2>1. rank[r[k]] = k - 1 /\ rank[r[m]] = m - 1
    BY <1>6
  <2> QED
    BY <1>0, <2>1
<1>10. \A k, m \in 1 .. N : k < m => r[k] \in before[r[m]]
  <2> SUFFICES ASSUME NEW k \in 1 .. N, NEW m \in 1 .. N, k < m, r[k] \notin before[r[m]]
               PROVE  FALSE
    OBVIOUS
  <2>1. r[k] \in S /\ r[m] \in S /\ rank[r[k]] = k - 1 /\ rank[r[m]] = m - 1
    BY <1>6
  <2>2. r[k] # r[m]
    BY <1>0, <1>9
  <2>3. r[m] \in before[r[k]]
    BY <2>1, <2>2 DEF StrictOrder
  <2>4. rank[r[m]] < rank[r[k]]
    BY <1>2, <2>1, <2>3
  <2> QED
    BY <1>0, <2>1, <2>4
<1> QED
  BY <1>7, <1>8, <1>9, <1>10 DEF Enumerates, r

\* Induction over the natural numbers, for a set.
LEMMA NatInductionOnSet ==
  ASSUME NEW T, 0 \in T, \A n \in Nat : n \in T => n + 1 \in T
  PROVE  Nat \subseteq T
<1> DEFINE less == {ss \in Nat \X Nat : ss[1] < ss[2]}
<1>1. IsWellFoundedOn(less, Nat)
  BY NatLessThanWellFounded, Zenon DEF OpToRel
<1> SUFFICES ASSUME Nat \ T # {} PROVE FALSE
  OBVIOUS
<1>2. PICK m \in Nat \ T : \A n \in Nat \ T : <<n, m>> \notin less
  <2> HIDE DEF less
  <2> QED
    BY <1>1, WFMin
<1>3. m \in Nat /\ m \notin T
  OBVIOUS
<1>4. m # 0 /\ m - 1 \in Nat /\ (m - 1) + 1 = m
  BY <1>3
<1>5. <<m - 1, m>> \in less
  BY <1>3, <1>4
<1>6. m - 1 \in T
  BY <1>2, <1>4, <1>5
<1> QED
  BY <1>3, <1>4, <1>6

\* A sequence that follows one it is contained in repeats nothing.

\* The higher key comes first, of equal keys the smaller number.
OrderedBy(key, S, before) ==
  /\ S \subseteq Int
  /\ \A i \in S : key[i] \in Int
  /\ before = [i \in S |-> {j \in S : key[j] > key[i] \/ (key[j] = key[i] /\ j < i)}]

\* Distinct numbers order a set.
LEMMA KeyOrder ==
  ASSUME NEW S, NEW key, NEW before, OrderedBy(key, S, before)
  PROVE  StrictOrder(S, before)
<1>0. S \subseteq Int /\ \A i \in S : key[i] \in Int
  BY DEF OrderedBy
<1>1. \A i, j \in S : j \in before[i] <=> key[j] > key[i] \/ (key[j] = key[i] /\ j < i)
  BY DEF OrderedBy
<1>2. \A i \in S : i \notin before[i]
  BY <1>0, <1>1
<1>3. ASSUME NEW i \in S, NEW j \in S, NEW k \in S, i \in before[j], j \in before[k]
      PROVE  i \in before[k]
  <2>1. /\ key[i] > key[j] \/ (key[i] = key[j] /\ i < j)
        /\ key[j] > key[k] \/ (key[j] = key[k] /\ j < k)
    BY <1>1, <1>3
  <2>2. i \in Int /\ j \in Int /\ k \in Int /\ key[i] \in Int /\ key[j] \in Int /\ key[k] \in Int
    BY <1>0
  <2>3. key[i] > key[k] \/ (key[i] = key[k] /\ i < k)
    BY <2>1, <2>2
  <2> QED
    BY <1>1, <2>3
<1>4. ASSUME NEW i \in S, NEW j \in S
      PROVE  i = j \/ i \in before[j] \/ j \in before[i]
  <2>1. i \in Int /\ j \in Int /\ key[i] \in Int /\ key[j] \in Int
    BY <1>0
  <2>2. i = j \/ key[i] > key[j] \/ key[j] > key[i] \/ (key[i] = key[j] /\ (i < j \/ j < i))
    BY <2>1
  <2> QED
    BY <1>1, <2>2
<1>5. before \in [S -> SUBSET S]
  BY DEF OrderedBy
<1> QED
  BY <1>2, <1>3, <1>4, <1>5 DEF StrictOrder

\* Something comes first.
LEMMA FirstOne ==
  ASSUME NEW S, IsFiniteSet(S), S # {}, NEW before, StrictOrder(S, before)
  PROVE  \E m \in S : before[m] = {}
<1> PICK r : r = Ranking(S, before)
  OBVIOUS
<1>1. Enumerates(r, S, before)
  BY RankingIs
<1>2. Cardinality(S) \in Nat /\ Cardinality(S) # 0
  BY FS_CardinalityType, FS_EmptySet
<1>3. DOMAIN r = 1 .. Cardinality(S) /\ 1 \in DOMAIN r /\ r[1] \in S
  BY <1>1, <1>2 DEF Enumerates
<1>4. ASSUME NEW j \in before[r[1]] PROVE FALSE
  <2>1. j \in S
    BY <1>3 DEF StrictOrder
  <2>2. PICK k \in DOMAIN r : r[k] = j
    BY <1>1, <2>1 DEF Enumerates
  <2>3. k = 1 \/ 1 < k
    BY <1>2, <1>3
  <2>4. j = r[1] \/ r[1] \in before[j]
    BY <1>1, <1>3, <2>2, <2>3 DEF Enumerates
  <2> QED
    BY <1>3, <2>1, <2>4 DEF StrictOrder
<1> QED
  BY <1>3, <1>4

-----------------------------------------------------------------------------
(* Lists of hits.                                                          *)

HitRecord == [point : Point, text : Nat, score : Nat]

\* t is h, sorted by f.
SortedBy(h, t, f) ==
  /\ f \in [DOMAIN h -> DOMAIN h]
  /\ \A i \in DOMAIN h : \E k \in DOMAIN h : f[k] = i
  /\ \A k, m \in DOMAIN h : f[k] = f[m] => k = m
  /\ \A k, m \in DOMAIN h :
       k < m => \/ h[f[k]].score > h[f[m]].score
                \/ h[f[k]].score = h[f[m]].score /\ f[k] < f[m]
  /\ t = [k \in DOMAIN h |-> h[f[k]]]

\* The fields of a hit of a list.
LEMMA HitTypes ==
  ASSUME NEW h \in Seq(HitRecord), NEW i \in DOMAIN h
  PROVE  /\ h[i] \in HitRecord /\ i \in Nat /\ i \in Int
         /\ h[i].point \in Point /\ h[i].text \in Nat /\ h[i].score \in Nat
         /\ h[i].text \in Int /\ h[i].score \in Int
<1>1. h[i] \in HitRecord /\ i \in Nat
  OBVIOUS
<1>2. h[i].point \in Point /\ h[i].text \in Nat /\ h[i].score \in Nat
  BY <1>1 DEF HitRecord
<1> QED
  BY <1>1, <1>2

\* Sorted keeps every hit, the best first, and the order of equals.
LEMMA SortedIs ==
  ASSUME NEW h \in Seq(HitRecord)
  PROVE  \E f : SortedBy(h, Sorted(h), f)
<1> DEFINE S == DOMAIN h
           f == Ranking(S, Better(h))
<1>1. S = 1 .. Len(h) /\ Len(h) \in Nat
  OBVIOUS
<1>2. IsFiniteSet(S) /\ Cardinality(S) = Len(h)
  BY <1>1, FS_Interval
<1>3. \A i \in S : h[i].score \in Int /\ i \in Int
  BY <1>1, HitTypes
<1> PICK key : key = [i \in S |-> h[i].score]
  OBVIOUS
<1>4. StrictOrder(S, Better(h))
  <2>1. Better(h) = [i \in S |-> {j \in S : key[j] > key[i] \/ (key[j] = key[i] /\ j < i)}]
    BY DEF Better
  <2>2. \A i \in S : key[i] \in Int
    BY <1>3
  <2>3. S \subseteq Int
    BY <1>1
  <2>4. OrderedBy(key, S, Better(h))
    BY <2>1, <2>2, <2>3 DEF OrderedBy
  <2> QED
    BY <2>4, KeyOrder
<1>5. Enumerates(f, S, Better(h))
  <2> HIDE DEF S
  <2> QED
    BY <1>2, <1>4, RankingIs
<1>6. f \in [S -> S]
  BY <1>1, <1>2, <1>5 DEF Enumerates
<1>7. \A k, m \in S : k < m => \/ h[f[k]].score > h[f[m]].score
                               \/ h[f[k]].score = h[f[m]].score /\ f[k] < f[m]
  <2> SUFFICES ASSUME NEW k \in S, NEW m \in S, k < m
               PROVE  \/ h[f[k]].score > h[f[m]].score
                      \/ h[f[k]].score = h[f[m]].score /\ f[k] < f[m]
    OBVIOUS
  <2> HIDE DEF f
  <2>1. f[k] \in S /\ f[m] \in S
    BY <1>6
  <2>2. f[k] \in Better(h)[f[m]]
    BY <1>5, <1>6 DEF Enumerates
  <2> QED
    BY <2>1, <2>2 DEF Better
<1>8. Sorted(h) = [k \in S |-> h[f[k]]]
  BY DEF Sorted
<1>9. /\ \A i \in S : \E k \in S : f[k] = i
      /\ \A k, m \in S : f[k] = f[m] => k = m
  BY <1>5, <1>6 DEF Enumerates
<1> HIDE DEF f
<1> QED
  BY <1>6, <1>7, <1>8, <1>9 DEF SortedBy

\* So the sorted list is as long, and of hits.
LEMMA SortedSeq ==
  ASSUME NEW h \in Seq(HitRecord), NEW t, NEW f, SortedBy(h, t, f)
  PROVE  /\ t \in Seq(HitRecord) /\ Len(t) = Len(h) /\ DOMAIN t = DOMAIN h
         /\ \A k \in DOMAIN h : f[k] \in DOMAIN h /\ t[k] = h[f[k]]
<1>1. DOMAIN h = 1 .. Len(h) /\ Len(h) \in Nat
  OBVIOUS
<1>2. \A k \in DOMAIN h : f[k] \in DOMAIN h /\ h[f[k]] \in HitRecord
  BY DEF SortedBy
<1>3. t = [k \in 1 .. Len(h) |-> h[f[k]]]
  BY <1>1 DEF SortedBy
<1>4. t \in Seq(HitRecord) /\ Len(t) = Len(h)
  BY <1>1, <1>2, <1>3
<1> QED
  BY <1>1, <1>2, <1>3, <1>4

\* Of two hits the earlier, if it scores no less, stays the earlier.
LEMMA SortedKeeps ==
  ASSUME NEW h \in Seq(HitRecord), NEW t, NEW f, SortedBy(h, t, f),
         NEW a \in DOMAIN h, NEW j \in DOMAIN h, NEW b, b = f[j],
         a < b, h[a].score >= h[b].score
  PROVE  \E i \in DOMAIN h : i < j /\ t[i] = h[a]
<1>1. PICK i \in DOMAIN h : f[i] = a
  BY DEF SortedBy
<1>2. f[j] \in DOMAIN h /\ t[i] = h[a]
  BY <1>1 DEF SortedBy
<1>3. h[a].score \in Int /\ h[f[j]].score \in Int /\ i \in Int /\ j \in Int /\ f[j] \in Int
  BY <1>2, HitTypes
<1>4. i < j
  <2>1. CASE j < i
    <3>1. \/ h[f[j]].score > h[f[i]].score
          \/ h[f[j]].score = h[f[i]].score /\ f[j] < f[i]
      BY <2>1 DEF SortedBy
    <3>2. h[f[j]].score > h[a].score \/ (h[f[j]].score = h[a].score /\ f[j] < a)
      BY <1>1, <3>1
    <3> QED
      BY <1>3, <3>2
  <2>2. CASE i = j
    BY <1>1, <1>3, <2>2
  <2> QED
    BY <1>3, <2>1, <2>2
<1> QED
  BY <1>2, <1>4

\* The first n of a list.
LEMMA FirstIs ==
  ASSUME NEW S, NEW s \in Seq(S), NEW n \in Nat
  PROVE  /\ First(n, s) \in Seq(S)
         /\ Len(First(n, s)) = IF Len(s) < n THEN Len(s) ELSE n
         /\ DOMAIN First(n, s) = {i \in DOMAIN s : i <= n}
         /\ \A i \in DOMAIN First(n, s) : First(n, s)[i] = s[i]
<1> DEFINE m == IF Len(s) < n THEN Len(s) ELSE n
<1>1. Len(s) \in Nat /\ m \in 0 .. Len(s) /\ DOMAIN s = 1 .. Len(s)
  OBVIOUS
<1>2. First(n, s) = [i \in 1 .. m |-> s[i]]
  <2>1. First(n, s) = SubSeq(s, 1, m)
    BY DEF First
  <2>2. SubSeq(s, 1, m) = [i \in 1 .. m |-> s[i]]
    BY <1>1
  <2> QED
    BY <2>1, <2>2
<1>3. First(n, s) \in Seq(S) /\ Len(First(n, s)) = m
  <2> HIDE DEF m
  <2> QED
    BY <1>1, <1>2
<1>4. DOMAIN First(n, s) = 1 .. m
  BY <1>2
<1>5. 1 .. m = {i \in DOMAIN s : i <= n}
  BY <1>1
<1>6. \A i \in DOMAIN First(n, s) : First(n, s)[i] = s[i]
  BY <1>2, <1>4
<1> QED
  BY <1>3, <1>4, <1>5, <1>6
-----------------------------------------------------------------------------
(* What a list of hits is worth.                                           *)

\* A quotient is a number.
LEMMA DivIsNat ==
  ASSUME NEW u \in Nat, NEW a \in Nat \ {0}
  PROVE  u \div a \in Nat
OBVIOUS

\* The larger the divisor, the smaller the quotient.
LEMMA DivFalls ==
  ASSUME NEW u \in Nat, NEW a \in Nat \ {0}, NEW b \in Nat \ {0}, a <= b
  PROVE  u \div b <= u \div a
<1>1. PICK q \in Nat : q = u \div b
  BY DivIsNat
<1>2. PICK p \in Nat : p = u \div a
  BY DivIsNat
<1>3. b * q <= u
  BY <1>1
<1>4. u < a * (p + 1)
  BY <1>2
<1>5. a * q <= b * q
  OBVIOUS
<1>6. a * q < a * (p + 1)
  BY <1>3, <1>4, <1>5
<1>7. q < p + 1
  BY <1>6
<1> QED
  BY <1>1, <1>2, <1>7

\* Products of numbers.
LEMMA TimesRises ==
  ASSUME NEW w \in Nat, NEW x \in Nat, NEW y \in Nat, x <= y
  PROVE  w * x \in Nat /\ w * y \in Nat /\ w * x <= w * y
OBVIOUS

\* A score scaled between the lowest and the highest of its list.
LEMMA ScaledFalls ==
  ASSUME NEW u \in Nat, NEW low \in Nat, NEW b \in Nat, NEW a \in Nat, NEW high \in Nat,
         low <= b, b <= a, a <= high, high # low
  PROVE  /\ (a - low) * (u \div (high - low)) \in Nat
         /\ (b - low) * (u \div (high - low)) \in Nat
         /\ (b - low) * (u \div (high - low)) <= (a - low) * (u \div (high - low))
<1>1. high - low \in Nat \ {0}
  OBVIOUS
<1>2. PICK q \in Nat : q = u \div (high - low)
  BY <1>1, DivIsNat
<1>3. a - low \in Nat /\ b - low \in Nat /\ b - low <= a - low
  OBVIOUS
<1>4. PICK x \in Nat : x = a - low
  BY <1>3
<1>5. PICK y \in Nat : y = b - low
  BY <1>3
<1>6. q * x \in Nat /\ q * y \in Nat /\ q * y <= q * x
  BY <1>3, <1>4, <1>5, TimesRises
<1>7. q * x = x * q /\ q * y = y * q
  OBVIOUS
<1> QED
  BY <1>2, <1>4, <1>5, <1>6, <1>7

\* The two ways to score a hit.
LEMMA WorthCases ==
  ASSUME NEW fusion \in {"rrf", "weighted"}, NEW h, NEW i
  PROVE  /\ fusion = "rrf" => Worth(fusion, h, i) = ScoreUnit \div (RrfK + i)
         /\ fusion = "weighted" /\ h[1].score = h[Len(h)].score => Worth(fusion, h, i) = ScoreUnit
         /\ fusion = "weighted" /\ h[1].score # h[Len(h)].score =>
              Worth(fusion, h, i) =
                (h[i].score - h[Len(h)].score) * (ScoreUnit \div (h[1].score - h[Len(h)].score))
<1>1. CASE fusion = "rrf"
  BY <1>1 DEF Worth
<1>2. CASE fusion = "weighted" /\ h[1].score = h[Len(h)].score
  BY <1>2 DEF Worth
<1>3. CASE fusion = "weighted" /\ h[1].score # h[Len(h)].score
  BY <1>3 DEF Worth
<1> QED
  BY <1>1, <1>2, <1>3

\* What a retriever answers.
AnswerList(h) ==
  /\ h \in Seq(HitRecord)
  /\ Len(h) <= Limit
  /\ \A i, j \in DOMAIN h : h[i].point = h[j].point => i = j
  /\ \A i, j \in DOMAIN h : i <= j => h[i].score >= h[j].score

\* A hit is worth something, and no less than one behind it.
LEMMA WorthIs ==
  ASSUME NEW fusion \in {"rrf", "weighted"}, NEW h, AnswerList(h),
         NEW i \in DOMAIN h, NEW j \in DOMAIN h, i <= j
  PROVE  /\ Worth(fusion, h, i) \in Nat
         /\ Worth(fusion, h, j) \in Nat
         /\ Worth(fusion, h, j) <= Worth(fusion, h, i)
<1>0. ScoreUnit \in Nat /\ RrfK \in Nat
  BY HybridSearchAssumption DEF HybridSearchAssumption
<1>1. h \in Seq(HitRecord) /\ Len(h) \in Nat /\ DOMAIN h = 1 .. Len(h)
      /\ i \in 1 .. Len(h) /\ j \in 1 .. Len(h)
  BY DEF AnswerList
<1>2. 1 \in DOMAIN h /\ Len(h) \in DOMAIN h
  BY <1>1
<1>3. \A n \in DOMAIN h : h[n].score \in Nat
  BY <1>1, HitTypes
<1>4. /\ h[Len(h)].score <= h[j].score
      /\ h[j].score <= h[i].score
      /\ h[i].score <= h[1].score
  <2>1. h[i].score >= h[j].score
    BY DEF AnswerList
  <2>2. h[1].score >= h[i].score
    BY <1>1, <1>2 DEF AnswerList
  <2>3. h[j].score >= h[Len(h)].score
    BY <1>1, <1>2 DEF AnswerList
  <2> QED
    BY <1>2, <1>3, <2>1, <2>2, <2>3
<1>5. CASE fusion = "rrf"
  <2>1. /\ Worth(fusion, h, i) = ScoreUnit \div (RrfK + i)
        /\ Worth(fusion, h, j) = ScoreUnit \div (RrfK + j)
    BY <1>5, WorthCases
  <2>2. RrfK + i \in Nat \ {0} /\ RrfK + j \in Nat \ {0} /\ RrfK + i <= RrfK + j
    BY <1>0, <1>1
  <2> QED
    BY <1>0, <2>1, <2>2, DivIsNat, DivFalls
<1>6. CASE fusion = "weighted" /\ h[1].score = h[Len(h)].score
  <2>1. Worth(fusion, h, i) = ScoreUnit /\ Worth(fusion, h, j) = ScoreUnit
    BY <1>6, WorthCases
  <2> QED
    BY <1>0, <2>1
<1>7. CASE fusion = "weighted" /\ h[1].score # h[Len(h)].score
  <2>1. \A n : Worth(fusion, h, n) =
                 (h[n].score - h[Len(h)].score) * (ScoreUnit \div (h[1].score - h[Len(h)].score))
    BY <1>7, WorthCases
  <2>2. /\ h[1].score \in Nat /\ h[Len(h)].score \in Nat
        /\ h[i].score \in Nat /\ h[j].score \in Nat
    BY <1>2, <1>3
  <2> PICK d : d = ScoreUnit \div (h[1].score - h[Len(h)].score)
    OBVIOUS
  <2>3. /\ (h[i].score - h[Len(h)].score) * d \in Nat
        /\ (h[j].score - h[Len(h)].score) * d \in Nat
        /\ (h[j].score - h[Len(h)].score) * d <= (h[i].score - h[Len(h)].score) * d
    BY <1>0, <1>4, <1>7, <2>2, ScaledFalls
  <2> QED
    BY <2>1, <2>3
<1> QED
  BY <1>5, <1>6, <1>7

SumOf(f, fusion, h, id) ==
  /\ Contribution(fusion, h, id) = f[Len(h)]
  /\ f = [n \in 0 .. Len(h) |->
            IF n = 0 THEN 0
            ELSE IF ChunkId[h[n].point] = id THEN f[n - 1] + Worth(fusion, h, n)
            ELSE f[n - 1]]

\* The sums of a contribution are a function.
LEMMA ContributionSum ==
  ASSUME NEW fusion \in {"rrf", "weighted"}, NEW h, Len(h) \in Nat, NEW id
  PROVE  \E f : SumOf(f, fusion, h, id)
<1> DEFINE step(f, n) ==
             IF n = 0 THEN 0
             ELSE IF ChunkId[h[n].point] = id THEN f[n - 1] + Worth(fusion, h, n)
             ELSE f[n - 1]
           T == {m \in Nat : \E g : g = [n \in 0 .. m |-> step(g, n)]}
<1>1. 0 \in T
  <2> DEFINE g == [n \in 0 .. 0 |-> 0]
  <2>1. g = [n \in 0 .. 0 |-> step(g, n)]
    OBVIOUS
  <2> QED
    BY <2>1
<1>2. ASSUME NEW m \in Nat, m \in T PROVE m + 1 \in T
  <2>1. PICK g : g = [n \in 0 .. m |-> step(g, n)]
    BY <1>2
  <2> DEFINE e == [n \in 0 .. m + 1 |-> IF n = m + 1 THEN step(g, n) ELSE g[n]]
  <2>2. ASSUME NEW n \in 0 .. m + 1 PROVE e[n] = step(e, n)
    <3>1. CASE n = m + 1
      <4>1. e[m] = g[m] /\ e[m + 1] = step(g, m + 1)
        OBVIOUS
      <4> QED
        BY <3>1, <4>1
    <3>2. CASE n \in 0 .. m
      <4>1. e[n] = g[n] /\ (n # 0 => e[n - 1] = g[n - 1])
        BY <3>2
      <4>2. g[n] = step(g, n)
        BY <2>1, <3>2
      <4> QED
        BY <3>2, <4>1, <4>2
    <3> QED
      BY <3>1, <3>2
  <2>3. e = [n \in 0 .. m + 1 |-> step(e, n)]
    BY <2>2
  <2>4. \E f : f = [n \in 0 .. m + 1 |-> step(f, n)]
    <3> HIDE DEF e, step
    <3> QED
      BY <2>3
  <2> QED
    BY <2>4
<1>3. Len(h) \in T
  <2> HIDE DEF T
  <2>1. Nat \subseteq T
    BY <1>1, <1>2, NatInductionOnSet
  <2> QED
    BY <2>1
<1> DEFINE sum == CHOOSE f : f = [n \in 0 .. Len(h) |-> step(f, n)]
<1>4. sum = [n \in 0 .. Len(h) |-> step(sum, n)]
  BY <1>3
<1>5. Contribution(fusion, h, id) = sum[Len(h)]
  BY Zenon DEF Contribution
<1>6. SumOf(sum, fusion, h, id)
  <2> HIDE DEF sum
  <2> QED
    BY <1>4, <1>5 DEF SumOf
<1> QED
  BY <1>6

\* A contribution is a natural number: what its only hit is worth, nothing without one.
LEMMA ContributionIs ==
  ASSUME NEW fusion \in {"rrf", "weighted"}, NEW h, AnswerList(h), NEW id
  PROVE  /\ Contribution(fusion, h, id) \in Nat
         /\ (\A i \in DOMAIN h : ChunkId[h[i].point] # id)
              => Contribution(fusion, h, id) = 0
         /\ \A a \in DOMAIN h :
              (\A i \in DOMAIN h : ChunkId[h[i].point] = id <=> i = a)
                => Contribution(fusion, h, id) = Worth(fusion, h, a)
<1>0. h \in Seq(HitRecord) /\ Len(h) \in Nat /\ DOMAIN h = 1 .. Len(h)
  BY DEF AnswerList
<1>1. PICK f : SumOf(f, fusion, h, id)
  BY <1>0, ContributionSum
<1> PICK w : w = [i \in DOMAIN h |-> Worth(fusion, h, i)]
  OBVIOUS
<1>2. \A i \in DOMAIN h : w[i] \in Nat /\ w[i] = Worth(fusion, h, i)
  <2> SUFFICES ASSUME NEW i \in DOMAIN h PROVE w[i] \in Nat /\ w[i] = Worth(fusion, h, i)
    OBVIOUS
  <2>1. i <= i
    BY <1>0
  <2>2. Worth(fusion, h, i) \in Nat
    BY <2>1, WorthIs
  <2> QED
    BY <2>2
<1>3. /\ f[0] = 0
      /\ \A n \in DOMAIN h : f[n] = IF ChunkId[h[n].point] = id THEN f[n - 1] + w[n] ELSE f[n - 1]
  BY <1>0, <1>1, <1>2 DEF SumOf
<1> DEFINE Good(n) ==
             /\ f[n] \in Nat
             /\ (\A i \in DOMAIN h : ChunkId[h[i].point] # id) => f[n] = 0
             /\ \A a \in DOMAIN h :
                  (\A i \in DOMAIN h : ChunkId[h[i].point] = id <=> i = a)
                    => f[n] = IF a <= n THEN w[a] ELSE 0
           T == {n \in Nat : n <= Len(h) => Good(n)}
<1>4. 0 \in T
  <2>1. Good(0)
    BY <1>0, <1>3
  <2> QED
    BY <2>1
<1>5. ASSUME NEW n \in Nat, n \in T PROVE n + 1 \in T
  <2> SUFFICES ASSUME n + 1 <= Len(h) PROVE Good(n + 1)
    OBVIOUS
  <2>1. Good(n) /\ n + 1 \in DOMAIN h /\ (n + 1) - 1 = n
    BY <1>0, <1>5
  <2>2. f[n + 1] = IF ChunkId[h[n + 1].point] = id THEN f[n] + w[n + 1] ELSE f[n]
    BY <1>3, <2>1
  <2>3. f[n + 1] \in Nat
    BY <1>2, <2>1, <2>2
  <2>4. ASSUME \A i \in DOMAIN h : ChunkId[h[i].point] # id PROVE f[n + 1] = 0
    BY <2>1, <2>2, <2>4
  <2>5. ASSUME NEW a \in DOMAIN h, \A i \in DOMAIN h : ChunkId[h[i].point] = id <=> i = a
        PROVE  f[n + 1] = IF a <= n + 1 THEN w[a] ELSE 0
    <3>1. f[n] = IF a <= n THEN w[a] ELSE 0
      BY <2>1, <2>5
    <3>2. ChunkId[h[n + 1].point] = id <=> n + 1 = a
      BY <2>1, <2>5
    <3>3. w[a] \in Nat /\ a \in Nat
      BY <1>0, <1>2
    <3> HIDE DEF Good
    <3> QED
      BY <2>2, <3>1, <3>2, <3>3
  <2> QED
    BY <2>3, <2>4, <2>5
<1>6. Good(Len(h))
  <2> HIDE DEF Good
  <2>1. Nat \subseteq T
    <3> HIDE DEF T
    <3> QED
      BY <1>4, <1>5, NatInductionOnSet
  <2> QED
    BY <1>0, <2>1
<1>7. ASSUME NEW a \in DOMAIN h PROVE a <= Len(h)
  BY <1>0
<1> QED
  BY <1>1, <1>2, <1>6, <1>7 DEF SumOf
-----------------------------------------------------------------------------
(* Fusion.                                                                 *)

\* The points of two lists, of which no two share an id.
In(dense, bm25) == {dense[i].point : i \in DOMAIN dense} \cup {bm25[i].point : i \in DOMAIN bm25}

Distinct(points) == \A p, q \in points : ChunkId[p] = ChunkId[q] => p = q

\* The fields of the settings.
LEMMA Tuning ==
  ASSUME NEW settings \in Settings
  PROVE  /\ settings.mode \in {"dense", "bm25", "hybrid"}
         /\ settings.fusion \in {"rrf", "weighted"}
         /\ settings.denseWeight \in Nat /\ settings.bm25Weight \in Nat
         /\ settings.boost \in Nat /\ settings.topK \in 1 .. Limit
BY HybridSearchAssumption DEF HybridSearchAssumption

\* A fused score is a number.
LEMMA FusedIs ==
  ASSUME NEW settings \in Settings, NEW dense, NEW bm25, AnswerList(dense), AnswerList(bm25), NEW id
  PROVE  FusedScore(settings, dense, bm25, id) \in Nat
<1>1. /\ Contribution(settings.fusion, dense, id) \in Nat
      /\ Contribution(settings.fusion, bm25, id) \in Nat
  BY Tuning, ContributionIs
<1> QED
  BY <1>1, Tuning DEF FusedScore

\* Who is preferred by a list gets no less from it.
LEMMA ContributionPrefers ==
  ASSUME NEW fusion \in {"rrf", "weighted"}, NEW h, AnswerList(h), NEW a, NEW b,
         \A i \in DOMAIN h : ChunkId[h[i].point] = ChunkId[a] <=> h[i].point = a,
         \A i \in DOMAIN h : ChunkId[h[i].point] = ChunkId[b] <=> h[i].point = b,
         Prefers(h, a, b)
  PROVE  Contribution(fusion, h, ChunkId[b]) <= Contribution(fusion, h, ChunkId[a])
<1>1. PICK i \in DOMAIN h : h[i].point = a /\ \A j \in DOMAIN h : h[j].point = b => i < j
  BY DEF Prefers, Positions
<1>2. h \in Seq(HitRecord) /\ DOMAIN h = 1 .. Len(h) /\ Len(h) \in Nat
  BY DEF AnswerList
<1>3. Worth(fusion, h, i) \in Nat
  <2>1. i <= i
    BY <1>2
  <2> QED
    BY <2>1, WorthIs
<1>4. Contribution(fusion, h, ChunkId[a]) = Worth(fusion, h, i)
  <2>1. \A j \in DOMAIN h : ChunkId[h[j].point] = ChunkId[a] <=> j = i
    BY <1>1 DEF AnswerList
  <2> QED
    BY <2>1, ContributionIs
<1>5. CASE \A j \in DOMAIN h : h[j].point # b
  <2>1. Contribution(fusion, h, ChunkId[b]) = 0
    BY <1>5, ContributionIs
  <2> QED
    BY <1>3, <1>4, <2>1
<1>6. CASE \E j \in DOMAIN h : h[j].point = b
  <2>1. PICK j \in DOMAIN h : h[j].point = b
    BY <1>6
  <2>2. \A k \in DOMAIN h : ChunkId[h[k].point] = ChunkId[b] <=> k = j
    BY <2>1 DEF AnswerList
  <2>3. Contribution(fusion, h, ChunkId[b]) = Worth(fusion, h, j)
    BY <2>2, ContributionIs
  <2>4. i <= j
    BY <1>1, <1>2, <2>1
  <2>5. Worth(fusion, h, j) <= Worth(fusion, h, i)
    BY <2>4, WorthIs
  <2> QED
    BY <1>4, <2>3, <2>5
<1> QED
  BY <1>5, <1>6

\* Who is preferred by both lists gets no less from fusion.
LEMMA FusedPrefers ==
  ASSUME NEW settings \in Settings, NEW dense, NEW bm25, AnswerList(dense), AnswerList(bm25),
         Distinct(In(dense, bm25)), NEW a \in In(dense, bm25), NEW b \in In(dense, bm25),
         Prefers(dense, a, b), Prefers(bm25, a, b)
  PROVE  FusedScore(settings, dense, bm25, ChunkId[b])
            <= FusedScore(settings, dense, bm25, ChunkId[a])
<1>1. /\ \A i \in DOMAIN dense : dense[i].point \in In(dense, bm25)
      /\ \A i \in DOMAIN bm25 : bm25[i].point \in In(dense, bm25)
  BY DEF In
<1>2. \A p \in In(dense, bm25) :
        /\ \A i \in DOMAIN dense : ChunkId[dense[i].point] = ChunkId[p] <=> dense[i].point = p
        /\ \A i \in DOMAIN bm25 : ChunkId[bm25[i].point] = ChunkId[p] <=> bm25[i].point = p
  BY <1>1 DEF Distinct
<1> PICK fusion : fusion = settings.fusion
  OBVIOUS
<1>3. fusion \in {"rrf", "weighted"}
  BY Tuning
<1>4. /\ Contribution(fusion, dense, ChunkId[b]) <= Contribution(fusion, dense, ChunkId[a])
      /\ Contribution(fusion, bm25, ChunkId[b]) <= Contribution(fusion, bm25, ChunkId[a])
  BY <1>2, <1>3, ContributionPrefers
<1> PICK da : da = Contribution(fusion, dense, ChunkId[a])
  OBVIOUS
<1> PICK db : db = Contribution(fusion, dense, ChunkId[b])
  OBVIOUS
<1> PICK ba : ba = Contribution(fusion, bm25, ChunkId[a])
  OBVIOUS
<1> PICK bb : bb = Contribution(fusion, bm25, ChunkId[b])
  OBVIOUS
<1> PICK dw : dw = settings.denseWeight
  OBVIOUS
<1> PICK bw : bw = settings.bm25Weight
  OBVIOUS
<1>5. da \in Nat /\ db \in Nat /\ ba \in Nat /\ bb \in Nat /\ dw \in Nat /\ bw \in Nat
  BY <1>3, ContributionIs, Tuning
<1>6. /\ dw * db <= dw * da /\ bw * bb <= bw * ba
      /\ dw * db \in Nat /\ dw * da \in Nat /\ bw * bb \in Nat /\ bw * ba \in Nat
  BY <1>4, <1>5, TimesRises
<1>7. /\ FusedScore(settings, dense, bm25, ChunkId[b]) = dw * db + bw * bb
      /\ FusedScore(settings, dense, bm25, ChunkId[a]) = dw * da + bw * ba
  BY DEF FusedScore
<1> QED
  BY <1>6, <1>7

\* A hit with another score.
LEMMA WithScore ==
  ASSUME NEW h \in HitRecord, NEW n \in Nat
  PROVE  /\ [h EXCEPT !.score = n] \in HitRecord
         /\ [h EXCEPT !.score = n].point = h.point
         /\ [h EXCEPT !.score = n].score = n
BY DEF HitRecord

\* Some positions of a list are finitely many numbers.
LEMMA SomeIndices ==
  ASSUME NEW h \in Seq(HitRecord), NEW S, S \subseteq DOMAIN h
  PROVE  IsFiniteSet(S) /\ S \subseteq Int /\ S \subseteq Nat
<1>1. DOMAIN h = 1 .. Len(h) /\ Len(h) \in Nat
  OBVIOUS
<1>2. IsFiniteSet(1 .. Len(h))
  BY <1>1, FS_Interval
<1> QED
  BY <1>1, <1>2, FS_Subset

\* Of some positions, the first of those with the largest key.
LEMMA FirstByKey ==
  ASSUME NEW S, IsFiniteSet(S), S # {}, S \subseteq Int, NEW key, \A i \in S : key[i] \in Int
  PROVE  \E m \in S : \A j \in S : key[m] > key[j] \/ (key[m] = key[j] /\ m <= j)
<1> DEFINE before == [i \in S |-> {j \in S : key[j] > key[i] \/ (key[j] = key[i] /\ j < i)}]
<1>1. OrderedBy(key, S, before)
  BY DEF OrderedBy
<1>2. \E m \in S : before[m] = {}
  <2> HIDE DEF before
  <2> QED
    BY <1>1, KeyOrder, FirstOne
<1>3. PICK m \in S : \A j \in S : ~(key[j] > key[m] \/ (key[j] = key[m] /\ j < m))
  BY <1>2
<1>4. ASSUME NEW j \in S PROVE key[m] > key[j] \/ (key[m] = key[j] /\ m <= j)
  <2>1. key[j] \in Int /\ key[m] \in Int /\ j \in Int /\ m \in Int
    OBVIOUS
  <2> HIDE DEF before
  <2> QED
    BY <1>3, <2>1
<1> QED
  BY <1>4

\* What is kept of a chunk id is one of its hits.
LEMMA MergedIs ==
  ASSUME NEW h \in Seq(HitRecord), NEW id, \E i \in DOMAIN h : ChunkId[h[i].point] = id
  PROVE  \E i \in DOMAIN h : Merged(h, id) = h[i] /\ ChunkId[h[i].point] = id
<1> DEFINE same == {i \in DOMAIN h : ChunkId[h[i].point] = id}
           key == [i \in DOMAIN h |-> h[i].text]
<1>1. same \subseteq DOMAIN h /\ same # {}
  OBVIOUS
<1>2. \A i \in same : key[i] \in Int
  BY HitTypes
<1>3. IsFiniteSet(same) /\ same \subseteq Int
  <2> HIDE DEF same
  <2> QED
    BY <1>1, SomeIndices
<1>4. PICK m \in same : \A j \in same : key[m] > key[j] \/ (key[m] = key[j] /\ m <= j)
  <2> HIDE DEF same, key
  <2> QED
    BY <1>1, <1>2, <1>3, FirstByKey
<1>6. \A j \in same : h[m].text > h[j].text \/ (h[m].text = h[j].text /\ m <= j)
  BY <1>4
<1> DEFINE first == CHOOSE i \in same :
                      \A j \in same : \/ h[i].text > h[j].text
                                      \/ h[i].text = h[j].text /\ i <= j
<1>7. first \in same
  BY <1>6
<1>8. Merged(h, id) = h[first]
  BY DEF Merged
<1> HIDE DEF first
<1> QED
  BY <1>7, <1>8

\* The numbers of a finite set, the smaller first.
LEMMA SmallerFirst ==
  ASSUME NEW S, S \subseteq Int
  PROVE  StrictOrder(S, [i \in S |-> {j \in S : j < i}])
<1> DEFINE before == [i \in S |-> {j \in S : j < i}]
<1>1. \A i \in S : before[i] = {j \in S : j < i}
  OBVIOUS
<1>2. before \in [S -> SUBSET S]
  OBVIOUS
<1>3. StrictOrder(S, before)
  <2> HIDE DEF before
  <2> QED
    BY <1>1, <1>2 DEF StrictOrder
<1> QED
  BY <1>3

\* The places where an id is seen first.
Firsts(all) ==
  {i \in DOMAIN all : \A j \in 1 .. i - 1 : ChunkId[all[j].point] # ChunkId[all[i].point]}

\* Every chunk id of a list has its first position in it.
LEMMA FirstsAre ==
  ASSUME NEW all \in Seq(HitRecord), NEW i \in DOMAIN all
  PROVE  \E f \in Firsts(all) : /\ ChunkId[all[f].point] = ChunkId[all[i].point]
                                /\ \A j \in DOMAIN all :
                                     ChunkId[all[j].point] = ChunkId[all[i].point] => f <= j
<1> DEFINE same == {j \in DOMAIN all : ChunkId[all[j].point] = ChunkId[all[i].point]}
           key == [j \in DOMAIN all |-> 0]
<1>1. same \subseteq DOMAIN all /\ i \in same
  OBVIOUS
<1>2. IsFiniteSet(same) /\ same \subseteq Int
  <2> HIDE DEF same
  <2> QED
    BY <1>1, SomeIndices
<1>3. PICK f \in same : \A j \in same : key[f] > key[j] \/ (key[f] = key[j] /\ f <= j)
  <2>1. \A j \in same : key[j] \in Int
    OBVIOUS
  <2> HIDE DEF same, key
  <2> QED
    BY <1>1, <1>2, <2>1, FirstByKey
<1>4. \A j \in same : f <= j
  BY <1>3
<1>5. ASSUME NEW j \in 1 .. f - 1 PROVE ChunkId[all[j].point] # ChunkId[all[f].point]
  <2>1. f \in DOMAIN all /\ DOMAIN all = 1 .. Len(all) /\ Len(all) \in Nat
    OBVIOUS
  <2>2. j \in DOMAIN all /\ ~(f <= j)
    BY <2>1
  <2> QED
    BY <1>4, <2>2
<1>6. f \in Firsts(all)
  BY <1>5 DEF Firsts
<1> QED
  BY <1>4, <1>6

\* The union by o, the places where its ids are seen first.
UnionBy(u, all, settings, dense, bm25, o) ==
  /\ u \in Seq(HitRecord)
  /\ o \in [DOMAIN u -> DOMAIN all]
  /\ \A k, m \in DOMAIN u : k < m => o[k] < o[m]
  /\ \A k \in DOMAIN u :
       /\ ChunkId[u[k].point] = ChunkId[all[o[k]].point]
       /\ u[k].score = FusedScore(settings, dense, bm25, ChunkId[u[k].point])
       /\ \E i \in DOMAIN all : u[k].point = all[i].point
       /\ \A i \in DOMAIN all : ChunkId[all[i].point] = ChunkId[u[k].point] => o[k] <= i
  /\ \A i \in DOMAIN all : \E k \in DOMAIN u : ChunkId[u[k].point] = ChunkId[all[i].point]
  /\ \A k, m \in DOMAIN u : ChunkId[u[k].point] = ChunkId[u[m].point] => k = m

\* Union has every chunk id of the two lists once, in the order of its first position.
LEMMA UnionIs ==
  ASSUME NEW settings \in Settings, NEW dense, NEW bm25, AnswerList(dense), AnswerList(bm25)
  PROVE  \E o : UnionBy(Union(settings, dense, bm25), dense \o bm25, settings, dense, bm25, o)
<1> DEFINE all == dense \o bm25
           id(i) == ChunkId[all[i].point]
           o == Ranking(Firsts(all), [i \in Firsts(all) |-> {j \in Firsts(all) : j < i}])
           merged(k) == Merged(all, id(o[k]))
           fused(k) == FusedScore(settings, dense, bm25, id(o[k]))
           u == Union(settings, dense, bm25)
<1>1. all \in Seq(HitRecord) /\ DOMAIN all = 1 .. Len(all) /\ Len(all) \in Nat
  BY DEF AnswerList
<1>2. u = [k \in DOMAIN o |-> [merged(k) EXCEPT !.score = fused(k)]]
  BY DEF Union, Firsts
<1>3. Firsts(all) \subseteq DOMAIN all /\ IsFiniteSet(Firsts(all)) /\ Firsts(all) \subseteq Int
  <2>1. Firsts(all) \subseteq DOMAIN all
    BY DEF Firsts
  <2> HIDE DEF all
  <2> QED
    BY <1>1, <2>1, SomeIndices
<1>4. /\ o \in [1 .. Cardinality(Firsts(all)) -> Firsts(all)]
      /\ Cardinality(Firsts(all)) \in Nat
      /\ \A i \in Firsts(all) : \E k \in DOMAIN o : o[k] = i
      /\ \A k, m \in DOMAIN o : o[k] = o[m] => k = m
      /\ \A k, m \in DOMAIN o : k < m => o[k] < o[m]
  <2> DEFINE before == [i \in Firsts(all) |-> {j \in Firsts(all) : j < i}]
  <2>1. Enumerates(o, Firsts(all), before)
    <3>1. StrictOrder(Firsts(all), before)
      BY <1>3, SmallerFirst
    <3> HIDE DEF before
    <3> QED
      BY <1>3, <3>1, RankingIs DEF before
  <2>2. Cardinality(Firsts(all)) \in Nat
    BY <1>3, FS_CardinalityType
  <2> HIDE DEF o, all
  <2> QED
    BY <2>1, <2>2 DEF Enumerates
<1> HIDE DEF all, o
<1>5. ASSUME NEW k \in DOMAIN o
      PROVE  /\ u[k] \in HitRecord
             /\ u[k].score = FusedScore(settings, dense, bm25, id(o[k]))
             /\ ChunkId[u[k].point] = id(o[k])
             /\ \E i \in DOMAIN all : u[k].point = all[i].point
  <2>1. o[k] \in DOMAIN all
    BY <1>3, <1>4
  <2>2. PICK i \in DOMAIN all : merged(k) = all[i] /\ ChunkId[all[i].point] = id(o[k])
    BY <1>1, <2>1, MergedIs
  <2>3. fused(k) \in Nat
    BY FusedIs
  <2>4. all[i] \in HitRecord
    BY <1>1
  <2>5. u[k] = [all[i] EXCEPT !.score = fused(k)]
    BY <1>2, <2>2
  <2> HIDE DEF u, fused, id
  <2>6. u[k] \in HitRecord /\ u[k].point = all[i].point /\ u[k].score = fused(k)
    BY <2>3, <2>4, <2>5, WithScore
  <2> QED
    BY <2>2, <2>6 DEF fused
<1>6. u \in Seq(HitRecord) /\ DOMAIN u = DOMAIN o
  <2>1. DOMAIN u = DOMAIN o /\ u = [k \in DOMAIN o |-> u[k]]
    BY <1>2
  <2> HIDE DEF u
  <2> QED
    BY <1>4, <1>5, <2>1
<1> HIDE DEF u
<1>7. \A k \in DOMAIN u : \A i \in DOMAIN all : id(i) = ChunkId[u[k].point] => o[k] <= i
  <2> SUFFICES ASSUME NEW k \in DOMAIN u, NEW i \in DOMAIN all, id(i) = id(o[k])
               PROVE  o[k] <= i
    BY <1>5, <1>6
  <2>1. o[k] \in Firsts(all) /\ o[k] \in DOMAIN all
    BY <1>3, <1>4, <1>6
  <2>2. i \notin 1 .. o[k] - 1
    BY <2>1 DEF Firsts
  <2> QED
    BY <1>1, <2>1, <2>2
<1>8. \A i \in DOMAIN all : \E k \in DOMAIN u : ChunkId[u[k].point] = id(i)
  <2> TAKE i \in DOMAIN all
  <2>1. PICK f \in Firsts(all) : id(f) = id(i)
    BY <1>1, FirstsAre
  <2>2. PICK k \in DOMAIN o : o[k] = f
    BY <1>4
  <2> QED
    BY <1>5, <1>6, <2>1, <2>2
<1>9. \A k, m \in DOMAIN u : ChunkId[u[k].point] = ChunkId[u[m].point] => k = m
  <2> SUFFICES ASSUME NEW k \in DOMAIN u, NEW m \in DOMAIN u, id(o[k]) = id(o[m])
               PROVE  k = m
    BY <1>5, <1>6
  <2>1. o[k] \in DOMAIN all /\ o[m] \in DOMAIN all
    BY <1>3, <1>4, <1>6
  <2>2. o[k] <= o[m] /\ o[m] <= o[k]
    BY <1>5, <1>6, <1>7, <2>1
  <2>3. o[k] = o[m]
    BY <1>1, <2>1, <2>2
  <2> QED
    BY <1>4, <1>6, <2>3
<1>10. /\ o \in [DOMAIN u -> DOMAIN all]
       /\ \A k, m \in DOMAIN u : k < m => o[k] < o[m]
  BY <1>3, <1>4, <1>6
<1>11. \A k \in DOMAIN u :
         /\ ChunkId[u[k].point] = id(o[k])
         /\ u[k].score = FusedScore(settings, dense, bm25, ChunkId[u[k].point])
         /\ \E i \in DOMAIN all : u[k].point = all[i].point
  BY <1>5, <1>6
<1>12. UnionBy(u, all, settings, dense, bm25, o)
  BY <1>6, <1>7, <1>8, <1>9, <1>10, <1>11 DEF UnionBy
<1> QED
  BY <1>12 DEF u, all

\* No hit scores more than one before it.
Falling(c) == \A k, m \in DOMAIN c : k < m => c[k].score >= c[m].score

\* What fusion returns: ids of the two lists, each once, by their scores; an id that is missing
\* has Limit others before it, and what both lists prefer comes first.
FusedAs(c, settings, dense, bm25) ==
  /\ c \in Seq(HitRecord)
  /\ Falling(c)
  /\ \A k \in DOMAIN c :
       /\ c[k].point \in In(dense, bm25)
       /\ c[k].score = FusedScore(settings, dense, bm25, ChunkId[c[k].point])
  /\ \A k, m \in DOMAIN c : ChunkId[c[k].point] = ChunkId[c[m].point] => k = m
  /\ Distinct(In(dense, bm25)) =>
       /\ \A p \in In(dense, bm25) :
            \/ \E k \in DOMAIN c : c[k].point = p
            \/ /\ Len(c) = Limit
               /\ \A k \in DOMAIN c :
                    c[k].score >= FusedScore(settings, dense, bm25, ChunkId[p])
       /\ \A a, b \in In(dense, bm25) :
            Prefers(dense, a, b) /\ Prefers(bm25, a, b) =>
              \A j \in Positions(b, c) : \E i \in Positions(a, c) : i < j

\* The hits of two lists, one after the other.
LEMMA InBoth ==
  ASSUME NEW dense, NEW bm25, AnswerList(dense), AnswerList(bm25)
  PROVE  LET all == dense \o bm25 IN
         /\ all \in Seq(HitRecord)
         /\ Len(all) = Len(dense) + Len(bm25)
         /\ \A i \in DOMAIN all : all[i].point \in In(dense, bm25)
         /\ \A p \in In(dense, bm25) : \E i \in DOMAIN all : all[i].point = p
         /\ \A i \in DOMAIN dense : i \in DOMAIN all /\ all[i] = dense[i]
         /\ \A i \in DOMAIN all : i \notin DOMAIN dense =>
              i > Len(dense) /\ i - Len(dense) \in DOMAIN bm25 /\ all[i] = bm25[i - Len(dense)]
<1> DEFINE all == dense \o bm25
<1>1. /\ dense \in Seq(HitRecord) /\ bm25 \in Seq(HitRecord)
      /\ Len(dense) \in Nat /\ DOMAIN dense = 1 .. Len(dense)
      /\ Len(bm25) \in Nat /\ DOMAIN bm25 = 1 .. Len(bm25)
  BY DEF AnswerList
<1>2. /\ all \in Seq(HitRecord) /\ Len(all) = Len(dense) + Len(bm25)
      /\ DOMAIN all = 1 .. Len(dense) + Len(bm25)
      /\ \A i \in DOMAIN dense : i \in DOMAIN all /\ all[i] = dense[i]
      /\ \A i \in DOMAIN bm25 : Len(dense) + i \in DOMAIN all /\ all[Len(dense) + i] = bm25[i]
  BY <1>1
<1>3. ASSUME NEW i \in DOMAIN all, i \notin DOMAIN dense
      PROVE  i > Len(dense) /\ i - Len(dense) \in DOMAIN bm25 /\ all[i] = bm25[i - Len(dense)]
  <2> HIDE DEF all
  <2>1. i > Len(dense) /\ i - Len(dense) \in DOMAIN bm25 /\ Len(dense) + (i - Len(dense)) = i
    BY <1>1, <1>2, <1>3
  <2> QED
    BY <1>2, <2>1
<1> HIDE DEF all
<1>4. \A i \in DOMAIN all : all[i].point \in In(dense, bm25)
  <2> TAKE i \in DOMAIN all
  <2>1. CASE i \in DOMAIN dense
    BY <1>2, <2>1 DEF In
  <2>2. CASE i \notin DOMAIN dense
    BY <1>3, <2>2 DEF In
  <2> QED
    BY <2>1, <2>2
<1>5. \A p \in In(dense, bm25) : \E i \in DOMAIN all : all[i].point = p
  <2> TAKE p \in In(dense, bm25)
  <2>1. CASE p \in {dense[i].point : i \in DOMAIN dense}
    <3>1. PICK i \in DOMAIN dense : p = dense[i].point
      BY <2>1
    <3> QED
      BY <1>2, <3>1
  <2>2. CASE p \in {bm25[i].point : i \in DOMAIN bm25}
    <3>1. PICK i \in DOMAIN bm25 : p = bm25[i].point
      BY <2>2
    <3> QED
      BY <1>2, <3>1
  <2> QED
    BY <2>1, <2>2 DEF In
<1> QED
  BY <1>2, <1>3, <1>4, <1>5 DEF all

\* What Fuse returns (CandidateFusion.fuse).
LEMMA FuseIs ==
  ASSUME NEW settings \in Settings, NEW dense, NEW bm25, AnswerList(dense), AnswerList(bm25)
  PROVE  FusedAs(Fuse(settings, dense, bm25), settings, dense, bm25)
<1> DEFINE all == dense \o bm25
           u == Union(settings, dense, bm25)
           t == Sorted(u)
           c == Fuse(settings, dense, bm25)
           found == In(dense, bm25)
           fused(p) == FusedScore(settings, dense, bm25, ChunkId[p])
<1>1. PICK o : UnionBy(u, all, settings, dense, bm25, o)
  BY UnionIs
<1>2. c = First(Limit, t)
  BY DEF Fuse
<1>3. /\ all \in Seq(HitRecord)
      /\ \A i \in DOMAIN all : all[i].point \in found
      /\ \A p \in found : \E i \in DOMAIN all : all[i].point = p
      /\ \A i \in DOMAIN dense : i \in DOMAIN all /\ all[i] = dense[i]
      /\ \A i \in DOMAIN all : i \notin DOMAIN dense =>
           i > Len(dense) /\ i - Len(dense) \in DOMAIN bm25 /\ all[i] = bm25[i - Len(dense)]
  BY InBoth
<1> HIDE DEF u, all, found
<1>4. u \in Seq(HitRecord) /\ DOMAIN u = 1 .. Len(u) /\ Len(u) \in Nat
  BY <1>1 DEF UnionBy
<1>5. PICK f : SortedBy(u, t, f)
  BY <1>4, SortedIs
<1> HIDE DEF t
<1>6. /\ t \in Seq(HitRecord) /\ Len(t) = Len(u) /\ DOMAIN t = DOMAIN u
      /\ \A k \in DOMAIN u : f[k] \in DOMAIN u /\ t[k] = u[f[k]]
  BY <1>4, <1>5, SortedSeq
<1>7. Limit \in Nat
  BY HybridSearchAssumption DEF HybridSearchAssumption
<1> HIDE DEF c
<1>8. /\ c \in Seq(HitRecord)
      /\ Len(c) = IF Len(u) < Limit THEN Len(u) ELSE Limit
      /\ DOMAIN c = {k \in DOMAIN u : k <= Limit}
      /\ \A k \in DOMAIN c : c[k] = t[k]
  BY <1>2, <1>6, <1>7, FirstIs
<1>9. \A k \in DOMAIN c : k \in DOMAIN u /\ f[k] \in DOMAIN u /\ c[k] = u[f[k]]
  BY <1>6, <1>8
<1>10. \A k \in DOMAIN u : /\ u[k].point \in found
                           /\ u[k].score = fused(u[k].point) /\ u[k].score \in Int
  <2> TAKE k \in DOMAIN u
  <2>1. \E i \in DOMAIN all : u[k].point = all[i].point
    BY <1>1 DEF UnionBy
  <2>2. u[k].score = fused(u[k].point)
    BY <1>1 DEF UnionBy
  <2> QED
    BY <1>3, <1>4, <2>1, <2>2, HitTypes
<1>11. Falling(c)
  <2> SUFFICES ASSUME NEW k \in DOMAIN c, NEW m \in DOMAIN c, k < m
               PROVE  c[k].score >= c[m].score
    BY DEF Falling
  <2>1. \/ u[f[k]].score > u[f[m]].score
        \/ u[f[k]].score = u[f[m]].score /\ f[k] < f[m]
    BY <1>5, <1>9 DEF SortedBy
  <2>2. u[f[k]].score \in Int /\ u[f[m]].score \in Int
    BY <1>9, <1>10
  <2> QED
    BY <1>9, <2>1, <2>2
<1>12. \A k \in DOMAIN c : c[k].point \in found /\ c[k].score = fused(c[k].point)
  BY <1>9, <1>10
<1>13. ASSUME NEW k \in DOMAIN c, NEW m \in DOMAIN c, ChunkId[c[k].point] = ChunkId[c[m].point]
       PROVE  k = m
  <2>1. \A x, y \in DOMAIN u : ChunkId[u[x].point] = ChunkId[u[y].point] => x = y
    BY <1>1 DEF UnionBy
  <2>2. f[k] \in DOMAIN u /\ f[m] \in DOMAIN u /\ k \in DOMAIN u /\ m \in DOMAIN u
    BY <1>9
  <2>3. ChunkId[u[f[k]].point] = ChunkId[u[f[m]].point]
    BY <1>9, <1>13
  <2>4. f[k] = f[m]
    BY <2>1, <2>2, <2>3
  <2> QED
    BY <1>5, <2>2, <2>4 DEF SortedBy
<1>14. ASSUME Distinct(found), NEW p \in found, \A k \in DOMAIN c : c[k].point # p
       PROVE  Len(c) = Limit /\ \A k \in DOMAIN c : c[k].score >= fused(p)
  <2>1. PICK x \in DOMAIN u : u[x].point = p
    <3>1. PICK i \in DOMAIN all : all[i].point = p
      BY <1>3
    <3>2. PICK x \in DOMAIN u : ChunkId[u[x].point] = ChunkId[p]
      BY <1>1, <3>1 DEF UnionBy
    <3> QED
      BY <1>10, <1>14, <3>2 DEF Distinct
  <2>2. PICK k \in DOMAIN u : f[k] = x
    BY <1>5, <2>1 DEF SortedBy
  <2>3. k \notin DOMAIN c
    BY <1>9, <1>14, <2>1, <2>2
  <2>4. k > Limit /\ Len(u) > Limit
    BY <1>4, <1>7, <1>8, <2>3
  <2>5. Len(c) = Limit
    <3>1. Len(c) = IF Len(u) < Limit THEN Len(u) ELSE Limit
      BY <1>8
    <3>2. ~(Len(u) < Limit)
      BY <1>4, <1>7, <2>4
    <3> QED
      BY <3>1, <3>2
  <2>6. ASSUME NEW m \in DOMAIN c PROVE c[m].score >= fused(p)
    <3>1. m \in DOMAIN u /\ m < k
      BY <1>4, <1>7, <1>8, <2>4
    <3>2. \/ u[f[m]].score > u[f[k]].score
          \/ u[f[m]].score = u[f[k]].score /\ f[m] < f[k]
      BY <1>5, <3>1 DEF SortedBy
    <3>3. c[m].score = u[f[m]].score /\ u[f[k]].score = fused(p)
      BY <1>9, <1>10, <2>1, <2>2
    <3>4. u[f[m]].score \in Int /\ u[f[k]].score \in Int
      BY <1>9, <1>10, <2>2
    <3> QED
      BY <3>2, <3>3, <3>4
  <2> QED
    BY <2>5, <2>6
<1>15. ASSUME Distinct(found), NEW a \in found, NEW b \in found,
              Prefers(dense, a, b), Prefers(bm25, a, b), NEW j \in Positions(b, c)
       PROVE  \E i \in Positions(a, c) : i < j
  <2>0. j \in DOMAIN c /\ j \in DOMAIN u /\ c[j].point = b
    BY <1>9 DEF Positions
  <2> PICK y \in DOMAIN u : y = f[j]
    BY <1>9, <2>0
  <2>1. u[y].point = b
    BY <1>9, <2>0
  <2>2. PICK ia \in DOMAIN dense :
          dense[ia].point = a /\ \A n \in DOMAIN dense : dense[n].point = b => ia < n
    BY <1>15 DEF Prefers, Positions
  <2>3. dense \in Seq(HitRecord) /\ DOMAIN dense = 1 .. Len(dense) /\ Len(dense) \in Nat
    BY DEF AnswerList
  <2>4. PICK x \in DOMAIN u : ChunkId[u[x].point] = ChunkId[all[ia].point] /\ ia \in DOMAIN all
    BY <1>1, <1>3, <2>2 DEF UnionBy
  <2>5. u[x].point = a
    BY <1>3, <1>10, <1>15, <2>2, <2>4 DEF Distinct
  <2>6. o[x] <= ia
    BY <1>1, <2>4 DEF UnionBy
  <2>7. o[x] \in DOMAIN all /\ o[y] \in DOMAIN all /\ DOMAIN all \subseteq Nat
    <3>1. o[x] \in DOMAIN all /\ o[y] \in DOMAIN all
      BY <1>1 DEF UnionBy
    <3> QED
      BY <1>3, <3>1
  <2>8. all[o[y]].point = b
    <3>1. ChunkId[all[o[y]].point] = ChunkId[b]
      BY <1>1, <2>1 DEF UnionBy
    <3> QED
      BY <1>3, <1>15, <2>7, <3>1 DEF Distinct
  <2>9. ia < o[y]
    <3>1. CASE o[y] \in DOMAIN dense
      BY <1>3, <2>2, <2>8, <3>1
    <3>2. CASE o[y] \notin DOMAIN dense
      BY <1>3, <2>2, <2>3, <2>7, <3>2
    <3> QED
      BY <3>1, <3>2
  <2>10. o[x] < o[y]
    BY <2>3, <2>6, <2>7, <2>9
  <2>11. x < y
    <3>1. ~(y < x)
      <4>1. y < x => o[y] < o[x]
        BY <1>1 DEF UnionBy
      <4> QED
        BY <2>7, <2>10, <4>1
    <3>2. x # y
      BY <2>7, <2>10
    <3> QED
      BY <1>4, <3>1, <3>2
  <2>12. u[x].score >= u[y].score
    <3>1. fused(b) <= fused(a)
      BY <1>15, FusedPrefers DEF found
    <3>2. u[x].score = fused(a) /\ u[y].score = fused(b)
      BY <1>10, <2>1, <2>5
    <3>3. u[x].score \in Int /\ u[y].score \in Int
      BY <1>10
    <3> HIDE DEF fused
    <3> QED
      BY <3>1, <3>2, <3>3
  <2>13. PICK i \in DOMAIN u : i < j /\ t[i] = u[x]
    <3>1. y = f[j] /\ x < y /\ u[x].score >= u[y].score
      BY <2>11, <2>12
    <3>2. \E i \in DOMAIN u : i < j /\ t[i] = u[x]
      BY <1>4, <1>5, <2>0, <3>1, SortedKeeps
    <3> QED
      BY <3>2
  <2>14. i \in DOMAIN c
    BY <1>4, <1>7, <1>8, <2>0, <2>13
  <2>15. c[i].point = a
    BY <1>8, <2>5, <2>13, <2>14
  <2> QED
    BY <2>13, <2>14, <2>15 DEF Positions
<1>16. \A k, m \in DOMAIN c : ChunkId[c[k].point] = ChunkId[c[m].point] => k = m
  BY <1>13
<1>17. Distinct(found) =>
         /\ \A p \in found :
              \/ \E k \in DOMAIN c : c[k].point = p
              \/ Len(c) = Limit /\ \A k \in DOMAIN c : c[k].score >= fused(p)
         /\ \A a, b \in found :
              Prefers(dense, a, b) /\ Prefers(bm25, a, b) =>
                \A j \in Positions(b, c) : \E i \in Positions(a, c) : i < j
  <2> HIDE DEF fused
  <2> QED
    BY <1>14, <1>15
<1>18. FusedAs(c, settings, dense, bm25)
  BY <1>8, <1>11, <1>12, <1>16, <1>17 DEF FusedAs, found
<1> QED
  BY <1>18 DEF c

-----------------------------------------------------------------------------
(* The boost and the cut.                                                  *)

Final(c, boost, i) == c[i].score + boost * Overlap[c[i].point]

\* h is c with the boosts, sorted by f.
BoostedBy(h, c, boost, f) ==
  /\ h \in Seq(HitRecord)
  /\ Len(h) = Len(c)
  /\ f \in [DOMAIN c -> DOMAIN c]
  /\ \A i \in DOMAIN c : \E k \in DOMAIN c : f[k] = i
  /\ \A k, m \in DOMAIN c : f[k] = f[m] => k = m
  /\ \A k \in DOMAIN c : h[k].point = c[f[k]].point
  /\ \A k, m \in DOMAIN c :
       k < m => \/ Final(c, boost, f[k]) > Final(c, boost, f[m])
                \/ Final(c, boost, f[k]) = Final(c, boost, f[m]) /\ f[k] < f[m]

\* A boosted score is a number.
LEMMA FinalIs ==
  ASSUME NEW c \in Seq(HitRecord), NEW boost \in Nat, NEW i \in DOMAIN c
  PROVE  Final(c, boost, i) \in Nat /\ Final(c, boost, i) \in Int
<1>1. c[i].score \in Nat /\ Overlap[c[i].point] \in Nat
  BY HitTypes, HybridSearchAssumption DEF HybridSearchAssumption
<1>2. boost * Overlap[c[i].point] \in Nat
  BY <1>1, TimesRises
<1> QED
  BY <1>1, <1>2 DEF Final

\* Boosted keeps every candidate, the best with its boost first.
LEMMA BoostedIs ==
  ASSUME NEW c \in Seq(HitRecord), Falling(c), NEW boost \in Nat
  PROVE  \E f : BoostedBy(Boosted(boost, c), c, boost, f)
<1>1. DOMAIN c = 1 .. Len(c) /\ Len(c) \in Nat
  OBVIOUS
<1>2. CASE boost = 0
  <2> DEFINE f == [i \in DOMAIN c |-> i]
  <2>1. Boosted(boost, c) = c
    BY <1>2 DEF Boosted
  <2>2. \A i \in DOMAIN c : Final(c, boost, i) = c[i].score /\ c[i].score \in Int
    <3> TAKE i \in DOMAIN c
    <3>1. c[i].score \in Int /\ Overlap[c[i].point] \in Nat
      BY HitTypes, HybridSearchAssumption DEF HybridSearchAssumption
    <3> QED
      BY <1>2, <3>1 DEF Final
  <2>3. ASSUME NEW k \in DOMAIN c, NEW m \in DOMAIN c, k < m
        PROVE  \/ Final(c, boost, f[k]) > Final(c, boost, f[m])
               \/ Final(c, boost, f[k]) = Final(c, boost, f[m]) /\ f[k] < f[m]
    <3>1. c[k].score >= c[m].score
      BY <2>3 DEF Falling
    <3>2. c[k].score > c[m].score \/ c[k].score = c[m].score
      BY <2>2, <3>1
    <3> QED
      BY <2>2, <2>3, <3>2
  <2>4. /\ f \in [DOMAIN c -> DOMAIN c]
        /\ \A i \in DOMAIN c : f[i] = i
    OBVIOUS
  <2> HIDE DEF f
  <2>5. BoostedBy(c, c, boost, f)
    BY <2>3, <2>4 DEF BoostedBy
  <2> QED
    BY <2>1, <2>5
<1>3. CASE boost # 0
  <2> DEFINE h == [i \in DOMAIN c |-> [c[i] EXCEPT !.score = @ + boost * Overlap[c[i].point]]]
  <2>1. Boosted(boost, c) = Sorted(h)
    BY <1>3 DEF Boosted
  <2>2. \A i \in DOMAIN c : /\ h[i] \in HitRecord /\ h[i].point = c[i].point
                            /\ h[i].score = Final(c, boost, i)
    <3> TAKE i \in DOMAIN c
    <3>1. Final(c, boost, i) \in Nat
      BY FinalIs
    <3>2. h[i] = [c[i] EXCEPT !.score = Final(c, boost, i)]
      BY DEF Final
    <3>3. c[i] \in HitRecord
      OBVIOUS
    <3> HIDE DEF h
    <3> QED
      BY <3>1, <3>2, <3>3, WithScore
  <2>3. h \in Seq(HitRecord) /\ DOMAIN h = DOMAIN c /\ Len(h) = Len(c)
    <3>1. h = [i \in 1 .. Len(c) |-> h[i]] /\ DOMAIN h = DOMAIN c
      BY <1>1
    <3> HIDE DEF h
    <3> QED
      BY <1>1, <2>2, <3>1
  <2> HIDE DEF h
  <2>4. PICK f : SortedBy(h, Sorted(h), f)
    BY <2>3, SortedIs
  <2>5. /\ Sorted(h) \in Seq(HitRecord) /\ Len(Sorted(h)) = Len(h)
        /\ \A k \in DOMAIN h : f[k] \in DOMAIN h /\ Sorted(h)[k] = h[f[k]]
    BY <2>3, <2>4, SortedSeq
  <2>6. /\ f \in [DOMAIN c -> DOMAIN c]
        /\ \A i \in DOMAIN c : \E k \in DOMAIN c : f[k] = i
        /\ \A k, m \in DOMAIN c : f[k] = f[m] => k = m
    BY <2>3, <2>4 DEF SortedBy
  <2>7. ASSUME NEW k \in DOMAIN c, NEW m \in DOMAIN c, k < m
        PROVE  \/ Final(c, boost, f[k]) > Final(c, boost, f[m])
               \/ Final(c, boost, f[k]) = Final(c, boost, f[m]) /\ f[k] < f[m]
    <3>1. \/ h[f[k]].score > h[f[m]].score
          \/ h[f[k]].score = h[f[m]].score /\ f[k] < f[m]
      BY <2>3, <2>4, <2>7 DEF SortedBy
    <3>2. h[f[k]].score = Final(c, boost, f[k]) /\ h[f[m]].score = Final(c, boost, f[m])
      BY <2>2, <2>6
    <3> QED
      BY <3>1, <3>2
  <2>8. \A k \in DOMAIN c : Sorted(h)[k].point = c[f[k]].point
    BY <2>2, <2>3, <2>5, <2>6
  <2>9. BoostedBy(Sorted(h), c, boost, f)
    BY <2>3, <2>5, <2>6, <2>7, <2>8 DEF BoostedBy
  <2> QED
    BY <2>1, <2>9
<1> QED
  BY <1>2, <1>3

\* What is returned of the candidates c.
ResultBy(r, c, settings, f) ==
  /\ r \in Seq(HitRecord)
  /\ Len(r) = IF Len(c) < settings.topK THEN Len(c) ELSE settings.topK
  /\ DOMAIN r = {k \in DOMAIN c : k <= settings.topK}
  /\ f \in [DOMAIN c -> DOMAIN c]
  /\ \A i \in DOMAIN c : \E k \in DOMAIN c : f[k] = i
  /\ \A k, m \in DOMAIN c : f[k] = f[m] => k = m
  /\ \A k \in DOMAIN r : r[k].point = c[f[k]].point
  /\ \A k, m \in DOMAIN c :
       k < m => \/ Final(c, settings.boost, f[k]) > Final(c, settings.boost, f[m])
                \/ /\ Final(c, settings.boost, f[k]) = Final(c, settings.boost, f[m])
                   /\ f[k] < f[m]

\* What the search returns of its candidates.
LEMMA ResultIs ==
  ASSUME NEW settings \in Settings, NEW c \in Seq(HitRecord), Falling(c)
  PROVE  \E f : ResultBy(First(settings.topK, Boosted(settings.boost, c)), c, settings, f)
<1> DEFINE h == Boosted(settings.boost, c)
           r == First(settings.topK, h)
<1>1. settings.boost \in Nat /\ settings.topK \in Nat
  BY Tuning, HybridSearchAssumption DEF HybridSearchAssumption
<1>2. PICK f : BoostedBy(h, c, settings.boost, f)
  BY <1>1, BoostedIs
<1> HIDE DEF h
<1>3. h \in Seq(HitRecord) /\ Len(h) = Len(c) /\ DOMAIN h = DOMAIN c
  <2>1. h \in Seq(HitRecord) /\ Len(h) = Len(c)
    BY <1>2 DEF BoostedBy
  <2> QED
    BY <2>1
<1>4. /\ r \in Seq(HitRecord)
      /\ Len(r) = IF Len(h) < settings.topK THEN Len(h) ELSE settings.topK
      /\ DOMAIN r = {k \in DOMAIN h : k <= settings.topK}
      /\ \A k \in DOMAIN r : r[k] = h[k]
  BY <1>1, <1>3, FirstIs
<1> HIDE DEF r
<1>5. \A k \in DOMAIN r : r[k].point = c[f[k]].point
  BY <1>2, <1>3, <1>4 DEF BoostedBy
<1>6. ResultBy(r, c, settings, f)
  BY <1>2, <1>3, <1>4, <1>5 DEF BoostedBy, ResultBy
<1> QED
  BY <1>6 DEF r, h

-----------------------------------------------------------------------------
(* The search.                                                             *)

SearchRecord(s) ==
  /\ s = [settings |-> s.settings, dense |-> s.dense, bm25 |-> s.bm25, result |-> s.result]
  /\ s.settings \in Settings
  /\ s.dense = Nothing \/ AnswerList(s.dense)
  /\ s.bm25 = Nothing \/ AnswerList(s.bm25)
  /\ s.settings.mode = "bm25" => s.dense = <<>>
  /\ s.settings.mode = "dense" => s.bm25 = <<>>
  /\ \/ s.result = Nothing
     \/ /\ Nothing \notin {s.dense, s.bm25}
        /\ s.result = First(s.settings.topK, Boosted(s.settings.boost, Candidates(s)))

SearchInv ==
  /\ stored \in Collections
  /\ changes \in 0 .. MaxChanges
  /\ search = Nothing \/ SearchRecord(search)

\* An answer may be empty.
LEMMA NoHits ==
  AnswerList(<<>>)
BY HybridSearchAssumption DEF HybridSearchAssumption, AnswerList

\* The length of a text is a number.
LEMMA StoredLength ==
  ASSUME stored \in Collections, NEW p \in Point
  PROVE  stored[p] \in Nat
BY HybridSearchAssumption DEF HybridSearchAssumption, Collections

\* Qdrant answers some points, each once, the best first.
LEMMA AnswerIs ==
  ASSUME stored \in Collections, NEW points \in PointLists, NEW scores \in ScoreLists(Len(points))
  PROVE  AnswerList(Answer(points, scores))
<1> DEFINE h == Answer(points, scores)
<1>1. PICK n \in 0 .. Limit : points \in [1 .. n -> Point]
  BY DEF PointLists
<1>2. n \in Nat /\ Limit \in Nat /\ n <= Limit
  BY <1>1, HybridSearchAssumption DEF HybridSearchAssumption
<1>3. Len(points) = n /\ DOMAIN points = 1 .. n
  BY <1>1, <1>2
<1>4. \A i, j \in 1 .. n : points[i] = points[j] => i = j
  BY <1>3 DEF PointLists, IsInjective
<1>5. /\ scores \in [1 .. n -> 0 .. MaxScore]
      /\ \A i \in 1 .. n - 1 : scores[i] >= scores[i + 1]
  BY <1>3 DEF ScoreLists
<1>6. MaxScore \in Nat
  BY HybridSearchAssumption DEF HybridSearchAssumption
<1>7. ASSUME NEW i \in 1 .. n
      PROVE  /\ h[i] \in HitRecord /\ h[i].point = points[i] /\ h[i].score = scores[i]
             /\ scores[i] \in Nat
  <2>1. points[i] \in Point /\ scores[i] \in Nat
    BY <1>1, <1>5, <1>6
  <2>2. stored[points[i]] \in Nat
    BY <2>1, StoredLength
  <2>3. h[i] = [point |-> points[i], text |-> stored[points[i]], score |-> scores[i]]
    BY <1>3 DEF Answer
  <2> QED
    BY <2>1, <2>2, <2>3 DEF HitRecord
<1>8. h \in Seq(HitRecord) /\ Len(h) = n /\ DOMAIN h = 1 .. n
  <2>1. h = [i \in 1 .. n |-> h[i]]
    BY <1>3 DEF Answer
  <2> HIDE DEF h
  <2> QED
    BY <1>2, <1>7, <2>1
<1> HIDE DEF h
<1>9. \A i, j \in 1 .. n : i <= j => scores[i] >= scores[j]
  <2> DEFINE T == {d \in Nat : \A i \in 1 .. n : i + d \in 1 .. n => scores[i] >= scores[i + d]}
  <2>1. 0 \in T
    BY <1>2, <1>7
  <2>2. ASSUME NEW d \in Nat, d \in T
        PROVE  d + 1 \in T
    <3> SUFFICES ASSUME NEW i \in 1 .. n, i + (d + 1) \in 1 .. n
                 PROVE  scores[i] >= scores[i + (d + 1)]
      OBVIOUS
    <3>1. /\ i + d \in 1 .. n /\ i + d \in 1 .. n - 1
          /\ (i + d) + 1 = i + (d + 1)
      BY <1>2
    <3>2. scores[i] >= scores[i + d]
      BY <2>2, <3>1
    <3>3. scores[i + d] >= scores[i + (d + 1)]
      BY <1>5, <3>1
    <3>4. scores[i] \in Nat /\ scores[i + d] \in Nat /\ scores[i + (d + 1)] \in Nat
      BY <1>7, <3>1
    <3> QED
      BY <3>2, <3>3, <3>4
  <2> HIDE DEF T
  <2>3. Nat \subseteq T
    BY <2>1, <2>2, NatInductionOnSet
  <2> SUFFICES ASSUME NEW i \in 1 .. n, NEW j \in 1 .. n, i <= j
               PROVE  scores[i] >= scores[j]
    OBVIOUS
  <2>4. j - i \in Nat /\ i + (j - i) = j
    BY <1>2
  <2> QED
    BY <2>3, <2>4 DEF T
<1>10. \A i, j \in DOMAIN h : i <= j => h[i].score >= h[j].score
  BY <1>7, <1>8, <1>9
<1>11. \A i, j \in DOMAIN h : h[i].point = h[j].point => i = j
  BY <1>4, <1>7, <1>8
<1> QED
  BY <1>2, <1>8, <1>10, <1>11 DEF AnswerList, h

\* A field of a search is set, the others stay.
LEMMA SearchFields ==
  ASSUME NEW s,
         s = [settings |-> s.settings, dense |-> s.dense, bm25 |-> s.bm25, result |-> s.result],
         NEW x
  PROVE  /\ [s EXCEPT !.dense = x] =
              [settings |-> s.settings, dense |-> x, bm25 |-> s.bm25, result |-> s.result]
         /\ [s EXCEPT !.bm25 = x] =
              [settings |-> s.settings, dense |-> s.dense, bm25 |-> x, result |-> s.result]
         /\ [s EXCEPT !.result = x] =
              [settings |-> s.settings, dense |-> s.dense, bm25 |-> s.bm25, result |-> x]
<1> DEFINE D == {s.settings, s.dense, s.bm25, s.result, x}
<1>1. s \in [settings : D, dense : D, bm25 : D, result : D]
  OBVIOUS
<1> QED
  BY <1>1

\* The candidates look at the settings and the two answers only.
LEMMA CandidatesOf ==
  ASSUME NEW s, NEW t, s.settings = t.settings, s.dense = t.dense, s.bm25 = t.bm25
  PROVE  Candidates(s) = Candidates(t)
BY DEF Candidates

\* What the search has before the boost.
LEMMA CandidatesAre ==
  ASSUME NEW s, SearchRecord(s), AnswerList(s.dense), AnswerList(s.bm25)
  PROVE  /\ Candidates(s) \in Seq(HitRecord)
         /\ Falling(Candidates(s))
         /\ s.settings.mode = "hybrid" => FusedAs(Candidates(s), s.settings, s.dense, s.bm25)
         /\ \A i, j \in DOMAIN Candidates(s) :
              Candidates(s)[i].point = Candidates(s)[j].point => i = j
<1> DEFINE c == Candidates(s)
<1>1. s.settings \in Settings /\ s.settings.mode \in {"dense", "bm25", "hybrid"}
  BY Tuning DEF SearchRecord
<1>2. CASE s.settings.mode = "hybrid"
  <2>1. c = Fuse(s.settings, s.dense, s.bm25)
    BY <1>2 DEF Candidates
  <2>2. FusedAs(c, s.settings, s.dense, s.bm25)
    BY <1>1, <2>1, FuseIs
  <2> HIDE DEF c
  <2>3. \A i, j \in DOMAIN c : c[i].point = c[j].point => i = j
    BY <2>2 DEF FusedAs
  <2> QED
    BY <2>2, <2>3 DEF FusedAs, c
<1>3. CASE s.settings.mode # "hybrid"
  <2>1. c = s.dense \o s.bm25
    BY <1>3 DEF Candidates
  <2>2. s.dense = <<>> \/ s.bm25 = <<>>
    BY <1>1, <1>3 DEF SearchRecord
  <2>3. s.dense \in Seq(HitRecord) /\ s.bm25 \in Seq(HitRecord)
    BY DEF AnswerList
  <2>4. c = s.dense \/ c = s.bm25
    BY <2>1, <2>2, <2>3, ConcatEmptySeq
  <2>5. AnswerList(c)
    BY <2>4
  <2> HIDE DEF c
  <2>6. c \in Seq(HitRecord) /\ \A i, j \in DOMAIN c : c[i].point = c[j].point => i = j
    BY <2>5 DEF AnswerList
  <2>7. \A i, j \in DOMAIN c : i < j => c[i].score >= c[j].score
    <3> SUFFICES ASSUME NEW i \in DOMAIN c, NEW j \in DOMAIN c, i < j
                 PROVE  c[i].score >= c[j].score
      OBVIOUS
    <3>1. i \in Int /\ j \in Int
      BY <2>6
    <3>2. i <= j
      BY <3>1
    <3> QED
      BY <2>5, <3>2 DEF AnswerList
  <2> QED
    BY <1>3, <2>6, <2>7 DEF Falling, c
<1> QED
  BY <1>2, <1>3

\* No search, at first.
LEMMA SearchStarts ==
  SearchInit => SearchInv
<1> SUFFICES ASSUME SearchInit PROVE SearchInv
  OBVIOUS
<1>1. MaxChanges \in Nat
  BY HybridSearchAssumption DEF HybridSearchAssumption
<1> QED
  BY <1>1 DEF SearchInit, SearchInv

\* A search begins: one answer it does not need is empty.
LEMMA BeginSteps ==
  ASSUME SearchInv, NEW settings \in Settings, Begin(settings)
  PROVE  SearchInv'
<1>1. settings.mode \in {"dense", "bm25", "hybrid"}
  BY Tuning
<1>2. /\ search'.settings = settings
      /\ search'.dense = IF settings.mode = "bm25" THEN <<>> ELSE Nothing
      /\ search'.bm25 = IF settings.mode = "dense" THEN <<>> ELSE Nothing
      /\ search'.result = Nothing
      /\ search' = [settings |-> search'.settings, dense |-> search'.dense,
                    bm25 |-> search'.bm25, result |-> search'.result]
  BY DEF Begin
<1>3. SearchRecord(search')
  BY <1>1, <1>2, NoHits DEF SearchRecord
<1> QED
  BY <1>3 DEF SearchInv, Begin

\* The dense answer comes while there is no result.
LEMMA ReadDenseSteps ==
  ASSUME SearchInv, NEW points \in PointLists, NEW scores \in ScoreLists(Len(points)),
         ReadDense(points, scores)
  PROVE  SearchInv'
<1>1. SearchRecord(search) /\ search.dense = Nothing
  BY DEF SearchInv, ReadDense, Found
<1>2. AnswerList(Answer(points, scores))
  BY AnswerIs DEF SearchInv
<1>3. search' = [settings |-> search.settings, dense |-> Answer(points, scores),
                 bm25 |-> search.bm25, result |-> search.result]
  BY <1>1, SearchFields DEF SearchRecord, ReadDense
<1>4. /\ search'.settings = search.settings /\ search'.dense = Answer(points, scores)
      /\ search'.bm25 = search.bm25 /\ search'.result = search.result
      /\ search' = [settings |-> search'.settings, dense |-> search'.dense,
                    bm25 |-> search'.bm25, result |-> search'.result]
  BY <1>3
<1>5. search.result = Nothing /\ search.settings.mode # "bm25"
  BY <1>1, HybridSearchAssumption DEF SearchRecord, HybridSearchAssumption
<1>6. SearchRecord(search')
  BY <1>1, <1>2, <1>4, <1>5 DEF SearchRecord
<1> QED
  BY <1>6 DEF SearchInv, ReadDense, Found

\* So does the sparse one.
LEMMA ReadBm25Steps ==
  ASSUME SearchInv, NEW points \in PointLists, NEW scores \in ScoreLists(Len(points)),
         ReadBm25(points, scores)
  PROVE  SearchInv'
<1>1. SearchRecord(search) /\ search.bm25 = Nothing
  BY DEF SearchInv, ReadBm25, Found
<1>2. AnswerList(Answer(points, scores))
  BY AnswerIs DEF SearchInv
<1>3. search' = [settings |-> search.settings, dense |-> search.dense,
                 bm25 |-> Answer(points, scores), result |-> search.result]
  BY <1>1, SearchFields DEF SearchRecord, ReadBm25
<1>4. /\ search'.settings = search.settings /\ search'.dense = search.dense
      /\ search'.bm25 = Answer(points, scores) /\ search'.result = search.result
      /\ search' = [settings |-> search'.settings, dense |-> search'.dense,
                    bm25 |-> search'.bm25, result |-> search'.result]
  BY <1>3
<1>5. search.result = Nothing /\ search.settings.mode # "dense"
  BY <1>1, HybridSearchAssumption DEF SearchRecord, HybridSearchAssumption
<1>6. SearchRecord(search')
  BY <1>1, <1>2, <1>4, <1>5 DEF SearchRecord
<1> QED
  BY <1>6 DEF SearchInv, ReadBm25, Found

\* Both answers are there: the result is made of them.
LEMMA FinishSteps ==
  ASSUME SearchInv, Finish
  PROVE  SearchInv'
<1> DEFINE r == First(search.settings.topK, Boosted(search.settings.boost, Candidates(search)))
<1>1. SearchRecord(search) /\ Nothing \notin {search.dense, search.bm25}
  BY DEF SearchInv, Finish
<1>2. search' = [settings |-> search.settings, dense |-> search.dense,
                 bm25 |-> search.bm25, result |-> r]
  BY <1>1, SearchFields DEF SearchRecord, Finish
<1> HIDE DEF r
<1>3. /\ search'.settings = search.settings /\ search'.dense = search.dense
      /\ search'.bm25 = search.bm25 /\ search'.result = r
      /\ search' = [settings |-> search'.settings, dense |-> search'.dense,
                    bm25 |-> search'.bm25, result |-> search'.result]
  BY <1>2
<1>4. Candidates(search') = Candidates(search)
  BY <1>3, CandidatesOf
<1>5. SearchRecord(search')
  BY <1>1, <1>3, <1>4 DEF SearchRecord, r
<1> QED
  BY <1>5 DEF SearchInv, Finish

\* A point changes: what the search has read does not.
LEMMA ChangeSteps ==
  ASSUME SearchInv, NEW p \in Point, NEW length \in Lengths[p], Change(p, length)
  PROVE  SearchInv'
<1>1. stored' \in Collections
  <2>1. stored \in [Point -> UNION {Lengths[q] : q \in Point}]
    BY DEF SearchInv, Collections
  <2>2. stored' = [stored EXCEPT ![p] = length] /\ length \in UNION {Lengths[q] : q \in Point}
    BY DEF Change
  <2>3. stored' \in [Point -> UNION {Lengths[q] : q \in Point}]
    BY <2>1, <2>2
  <2>4. \A q \in Point : stored'[q] \in Lengths[q]
    BY <2>1, <2>2 DEF SearchInv, Collections
  <2> QED
    BY <2>3, <2>4 DEF Collections
<1>2. changes' \in 0 .. MaxChanges
  BY HybridSearchAssumption DEF HybridSearchAssumption, SearchInv, Change
<1>3. search' = search
  BY DEF Change
<1> QED
  BY <1>1, <1>2, <1>3 DEF SearchInv

\* Every step keeps the invariant.
LEMMA SearchSteps ==
  SearchInv /\ [SearchNext]_searchVars => SearchInv'
<1> SUFFICES ASSUME SearchInv, [SearchNext]_searchVars
             PROVE  SearchInv'
  OBVIOUS
<1>1. CASE End
  BY <1>1 DEF End, SearchInv
<1>2. CASE UNCHANGED searchVars
  BY <1>2 DEF searchVars, SearchInv
<1> QED
  BY <1>1, <1>2, BeginSteps, ReadDenseSteps, ReadBm25Steps, FinishSteps, ChangeSteps DEF SearchNext

\* The index and the search are well-formed, and a result is what Finish makes of the two
\* answers the search still holds (RagEngine.search).
THEOREM SearchInvariant == SearchSpec => []SearchInv
<1>1. SearchInit => SearchInv
  BY SearchStarts
<1>2. SearchInv /\ [SearchNext]_searchVars => SearchInv'
  BY SearchSteps
<1> QED
  BY <1>1, <1>2, PTL DEF SearchSpec

-----------------------------------------------------------------------------
(* What a finished search returns.                                         *)

\* What a finished search returns, of which candidates.
LEMMA FinishedIs ==
  ASSUME SearchInv, Done
  PROVE  LET c == Candidates(search) IN
         /\ search.settings \in Settings
         /\ AnswerList(search.dense) /\ AnswerList(search.bm25)
         /\ c \in Seq(HitRecord)
         /\ Falling(c)
         /\ search.settings.mode = "hybrid" =>
              FusedAs(c, search.settings, search.dense, search.bm25)
         /\ \A i, j \in DOMAIN c : c[i].point = c[j].point => i = j
         /\ \E f : ResultBy(search.result, c, search.settings, f)
<1>1. /\ SearchRecord(search) /\ search.settings \in Settings
      /\ AnswerList(search.dense) /\ AnswerList(search.bm25)
      /\ search.result =
           First(search.settings.topK, Boosted(search.settings.boost, Candidates(search)))
  BY DEF SearchInv, Done, SearchRecord
<1> QED
  BY <1>1, CandidatesAre, ResultIs

\* The search returns at most top_k hits, of distinct points, and of distinct chunks when
\* it fused (RagEngine.search, CandidateFusion.fuse).
THEOREM SearchTypes == SearchSpec => []SearchTypeOK
<1>1. SearchInv => SearchTypeOK
  <2> SUFFICES ASSUME SearchInv, Done
               PROVE  /\ Len(search.result) <= search.settings.topK
                      /\ \A i, j \in DOMAIN search.result :
                           \/ i = j
                           \/ /\ search.result[i].point # search.result[j].point
                              /\ search.settings.mode = "hybrid" =>
                                   ChunkId[search.result[i].point] # ChunkId[search.result[j].point]
    BY DEF SearchTypeOK, SearchInv
  <2> DEFINE c == Candidates(search)
             r == search.result
             k == search.settings.topK
  <2>1. PICK f : ResultBy(r, c, search.settings, f)
    BY FinishedIs
  <2>2. /\ c \in Seq(HitRecord)
        /\ search.settings.mode = "hybrid" => FusedAs(c, search.settings, search.dense, search.bm25)
        /\ \A i, j \in DOMAIN c : c[i].point = c[j].point => i = j
        /\ k \in Nat
    BY FinishedIs, Tuning, HybridSearchAssumption DEF HybridSearchAssumption
  <2> HIDE DEF c, r, k
  <2>3. Len(c) \in Nat
    BY <2>2
  <2>4. Len(r) <= k
    BY <2>1, <2>2, <2>3 DEF ResultBy, k
  <2>5. ASSUME NEW i \in DOMAIN r, NEW j \in DOMAIN r, i # j
        PROVE  /\ r[i].point # r[j].point
               /\ search.settings.mode = "hybrid" => ChunkId[r[i].point] # ChunkId[r[j].point]
    <3>1. /\ f[i] \in DOMAIN c /\ f[j] \in DOMAIN c /\ f[i] # f[j]
          /\ r[i].point = c[f[i]].point /\ r[j].point = c[f[j]].point
      BY <2>1, <2>5 DEF ResultBy
    <3> QED
      BY <2>2, <3>1 DEF FusedAs
  <2> QED
    BY <2>4, <2>5 DEF r, k
<1> QED
  BY <1>1, SearchInvariant, PTL

\* Where the result has a hit that the candidates have at m, it also has, before it, the
\* one they have at an earlier i that scores no less with the boost.
LEMMA EarlierKept ==
  ASSUME NEW c \in Seq(HitRecord), NEW settings \in Settings, NEW r, NEW f,
         ResultBy(r, c, settings, f),
         NEW j \in DOMAIN r, NEW i \in DOMAIN c, i < f[j],
         Final(c, settings.boost, i) >= Final(c, settings.boost, f[j])
  PROVE  \E k \in DOMAIN r : k < j /\ r[k].point = c[i].point
<1>1. DOMAIN c = 1 .. Len(c) /\ Len(c) \in Nat
  OBVIOUS
<1>2. settings.boost \in Nat /\ settings.topK \in Int
  BY Tuning, HybridSearchAssumption DEF HybridSearchAssumption
<1>3. PICK k \in DOMAIN c : f[k] = i
  BY DEF ResultBy
<1>4. j \in DOMAIN c /\ j <= settings.topK /\ f[j] \in DOMAIN c /\ f[j] \in Int /\ i \in Int
      /\ j \in Int /\ k \in Int
  BY <1>1 DEF ResultBy
<1>5. /\ Final(c, settings.boost, i) \in Int
      /\ Final(c, settings.boost, f[j]) \in Int
  BY <1>2, <1>4, FinalIs
<1>6. k # j
  BY <1>3, <1>4
<1>7. ~ j < k
  <2> SUFFICES ASSUME j < k PROVE FALSE
    OBVIOUS
  <2>1. \/ Final(c, settings.boost, f[j]) > Final(c, settings.boost, f[k])
        \/ /\ Final(c, settings.boost, f[j]) = Final(c, settings.boost, f[k])
           /\ f[j] < f[k]
    BY <1>4 DEF ResultBy
  <2> QED
    BY <1>3, <1>4, <1>5, <2>1
<1>8. k < j /\ k <= settings.topK
  BY <1>2, <1>4, <1>6, <1>7
<1>9. k \in DOMAIN r
  BY <1>8 DEF ResultBy
<1> QED
  BY <1>3, <1>8, <1>9 DEF ResultBy

\* The points a retriever found.
LEMMA FoundIs ==
  /\ FoundPoints = In(search.dense, search.bm25)
  /\ OneDocumentEach <=> Distinct(FoundPoints)
BY DEF FoundPoints, OneDocumentEach, In, Distinct

\* If both retrievers rank a before b and the query's entities do not favour b, b is not
\* returned without a before it (CandidateFusion.fuse, apply_entity_boosts).
THEOREM SearchKeepsAgreement == SearchSpec => []AgreementKept
<1>1. SearchInv => AgreementKept
  <2> SUFFICES ASSUME SearchInv, Done, search.settings.mode = "hybrid", OneDocumentEach,
                      NEW a \in Point, NEW b \in Point,
                      Prefers(search.dense, a, b), Prefers(search.bm25, a, b),
                      Overlap[a] >= Overlap[b],
                      NEW j \in Positions(b, search.result)
               PROVE  \E i \in Positions(a, search.result) : i < j
    BY DEF AgreementKept
  <2> DEFINE c == Candidates(search)
             r == search.result
             settings == search.settings
             found == In(search.dense, search.bm25)
  <2>1. PICK f : ResultBy(r, c, settings, f)
    BY FinishedIs
  <2>2. /\ c \in Seq(HitRecord) /\ settings \in Settings /\ settings.boost \in Nat
        /\ Falling(c)
        /\ FusedAs(c, settings, search.dense, search.bm25)
        /\ Distinct(found)
    BY FinishedIs, FoundIs, Tuning
  <2>3. j \in DOMAIN r /\ r[j].point = b
    BY DEF Positions
  <2> HIDE DEF c, r, settings, found
  <2>4. f[j] \in DOMAIN c /\ c[f[j]].point = b
    BY <2>1, <2>3 DEF ResultBy
  <2>5. b \in found
    BY <2>2, <2>4 DEF FusedAs, found
  <2>6. a \in found
    <3>1. PICK i \in Positions(a, search.dense) : TRUE
      BY DEF Prefers
    <3> QED
      BY <3>1 DEF Positions, found, In
  <2>7. PICK i \in Positions(a, c) : i < f[j]
    <3>1. f[j] \in Positions(b, c)
      BY <2>4 DEF Positions
    <3> QED
      BY <2>2, <2>5, <2>6, <3>1 DEF FusedAs, found
  <2>8. i \in DOMAIN c /\ c[i].point = a
    BY <2>7 DEF Positions
  <2>9. Final(c, settings.boost, i) >= Final(c, settings.boost, f[j])
    <3>1. c[i].score >= c[f[j]].score
      BY <2>2, <2>4, <2>7, <2>8 DEF Falling
    <3>2. /\ c[i].score \in Nat /\ c[f[j]].score \in Nat
          /\ Overlap[a] \in Nat /\ Overlap[b] \in Nat
      BY <2>2, <2>4, <2>8, HitTypes, HybridSearchAssumption DEF HybridSearchAssumption
    <3>3. /\ settings.boost * Overlap[b] <= settings.boost * Overlap[a]
          /\ settings.boost * Overlap[b] \in Nat /\ settings.boost * Overlap[a] \in Nat
      BY <2>2, <3>2, TimesRises
    <3> QED
      BY <2>4, <2>8, <3>1, <3>2, <3>3 DEF Final
  <2>10. PICK k \in DOMAIN r : k < j /\ r[k].point = c[i].point
    BY <2>1, <2>2, <2>3, <2>7, <2>8, <2>9, EarlierKept
  <2> QED
    BY <2>8, <2>10 DEF Positions, r
<1> QED
  BY <1>1, SearchInvariant, PTL

\* As many points as places, if no point is at two of them.
LEMMA PointsOf ==
  ASSUME NEW n \in Nat, NEW h \in [1 .. n -> HitRecord],
         \A i, j \in 1 .. n : h[i].point = h[j].point => i = j
  PROVE  /\ IsFiniteSet({h[i].point : i \in 1 .. n})
         /\ Cardinality({h[i].point : i \in 1 .. n}) = n
<1> DEFINE P == {h[i].point : i \in 1 .. n}
           g == [i \in 1 .. n |-> h[i].point]
<1>1. g \in Bijection(1 .. n, P)
  <2>1. g \in [1 .. n -> P] /\ \A i \in 1 .. n : g[i] = h[i].point
    OBVIOUS
  <2>2. \A p \in P : \E i \in 1 .. n : g[i] = p
    OBVIOUS
  <2>3. \A i, j \in 1 .. n : g[i] = g[j] => i = j
    BY <2>1
  <2> HIDE DEF g, P
  <2> QED
    BY <2>1, <2>2, <2>3 DEF Bijection, Injection, Surjection, IsInjective
<1> HIDE DEF g
<1>2. IsFiniteSet(1 .. n) /\ Cardinality(1 .. n) = n
  BY FS_Interval
<1>3. IsFiniteSet(P) /\ Cardinality(P) = n
  BY <1>1, <1>2, FS_Bijection DEF ExistsBijection
<1> QED
  BY <1>3

\* They are finitely many.
LEMMA FoundIsFinite ==
  ASSUME NEW dense, NEW bm25, AnswerList(dense), AnswerList(bm25)
  PROVE  IsFiniteSet(In(dense, bm25))
<1>1. \A h : AnswerList(h) => IsFiniteSet({h[i].point : i \in DOMAIN h})
  <2> SUFFICES ASSUME NEW h, AnswerList(h) PROVE IsFiniteSet({h[i].point : i \in DOMAIN h})
    OBVIOUS
  <2>1. h \in Seq(HitRecord)
    BY DEF AnswerList
  <2>2. Len(h) \in Nat /\ h \in [1 .. Len(h) -> HitRecord] /\ DOMAIN h = 1 .. Len(h)
    BY <2>1
  <2>3. \A i, j \in 1 .. Len(h) : h[i].point = h[j].point => i = j
    BY <2>2 DEF AnswerList
  <2> QED
    BY <2>2, <2>3, PointsOf
<1> QED
  BY <1>1, FS_Union DEF In

\* What a retriever found and the result lacks was cut, by top_k or by candidate_count,
\* behind as many that rank no worse (CandidateFusion.fuse, RagEngine.search).
THEOREM SearchJustifiesCuts == SearchSpec => []CutIsJustified
<1>1. SearchInv => CutIsJustified
  <2> DEFINE settings == search.settings
             fused(p) == FusedScore(settings, search.dense, search.bm25, ChunkId[p])
             final(p) == fused(p) + settings.boost * Overlap[p]
             c == Candidates(search)
             r == search.result
             found == In(search.dense, search.bm25)
             returned == {r[i].point : i \in DOMAIN r}
  <2> SUFFICES ASSUME SearchInv, Done, settings.mode = "hybrid", OneDocumentEach,
                      NEW p \in FoundPoints \ returned
               PROVE  \/ /\ Cardinality(returned) = settings.topK
                         /\ \A q \in returned : final(q) >= final(p)
                      \/ Cardinality({q \in FoundPoints : q # p /\ fused(q) >= fused(p)}) >= Limit
    BY DEF CutIsJustified
  <2>1. PICK f : ResultBy(r, c, settings, f)
    BY FinishedIs
  <2>2. /\ c \in Seq(HitRecord) /\ settings \in Settings
        /\ settings.topK \in Nat /\ settings.boost \in Nat
        /\ FusedAs(c, settings, search.dense, search.bm25)
        /\ Distinct(found) /\ FoundPoints = found
        /\ \A i, j \in DOMAIN c : c[i].point = c[j].point => i = j
    BY FinishedIs, FoundIs, Tuning, HybridSearchAssumption DEF HybridSearchAssumption
  <2>3. Limit \in Nat /\ IsFiniteSet(found)
    BY FinishedIs, FoundIsFinite, HybridSearchAssumption DEF HybridSearchAssumption
  <2>4. Len(c) \in Nat /\ DOMAIN c = 1 .. Len(c) /\ c \in [1 .. Len(c) -> HitRecord]
    BY <2>2
  <2>5. \A k \in DOMAIN c : /\ c[k].point \in found
                            /\ c[k].score = fused(c[k].point)
                            /\ Final(c, settings.boost, k) = final(c[k].point)
                            /\ Final(c, settings.boost, k) \in Int
    <3> TAKE k \in DOMAIN c
    <3>1. c[k].point \in found /\ c[k].score = fused(c[k].point)
      BY <2>2 DEF FusedAs
    <3>2. Final(c, settings.boost, k) \in Int
      BY <2>2, FinalIs
    <3> QED
      BY <3>1, <3>2 DEF Final
  <2> HIDE DEF c, r, settings, found, fused, final
  <2>6. CASE \E m \in DOMAIN c : c[m].point = p
    <3>1. PICK m \in DOMAIN c : c[m].point = p
      BY <2>6
    <3>2. PICK k \in DOMAIN c : f[k] = m
      BY <2>1 DEF ResultBy
    <3>3. k \in Int /\ ~ k <= settings.topK
      <4>1. k \notin DOMAIN r
        BY <2>1, <3>1, <3>2 DEF ResultBy
      <4> QED
        BY <2>1, <2>4, <4>1 DEF ResultBy
    <3>4. DOMAIN r = 1 .. settings.topK /\ r \in Seq(HitRecord) /\ Len(r) = settings.topK
      <4>1. Len(r) = settings.topK /\ r \in Seq(HitRecord)
        BY <2>1, <2>2, <2>4, <3>2, <3>3 DEF ResultBy
      <4> QED
        BY <4>1
    <3>5. \A i \in DOMAIN r : /\ i \in DOMAIN c /\ i <= settings.topK
                              /\ f[i] \in DOMAIN c /\ r[i].point = c[f[i]].point
      BY <2>1 DEF ResultBy
    <3>6. \A i, j \in DOMAIN r : r[i].point = r[j].point => i = j
      <4> SUFFICES ASSUME NEW i \in DOMAIN r, NEW j \in DOMAIN r, r[i].point = r[j].point
                   PROVE  i = j
        OBVIOUS
      <4>1. f[i] = f[j]
        BY <2>2, <3>5
      <4>2. \A x, y \in DOMAIN c : f[x] = f[y] => x = y
        BY <2>1 DEF ResultBy
      <4> QED
        BY <3>5, <4>1, <4>2
    <3>7. r \in [1 .. settings.topK -> HitRecord]
      <4>1. r \in [1 .. Len(r) -> HitRecord]
        BY <3>4
      <4> QED
        BY <3>4, <4>1
    <3>8. Cardinality(returned) = settings.topK
      BY <2>2, <3>4, <3>6, <3>7, PointsOf
    <3>9. ASSUME NEW i \in DOMAIN r
          PROVE  final(r[i].point) >= final(p)
      <4>1. i \in DOMAIN c /\ i < k
        BY <2>2, <2>4, <3>3, <3>5
      <4>2. \/ Final(c, settings.boost, f[i]) > Final(c, settings.boost, f[k])
            \/ Final(c, settings.boost, f[i]) = Final(c, settings.boost, f[k])
        BY <2>1, <4>1 DEF ResultBy
      <4>3. Final(c, settings.boost, f[i]) >= Final(c, settings.boost, f[k])
        BY <2>5, <3>2, <3>5, <4>2
      <4> QED
        BY <2>5, <3>1, <3>2, <3>5, <4>3
    <3> QED
      BY <3>8, <3>9
  <2>7. CASE \A m \in DOMAIN c : c[m].point # p
    <3> DEFINE Q == {q \in found : q # p /\ fused(q) >= fused(p)}
               C == {c[k].point : k \in 1 .. Len(c)}
    <3>1. Len(c) = Limit /\ \A k \in DOMAIN c : c[k].score >= fused(p)
      <4>1. p \in found
        BY <2>2
      <4> QED
        BY <2>2, <2>7, <4>1 DEF FusedAs, found, fused
    <3>2. C \in SUBSET Q
      BY <2>4, <2>5, <2>7, <3>1
    <3>3. IsFiniteSet(Q)
      BY <2>3, FS_Subset
    <3>4. Cardinality(C) = Limit
      BY <2>2, <2>4, <3>1, PointsOf
    <3>5. Cardinality(C) <= Cardinality(Q) /\ Cardinality(Q) \in Nat
      <4> HIDE DEF C, Q
      <4> QED
        BY <3>2, <3>3, FS_Subset, FS_CardinalityType
    <3> QED
      BY <2>2, <2>3, <3>4, <3>5
  <2> QED
    BY <2>6, <2>7
<1> QED
  BY <1>1, SearchInvariant, PTL
=============================================================================
