---------------------------- MODULE HybridSearch ----------------------------
(***************************************************************************)
(* What RagEngine.search does on a cache miss: the dense and the sparse    *)
(* retriever ask Qdrant concurrently, CandidateFusion merges their hits    *)
(* into one ranked list, hits that share entities with the query are       *)
(* boosted, and the best are returned.  The index may change between the   *)
(* two reads.                                                              *)
(*                                                                         *)
(* A point's text is its length, 0 for a point that is not there: it is    *)
(* all fusion looks at.  Weights and boosts are integers, and scores are   *)
(* kept as multiples of 1 / ScoreUnit.  No reranker is wired.              *)
(***************************************************************************)
EXTENDS Integers, Sequences, FiniteSets, SequencesExt

CONSTANTS
  Point,       \* the points of the collection the request may see
  ChunkId,     \* the chunk id in each point's payload: it does not name the KB
  Overlap,     \* how many entities each point's chunk shares with the query
  Lengths,     \* the lengths each point's text may have
  MaxScore,    \* bound on Qdrant's scores
  ScoreUnit,   \* fused scores are multiples of 1 / ScoreUnit
  Limit,       \* candidate_count: hits each retriever, and fusion, may return
  Settings,    \* the retrieval settings of the project's requests
  RrfK,        \* 60
  MaxChanges,  \* bound on the changes of the index
  Nothing      \* no search, no answer yet

ASSUME HybridSearchAssumption ==
  /\ DOMAIN ChunkId = Point
  /\ Lengths \in [Point -> SUBSET Nat]
  /\ Overlap \in [Point -> Nat]
  /\ Limit \in Nat \ {0}
  /\ {MaxScore, RrfK, MaxChanges} \subseteq Nat
  /\ ScoreUnit \in Nat \ {0}
  /\ \A n \in (RrfK + 1 .. RrfK + Limit) \cup (1 .. MaxScore) : ScoreUnit % n = 0
  /\ Settings \subseteq [mode : {"dense", "bm25", "hybrid"}, fusion : {"rrf", "weighted"},
                         denseWeight : Nat, bm25Weight : Nat, boost : Nat,
                         topK : 1 .. Limit]
  /\ Nothing # <<>>

VARIABLES
  stored,   \* the length of the text of each point, 0 for none
  changes,  \* how many points were changed
  search    \* the search in progress, or its result

searchVars == <<stored, changes, search>>

Collections == {lengths \in [Point -> UNION {Lengths[p] : p \in Point}] :
                  \A p \in Point : lengths[p] \in Lengths[p]}

\* A search waits for the answers of the retrievers its mode needs.
SearchInit ==
  /\ stored \in Collections
  /\ changes = 0
  /\ search = Nothing

Begin(settings) ==
  /\ search = Nothing
  /\ search' = [settings |-> settings,
                dense |-> IF settings.mode = "bm25" THEN <<>> ELSE Nothing,
                bm25 |-> IF settings.mode = "dense" THEN <<>> ELSE Nothing,
                result |-> Nothing]
  /\ UNCHANGED <<stored, changes>>

\* Qdrant ranks some points by score, each once, and returns the first Limit.  A
\* sparse query misses the points that share no term with it, an approximate dense one
\* may miss some too.
Answer(points, scores) ==
  [i \in DOMAIN points |->
     [point |-> points[i], text |-> stored[points[i]], score |-> scores[i]]]

PointLists ==
  {points \in UNION {[1 .. n -> Point] : n \in 0 .. Limit} : IsInjective(points)}

ScoreLists(n) ==
  {scores \in [1 .. n -> 0 .. MaxScore] :
     \A i \in 1 .. n - 1 : scores[i] >= scores[i + 1]}

Found(points, scores) ==
  /\ search # Nothing
  /\ \A i \in DOMAIN points : stored[points[i]] > 0
  /\ UNCHANGED <<stored, changes>>

ReadDense(points, scores) ==
  /\ Found(points, scores)
  /\ search.dense = Nothing
  /\ search' = [search EXCEPT !.dense = Answer(points, scores)]

ReadBm25(points, scores) ==
  /\ Found(points, scores)
  /\ search.bm25 = Nothing
  /\ search' = [search EXCEPT !.bm25 = Answer(points, scores)]

-----------------------------------------------------------------------------
(* Fusion.                                                                 *)

\* What the i-th hit of a list is worth: by its rank, or by where its score lies
\* between the lowest and the highest of the list.
Worth(fusion, hits, i) ==
  LET high == hits[1].score
      low == hits[Len(hits)].score
  IN  CASE fusion = "rrf" -> ScoreUnit \div (RrfK + i)
        [] fusion = "weighted" /\ high = low -> ScoreUnit
        [] fusion = "weighted" /\ high # low ->
             (hits[i].score - low) * (ScoreUnit \div (high - low))

\* A list's contribution to the score of a chunk id: hits of equal id add up.
Contribution(fusion, hits, id) ==
  LET sum[n \in 0 .. Len(hits)] ==
        IF n = 0 THEN 0
        ELSE IF ChunkId[hits[n].point] = id THEN sum[n - 1] + Worth(fusion, hits, n)
        ELSE sum[n - 1]
  IN  sum[Len(hits)]

FusedScore(settings, dense, bm25, id) ==
  settings.denseWeight * Contribution(settings.fusion, dense, id)
    + settings.bm25Weight * Contribution(settings.fusion, bm25, id)

\* Of the hits with the id, the first with the longest text.
Merged(hits, id) ==
  LET same == {i \in DOMAIN hits : ChunkId[hits[i].point] = id} IN
  hits[CHOOSE i \in same :
         \A j \in same : \/ hits[i].text > hits[j].text
                         \/ hits[i].text = hits[j].text /\ i <= j]

\* The elements of a set by how many of it come before them.
Ranking(S, before) ==
  [k \in 1 .. Cardinality(S) |-> CHOOSE i \in S : Cardinality(before[i]) = k - 1]

\* Sorting is stable: of equal scores the one seen first comes first.
Better(hits) ==
  [i \in DOMAIN hits |->
     {j \in DOMAIN hits : \/ hits[j].score > hits[i].score
                          \/ hits[j].score = hits[i].score /\ j < i}]

Sorted(hits) ==
  LET order == Ranking(DOMAIN hits, Better(hits))
  IN  [i \in DOMAIN hits |-> hits[order[i]]]

First(n, hits) == SubSeq(hits, 1, IF Len(hits) < n THEN Len(hits) ELSE n)

\* The chunk ids in the order they are seen, with what is kept of each.
Union(settings, dense, bm25) ==
  LET all == dense \o bm25
      new == {i \in DOMAIN all :
                \A j \in 1 .. i - 1 : ChunkId[all[j].point] # ChunkId[all[i].point]}
      order == Ranking(new, [i \in new |-> {j \in new : j < i}])
      kept(id) == [Merged(all, id) EXCEPT !.score = FusedScore(settings, dense, bm25, id)]
  IN  [i \in DOMAIN order |-> kept(ChunkId[all[order[i]].point])]

\* Mutant: the candidates are cut before they are ranked.
FuseCutFirst(settings, dense, bm25) == Sorted(First(Limit, Union(settings, dense, bm25)))

\* Mutant: the worst first.
FuseWorstFirst(settings, dense, bm25) ==
  First(Limit, Reverse(Sorted(Union(settings, dense, bm25))))

Fuse(settings, dense, bm25) == First(Limit, Sorted(Union(settings, dense, bm25)))

Candidates(s) ==
  IF s.settings.mode = "hybrid"
  THEN Fuse(s.settings, s.dense, s.bm25)
  ELSE s.dense \o s.bm25

\* apply_entity_boosts; without a boost the order is left alone.
Boosted(boost, hits) ==
  IF boost = 0 THEN hits
  ELSE Sorted([i \in DOMAIN hits |->
                [hits[i] EXCEPT !.score = @ + boost * Overlap[hits[i].point]]])

-----------------------------------------------------------------------------
\* Mutant: one hit more than asked for.
FinishOneMore ==
  /\ search # Nothing
  /\ Nothing \notin {search.dense, search.bm25}
  /\ search.result = Nothing
  /\ search' = [search EXCEPT !.result =
                  First(search.settings.topK + 1,
                        Boosted(search.settings.boost, Candidates(search)))]
  /\ UNCHANGED <<stored, changes>>

\* Both answers are there: fuse, boost, and cut.
Finish ==
  /\ search # Nothing
  /\ Nothing \notin {search.dense, search.bm25}
  /\ search.result = Nothing
  /\ search' = [search EXCEPT !.result =
                  First(search.settings.topK,
                        Boosted(search.settings.boost, Candidates(search)))]
  /\ UNCHANGED <<stored, changes>>

\* A retriever raises: so does the search.  Or the result was sent.
End ==
  /\ search # Nothing
  /\ search' = Nothing
  /\ UNCHANGED <<stored, changes>>

\* A point is upserted or deleted.
Change(p, length) ==
  /\ changes < MaxChanges
  /\ stored' = [stored EXCEPT ![p] = length]
  /\ changes' = changes + 1
  /\ UNCHANGED search

SearchNext ==
  \/ \E settings \in Settings : Begin(settings)
  \/ \E points \in PointLists : \E scores \in ScoreLists(Len(points)) :
       ReadDense(points, scores) \/ ReadBm25(points, scores)
  \/ Finish
  \/ End
  \/ \E p \in Point : \E length \in Lengths[p] : Change(p, length)

SearchSpec == SearchInit /\ [][SearchNext]_searchVars

-----------------------------------------------------------------------------
Done == search # Nothing /\ search.result # Nothing

Positions(p, hits) == {i \in DOMAIN hits : hits[i].point = p}

\* A finished search returns at most top_k hits, all of distinct points, and when the two
\* lists were fused (hybrid.py) of distinct chunks.
SearchTypeOK ==
  /\ stored \in Collections
  /\ changes \in 0 .. MaxChanges
  /\ Done =>
       /\ Len(search.result) <= search.settings.topK
       /\ \A i, j \in DOMAIN search.result :
            \/ i = j
            \/ /\ search.result[i].point # search.result[j].point
               /\ search.settings.mode = "hybrid" =>
                    ChunkId[search.result[i].point] # ChunkId[search.result[j].point]

\* The points either retriever found.
FoundPoints ==
  {search.dense[i].point : i \in DOMAIN search.dense} \cup
  {search.bm25[i].point : i \in DOMAIN search.bm25}

\* No two of them share a chunk id, as they do when a document id is used in two KBs.
OneDocumentEach ==
  \A p, q \in FoundPoints : ChunkId[p] = ChunkId[q] => p = q

\* a comes before b in a list, or b is not in it.
Prefers(hits, a, b) ==
  \E i \in Positions(a, hits) : \A j \in Positions(b, hits) : i < j

\* What both retrievers agree on, the result does not turn round: if both rank a before
\* b, and the query's entities do not favour b, then b is not returned without a before
\* it; whatever the weights, the fusion method, the cuts, and the changes of the index
\* between the two reads.
AgreementKept ==
  Done /\ search.settings.mode = "hybrid" /\ OneDocumentEach =>
    \A a, b \in Point :
      Prefers(search.dense, a, b) /\ Prefers(search.bm25, a, b) /\ Overlap[a] >= Overlap[b] =>
        \A j \in Positions(b, search.result) :
          \E i \in Positions(a, search.result) : i < j

\* What a retriever found and the result lacks was cut: by top_k, behind as many hits
\* that score no less, or by candidate_count, behind as many that fusion ranks no worse.
CutIsJustified ==
  Done /\ search.settings.mode = "hybrid" /\ OneDocumentEach =>
    LET fused(p) == FusedScore(search.settings, search.dense, search.bm25, ChunkId[p])
        final(p) == fused(p) + search.settings.boost * Overlap[p]
        returned == {search.result[i].point : i \in DOMAIN search.result}
    IN  \A p \in FoundPoints \ returned :
          \/ /\ Cardinality(returned) = search.settings.topK
             /\ \A q \in returned : final(q) >= final(p)
          \/ Cardinality({q \in FoundPoints : q # p /\ fused(q) >= fused(p)}) >= Limit
=============================================================================
