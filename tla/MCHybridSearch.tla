--------------------------- MODULE MCHybridSearch ---------------------------
(***************************************************************************)
(* Four points, two of them with the same chunk id, and lists of two       *)
(* hits, so that a list can be cut; both fusion methods, with and without  *)
(* a boost, a weight of zero.  Of two hits min-max scaling leaves only     *)
(* which scores more, so that two scores are enough.                       *)
(***************************************************************************)
EXTENDS HybridSearch, TLC

CONSTANTS p1, p2, p3, p4, c1, c2, c3

ChunkIds == p1 :> c1 @@ p2 :> c2 @@ p3 :> c2 @@ p4 :> c3
Overlaps == p1 :> 0 @@ p2 :> 1 @@ p3 :> 0 @@ p4 :> 0
TextLengths == p1 :> {0, 1} @@ p2 :> {0, 1, 2} @@ p3 :> {0, 2} @@ p4 :> {1}

With(fusion, denseWeight, bm25Weight, boost, topK) ==
  [mode |-> "hybrid", fusion |-> fusion, denseWeight |-> denseWeight,
   bm25Weight |-> bm25Weight, boost |-> boost, topK |-> topK]

ProjectSettings ==
  {With("rrf", 7, 3, 0, 2), With("rrf", 1, 1, 2, 1), With("weighted", 7, 3, 0, 2),
   With("weighted", 0, 1, 3782, 1), [With("rrf", 7, 3, 0, 2) EXCEPT !.mode = "dense"],
   [With("rrf", 7, 3, 1, 1) EXCEPT !.mode = "bm25"]}
=============================================================================
