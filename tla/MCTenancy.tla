----------------------------- MODULE MCTenancy -----------------------------
(***************************************************************************)
(* A website project whose collection another project's version collides   *)
(* with; the other project's row changes between every mode.               *)
(***************************************************************************)
EXTENDS Tenancy, Sequences, TLC

CONSTANTS k, u1, u2, shared, default

MCId == {"a", "a_b"}
MCJoined(p, v) == "rag_" \o p \o "_" \o v

Raw(mode, block, candidates) ==
  [mode |-> mode, topK |-> 2, candidates |-> candidates, least |-> 0, bm25 |-> block]

Block(sparse) == [dense |-> "dense", sparse |-> sparse]

Custom(version, raw) ==
  [project |-> "a", type |-> "custom", version |-> version, retrieval |-> raw]

MCRow ==
  {[project |-> "a_b", type |-> "website", version |-> "v2",
    retrieval |-> Raw("hybrid", NoBlock, 3)],
   Custom("b_v1", Raw("dense", NoBlock, 3)),
   Custom("b_v1", Raw("dense", Block("bm25"), 3)),
   Custom("b_v1", Raw("bm25", NoBlock, 2)),
   Custom("b_v1", Raw("hybrid", Block("bm25"), 3)),
   Custom("b_v1", Raw("hybrid", Block("other"), 3)),
   Custom("b_v1", Raw("hybrid", NoBlock, 1)),
   Custom("v1", Raw("hybrid", NoBlock, 3)),
   [Custom("b_v1", Raw("hybrid", NoBlock, 3)) EXCEPT !.type = "gone"]}

MCUser == {u1, u2, shared, Blank}
MCKbChoice ==
  {{}, {Plain(Blank)}, {[name |-> k, padded |-> TRUE]},
   {[name |-> default, padded |-> TRUE], Plain(Blank)}, {Plain(k), Plain(default)}}
MCScopeChoice == {[kbs |-> {}, shared |-> TRUE], [kbs |-> {Plain(default)}, shared |-> FALSE]}
MCFilterChoice ==
  {[kbs |-> {}, docs |-> {}, shared |-> u] : u \in {u1, u2}} \cup
  {[kbs |-> {Plain(default)}, docs |-> Doc \ {Blank}, shared |-> Nobody]}
Symmetry == Permutations({u1, u2})
=============================================================================
