---------------------------- MODULE MCTier1Cache ----------------------------
(***************************************************************************)
(* Two projects, three keys and room for two: every store fills and evicts. *)
(***************************************************************************)
EXTENDS Tier1Cache

\* Nothing tells projects, keys or values apart, and no property is temporal.
Symmetry ==
  Permutations(Project) \cup Permutations(Key) \cup Permutations(Value)
=============================================================================
