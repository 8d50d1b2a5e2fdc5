----------------------------- MODULE MCGenerate -----------------------------
(***************************************************************************)
(* Two documents of one user, with the same id in two KBs and so with the  *)
(* same chunk id, and a shared one the user may read; two calls at once.   *)
(***************************************************************************)
EXTENDS Generate, TLC

CONSTANTS u1, shared, inKb1, inKb2, public, c0, c1

Owners == inKb1 :> u1 @@ inKb2 :> u1 @@ public :> shared
ChunkIds == inKb1 :> c0 @@ inKb2 :> c0 @@ public :> c1
=============================================================================
