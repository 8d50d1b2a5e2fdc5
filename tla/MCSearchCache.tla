--------------------------- MODULE MCSearchCache ---------------------------
(***************************************************************************)
(* Two searches and two writers over one key and two documents.            *)
(***************************************************************************)
EXTENDS SearchCache
=============================================================================
