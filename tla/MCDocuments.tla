---------------------------- MODULE MCDocuments ----------------------------
(***************************************************************************)
(* One document id in two KBs, two operations at once, three revisions of  *)
(* two chunks at most.                                                     *)
(***************************************************************************)
EXTENDS Documents
=============================================================================
