--------------------------- MODULE MCIngestQueue ---------------------------
(***************************************************************************)
(* Four jobs, two workers, two queue slots: the queue fills, submissions    *)
(* block, and shutdown can come at any moment.                             *)
(***************************************************************************)
EXTENDS IngestQueue
=============================================================================
