-------------------------- MODULE MCVersionManager --------------------------
(***************************************************************************)
(* Three versions of a project, one of them without a name, and a grace    *)
(* period of two ticks.                                                    *)
(***************************************************************************)
EXTENDS VersionManager
=============================================================================
