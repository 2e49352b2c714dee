---------------------------- MODULE MCRegPanzer ----------------------------
(***************************************************************************)
(* Instances of RegPanzer.                                                 *)
(***************************************************************************)
EXTENDS RegPanzer, Expressions

MCFamilies == SearchFamilies
=============================================================================
