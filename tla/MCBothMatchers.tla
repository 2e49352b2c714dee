--------------------------- MODULE MCBothMatchers ---------------------------
(***************************************************************************)
(* Instances of BothMatchers.                                              *)
(***************************************************************************)
EXTENDS BothMatchers, Expressions

MCFamilies == AgreeingFamilies
=============================================================================
