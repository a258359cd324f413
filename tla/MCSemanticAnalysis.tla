------------------------- MODULE MCSemanticAnalysis -------------------------
(* Two targets and two of the five artifacts: one that a run may write and *)
(* one that it may leave as it is.                                         *)
EXTENDS SemanticAnalysis

CONSTANTS dot, buildlist

MCTargets == <<"image", "package">>
=============================================================================
