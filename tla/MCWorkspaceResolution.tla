----------------------- MODULE MCWorkspaceResolution -----------------------
(* Three recipes, one of which includes nothing, a class and a             *)
(* configuration file, which the filter always keeps.                      *)
EXTENDS WorkspaceResolution

CONSTANTS r1, r2, r3, class, conf

MCSize == [f \in Files |-> IF f = class THEN 2 ELSE 1]

MCWorlds == [depends : {d \in [Recipes -> SUBSET Includes] : d[r3] = {}},
             global : {{}, {class}}, conf : {{conf}}, bbfiles : SUBSET Recipes,
             keep : {k \in SUBSET Files : conf \in k}]
=============================================================================
