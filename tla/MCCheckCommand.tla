--------------------------- MODULE MCCheckCommand ---------------------------
(* Two files.  Kinds of findings: one a fix removes, one that fails the    *)
(* run, and one that no baseline excuses.  A text has the second once or   *)
(* twice.                                                                  *)
EXTENDS CheckCommand, TLC

CONSTANTS f1, f2, style, risk, safety

Text(styles, risks, safeties) ==
  [k \in Kinds |-> CASE k = style -> styles [] k = risk -> risks [] OTHER -> safeties]

(* The files differ in nothing but what they hold.                         *)
Interchangeable == Permutations(Files)

MCTexts == {Text(1, 2, 0), Text(0, 2, 0), Text(0, 1, 1)}
=============================================================================
