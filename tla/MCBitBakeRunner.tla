-------------------------- MODULE MCBitBakeRunner --------------------------
(* One invocation of each kind: a parse, whose output is cached, and a     *)
(* recipe query, which the recipe budget counts.                           *)
EXTENDS BitBakeRunner

CONSTANTS parse, recipe

MCInvocations ==
  { [key |-> parse,  cacheable |-> TRUE,  recipe |-> FALSE],
    [key |-> recipe, cacheable |-> FALSE, recipe |-> TRUE] }

(* Only stdout is written, and overflows; both are, and stderr overflows.  *)
MCStdout == [stdout |-> 2, stderr |-> 0]
MCStderr == [stdout |-> 1, stderr |-> 2]
=============================================================================
