--------------------------- MODULE MCTransaction ---------------------------
(* Small batches for TLC: two and three distinct files, a batch with an    *)
(* unchanged request, an empty one, and `a.bb ./a.bb`, which names one     *)
(* file twice.                                                             *)
EXTENDS Transaction

CONSTANTS f1, f2, f3

Req(f, c) == [path |-> f, changed |-> c]

MCRequestLists ==
  { <<>>,
    <<Req(f1, TRUE), Req(f2, TRUE)>>,
    <<Req(f1, TRUE), Req(f2, FALSE), Req(f3, TRUE)>>,
    <<Req(f1, TRUE), Req(f2, TRUE), Req(f3, TRUE)>>,
    <<Req(f1, TRUE), Req(f1, TRUE)>> }
=============================================================================
