---------------------------- MODULE MCOverrides ----------------------------
(* A pool with every operator and operation, two overrides, references     *)
(* forwards, backwards, in a circle and to Python, legacy names, a flag,   *)
(* an override that is never active and a name that is itself a reference, *)
(* also to a legacy name.                                                  *)
EXTENDS Overrides

Assign(parts, operator, value) ==
  [parts |-> parts, modern |-> TRUE, flag |-> FALSE,
   operator |-> operator, value |-> value]
Legacy(parts, operator, value) ==
  [Assign(parts, operator, value) EXCEPT !.modern = FALSE]

MCRefTo == [r \in {"${A}", "${B}", "${@}"} |->
              CASE r = "${A}" -> "A" [] r = "${B}" -> "B" [] r = "${@}" -> "@"]

MCPool ==
  { Assign(<<"OVERRIDES">>, "=", <<"m", ":", "n">>),
    Assign(<<"OVERRIDES", "append">>, "=", <<":", "x">>),
    Assign(<<"A">>, "?=", <<"x">>),
    Assign(<<"A">>, "=+", <<"${B}">>),
    Assign(<<"B">>, ":=", <<"A">>),
    Assign(<<"B">>, "=", <<"A", "_", "n">>),
    Assign(<<"B">>, ".=", <<"${A}">>),
    Assign(<<"B">>, "?=", <<"${@}">>),
    Assign(<<"C">>, "+=", <<"${A}", "y">>),
    Assign(<<"${B}">>, "??=", <<"y">>),
    Assign(<<"A", "m">>, "=.", <<"${B}">>),
    Assign(<<"A", "n">>, "=", <<"x", " ", "y">>),
    Assign(<<"A", "n", "m">>, "=", <<"y">>),
    Assign(<<"A", "m", "append">>, "=", <<" ", "x">>),
    Assign(<<"A", "prepend", "n">>, "=", <<"x", " ">>),
    Assign(<<"A", "remove">>, "=", <<"x">>),
    Assign(<<"A", "q">>, "=", <<"y">>),
    [Assign(<<"A">>, "=", <<"y">>) EXCEPT !.flag = TRUE],
    Legacy(<<"A", "n">>, "+=", <<"x">>),
    Legacy(<<"A", "append", "m">>, "=", <<" ", "x">>) }

MCContexts == { << <<"n">>, <<>>, <<"m">>, <<"n">> >> }
=============================================================================
