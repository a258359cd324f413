----------------------------- MODULE MCFormatter -----------------------------
(***************************************************************************)
(* Files of up to three pieces.  A piece is one line or a few lines that   *)
(* only matter together: a function with a here-document, a definition.    *)
(***************************************************************************)
EXTENDS Formatter

q == "\""

Statements == {
  <<>>,
  <<"#", " ", "c", " ", "\\">>,
  <<"A", "=", q, "x", q>>,
  <<"export", " ", " ", "A", " ", "?", "?", "=", "'", "x", q, "'", " ", "#", "c">>,
  <<"A", "=", "+", q, "x">>,
  <<"FILES", ":", "a", "/", "b", "=", q, "x", " ", "y", q>>,
  <<"SRC_URI", "+", "=", q, "x", " ", "y", q>>,
  <<"DEPENDS", ":", "append", " ", "=", q, "x", " ", " ", "y", q, "#", "c">>,
  <<"DEPENDS", ".", "=", " ", q, "x", " ", "\\">>,
  <<" ", "y", " ", "\\">>,
  <<" ", "y", q>>,
  <<" ", q>>,
  <<"inherit", " ", " ", "x", " ", "y">>,
  <<"require", " ", "x", " ", "\\">>,
  <<"do_x", "(", ")", "{">>,
  <<"}">>,
  <<"@", "x">>}

Pieces == {
  <<<<"inherit", " ", "x", "\\">>, <<"y">>>>,
  <<<<"PACKAGES", "=", " ", q, "x", " ", "\\">>, <<"z", "\\">>, <<"w", q>>>>,
  <<<<"python", " ", "(", ")", " ", "{", " ", "#", "c">>,
    <<" ", "'", "'", "'", "}", "\\", "'", "'", "'", "'", "#", "}">>, <<>>, <<"}">>>>,
  <<<<"do_x", "(", ")", "{">>, <<"cat", "<", "<", "-", "E", "#", "}">>,
    <<"}">>, <<"\t", "E">>, <<"echo", " ", "$", "{", "A", "}", "'", "\\", "'", q, "}", q>>, <<"}">>>>,
  <<<<"def", " ", "f", "(", "d", ",">>, <<>>, <<"e", ")", ":">>,
    <<" ", "return", " ", "[", q, "]">>, <<"]", q, "]">>, <<>>>>}

MCBlocks == {<<s>> : s \in Statements} \cup Pieces

MCOptions == {
  [maxBlank |-> 1, layout |-> "Preserve",   ending |-> <<"\n">>,       final |-> TRUE],
  [maxBlank |-> 0, layout |-> "OnePerLine", ending |-> <<"\n">>,       final |-> FALSE],
  [maxBlank |-> 1, layout |-> "OnePerLine", ending |-> <<"\r", "\n">>, final |-> TRUE]}

=============================================================================
