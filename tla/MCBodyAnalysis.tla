--------------------------- MODULE MCBodyAnalysis ---------------------------
(***************************************************************************)
(* Bodies of up to four pieces.  Shell pieces are the lines of control     *)
(* flow, with several words on a line too, and lines that hold reserved    *)
(* words a shell does not read.  Python pieces are lines at one of four    *)
(* indentations, and lines in which a backslash escapes a quote.           *)
(***************************************************************************)
EXTENDS BodyAnalysis

q == "\""
n == "\n"

Control(line, read) ==
  LET words == [j \in DOMAIN read |-> [word |-> ShellWord(line[read[j]]), at |-> read[j]]]
      looksAt(word) == word.word \in ShellReserved => LooksAt(line, word.at)
  IN [line |-> line, read |-> words, heard |-> SelectSeq(words, looksAt), once |-> FALSE]

Command == <<[word |-> "x", at |-> 1]>>

Noise(line) == [line |-> line, read |-> Command, heard |-> Command, once |-> TRUE]

\* A command in whose text the analysis hears a word that no shell reads.
Misheard(line, p) ==
  [Noise(line) EXCEPT !.heard = Append(@, [word |-> ShellWord(line[p]), at |-> p])]

ControlLines == {
  Control(<<"if", " ", "x", ";", " ", "then", n>>, <<1, 6>>),
  Control(<<" ", "elif", " ", "[", " ", "y", "]", n, "then", "\r", n>>, <<2, 9>>),
  Control(<<"else", n>>, <<1>>),
  Control(<<"fi", ";", n>>, <<1>>),
  Control(<<"fi", " ", "|", " ", "x", n>>, <<1>>),
  Control(<<"for", " ", "f", " ", "in", " ", "do", ";", "do", n>>, <<1, 9>>),
  Control(<<"x", "&", "&", "while", " ", "x", n>>, <<4>>),
  Control(<<"do", " ", "x", n>>, <<1>>),
  Control(<<"done", " ", "<", "f", "|", "x", n>>, <<1>>),
  Control(<<"case", " ", "x", " ", "in", n, "(", "if", "|", "a", ")", n>>, <<1, 11>>),
  Control(<<"a", ")", " ", "x", " ", ";", ";", n>>, <<2, 6>>),
  Control(<<";", ";", n>>, <<1>>),
  Control(<<"esac", n>>, <<1>>)}

\* Lines on which a reserved word follows another one.
NestedLines == {
  Control(<<"if", " ", "x", ";", "then", " ", "if", " ", "y", ";", "then", n>>, <<1, 5, 7, 11>>),
  Control(<<"else", " ", "if", " ", "y", ";", "then", n>>, <<1, 3, 7>>),
  Control(<<"do", "\t", "if", " ", "y", ";", "done", n>>, <<1, 3, 7>>),
  Control(<<"fi", " ", "fi", n>>, <<1, 3>>)}

NoiseLines == {
  <<"x", " ", q, "\\", q, n, "fi", q, " ", "'", "\\", "'", n>>,
  <<"#", " ", ";", "fi", " ", "<", "<", "A", "'", n, "esac", "#", n>>,
  <<"x", " ", "$", "{", "@", q, "}", q, "}", " ", "fi", n>>,
  <<"x", " ", q, "$", "(", "y", " ", q, ";", ")", "if", q, ")", q, n>>,
  <<"x", " ", "backtick", "if", "\\", "backtick", "\\", "backtick", "x", ";", "backtick", n>>,
  <<"x", "<", "<", "A", ";", " ", "y", "<", "<", "-", q, "B", q, n,
    ";", "fi", n, "A", n, "}", n, "\t", "B", n>>,
  <<"x", " ", "if", " ", "\\", n, "fi", n>>,
  <<"(", " ", "x", ")", n>>,
  <<" ", "def", " ", "f", "(", ")", ":", n, " ", " ", "if", " ", "x", ":", n>>}

MCMaxPieces == [Shell |-> 4, Python |-> 3]

\* The comment keeps the here-document from starting on the next line.
CommentAfterHereDoc ==
  Misheard(<<"x", "<", "<", "A", " ", "#", n, ";", "fi", n, "A", n>>, 9)

MCShellPieces ==
  ControlLines \cup {[piece EXCEPT !.once = TRUE] : piece \in NestedLines}
  \cup {Noise(line) : line \in NoiseLines} \cup {CommentAfterHereDoc}

PythonLine(indent, line, opens, broken, logical) ==
  [indent |-> indent, line |-> line, opens |-> opens, broken |-> broken, logical |-> logical,
   escapes |-> ""]

\* A line in which a backslash escapes a quote in such quotes.
Escape(quotes, line, opens) ==
  [PythonLine(<<" ">>, line, opens, FALSE, TRUE) EXCEPT !.escapes = quotes]

Indents == {<<" ">>, <<" ", " ">>, <<"\t">>, <<" ", "\t">>}

PlainLines == {
  <<"x", n>>,
  <<"x", "=", "[", " ", "#", "(", n, " ", "1", ",", "\r", n, "y", ":", "]", n>>,
  <<"if", " ", "x", ":", "y", "\\", n, " ", "z", n>>,
  <<"x", "=", q, q, q, "(", n, "if", " ", "'", "'", "'", "\\", q, n, q, q, q, n>>,
  <<"x", "=", q, "\\", q, ":", q, "'", "\\", "\\", "'", " ", "#", "if", ":", n>>,
  <<"match", " ", "=", " ", "y", n>>}

OpeningLines == {
  <<"if", " ", "x", ":", " ", "#", " ", "(", "\r", n>>,
  <<"else", ":", n>>,
  <<"for", " ", "(", "x", ",", n, "y", ")", " ", "in", " ", "z", ":", n>>,
  <<"while", " ", "x", " ", "\\", n, " ", "y", ":", n>>,
  <<"with", " ", "f", "(", "'", ":", "'", ")", ":", n>>}

MCPythonPieces ==
  {PythonLine(indent, line, FALSE, FALSE, TRUE) : indent \in Indents, line \in PlainLines}
  \cup {PythonLine(indent, line, TRUE, FALSE, TRUE) :
          indent \in Indents \ {<<" ", "\t">>}, line \in OpeningLines}
  \cup {PythonLine(indent, <<"if", " ", "x", "[", "1", ":", "2", "]", n>>, TRUE, TRUE, TRUE) :
          indent \in Indents}
  \cup {PythonLine(<<>>, line, FALSE, FALSE, FALSE) :
          line \in {<<n>>, <<" ", "#", "if", ":", " ", "'", n>>}}
  \cup {PythonLine(<<" ">>, line, FALSE, TRUE, TRUE) :
          line \in {<<"x", "=", "(", n>>, <<"x", ")", n>>, <<"x", "=", "(", "]", n>>, <<"x", "=", q, "y">>}}
  \cup {Escape("'", <<"x", "=", "'", "\\", "'", "'", n>>, FALSE),
        Escape("'", <<"if", " ", "'", "\\", "'", "'", ":", n>>, TRUE),
        Escape(Triple(q), <<"x", "=", q, q, q, "\\", q, q, q, q, n>>, FALSE)}

=============================================================================
