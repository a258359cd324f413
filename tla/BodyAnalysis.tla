---------------------------- MODULE BodyAnalysis ----------------------------
(***************************************************************************)
(* check_body_diagnostics of src/lint.rs: a function is written piece by   *)
(* piece, and after each piece its body is analysed as the language of the *)
(* function says.  A shell piece names the words a shell reads in it       *)
(* ("read") and those the analysis looks at ("heard"); a Python piece      *)
(* names its indentation, whether a block must follow it, whether it is    *)
(* malformed and in which quotes a backslash escapes a quote.  The         *)
(* properties compare the analysis with what those annotations say of the  *)
(* whole body, and with the scanners of src/lib.rs that delimit it.        *)
(***************************************************************************)
EXTENDS ShellBody

CONSTANTS
  ShellPieces,   \* [line, read, heard, once]
  PythonPieces,  \* [indent, line, opens, broken, logical, escapes]
  MaxPieces      \* how many pieces a body has at most, by language

VARIABLES
  language,      \* the language of the function
  pieces,        \* what was written so far
  body,          \* the text of the body
  found          \* the diagnostics of the body

bodyVars == <<language, pieces, body, found>>

-----------------------------------------------------------------------------
Width(indent) == PythonIndentWidth(indent)

TextOf(piece) == IF language = "Shell" THEN piece.line ELSE piece.indent \o piece.line

\* check_body_diagnostics on a function of this language.
Analyze(t) == IF language = "Shell" THEN AnalyzeShellBody(t) ELSE AnalyzePythonBody(t)

Init ==
  /\ language \in {"Shell", "Python"}
  /\ pieces = <<>> /\ body = <<>> /\ found = <<>>

Write(piece) ==
  /\ Len(pieces) < MaxPieces[language]
  /\ body # <<>> => Last(body) = "\n"
  /\ pieces' = Append(pieces, piece)
  /\ body' = body \o TextOf(piece)
  /\ found' = Analyze(body')
  /\ UNCHANGED language

\* At most one piece of those that are there for the text of their line.
WriteShell ==
  /\ language = "Shell"
  /\ \E piece \in ShellPieces :
       /\ piece.once => \A k \in DOMAIN pieces : ~pieces[k].once
       /\ Write(piece)

\* At most one malformed piece, so that none mends another.
WritePython ==
  /\ language = "Python"
  /\ \E piece \in PythonPieces :
       /\ piece.broken => \A k \in DOMAIN pieces : ~pieces[k].broken
       /\ Write(piece)

Next == WriteShell \/ WritePython

Spec == Init /\ [][Next]_bodyVars

-----------------------------------------------------------------------------
(* What a shell reads.  The words of a body are its reserved words, ")"    *)
(* for the end of a case pattern, ";" for the end of an arm, and "x" for a *)
(* command.  A complete construct without another one in it is a command.  *)

ShellReserved == DOMAIN Opens \cup DOMAIN AllowedIn

ShellWord(lexeme) ==
  IF lexeme \in {"while", "until", "select"} THEN "for"
  ELSE IF lexeme \in ShellReserved \cup {")", ";"} THEN lexeme ELSE "x"

\* The analysis looks for a reserved word at the start of a line and after
\* an operator.  A shell also reads one after another reserved word.
LooksAt(line, p) ==
  LET before == TrimEnd(SubSeq(line, 1, p - 1), Space)
  IN before = <<>> \/ Last(before) \in {"\n", ";", "|", "&", "(", ")"}

\* The words of a body, each with the place it starts at.
Entries(words) ==
  FlattenSeq([k \in DOMAIN pieces |->
    LET start == Len(FlattenSeq([j \in 1 .. k - 1 |-> pieces[j].line]))
    IN [j \in DOMAIN pieces[k][words] |->
          [pieces[k][words][j] EXCEPT !.at = start + @]]])

Words == Entries("read")
Heard == Entries("heard")

Repeat(s, n) == FlattenSeq([k \in 1 .. n |-> s])

IfForms ==
  {<<"if", "then">> \o Repeat(<<"elif", "then">>, n) \o last \o <<"fi">> :
     n \in 0 .. MaxPieces.Shell, last \in {<<>>, <<"else">>}}
CaseForms ==
  {<<"case">> \o Repeat(<<")", ";">>, n) \o last \o <<"esac">> :
     n \in 0 .. MaxPieces.Shell, last \in {<<>>, <<")">>}}
Forms == IfForms \cup CaseForms \cup {<<"for", "do", "done">>}

\* Commands may stand anywhere but where a case expects a pattern.
Commands(w) == {k \in DOMAIN w : w[k] = "x" /\ (k = 1 \/ w[k - 1] \notin {"case", ";"})}

Complete(w) ==
  {r \in (DOMAIN w) \X (DOMAIN w) : SubSeq(w, r[1], r[2]) \in Forms}

RECURSIVE Reduced(_)
Reduced(w) ==
  IF Commands(w) # {}
  THEN LET k == First(Commands(w)) IN Reduced(SubSeq(w, 1, k - 1) \o From(w, k + 1))
  ELSE IF Complete(w) # {}
  THEN LET r == CHOOSE r \in Complete(w) : TRUE
       IN Reduced(SubSeq(w, 1, r[1] - 1) \o <<"x">> \o From(w, r[2] + 1))
  ELSE w

WordsOf(entries) == [k \in DOMAIN entries |-> entries[k].word]

Balanced(entries) == Reduced(WordsOf(entries)) = <<>>

\* Words that some continuation completes: once its complete constructs are
\* commands, each construct that is still open is the beginning of a form.
Viable(w) ==
  LET rest   == Reduced(w)
      starts == {k \in DOMAIN rest : rest[k] \in {"if", "for", "case"}}
      part(k) == SubSeq(rest, k, First({j \in starts : j > k} \cup {Len(rest) + 1}) - 1)
  IN /\ rest # <<>> => 1 \in starts
     /\ \A k \in starts : \E form \in Forms : IsStrictPrefix(part(k), form)

HasCase == \E k \in DOMAIN Words : Words[k].word \in {"case", ")", ";"}

Shell == language = "Shell"

\* A body whose constructs are all complete is reported clean: quoted words,
\* comments, expansions, substitutions, case patterns, here-documents and
\* embedded Python are not taken for reserved words.  docs/parser-precision.md
\* calls this "lexical and conservative", which it is but for words that it
\* does not hear, or hears where a shell does not, and that leave a construct
\* open or a word misplaced in what it hears.
ValidShellIsClean == Shell /\ Balanced(Words) => found = <<>> \/ ~Balanced(Heard)

\* A body with an open construct or a misplaced word is reported, unless what
\* the analysis hears of it is complete.  Inside a case a word where a
\* pattern must stand is not looked at.
BrokenShellIsReported ==
  Shell /\ ~Balanced(Words) /\ ~HasCase => found # <<>> \/ Balanced(Heard)

\* When a word is out of place, it is the first one that no continuation
\* of what the analysis hears could mend, and the only one that is reported.
PrimaryWordReported ==
  Shell /\ ~HasCase =>
    LET wrong == {k \in DOMAIN Heard : ~Viable(WordsOf(SubSeq(Heard, 1, k)))}
    IN wrong # {} => Len(found) = 1 /\ found[1].from = Heard[First(wrong)].at

-----------------------------------------------------------------------------
(* What Python reads. *)

Python == language = "Python"

LogicalOf(some) == SelectSeq(some, LAMBDA piece : piece.logical)

\* The levels a line after the k-th may be at: its own and those of the
\* lines before it that enclose it.
Levels(lines, k) ==
  {Width(lines[j].indent) : j \in {j \in 1 .. k :
     \A m \in j .. k : Width(lines[m].indent) >= Width(lines[j].indent)}}

Mixed(indent) == Occurs(" ", indent) /\ Occurs("\t", indent)

Consistent(some) ==
  LET lines == LogicalOf(some)
  IN \A k \in DOMAIN lines :
       /\ ~Mixed(lines[k].indent)
       /\ k > 1 => \/ Width(lines[k].indent) \in Levels(lines, k - 1)
                   \/ /\ lines[k - 1].opens
                      /\ Width(lines[k].indent) > Width(lines[k - 1].indent)

WellFormed(some) == \A k \in DOMAIN some : ~some[k].broken

\* An unclosed string or bracket, or a bracket that closes nothing.
BrokenLexically == \E k \in DOMAIN pieces : pieces[k].broken /\ ~pieces[k].opens

\* The pieces in which a backslash escapes a quote in such quotes.  The
\* readings of strings differ there: python_delimiter_depths and the search
\* for a colon do not take a backslash in single quotes for an escape, nor
\* does any reading of a line in triple quotes.
EscapesIn(quotes) == {k \in DOMAIN pieces : pieces[k].escapes \in quotes}

AnyQuote == {"'", Triple("\"")}

\* The pieces up to the first with such an escape, and the text before it.
Certain ==
  IF EscapesIn(AnyQuote) = {} THEN pieces
  ELSE SubSeq(pieces, 1, First(EscapesIn(AnyQuote)))

CertainText ==
  IF EscapesIn(AnyQuote) = {} THEN body
  ELSE FlattenSeq([k \in DOMAIN Front(Certain) |-> TextOf(pieces[k])])

\* Well-formed and consistently indented Python is reported clean: brackets,
\* strings, comments and continuations neither open nor close a block.  Only
\* from a line with an escaped quote on may a valid body be reported.
ValidPythonIsClean ==
  Python /\ WellFormed(pieces) /\ Consistent(pieces) =>
    \A k \in DOMAIN found : EscapesIn(AnyQuote) # {} /\ found[k].from > Len(CertainText)

\* An unclosed string and a misplaced bracket are reported, and so are, but
\* for those that follow a line with an escaped quote, a missing colon and an
\* indentation that matches no enclosing block.
BrokenPythonIsReported ==
  Python /\ (BrokenLexically \/ ~(WellFormed(Certain) /\ Consistent(Certain))) => found # <<>>

\* The two readings of delimiters agree, but for the escaped quotes: where
\* the first finds nothing wrong the second never loses track and is outside
\* every delimiter at the end.
DelimitersAgree ==
  Python /\ EscapesIn(AnyQuote) = {} /\ AnalyzePythonTokens(body) = <<>> =>
    LET depths == PythonDelimiterDepths(body \o <<"\n">>)
    IN Last(depths) = 0 /\ \A k \in DOMAIN depths : depths[k] # UnknownDepth

-----------------------------------------------------------------------------
(* Both. *)

FunctionText == <<"{", "\n">> \o body \o <<"}", "\n">>

\* The scanner that looks for the end of a function stops at its closing
\* brace: never inside a body that is reported clean, and never beyond it.
FunctionEndFound ==
  found = <<>> => FindBraceBlockEnd(FunctionText, 1, language) = Len(body) + 3

Rest == <<"x", "=", "y", "\n">>

\* A top-level definition with this body ends where the body ends, and with
\* an escaped quote in single quotes, never inside the body.
DefinitionEndFound ==
  Python /\ found = <<>> /\ LogicalOf(pieces) # <<>> =>
    LET end == FindPythonDefEnd(body \o Rest, 1, FALSE, Fresh)
    IN /\ end > Len(body)
       /\ EscapesIn({"'"}) = {} => end = Len(body) + 1

\* Diagnostics are in the order of their ranges, each within the body, and a
\* lexical error is not followed by errors of layout.
ReportsInOrder ==
  /\ \A k \in DOMAIN found : 1 <= found[k].from /\ found[k].from <= found[k].to
                             /\ found[k].to <= Len(body) + 1
  /\ \A k \in DOMAIN found : k > 1 => Precedes(found[k - 1], found[k])

-----------------------------------------------------------------------------
(* What a maintainer asks of both analyses. *)

\* Nothing is reported of a valid body, in either language, but for the texts
\* that the code reads in its own way: see the two parts for how far that goes.
ValidBodyIsClean == ValidShellIsClean /\ ValidPythonIsClean

\* Every fault of a body is reported, shell faults at their first cause, and
\* the reports come in order; see the parts for the faults that such texts hide.
BrokenBodyIsReported ==
  BrokenShellIsReported /\ PrimaryWordReported /\ BrokenPythonIsReported /\ ReportsInOrder


=============================================================================
