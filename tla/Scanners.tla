------------------------------ MODULE Scanners ------------------------------
(***************************************************************************)
(* The byte scanners of src/lib.rs that find where a top-level statement   *)
(* of BitBake metadata, a shell or Python function and a Python definition *)
(* end.  A text is a sequence of lexemes: a punctuation or white-space     *)
(* byte is a lexeme of its own ("\\", "{", "\n", ...) and a maximal run of *)
(* letters, digits and "_" is one lexeme, since no scanner looks inside a  *)
(* word ("backtick" is the character of that name; a name is split after   *)
(* a prefix that a rule looks for, as in PREFERRED_VERSION_).  A position  *)
(* is an index into the sequence and a range is half open, as in the       *)
(* source; 0 stands for None.                                              *)
(***************************************************************************)
EXTENDS Integers, Sequences, TLC

Space   == {" ", "\t"}
White   == Space \cup {"\r", "\n", "\f"}
Quotes  == {"'", "\""}
Openers == {"(", "[", "{"}
Closers == {")", "]", "}"}

Punctuation == White \cup Quotes \cup Openers \cup Closers
               \cup {"\\", "#", "$", "=", ":", "?", "+", ".", "-", "/", ";",
                     "|", "&", "<", ">", "@", "backtick", "*", ",", "!", "%"}

IsWord(lexeme) == lexeme \notin Punctuation

StartsAt(t, i, lexemes) ==
  /\ i + Len(lexemes) - 1 <= Len(t)
  /\ \A k \in DOMAIN lexemes : t[i + k - 1] = lexemes[k]

TripleAt(t, i) == t[i] \in Quotes /\ StartsAt(t, i, <<t[i], t[i], t[i]>>)

Without(t, n) == SubSeq(t, 1, Len(t) - n)
From(t, i)    == SubSeq(t, i, Len(t))
Occurs(l, t)  == \E i \in DOMAIN t : t[i] = l

RECURSIVE TrimStart(_, _), TrimEnd(_, _)
TrimStart(t, set) == IF t # <<>> /\ Head(t) \in set THEN TrimStart(Tail(t), set) ELSE t
TrimEnd(t, set) ==
  IF t # <<>> /\ t[Len(t)] \in set THEN TrimEnd(Without(t, 1), set) ELSE t

Trim(t) == TrimEnd(TrimStart(t, White), White)

-----------------------------------------------------------------------------
(* Lines. *)

RECURSIVE NextLineEnd(_, _)
NextLineEnd(t, i) ==
  IF i > Len(t) THEN i ELSE IF t[i] = "\n" THEN i + 1 ELSE NextLineEnd(t, i + 1)

Line(t, i) == SubSeq(t, i, NextLineEnd(t, i) - 1)

LineEnding(line) ==
  IF Len(line) >= 2 /\ StartsAt(line, Len(line) - 1, <<"\r", "\n">>) THEN <<"\r", "\n">>
  ELSE IF line # <<>> /\ line[Len(line)] = "\n" THEN <<"\n">> ELSE <<>>

Content(line) == Without(line, Len(LineEnding(line)))

IsBlankLine(line) == \A i \in DOMAIN Content(line) : line[i] \in Space \cup {"\r"}

RECURSIVE SplitInclusive(_)
SplitInclusive(t) ==
  IF t = <<>> THEN <<>>
  ELSE <<Line(t, 1)>> \o SplitInclusive(From(t, NextLineEnd(t, 1)))

HasLineContinuation(line) ==
  LET content == TrimEnd(Content(line), Space \cup {"\r"})
      slashes == Len(content) - Len(TrimEnd(content, {"\\"}))
  IN slashes % 2 = 1

RECURSIVE FindContinuationEnd(_, _)
FindContinuationEnd(t, start) ==
  LET end == NextLineEnd(t, start)
  IN IF ~HasLineContinuation(Line(t, start)) THEN end
     ELSE IF end > Len(t) THEN 0
     ELSE FindContinuationEnd(t, end)

-----------------------------------------------------------------------------
(* Quoting on a statement: a backslash escapes everywhere, a quote runs to *)
(* its own closing quote.  The state is the open quote, "" for none, and   *)
(* whether the next lexeme is escaped.                                     *)

Unquoted == [quote |-> "", escaped |-> FALSE]

Quoting(s, lexeme) ==
  IF s.escaped THEN [s EXCEPT !.escaped = FALSE]
  ELSE IF lexeme = "\\" THEN [s EXCEPT !.escaped = TRUE]
  ELSE IF s.quote # "" THEN [s EXCEPT !.quote = IF lexeme = @ THEN "" ELSE @]
  ELSE IF lexeme \in Quotes THEN [s EXCEPT !.quote = lexeme] ELSE s

RECURSIVE BareFrom(_, _, _)
\* The positions of a line that are neither quoted nor escaped.
BareFrom(t, i, s) ==
  IF i > Len(t) THEN {}
  ELSE (IF s = Unquoted /\ t[i] # "\\" /\ t[i] \notin Quotes THEN {i} ELSE {})
       \cup BareFrom(t, i + 1, Quoting(s, t[i]))

Bare(t) == BareFrom(t, 1, Unquoted)

First(S) == IF S = {} THEN 0 ELSE CHOOSE i \in S : \A j \in S : i <= j

CommentStart(t) == First({i \in Bare(t) : t[i] = "#"})

BeforeComment(t) == IF CommentStart(t) = 0 THEN t ELSE SubSeq(t, 1, CommentStart(t) - 1)

RECURSIVE QuoteAfter(_, _)
QuoteAfter(t, s) == IF t = <<>> THEN s.quote ELSE QuoteAfter(Tail(t), Quoting(s, Head(t)))

HasBalancedQuotes(t) == QuoteAfter(BeforeComment(t), Unquoted) = ""

-----------------------------------------------------------------------------
(* Assignments. *)

\* In the order the source tries them, the longest lexeme first.
Operators == << <<"?", "?", "=">>, <<":", "=">>, <<"?", "=">>, <<"+", "=">>,
                <<"=", "+">>, <<".", "=">>, <<"=", ".">>, <<"=">> >>

OperatorAt(t, i) ==
  LET fits == {k \in DOMAIN Operators : StartsAt(t, i, Operators[k])}
  IN IF fits = {} THEN <<>> ELSE Operators[First(fits)]

FindAssignmentOperator(t) ==
  LET code == BeforeComment(t)
  IN First({i \in Bare(code) : OperatorAt(code, i) # <<>>})

VariableReferenceEnd(t, start) ==
  LET close == First({i \in start + 2 .. Len(t) : t[i] = "}"})
  IN IF /\ StartsAt(t, start, <<"$", "{">>)
        /\ close > start + 2
        /\ \A i \in start + 2 .. close - 1 : t[i] \notin White
     THEN close + 1 ELSE 0

VariableFlagIsValid(flag) ==
  /\ Len(flag) >= 3
  /\ flag[Len(flag)] = "]"
  /\ \A i \in 2 .. Len(flag) - 1 : IsWord(flag[i]) \/ flag[i] \in {"-", "+", "."}

RECURSIVE NameFrom(_, _, _)
NameFrom(name, i, hasContent) ==
  IF i > Len(name) THEN hasContent
  ELSE LET c == name[i]
       IN \/ /\ IsWord(c) \/ c \in {"-", "+", ".", "/"}
             /\ NameFrom(name, i + 1, TRUE)
          \/ /\ c = "$"
             /\ VariableReferenceEnd(name, i) # 0
             /\ NameFrom(name, VariableReferenceEnd(name, i), TRUE)
          \/ c = ":" /\ hasContent /\ NameFrom(name, i + 1, FALSE)
          \/ c = "[" /\ hasContent /\ VariableFlagIsValid(From(name, i))

SlashIsReviewed(name) ==
  LET slash == First({i \in DOMAIN name : name[i] = "/"})
  IN \/ slash = 0
     \/ name[1] \in {"PREFERRED_PROVIDER_", "PREFERRED_VERSION_"}
     \/ Occurs(":", SubSeq(name, 1, slash - 1))

IsVariableName(name) ==
  /\ name # <<>>
  /\ IsWord(name[1]) \/ name[1] = "$"
  /\ SlashIsReviewed(name)
  /\ NameFrom(name, 1, FALSE)

\* The left-hand side without the word "export" in front of a name.
Exported(left) == Len(left) >= 2 /\ left[1] = "export" /\ left[2] \in White

ExportedName(left) == IF Exported(left) THEN TrimStart(Tail(left), White) ELSE left

-----------------------------------------------------------------------------
(* Expansions and here-documents inside a shell function. *)

RECURSIVE ExpressionFrom(_, _, _, _)
ExpressionFrom(t, i, depth, s) ==
  IF i > Len(t) THEN 0
  ELSE IF s = Unquoted /\ t[i] = "{" THEN ExpressionFrom(t, i + 1, depth + 1, s)
  ELSE IF s = Unquoted /\ t[i] = "}" THEN
         IF depth = 1 THEN i + 1 ELSE ExpressionFrom(t, i + 1, depth - 1, s)
  ELSE ExpressionFrom(t, i + 1, depth, Quoting(s, t[i]))

\* The end of a "${...}" that starts at i.
BitbakeExpressionEnd(t, i) ==
  IF StartsAt(t, i, <<"$", "{">>) THEN ExpressionFrom(t, i + 2, 1, Unquoted) ELSE 0

CommentInShell(t, i) ==
  i = 1 \/ t[i - 1] \in White \cup {";", "|", "&", "(", ")", "{", "}"}

RECURSIVE SubstitutionFrom(_, _, _, _, _)
\* The end of a "$(...)" whose text starts at i: a backslash escapes nothing
\* in single quotes, and a comment hides quotes and parentheses.
SubstitutionFrom(t, i, depth, s, comment) ==
  LET c == t[i]
      next(d, q, k) == SubstitutionFrom(t, i + 1, d, q, k)
  IN IF i > Len(t) THEN 0
     ELSE IF comment THEN next(depth, s, c # "\n")
     ELSE IF s.escaped \/ s.quote = "\"" \/ c \in {"\\"} \cup Quotes THEN
       IF s.quote = "'" /\ c = "\\" THEN next(depth, s, FALSE)
       ELSE next(depth, Quoting(s, c), FALSE)
     ELSE IF s.quote = "'" THEN next(depth, s, FALSE)
     ELSE IF c = "#" /\ CommentInShell(t, i) THEN next(depth, s, TRUE)
     ELSE IF c = "(" THEN next(depth + 1, s, FALSE)
     ELSE IF c = ")" THEN IF depth = 1 THEN i + 1 ELSE next(depth - 1, s, FALSE)
     ELSE next(depth, s, FALSE)

SkipShellCommandSubstitution(t, i) == SubstitutionFrom(t, i, 1, Unquoted, FALSE)

ShellOperators == {";", "|", "&", "<", ">", "(", ")"}

RECURSIVE DelimiterFrom(_, _, _)
\* An unquoted delimiter, without the backslashes that escape its lexemes.
DelimiterFrom(t, i, word) ==
  IF i > Len(t) \/ t[i] \in White \cup ShellOperators THEN [delimiter |-> word, end |-> i]
  ELSE IF t[i] # "\\" THEN DelimiterFrom(t, i + 1, Append(word, t[i]))
  ELSE IF i = Len(t) THEN [delimiter |-> <<>>, end |-> i]
  ELSE DelimiterFrom(t, i + 2, Append(word, t[i + 1]))

NoHereDoc == [delimiter |-> <<>>, end |-> 0]

\* The here-document that "<<" at i announces and the position after it.
ParseShellHereDocument(t, i) ==
  LET strip == i + 2 <= Len(t) /\ t[i + 2] = "-"
      gap   == TrimStart(From(t, i + 2 + (IF strip THEN 1 ELSE 0)), Space)
      at    == Len(t) - Len(gap) + 1
      close == First({k \in at + 1 .. Len(t) : t[k] = t[at]})
      found == IF at > Len(t) THEN NoHereDoc
               ELSE IF t[at] \notin Quotes THEN DelimiterFrom(t, at, <<>>)
               ELSE IF close = 0 THEN NoHereDoc
               ELSE [delimiter |-> SubSeq(t, at + 1, close - 1), end |-> close + 1]
  IN IF StartsAt(t, i, <<"<", "<", "<">>) THEN NoHereDoc @@ [strip |-> FALSE]
     ELSE found @@ [strip |-> strip]

WithoutLast(t, lexeme) == IF t # <<>> /\ t[Len(t)] = lexeme THEN Without(t, 1) ELSE t

EndsHereDoc(doc, line) ==
  LET content == WithoutLast(WithoutLast(line, "\n"), "\r")
  IN doc.delimiter = IF doc.strip THEN TrimStart(content, {"\t"}) ELSE content

RECURSIVE SkipShellHereDocuments(_, _, _)
\* Each document runs to a line that is its delimiter, one after the other.
SkipShellHereDocuments(t, i, docs) ==
  IF docs = <<>> THEN i
  ELSE LET end == NextLineEnd(t, i)
       IN IF EndsHereDoc(Head(docs), Line(t, i))
          THEN SkipShellHereDocuments(t, end, Tail(docs))
          ELSE IF end > Len(t) /\ LineEnding(Line(t, i)) = <<>> THEN 0
          ELSE SkipShellHereDocuments(t, end, docs)

-----------------------------------------------------------------------------
(* The end of a function in braces.  The state of the scan is its position *)
(* i, the depth of braces, the open quote ("" for none, three quotes for a *)
(* Python triple quote), whether the next lexeme is escaped or a comment   *)
(* is open, the here-documents announced on the line, and the depth of     *)
(* shell arithmetic.                                                       *)

BraceStart(i) == [i |-> i, depth |-> 0, quote |-> "", escaped |-> FALSE,
                  comment |-> FALSE, docs |-> <<>>, arithmetic |-> 0]

Triple(quote) == IF quote = "'" THEN "'''" ELSE "\"\"\""

\* The position a shell scan jumps to from i outside quotes: over an
\* expansion or a command substitution; i itself when nothing starts there.
ShellJump(t, i) ==
  IF BitbakeExpressionEnd(t, i) # 0 THEN BitbakeExpressionEnd(t, i)
  ELSE IF StartsAt(t, i, <<"(", "(">>) THEN i
  ELSE IF StartsAt(t, i, <<"$", "(">>) THEN SkipShellCommandSubstitution(t, i + 2)
  ELSE i

\* The scan after the line break at s.i, over the documents announced before it.
AfterLineBreak(t, s) ==
  [s EXCEPT !.i = SkipShellHereDocuments(t, s.i + 1, s.docs),
            !.comment = FALSE, !.docs = <<>>]

QuotedStep(t, shell, s) ==
  IF shell /\ s.quote = "\"" /\ StartsAt(t, s.i, <<"$", "(">>)
  THEN [s EXCEPT !.i = SkipShellCommandSubstitution(t, s.i + 2)]
  ELSE IF s.quote \in Quotes
  THEN [s EXCEPT !.i = @ + 1, !.quote = IF t[s.i] = @ THEN "" ELSE @]
  ELSE IF TripleAt(t, s.i) /\ Triple(t[s.i]) = s.quote
  THEN [s EXCEPT !.i = @ + 3, !.quote = ""]
  ELSE [s EXCEPT !.i = @ + 1]

\* A step on a lexeme that opens a quote or a comment, ends a line, or nests.
CodeStep(t, shell, s) ==
  LET c == t[s.i]
  IN IF c \in Quotes THEN [s EXCEPT !.i = @ + 1, !.quote = c]
     ELSE IF c = "#" /\ (~shell \/ CommentInShell(t, s.i))
     THEN [s EXCEPT !.i = @ + 1, !.comment = TRUE]
     ELSE IF c = "\n" /\ s.docs # <<>> THEN AfterLineBreak(t, s)
     ELSE [s EXCEPT !.i = @ + 1,
                    !.depth = CASE c = "{" -> @ + 1 [] c = "}" -> @ - 1 [] OTHER -> @]

ShellStep(t, s) ==
  LET jump == ShellJump(t, s.i)
      doc  == ParseShellHereDocument(t, s.i)
  IN IF jump # s.i THEN [s EXCEPT !.i = jump]
     ELSE IF StartsAt(t, s.i, <<"(", "(">>)
     THEN [s EXCEPT !.i = @ + 2, !.arithmetic = @ + 1]
     ELSE IF s.arithmetic > 0 /\ StartsAt(t, s.i, <<")", ")">>)
     THEN [s EXCEPT !.i = @ + 2, !.arithmetic = @ - 1]
     ELSE IF s.arithmetic = 0 /\ StartsAt(t, s.i, <<"<", "<">>) /\ doc.delimiter # <<>>
     THEN [s EXCEPT !.i = doc.end, !.docs = Append(@, doc)]
     ELSE CodeStep(t, TRUE, s)

BraceStep(t, shell, s) ==
  IF s.comment
  THEN IF t[s.i] = "\n" THEN AfterLineBreak(t, s) ELSE [s EXCEPT !.i = @ + 1]
  ELSE IF s.escaped THEN [s EXCEPT !.i = @ + 1, !.escaped = FALSE]
  ELSE IF t[s.i] = "\\" /\ ~(shell /\ s.quote = "'")
  THEN [s EXCEPT !.i = @ + 1, !.escaped = TRUE]
  ELSE IF s.quote # "" THEN QuotedStep(t, shell, s)
  ELSE IF shell THEN ShellStep(t, s)
  ELSE IF TripleAt(t, s.i) THEN [s EXCEPT !.i = @ + 3, !.quote = Triple(t[s.i])]
  ELSE CodeStep(t, FALSE, s)

RECURSIVE BraceEndFrom(_, _, _)
\* The position of the closing brace, 0 when there is none.
BraceEndFrom(t, shell, s) ==
  IF s.i = 0 \/ s.i > Len(t) THEN 0
  ELSE LET next == BraceStep(t, shell, s)
       IN IF next.depth = 0 /\ s.depth = 1 THEN s.i
          ELSE BraceEndFrom(t, shell, next)

FindBraceBlockEnd(t, openingBrace, kind) ==
  BraceEndFrom(t, kind = "Shell", BraceStart(openingBrace))

-----------------------------------------------------------------------------
(* The first line of a function. *)

RECURSIVE Modifiers(_)
\* A declaration without its leading "python" and "fakeroot" keywords.
Modifiers(declaration) ==
  IF /\ declaration # <<>>
     /\ declaration[1] \in {"python", "fakeroot"}
     /\ Len(declaration) = 1 \/ declaration[2] \in White
  THEN LET rest == Modifiers(TrimStart(Tail(declaration), White))
       IN [name |-> rest.name, words |-> {declaration[1]} \cup rest.words]
  ELSE [name |-> declaration, words |-> {}]

IsFunctionName(name) == \A i \in DOMAIN name : name[i] \notin White \cup {"(", ")", "#"}

NoFunction == [brace |-> 0]

\* The opening brace of "name() {" on a line, its kind and its declaration.
FunctionOpeningBrace(line) ==
  LET code      == TrimEnd(BeforeComment(Content(line)), White)
      signature == TrimEnd(WithoutLast(code, "{"), White)
      inside    == WithoutLast(signature, ")")
      parens    == {i \in DOMAIN inside : inside[i] = "("}
      paren     == CHOOSE i \in parens : \A j \in parens : j <= i
      found     == Modifiers(Trim(SubSeq(inside, 1, paren - 1)))
      python    == "python" \in found.words
  IN IF /\ code # <<>> /\ code[Len(code)] = "{"
        /\ signature # <<>> /\ signature[Len(signature)] = ")"
        /\ parens # {}
        /\ Trim(From(inside, paren + 1)) = <<>>
        /\ found.name # <<>> \/ python
        /\ IsFunctionName(found.name)
     THEN [brace |-> Len(code), kind |-> IF python THEN "Python" ELSE "Shell",
           name |-> found.name, fakeroot |-> "fakeroot" \in found.words]
     ELSE NoFunction

-----------------------------------------------------------------------------
(* Top-level Python definitions.  Inside single quotes a backslash is read *)
(* as an ordinary byte.                                                    *)

Fresh == [quote |-> "", escaped |-> FALSE, depth |-> 0]

\* A step on a lexeme of a line inside a string; the second is the position.
StringStep(line, i, s) ==
  IF s.escaped THEN <<[s EXCEPT !.escaped = FALSE], i + 1>>
  ELSE IF s.quote \in Quotes /\ line[i] = s.quote THEN <<[s EXCEPT !.quote = ""], i + 1>>
  ELSE IF s.quote \notin Quotes /\ TripleAt(line, i) /\ Triple(line[i]) = s.quote
  THEN <<[s EXCEPT !.quote = ""], i + 3>>
  ELSE <<[s EXCEPT !.escaped = line[i] = "\\" /\ s.quote \notin {"'", Triple("'")}], i + 1>>

OpenString(line, i, s) ==
  IF TripleAt(line, i) THEN <<[s EXCEPT !.quote = Triple(line[i])], i + 3>>
  ELSE <<[s EXCEPT !.quote = line[i]], i + 1>>

InString(s) == s.escaped \/ s.quote # ""

RECURSIVE ScanPythonLine(_, _, _)
\* The quote, escape and delimiter depth after the lexemes of a line from i.
ScanPythonLine(line, i, s) ==
  IF i > Len(line) \/ (~InString(s) /\ line[i] = "#") THEN s
  ELSE LET c == line[i]
           jump == IF InString(s) THEN StringStep(line, i, s)
                   ELSE IF c \in Quotes THEN OpenString(line, i, s)
                   ELSE <<[s EXCEPT !.depth = CASE c \in Openers -> @ + 1
                                                [] c \in Closers /\ @ > 0 -> @ - 1
                                                [] OTHER -> @], i + 1>>
       IN ScanPythonLine(line, jump[2], jump[1])

\* Mutant: a line at the margin ends a definition even inside a string.
RECURSIVE FindMargin(_, _, _, _)
FindMargin(t, i, sawBody, s) ==
  IF i > Len(t) \/ (sawBody /\ ~IsBlankLine(Line(t, i)) /\ t[i] \notin Space) THEN i
  ELSE FindMargin(t, NextLineEnd(t, i), TRUE, s)

RECURSIVE FindPythonDefEnd(_, _, _, _)
\* The body runs to the first line that is neither indented nor blank and
\* is not inside a string or delimiters that an earlier line opened.
FindPythonDefEnd(t, i, sawBody, s) ==
  LET content == Content(Line(t, i))
      trimmed == Trim(content)
      inside  == s.quote # "" \/ s.depth > 0
  IN IF \/ i > Len(t)
        \/ /\ sawBody /\ ~inside
           /\ trimmed # <<>> /\ content[1] \notin Space
     THEN i
     ELSE FindPythonDefEnd(t, NextLineEnd(t, i),
                           sawBody \/ (trimmed # <<>> /\ trimmed[1] # "#"),
                           ScanPythonLine(content, 1, s))

RECURSIVE HeaderColon(_, _, _)
\* Scans one line of a header from i: at a colon outside delimiters the
\* header ends there, and at a closer without an opener it is no header.
HeaderColon(line, i, s) ==
  IF i > Len(line) \/ (~InString(s) /\ line[i] = "#") THEN [state |-> s, stop |-> 0, ok |-> TRUE]
  ELSE LET c == line[i]
           jump == IF InString(s) THEN StringStep(line, i, s)
                   ELSE IF c \in Quotes THEN OpenString(line, i, s)
                   ELSE <<[s EXCEPT !.depth = CASE c \in Openers -> @ + 1
                                                [] c \in Closers -> @ - 1
                                                [] OTHER -> @], i + 1>>
       IN IF ~InString(s) /\ c = ":" /\ s.depth = 0
          THEN [state |-> s, stop |-> i, ok |-> TRUE]
          ELSE IF jump[1].depth < 0 THEN [state |-> s, stop |-> 0, ok |-> FALSE]
          ELSE HeaderColon(line, jump[2], jump[1])

RECURSIVE HeaderEnd(_, _, _, _)
HeaderEnd(t, i, s, first) ==
  IF i > Len(t) THEN 0
  ELSE LET line  == Line(t, i)
           scan  == HeaderColon(Content(line), 1, s)
           after == Trim(From(Content(line), scan.stop + 1))
       IN IF ~scan.ok THEN 0
          ELSE IF scan.stop # 0
          THEN IF after = <<>> \/ after[1] = "#" THEN NextLineEnd(t, i) ELSE 0
          ELSE IF scan.state.depth = 0 /\ ~HasLineContinuation(line) /\ ~first THEN 0
          ELSE HeaderEnd(t, NextLineEnd(t, i), scan.state, FALSE)

StartsDef(line) == StartsAt(line, 1, <<"def", " ">>)

NoHeader == [defStart |-> 0, headerEnd |-> 0]

\* The header of a definition at a line start, after at most one decorator.
PythonDefHeader(t, start) ==
  LET line      == Line(t, start)
      decorated == /\ ~StartsDef(line) /\ line[1] = "@"
                   /\ ~HasLineContinuation(line)
      defStart  == IF decorated THEN NextLineEnd(t, start) ELSE start
      end       == HeaderEnd(t, defStart, Fresh, TRUE)
  IN IF StartsDef(Line(t, defStart)) /\ end # 0
     THEN [defStart |-> defStart, headerEnd |-> end] ELSE NoHeader

=============================================================================
