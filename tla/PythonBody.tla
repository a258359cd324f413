----------------------------- MODULE PythonBody -----------------------------
(***************************************************************************)
(* The lexical analysis of embedded Python in src/body.rs.  It reads a     *)
(* body several times: for strings and delimiters, for the delimiter depth *)
(* of each line, for triple quotes, for indentation and for the colons of  *)
(* compound statements.  Each reading has its own rules for escapes.       *)
(***************************************************************************)
EXTENDS Scanners, SequencesExt

Finding(kind, from, to, message) ==
  [kind |-> kind, from |-> from, to |-> to, message |-> message]

KindOrder == [ShellSyntax |-> 0, PythonSyntax |-> 1, PythonIndentation |-> 2]

\* Only messages on indentation can be about one range; this is their order.
MessageOrder(message) ==
  CASE message = "mixed" -> 1 [] message = "unexpected" -> 2 [] OTHER -> 0

SortKey(f) == <<f.from, f.to, KindOrder[f.kind], MessageOrder(f.message)>>

Precedes(a, b) ==
  \E k \in 1 .. 4 : /\ SortKey(a)[k] < SortKey(b)[k]
                    /\ \A j \in 1 .. k - 1 : SortKey(a)[j] = SortKey(b)[j]

SortBodyDiagnostics(found) == SetToSortSeq(ToSet(found), Precedes)

Partner == [c \in Closers |-> CASE c = ")" -> "(" [] c = "]" -> "[" [] c = "}" -> "{"]

-----------------------------------------------------------------------------
(* Strings and delimiters (analyze_python_tokens). *)

TokenStart == [i |-> 1, stack |-> <<>>, uncertain |-> FALSE, quote |-> "",
               quoteStart |-> 0, escaped |-> FALSE, comment |-> FALSE, found |-> <<>>]

CloseDelimiter(t, s) ==
  IF s.uncertain THEN s
  ELSE IF s.stack # <<>> /\ Last(s.stack).opening = Partner[t[s.i]]
  THEN [s EXCEPT !.stack = Front(@)]
  ELSE [s EXCEPT !.uncertain = TRUE,
                 !.found = Append(@, Finding("PythonSyntax", s.i, s.i + 1, "no opener"))]

Advance(s, n) == [s EXCEPT !.i = @ + n]

TokenStep(t, s) ==
  LET c == t[s.i]
  IN IF s.comment THEN Advance([s EXCEPT !.comment = c # "\n"], 1)
     ELSE IF s.quote # ""
     THEN IF s.escaped THEN Advance([s EXCEPT !.escaped = FALSE], 1)
          ELSE IF c = "\\" THEN Advance([s EXCEPT !.escaped = TRUE], 1)
          ELSE IF c = s.quote THEN Advance([s EXCEPT !.quote = ""], 1)
          ELSE IF TripleAt(t, s.i) /\ Triple(c) = s.quote
          THEN Advance([s EXCEPT !.quote = ""], 3)
          ELSE Advance(s, 1)
     ELSE IF c = "#" THEN Advance([s EXCEPT !.comment = TRUE], 1)
     ELSE IF c \in Quotes
     THEN IF TripleAt(t, s.i)
          THEN Advance([s EXCEPT !.quote = Triple(c), !.quoteStart = s.i], 3)
          ELSE Advance([s EXCEPT !.quote = c, !.quoteStart = s.i], 1)
     ELSE IF c \in Openers /\ ~s.uncertain
     THEN Advance([s EXCEPT !.stack = Append(@, [opening |-> c, at |-> s.i])], 1)
     ELSE IF c \in Closers THEN Advance(CloseDelimiter(t, s), 1)
     ELSE Advance(s, 1)

RECURSIVE TokensFrom(_, _)
TokensFrom(t, s) == IF s.i > Len(t) THEN s ELSE TokensFrom(t, TokenStep(t, s))

AnalyzePythonTokens(t) ==
  LET s      == TokensFrom(t, TokenStart)
      length == IF s.quote \in Quotes THEN 1 ELSE 3
      open   == IF s.quote = "" THEN <<>>
                ELSE <<Finding("PythonSyntax", s.quoteStart, s.quoteStart + length, "string")>>
      unclosed == [k \in DOMAIN s.stack |->
                    Finding("PythonSyntax", s.stack[k].at, s.stack[k].at + 1, "unclosed")]
  IN s.found \o open \o (IF s.uncertain THEN <<>> ELSE Reverse(unclosed))

-----------------------------------------------------------------------------
(* The delimiter depth in front of each line (python_delimiter_depths). *)

UnknownDepth == 99

DepthStart == [i |-> 1, stack |-> <<>>, uncertain |-> FALSE, quote |-> "", escaped |-> FALSE]

DepthStep(t, s) ==
  LET c == t[s.i]
  IN IF s.quote \notin Quotes \cup {""}
     THEN IF TripleAt(t, s.i) /\ Triple(c) = s.quote THEN Advance([s EXCEPT !.quote = ""], 3)
          ELSE Advance(s, 1)
     ELSE IF s.quote # ""
     THEN IF s.escaped THEN Advance([s EXCEPT !.escaped = FALSE], 1)
          ELSE IF c = "\\" /\ s.quote # "'" THEN Advance([s EXCEPT !.escaped = TRUE], 1)
          ELSE Advance([s EXCEPT !.quote = IF c = @ THEN "" ELSE @], 1)
     ELSE IF c = "#" THEN [s EXCEPT !.i = NextLineEnd(t, s.i)]
     ELSE IF c \in Quotes
     THEN IF TripleAt(t, s.i) THEN Advance([s EXCEPT !.quote = Triple(c)], 3)
          ELSE Advance([s EXCEPT !.quote = c], 1)
     ELSE IF c \in Openers /\ ~s.uncertain THEN Advance([s EXCEPT !.stack = Append(@, c)], 1)
     ELSE IF c \in Closers /\ ~s.uncertain
     THEN IF s.stack # <<>> /\ Last(s.stack) = Partner[c]
          THEN Advance([s EXCEPT !.stack = Front(@)], 1)
          ELSE Advance([s EXCEPT !.uncertain = TRUE], 1)
     ELSE Advance(s, 1)

RECURSIVE DepthsFrom(_, _, _)
\* A triple quote never spans a line break, so a line starts where a step lands.
DepthsFrom(t, s, line) ==
  IF s.i > Len(t) THEN <<>>
  ELSE IF s.i = line
  THEN <<IF s.uncertain THEN UnknownDepth ELSE Len(s.stack)>>
       \o DepthsFrom(t, s, NextLineEnd(t, line))
  ELSE DepthsFrom(t, DepthStep(t, s), line)

PythonDelimiterDepths(t) == DepthsFrom(t, DepthStart, 1)

DepthAt(depths, k) == IF k \in DOMAIN depths THEN depths[k] ELSE 0

-----------------------------------------------------------------------------
(* Readings of a single line. *)

RECURSIVE TripleFrom(_, _, _, _)
\* The triple quote that is open after a line; s quotes within the line.
TripleFrom(line, i, triple, s) ==
  IF i > Len(line) THEN triple
  ELSE LET c == line[i]
       IN IF triple # ""
          THEN IF TripleAt(line, i) /\ Triple(c) = triple
               THEN TripleFrom(line, i + 3, "", s) ELSE TripleFrom(line, i + 1, triple, s)
          ELSE IF s.quote # "" THEN TripleFrom(line, i + 1, triple, Quoting(s, c))
          ELSE IF c = "#" THEN triple
          ELSE IF TripleAt(line, i) THEN TripleFrom(line, i + 3, Triple(c), s)
          ELSE IF c \in Quotes THEN TripleFrom(line, i + 1, triple, [s EXCEPT !.quote = c])
          ELSE TripleFrom(line, i + 1, triple, s)

PythonLineTripleState(line, triple) == TripleFrom(line, 1, triple, Unquoted)

\* Quoting in which a backslash in single quotes escapes nothing.
PlainSingle(s, c) == IF s.quote = "'" /\ c = "\\" THEN s ELSE Quoting(s, c)

RECURSIVE StripFrom(_, _, _)
StripFrom(line, i, s) ==
  IF i > Len(line) \/ (s = Unquoted /\ line[i] = "#") THEN SubSeq(line, 1, i - 1)
  ELSE StripFrom(line, i + 1, PlainSingle(s, line[i]))

StripPythonComment(line) == StripFrom(line, 1, Unquoted)

RECURSIVE ColonFrom(_, _, _, _)
ColonFrom(code, i, s, stack) ==
  /\ i <= Len(code)
  /\ LET c == code[i]
     IN IF s # Unquoted \/ c \in {"\\"} \cup Quotes
        THEN ColonFrom(code, i + 1, PlainSingle(s, c), stack)
        ELSE IF c \in Openers THEN ColonFrom(code, i + 1, s, Append(stack, c))
        ELSE IF c \in Closers
        THEN /\ stack # <<>> /\ Last(stack) = Partner[c]
             /\ ColonFrom(code, i + 1, s, Front(stack))
        ELSE (c = ":" /\ stack = <<>>) \/ ColonFrom(code, i + 1, s, stack)

HasPythonTopLevelColon(code) == ColonFrom(code, 1, Unquoted, <<>>)

CompoundWords ==
  {<<w>> : w \in {"if", "elif", "else", "for", "while", "try", "except", "finally",
                  "with", "def", "class", "match", "case"}}
  \cup {<<"async", " ", w>> : w \in {"def", "for", "with"}}

IsPythonCompoundStart(code) ==
  /\ \E w \in CompoundWords :
       StartsAt(code, 1, w) /\ (Len(code) = Len(w) \/ code[Len(w) + 1] = " ")
  /\ ~ /\ code[1] \in {"match", "case"} /\ Len(code) > 1
       /\ LET rest == TrimStart(Tail(code), White)
          IN rest # <<>> /\ rest[1] \in {"=", "+", "-", "*", "/", "%", "&", "|", "^"}

RECURSIVE PythonIndentWidth(_)
PythonIndentWidth(prefix) ==
  IF prefix = <<>> THEN 0
  ELSE LET width == PythonIndentWidth(Without(prefix, 1))
       IN IF Last(prefix) = "\t" THEN (width \div 8 + 1) * 8 ELSE width + 1

-----------------------------------------------------------------------------
(* Indentation (analyze_python_indentation), one line at a time.  Before   *)
(* the first line of code levels is empty.                                 *)

LineStart(lines, k) == 1 + Len(FlattenSeq(SubSeq(lines, 1, k - 1)))

IndentOf(line) == Len(line) - Len(TrimStart(line, Space))

CodeOf(line) == Trim(StripPythonComment(TrimStart(line, Space)))

EndsWith(t, suffix) == IsSuffix(suffix, t)

\* Whether a line of code is continued by a block or by the next line.
After(s, code, depthAfter) ==
  [s EXCEPT !.opens = EndsWith(code, <<":">>) /\ ~EndsWith(code, <<":", ":">>) /\ depthAfter = 0,
            !.continued = EndsWith(code, <<"\\">>)]

RECURSIVE PopLevels(_, _)
PopLevels(levels, indent) ==
  IF Len(levels) > 1 /\ indent < Last(levels) THEN PopLevels(Front(levels), indent) ELSE levels

\* The levels after a logical line, and what is wrong with its indentation.
Indented(s, line, at) ==
  LET prefix == SubSeq(line, 1, IndentOf(line))
      indent == PythonIndentWidth(prefix)
      levels == IF s.levels = <<>> THEN <<indent>> ELSE s.levels
      popped == PopLevels(levels, indent)
      deeper == indent > Last(levels)
      found(message) == <<Finding("PythonIndentation", at, at + Len(prefix), message)>>
  IN [s EXCEPT
       !.levels = IF deeper THEN Append(levels, indent) ELSE popped,
       !.found = @ \o (IF Occurs(" ", prefix) /\ Occurs("\t", prefix) THEN found("mixed") ELSE <<>>)
                   \o (IF deeper /\ ~s.opens /\ ~s.uncertain THEN found("unexpected") ELSE <<>>)
                   \o (IF ~deeper /\ indent # Last(popped) THEN found("no enclosing") ELSE <<>>)]

IndentationStart == [levels |-> <<>>, opens |-> FALSE, continued |-> FALSE,
                     uncertain |-> FALSE, triple |-> "", found |-> <<>>]

RECURSIVE IndentationFrom(_, _, _, _)
IndentationFrom(lines, depths, k, s) ==
  IF k > Len(lines) THEN s.found
  ELSE LET line == Content(lines[k])
           code == CodeOf(line)
           next == [s EXCEPT !.triple = PythonLineTripleState(line, @)]
           logical == Indented(next, line, LineStart(lines, k))
       IN IndentationFrom(lines, depths, k + 1,
            IF s.triple # "" \/ (code = <<>> /\ ~s.continued) THEN next
            ELSE IF s.continued \/ DepthAt(depths, k) > 0
            THEN After(next, code, DepthAt(depths, k + 1))
            ELSE After([logical EXCEPT !.uncertain =
                          IsPythonCompoundStart(code) /\ ~HasPythonTopLevelColon(code)],
                       code, DepthAt(depths, k + 1)))

AnalyzePythonIndentation(t) ==
  IndentationFrom(SplitInclusive(t), PythonDelimiterDepths(t), 1, IndentationStart)

-----------------------------------------------------------------------------
(* Compound statements (analyze_python_compound_statements).               *)

RECURSIVE CompoundFrom(_, _, _, _)
CompoundFrom(lines, depths, k, triple) ==
  IF k > Len(lines) THEN <<>>
  ELSE LET line  == Content(lines[k])
           after == PythonLineTripleState(line, triple)
           code  == CodeOf(line)
           bare  == StripPythonComment(TrimStart(line, Space))
           at    == LineStart(lines, k) + IndentOf(line) + Len(bare) - Len(TrimStart(bare, White))
           rest  == CompoundFrom(lines, depths, k + 1, after)
       IN IF /\ triple = "" /\ after = ""
             /\ code # <<>> /\ ~EndsWith(code, <<"\\">>)
             /\ DepthAt(depths, k) = 0 /\ DepthAt(depths, k + 1) = 0
             /\ IsPythonCompoundStart(code) /\ ~HasPythonTopLevelColon(code)
          THEN <<Finding("PythonSyntax", at, at + Len(code), "no colon")>> \o rest
          ELSE rest

AnalyzePythonCompoundStatements(t) ==
  CompoundFrom(SplitInclusive(t), PythonDelimiterDepths(t), 1, "")

\* The later readings mean nothing once strings or delimiters are broken.
AnalyzePythonBody(t) ==
  LET tokens == AnalyzePythonTokens(t)
  IN SortBodyDiagnostics(
       IF tokens # <<>> THEN tokens
       ELSE AnalyzePythonIndentation(t) \o AnalyzePythonCompoundStatements(t))

=============================================================================
