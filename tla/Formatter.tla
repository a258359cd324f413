------------------------------ MODULE Formatter ------------------------------
(***************************************************************************)
(* format_with_options of src/lib.rs: the text is parsed and its nodes are *)
(* formatted one after the other (src/formatter.rs).  The result is parsed *)
(* and formatted a second time, as the formatter's users do when they run  *)
(* it again, so that the properties can compare the two passes.            *)
(***************************************************************************)
EXTENDS SyntaxTree, SequencesExt

CONSTANTS
  Blocks,     \* the pieces files are made of, sequences of lines without ends
  MaxBlocks,  \* how many pieces a file has at most
  Options     \* the formatting options and line endings that are tried

VARIABLES
  options,    \* [maxBlank, layout] of the run, and the line ending of the file
  output,     \* what the nodes formatted so far became
  done,       \* how many nodes are formatted
  first       \* the text, nodes and output of the first pass, <<>> during it

vars == <<text, offset, nodes, refused, options, output, done, first>>

-----------------------------------------------------------------------------
(* Lists. *)

ListVariables == {"BBFILE_COLLECTIONS", "BBFILES", "BBLAYERS", "COMBINED_FEATURES",
  "CONFFILES", "DEPENDS", "DISTRO_FEATURES", "EXTRA_IMAGE_FEATURES", "FILES",
  "IMAGE_FEATURES", "IMAGE_LINGUAS", "INHERIT", "LAYERDEPENDS", "MACHINE_FEATURES",
  "PACKAGECONFIG", "PACKAGES", "PROVIDES", "RCONFLICTS", "RDEPENDS", "RRECOMMENDS",
  "RREPLACES", "RSUGGESTS", "SRC_URI", "USER_CLASSES"}

\* "_" is a letter of a word, so DEPENDS_x would be a word of its own.
IsKnownMetadataList(name) ==
  name[1] \in ListVariables /\ (Len(name) = 1 \/ name[2] = ":")

LineEndings(t) ==
  {LineEnding(SplitInclusive(t)[k]) : k \in DOMAIN SplitInclusive(t)} \ {<<>>}

\* Mutant: layouts are written with "\n" whatever the file has.
LayoutNewline(node) == <<"\n">>

\* The one line ending of a node; a node with none at all takes "\n" when it
\* is a single line; otherwise, and when they differ, no layout applies.
LayoutEnding(node) ==
  LET endings == LineEndings(node.text)
  IN IF Cardinality(endings) = 1 THEN CHOOSE e \in endings : TRUE
     ELSE IF node.continued THEN <<>> ELSE <<"\n">>

RECURSIVE SplitWhitespace(_)
SplitWhitespace(t) ==
  LET rest == TrimStart(t, White)
      stop == First({i \in DOMAIN rest : rest[i] \in White})
  IN IF rest = <<>> THEN <<>>
     ELSE IF stop = 0 THEN <<rest>>
     ELSE <<SubSeq(rest, 1, stop - 1)>> \o SplitWhitespace(From(rest, stop))

IsStaticItem(item, quotes) ==
  item # <<>> /\ \A i \in DOMAIN item : item[i] \notin White \cup {"$", "{", "}", "\\"} \cup quotes

IsCommentOrWhitespace(t) ==
  LET trimmed == TrimStart(t, Space) IN trimmed = <<>> \/ trimmed[1] = "#"

RECURSIVE ClosingQuote(_, _, _, _)
\* The quote from i on that only a comment or white space follows.
ClosingQuote(value, i, quote, escaped) ==
  IF i > Len(value) THEN 0
  ELSE IF value[i] = "\\" THEN ClosingQuote(value, i + 1, quote, ~escaped)
  ELSE IF value[i] = quote /\ ~escaped /\ IsCommentOrWhitespace(From(value, i + 1)) THEN i
  ELSE ClosingQuote(value, i + 1, quote, FALSE)

NonEmpty(t) == t # <<>>

\* Mutant: no white space is asked for in front of the backslash.
ValueLineGlued(lines, k, quote) ==
  LET ended   == LineEnding(lines[k]) # <<>>
      content == TrimStart(Content(lines[k]), Space)
      before  == WithoutLast(content, "\\")
      item    == IF ended THEN TrimEnd(before, Space) ELSE content
  IN [item |-> item,
      fits |-> /\ ended => content # before
               /\ IF ended /\ before = <<>> THEN k = 1
                  ELSE content = <<>> \/ IsStaticItem(item, {quote})]

\* A line of a quoted value: the item it holds, <<>> for none, and whether
\* the line has the shape of a list.
ValueLine(lines, k, quote) ==
  LET ended   == LineEnding(lines[k]) # <<>>
      content == TrimStart(Content(lines[k]), Space)
      before  == WithoutLast(content, "\\")
      item    == IF ended THEN TrimEnd(before, Space) ELSE content
  IN [item |-> item,
      fits |-> /\ ended => content # before
               /\ IF ended /\ before = <<>> THEN k = 1
                  ELSE /\ ended => before[Len(before)] \in Space
                       /\ content = <<>> \/ IsStaticItem(item, {quote})]

NoList == [items |-> <<>>]

StaticMetadataList(node) ==
  LET value    == TrimStart(node.value, Space)
      quote    == value[1]
      close    == ClosingQuote(value, 2, quote, FALSE)
      contents == SubSeq(value, 2, close - 1)
      lines    == SplitInclusive(contents)
      ending   == LayoutEnding(node)
      words    == SplitWhitespace(contents)
      items    == SelectSeq([k \in DOMAIN lines |-> ValueLine(lines, k, quote).item], NonEmpty)
      list(i)  == [items |-> i, ending |-> ending, quote |-> quote,
                   tail |-> From(value, close + 1)]
  IN IF \/ ~IsKnownMetadataList(node.name) \/ ending = <<>>
        \/ value = <<>> \/ value[1] \notin Quotes \/ close = 0 THEN NoList
     ELSE IF ~node.continued
     THEN IF /\ Len(words) >= 2
             /\ \A k \in DOMAIN words : IsStaticItem(words[k], {quote})
          THEN list(words) ELSE NoList
     ELSE IF /\ \A k \in DOMAIN lines : ValueLine(lines, k, quote).fits
             /\ Occurs("\n", contents)
             /\ Len(items) >= 2
          THEN list(items) ELSE NoList

ListDirectives == {"export", "EXPORT_FUNCTIONS", "include", "include_all", "inherit",
                   "inherit_defer", "require", "unset", "addhandler", "deltask"}

ArgumentLine(lines, k) ==
  LET content == Trim(Content(lines[k]))
      before  == WithoutLast(content, "\\")
      item    == Trim(before)
  IN [item |-> item,
      continues |-> content # before,
      fits |-> /\ content # <<>> /\ ~Occurs("#", content)
               /\ IF item = <<>> THEN k = 1 ELSE IsStaticItem(item, Quotes)]

StaticDirectiveList(node) ==
  LET lines  == SplitInclusive(node.arguments)
      ending == LayoutEnding(node)
      words  == SplitWhitespace(node.arguments)
      items  == SelectSeq([k \in DOMAIN lines |-> ArgumentLine(lines, k).item], NonEmpty)
      list(i) == [items |-> i, ending |-> ending]
  IN IF node.keyword \notin ListDirectives \/ ending = <<>> THEN NoList
     ELSE IF ~node.continued
     THEN IF /\ CommentStart(node.arguments) = 0
             /\ Len(words) >= 2
             /\ \A k \in DOMAIN words : IsStaticItem(words[k], Quotes)
          THEN list(words) ELSE NoList
     ELSE IF /\ \A k \in DOMAIN lines : ArgumentLine(lines, k).fits
             /\ \E k \in DOMAIN lines : ArgumentLine(lines, k).continues
             /\ Len(items) >= 2
          THEN list(items) ELSE NoList

-----------------------------------------------------------------------------
(* What a node is written as. *)

Gap    == <<" ">>
Indent == <<" ", " ", " ", " ">>

Concat(parts) == FlattenSeq(parts)

AssignmentLhs(node) == (IF node.exported THEN <<"export", " ">> ELSE <<>>) \o node.name

FormatMetadataList(node, list) ==
  LET break == <<" ", "\\">> \o list.ending
  IN AssignmentLhs(node) \o Gap \o node.operator \o Gap \o <<list.quote>> \o break
     \o Concat([k \in DOMAIN list.items |-> Indent \o list.items[k] \o break])
     \o Indent \o <<list.quote>> \o list.tail \o LineEnding(node.text)

\* Mutant: the space in front of a value is written again on every run.
FormatAssignmentUntrimmed(node) ==
  LET list == StaticMetadataList(node)
  IN IF options.layout = "OnePerLine" /\ list # NoList
     THEN FormatMetadataList(node, list)
     ELSE AssignmentLhs(node) \o Gap \o node.operator
          \o (IF node.value = <<>> THEN <<>> ELSE Gap \o node.value) \o LineEnding(node.text)

FormatAssignment(node) ==
  LET value == TrimStart(node.value, Space)
      list  == StaticMetadataList(node)
  IN IF options.layout = "OnePerLine" /\ list # NoList
     THEN FormatMetadataList(node, list)
     ELSE AssignmentLhs(node) \o Gap \o node.operator
          \o (IF value = <<>> THEN <<>> ELSE Gap \o value) \o LineEnding(node.text)

FormatDirectiveList(node, list) ==
  LET break == <<" ", "\\">> \o list.ending
      last  == Len(list.items)
  IN <<node.keyword>> \o break
     \o Concat([k \in DOMAIN list.items |->
                  Indent \o list.items[k] \o (IF k < last THEN break ELSE <<>>)])
     \o LineEnding(node.text)

FormatDirective(node) ==
  LET list == StaticDirectiveList(node)
  IN IF options.layout = "OnePerLine" /\ list # NoList
     THEN FormatDirectiveList(node, list)
     ELSE <<node.keyword>>
          \o (IF node.arguments = <<>> THEN <<>> ELSE Gap \o node.arguments)
          \o LineEnding(node.text)

IsFormatSafeAssignment(node) == ~Occurs("/", node.name)

RECURSIVE TrailingBlankLines(_)
TrailingBlankLines(lines) ==
  IF lines = <<>> \/ ~IsBlankLine(lines[Len(lines)]) THEN 0
  ELSE 1 + TrailingBlankLines(Without(lines, 1))

KeepsBlankLine(node) ==
  /\ LineEnding(node.text) # <<>>
  /\ TrailingBlankLines(SplitInclusive(output)) < options.maxBlank

-----------------------------------------------------------------------------
(* Files and the two passes. *)

\* The pieces of a file become its lines, each with the line ending of the
\* file; the last line has one when the options say so.
FileOf(pieces, o) ==
  LET lines == Concat(pieces)
      whole == Concat([k \in DOMAIN lines |-> lines[k] \o o.ending])
  IN IF o.final THEN whole ELSE Without(whole, Len(o.ending))

Init ==
  /\ options \in Options
  /\ \E n \in 1 .. MaxBlocks : \E pieces \in [1 .. n -> Blocks] :
       text = FileOf(pieces, options)
  /\ offset = 1 /\ nodes = <<>> /\ refused = ""
  /\ output = <<>> /\ done = 0 /\ first = <<>>

Parse == ParseStep /\ UNCHANGED <<options, output, done, first>>

Node == nodes[done + 1]

Write(t) ==
  /\ output' = output \o t
  /\ done' = done + 1
  /\ UNCHANGED <<syntaxVars, options, first>>

Formatting(kinds) == Parsed /\ done < Len(nodes) /\ Node.kind \in kinds

WriteBlank == Formatting({"Blank"}) /\ Write(IF KeepsBlankLine(Node) THEN LineEnding(Node.text) ELSE <<>>)

WriteAssignment ==
  /\ Formatting({"Assignment"})
  /\ Write(IF IsFormatSafeAssignment(Node) THEN FormatAssignment(Node) ELSE Node.text)

WriteDirective == Formatting({"Directive"}) /\ Write(FormatDirective(Node))

WriteVerbatim ==
  Formatting({"Comment", "Function", "PythonDefinition", "Unknown"}) /\ Write(Node.text)

Formatted == Parsed /\ done = Len(nodes)

\* The second pass, over the output of the first.
Again ==
  /\ Formatted /\ first = <<>>
  /\ first' = [text |-> text, nodes |-> nodes, output |-> output]
  /\ text' = output /\ offset' = 1 /\ nodes' = <<>> /\ output' = <<>> /\ done' = 0
  /\ UNCHANGED <<refused, options>>

Next ==
  \/ Parse
  \/ WriteBlank
  \/ WriteAssignment
  \/ WriteDirective
  \/ WriteVerbatim
  \/ Again

Spec == Init /\ [][Next]_vars

-----------------------------------------------------------------------------
TwoPasses == first # <<>>
Finished  == TwoPasses /\ Formatted

\* Formatting what the formatter wrote changes nothing.
Idempotent == Finished => output = first.output

\* What the formatter wrote is never refused.
StaysParseable == TwoPasses => refused = ""

\* A statement with each continuation replaced: BitBake joins the lines with
\* nothing in between.
RECURSIVE Joined(_, _)
Joined(t, between) ==
  IF t = <<>> THEN <<>>
  ELSE IF StartsAt(t, 1, <<"\\", "\n">>) THEN between \o Joined(From(t, 3), between)
  ELSE IF StartsAt(t, 1, <<"\\", "\r", "\n">>) THEN between \o Joined(From(t, 4), between)
  ELSE <<t[1]>> \o Joined(Tail(t), between)

Read(t) == Joined(t, <<>>)

\* The words of a value, whose quotes are no part of them.
ItemsOf(value) ==
  LET joined == Read(value)
  IN SplitWhitespace([k \in DOMAIN joined |-> IF joined[k] \in Quotes THEN " " ELSE joined[k]])

\* The value has white space inside its quotes at both ends.
SpacedAtEnds(value) ==
  LET v == TrimStart(Read(value), Space)
  IN v[2] \in Space /\ v[ClosingQuote(v, 2, v[1], FALSE) - 1] \in Space

Listed(node) ==
  /\ options.layout = "OnePerLine"
  /\ CASE node.kind = "Assignment" -> IsKnownMetadataList(node.name)
       [] node.kind = "Directive"  -> node.keyword \in ListDirectives

\* A value is as it was, or a list of the same words.  White space moves only
\* between its words and is added at both ends, never taken away: what ".="
\* or ":append" joins to an end may be separated there, not glued.
AssignmentKept(before, after) ==
  /\ <<after.name, after.exported, after.operator>> =
       <<before.name, before.exported, before.operator>>
  /\ \/ TrimStart(after.value, Space) = TrimStart(before.value, Space)
     \/ /\ Listed(before)
        /\ ItemsOf(after.value) = ItemsOf(before.value)
        /\ SpacedAtEnds(after.value)

\* The arguments are as they were, or the same words.  Only a word that a
\* continuation without white space joins is taken apart, at that place.
DirectiveKept(before, after) ==
  /\ after.keyword = before.keyword
  /\ \/ after.arguments = before.arguments
     \/ /\ Listed(before)
        /\ SplitWhitespace(Read(after.arguments)) =
             SplitWhitespace(Joined(before.arguments, <<" ">>))

\* What BitBake reads in a node, a sequence.  An opaque node is its lines,
\* whichever node holds them: without the blank line between them a decorator
\* and its definition become one node.
Meaning(node) ==
  CASE node.kind = "Blank" -> <<>>
    [] node.kind \in {"Assignment", "Directive"} -> <<node>>
    [] OTHER -> LET lines == SplitInclusive(node.text)
                IN [k \in DOMAIN lines |-> [kind |-> "Line", line |-> lines[k]]]

MeaningOf(ns) == Concat([k \in DOMAIN ns |-> Meaning(ns[k])])

Kept(before, after) ==
  /\ after.kind = before.kind
  /\ CASE before.kind = "Assignment" -> AssignmentKept(before, after)
       [] before.kind = "Directive"  -> DirectiveKept(before, after)
       [] OTHER -> after.line = before.line

\* Formatting leaves a file that parses, with the statements, their names,
\* operators and items, and every function, definition, comment and unknown
\* line as they were, but for the two ways in which the list layout changes
\* what BitBake joins (AssignmentKept, DirectiveKept).
MeaningKept ==
  /\ StaysParseable
  /\ Finished =>
       LET before == MeaningOf(first.nodes)
           after  == MeaningOf(nodes)
       IN Len(after) = Len(before) /\ \A k \in DOMAIN before : Kept(before[k], after[k])

\* Between top-level nodes at most maxBlank blank lines follow one another.
BlankRunsBounded ==
  Finished =>
    \A k \in DOMAIN nodes :
      k + options.maxBlank \in DOMAIN nodes
      => \E j \in k .. k + options.maxBlank : nodes[j].kind # "Blank"

\* A file whose lines all end alike keeps that ending on every line.
EndingsKept ==
  Finished /\ options.final => LineEndings(output) \subseteq {options.ending}

\* The lines of the output are as the options and the input ask.
LayoutKept == BlankRunsBounded /\ EndingsKept

=============================================================================
