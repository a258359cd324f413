----------------------------- MODULE SyntaxTree -----------------------------
(***************************************************************************)
(* The lossless top-level parse of src/syntax.rs: one action per round of  *)
(* the loop of parse, which takes the function, the Python definition or   *)
(* the statement at the offset, or refuses the whole text.                 *)
(***************************************************************************)
EXTENDS Scanners

VARIABLES
  text,      \* the source, a sequence of lexemes
  offset,    \* where the next node starts
  nodes,     \* the nodes parsed so far
  refused    \* why parse gave up, "" while it has not

syntaxVars == <<text, offset, nodes, refused>>

Keywords == {"include", "include_all", "require", "inherit", "inherit_defer",
             "addfragments", "addpylib", "addhandler", "addtask", "deltask",
             "EXPORT_FUNCTIONS", "export", "unset"}

-----------------------------------------------------------------------------
(* Statements. *)

FirstContent(statement) == Content(Line(statement, 1))

OperatorStart(statement) == FindAssignmentOperator(FirstContent(statement))

AssignmentLeft(statement) ==
  TrimEnd(SubSeq(FirstContent(statement), 1, OperatorStart(statement) - 1), White)

IsAssignment(statement) ==
  /\ OperatorStart(statement) # 0
  /\ IsVariableName(ExportedName(AssignmentLeft(statement)))

AssignmentOperator(statement) == OperatorAt(FirstContent(statement), OperatorStart(statement))

AssignmentValue(statement) ==
  From(Content(statement), OperatorStart(statement) + Len(AssignmentOperator(statement)))

StartsIndented(statement) == statement[1] \in White

IsDirective(statement) ==
  /\ statement[1] \in Keywords
  /\ Len(Content(statement)) = 1 \/ statement[2] \in White

\* What classify_statement and the two parsers below it make of a statement.
Classify(statement) ==
  LET trimmed == TrimStart(FirstContent(statement), Space)
  IN IF IsBlankLine(Line(statement, 1)) THEN [kind |-> "Blank"]
     ELSE IF trimmed[1] = "#" THEN [kind |-> "Comment"]
     ELSE IF StartsIndented(statement) THEN [kind |-> "Unknown"]
     ELSE IF IsAssignment(statement)
     THEN [kind     |-> "Assignment",
           name     |-> ExportedName(AssignmentLeft(statement)),
           exported |-> Exported(AssignmentLeft(statement)),
           operator |-> AssignmentOperator(statement),
           value    |-> AssignmentValue(statement)]
     ELSE IF IsDirective(statement)
     THEN [kind      |-> "Directive",
           keyword   |-> statement[1],
           arguments |-> TrimStart(Tail(Content(statement)), White)]
     ELSE [kind |-> "Unknown"]

UnclosedQuote(syntax) == syntax.kind = "Assignment" /\ ~HasBalancedQuotes(syntax.value)

-----------------------------------------------------------------------------
(* One round of the loop of parse. *)

Opening == FunctionOpeningBrace(Line(text, offset))
Closing == FindBraceBlockEnd(text, offset + Opening.brace - 1, Opening.kind)
Header  == PythonDefHeader(text, offset)

AtFunction   == Opening.brace # 0
AtDefinition == ~AtFunction /\ Header # NoHeader
AtStatement  == ~AtFunction /\ Header = NoHeader

StatementEnd == FindContinuationEnd(text, offset)
StatementText == SubSeq(text, offset, StatementEnd - 1)
Continued    == HasLineContinuation(Line(text, offset))

TakeNode(syntax, end) ==
  /\ nodes' = Append(nodes, syntax @@ [text |-> SubSeq(text, offset, end - 1)])
  /\ offset' = end
  /\ UNCHANGED <<text, refused>>

Parsing == refused = "" /\ offset <= Len(text)

ParseFunction ==
  /\ Parsing /\ AtFunction /\ Closing # 0
  /\ TakeNode([kind |-> "Function", language |-> Opening.kind, name |-> Opening.name,
               fakeroot |-> Opening.fakeroot,
               body |-> SubSeq(text, offset + Opening.brace, Closing - 1)],
              NextLineEnd(text, Closing))

ParsePythonDefinition ==
  /\ Parsing /\ AtDefinition
  /\ LET end  == FindPythonDefEnd(text, Header.headerEnd, FALSE, Fresh)
         line == SubSeq(text, Header.defStart + 2, Header.headerEnd - 1)
         mark == IF Occurs("(", line) THEN "(" ELSE ":"
         stop == First({i \in DOMAIN line : line[i] = mark})
     IN TakeNode([kind |-> "PythonDefinition",
                  name |-> TrimEnd(SubSeq(line, 1, stop - 1), White),
                  body |-> SubSeq(text, Header.headerEnd, end - 1)],
                 end)

ParseStatement ==
  /\ Parsing /\ AtStatement /\ StatementEnd # 0
  /\ ~UnclosedQuote(Classify(StatementText))
  /\ TakeNode(Classify(StatementText) @@ [continued |-> Continued], StatementEnd)

Refuse(reason) == refused' = reason /\ UNCHANGED <<text, offset, nodes>>

RefuseFunction     == Parsing /\ AtFunction /\ Closing = 0 /\ Refuse("no closing brace")
RefuseContinuation == Parsing /\ AtStatement /\ StatementEnd = 0
                      /\ Refuse("unterminated continuation")
RefuseQuote ==
  /\ Parsing /\ AtStatement /\ StatementEnd # 0
  /\ UnclosedQuote(Classify(StatementText))
  /\ Refuse("unclosed quote")

Parsed == refused = "" /\ offset > Len(text)

ParseStep ==
  \/ ParseFunction
  \/ ParsePythonDefinition
  \/ ParseStatement
  \/ RefuseFunction
  \/ RefuseContinuation
  \/ RefuseQuote

=============================================================================
