------------------------------ MODULE ShellBody ------------------------------
(***************************************************************************)
(* The analysis of a shell function in src/body.rs: the tokens of the      *)
(* body, and the stack of open if, loop and case blocks they drive.        *)
(* Texts are those of Scanners; a backslash stands in front of one-letter  *)
(* lexemes only, so that escaping a lexeme escapes one byte.               *)
(***************************************************************************)
EXTENDS PythonBody

-----------------------------------------------------------------------------
(* Parts of a body that are not shell code. *)

RECURSIVE DefinitionEnd(_, _, _, _, _)
DefinitionEnd(t, i, leading, sawBody, triple) ==
  LET line    == Line(t, i)
      content == IF LineEnding(line) = <<"\r", "\n">> THEN Content(line) ELSE line
      code    == Trim(content)
      deeper  == IndentOf(content) > leading
  IN IF i > Len(t) \/ (sawBody /\ triple = "" /\ code # <<>> /\ ~deeper)
     THEN IF sawBody THEN i ELSE 0
     ELSE DefinitionEnd(t, NextLineEnd(t, i), leading, sawBody \/ (code # <<>> /\ deeper),
                        PythonLineTripleState(content, triple))

\* The end of an indented Python definition that starts on the line at i.
SkipEmbeddedPythonDefinition(t, i) ==
  LET leading == IndentOf(Line(t, i))
      code    == Trim(Line(t, i))
  IN IF leading > 0 /\ StartsDef(code) /\ Occurs(":", code)
     THEN DefinitionEnd(t, NextLineEnd(t, i), leading, FALSE, "") ELSE 0

RECURSIVE BacktickFrom(_, _, _)
BacktickFrom(t, i, escaped) ==
  IF i > Len(t) THEN 0
  ELSE IF ~escaped /\ t[i] = "backtick" THEN i + 1
  ELSE BacktickFrom(t, i + 1, ~escaped /\ t[i] = "\\")

SkipShellBacktickSubstitution(t, i) == BacktickFrom(t, i, FALSE)

\* The delimiter after "<<": it keeps the backslashes of an unquoted word.
HereDocumentDelimiter(t, i) ==
  LET strip == i <= Len(t) /\ t[i] = "-"
      gap   == TrimStart(From(t, IF strip THEN i + 1 ELSE i), Space)
      stop  == First({k \in DOMAIN gap : gap[k] \in White \cup (ShellOperators \ {"(", ")"})})
      close == First({k \in 2 .. Len(gap) : gap[k] = gap[1]})
      word  == IF gap = <<>> THEN <<>>
               ELSE IF gap[1] \in Quotes THEN SubSeq(gap, 2, close - 1)
               ELSE IF stop = 0 THEN gap ELSE SubSeq(gap, 1, stop - 1)
  IN [found |-> word # <<>> \/ (gap # <<>> /\ gap[1] \in Quotes /\ close # 0),
      delimiter |-> word, strip |-> strip]

-----------------------------------------------------------------------------
(* Tokens (shell_tokens).  word is where the open word starts, 0 for none; *)
(* a here-document is pending until the line break that activates it.      *)

ShellStart == [i |-> 1, word |-> 0, command |-> TRUE, quote |-> "", escaped |-> FALSE,
               comment |-> FALSE, pending |-> <<>>, active |-> <<>>, line |-> 1,
               tokens |-> <<>>]

ShellToken(text, from, command, boundary) ==
  [text |-> text, from |-> from, to |-> from + Len(text), command |-> command,
   boundary |-> boundary]

EmitShellWord(t, s) ==
  IF s.word = 0 THEN s
  ELSE [s EXCEPT !.tokens = Append(@, ShellToken(SubSeq(t, s.word, s.i - 1), s.word,
                                                 s.command, "None")),
                 !.word = 0]

\* After a word the next one is no command.
EndWord(t, s) == [EmitShellWord(t, s) EXCEPT !.command = s.command /\ s.word = 0]

StartWord(s) == [s EXCEPT !.word = IF @ = 0 THEN s.i ELSE @]

NewLine(s, i) == [s EXCEPT !.i = i, !.line = i, !.command = TRUE]

\* Mutant: only the innermost here-document is looked for, tabs and all.
PayloadToDelimiter(t, s) ==
  LET ends == Line(t, s.i) = Append(Head(s.active).delimiter, "\n")
  IN NewLine([s EXCEPT !.active = IF ends THEN Tail(@) ELSE @], NextLineEnd(t, s.i))

\* A line of a here-document: the delimiter of any open one ends the first.
PayloadLine(t, s) ==
  LET line == Line(t, s.i)
      ends == \E k \in DOMAIN s.active : EndsHereDoc(s.active[k], line)
  IN NewLine([s EXCEPT !.active = IF ends THEN Tail(@) ELSE @], NextLineEnd(t, s.i))

QuotedShell(t, s) ==
  LET c   == t[s.i]
      end == IF s.quote # "\"" THEN 0
             ELSE IF StartsAt(t, s.i, <<"$", "(">>) THEN SkipShellCommandSubstitution(t, s.i + 2)
             ELSE IF c = "backtick" THEN SkipShellBacktickSubstitution(t, s.i + 1) ELSE 0
  IN IF end # 0 THEN [s EXCEPT !.i = end]
     ELSE Advance([s EXCEPT !.quote = IF c = @ THEN "" ELSE @], 1)

\* The end of the substitution that starts at i, 0 when it has none.
SubstitutionEnd(t, i) ==
  IF \E c \in {"$", "<", ">"} : StartsAt(t, i, <<c, "(">>)
  THEN SkipShellCommandSubstitution(t, i + 2)
  ELSE IF t[i] = "backtick" THEN SkipShellBacktickSubstitution(t, i + 1) ELSE 0

StartsSubstitution(t, i) ==
  t[i] = "backtick" \/ \E c \in {"$", "<", ">"} : StartsAt(t, i, <<c, "(">>)

\* An operator ends the open word and the next word is a command.
Separator(t, s, length, boundary) ==
  LET e    == EmitShellWord(t, s)
      mark == ShellToken(SubSeq(t, s.i, s.i + length - 1), s.i, TRUE, boundary)
  IN Advance([e EXCEPT !.tokens = IF boundary = "None" THEN @ ELSE Append(@, mark),
                       !.command = TRUE], length)

CommentInBody(t, s) ==
  s.i = s.line \/ t[s.i - 1] \in White \cup {";", "|", "&", "(", ")"}

BareShell(t, s) ==
  LET c   == t[s.i]
      doc == HereDocumentDelimiter(t, s.i + 2)
  IN IF c = "\n"
     THEN NewLine([EmitShellWord(t, s) EXCEPT !.active = @ \o s.pending, !.pending = <<>>],
                  s.i + 1)
     ELSE IF c \in Space \cup {"\r"} THEN Advance(EndWord(t, s), 1)
     ELSE IF c = "#" /\ CommentInBody(t, s)
     THEN Advance([EndWord(t, s) EXCEPT !.comment = TRUE], 1)
     ELSE IF c \in Quotes THEN Advance([StartWord(s) EXCEPT !.quote = c], 1)
     ELSE IF StartsAt(t, s.i, <<"<", "<">>) /\ ~StartsAt(t, s.i, <<"<", "<", "<">>)
     THEN Advance([s EXCEPT !.pending = IF doc.found THEN Append(@, doc) ELSE @], 2)
     ELSE IF StartsAt(t, s.i, <<";", ";">>) THEN Separator(t, s, 2, "CaseArmEnd")
     ELSE IF c = ")" THEN Separator(t, s, 1, "CasePatternEnd")
     ELSE IF c \in {";", "|", "&", "("} THEN Separator(t, s, 1, "None")
     ELSE Advance(StartWord(s), 1)

UnquotedShell(t, s) ==
  LET begun == IF StartsSubstitution(t, s.i) THEN StartWord(s) ELSE s
      end   == SubstitutionEnd(t, s.i)
  IN IF BitbakeExpressionEnd(t, s.i) # 0
     THEN [s EXCEPT !.i = BitbakeExpressionEnd(t, s.i)]
     ELSE IF end # 0 THEN [begun EXCEPT !.i = end]
     ELSE BareShell(t, begun)

TokenizeStep(t, s) ==
  LET c == t[s.i]
      definition == IF s.i = s.line /\ s.word = 0 THEN SkipEmbeddedPythonDefinition(t, s.i) ELSE 0
  IN IF definition # 0 THEN NewLine(s, definition)
     ELSE IF s.i = s.line /\ s.active # <<>> THEN PayloadLine(t, s)
     ELSE IF s.comment
     THEN IF c = "\n" THEN NewLine([s EXCEPT !.comment = FALSE], s.i + 1) ELSE Advance(s, 1)
     ELSE IF s.escaped THEN Advance([s EXCEPT !.escaped = FALSE], 1)
     ELSE IF c = "\\" /\ s.quote # "'" THEN Advance([s EXCEPT !.escaped = TRUE], 1)
     ELSE IF s.quote # "" THEN QuotedShell(t, s)
     ELSE UnquotedShell(t, s)

RECURSIVE TokenizeFrom(_, _)
TokenizeFrom(t, s) ==
  IF s.i > Len(t) THEN EmitShellWord(t, [s EXCEPT !.i = Len(t) + 1]).tokens
  ELSE TokenizeFrom(t, TokenizeStep(t, s))

ShellTokens(t) == TokenizeFrom(t, ShellStart)

-----------------------------------------------------------------------------
(* Blocks (analyze_shell_body).  A reserved word may be read only in some  *)
(* phases of the innermost block and moves it to another; the first word   *)
(* out of place ends the analysis.                                         *)

Opens == ("if" :> "IfCondition") @@ ("case" :> "CaseHeader")
         @@ [w \in {"for", "while", "until", "select"} |-> "LoopHeader"]

AllowedIn == [then |-> {"IfCondition"}, elif |-> {"IfBody"}, else |-> {"IfBody"},
              fi   |-> {"IfBody", "IfElse"}, do |-> {"LoopHeader"}, done |-> {"LoopBody"},
              esac |-> {"CasePatterns", "CaseCommands"}]

MovesTo == [then |-> "IfBody", elif |-> "IfCondition", else |-> "IfElse", do |-> "LoopBody"]

Closes == {"fi", "done", "esac"}

Phase(s) == IF s.blocks = <<>> THEN "None" ELSE Last(s.blocks).phase

SetPhase(s, phase) == [s EXCEPT !.blocks[Len(s.blocks)].phase = phase]

ReservedWord(s, token) ==
  LET word == token.text[1]
  IN IF Len(token.text) # 1 \/ word \notin DOMAIN Opens \cup DOMAIN AllowedIn THEN s
     ELSE IF word \in DOMAIN Opens
     THEN [s EXCEPT !.blocks = Append(@, [at |-> token.from, phase |-> Opens[word]])]
     ELSE IF Phase(s) \notin AllowedIn[word]
     THEN [s EXCEPT !.uncertain = TRUE,
                    !.found = Append(@, Finding("ShellSyntax", token.from, token.to, word))]
     ELSE IF word \in Closes THEN [s EXCEPT !.blocks = Front(@)]
     ELSE SetPhase(s, MovesTo[word])

\* Mutant: the analysis goes on after the first word out of place.
BlockStepOn(s, token) ==
  IF Phase(s) = "CasePatterns" /\ token.boundary = "CasePatternEnd"
  THEN SetPhase(s, "CaseCommands")
  ELSE IF Phase(s) = "CaseCommands" /\ token.boundary = "CaseArmEnd"
  THEN SetPhase(s, "CasePatterns")
  ELSE IF Phase(s) = "CasePatterns" /\ token.text # <<"esac">> THEN s
  ELSE IF token.command THEN ReservedWord(s, token) ELSE s

BlockStep(s, token) ==
  IF s.uncertain THEN s
  ELSE IF Phase(s) = "CasePatterns" /\ token.boundary = "CasePatternEnd"
  THEN SetPhase(s, "CaseCommands")
  ELSE IF Phase(s) = "CaseCommands" /\ token.boundary = "CaseArmEnd"
  THEN SetPhase(s, "CasePatterns")
  ELSE IF Phase(s) = "CasePatterns" /\ token.text # <<"esac">> THEN s
  ELSE IF token.command THEN ReservedWord(s, token)
  ELSE IF token.text = <<"in">> /\ Phase(s) = "CaseHeader" THEN SetPhase(s, "CasePatterns")
  ELSE s

BlockStart == [blocks |-> <<>>, uncertain |-> FALSE, found |-> <<>>]

Blocks(t) == FoldLeft(BlockStep, BlockStart, ShellTokens(t))

AnalyzeShellBody(t) ==
  LET s == Blocks(t)
      unclosed == {Finding("ShellSyntax", s.blocks[k].at, s.blocks[k].at + 1, "unclosed") :
                    k \in DOMAIN s.blocks}
  IN SortBodyDiagnostics(IF s.uncertain THEN s.found ELSE SetToSeq(unclosed))

=============================================================================
