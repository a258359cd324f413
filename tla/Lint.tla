-------------------------------- MODULE Lint --------------------------------
(***************************************************************************)
(* The lint of one file by src/lint.rs and src/main.rs: the settings are   *)
(* accepted or rejected, the file is parsed and checked, the findings are  *)
(* selected, hidden by inline suppressions and reported, fixes are applied *)
(* and the result is parsed and checked again.  The steps are those of     *)
(* module LintReport, with the findings and suppressions of the text.      *)
(* Writing a batch of fixed files is the subject of module Transaction,    *)
(* the baseline of module CheckCommand; here every finding is new.         *)
(***************************************************************************)
EXTENDS LintRules, LintReport

CONSTANTS
  Paths,      \* the paths files are tried under; see path
  Pieces,     \* for each path, the pieces its files are made of
  MaxPieces,  \* how many pieces a file has at most
  Settings    \* for each path, the options that are tried

VARIABLES
  pieces,  \* the pieces of the file
  first    \* the text and the report before the fixes, <<>> until then

lintVars == <<path, pieces, first, reportVars>>
vars == <<syntaxVars, lintVars>>

-----------------------------------------------------------------------------
(* Suppressions. *)

SuppressionMark == <<"#", " ", "bbtidy", ":">>

Kinds == (<<"ignore">> :> "SameLine")
      @@ (<<"ignore", "-", "next", "-", "line">> :> "NextLine")
      @@ (<<"disable", "-", "file">> :> "File")

\* The comment that begins at the first "#" of a line, <<>> for none.
CommentOf(line) ==
  LET content == WithoutLast(WithoutLast(line, "\n"), "\r")
      hash    == First({i \in DOMAIN content : content[i] = "#"})
  IN IF hash = 0 THEN <<>> ELSE From(content, hash)

\* The directive in the comment of line n: the rule it hides and whether it
\* is well formed.
Directive(comment, n) ==
  LET payload == Trim(From(comment, Len(SuppressionMark) + 1))
      open    == First({i \in DOMAIN payload : payload[i] = "["})
      command == Trim(SubSeq(payload, 1, open - 1))
      rest    == From(payload, open + 1)
      close   == First({i \in DOMAIN rest : rest[i] = "]"})
      id      == Trim(SubSeq(rest, 1, close - 1))
      suffix  == Trim(From(rest, close + 1))
      named   == open # 0 /\ command \in DOMAIN Kinds /\ close # 0
      reason  == StartsAt(suffix, 1, <<"-", "-">>) /\ Trim(From(suffix, 3)) # <<>>
  IN [line |-> n,
      kind |-> IF named THEN Kinds[command] ELSE "SameLine",
      rule |-> IF named /\ Len(id) = 1 THEN id[1] ELSE "",
      fit  |-> /\ named /\ reason
               /\ Len(id) = 1 /\ id[1] \in Rules \ {"BBT038"}
               /\ Kinds[command] = "File" => n = 1]

Suppressions ==
  LET lines == SplitInclusive(text)
  IN {Directive(CommentOf(lines[n]), n) :
        n \in {m \in DOMAIN lines : StartsAt(CommentOf(lines[m]), 1, SuppressionMark)}}

-----------------------------------------------------------------------------
(* Findings and fixes. *)

\* LintDiagnostic::at: a finding has the line of its place.
InLine(d) == [rule |-> d.rule, at |-> d.at, line |-> LineOf(d.at), fix |-> d.fix]

ByRange(a, b) == a.from < b.from \/ (a.from = b.from /\ a.to < b.to)

Edited(t, fix) == SubSeq(t, 1, fix.from - 1) \o fix.with \o From(t, fix.to)

\* The edits are made from the last to the first.
Replace(t, fixes) ==
  FoldRight(LAMBDA fix, done : Edited(done, fix), SetToSortSeq(fixes, ByRange), t)

FixesFit(fixes) ==
  /\ \A f \in fixes : f.from <= f.to /\ f.to <= EndOfText
  /\ \A f, g \in fixes : f = g \/ f.to <= g.from \/ g.to <= f.from

-----------------------------------------------------------------------------
(* The command. *)

LinesOf(ps) == FlattenSeq([k \in DOMAIN ps |-> ps[k].lines])

FileOf(ps, final) ==
  LET lines == LinesOf(ps)
      whole == FlattenSeq([k \in DOMAIN lines |-> Append(lines[k], "\n")])
  IN IF final THEN whole ELSE Without(whole, 1)

Init ==
  /\ \E p \in DOMAIN Paths :
       /\ path = Paths[p]
       /\ settings \in Settings[p] /\ ReportInit
       /\ \E n \in 1 .. MaxPieces : pieces \in [1 .. n -> Pieces[p]]
  /\ text = FileOf(pieces, settings.final)
  /\ offset = 1 /\ nodes = <<>> /\ refused = ""
  /\ first = <<>>

TextStays == UNCHANGED <<syntaxVars, path, pieces, first>>

ParseFile == stage = "parse" /\ ParseStep /\ UNCHANGED lintVars

RefuseText == refused # "" /\ RefuseFile /\ TextStays

CollectFound ==
  Parsed /\ Collect({InLine(d) : d \in Diagnostics}) /\ TextStays

\* Edits that do not fit are refused.
ApplyFixes ==
  IF FixesFit(FixesOf(report))
  THEN /\ ApplyLintFixes
       /\ text' = Replace(text, FixesOf(report))
       /\ first' = [text |-> text, nodes |-> nodes, report |-> report]
       /\ offset' = 1 /\ nodes' = <<>> /\ refused' = ""
       /\ UNCHANGED <<path, pieces>>
  ELSE RefuseFixes /\ TextStays

Next ==
  \/ RejectSettings /\ TextStays
  \/ AcceptSettings /\ TextStays
  \/ ParseFile
  \/ RefuseText
  \/ CollectFound
  \/ Finalize(Suppressions) /\ TextStays
  \/ ApplyFixes
  \/ Finish /\ TextStays

Spec == Init /\ [][Next]_vars

-----------------------------------------------------------------------------
FoundFirst == stage = "found" /\ first = <<>>
Refixed    == stage = "reported" /\ first # <<>>

\* What is known to be wrong with a file: each piece names its own faults by
\* line, and what it needs of the rest of the file.
FirstLine(k) == Len(LinesOf(SubSeq(pieces, 1, k - 1)))

OwnFaults == UNION {{<<FirstLine(k) + f[1], f[2]>> : f \in pieces[k].faults} : k \in DOMAIN pieces}

Given == UNION {pieces[k].gives : k \in DOMAIN pieces}

Needs == UNION ({pieces[k].needs : k \in DOMAIN pieces} \cup {path.needs})

UnmetNeeds ==
  {n[1] : n \in {m \in Needs : m[2] \notin Given /\ m[3] \in Given \cup {"always"}}}

AboutNeeds == {"BBT011", "BBT012", "BBT013", "BBT022", "BBT024", "BBT026", "BBT030", "BBT031",
               "BBT032", "BBT033", "BBT037"}
AboutRepeats == {"BBT005", "BBT016", "BBT017", "BBT027", "BBT029"}

\* Whatever surrounds it, each fault is found at its line and nothing else is:
\* expansions, comments, continued lines, bodies and other files are read
\* rightly, and what one line asks of another is found wherever that stands.
FaultsFound ==
  FoundFirst =>
    /\ {<<f.line, f.rule>> :
          f \in {g \in found : g.rule \notin AboutNeeds \cup AboutRepeats \cup {"BBT002"}}}
       = OwnFaults
    /\ {f.rule : f \in found} \cap AboutNeeds = UnmetNeeds \cap AboutNeeds

\* A variable, function, class, package or collection given n times is
\* reported n - 1 times, wherever its repetitions stand.
RepeatsCounted ==
  FoundFirst =>
    \A r \in AboutRepeats :
      LET times(key) == Cardinality({k \in DOMAIN pieces : <<r, key>> \in pieces[k].repeats})
          keys == {x[2] : x \in {y \in UNION {pieces[k].repeats : k \in DOMAIN pieces} : y[1] = r}}
      IN Cardinality({f \in found : f.rule = r})
         = SumFunction([key \in keys |-> times(key) - 1]) + (IF r \in UnmetNeeds THEN 1 ELSE 0)

\* A comment of the documented form for a rule, read off the text itself.
Says(n, command, rule) ==
  LET lines == SplitInclusive(text)
  IN n \in DOMAIN lines
     /\ IsPrefix(SuppressionMark \o <<" ">> \o command \o <<"[", rule, "]", " ", "-", "-", " ">>,
                 CommentOf(lines[n]))

Marked ==
  {n \in DOMAIN SplitInclusive(text) :
     IsPrefix(SuppressionMark, CommentOf(SplitInclusive(text)[n]))}

\* The directives are those comments, and speak for the lines they name.
SuppressionsRead ==
  stage = "reported" =>
    /\ {s.line : s \in directives} = Marked
    /\ directives \subseteq SuppressionDirectives /\ OnePerLine(directives)
    /\ \A n \in Marked : \A f \in found :
         (\E s \in directives : s.line = n /\ Hides(s, f))
         <=> \/ Says(n, <<"ignore">>, f.rule) /\ LineOf(f.at) = n
             \/ Says(n, <<"ignore", "-", "next", "-", "line">>, f.rule) /\ LineOf(f.at) = n + 1
             \/ Says(n, <<"disable", "-", "file">>, f.rule) /\ n = 1

\* What is found in a file is what is wrong with it, once each, and what is
\* suppressed is what its comments say.
FindingsExact ==
  /\ FaultsFound /\ RepeatsCounted /\ SuppressionsRead
  /\ found \subseteq Findings /\ OneLineEach(found)

\* One run of --fix leaves nothing for another, and never ends in an error
\* unless the settings contradict one another or the text does not parse.
FixConverges ==
  /\ Refixed => FixesOf(report) = {}
  /\ exit = 2 => refused # "" \/ settings.enable \cap settings.disable # {}

InBody(fix) ==
  LET start(k) == 1 + Len(FlattenSeq([j \in 1 .. k - 1 |-> first.nodes[j].text]))
  IN \E k \in DOMAIN first.nodes :
       /\ first.nodes[k].kind \in {"Function", "PythonDefinition"}
       /\ fix.from \in start(k) .. start(k) + Len(first.nodes[k].text)

\* Findings at the end of a file move when the file gets its newline.
PlaceOf(f, end) == <<f.rule, IF f.at = end THEN "end" ELSE ToString(f.line)>>

\* Outside bodies the fixes change nothing but what they are about: the file
\* still parses and every other finding is still there, at its line, and no
\* new one is.
FixLeavesTheRest ==
  /\ first # <<>> /\ ~settings.show
  /\ ~\E fix \in FixesOf(first.report) : InBody(fix)
  => /\ refused = ""
     /\ stage = "reported" =>
          {PlaceOf(f, EndOfText) : f \in report}
          = {PlaceOf(f, Len(first.text) + 1) : f \in {g \in first.report : g.fix = NoFix}}

\* One --fix is enough, and it does no harm outside bodies.
FixesSettle == FixConverges /\ FixLeavesTheRest

\* docs/lint-rules.md: `--fix` "applies only safe BBT001 and BBT002 edits,
\* re-lints the result, and reports remaining findings".
FixedFileParses == first # <<>> => refused = ""

=============================================================================
