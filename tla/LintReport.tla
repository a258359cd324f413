----------------------------- MODULE LintReport -----------------------------
(***************************************************************************)
(* What becomes of the findings of one file in src/lint.rs and run_lint of *)
(* src/main.rs: the settings are accepted or rejected, the rules find      *)
(* something, finalize_diagnostics selects it by profile, hides what the   *)
(* inline suppressions name and reports the suppressions that hide         *)
(* nothing, the fixes of the report are made, once, and the severities     *)
(* decide the exit status.  Here a file has any findings and suppressions; *)
(* module Lint says which ones a text has.                                 *)
(***************************************************************************)
EXTENDS Integers, Sequences, FiniteSetsExt

VARIABLES
  settings,    \* the profile, the rules enabled and disabled, the severities
               \* that are overridden, fail_on, show_suppressed and fix
  stage,       \* "start", "parse", "found", "reported" or "end"
  found,       \* what the rules found
  directives,  \* the suppressions in the text, at most one in a line
  report,      \* what is left of the findings
  fixed,       \* whether fixes were made
  exit         \* the exit status, -1 while the command runs

reportVars == <<settings, stage, found, directives, report, fixed, exit>>

-----------------------------------------------------------------------------
(* Rules, profiles and severities. *)

Rules == {"BBT001", "BBT002", "BBT003", "BBT004", "BBT005", "BBT006", "BBT007", "BBT008",
  "BBT009", "BBT010", "BBT011", "BBT012", "BBT013", "BBT014", "BBT015", "BBT016", "BBT017",
  "BBT018", "BBT019", "BBT020", "BBT021", "BBT022", "BBT023", "BBT024", "BBT025", "BBT026",
  "BBT027", "BBT028", "BBT029", "BBT030", "BBT031", "BBT032", "BBT033", "BBT034", "BBT035",
  "BBT036", "BBT037", "BBT038"}

StrictOnly == {"BBT003", "BBT011", "BBT012", "BBT013", "BBT016", "BBT021"}

ProfileRules(profile) ==
  CASE profile = "Essential"   -> Rules \ (StrictOnly \cup {"BBT020"})
    [] profile = "Recommended" -> Rules \ StrictOnly
    [] profile \in {"Strict", "All"} -> Rules

IsEnabled(rule) ==
  /\ rule \in ProfileRules(settings.profile) \cup settings.enable
  /\ rule \notin settings.disable

RuleSeverity(rule) == IF rule \in {"BBT019", "BBT038"} THEN "error" ELSE "warning"

SeverityFor(rule) ==
  IF rule \in DOMAIN settings.severity THEN settings.severity[rule] ELSE RuleSeverity(rule)

IsBlocking(severity) ==
  CASE settings.failOn = "info"    -> TRUE
    [] settings.failOn = "warning" -> severity \in {"warning", "error"}
    [] settings.failOn = "error"   -> severity = "error"
    [] settings.failOn = "never"   -> FALSE

Severities == {"info", "warning", "error"}

AreSettings(s) ==
  /\ s.profile \in {"Essential", "Recommended", "Strict", "All"}
  /\ s.enable \subseteq Rules /\ s.disable \subseteq Rules
  /\ DOMAIN s.severity \subseteq Rules
  /\ \A rule \in DOMAIN s.severity : s.severity[rule] \in Severities
  /\ s.failOn \in Severities \cup {"never"}
  /\ s.fix \in BOOLEAN /\ s.show \in BOOLEAN

-----------------------------------------------------------------------------
(* Findings and suppressions.  A finding is a rule, a place in the text,   *)
(* the line of that place and a fix; where a fix is none, from is 0.       *)

Fixes == [from : Nat, to : Nat, with : Seq(STRING)]

Findings ==
  [rule : Rules \ {"BBT038"}, at : Nat \ {0}, line : Nat \ {0}, fix : Fixes]

\* A place is in one line.
OneLineEach(findings) == \A f, g \in findings : f.at = g.at => f.line = g.line

\* A directive for a rule is fit if it is well formed; only then it counts.
SuppressionDirectives ==
  [line : Nat \ {0}, kind : {"SameLine", "NextLine", "File"}, rule : Rules \cup {""},
   fit : BOOLEAN]

\* Mutant: a directive for the next line covers its own line as well.
CoversBoth(s, f) ==
  /\ s.fit /\ s.rule = f.rule
  /\ CASE s.kind = "SameLine" -> s.line = f.line
       [] s.kind = "NextLine" -> f.line \in {s.line, s.line + 1}
       [] s.kind = "File"     -> TRUE

Covers(s, f) ==
  /\ s.fit /\ s.rule = f.rule
  /\ CASE s.kind = "SameLine" -> s.line = f.line
       [] s.kind = "NextLine" -> s.line + 1 = f.line
       [] s.kind = "File"     -> TRUE

\* The suppression that hides a finding is the first that covers it; 0 if none.
HidingLine(f, suppressions) ==
  LET lines == {s.line : s \in {t \in suppressions : Covers(t, f)}}
  IN IF lines = {} THEN 0 ELSE Min(lines)

Reported(f, hidden) ==
  [rule |-> f.rule, at |-> f.at, fix |-> f.fix, line |-> f.line, hidden |-> hidden,
   severity |-> SeverityFor(f.rule)]

SuppressionDiagnostic(s) ==
  [rule |-> "BBT038", at |-> 0, fix |-> [from |-> 0, to |-> 0, with |-> <<>>],
   line |-> s.line, hidden |-> FALSE, severity |-> RuleSeverity("BBT038")]

FinalizeDiagnostics(diagnostics, suppressions) ==
  LET enabled == {f \in diagnostics : IsEnabled(f.rule)}
      line(f) == HidingLine(f, suppressions)
      used    == {line(f) : f \in enabled}
      shown   == {f \in enabled : line(f) = 0 \/ settings.show}
  IN {Reported(f, line(f) # 0) : f \in shown}
     \cup {SuppressionDiagnostic(s) : s \in {t \in suppressions : ~t.fit \/ t.line \notin used}}

\* Mutant: a suppression error counts like any other finding.
HasBlockingFindingsByPolicy(findings) ==
  \E f \in findings : ~f.hidden /\ IsBlocking(f.severity)

HasBlockingFindings(findings) ==
  \E f \in findings : f.rule = "BBT038" \/ (~f.hidden /\ IsBlocking(f.severity))

FixesOf(findings) == {f.fix : f \in {g \in findings : g.fix.from # 0}}

-----------------------------------------------------------------------------
(* The command. *)

ReportInit ==
  /\ AreSettings(settings)
  /\ stage = "start" /\ found = {} /\ directives = {} /\ report = {}
  /\ fixed = FALSE /\ exit = -1

End(status) ==
  /\ exit' = status /\ stage' = "end"
  /\ UNCHANGED <<settings, found, directives, report, fixed>>

Contradictory == settings.enable \cap settings.disable # {}

RejectSettings == stage = "start" /\ Contradictory /\ End(2)

AcceptSettings ==
  /\ stage = "start" /\ ~Contradictory
  /\ stage' = "parse"
  /\ UNCHANGED <<settings, found, directives, report, fixed, exit>>

\* The file does not parse.
RefuseFile == stage = "parse" /\ End(2)

\* lint_syntax_with_workspace up to finalize_diagnostics, then the latter.
Collect(diagnostics) ==
  /\ stage = "parse"
  /\ found' = diagnostics /\ stage' = "found"
  /\ UNCHANGED <<settings, directives, report, fixed, exit>>

Finalize(suppressions) ==
  /\ stage = "found"
  /\ directives' = suppressions
  /\ report' = FinalizeDiagnostics(found, suppressions) /\ stage' = "reported"
  /\ UNCHANGED <<settings, found, fixed, exit>>

ToFix == settings.fix /\ ~fixed /\ FixesOf(report) # {}

\* The fixes of the report become the file, which is linted again.
ApplyLintFixes ==
  /\ stage = "reported" /\ ToFix
  /\ fixed' = TRUE /\ stage' = "parse"
  /\ UNCHANGED <<settings, found, directives, report, exit>>

\* Edits that do not fit are refused.
RefuseFixes == stage = "reported" /\ ToFix /\ End(2)

Finish ==
  /\ stage = "reported" /\ ~ToFix
  /\ End(IF HasBlockingFindings(report) THEN 1 ELSE 0)

OnePerLine(suppressions) == \A s, t \in suppressions : s.line = t.line => s = t

ReportNext ==
  \/ RejectSettings
  \/ AcceptSettings
  \/ RefuseFile
  \/ \E diagnostics \in SUBSET Findings : OneLineEach(diagnostics) /\ Collect(diagnostics)
  \/ \E suppressions \in SUBSET SuppressionDirectives : OnePerLine(suppressions) /\ Finalize(suppressions)
  \/ ApplyLintFixes
  \/ RefuseFixes
  \/ Finish

ReportSpec == ReportInit /\ [][ReportNext]_reportVars

-----------------------------------------------------------------------------
(* The lines a directive speaks for. *)
Reach(s) ==
  CASE s.kind = "SameLine" -> {s.line}
    [] s.kind = "NextLine" -> {s.line + 1}
    [] s.kind = "File"     -> Nat

Hides(s, f) == s.fit /\ s.rule = f.rule /\ f.line \in Reach(s)

Enabled == {f \in found : IsEnabled(f.rule)}

\* A finding leaves the report exactly when a directive with a reason names
\* its rule and its line; a directive that does not do this for any finding is
\* itself reported, and one is reported only then, or if earlier ones hide
\* whatever it does.
SuppressionsAccounted ==
  stage = "reported" =>
    /\ \A f \in Enabled :
         (\E s \in directives : Hides(s, f))
         <=> ~\E g \in report : g.rule = f.rule /\ g.at = f.at /\ ~g.hidden
    /\ \A s \in directives :
         \/ \E f \in Enabled : Hides(s, f)
         \/ \E g \in report : g.rule = "BBT038" /\ g.line = s.line
    /\ \A g \in report : g.rule = "BBT038" =>
         \E s \in directives :
           /\ s.line = g.line
           /\ \A f \in Enabled :
                Hides(s, f) => \E t \in directives : t.line < s.line /\ Hides(t, f)

\* A clean exit means that every suppression in the file hides something and
\* that what no suppression hides is below the failure threshold, whatever
\* profile, threshold or severities are set.
CleanExitIsEarned ==
  exit = 0 =>
    /\ \A s \in directives : \E f \in Enabled : Hides(s, f)
    /\ \A f \in Enabled : (\E s \in directives : Hides(s, f)) \/ ~IsBlocking(SeverityFor(f.rule))

=============================================================================
