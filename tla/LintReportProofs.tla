-------------------------- MODULE LintReportProofs --------------------------
(***************************************************************************)
(* Suppressions and the exit status, for every set of findings, every set  *)
(* of directives and all settings: the report made by finalize_diagnostics *)
(* is accounted for, and no later step changes what it was made of.        *)
(***************************************************************************)
EXTENDS LintReport, WellFoundedInduction, TLAPS

(* The findings and directives are of a text.                              *)
OfText ==
  /\ found \subseteq Findings /\ OneLineEach(found)
  /\ directives \subseteq SuppressionDirectives /\ OnePerLine(directives)

(* The report is what finalize_diagnostics made of them.                   *)
IsReport == report = FinalizeDiagnostics(found, directives)

ReportInv ==
  /\ OfText
  /\ stage = "reported" => IsReport
  /\ exit # -1 => stage = "end"
  /\ exit = 0 => IsReport /\ ~HasBlockingFindings(report)

-----------------------------------------------------------------------------
(* A directive covers a finding if it hides it.                            *)
LEMMA CoversHides ==
  ASSUME NEW s \in SuppressionDirectives, NEW f \in Findings
  PROVE  Covers(s, f) <=> Hides(s, f)
<1>1. /\ s.line \in Nat \ {0} /\ s.kind \in {"SameLine", "NextLine", "File"}
      /\ f.line \in Nat \ {0}
  BY DEF SuppressionDirectives, Findings
<1>2. CASE s.kind = "SameLine"
  BY <1>1, <1>2 DEF Covers, Hides, Reach
<1>3. CASE s.kind = "NextLine"
  BY <1>1, <1>3 DEF Covers, Hides, Reach
<1>4. CASE s.kind = "File"
  BY <1>1, <1>4 DEF Covers, Hides, Reach
<1> QED
  BY <1>1, <1>2, <1>3, <1>4

(* The hiding line is the first line of a directive that hides it.         *)
LEMMA HidingLineIs ==
  ASSUME NEW ds, ds \subseteq SuppressionDirectives, NEW f \in Findings
  PROVE  /\ HidingLine(f, ds) # 0 <=> \E s \in ds : Hides(s, f)
         /\ HidingLine(f, ds) # 0 =>
              /\ \E s \in ds : Hides(s, f) /\ s.line = HidingLine(f, ds)
              /\ \A s \in ds : Hides(s, f) => HidingLine(f, ds) <= s.line
<1> DEFINE lines == {s.line : s \in {t \in ds : Covers(t, f)}}
<1>1. /\ \A s \in ds : Hides(s, f) => s.line \in lines
      /\ \A l \in lines : \E s \in ds : Hides(s, f) /\ s.line = l
      /\ lines \subseteq Nat \ {0}
  BY CoversHides DEF SuppressionDirectives
<1>2. HidingLine(f, ds) = IF lines = {} THEN 0 ELSE Min(lines)
  BY DEF HidingLine
<1> HIDE DEF lines
<1>3. ASSUME lines # {}
      PROVE  Min(lines) \in lines /\ \A l \in lines : Min(lines) <= l
  <2>1. lines \subseteq Nat
    BY <1>1
  <2>2. PICK l \in lines : \A m \in lines : ~(<<m, l>> \in OpToRel(<, Nat))
    BY <1>3, <2>1, WFMin, NatLessThanWellFounded
  <2>3. \A m \in lines : ~(m < l)
    BY <2>1, <2>2 DEF OpToRel
  <2>4. l \in lines /\ \A m \in lines : l <= m
    BY <2>1, <2>3
  <2> QED
    BY <2>4, Zenon DEF Min
<1> QED
  BY <1>1, <1>2, <1>3

(* What finalize_diagnostics reports.                                      *)
LEMMA FinalizeIs ==
  ASSUME NEW ds, ds \subseteq SuppressionDirectives, NEW fs, fs \subseteq Findings
  PROVE  /\ \A g \in FinalizeDiagnostics(fs, ds) :
              \/ /\ g.rule = "BBT038"
                 /\ \E s \in ds :
                      /\ g.line = s.line
                      /\ \/ ~s.fit
                         \/ \A f \in fs : IsEnabled(f.rule) => HidingLine(f, ds) # s.line
              \/ \E f \in fs :
                   /\ IsEnabled(f.rule) /\ g.rule = f.rule /\ g.at = f.at
                   /\ g.rule # "BBT038"
                   /\ g.hidden = (HidingLine(f, ds) # 0)
         /\ \A f \in fs :
              IsEnabled(f.rule) /\ HidingLine(f, ds) = 0 =>
                \E g \in FinalizeDiagnostics(fs, ds) :
                  /\ g.rule = f.rule /\ g.at = f.at /\ ~g.hidden
                  /\ g.severity = SeverityFor(f.rule)
         /\ \A s \in ds :
              \/ s.fit /\ \E f \in fs : IsEnabled(f.rule) /\ HidingLine(f, ds) = s.line
              \/ \E g \in FinalizeDiagnostics(fs, ds) : g.rule = "BBT038" /\ g.line = s.line
<1> DEFINE line(f) == HidingLine(f, ds)
           enabled == {f \in fs : IsEnabled(f.rule)}
           used == {line(f) : f \in enabled}
           shown == {f \in enabled : line(f) = 0 \/ settings.show}
           selected == {Reported(f, line(f) # 0) : f \in shown}
           unused == {t \in ds : ~t.fit \/ t.line \notin used}
           accounted == {SuppressionDiagnostic(s) : s \in unused}
<1>1. FinalizeDiagnostics(fs, ds) = selected \cup accounted
  BY DEF FinalizeDiagnostics
<1> HIDE DEF line
<1>2. ASSUME NEW f \in fs, NEW hidden
      PROVE  /\ f.rule # "BBT038"
             /\ Reported(f, hidden).rule = f.rule /\ Reported(f, hidden).at = f.at
             /\ Reported(f, hidden).hidden = hidden
             /\ Reported(f, hidden).severity = SeverityFor(f.rule)
  BY DEF Findings, Reported
<1>3. ASSUME NEW s
      PROVE  SuppressionDiagnostic(s).rule = "BBT038" /\ SuppressionDiagnostic(s).line = s.line
  BY DEF SuppressionDiagnostic
<1>4. ASSUME NEW g \in selected
      PROVE  \E f \in fs : /\ IsEnabled(f.rule) /\ g.rule = f.rule /\ g.at = f.at
                           /\ g.rule # "BBT038"
                           /\ g.hidden = (line(f) # 0)
  <2>1. PICK f \in shown : g = Reported(f, line(f) # 0)
    OBVIOUS
  <2>2. f \in fs /\ IsEnabled(f.rule)
    OBVIOUS
  <2> HIDE DEF shown
  <2> QED
    BY <1>2, <2>1, <2>2
<1>5. ASSUME NEW g \in accounted
      PROVE  /\ g.rule = "BBT038"
             /\ \E s \in ds : /\ g.line = s.line
                              /\ \/ ~s.fit
                                 \/ \A f \in fs : IsEnabled(f.rule) => line(f) # s.line
  <2>1. PICK s \in unused : g = SuppressionDiagnostic(s)
    OBVIOUS
  <2>2. s \in ds /\ (~s.fit \/ \A f \in fs : IsEnabled(f.rule) => line(f) # s.line)
    OBVIOUS
  <2> QED
    BY <1>3, <2>1, <2>2
<1>6. ASSUME NEW f \in fs, IsEnabled(f.rule), line(f) = 0
      PROVE  \E g \in selected : /\ g.rule = f.rule /\ g.at = f.at /\ ~g.hidden
                                 /\ g.severity = SeverityFor(f.rule)
  <2>1. Reported(f, line(f) # 0) \in selected
    BY <1>6
  <2> HIDE DEF selected
  <2> QED
    BY <1>2, <1>6, <2>1
<1>7. ASSUME NEW s \in ds, ~(s.fit /\ \E f \in fs : IsEnabled(f.rule) /\ line(f) = s.line)
      PROVE  \E g \in accounted : g.rule = "BBT038" /\ g.line = s.line
  <2>1. SuppressionDiagnostic(s) \in accounted
    BY <1>7
  <2> HIDE DEF accounted
  <2> QED
    BY <1>3, <2>1
<1> HIDE DEF selected, accounted, enabled, used, shown, unused
<1>8. \A g : g \in FinalizeDiagnostics(fs, ds) <=> g \in selected \/ g \in accounted
  BY <1>1
<1>9. ASSUME NEW g \in FinalizeDiagnostics(fs, ds)
      PROVE  \/ /\ g.rule = "BBT038"
                /\ \E s \in ds :
                     /\ g.line = s.line
                     /\ \/ ~s.fit
                        \/ \A f \in fs : IsEnabled(f.rule) => line(f) # s.line
             \/ \E f \in fs : /\ IsEnabled(f.rule) /\ g.rule = f.rule /\ g.at = f.at
                               /\ g.rule # "BBT038"
                               /\ g.hidden = (line(f) # 0)
  <2>1. g \in selected \/ g \in accounted
    BY <1>8
  <2> QED
    BY <1>4, <1>5, <2>1
<1>10. ASSUME NEW f \in fs, IsEnabled(f.rule), line(f) = 0
       PROVE  \E g \in FinalizeDiagnostics(fs, ds) :
                /\ g.rule = f.rule /\ g.at = f.at /\ ~g.hidden
                /\ g.severity = SeverityFor(f.rule)
  BY <1>6, <1>8, <1>10
<1>11. ASSUME NEW s \in ds
       PROVE  \/ s.fit /\ \E f \in fs : IsEnabled(f.rule) /\ line(f) = s.line
              \/ \E g \in FinalizeDiagnostics(fs, ds) : g.rule = "BBT038" /\ g.line = s.line
  BY <1>7, <1>8
<1> QED
  BY <1>9, <1>10, <1>11 DEF line

-----------------------------------------------------------------------------
(* The steps keep the invariant.                                           *)
LEMMA ReportInvHolds == ReportSpec => []ReportInv
<1>1. ReportInit => ReportInv
  BY DEF ReportInit, ReportInv, OfText, OneLineEach, OnePerLine
<1>2. ReportInv /\ [ReportNext]_reportVars => ReportInv'
  <2> SUFFICES ASSUME ReportInv, [ReportNext]_reportVars
               PROVE  ReportInv'
    OBVIOUS
  <2> USE DEF ReportInv
  <2>1. ASSUME UNCHANGED <<settings, found, directives, report>>
        PROVE  /\ IsReport' <=> IsReport
               /\ HasBlockingFindings(report)' <=> HasBlockingFindings(report)
               /\ OfText' <=> OfText
    <3>1. IsReport' <=> IsReport
      BY <2>1 DEF IsReport, FinalizeDiagnostics, IsEnabled, Reported, SeverityFor
    <3>2. HasBlockingFindings(report)' <=> HasBlockingFindings(report)
      BY <2>1 DEF HasBlockingFindings, IsBlocking
    <3>3. OfText' <=> OfText
      BY <2>1 DEF OfText, OneLineEach, OnePerLine
    <3> QED
      BY <3>1, <3>2, <3>3
  <2>2. CASE RejectSettings \/ RefuseFile \/ RefuseFixes
    BY <2>1, <2>2 DEF RejectSettings, RefuseFile, RefuseFixes, End
  <2>3. CASE AcceptSettings
    BY <2>1, <2>3 DEF AcceptSettings
  <2>4. ASSUME NEW diagnostics \in SUBSET Findings, OneLineEach(diagnostics), Collect(diagnostics)
        PROVE  ReportInv'
    <3>1. OfText'
      BY <2>4 DEF Collect, OfText, OneLineEach, OnePerLine
    <3> QED
      BY <2>4, <3>1 DEF Collect
  <2>5. ASSUME NEW suppressions \in SUBSET SuppressionDirectives, OnePerLine(suppressions),
               Finalize(suppressions)
        PROVE  ReportInv'
    <3>1. OfText'
      BY <2>5 DEF Finalize, OfText, OneLineEach, OnePerLine
    <3>2. IsReport'
      BY <2>5 DEF Finalize, IsReport, FinalizeDiagnostics, IsEnabled, Reported, SeverityFor
    <3> QED
      BY <2>5, <3>1, <3>2 DEF Finalize
  <2>6. CASE ApplyLintFixes
    BY <2>1, <2>6 DEF ApplyLintFixes
  <2>7. CASE Finish
    BY <2>1, <2>7 DEF Finish, End
  <2>8. CASE UNCHANGED reportVars
    BY <2>1, <2>8 DEF reportVars
  <2> QED
    BY <2>2, <2>3, <2>4, <2>5, <2>6, <2>7, <2>8 DEF ReportNext
<1> QED
  BY <1>1, <1>2, PTL DEF ReportSpec

(* finalize_diagnostics: for every set of findings, of suppressions and all *)
(* settings, a finding is hidden exactly by the suppressions that name it,  *)
(* and the suppressions that hide nothing, and only redundant ones, are     *)
(* reported.                                                                *)
THEOREM SuppressionsAreAccounted == ReportSpec => []SuppressionsAccounted
<1>1. ReportInv => SuppressionsAccounted
  <2> SUFFICES ASSUME ReportInv, stage = "reported"
               PROVE  SuppressionsAccounted
    BY DEF SuppressionsAccounted
  <2>1. /\ found \subseteq Findings /\ OneLineEach(found)
        /\ directives \subseteq SuppressionDirectives /\ OnePerLine(directives)
        /\ report = FinalizeDiagnostics(found, directives)
    BY DEF ReportInv, OfText, IsReport
  <2> DEFINE line(f) == HidingLine(f, directives)
  <2>2. ASSUME NEW f \in found
        PROVE  /\ line(f) # 0 <=> \E s \in directives : Hides(s, f)
               /\ line(f) # 0 =>
                    /\ \E s \in directives : Hides(s, f) /\ s.line = line(f)
                    /\ \A s \in directives : Hides(s, f) => line(f) <= s.line
    BY <2>1, HidingLineIs
  <2>3. ASSUME NEW f \in found, NEW h \in found, f.rule = h.rule, f.at = h.at
        PROVE  line(f) = line(h)
    <3>1. f.line = h.line
      BY <2>1, <2>3 DEF OneLineEach
    <3>2. \A s : Covers(s, f) <=> Covers(s, h)
      BY <2>3, <3>1 DEF Covers
    <3> QED
      BY <3>2 DEF HidingLine
  <2>4. /\ \A g \in report :
             \/ /\ g.rule = "BBT038"
                /\ \E s \in directives :
                     /\ g.line = s.line
                     /\ \/ ~s.fit
                        \/ \A f \in found : IsEnabled(f.rule) => line(f) # s.line
             \/ \E f \in found :
                  /\ IsEnabled(f.rule) /\ g.rule = f.rule /\ g.at = f.at
                  /\ g.rule # "BBT038"
                  /\ g.hidden = (line(f) # 0)
        /\ \A f \in found :
             IsEnabled(f.rule) /\ line(f) = 0 =>
               \E g \in report : g.rule = f.rule /\ g.at = f.at /\ ~g.hidden
        /\ \A s \in directives :
             \/ s.fit /\ \E f \in found : IsEnabled(f.rule) /\ line(f) = s.line
             \/ \E g \in report : g.rule = "BBT038" /\ g.line = s.line
    BY <2>1, FinalizeIs
  <2>5. \A s \in directives : s.line \in Nat \ {0}
    BY <2>1 DEF SuppressionDirectives
  <2>6. \A f \in found : f.rule # "BBT038"
    BY <2>1 DEF Findings
  <2> HIDE DEF line
  <2>7. ASSUME NEW f \in Enabled
        PROVE  (\E s \in directives : Hides(s, f))
               <=> ~\E g \in report : g.rule = f.rule /\ g.at = f.at /\ ~g.hidden
    <3>1. f \in found /\ IsEnabled(f.rule)
      BY DEF Enabled
    <3>2. CASE line(f) = 0
      BY <2>2, <2>4, <3>1, <3>2
    <3>3. ASSUME line(f) # 0, NEW g \in report, g.rule = f.rule, g.at = f.at, ~g.hidden
          PROVE  FALSE
      <4>1. PICK h \in found : /\ g.rule = h.rule /\ g.at = h.at
                               /\ g.hidden = (line(h) # 0)
        BY <2>4, <2>6, <3>1, <3>3
      <4>2. line(h) = line(f)
        BY <2>3, <3>1, <3>3, <4>1
      <4> QED
        BY <3>3, <4>1, <4>2
    <3> QED
      BY <2>2, <3>1, <3>2, <3>3
  <2>8. ASSUME NEW s \in directives, NEW f \in found, line(f) = s.line
        PROVE  Hides(s, f)
    <3>1. line(f) # 0
      BY <2>5, <2>8
    <3>2. PICK t \in directives : Hides(t, f) /\ t.line = line(f)
      BY <2>2, <3>1
    <3>3. t = s
      BY <2>1, <2>8, <3>2 DEF OnePerLine
    <3> QED
      BY <3>2, <3>3
  <2>9. ASSUME NEW s \in directives
        PROVE  \/ \E f \in Enabled : Hides(s, f)
               \/ \E g \in report : g.rule = "BBT038" /\ g.line = s.line
    <3>1. CASE \E f \in found : IsEnabled(f.rule) /\ line(f) = s.line
      <4>1. PICK f \in found : IsEnabled(f.rule) /\ line(f) = s.line
        BY <3>1
      <4> QED
        BY <2>8, <4>1 DEF Enabled
    <3> QED
      BY <2>4, <3>1
  <2>10. ASSUME NEW g \in report, g.rule = "BBT038"
         PROVE  \E s \in directives :
                  /\ s.line = g.line
                  /\ \A f \in Enabled :
                       Hides(s, f) => \E t \in directives : t.line < s.line /\ Hides(t, f)
    <3>1. PICK s \in directives :
            /\ g.line = s.line
            /\ ~s.fit \/ \A f \in found : IsEnabled(f.rule) => line(f) # s.line
      BY <2>4, <2>10
    <3>2. ASSUME NEW f \in Enabled, Hides(s, f)
          PROVE  \E t \in directives : t.line < s.line /\ Hides(t, f)
      <4>1. f \in found /\ IsEnabled(f.rule)
        BY DEF Enabled
      <4>2. line(f) # s.line
        BY <3>1, <3>2, <4>1 DEF Hides
      <4>3. PICK t \in directives : Hides(t, f) /\ t.line = line(f) /\ line(f) <= s.line
        BY <2>2, <3>2, <4>1
      <4> QED
        BY <2>5, <4>2, <4>3
    <3> QED
      BY <3>1, <3>2
  <2> QED
    BY <2>7, <2>9, <2>10 DEF SuppressionsAccounted
<1> QED
  BY <1>1, ReportInvHolds, PTL

(* has_blocking_findings and the exit status: whatever the settings, exit 0 *)
(* means that no suppression is idle and that what none hides is below the  *)
(* failure threshold.                                                       *)
THEOREM CleanExitsAreEarned == ReportSpec => []CleanExitIsEarned
<1>1. ReportInv => CleanExitIsEarned
  <2> SUFFICES ASSUME ReportInv, exit = 0
               PROVE  CleanExitIsEarned
    BY DEF CleanExitIsEarned
  <2>1. /\ found \subseteq Findings
        /\ directives \subseteq SuppressionDirectives /\ OnePerLine(directives)
        /\ report = FinalizeDiagnostics(found, directives)
        /\ ~HasBlockingFindings(report)
    BY DEF ReportInv, OfText, IsReport
  <2> DEFINE line(f) == HidingLine(f, directives)
  <2>2. \A s \in directives : s.line \in Nat \ {0}
    BY <2>1 DEF SuppressionDirectives
  <2>3. ASSUME NEW f \in found
        PROVE  /\ line(f) # 0 <=> \E s \in directives : Hides(s, f)
               /\ line(f) # 0 => \E s \in directives : Hides(s, f) /\ s.line = line(f)
    BY <2>1, HidingLineIs
  <2>4. /\ \A f \in found :
             IsEnabled(f.rule) /\ line(f) = 0 =>
               \E g \in report : ~g.hidden /\ g.severity = SeverityFor(f.rule)
        /\ \A s \in directives :
             \/ s.fit /\ \E f \in found : IsEnabled(f.rule) /\ line(f) = s.line
             \/ \E g \in report : g.rule = "BBT038"
    BY <2>1, FinalizeIs
  <2> HIDE DEF line
  <2>5. \A g \in report : g.rule # "BBT038" /\ (g.hidden \/ ~IsBlocking(g.severity))
    BY <2>1 DEF HasBlockingFindings
  <2>6. ASSUME NEW s \in directives
        PROVE  \E f \in Enabled : Hides(s, f)
    <3>1. PICK f \in found : IsEnabled(f.rule) /\ line(f) = s.line
      BY <2>4, <2>5
    <3>2. PICK t \in directives : Hides(t, f) /\ t.line = line(f)
      BY <2>2, <2>3, <3>1
    <3>3. t = s
      BY <2>1, <3>1, <3>2 DEF OnePerLine
    <3> QED
      BY <3>1, <3>2, <3>3 DEF Enabled
  <2>7. ASSUME NEW f \in Enabled
        PROVE  (\E s \in directives : Hides(s, f)) \/ ~IsBlocking(SeverityFor(f.rule))
    <3>1. f \in found /\ IsEnabled(f.rule)
      BY DEF Enabled
    <3>2. CASE line(f) # 0
      BY <2>3, <3>1, <3>2
    <3>3. CASE line(f) = 0
      <4>1. PICK g \in report : ~g.hidden /\ g.severity = SeverityFor(f.rule)
        BY <2>4, <3>1, <3>3
      <4> QED
        BY <2>5, <4>1
    <3> QED
      BY <3>2, <3>3
  <2> QED
    BY <2>6, <2>7 DEF CleanExitIsEarned
<1> QED
  BY <1>1, ReportInvHolds, PTL
=============================================================================
