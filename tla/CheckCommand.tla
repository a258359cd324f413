---------------------------- MODULE CheckCommand ----------------------------
(***************************************************************************)
(* `bbtidy check` (run_lint of src/main.rs) over successive invocations:   *)
(* reading the inputs, applying fixes, writing, comparing and refreshing   *)
(* the baseline, the report and the exit code.                             *)
(*                                                                         *)
(* Fixes go through Transaction (src/transaction.rs), here with the steps  *)
(* that read or change an input: each file is validated when it is staged, *)
(* validated again and then replaced when it is committed, and validated   *)
(* and then put back when a later file fails.  Module Transaction has the  *)
(* temporary files and the crashes.  The order of the files is left open.  *)
(*                                                                         *)
(* The text of a file is represented by the findings it has: how many of   *)
(* each identity.  An identity stands for a rule, a normalized path, the   *)
(* shape of the message and the digest of the line; equal ones are told    *)
(* apart by the order in which they occur.  The baseline that is written,  *)
(* compared with or refreshed is one file.                                 *)
(*                                                                         *)
(* Developers edit files while a check runs, the rule catalog and the      *)
(* profile change between runs, a write of the baseline may fail half way  *)
(* and the reader of the report may close the pipe.                        *)
(***************************************************************************)
EXTENDS Integers, FiniteSets

CONSTANTS
  Files,      \* the inputs
  Kinds,      \* finding identities within a file
  Texts,      \* the texts to consider: the number of findings of each kind
  Fixable,    \* the kinds --fix removes
  Blocking,   \* the kinds whose severity meets the threshold
  Always,     \* the kinds no baseline excuses (rule BBT038)
  Profiles,   \* lint profiles
  Catalogs    \* rule catalogs of successive releases

ASSUME FinitenessAssumption == IsFiniteSet(Files) /\ IsFiniteSet(Kinds)
ASSUME KindsAssumption == Fixable \subseteq Kinds /\ Blocking \subseteq Kinds
                          /\ Always \subseteq Kinds
ASSUME TextsAssumption ==
  /\ Texts \subseteq [Kinds -> Nat]
  /\ \A t \in Texts : [k \in Kinds |-> IF k \in Fixable THEN 0 ELSE t[k]]
                         \in Texts

VARIABLES
  disk,      \* the text of each file
  baseline,  \* the baseline file: absent, torn, or what was written
  accepted,  \* history: the findings of the run that wrote the baseline
  profile,   \* the selected profile
  catalog,   \* the catalog of the installed release
  args,      \* the options of the current run
  pc,        \* its next step
  read,      \* the text each file was read as, or Unread
  failed,    \* had_error
  left,      \* the files the loop over the fixes has not visited yet
  checked,   \* the file that was validated last, and is about to change
  late,      \* history: it was edited since
  edited,    \* history: the files edited since this run read them
  written,   \* the files that hold their fixed text and were not put back
  kept,      \* those a rollback could not put back, named by the error
  summary,   \* baseline_summary: the counts, and the entries compared with
  exit       \* the exit code of the last run, and why

fixVars == <<left, checked, late, edited, written, kept>>
runVars == <<args, read, failed, summary, exit, fixVars>>
fileVars == <<disk, baseline, accepted, profile, catalog>>
vars == <<fileVars, pc, runVars>>

----------------------------------------------------------------------------
Args == {a \in [fix : BOOLEAN, write : BOOLEAN, compare : BOOLEAN,
                refresh : BOOLEAN, show : BOOLEAN] :
           ~ (a.write /\ a.refresh)}          \* conflicts_with

NoArgs == [fix |-> FALSE, write |-> FALSE, compare |-> FALSE,
           refresh |-> FALSE, show |-> FALSE]

Unread == [k \in {} |-> 0]

Identities == Files \X Kinds

(* The findings of the texts that were read, in numbers per identity.      *)
Found(texts) == [i \in Identities |-> texts[i[1]][i[2]]]

(* An entry is an identity and the number of an equal finding, from 0.     *)
Slots == Identities \X Nat

(* Seeded fault: equal findings are not told apart.                        *)
EntriesUncounted(found) == {i \in Identities : found[i] > 0} \X {0}

(* baseline_entries: one entry per finding.                                *)
Entries(found) == UNION {{i} \X (0 .. found[i] - 1) : i \in Identities}

Absent == [state |-> "absent", profile |-> "none", catalog |-> 0,
           entries |-> {}]
Torn   == [Absent EXCEPT !.state = "torn"]

Written(found) == [state |-> "written", profile |-> profile,
                   catalog |-> catalog, entries |-> Entries(found)]

NoSummary == [compared |-> FALSE, existing |-> 0, new |-> 0, stale |-> 0,
              previous |-> Absent]

Init ==
  /\ disk \in [Files -> Texts]
  /\ baseline = Absent /\ accepted = [i \in Identities |-> 0]
  /\ profile \in Profiles /\ catalog \in Catalogs
  /\ \A c \in Catalogs : catalog <= c
  /\ args = NoArgs /\ pc = "idle"
  /\ read = [f \in Files |-> Unread] /\ failed = FALSE
  /\ summary = NoSummary /\ exit = [code |-> 0, why |-> "none"]
  /\ left = {} /\ checked = {} /\ late = FALSE
  /\ edited = {} /\ written = {} /\ kept = {}

(* Nothing is left of a fix.                                               *)
EndFix == /\ left' = {} /\ checked' = {} /\ late' = FALSE
          /\ edited' = {} /\ written' = {} /\ kept' = {}

(* The process ends, and its state with it.                                *)
Exit(code, why) ==
  /\ pc' = "idle" /\ exit' = [code |-> code, why |-> why]
  /\ args' = NoArgs /\ read' = [f \in Files |-> Unread] /\ failed' = FALSE
  /\ summary' = NoSummary /\ EndFix

----------------------------------------------------------------------------
(* One run of the command                                                  *)

Start ==
  /\ pc = "idle"
  /\ args' \in Args
  /\ exit' = [code |-> 0, why |-> "none"]
  /\ pc' = "read"
  /\ UNCHANGED <<fileVars, read, failed, summary, fixVars>>

(* An input that cannot be read or parsed does not end the loop.           *)
Read(f) ==
  /\ pc = "read" /\ read[f] = Unread
  /\ \/ /\ read' = [read EXCEPT ![f] = disk[f]] /\ edited' = edited \ {f}
        /\ UNCHANGED failed
     \/ failed' = TRUE /\ UNCHANGED <<read, edited>>
  /\ UNCHANGED <<fileVars, args, pc, summary, exit, left, checked, late,
                 written, kept>>

Fixed(text) == [k \in Kinds |-> IF k \in Fixable THEN 0 ELSE text[k]]

Changed == {f \in Files : Fixed(read[f]) # read[f]}

AllRead == \A f \in Files : read[f] # Unread

ReadFails ==
  /\ pc = "read" /\ failed
  /\ Exit(2, "input")
  /\ UNCHANGED fileVars

(* Transaction::stage is asked for the files that the fixes change, if     *)
(* any.                                                                    *)
BeginFix ==
  /\ pc = "read" /\ ~ failed /\ AllRead
  /\ IF args.fix /\ Changed # {}
     THEN pc' = "stage" /\ left' = Changed
     ELSE pc' = "write" /\ UNCHANGED left
  /\ UNCHANGED <<fileVars, args, read, failed, summary, exit, checked, late,
                 edited, written, kept>>

(* validate_source refuses a file that is no longer what was read; it, and *)
(* the writes of the temporary files, may also fail.                       *)
Stage(f) ==
  /\ pc = "stage" /\ f \in left
  /\ \/ /\ disk[f] = read[f]
        /\ IF left = {f} THEN pc' = "commit" /\ left' = Changed
                         ELSE left' = left \ {f} /\ UNCHANGED pc
        /\ UNCHANGED <<args, read, failed, summary, exit, checked, late,
                       edited, written, kept>>
     \/ Exit(2, "fix")
  /\ UNCHANGED fileVars

(* commit_with gives up and puts back what it has replaced.                *)
RollBack(replaced) == pc' = "undo" /\ left' = replaced

(* Seeded fault: commit_with relies on the validation of stage.            *)
ValidateStaged(f) ==
  /\ pc = "commit" /\ f \in left
  /\ pc' = "replace" /\ checked' = {f} /\ late' = FALSE
  /\ UNCHANGED <<fileVars, args, read, failed, summary, exit, left, edited,
                 written, kept>>

Validate(f) ==
  /\ pc = "commit" /\ f \in left
  /\ \/ /\ disk[f] = read[f]
        /\ pc' = "replace" /\ checked' = {f} /\ late' = FALSE
        /\ UNCHANGED left
     \/ RollBack(written) /\ UNCHANGED <<checked, late>>
  /\ UNCHANGED <<fileVars, args, read, failed, summary, exit, edited, written,
                 kept>>

(* The rename, and the synchronization of the directory, which may fail    *)
(* when the file is already replaced.                                      *)
Replace ==
  /\ pc = "replace" /\ checked' = {} /\ late' = FALSE
  /\ \E f \in checked :
       \/ /\ disk' = [disk EXCEPT ![f] = Fixed(read[f])]
          /\ written' = written \cup {f}
          /\ \/ /\ left' = left \ {f}
                /\ pc' = IF left = {f} THEN "relint" ELSE "commit"
             \/ RollBack(written \cup {f})
       \/ RollBack(written) /\ UNCHANGED <<disk, written>>
  /\ UNCHANGED <<baseline, accepted, profile, catalog, args, read, failed,
                 summary, exit, edited, kept>>

(* rollback: a file that no longer holds the fixed text, or cannot be      *)
(* validated, keeps what it holds, and the error names the backup.         *)
ValidateUndo(f) ==
  /\ pc = "undo" /\ f \in left
  /\ \/ /\ disk[f] = Fixed(read[f])
        /\ pc' = "restore" /\ checked' = {f} /\ late' = FALSE
        /\ UNCHANGED <<left, kept>>
     \/ /\ left' = left \ {f} /\ kept' = kept \cup {f}
        /\ UNCHANGED <<pc, checked, late>>
  /\ UNCHANGED <<fileVars, args, read, failed, summary, exit, edited, written>>

Restore ==
  /\ pc = "restore" /\ pc' = "undo" /\ checked' = {} /\ late' = FALSE
  /\ \E f \in checked :
       /\ left' = left \ {f}
       /\ \/ /\ disk' = [disk EXCEPT ![f] = read[f]]
             /\ written' = written \ {f} /\ UNCHANGED kept
          \/ kept' = kept \cup {f} /\ UNCHANGED <<disk, written>>
  /\ UNCHANGED <<baseline, accepted, profile, catalog, args, read, failed,
                 summary, exit, edited>>

CommitFails ==
  /\ pc = "undo" /\ left = {}
  /\ Exit(2, "fix")
  /\ UNCHANGED fileVars

(* With all the files replaced, removing the backups may fail, and so may  *)
(* linting the fixed texts.                                                *)
Relint ==
  /\ pc = "relint"
  /\ \/ /\ read' = [f \in Files |-> Fixed(read[f])]
        /\ pc' = "write" /\ EndFix
        /\ UNCHANGED <<args, failed, summary, exit>>
     \/ Exit(2, "cleanup")
     \/ Exit(2, "relint")
  /\ UNCHANGED fileVars

(* write_baseline_file: the file is replaced in place, and may be left     *)
(* truncated by a write that fails.                                        *)
WriteOr(next) ==
  \/ /\ baseline' = Written(Found(read)) /\ accepted' = Found(read)
     /\ next
  \/ /\ baseline' \in {baseline, Torn} /\ UNCHANGED accepted
     /\ Exit(2, "baseline-write")

(* Seeded fault: a comparison creates the baseline it does not find.       *)
WriteBaselineMissing ==
  /\ pc = "write"
  /\ IF args.write \/ (args.compare /\ baseline.state = "absent")
     THEN WriteOr(pc' = "compare" /\ UNCHANGED runVars)
     ELSE pc' = "compare" /\ UNCHANGED <<baseline, accepted, runVars>>
  /\ UNCHANGED <<disk, profile, catalog>>

WriteBaseline ==
  /\ pc = "write"
  /\ IF args.write THEN WriteOr(pc' = "compare" /\ UNCHANGED runVars)
     ELSE pc' = "compare" /\ UNCHANGED <<baseline, accepted, runVars>>
  /\ UNCHANGED <<disk, profile, catalog>>

(* read_baseline_file rejects what it cannot parse, another profile and    *)
(* another catalog.                                                        *)
Rejected == \/ baseline.state = "torn"
            \/ baseline.state = "written"
               /\ (baseline.profile # profile \/ baseline.catalog # catalog)

CompareFails ==
  /\ pc = "compare" /\ (args.compare \/ args.refresh)
  /\ \/ Rejected /\ Exit(2, "baseline-rejected")
     \/ /\ baseline.state = "absent" /\ ~ args.refresh
        /\ Exit(2, "baseline-missing")
  /\ UNCHANGED fileVars

Compare ==
  /\ pc = "compare"
  /\ IF args.compare \/ args.refresh
     THEN /\ ~ Rejected /\ (baseline.state = "absent" => args.refresh)
          /\ LET current == Entries(Found(read)) IN
             summary' =
               [compared |-> TRUE,
                existing |-> Cardinality(current \cap baseline.entries),
                new      |-> Cardinality(current \ baseline.entries),
                stale    |-> Cardinality(baseline.entries \ current),
                previous |-> baseline]
     ELSE UNCHANGED summary
  /\ pc' = "refresh"
  /\ UNCHANGED <<fileVars, args, read, failed, exit, fixVars>>

RefreshBaseline ==
  /\ pc = "refresh"
  /\ IF args.refresh THEN WriteOr(pc' = "report" /\ UNCHANGED runVars)
     ELSE pc' = "report" /\ UNCHANGED <<baseline, accepted, runVars>>
  /\ UNCHANGED <<disk, profile, catalog>>

(* The findings that make the run fail: the statuses were set before any   *)
(* refresh replaced the file.                                              *)
Excused ==
  IF summary.compared /\ ~ args.show THEN summary.previous.entries ELSE {}

(* Seeded fault: a refresh excuses what it has just recorded.              *)
BlocksUnrefreshed ==
  \E e \in Entries(Found(read)) :
    \/ e[1][2] \in Always
    \/ e[1][2] \in Blocking /\ ~ args.refresh /\ e \notin Excused

Blocks ==
  \E e \in Entries(Found(read)) :
    \/ e[1][2] \in Always
    \/ e[1][2] \in Blocking /\ e \notin Excused

Report ==
  /\ pc = "report"
  /\ Exit(IF Blocks THEN 1 ELSE 0, "analysed")
  /\ UNCHANGED fileVars

(* Standard output: a closed pipe ends the run with 0, another error with  *)
(* 2.                                                                      *)
ReportFails ==
  /\ pc = "report"
  /\ \/ Exit(0, "pipe")
     \/ Exit(2, "output")
  /\ UNCHANGED fileVars

----------------------------------------------------------------------------
(* The surroundings                                                        *)

(* The steps of a fix, between which others edit the files.                *)
Fixing == {"stage", "commit", "replace", "undo", "restore", "relint"}

(* An edit after the files were read and fixed is one between two runs.    *)
Edit(f) ==
  /\ pc \in {"idle", "read"} \cup Fixing
  /\ disk' \in {[disk EXCEPT ![f] = t] : t \in Texts \ {disk[f]}}
  /\ edited' = IF pc = "idle" THEN edited ELSE edited \cup {f}
  /\ late' = (late \/ f \in checked)
  /\ UNCHANGED <<baseline, accepted, profile, catalog, pc, args, read, failed,
                 summary, exit, left, checked, written, kept>>

SelectProfile ==
  /\ pc = "idle"
  /\ profile' \in Profiles
  /\ UNCHANGED <<disk, baseline, accepted, catalog, pc, runVars>>

Upgrade ==
  /\ pc = "idle"
  /\ catalog' \in {c \in Catalogs : c > catalog}
  /\ UNCHANGED <<disk, baseline, accepted, profile, pc, runVars>>

Next == \/ Start \/ (\E f \in Files : Read(f)) \/ ReadFails \/ BeginFix
        \/ (\E f \in Files : Stage(f) \/ Validate(f) \/ ValidateUndo(f))
        \/ Replace \/ Restore \/ CommitFails \/ Relint
        \/ WriteBaseline \/ CompareFails \/ Compare \/ RefreshBaseline
        \/ Report \/ ReportFails
        \/ (\E f \in Files : Edit(f)) \/ SelectProfile \/ Upgrade

Spec == Init /\ [][Next]_vars

----------------------------------------------------------------------------
(* Properties                                                              *)

(* Type invariant.                                                         *)
TypeOK ==
  /\ disk \in [Files -> Texts]
  /\ baseline.state \in {"absent", "torn", "written"}
  /\ baseline.profile \in Profiles \cup {"none"}
  /\ baseline.catalog \in Catalogs \cup {0}
  /\ baseline.entries \subseteq Slots
  /\ accepted \in [Identities -> Nat]
  /\ profile \in Profiles /\ catalog \in Catalogs /\ args \in Args
  /\ pc \in {"idle", "read", "write", "compare", "refresh", "report"} \cup Fixing
  /\ left \subseteq Files /\ checked \subseteq Files /\ edited \subseteq Files
  /\ written \subseteq Files /\ kept \subseteq Files /\ late \in BOOLEAN
  /\ read \in [Files -> Texts \cup {Unread}] /\ failed \in BOOLEAN
  /\ summary.existing \in Nat /\ summary.new \in Nat /\ summary.stale \in Nat
  /\ exit.code \in 0..2

Lesser(a, b) == IF a <= b THEN a ELSE b
Total(f) == Cardinality(UNION {{i} \X (1 .. f[i]) : i \in Identities})

(* The counts of a comparison are those of the two sets of findings, for   *)
(* each identity on its own: as many exist as both have, the rest of the   *)
(* new ones is new and the rest of the old ones stale, however equal       *)
(* findings are numbered.                                                  *)
CountsExact ==
  summary.compared /\ pc = "refresh" =>
    LET found  == Found(read)
        shared == [i \in Identities |-> Lesser(found[i], accepted[i])]
    IN  /\ summary.existing = Total(shared)
        /\ summary.new = Total(found) - Total(shared)
        /\ baseline.state = "written" =>
             summary.stale = Total(accepted) - Total(shared)

(* A run that ends well has no blocking finding beyond those of the        *)
(* baseline it compared with, as often as recorded there, under the same   *)
(* profile and catalog ("an incompatible policy is rejected rather than    *)
(* applied silently"); a refresh does not excuse what it records.          *)
NewFindingsBlock ==
  [][pc = "report" /\ exit' = [code |-> 0, why |-> "analysed"] =>
       /\ summary.compared => \/ summary.previous.state = "absent"
                              \/ /\ summary.previous.profile = profile
                                 /\ summary.previous.catalog = catalog
       /\ \A f \in Files, k \in Blocking \cup Always :
            LET recorded == {e \in summary.previous.entries : e[1] = <<f, k>>}
            IN  read[f][k] <= IF k \in Always \/ args.show THEN 0
                              ELSE Cardinality(recorded)]_vars

(* A step of the run replaces only a file that it has just validated, by   *)
(* its fixed text or, rolling back, by the text it was read as; it         *)
(* overwrites no edit but one made between the validation and the rename.  *)
EditsKept ==
  \A f \in Files : disk'[f] # disk[f] =>
    \/ disk[f] = read[f] /\ disk'[f] = Fixed(read[f])
    \/ disk[f] = Fixed(read[f]) /\ disk'[f] = read[f]
    \/ f \in checked /\ late /\ disk'[f] \in {read[f], Fixed(read[f])}

(* At the end of the fixes, a file nobody has edited since it was read     *)
(* holds the text that the report and the baseline are about, if all went  *)
(* well; what it held before, if they were not applied, unless the error   *)
(* names its backup; and its fixed text, if only what followed failed.     *)
EndsAsTold ==
  \A f \in Files \ edited :
    /\ pc' = "write" => disk'[f] = read'[f]
    /\ pc' = "idle" /\ exit'.why = "fix" =>
         \/ disk'[f] = read[f]
         \/ f \in kept /\ disk'[f] = Fixed(read[f])
    /\ pc' = "idle" /\ exit'.why \in {"cleanup", "relint"} =>
         disk'[f] = Fixed(read[f])

(* --fix, whatever others save meanwhile and whichever call fails: edits   *)
(* are kept, except in the moment between the validation of a file and its *)
(* replacement, and the files end as the exit of the run says.             *)
FixesAsTold == [][pc' # pc => EditsKept /\ EndsAsTold]_vars

(* The baseline only changes by a write that was asked for, and what is    *)
(* written by a run is what the run analysed ("Refresh is never            *)
(* implicit").                                                             *)
BaselineExplicit ==
  [][baseline' # baseline =>
       /\ args.write \/ args.refresh
       /\ baseline'.state = "written" =>
            baseline'.entries = Entries(Found(read))]_vars
=============================================================================
