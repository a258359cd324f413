-------------------------- MODULE SemanticAnalysis --------------------------
(***************************************************************************)
(* analyze_bitbake_with_runner of src/semantic.rs: a version query, a      *)
(* parse, one environment query per target and the requested sections of   *)
(* the build analysis.  `bitbake --graphviz` writes its artifacts into the *)
(* user's build directory, so run_dependency_graph saves what is there,    *)
(* runs BitBake, reads what is there and puts back what it saved.          *)
(*                                                                         *)
(* BitBake writes, or does not write, each artifact while it runs; it may  *)
(* fail, or be terminated and leave a descendant that goes on writing; any *)
(* file operation of bbtidy may fail.  What a command prints becomes        *)
(* diagnostics, whose severities the exit codes of `semantic` and of       *)
(* `check --semantic` are computed from.                                   *)
(***************************************************************************)
EXTENDS Naturals, Sequences

CONSTANTS
  Targets,      \* options.targets, a sequence
  Artifacts,    \* the file names run_dependency_graph looks at
  Sections,     \* the sections options.analysis may request
  MaxFaults     \* bound: failing file operations

ASSUME TargetsAssumption ==
  /\ Targets \in Seq(STRING)
  /\ \A i \in DOMAIN Targets :
       Targets[i] \notin {"none", "absent", "user", "torn"}
ASSUME SectionsAssumption ==
  Sections \subseteq {"graph", "dryrun", "inventory", "packages"}
ASSUME FaultsAssumption == MaxFaults \in Nat

VARIABLES
  requested,  \* options.analysis
  before,     \* the artifacts in the build directory when the analysis began
  disk,       \* the artifacts now: who wrote each
  saved,      \* previous_artifacts
  pc,         \* the next operation
  at,         \* the target of the current loop
  left,       \* the artifacts the current loop has not visited
  status,     \* how the last command ended
  collected,  \* artifact_result: the artifacts read, and whether one failed
  parsed,     \* parse_succeeded
  queried,    \* target_queries_succeeded
  results,    \* target_results
  graphs,     \* the graphs section
  sections,   \* how each finished section succeeded
  worst,      \* the severest of the report's diagnostics
  outcome,    \* what the analysis returned: a report or an error
  unrestored, \* history: the artifacts that a failed restoration left
  straggler,  \* the target whose terminated run left a descendant
  faults      \* failed file operations

inputVars  == <<requested, before>>
fileVars   == <<disk, saved, left, collected, unrestored, straggler, faults>>
answerVars == <<parsed, queried, results>>
reportVars == <<answerVars, graphs, sections, worst, outcome>>
vars == <<inputVars, pc, at, status, fileVars, reportVars>>

----------------------------------------------------------------------------
(* Who wrote an artifact: nobody, the user before the analysis, the graph  *)
(* run of a target, or a restoration that failed half way.                 *)
Runs    == DOMAIN Targets
Names   == {Targets[i] : i \in Runs}
Written == {"absent", "user", "torn"} \cup Names

NothingRead == [files |-> [f \in {} |-> 0], failed |-> FALSE]

(* SemanticSeverity, debug and note as one; Silent is: no diagnostic.      *)
Silent  == 0
Note    == 1
Warning == 2
Error   == 3
Severities == Silent..Error

Statuses == {"none", "success", "failure", "error"}

Init ==
  /\ requested \in SUBSET Sections
  /\ Targets = <<>> => requested \subseteq {"inventory"}
  /\ before \in [Artifacts -> {"absent", "user"}]
  /\ disk = before
  /\ saved = [f \in Artifacts |-> "absent"]
  /\ pc = "version" /\ at = 1 /\ left = {} /\ status = "none"
  /\ collected = NothingRead
  /\ parsed = FALSE /\ queried = TRUE
  /\ results = <<>> /\ graphs = <<>> /\ sections = {}
  /\ worst = Silent /\ outcome = "none"
  /\ unrestored = {} /\ straggler = "none" /\ faults = 0

Fault == faults < MaxFaults /\ faults' = faults + 1

Return(value) == pc' = "done" /\ outcome' = value

(* A diagnostic of this severity joins the report.                         *)
Diagnose(severity) ==
  worst' = IF severity > worst THEN severity ELSE worst

----------------------------------------------------------------------------
(* The first commands; every command goes through the bounded runner, and  *)
(* a non-zero exit is a result where any other failure is an error.        *)

Version ==
  /\ pc = "version"
  /\ status' \in {"success", "failure", "error"}
  /\ IF status' = "success" THEN pc' = "parse" /\ UNCHANGED outcome
     ELSE Return(IF status' = "failure" THEN "no-version" ELSE "bitbake")
  /\ UNCHANGED <<at, worst, graphs, sections, inputVars, answerVars, fileVars>>

TargetResult(i, success, asked) ==
  [target |-> Targets[i], succeeded |-> success, queried |-> asked]

Unqueried == [i \in Runs |-> TargetResult(i, FALSE, FALSE)]

Parse ==
  /\ pc = "parse"
  /\ status' \in {"success", "failure", "error"}
  /\ parsed' = (status' = "success")
  /\ IF status' = "error" THEN Return("bitbake")
                             /\ UNCHANGED <<queried, results, worst>>
     ELSE /\ \E severity \in Severities : Diagnose(severity)
          /\ queried' = (parsed' \/ Targets = <<>>)
          /\ results' = IF parsed' THEN <<>> ELSE Unqueried
          /\ pc' = IF parsed' THEN "query" ELSE "report"
          /\ UNCHANGED outcome
  /\ UNCHANGED <<at, graphs, sections, inputVars, fileVars>>

(* Seeded fault: the last query decides for all of them.                   *)
QueryLastWins ==
  /\ pc = "query" /\ at <= Len(Targets)
  /\ status' \in {"success", "failure", "error"}
  /\ IF status' = "error"
     THEN Return("bitbake") /\ UNCHANGED <<at, queried, results, worst>>
     ELSE /\ \E severity \in Severities : Diagnose(severity)
          /\ queried' = (status' = "success")
          /\ results' =
               Append(results, TargetResult(at, status' = "success", TRUE))
          /\ at' = at + 1
          /\ UNCHANGED <<pc, outcome>>
  /\ UNCHANGED <<parsed, graphs, sections, inputVars, fileVars>>

Query ==
  /\ pc = "query" /\ at <= Len(Targets)
  /\ status' \in {"success", "failure", "error"}
  /\ IF status' = "error"
     THEN Return("bitbake") /\ UNCHANGED <<at, queried, results, worst>>
     ELSE /\ \E severity \in Severities : Diagnose(severity)
          /\ queried' = (queried /\ status' = "success")
          /\ results' =
               Append(results, TargetResult(at, status' = "success", TRUE))
          /\ at' = at + 1
          /\ UNCHANGED <<pc, outcome>>
  /\ UNCHANGED <<parsed, graphs, sections, inputVars, fileVars>>

----------------------------------------------------------------------------
(* run_build_analysis: the sections in the code's order                    *)

Enter(section) == pc' = section /\ at' = 1

BeginAnalysis ==
  /\ pc = "query" /\ at > Len(Targets)
  /\ Enter(IF requested = {} THEN "report" ELSE "graph")
  /\ UNCHANGED <<status, inputVars, reportVars, fileVars>>

(* The next target's graph, or the end of the section.                     *)
NextGraph ==
  /\ pc = "graph"
  /\ IF "graph" \in requested /\ at <= Len(Targets)
     THEN pc' = "snapshot" /\ left' = Artifacts /\ UNCHANGED sections
     ELSE /\ pc' = "dryrun" /\ UNCHANGED left
          /\ sections' = sections \cup
               {s \in {[name |-> "graph",
                        succeeded |-> \A i \in DOMAIN graphs :
                                        graphs[i].succeeded]} :
                  s.name \in requested}
  /\ UNCHANGED <<at, status, disk, saved, collected, unrestored, straggler, faults,
                 graphs, worst, outcome, inputVars, answerVars>>

(* The diagnostics of a section's command.  A failure is an error of its   *)
(* own only if the command printed no diagnostic, not even a note.         *)
DiagnoseEnd(success) ==
  \E severity \in Severities :
    Diagnose(IF ~success /\ severity = Silent THEN Error ELSE severity)

(* A section that is one command: `bitbake --dry-run` or `--show-versions`. *)
Section(name, next) ==
  /\ pc = name
  /\ IF name \notin requested
     THEN pc' = next /\ UNCHANGED <<status, sections, worst, outcome>>
     ELSE /\ status' \in {"success", "failure", "error"}
          /\ IF status' = "error" THEN Return("bitbake") /\ UNCHANGED <<sections, worst>>
             ELSE /\ DiagnoseEnd(status' = "success")
                  /\ sections' = sections \cup
                       {[name |-> name, succeeded |-> status' = "success"]}
                  /\ pc' = next /\ UNCHANGED outcome
  /\ UNCHANGED <<at, graphs, inputVars, answerVars, fileVars>>

(* Package summaries come from the environments already queried.           *)
Packages ==
  /\ pc = "packages"
  /\ sections' = sections \cup
       {s \in {[name |-> "packages",
                succeeded |-> \A i \in DOMAIN results : results[i].succeeded]} :
          s.name \in requested}
  /\ Diagnose(IF /\ "packages" \in requested
                 /\ \E i \in DOMAIN results : ~results[i].succeeded
              THEN Error ELSE Silent)
  /\ pc' = "report"
  /\ UNCHANGED <<at, status, graphs, outcome, inputVars, answerVars, fileVars>>

Report ==
  /\ pc = "report"
  /\ Return("report")
  /\ UNCHANGED <<at, status, worst, graphs, sections, inputVars, answerVars,
                 fileVars>>

----------------------------------------------------------------------------
(* run_dependency_graph.  Files are visited in any order.                  *)

(* previous_artifacts: a read that fails ends the analysis before the run. *)
Snapshot ==
  /\ pc = "snapshot"
  /\ \E f \in left :
       \/ /\ saved' = [saved EXCEPT ![f] = disk[f]]
          /\ left' = left \ {f}
          /\ pc' = IF left' = {} THEN "running" ELSE pc
          /\ UNCHANGED <<outcome, faults>>
       \/ /\ disk[f] # "absent" /\ Fault
          /\ Return("io")
          /\ UNCHANGED <<saved, left>>
  /\ UNCHANGED <<at, status, disk, collected, unrestored, straggler, worst,
                 graphs, sections, inputVars, answerVars>>

(* BitBake writes an artifact of the run.                                  *)
Emit(f) ==
  /\ pc = "running"
  /\ disk' = [disk EXCEPT ![f] = Targets[at]]
  /\ UNCHANGED <<pc, at, status, saved, left, collected, unrestored, straggler,
                 faults, inputVars, reportVars>>

(* Seeded fault: an error of the runner skips the restoration.             *)
EndRunDirtyError ==
  /\ pc = "running"
  /\ status' \in {"success", "failure", "error"}
  /\ straggler' \in {"none"} \cup {t \in {Targets[at]} : status' = "error"}
  /\ left' = Artifacts
  /\ collected' = NothingRead
  /\ IF status' = "error" THEN Return("bitbake")
     ELSE pc' = "collect" /\ UNCHANGED outcome
  /\ UNCHANGED <<at, disk, saved, unrestored, faults, worst, graphs, sections,
                 inputVars, answerVars>>

(* The run ends; terminating it may leave a descendant.                    *)
EndRun ==
  /\ pc = "running"
  /\ status' \in {"success", "failure", "error"}
  /\ straggler' \in {"none"} \cup {t \in {Targets[at]} : status' = "error"}
  /\ left' = Artifacts
  /\ collected' = NothingRead
  /\ pc' = IF status' = "error" THEN "restore" ELSE "collect"
  /\ UNCHANGED <<at, disk, saved, unrestored, faults, inputVars, reportVars>>

Straggle(f) ==
  /\ straggler # "none"
  /\ disk' = [disk EXCEPT ![f] = straggler]
  /\ UNCHANGED <<pc, at, status, saved, left, collected, unrestored, straggler,
                 faults, inputVars, reportVars>>

(* artifact_result: what is there is read; the first failure ends it.      *)
Collect ==
  /\ pc = "collect"
  /\ \E f \in left :
       \/ /\ collected' = IF disk[f] = "absent" THEN collected
                          ELSE [collected EXCEPT !.files =
                                  [g \in DOMAIN @ \cup {f} |->
                                     IF g = f THEN disk[f] ELSE @[g]]]
          /\ left' = IF left = {f} THEN Artifacts ELSE left \ {f}
          /\ pc' = IF left = {f} THEN "restore" ELSE pc
          /\ UNCHANGED faults
       \/ /\ disk[f] # "absent" /\ Fault
          /\ collected' = [collected EXCEPT !.failed = TRUE]
          /\ left' = Artifacts
          /\ pc' = "restore"
  /\ UNCHANGED <<at, status, disk, saved, unrestored, straggler, inputVars,
                 reportVars>>

(* Seeded fault: an artifact that did not exist before is kept.            *)
RestoreKeepingNew ==
  /\ pc = "restore"
  /\ \E f \in left :
       /\ disk' = IF saved[f] = "absent" THEN disk
                   ELSE [disk EXCEPT ![f] = saved[f]]
       /\ left' = left \ {f}
       /\ pc' = IF left' = {} THEN "assess" ELSE pc
  /\ UNCHANGED <<at, status, saved, collected, unrestored, straggler, faults,
                 inputVars, reportVars>>

(* restore_graph_artifacts; a write that fails may have truncated its file. *)
(* The first failure is returned in place of the error of the run or of    *)
(* the reads, as the error that any other failing file operation gives.    *)
Restore ==
  /\ pc = "restore"
  /\ \E f \in left :
       \/ /\ disk' = [disk EXCEPT ![f] = saved[f]]
          /\ left' = left \ {f}
          /\ pc' = IF left' = {} THEN "assess" ELSE pc
          /\ UNCHANGED <<outcome, unrestored, faults>>
       \/ /\ saved[f] # "absent" \/ disk[f] # "absent"
          /\ Fault
          /\ \/ UNCHANGED disk
             \/ saved[f] # "absent" /\ disk' = [disk EXCEPT ![f] = "torn"]
          /\ Return("io") /\ unrestored' = left
          /\ UNCHANGED left
  /\ UNCHANGED <<at, status, saved, collected, straggler, worst, graphs,
                 sections, inputVars, answerVars>>

(* The errors kept until the restoration was done, or the target's graph.  *)
Assess ==
  /\ pc = "assess"
  /\ IF status = "error" \/ collected.failed
     THEN /\ Return(IF status = "error" THEN "bitbake" ELSE "io")
          /\ UNCHANGED <<at, graphs, worst>>
     ELSE LET emitted == DOMAIN collected.files # {} IN
          /\ graphs' = Append(graphs,
               [target |-> Targets[at], artifacts |-> collected.files,
                succeeded |-> status = "success" /\ emitted])
          /\ IF status = "success" /\ ~emitted THEN Diagnose(Error)
             ELSE DiagnoseEnd(status = "success")
          /\ at' = at + 1
          /\ pc' = "graph"
          /\ UNCHANGED outcome
  /\ UNCHANGED <<status, sections, inputVars, answerVars, fileVars>>

----------------------------------------------------------------------------
Next == \/ Version \/ Parse \/ Query \/ BeginAnalysis \/ NextGraph
        \/ Section("dryrun", "inventory") \/ Section("inventory", "packages")
        \/ Packages \/ Report
        \/ Snapshot \/ EndRun \/ Collect \/ Restore \/ Assess
        \/ \E f \in Artifacts : Emit(f) \/ Straggle(f)

Spec == Init /\ [][Next]_vars

----------------------------------------------------------------------------
(* The exit codes.  A report ends `semantic` with 0 or 1 and, as findings  *)
(* that block at the default threshold, `check --semantic` too, if its     *)
(* inputs are otherwise clean; an error of the analysis ends both with 2.  *)

AnalysisSucceeded ==
  parsed /\ queried /\ (requested = {} \/ \A s \in sections : s.succeeded)

HasErrors == worst = Error

SemanticExit == IF outcome # "report" THEN 2
                ELSE IF AnalysisSucceeded /\ ~HasErrors THEN 0 ELSE 1

(* semantic_lint_diagnostics: the report's own diagnostics and, without an *)
(* error among them, one for a parse or a query that failed.               *)
Findings == {worst} \cup {n \in {Error} : ~HasErrors /\ ~(parsed /\ queried)}

CheckExit == IF outcome # "report" THEN 2
             ELSE IF \E n \in Findings : n >= Warning THEN 1 ELSE 0

----------------------------------------------------------------------------
(* Properties                                                              *)

Steps == {"version", "parse", "query", "graph", "snapshot", "running",
          "collect", "restore", "assess", "dryrun", "inventory", "packages",
          "report", "done"}

(* Type invariant.                                                         *)
TypeOK ==
  /\ requested \in SUBSET Sections
  /\ before \in [Artifacts -> {"absent", "user"}]
  /\ disk \in [Artifacts -> Written]
  /\ saved \in [Artifacts -> {"absent", "user"}]
  /\ pc \in Steps /\ at \in 1..Len(Targets) + 1 /\ left \subseteq Artifacts
  /\ status \in Statuses /\ worst \in Severities
  /\ DOMAIN collected.files \subseteq Artifacts /\ collected.failed \in BOOLEAN
  /\ parsed \in BOOLEAN /\ queried \in BOOLEAN
  /\ Len(results) <= Len(Targets) /\ Len(graphs) <= Len(Targets)
  /\ outcome \in {"none", "report", "no-version", "bitbake", "io"}
  /\ unrestored \subseteq Artifacts /\ straggler \in {"none"} \cup Names /\ faults \in 0..MaxFaults

(* However the analysis ends, the build directory's artifacts are as they  *)
(* were ("The command is read-only from bbtidy's perspective"), those      *)
(* excepted that a descendant of a terminated run still writes, and, when  *)
(* a restoring write failed, the ones that it and those after it were to   *)
(* restore.  Then the analysis ends with the error of a failing file       *)
(* operation, which does not say that artifacts are left: a report, and    *)
(* an error of BitBake's, always leave the directory as it was.            *)
BuildDirRestored ==
  pc = "done" /\ straggler = "none" =>
    \A f \in Artifacts : \/ disk[f] = before[f]
                         \/ outcome = "io" /\ f \in unrestored

(* No graph shows an artifact that the run for another target wrote, and   *)
(* none is saved as if it had been the user's.                             *)
TargetsKeptApart ==
  /\ \A i \in DOMAIN graphs : \A f \in DOMAIN graphs[i].artifacts :
       graphs[i].artifacts[f] \in {before[f], graphs[i].target}
  /\ pc \in {"running", "collect", "restore"} => saved = before

(* A report of success covers everything that was asked for: every target  *)
(* was queried successfully, every section is there, and every graph of    *)
(* every target has an artifact.                                           *)
SuccessIsComplete ==
  outcome = "report" /\ AnalysisSucceeded =>
    /\ \A i \in Runs : results[i].succeeded
    /\ {s.name : s \in sections} = requested
    /\ "graph" \in requested =>
         /\ Len(graphs) = Len(Targets)
         /\ \A i \in DOMAIN graphs : DOMAIN graphs[i].artifacts # {}

(* docs/beta-support-contract.md, "an explicit result for every requested  *)
(* target": one each, in the order requested, also after a failed parse.   *)
EveryTargetReported ==
  outcome = "report" =>
    /\ Len(results) = Len(Targets)
    /\ \A i \in DOMAIN results : /\ results[i].target = Targets[i]
                                  /\ results[i].queried = parsed

(* docs/beta-support-contract.md:278, "A non-zero BitBake parse or target  *)
(* query is reported as a semantic finding and returns exit code 1": also  *)
(* when BitBake says nothing, or another target's query printed the error. *)
(* Where the two commands disagree, BitBake printed a warning and all went *)
(* well, or only a section of the build analysis failed, and said so with  *)
(* notes: `check --semantic` then exits 0.                                 *)
FailureIsFound ==
  outcome = "report" =>
    /\ ~parsed \/ (\E i \in Runs : ~results[i].succeeded) => CheckExit = 1
    /\ SemanticExit = 0 => CheckExit = IF worst = Warning THEN 1 ELSE 0
    /\ CheckExit = 0 /\ SemanticExit = 1 =>
         /\ worst = Note
         /\ \E s \in sections : ~s.succeeded /\ s.name # "packages"

(* What a report says is explicit for every target, a success is complete, *)
(* and the exit code shows a failure.                                      *)
ReportComplete == SuccessIsComplete /\ EveryTargetReported /\ FailureIsFound

=============================================================================
