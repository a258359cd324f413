----------------------- MODULE SemanticAnalysisProofs -----------------------
(***************************************************************************)
(* Proofs, for every list of targets, set of artifacts and number of       *)
(* failing file operations, of what SemanticAnalysis promises: the build   *)
(* directory is restored, the graphs of the targets are kept apart, and    *)
(* the report and the exit codes show what happened.                       *)
(***************************************************************************)
EXTENDS SemanticAnalysis, SequenceTheorems, TLAPS

(* The steps of run_dependency_graph, and those of the sections after it.  *)
GraphSteps   == {"snapshot", "running", "collect", "restore", "assess"}
SectionSteps == {"dryrun", "inventory", "packages"}
SectionNames == {"graph", "dryrun", "inventory", "packages"}

Reported == pc = "report" \/ (pc = "done" /\ outcome = "report")

FilesRead == UNION {[D -> Written] : D \in SUBSET Artifacts}
Graph == [target : Names, artifacts : FilesRead, succeeded : BOOLEAN]

Typed ==
  /\ TypeOK
  /\ results \in Seq([target : Names, succeeded : BOOLEAN, queried : BOOLEAN])
  /\ graphs \in Seq(Graph)
  /\ collected \in [files : FilesRead, failed : BOOLEAN]
  /\ sections \subseteq [name : SectionNames, succeeded : BOOLEAN]

(* An analysis that has returned takes no further step.                    *)
ReturnInv == outcome # "none" => pc = "done"

(* Only a run that ended the analysis leaves a descendant.                 *)
StragglerInv ==
  straggler # "none" => /\ pc \in {"restore", "assess", "done"}
                        /\ pc # "done" => status = "error"

(* What is saved is what the user had, and what is restored is it again.   *)
FilesInv ==
  /\ pc = "snapshot" => \A f \in Artifacts \ left : saved[f] = before[f]
  /\ pc \in {"running", "collect", "restore", "assess"} => saved = before
  /\ pc \in {"running", "collect"} =>
       \A f \in Artifacts : disk[f] \in {before[f], Targets[at]}
  /\ straggler = "none" =>
       /\ pc \notin {"running", "collect", "restore", "done"} => disk = before
       /\ pc = "restore" => \A f \in Artifacts \ left : disk[f] = before[f]
       /\ pc = "done" => \A f \in Artifacts : \/ disk[f] = before[f]
                                              \/ outcome = "io" /\ f \in unrestored

(* What was read belongs to the user or to the target of the run.          *)
ReadInv ==
  /\ pc \in {"collect", "restore", "assess"} =>
       \A f \in DOMAIN collected.files :
         collected.files[f] \in {before[f], Targets[at]}
  /\ \A i \in DOMAIN graphs : \A f \in DOMAIN graphs[i].artifacts :
       graphs[i].artifacts[f] \in {before[f], graphs[i].target}

(* One result per target; the queries succeeded if each of them did.       *)
ResultsInv ==
  /\ pc = "version" \/ pc = "parse" => at = 1 /\ results = <<>> /\ queried
  /\ pc \notin {"version", "parse", "report", "done"} => parsed
  /\ pc = "query" => Len(results) = at - 1
  /\ pc \in {"graph"} \cup GraphSteps \cup SectionSteps \/ Reported =>
       Len(results) = Len(Targets)
  /\ \A i \in DOMAIN results : /\ results[i].target = Targets[i]
                               /\ results[i].queried = parsed
  /\ parsed => (queried <=> \A i \in DOMAIN results : results[i].succeeded)

(* One graph per target, and a failed one has left a diagnostic.           *)
GraphsInv ==
  /\ pc \in {"version", "parse", "query"} => graphs = <<>>
  /\ pc \in {"graph"} \cup GraphSteps => Len(graphs) = at - 1
  /\ pc \in GraphSteps => at <= Len(Targets)
  /\ parsed /\ "graph" \in requested /\ (pc \in SectionSteps \/ Reported) =>
       Len(graphs) = Len(Targets)
  /\ \A i \in DOMAIN graphs :
       /\ graphs[i].succeeded => DOMAIN graphs[i].artifacts # {}
       /\ ~ graphs[i].succeeded => worst >= Note

(* The sections finished when this step is next.                           *)
Passed == CASE pc = "dryrun"    -> {"graph"}
            [] pc = "inventory" -> {"graph", "dryrun"}
            [] pc = "packages"  -> {"graph", "dryrun", "inventory"}
            [] pc \in {"report", "done"} -> SectionNames
            [] OTHER            -> {}

SectionsInv ==
  /\ \A s \in sections : s.name \in requested \cap Passed
  /\ parsed /\ (pc = "done" => outcome = "report") =>
       \A n \in requested \cap Passed : \E s \in sections : s.name = n
  /\ \A s \in sections :
       IF s.succeeded
       THEN s.name = "graph" => \A i \in DOMAIN graphs : graphs[i].succeeded
       ELSE IF s.name = "packages"
       THEN \E i \in DOMAIN results : ~ results[i].succeeded
       ELSE worst >= Note

AnalysisInv == /\ Typed /\ ReturnInv /\ StragglerInv /\ FilesInv /\ ReadInv /\ ResultsInv
               /\ GraphsInv /\ SectionsInv
USE DEF Runs, Names, Written, Silent, Note, Warning, Error, Severities, Statuses,
        Steps, GraphSteps, SectionSteps, SectionNames, inputVars, fileVars,
        answerVars, reportVars

----------------------------------------------------------------------------
(* The operators                                                           *)

(* The names of the targets are told apart from every other author.        *)
LEMMA TargetNames ==
  ASSUME NEW i \in Runs
  PROVE  Targets[i] \in Names /\ Targets[i] \notin {"none", "absent", "user", "torn"}
  BY TargetsAssumption

(* The report's severity never falls.                                      *)
LEMMA DiagnoseRaises ==
  ASSUME worst \in Severities, NEW severity \in Severities, Diagnose(severity)
  PROVE  worst' \in Severities /\ worst' >= worst /\ worst' >= severity
  BY DEF Diagnose

(* A section that fails leaves at least a note.                            *)
LEMMA EndDiagnosed ==
  ASSUME worst \in Severities, NEW ended, DiagnoseEnd(ended = "success")
  PROVE  /\ worst' \in Severities /\ worst' >= worst
         /\ ended # "success" => worst' >= Note
<1>1. PICK severity \in Severities :
        Diagnose(IF ended # "success" /\ severity = Silent THEN Error ELSE severity)
  BY DEF DiagnoseEnd
<1> DEFINE shown == IF ended # "success" /\ severity = Silent THEN Error ELSE severity
<1>2. shown \in Severities /\ (ended # "success" => shown >= Note)
  OBVIOUS
<1>3. Diagnose(shown)
  BY <1>1
<1> HIDE DEF shown
<1> QED
  BY <1>2, <1>3, DiagnoseRaises

(* What was read of the artifacts is a partial function.                   *)
LEMMA FilesReadTyped ==
  /\ \A D \in SUBSET Artifacts : [D -> Written] \subseteq FilesRead
  /\ \A g \in FilesRead : /\ DOMAIN g \subseteq Artifacts
                          /\ \A f \in DOMAIN g : g[f] \in Written
  BY DEF FilesRead

(* Before a collection nothing was read.                                   *)
LEMMA NothingReadTyped ==
  /\ NothingRead \in [files : FilesRead, failed : BOOLEAN]
  /\ DOMAIN NothingRead.files = {}
<1>1. [f \in {} |-> 0] \in [{} -> Written] /\ {} \in SUBSET Artifacts
  OBVIOUS
<1> QED
  BY <1>1, FilesReadTyped DEF NothingRead

(* The steps outside run_dependency_graph.                                 *)
Outside == \/ Version \/ Parse \/ Query \/ BeginAnalysis \/ NextGraph
           \/ Section("dryrun", "inventory") \/ Section("inventory", "packages")
           \/ Packages \/ Report

(* The steps, split into those of a graph run and those outside it.        *)
LEMMA AnalysisSteps ==
  ASSUME [Next]_vars
  PROVE  \/ UNCHANGED vars
         \/ Outside
         \/ Snapshot \/ EndRun \/ Collect \/ Restore \/ Assess
         \/ \E f \in Artifacts : Emit(f) \/ Straggle(f)
  BY DEF Next, Outside

(* Outside a graph run no step touches a file.                             *)
LEMMA OutsideFiles == Outside => UNCHANGED <<inputVars, disk, saved, collected,
                                             unrestored, straggler, faults>>
  BY DEF Outside, Version, Parse, Query, BeginAnalysis, NextGraph, Section,
     Packages, Report

(* The steps that only touch files.                                        *)
LEMMA FileSteps ==
  ASSUME \/ Snapshot \/ EndRun \/ Collect \/ Restore
         \/ \E f \in Artifacts : Emit(f) \/ Straggle(f)
  PROVE  /\ UNCHANGED <<inputVars, at, answerVars, graphs, sections, worst>>
         /\ \/ pc' = pc /\ UNCHANGED outcome
            \/ pc \in GraphSteps /\ pc' \in GraphSteps /\ UNCHANGED outcome
            \/ pc \in GraphSteps /\ pc' = "done" /\ outcome' = "io"
  BY DEF Snapshot, EndRun, Collect, Restore, Emit, Straggle, Return

----------------------------------------------------------------------------
(* A step that returns a result ends the analysis.                         *)
LEMMA ReturnKept ==
  ASSUME ReturnInv, [Next]_vars
  PROVE  ReturnInv'
<1> USE DEF ReturnInv
<1>1. CASE UNCHANGED vars
  BY <1>1 DEF vars
<1>2. CASE Outside
  BY <1>2 DEF Outside, Version, Parse, Query, BeginAnalysis, NextGraph, Section,
     Packages, Report, Return
<1>3. CASE Snapshot \/ EndRun \/ Collect \/ Restore \/ Assess
           \/ \E f \in Artifacts : Emit(f) \/ Straggle(f)
  BY <1>3 DEF Snapshot, EndRun, Collect, Restore, Assess, Emit, Straggle, Return
<1> QED
  BY <1>1, <1>2, <1>3, AnalysisSteps

(* Only a terminated run leaves a descendant, and it ends the analysis.    *)
LEMMA StragglerKept ==
  ASSUME StragglerInv, [Next]_vars
  PROVE  StragglerInv'
<1> USE DEF StragglerInv
<1>1. CASE UNCHANGED vars
  BY <1>1 DEF vars
<1>2. CASE Outside
  BY <1>2 DEF Outside, Version, Parse, Query, BeginAnalysis, NextGraph, Section,
     Packages, Report
<1>3. CASE Snapshot \/ EndRun \/ Collect \/ Restore \/ Assess
           \/ \E f \in Artifacts : Emit(f) \/ Straggle(f)
  BY <1>3 DEF Snapshot, EndRun, Collect, Restore, Assess, Emit, Straggle, Return
<1> QED
  BY <1>1, <1>2, <1>3, AnalysisSteps

(* The artifacts are saved as the user left them and put back as saved.    *)
LEMMA FilesKept ==
  ASSUME Typed, StragglerInv, FilesInv, GraphsInv, [Next]_vars
  PROVE  FilesInv'
<1> USE DEF FilesInv
<1>1. CASE UNCHANGED vars
  BY <1>1 DEF vars
<1>2. /\ before \in [Artifacts -> {"absent", "user"}]
      /\ disk \in [Artifacts -> Written]
      /\ saved \in [Artifacts -> {"absent", "user"}]
      /\ left \subseteq Artifacts
  BY DEF Typed, TypeOK
<1>3. CASE Outside
  <2>1. UNCHANGED <<before, disk, saved, straggler>>
    BY <1>3, OutsideFiles
  <2>2. pc \notin GraphSteps /\ pc # "done" /\ pc' \notin {"running", "collect", "restore", "assess"}
    BY <1>3
    DEF Outside, Version, Parse, Query, BeginAnalysis, NextGraph, Section, Packages,
        Report, Return, Enter
  <2>3. pc' = "snapshot" => left' = Artifacts
    BY <1>3
    DEF Outside, Version, Parse, Query, BeginAnalysis, NextGraph, Section, Packages,
        Report, Return, Enter
  <2> QED
    BY <2>1, <2>2, <2>3
<1>4. CASE Snapshot
  <2>1. CASE pc' = "running"
    <3>1. PICK f \in left : /\ saved' = [saved EXCEPT ![f] = disk[f]]
                            /\ left \ {f} = {}
      BY <1>4, <2>1 DEF Snapshot, Return
    <3>2. disk = before /\ UNCHANGED <<before, disk, straggler, at>>
      BY <1>4 DEF Snapshot, StragglerInv
    <3>3. \A g \in Artifacts : saved'[g] = before[g]
      BY <1>2, <1>4, <3>1, <3>2 DEF Snapshot
    <3>4. saved' = before'
      BY <1>2, <3>1, <3>2, <3>3
    <3> QED
      BY <2>1, <3>2, <3>4
  <2>2. CASE pc' # "running"
    BY <1>2, <1>4, <2>2 DEF Snapshot, Return, StragglerInv
  <2> QED
    BY <2>1, <2>2
<1>5. CASE EndRun
  BY <1>2, <1>5 DEF EndRun, StragglerInv
<1>6. CASE Collect
  BY <1>2, <1>6 DEF Collect, StragglerInv
<1>7. CASE Restore
  <2>1. UNCHANGED <<before, saved, straggler>> /\ pc' \in {"restore", "assess", "done"}
        /\ (pc' = "done" => outcome' = "io" /\ unrestored' = left)
    BY <1>7 DEF Restore, Return
  <2>2. CASE pc' # "done"
    <3>1. PICK f \in left : /\ disk' = [disk EXCEPT ![f] = saved[f]]
                            /\ left' = left \ {f}
                            /\ pc' = IF left' = {} THEN "assess" ELSE pc
      BY <1>7, <2>2 DEF Restore, Return
    <3>2. straggler = "none" => \A g \in Artifacts \ left' : disk'[g] = before[g]
      BY <1>2, <1>7, <3>1 DEF Restore
    <3>3. straggler = "none" /\ pc' = "assess" => disk' = before
      BY <1>2, <1>7, <3>1, <3>2 DEF Restore
    <3> QED
      BY <1>7, <2>1, <2>2, <3>2, <3>3 DEF Restore
  <2>3. CASE pc' = "done"
    <3>1. pc = "restore" /\ \A g \in Artifacts \ left : disk'[g] = disk[g]
      BY <1>2, <1>7, <2>1, <2>3 DEF Restore
    <3> QED
      BY <2>1, <2>3, <3>1
  <2> QED
    BY <2>2, <2>3
<1>8. CASE Assess
  <2>1. UNCHANGED <<before, disk, saved, straggler>> /\ pc' \in {"graph", "done"}
        /\ pc = "assess"
    BY <1>8 DEF Assess, Return
  <2> QED
    BY <2>1
<1>9. ASSUME NEW f \in Artifacts, Emit(f) PROVE FilesInv'
  BY <1>2, <1>9 DEF Emit, StragglerInv
<1>10. ASSUME NEW f \in Artifacts, Straggle(f) PROVE FilesInv'
  BY <1>2, <1>10 DEF Straggle, StragglerInv
<1> QED
  BY <1>1, <1>3, <1>4, <1>5, <1>6, <1>7, <1>8, <1>9, <1>10, AnalysisSteps
(* What a graph shows was there before or written by its own run.          *)
LEMMA ReadKept ==
  ASSUME Typed, StragglerInv, FilesInv, ReadInv, GraphsInv, [Next]_vars
  PROVE  ReadInv'
<1> USE DEF ReadInv
<1>1. CASE UNCHANGED vars
  BY <1>1 DEF vars
<1>2. CASE Outside
  <2>1. UNCHANGED <<before, graphs>>
    BY <1>2, OutsideFiles
    DEF Outside, Version, Parse, Query, BeginAnalysis, NextGraph, Section, Packages,
        Report
  <2>2. pc' \notin {"collect", "restore", "assess"}
    BY <1>2
    DEF Outside, Version, Parse, Query, BeginAnalysis, NextGraph, Section, Packages,
        Report, Return, Enter
  <2> QED
    BY <2>1, <2>2
<1>3. CASE Snapshot \/ Restore \/ \E f \in Artifacts : Emit(f) \/ Straggle(f)
  BY <1>3 DEF Snapshot, Restore, Emit, Straggle, Return
<1>4. CASE EndRun
  BY <1>4, NothingReadTyped DEF EndRun
<1>5. CASE Collect
  <2>1. UNCHANGED <<before, graphs, at, saved, disk>>
        /\ pc = "collect"
    BY <1>5 DEF Collect
  <2>2. CASE collected'.files = collected.files
    BY <2>1, <2>2
  <2>3. CASE collected'.files # collected.files
    <3>1. PICK f \in left :
            collected' = [collected EXCEPT !.files =
                            [g \in DOMAIN @ \cup {f} |->
                               IF g = f THEN disk[f] ELSE @[g]]]
      BY <1>5, <2>3 DEF Collect, Typed
    <3> DEFINE read == [g \in DOMAIN collected.files \cup {f} |->
                          IF g = f THEN disk[f] ELSE collected.files[g]]
    <3>2. collected'.files = read
      BY <3>1 DEF Typed
    <3>3. disk[f] \in {before[f], Targets[at]}
      BY <2>1 DEF Typed, TypeOK, FilesInv
    <3>4. \A g \in DOMAIN read : read[g] \in {before[g], Targets[at]}
      BY <2>1, <3>3
    <3> QED
      BY <2>1, <3>2, <3>4
  <2> QED
    BY <2>2, <2>3
<1>6. CASE Assess
  <2>1. UNCHANGED before /\ pc' \notin {"collect", "restore", "assess"}
    BY <1>6 DEF Assess, Return
  <2>2. CASE UNCHANGED graphs
    BY <2>1, <2>2
  <2>3. CASE ~ UNCHANGED graphs
    <3> DEFINE graph == [target |-> Targets[at], artifacts |-> collected.files,
                         succeeded |-> status = "success"
                                         /\ DOMAIN collected.files # {}]
    <3>1. graphs' = Append(graphs, graph)
      BY <1>6, <2>3 DEF Assess
    <3>2. \A f \in DOMAIN graph.artifacts :
            graph.artifacts[f] \in {before[f], graph.target}
      BY <1>6 DEF Assess
    <3> HIDE DEF graph
    <3>3. \A i \in DOMAIN graphs' :
            (i \in DOMAIN graphs /\ graphs'[i] = graphs[i]) \/ graphs'[i] = graph
      BY <3>1 DEF Typed
    <3> QED
      BY <2>1, <3>2, <3>3
  <2> QED
    BY <2>2, <2>3
<1> QED
  BY <1>1, <1>2, <1>3, <1>4, <1>5, <1>6, AnalysisSteps

(* The results of the queries.                                             *)
LEMMA ResultsKept ==
  ASSUME Typed, ResultsInv, GraphsInv, [Next]_vars
  PROVE  ResultsInv'
<1> USE DEF ResultsInv, Reported
<1>1. CASE UNCHANGED vars
  BY <1>1 DEF vars
<1>2. CASE Version
  BY <1>2 DEF Version, Return
<1>3. CASE Parse
  <2>1. CASE status' = "error"
    BY <1>3, <2>1 DEF Parse, Return
  <2>2. CASE status' = "success"
    <3>1. /\ pc = "parse" /\ pc' = "query" /\ at' = at /\ results' = <<>>
          /\ queried' = TRUE
      BY <1>3, <2>2 DEF Parse
    <3>2. Len(<<>>) = 0 /\ DOMAIN results' = {}
      BY <3>1
    <3>3. parsed'
      BY <1>3, <2>2 DEF Parse
    <3> QED
      BY <3>1, <3>2, <3>3
  <2>3. CASE status' = "failure"
    <3>1. /\ results' = Unqueried /\ parsed' = FALSE /\ pc' = "report"
      BY <1>3, <2>3 DEF Parse
    <3>2. /\ Len(results') = Len(Targets) /\ DOMAIN results' = Runs
          /\ \A i \in Runs : /\ results'[i].target = Targets[i]
                             /\ results'[i].queried = FALSE
      BY <3>1, TargetsAssumption DEF Unqueried, TargetResult
    <3> QED
      BY <3>1, <3>2
  <2> QED
    BY <1>3, <2>1, <2>2, <2>3 DEF Parse
<1>4. CASE Query
  <2>1. CASE status' = "error"
    BY <1>4, <2>1 DEF Query, Return
  <2>2. CASE status' # "error"
    <3> DEFINE answer == TargetResult(at, status' = "success", TRUE)
    <3>1. /\ pc = "query" /\ pc' = "query" /\ at' = at + 1 /\ at <= Len(Targets)
          /\ results' = Append(results, answer) /\ parsed' = parsed /\ parsed
          /\ queried' = (queried /\ status' = "success")
      BY <1>4, <2>2 DEF Query
    <3>2. /\ answer.target = Targets[at] /\ answer.queried = TRUE
          /\ answer.succeeded = (status' = "success")
      BY DEF TargetResult
    <3> HIDE DEF answer
    <3>3. Len(results) = at - 1 /\ at \in Nat
      BY <3>1 DEF Typed, TypeOK
    <3>4. /\ Len(results') = at' - 1 /\ DOMAIN results' = 1..at
          /\ DOMAIN results = 1..(at - 1)
          /\ results'[at] = answer
          /\ \A i \in 1..(at - 1) : results'[i] = results[i]
      BY <3>1, <3>3 DEF Typed
    <3>5. /\ DOMAIN results' = DOMAIN results \cup {at}
          /\ \A i \in DOMAIN results : results'[i] = results[i]
      BY <3>3, <3>4
    <3>6. (\A i \in DOMAIN results' : results'[i].succeeded)
            <=> (\A i \in DOMAIN results : results[i].succeeded) /\ answer.succeeded
      BY <3>4, <3>5
    <3>7. queried' <=> \A i \in DOMAIN results' : results'[i].succeeded
      BY <3>1, <3>2, <3>6
    <3>8. ASSUME NEW i \in DOMAIN results'
          PROVE  results'[i].target = Targets[i] /\ results'[i].queried = parsed'
      <4>1. CASE i = at
        <5>1. parsed = TRUE
          BY <3>1 DEF Typed, TypeOK
        <5> QED
          BY <3>1, <3>2, <3>4, <4>1, <5>1
      <4>2. CASE i # at
        BY <3>1, <3>5, <4>2
      <4> QED
        BY <4>1, <4>2
    <3> QED
      BY <3>1, <3>4, <3>7, <3>8
  <2> QED
    BY <2>1, <2>2
<1>5. CASE BeginAnalysis
  <2>1. Len(results) = Len(Targets)
    BY <1>5, TargetsAssumption DEF BeginAnalysis, Typed, TypeOK
  <2>2. UNCHANGED <<results, parsed, queried, outcome>>
        /\ pc' \in {"report", "graph"} /\ pc = "query"
    BY <1>5 DEF BeginAnalysis, Enter
  <2> QED
    BY <2>1, <2>2
<1>6. CASE NextGraph \/ Section("dryrun", "inventory")
           \/ Section("inventory", "packages") \/ Packages \/ Report \/ Assess
  BY <1>6 DEF NextGraph, Section, Packages, Report, Assess, Return
<1>7. CASE \/ Snapshot \/ EndRun \/ Collect \/ Restore
           \/ \E f \in Artifacts : Emit(f) \/ Straggle(f)
  BY <1>7, FileSteps
<1> QED
  BY <1>1, <1>2, <1>3, <1>4, <1>5, <1>6, <1>7, AnalysisSteps DEF Outside
(* No step makes the report less severe.                                   *)
LEMMA SeverityRises ==
  ASSUME Typed, [Next]_vars
  PROVE  worst' \in Severities /\ worst' >= worst
<1>1. worst \in Severities
  BY DEF Typed, TypeOK
<1>2. CASE UNCHANGED worst
  BY <1>1, <1>2
<1>3. CASE Parse \/ Query
  <2>1. UNCHANGED worst \/ \E severity \in Severities : Diagnose(severity)
    BY <1>3 DEF Parse, Query
  <2> QED
    BY <1>1, <2>1, DiagnoseRaises
<1>4. ASSUME NEW name, NEW next, Section(name, next)
      PROVE  worst' \in Severities /\ worst' >= worst
  <2>1. UNCHANGED worst \/ DiagnoseEnd(status' = "success")
    BY <1>4 DEF Section
  <2> QED
    BY <1>1, <2>1, EndDiagnosed
<1>5. CASE Packages
  <2>1. \E severity \in Severities : Diagnose(severity)
    BY <1>5 DEF Packages
  <2> QED
    BY <1>1, <2>1, DiagnoseRaises
<1>6. CASE Assess
  <2>1. UNCHANGED worst \/ Diagnose(Error) \/ DiagnoseEnd(status = "success")
    BY <1>6 DEF Assess
  <2> QED
    BY <1>1, <2>1, EndDiagnosed, DiagnoseRaises
<1>7. UNCHANGED vars \/ Version \/ BeginAnalysis \/ NextGraph \/ Report
        => UNCHANGED worst
  BY DEF vars, Version, BeginAnalysis, NextGraph, Report
<1> QED
  BY <1>2, <1>3, <1>4, <1>5, <1>6, <1>7, AnalysisSteps, FileSteps DEF Outside

(* The graphs.                                                             *)
LEMMA GraphsKept ==
  ASSUME Typed, ResultsInv, GraphsInv, [Next]_vars
  PROVE  GraphsInv'
<1> USE DEF Reported
<1>1. worst \in Severities /\ worst' \in Severities /\ worst' >= worst
  BY SeverityRises DEF Typed, TypeOK
<1>2. ASSUME UNCHANGED graphs
      PROVE  \A i \in DOMAIN graphs' :
               /\ graphs'[i].succeeded => DOMAIN graphs'[i].artifacts # {}
               /\ ~ graphs'[i].succeeded => worst' >= Note
  BY <1>1, <1>2 DEF GraphsInv
<1>3. CASE UNCHANGED vars
  BY <1>3 DEF vars, GraphsInv
<1>4. CASE Version \/ Parse \/ Query
  BY <1>2, <1>4 DEF Version, Parse, Query, Return, GraphsInv, ResultsInv
<1>5. CASE BeginAnalysis
  <2>1. /\ UNCHANGED <<graphs, parsed, requested>> /\ graphs = <<>> /\ at' = 1
        /\ pc' = IF requested = {} THEN "report" ELSE "graph"
    BY <1>5 DEF BeginAnalysis, Enter, GraphsInv
  <2> QED
    BY <1>2, <2>1 DEF GraphsInv
<1>6. CASE NextGraph
  <2>1. at \in 1..Len(Targets) + 1 /\ Len(Targets) \in Nat
    BY TargetsAssumption DEF Typed, TypeOK
  <2>2. UNCHANGED <<graphs, at, parsed, requested, outcome>> /\ pc = "graph"
    BY <1>6 DEF NextGraph
  <2> QED
    BY <1>2, <1>6, <2>1, <2>2 DEF NextGraph, GraphsInv
<1>7. CASE Section("dryrun", "inventory") \/ Section("inventory", "packages")
           \/ Packages \/ Report
  BY <1>2, <1>7 DEF Section, Packages, Report, Return, GraphsInv
<1>8. CASE \/ Snapshot \/ EndRun \/ Collect \/ Restore
           \/ \E f \in Artifacts : Emit(f) \/ Straggle(f)
  <2>1. UNCHANGED <<at, graphs, parsed, requested>>
    BY <1>8, FileSteps
  <2> QED
    BY <1>2, <1>8, <2>1, FileSteps DEF GraphsInv
<1>9. CASE Assess
  <2>1. CASE UNCHANGED graphs
    BY <1>2, <1>9, <2>1 DEF Assess, Return, GraphsInv, Typed
  <2>2. CASE ~ UNCHANGED graphs
    <3> DEFINE emitted == DOMAIN collected.files # {}
               graph == [target |-> Targets[at], artifacts |-> collected.files,
                         succeeded |-> status = "success" /\ emitted]
    <3>1. /\ graphs' = Append(graphs, graph) /\ at' = at + 1 /\ pc' = "graph"
          /\ pc = "assess"
      BY <1>9, <2>2 DEF Assess
    <3>2. graph.succeeded => DOMAIN graph.artifacts # {}
      OBVIOUS
    <3>3. ~ graph.succeeded => worst' >= Note
      <4>1. \/ status = "success" /\ ~ emitted /\ Diagnose(Error)
            \/ ~ (status = "success" /\ ~ emitted) /\ DiagnoseEnd(status = "success")
        BY <1>9, <2>2 DEF Assess
      <4>2. CASE status = "success" /\ ~ emitted
        <5>1. Diagnose(Error) /\ Error \in Severities
          BY <4>1, <4>2
        <5> QED
          BY <1>1, <5>1, DiagnoseRaises
      <4>3. CASE ~ (status = "success" /\ ~ emitted)
        <5>1. status # "success" => worst' >= Note
          BY <1>1, <4>1, <4>3, EndDiagnosed
        <5> QED
          BY <4>3, <5>1
      <4> QED
        BY <4>2, <4>3
    <3> HIDE DEF graph
    <3>4. /\ Len(graphs') = Len(graphs) + 1
          /\ DOMAIN graphs' = DOMAIN graphs \cup {Len(graphs) + 1}
          /\ graphs'[Len(graphs) + 1] = graph
          /\ \A i \in DOMAIN graphs : graphs'[i] = graphs[i]
      BY <3>1 DEF Typed
    <3>5. \A i \in DOMAIN graphs' :
            /\ graphs'[i].succeeded => DOMAIN graphs'[i].artifacts # {}
            /\ ~ graphs'[i].succeeded => worst' >= Note
      BY <1>1, <3>2, <3>3, <3>4 DEF GraphsInv
    <3>6. Len(graphs') = at' - 1
      BY <3>1, <3>4 DEF GraphsInv, Typed, TypeOK
    <3> QED
      BY <3>1, <3>5, <3>6 DEF GraphsInv
  <2> QED
    BY <2>1, <2>2
<1> QED
  BY <1>3, <1>4, <1>5, <1>6, <1>7, <1>8, <1>9, AnalysisSteps DEF Outside

(* The sections.                                                           *)
LEMMA SectionsKept ==
  ASSUME Typed, ResultsInv, GraphsInv, SectionsInv, [Next]_vars
  PROVE  SectionsInv'
<1>1. worst \in Severities /\ worst' \in Severities /\ worst' >= worst
  BY SeverityRises DEF Typed, TypeOK
<1>2. CASE UNCHANGED vars
  BY <1>2 DEF vars, SectionsInv, Passed
<1>3. CASE Version \/ Parse \/ Query \/ BeginAnalysis
  <2>1. sections = {} /\ UNCHANGED <<sections, requested>>
    BY <1>3 DEF Version, Parse, Query, BeginAnalysis, SectionsInv, Passed
  <2>2. parsed' /\ (pc' = "done" => outcome' = "report") =>
          requested \cap Passed' = {}
    BY <1>3 DEF Version, Parse, Query, BeginAnalysis, Enter, Return, Passed
  <2> QED
    BY <2>1, <2>2 DEF SectionsInv
<1>4. CASE Report
  <2>1. /\ UNCHANGED <<requested, parsed, sections, graphs, results, worst>>
        /\ Passed = SectionNames /\ Passed' = SectionNames /\ pc = "report"
    BY <1>4 DEF Report, Return, Passed
  <2> QED
    BY <2>1 DEF SectionsInv
<1>5. CASE \/ Snapshot \/ EndRun \/ Collect \/ Restore \/ Assess
           \/ \E f \in Artifacts : Emit(f) \/ Straggle(f)
  <2>1. CASE pc' = pc
    BY <1>1, <1>5, <2>1
    DEF Snapshot, EndRun, Collect, Restore, Assess, Emit, Straggle, Return,
        SectionsInv, Passed
  <2>2. CASE pc' # pc
    <3>1. /\ UNCHANGED <<sections, requested>> /\ pc \in GraphSteps
          /\ pc' \in {"graph"} \cup GraphSteps \/ (pc' = "done" /\ outcome' # "report")
      BY <1>5, <2>2
      DEF Snapshot, EndRun, Collect, Restore, Assess, Emit, Straggle, Return
    <3>2. sections = {}
      BY <3>1 DEF SectionsInv, Passed
    <3> QED
      BY <3>1, <3>2 DEF SectionsInv, Passed
  <2> QED
    BY <2>1, <2>2
<1>6. CASE NextGraph
  <2>1. /\ UNCHANGED <<requested, parsed, graphs, results, worst>>
        /\ pc = "graph" /\ sections = {}
    BY <1>6 DEF NextGraph, SectionsInv, Passed
  <2>2. CASE pc' = "snapshot"
    BY <1>6, <2>1, <2>2 DEF NextGraph, SectionsInv, Passed
  <2>3. CASE pc' # "snapshot"
    <3> DEFINE section == [name |-> "graph",
                           succeeded |-> \A i \in DOMAIN graphs : graphs[i].succeeded]
    <3>1. /\ pc' = "dryrun" /\ Passed' = {"graph"}
          /\ sections' = {s \in {section} : s.name \in requested}
      BY <1>6, <2>1, <2>3 DEF NextGraph, Passed
    <3>2. /\ section.name = "graph"
          /\ section.succeeded <=> \A i \in DOMAIN graphs : graphs[i].succeeded
      OBVIOUS
    <3>3. ~ section.succeeded => worst >= Note
      BY <3>2 DEF GraphsInv
    <3> HIDE DEF section
    <3> QED
      BY <2>1, <3>1, <3>2, <3>3 DEF SectionsInv
  <2> QED
    BY <2>2, <2>3
<1>7. ASSUME NEW name \in {"dryrun", "inventory"}, NEW next, Section(name, next),
             <<name, next>> \in {<<"dryrun", "inventory">>,
                                 <<"inventory", "packages">>}
      PROVE  SectionsInv'
  <2>1. /\ UNCHANGED <<requested, parsed, graphs, results>> /\ pc = name
        /\ Passed \subseteq Passed'
        /\ pc' # "done" => Passed' = Passed \cup {name}
    BY <1>7 DEF Section, Passed, Return
  <2>2. CASE name \notin requested \/ status' = "error"
    <3>1. UNCHANGED <<sections, worst>> /\ (name \in requested => pc' = "done" /\ outcome' # "report")
          /\ (name \notin requested => pc' # "done")
      BY <1>7, <2>2 DEF Section, Return
    <3>2. \A s \in sections' : s.name \in requested' \cap Passed'
      BY <1>7, <2>1, <3>1 DEF SectionsInv
    <3>3. ASSUME parsed', pc' = "done" => outcome' = "report",
                 NEW n \in requested' \cap Passed'
          PROVE  \E s \in sections' : s.name = n
      <4>1. n \in requested \cap Passed /\ pc # "done"
        BY <1>7, <2>1, <3>1, <3>3
      <4> QED
        BY <2>1, <3>1, <3>3, <4>1 DEF SectionsInv
    <3> QED
      BY <2>1, <3>1, <3>2, <3>3 DEF SectionsInv
  <2>3. CASE name \in requested /\ status' # "error"
    <3> DEFINE section == [name |-> name, succeeded |-> status' = "success"]
    <3>1. /\ sections' = sections \cup {section} /\ pc' = next
          /\ DiagnoseEnd(status' = "success")
      BY <1>7, <2>3 DEF Section
    <3>2. ~ section.succeeded => worst' >= Note
      BY <1>1, <3>1, EndDiagnosed
    <3>3. section.name = name /\ pc' # "done"
      BY <1>7, <3>1
    <3> HIDE DEF section
    <3> QED
      BY <1>1, <1>7, <2>1, <2>3, <3>1, <3>2, <3>3 DEF SectionsInv
  <2> QED
    BY <2>2, <2>3
<1>8. CASE Packages
  <2> DEFINE section == [name |-> "packages",
                         succeeded |-> \A i \in DOMAIN results : results[i].succeeded]
  <2>1. /\ UNCHANGED <<requested, parsed, graphs, results>>
        /\ Passed' = Passed \cup {"packages"} /\ pc' = "report"
        /\ sections' = sections \cup {s \in {section} : s.name \in requested}
    BY <1>8 DEF Packages, Passed
  <2>2. /\ section.name = "packages"
        /\ ~ section.succeeded => \E i \in DOMAIN results : ~ results[i].succeeded
    OBVIOUS
  <2> HIDE DEF section
  <2>3. pc = "packages"
    BY <1>8 DEF Packages
  <2> QED
    BY <1>1, <2>1, <2>2, <2>3 DEF SectionsInv
<1> QED
  BY <1>2, <1>3, <1>4, <1>5, <1>6, <1>7, <1>8, AnalysisSteps DEF Outside
(* The types, of the steps outside run_dependency_graph and inside it.     *)
LEMMA TypedOutside ==
  ASSUME Typed, ResultsInv, GraphsInv, Outside, worst' \in Severities
  PROVE  Typed'
<1> USE DEF Typed
<1>1. UNCHANGED <<inputVars, disk, saved, collected, unrestored, straggler, faults>>
  BY OutsideFiles
<1>2. Len(Targets) \in Nat /\ DOMAIN Targets = 1..Len(Targets)
  BY TargetsAssumption
<1>3. /\ pc' \in Steps /\ status' \in Statuses /\ left' \subseteq Artifacts
      /\ outcome' \in {"none", "report", "no-version", "bitbake", "io"}
  BY DEF TypeOK, Outside, Version, Parse, Query, BeginAnalysis, NextGraph, Section,
     Packages, Report, Return, Enter
<1>4. parsed' \in BOOLEAN
  BY DEF TypeOK, Outside, Version, Parse, Query, BeginAnalysis, NextGraph, Section,
     Packages, Report
<1>5. queried' \in BOOLEAN
  <2>1. \/ queried' = queried
        \/ queried' = (parsed' \/ Targets = <<>>)
        \/ queried' = (queried /\ status' = "success")
    BY DEF Outside, Version, Parse, Query, BeginAnalysis, NextGraph, Section,
       Packages, Report
  <2>2. CASE queried' = queried
    BY <2>2 DEF TypeOK
  <2>3. CASE queried' = (parsed' \/ Targets = <<>>)
    BY <2>3
  <2>4. CASE queried' = (queried /\ status' = "success")
    BY <2>4
  <2> QED
    BY <2>1, <2>2, <2>3, <2>4
<1>6. at' \in 1..Len(Targets) + 1
  <2>1. at' \in {1, at} \/ (at' = at + 1 /\ at <= Len(Targets))
    BY DEF Outside, Version, Parse, Query, BeginAnalysis, NextGraph, Section,
       Packages, Report, Enter
  <2> QED
    BY <1>2, <2>1 DEF TypeOK
<1>7. UNCHANGED graphs
  BY DEF Outside, Version, Parse, Query, BeginAnalysis, NextGraph, Section,
     Packages, Report
<1> DEFINE Results == [target : Names, succeeded : BOOLEAN, queried : BOOLEAN]
<1>8. results' \in Seq(Results) /\ Len(results') <= Len(Targets)
  <2>1. CASE UNCHANGED results
    BY <2>1 DEF TypeOK
  <2>2. CASE Parse /\ ~ UNCHANGED results
    <3>1. CASE results' = <<>>
      BY <1>2, <3>1
    <3>2. CASE results' = Unqueried
      <4>1. \A i \in Runs : TargetResult(i, FALSE, FALSE) \in Results
        BY TargetNames DEF TargetResult
      <4> HIDE DEF Results
      <4>2. results' \in [1..Len(Targets) -> Results]
        BY <1>2, <3>2, <4>1 DEF Unqueried
      <4>3. results' \in Seq(Results)
        BY <1>2, <4>2
      <4>4. Len(results') = Len(Targets)
        BY <1>2, <4>2, <4>3
      <4> QED
        BY <4>3, <4>4, <1>2
    <3> QED
      BY <2>2, <3>1, <3>2 DEF Parse
  <2>3. CASE Query /\ ~ UNCHANGED results
    <3> DEFINE answer == [target |-> Targets[at], succeeded |-> status' = "success",
                          queried |-> TRUE]
    <3>1. /\ results' = Append(results, answer) /\ pc = "query" /\ at \in Runs
      BY <1>2, <2>3 DEF Query, TargetResult, TypeOK
    <3>2. answer \in Results
      BY <3>1, TargetNames
    <3> HIDE DEF answer, Results
    <3>3. results \in Seq(Results)
      BY DEF Results
    <3>4. Len(results) = at - 1 /\ at <= Len(Targets) /\ at \in Nat
      BY <1>2, <3>1 DEF ResultsInv
    <3> QED
      BY <1>2, <3>1, <3>2, <3>3, <3>4
  <2> QED
    BY <2>1, <2>2, <2>3
    DEF Outside, Version, BeginAnalysis, NextGraph, Section, Packages, Report
<1>9. sections' \subseteq [name : SectionNames, succeeded : BOOLEAN]
  <2>1. CASE NextGraph
    <3> DEFINE section == [name |-> "graph",
                           succeeded |-> \A i \in DOMAIN graphs : graphs[i].succeeded]
    <3>1. section \in [name : SectionNames, succeeded : BOOLEAN]
      OBVIOUS
    <3>2. sections' \subseteq sections \cup {section}
      BY <2>1 DEF NextGraph
    <3> HIDE DEF section
    <3> QED
      BY <3>1, <3>2
  <2>2. CASE Packages
    <3> DEFINE section == [name |-> "packages",
                           succeeded |-> \A i \in DOMAIN results : results[i].succeeded]
    <3>1. section \in [name : SectionNames, succeeded : BOOLEAN]
      OBVIOUS
    <3>2. sections' \subseteq sections \cup {section}
      BY <2>2 DEF Packages
    <3> HIDE DEF section
    <3> QED
      BY <3>1, <3>2
  <2>3. ASSUME NEW name \in {"dryrun", "inventory"}, NEW next, Section(name, next)
        PROVE  sections' \subseteq [name : SectionNames, succeeded : BOOLEAN]
    <3> DEFINE section == [name |-> name, succeeded |-> status' = "success"]
    <3>1. section \in [name : SectionNames, succeeded : BOOLEAN]
      OBVIOUS
    <3>2. sections' \subseteq sections \cup {section}
      BY <2>3 DEF Section
    <3> HIDE DEF section
    <3> QED
      BY <3>1, <3>2
  <2>4. Version \/ Parse \/ Query \/ BeginAnalysis \/ Report => UNCHANGED sections
    BY DEF Version, Parse, Query, BeginAnalysis, Report
  <2> QED
    BY <2>1, <2>2, <2>3, <2>4 DEF Outside
<1>10. TypeOK'
  BY <1>1, <1>3, <1>4, <1>5, <1>6, <1>7, <1>8 DEF TypeOK
<1> QED
  BY <1>1, <1>7, <1>8, <1>9, <1>10
(* The steps of a graph run keep the types.                                *)
LEMMA TypedInside ==
  ASSUME Typed, StragglerInv, FilesInv, GraphsInv, worst' \in Severities,
         \/ Snapshot \/ EndRun \/ Collect \/ Restore \/ Assess
         \/ \E f \in Artifacts : Emit(f) \/ Straggle(f)
  PROVE  Typed'
<1> USE DEF Typed
<1>1. Len(Targets) \in Nat /\ DOMAIN Targets = 1..Len(Targets)
  BY TargetsAssumption
<1>2. UNCHANGED <<inputVars, parsed, queried, results, sections>>
  BY DEF Snapshot, EndRun, Collect, Restore, Assess, Emit, Straggle
<1>3. /\ before \in [Artifacts -> {"absent", "user"}]
      /\ disk \in [Artifacts -> Written]
      /\ saved \in [Artifacts -> {"absent", "user"}]
      /\ left \subseteq Artifacts /\ at \in 1..Len(Targets) + 1
  BY DEF TypeOK
<1>4. pc \in GraphSteps => at \in Runs /\ Targets[at] \in Names
  <2> SUFFICES ASSUME pc \in GraphSteps PROVE at \in Runs /\ Targets[at] \in Names
    OBVIOUS
  <2>1. at <= Len(Targets)  BY DEF GraphsInv
  <2>2. at \in Runs
    <3> HIDE DEF Typed
    <3> QED BY <1>1, <1>3, <2>1
  <2> QED BY <2>2, TargetNames
<1>5. at' \in 1..Len(Targets) + 1
  BY <1>1, <1>3
  DEF Snapshot, EndRun, Collect, Restore, Assess, Emit, Straggle, GraphsInv
<1>6. saved' \in [Artifacts -> {"absent", "user"}]
  <2>1. CASE UNCHANGED saved
    BY <1>3, <2>1
  <2>2. CASE ~ UNCHANGED saved
    <3>1. PICK f \in left : saved' = [saved EXCEPT ![f] = disk[f]]
      BY <2>2 DEF Snapshot, EndRun, Collect, Restore, Assess, Emit, Straggle
    <3>2. disk = before
      BY <2>2 DEF Snapshot, EndRun, Collect, Restore, Assess, Emit, Straggle,
         StragglerInv, FilesInv
    <3> QED
      BY <1>3, <3>1, <3>2
  <2> QED
    BY <2>1, <2>2
<1>7. straggler' \in {"none"} \cup Names
  <2>1. CASE EndRun
    BY <1>4, <2>1 DEF EndRun
  <2> QED
    BY <2>1 DEF Snapshot, Collect, Restore, Assess, Emit, Straggle, TypeOK
<1>8. disk' \in [Artifacts -> Written]
  <2>1. CASE UNCHANGED disk
    BY <1>3, <2>1
  <2>2. CASE Restore
    BY <1>3, <2>2 DEF Restore
  <2>3. ASSUME NEW f \in Artifacts, Emit(f) PROVE disk' \in [Artifacts -> Written]
    BY <1>3, <1>4, <2>3 DEF Emit
  <2>4. ASSUME NEW f \in Artifacts, Straggle(f) PROVE disk' \in [Artifacts -> Written]
    BY <1>3, <2>4 DEF Straggle, TypeOK
  <2> QED
    BY <2>1, <2>2, <2>3, <2>4 DEF Snapshot, EndRun, Collect, Assess
<1>9. collected' \in [files : FilesRead, failed : BOOLEAN]
  <2>1. CASE UNCHANGED collected
    BY <2>1
  <2>2. CASE EndRun
    BY <2>2, NothingReadTyped DEF EndRun
  <2>3. CASE Collect /\ ~ UNCHANGED collected
    <3>1. CASE collected' = [collected EXCEPT !.failed = TRUE]
      BY <3>1
    <3>2. CASE collected' # [collected EXCEPT !.failed = TRUE]
      <4>1. PICK f \in left :
              collected' = [collected EXCEPT !.files =
                              [g \in DOMAIN @ \cup {f} |->
                                 IF g = f THEN disk[f] ELSE @[g]]]
        BY <2>3, <3>2 DEF Collect
      <4> DEFINE D    == DOMAIN collected.files \cup {f}
                 read == [g \in D |-> IF g = f THEN disk[f] ELSE collected.files[g]]
      <4>2. collected.files \in FilesRead
        OBVIOUS
      <4>3. D \in SUBSET Artifacts /\ read \in [D -> Written]
        BY <1>3, <4>2, FilesReadTyped
      <4>4. read \in FilesRead
        BY <4>3, FilesReadTyped
      <4>5. collected' = [collected EXCEPT !.files = read]
        BY <4>1
      <4> HIDE DEF read
      <4> QED
        BY <4>4, <4>5
    <3> QED
      BY <3>1, <3>2
  <2> QED
    BY <2>1, <2>2, <2>3 DEF Snapshot, Restore, Assess, Emit, Straggle
<1>10. graphs' \in Seq(Graph) /\ Len(graphs') <= Len(Targets)
  <2>1. CASE UNCHANGED graphs
    BY <2>1 DEF TypeOK
  <2>2. CASE Assess /\ ~ UNCHANGED graphs
    <3> DEFINE graph == [target |-> Targets[at], artifacts |-> collected.files,
                         succeeded |-> status = "success"
                                         /\ DOMAIN collected.files # {}]
    <3>1. graphs' = Append(graphs, graph) /\ pc = "assess"
      BY <2>2 DEF Assess
    <3>2. graph \in Graph
      BY <1>4, <3>1 DEF Graph
    <3> HIDE DEF graph
    <3>3. Len(graphs) = at - 1 /\ at <= Len(Targets)
      BY <3>1 DEF GraphsInv
    <3> QED
      BY <1>1, <1>3, <3>1, <3>2, <3>3
  <2> QED
    BY <2>1, <2>2 DEF Snapshot, EndRun, Collect, Restore, Emit, Straggle
<1>11. /\ pc' \in Steps /\ status' \in Statuses /\ left' \subseteq Artifacts
       /\ outcome' \in {"none", "report", "no-version", "bitbake", "io"}
  <2>1. /\ pc \in Steps /\ status \in Statuses /\ left \subseteq Artifacts
        /\ outcome \in {"none", "report", "no-version", "bitbake", "io"}
    BY DEF TypeOK
  <2>2. pc' \in Steps
    BY <2>1 DEF Steps, Snapshot, EndRun, Collect, Restore, Assess, Emit, Straggle,
       Return
  <2>3. status' \in Statuses
    BY <2>1 DEF Statuses, Snapshot, EndRun, Collect, Restore, Assess, Emit, Straggle
  <2>4. left' \subseteq Artifacts
    BY <2>1 DEF Snapshot, EndRun, Collect, Restore, Assess, Emit, Straggle
  <2>5. outcome' \in {"none", "report", "no-version", "bitbake", "io"}
    BY <2>1 DEF Snapshot, EndRun, Collect, Restore, Assess, Emit, Straggle, Return
  <2> QED
    BY <2>2, <2>3, <2>4, <2>5
<1>12. faults' \in 0..MaxFaults
  <2>1. faults \in 0..MaxFaults
    BY DEF TypeOK
  <2>2. UNCHANGED faults \/ Fault
    BY DEF Snapshot, EndRun, Collect, Restore, Assess, Emit, Straggle
  <2> QED
    BY <2>1, <2>2, FaultsAssumption DEF Fault
<1>13. DOMAIN collected'.files \subseteq Artifacts /\ collected'.failed \in BOOLEAN
  BY <1>9, FilesReadTyped
<1>15. unrestored' \subseteq Artifacts
  BY DEF TypeOK, Snapshot, EndRun, Collect, Restore, Assess, Emit, Straggle, fileVars
<1>14. TypeOK'
  BY <1>15, <1>2, <1>3, <1>5, <1>6, <1>7, <1>8, <1>10, <1>11, <1>12, <1>13 DEF TypeOK
<1> QED
  BY <1>2, <1>9, <1>10, <1>14

(* Every step keeps the invariant.                                         *)
LEMMA Inductive == AnalysisInv /\ [Next]_vars => AnalysisInv'
<1> SUFFICES ASSUME AnalysisInv, [Next]_vars PROVE AnalysisInv'
  OBVIOUS
<1>1. Typed'
  <2>1. CASE UNCHANGED vars
    BY <2>1 DEF vars, AnalysisInv, Typed, TypeOK
  <2> QED
    BY <2>1, AnalysisSteps, SeverityRises, TypedOutside, TypedInside DEF AnalysisInv
<1> QED
  BY <1>1, ReturnKept, StragglerKept, FilesKept, ReadKept, ResultsKept, GraphsKept, SectionsKept
  DEF AnalysisInv

(* The invariant holds before the first command.                           *)
LEMMA Initially == Init => AnalysisInv
<1> SUFFICES ASSUME Init PROVE AnalysisInv
  OBVIOUS
<1> USE DEF Init
<1>1. Len(Targets) \in Nat
  BY TargetsAssumption
<1>2. Typed
  <2>1. DOMAIN NothingRead.files \subseteq Artifacts /\ NothingRead.failed \in BOOLEAN
    BY NothingReadTyped
  <2>2. disk \in [Artifacts -> Written] /\ saved \in [Artifacts -> {"absent", "user"}]
    OBVIOUS
  <2>3. results \in Seq([target : Names, succeeded : BOOLEAN, queried : BOOLEAN])
        /\ graphs \in Seq(Graph) /\ Len(results) = 0 /\ Len(graphs) = 0
    OBVIOUS
  <2>4. at \in 1..Len(Targets) + 1 /\ faults \in 0..MaxFaults /\ left \subseteq Artifacts
        /\ Len(results) <= Len(Targets) /\ Len(graphs) <= Len(Targets)
    BY <1>1, <2>3, FaultsAssumption
  <2>5. /\ requested \in SUBSET Sections
        /\ before \in [Artifacts -> {"absent", "user"}]
        /\ pc \in Steps /\ status \in Statuses /\ worst \in Severities
        /\ outcome = "none" /\ straggler = "none" /\ unrestored \subseteq Artifacts
    OBVIOUS
  <2>6. parsed \in BOOLEAN /\ queried \in BOOLEAN
    BY Zenon
  <2>7. DOMAIN collected.files \subseteq Artifacts /\ collected.failed \in BOOLEAN
    BY <2>1
  <2> HIDE DEF Init
  <2>8. TypeOK
    BY <2>2, <2>4, <2>5, <2>6, <2>7 DEF TypeOK
  <2> QED
    BY <2>3, <2>8, NothingReadTyped DEF Typed, Init
<1>3. ReturnInv /\ StragglerInv /\ FilesInv /\ ReadInv
  BY DEF ReturnInv, StragglerInv, FilesInv, ReadInv
<1>4. ResultsInv /\ GraphsInv /\ SectionsInv
  BY DEF ResultsInv, GraphsInv, SectionsInv, Passed, Reported
<1> QED
  BY <1>2, <1>3, <1>4 DEF AnalysisInv

(* The invariant holds in every state of every behaviour.                  *)
THEOREM AnalysisInvariance == Spec => []AnalysisInv
  BY Initially, Inductive, PTL DEF Spec

(* However the analysis ends, the user's artifacts are restored, except    *)
(* those a terminated run still writes and those a failed restoration      *)
(* left; a report, or an error of BitBake's, leaves none.                  *)
THEOREM ArtifactsRestored == Spec => []BuildDirRestored
<1>1. AnalysisInv => BuildDirRestored
  BY DEF AnalysisInv, FilesInv, BuildDirRestored
<1> QED
  BY AnalysisInvariance, <1>1, PTL

(* No target's graph shows, and no snapshot saves, what another target's   *)
(* run wrote.                                                              *)
THEOREM TargetsSeparated == Spec => []TargetsKeptApart
<1>1. AnalysisInv => TargetsKeptApart
  BY DEF AnalysisInv, FilesInv, ReadInv, TargetsKeptApart
<1> QED
  BY AnalysisInvariance, <1>1, PTL

----------------------------------------------------------------------------
(* What a report is worth                                                  *)

(* A report is returned after all targets and all sections.                *)
LEMMA ReportedAtEnd ==
  ASSUME AnalysisInv, outcome = "report"
  PROVE  /\ pc = "done" /\ Reported /\ Passed = SectionNames
         /\ Len(results) = Len(Targets) /\ DOMAIN results = Runs
         /\ worst \in Severities
<1>1. pc = "done" /\ Reported /\ Passed = SectionNames
  BY DEF AnalysisInv, ReturnInv, Reported, Passed
<1>2. Len(results) = Len(Targets)
  BY <1>1 DEF AnalysisInv, ResultsInv
<1>3. DOMAIN results = Runs
  BY <1>2, TargetsAssumption DEF AnalysisInv, Typed
<1> QED
  BY <1>1, <1>2, <1>3 DEF AnalysisInv, Typed, TypeOK

(* An analysis that calls itself a success ran and read everything.        *)
LEMMA SuccessCoversAll == AnalysisInv => SuccessIsComplete
<1> SUFFICES ASSUME AnalysisInv, outcome = "report", AnalysisSucceeded
             PROVE  SuccessIsComplete
  BY DEF SuccessIsComplete
<1>1. parsed /\ queried /\ (requested = {} \/ \A s \in sections : s.succeeded)
  BY DEF AnalysisSucceeded
<1>2. \A i \in Runs : results[i].succeeded
  BY <1>1, ReportedAtEnd DEF AnalysisInv, ResultsInv
<1>3. requested \subseteq SectionNames
  BY SectionsAssumption DEF AnalysisInv, Typed, TypeOK
<1>4. {s.name : s \in sections} = requested
  <2>1. \A s \in sections : s.name \in requested
    BY DEF AnalysisInv, SectionsInv
  <2>2. \A n \in requested : \E s \in sections : s.name = n
    BY <1>1, <1>3, ReportedAtEnd DEF AnalysisInv, SectionsInv
  <2> QED
    BY <2>1, <2>2
<1>5. ASSUME "graph" \in requested
      PROVE  /\ Len(graphs) = Len(Targets)
             /\ \A i \in DOMAIN graphs : DOMAIN graphs[i].artifacts # {}
  <2>1. PICK s \in sections : s.name = "graph"
    BY <1>4, <1>5
  <2>2. s.succeeded
    BY <1>1, <1>5
  <2>3. \A i \in DOMAIN graphs : graphs[i].succeeded
    BY <2>1, <2>2 DEF AnalysisInv, SectionsInv
  <2> QED
    BY <1>1, <1>5, <2>3, ReportedAtEnd DEF AnalysisInv, GraphsInv
<1> QED
  BY <1>2, <1>4, <1>5 DEF SuccessIsComplete

(* A report has one result for each target, in their order.                *)
LEMMA TargetsAreReported == AnalysisInv => EveryTargetReported
  BY ReportedAtEnd DEF AnalysisInv, ResultsInv, EveryTargetReported

(* check --semantic exits with 1 exactly if a warning or an error is among *)
(* the findings.                                                           *)
LEMMA CheckExitOf ==
  ASSUME outcome = "report", worst \in Severities
  PROVE  /\ CheckExit \in {0, 1}
         /\ CheckExit = 1 <=>
              worst >= Warning \/ (~ HasErrors /\ ~ (parsed /\ queried))
<1>1. (\E n \in Findings : n >= Warning)
        <=> worst >= Warning \/ (~ HasErrors /\ ~ (parsed /\ queried))
  BY DEF Findings
<1> QED
  BY <1>1 DEF CheckExit

(* A failure in the report reaches the findings, with the one exception.   *)
LEMMA FailuresAreFound == AnalysisInv => FailureIsFound
<1> SUFFICES ASSUME AnalysisInv, outcome = "report" PROVE FailureIsFound
  BY DEF FailureIsFound
<1>1. worst \in Severities /\ DOMAIN results = Runs
  BY ReportedAtEnd
<1>2. parsed => (queried <=> \A i \in Runs : results[i].succeeded)
  BY <1>1 DEF AnalysisInv, ResultsInv
<1>3. ~ parsed \/ (\E i \in Runs : ~ results[i].succeeded) => CheckExit = 1
  BY <1>1, <1>2, CheckExitOf DEF HasErrors
<1>4. SemanticExit = 0 => CheckExit = IF worst = Warning THEN 1 ELSE 0
  <2> SUFFICES ASSUME SemanticExit = 0
               PROVE  CheckExit = IF worst = Warning THEN 1 ELSE 0
    OBVIOUS
  <2>1. AnalysisSucceeded /\ ~ HasErrors
    BY DEF SemanticExit
  <2>2. parsed /\ queried /\ worst # Error
    BY <2>1 DEF AnalysisSucceeded, HasErrors
  <2> QED
    BY <1>1, <2>1, <2>2, CheckExitOf
<1>5. ASSUME CheckExit = 0, SemanticExit = 1
      PROVE  worst = Note /\ \E s \in sections : ~ s.succeeded /\ s.name # "packages"
  <2>1. worst < Warning /\ (HasErrors \/ (parsed /\ queried))
    BY <1>1, <1>5, CheckExitOf
  <2>2. ~ HasErrors /\ parsed /\ queried
    BY <2>1 DEF HasErrors
  <2>3. ~ AnalysisSucceeded
    BY <1>5, <2>2 DEF SemanticExit
  <2>4. PICK s \in sections : ~ s.succeeded
    BY <2>2, <2>3 DEF AnalysisSucceeded
  <2>5. s.name # "packages"
    BY <1>1, <1>2, <2>2, <2>4 DEF AnalysisInv, SectionsInv
  <2>6. worst >= Note
    BY <2>4, <2>5 DEF AnalysisInv, SectionsInv
  <2> QED
    BY <1>1, <2>1, <2>4, <2>5, <2>6
<1> QED
  BY <1>3, <1>4, <1>5 DEF FailureIsFound

(* The report is explicit for every target, its success is complete and    *)
(* the exit codes of both commands show a failure.                         *)
THEOREM ReportsAreComplete == Spec => []ReportComplete
<1>1. AnalysisInv => ReportComplete
  BY SuccessCoversAll, TargetsAreReported, FailuresAreFound DEF ReportComplete
<1> QED
  BY AnalysisInvariance, <1>1, PTL
=============================================================================
