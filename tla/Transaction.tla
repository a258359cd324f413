---------------------------- MODULE Transaction ----------------------------
(***************************************************************************)
(* The staged file replacement that `format --write` and `check --fix`     *)
(* share (src/transaction.rs).  A batch of write requests is staged (one   *)
(* output and one backup file beside each source), committed by renaming   *)
(* every output over its source, and rolled back by renaming the backups   *)
(* when a later step fails.                                                *)
(*                                                                         *)
(* Other programs edit the sources at any moment, I/O calls fail, the      *)
(* process may unwind or be killed.  Every filesystem call of the code is  *)
(* a step of its own, so that an edit can fall between a validation and    *)
(* the rename it authorises.                                               *)
(***************************************************************************)
EXTENDS Naturals, Sequences, FiniteSets

CONSTANTS
  Files,         \* the source files a batch may name
  Edits,         \* file states no transaction writes: other text, a symbolic
                 \* link, a read-only or a missing file
  RequestLists,  \* the batches of write requests to consider
  MaxEdits,      \* bound: writes by other programs
  MaxFaults      \* bound: failing I/O calls

Text == {"original", "replacement"}

Request == [path : Files, changed : BOOLEAN]

ASSUME BoundsAssumption == MaxEdits \in Nat /\ MaxFaults \in Nat
ASSUME EditsAssumption == Edits \cap Text = {}
ASSUME RequestAssumption == RequestLists \subseteq Seq(Request)

VARIABLES
  requests,   \* the WriteRequests handed to Transaction::stage
  disk,       \* what each source path holds
  pending,    \* Transaction.pending, as request numbers
  output,     \* the output TemporaryFile of each request
  backup,     \* the backup TemporaryFile of each request
  pc,         \* the call the process makes next
  at,         \* loop index: request in stage, pending item in rollback and cleanup
  committed,  \* commit_with's counter
  errors,     \* the errors rollback and the cleanup loop collect
  outcome,    \* what stage or commit returned
  late,       \* files another program wrote after the last validate_source
              \* and before the rename it authorises
  edits,      \* writes by other programs so far
  faults      \* failed I/O calls so far

vars == <<requests, disk, pending, output, backup, pc, at, committed, errors,
          outcome, late, edits, faults>>

----------------------------------------------------------------------------
(* A temporary file exists when it is owned (Drop removes it), retained    *)
(* (Drop leaves it) or stuck (Drop tried to remove it and failed).         *)
TempState == {"none", "owned", "retained", "moved", "removed", "stuck"}

Exists(temporary) == temporary \in {"owned", "retained", "stuck"}

Requests == 1..Len(requests)
Path(i) == requests[i].path

CommitSteps   == {"validate", "replace", "sync"}
RollbackSteps == {"rollback", "restore", "resync"}
CleanupSteps  == {"cleanup", "cleansync"}
Ended         == {"done", "crashed"}
Steps == {"stage", "output", "backup", "drop"}
           \cup CommitSteps \cup RollbackSteps \cup CleanupSteps \cup Ended

Outcomes == {"none", "ok", "refused", "error", "recovery", "uncleaned", "panic"}

(* "preserved" names the backup a rollback left behind, "unsynced" says    *)
(* that a restored file's directory was not synced, "uncleaned" names a    *)
(* backup whose removal or directory sync failed after the commit.         *)
ErrorReports == [kind : {"preserved", "unsynced", "uncleaned"}, item : Requests]

Named(kinds) == {e.item : e \in {r \in errors : r.kind \in kinds}}

(* The file the current commit or rollback step is about.                  *)
Item == CASE pc = "replace"  -> pending[committed + 1]
          [] pc = "restore"  -> pending[at]

Init ==
  /\ requests \in RequestLists
  /\ disk = [f \in Files |-> "original"]
  /\ pending = <<>>
  /\ output = [i \in Requests |-> "none"]
  /\ backup = [i \in Requests |-> "none"]
  /\ pc = "stage"
  /\ at = 1
  /\ committed = 0
  /\ errors = {}
  /\ outcome = "none"
  /\ late = {}
  /\ edits = 0
  /\ faults = 0

(* An I/O call fails.                                                      *)
Fault == faults < MaxFaults /\ faults' = faults + 1

(* validate_source: a regular writable file that still holds the expected  *)
(* text.  Members of Edits stand for everything it refuses.                *)
Valid(i, expected) == disk[Path(i)] = expected

----------------------------------------------------------------------------
(* Transaction::stage                                                      *)

(* `original == replacement`: the request is not staged.                   *)
StageSkip ==
  /\ pc = "stage" /\ at <= Len(requests) /\ ~ requests[at].changed
  /\ at' = at + 1
  /\ UNCHANGED <<requests, disk, pending, output, backup, pc, committed,
                 errors, outcome, late, edits, faults>>

StageValidate ==
  /\ pc = "stage" /\ at <= Len(requests) /\ requests[at].changed
  /\ Valid(at, "original")
  /\ pc' = "output"
  /\ UNCHANGED <<requests, disk, pending, output, backup, at, committed,
                 errors, outcome, late, edits, faults>>

(* Either `?` of stage on validate_source: the source is not what the      *)
(* caller read, or it cannot be read.                                      *)
StageRefuse ==
  /\ pc = "stage" /\ at <= Len(requests) /\ requests[at].changed
  /\ \/ ~ Valid(at, "original") /\ UNCHANGED faults
     \/ Fault
  /\ pc' = "drop" /\ outcome' = "refused"
  /\ UNCHANGED <<requests, disk, pending, output, backup, at, committed,
                 errors, late, edits>>

StageOutput ==
  /\ pc = "output"
  /\ output' = [output EXCEPT ![at] = "owned"]
  /\ pc' = "backup"
  /\ UNCHANGED <<requests, disk, pending, backup, at, committed, errors,
                 outcome, late, edits, faults>>

(* Seeded fault: the request after the staged one is recorded.             *)
StageBackupOffByOne ==
  /\ pc = "backup"
  /\ backup' = [backup EXCEPT ![at] = "owned"]
  /\ pending' = Append(pending, at + 1)
  /\ at' = at + 1
  /\ pc' = "stage"
  /\ UNCHANGED <<requests, disk, output, committed, errors, outcome, late,
                 edits, faults>>

StageBackup ==
  /\ pc = "backup"
  /\ backup' = [backup EXCEPT ![at] = "owned"]
  /\ pending' = Append(pending, at)
  /\ at' = at + 1
  /\ pc' = "stage"
  /\ UNCHANGED <<requests, disk, output, committed, errors, outcome, late,
                 edits, faults>>

(* temporary_file fails before create_new succeeds, or after it: then the  *)
(* file exists and its TemporaryFile is dropped.                           *)
StageIoError ==
  /\ pc \in {"output", "backup"} /\ Fault
  /\ \E created \in {"none", "owned"} :
       IF pc = "output"
       THEN output' = [output EXCEPT ![at] = created] /\ UNCHANGED backup
       ELSE backup' = [backup EXCEPT ![at] = created] /\ UNCHANGED output
  /\ pc' = "drop" /\ outcome' = "refused"
  /\ UNCHANGED <<requests, disk, pending, at, committed, errors, late, edits>>

(* stage returns and the caller commits.                                   *)
StageReturn ==
  /\ pc = "stage" /\ at > Len(requests)
  /\ pc' = IF pending = <<>> THEN "cleanup" ELSE "validate"
  /\ at' = 1
  /\ UNCHANGED <<requests, disk, pending, output, backup, committed, errors,
                 outcome, late, edits, faults>>

----------------------------------------------------------------------------
(* Transaction::commit_with, the replacement loop                          *)

(* Seeded fault: rollback also visits the item whose replacement failed.   *)
StartRollbackOneMore(done) == pc' = "rollback" /\ at' = done + 1

StartRollback(done) == pc' = "rollback" /\ at' = done

(* Seeded fault: the source is not read again before it is replaced.       *)
CommitUnvalidated ==
  /\ pc = "validate"
  /\ pc' = "replace"
  /\ late' = {}
  /\ UNCHANGED <<requests, disk, pending, output, backup, at, committed,
                 errors, outcome, edits, faults>>

CommitValidate ==
  /\ pc = "validate"
  /\ Valid(pending[committed + 1], "original")
  /\ pc' = "replace"
  /\ late' = {}
  /\ UNCHANGED <<requests, disk, pending, output, backup, at, committed,
                 errors, outcome, edits, faults>>

CommitRefuse ==
  /\ pc = "validate"
  /\ \/ ~ Valid(pending[committed + 1], "original") /\ UNCHANGED faults
     \/ Fault
  /\ StartRollback(committed)
  /\ UNCHANGED <<requests, disk, pending, output, backup, committed, errors,
                 outcome, late, edits>>

(* Seeded fault: the backup stays owned after the replacement.             *)
CommitReplaceOwningBackup ==
  /\ pc = "replace"
  /\ disk' = [disk EXCEPT ![Path(Item)] = "replacement"]
  /\ output' = [output EXCEPT ![Item] = "moved"]
  /\ committed' = committed + 1
  /\ pc' = "sync"
  /\ UNCHANGED <<requests, pending, backup, at, errors, outcome, late, edits,
                 faults>>

(* filesystem.replace(output, path), the ownership flags and the counter.  *)
CommitReplace ==
  /\ pc = "replace"
  /\ disk' = [disk EXCEPT ![Path(Item)] = "replacement"]
  /\ output' = [output EXCEPT ![Item] = "moved"]
  /\ backup' = [backup EXCEPT ![Item] = "retained"]
  /\ committed' = committed + 1
  /\ pc' = "sync"
  /\ UNCHANGED <<requests, pending, at, errors, outcome, late, edits, faults>>

CommitReplaceFails ==
  /\ pc = "replace" /\ Fault
  /\ StartRollback(committed)
  /\ UNCHANGED <<requests, disk, pending, output, backup, committed, errors,
                 outcome, late, edits>>

(* Seeded fault: the loop ends before the last item.                       *)
CommitSyncShort ==
  /\ pc = "sync"
  /\ pc' = IF committed + 1 < Len(pending) THEN "validate" ELSE "cleanup"
  /\ at' = 1
  /\ UNCHANGED <<requests, disk, pending, output, backup, committed, errors,
                 outcome, late, edits, faults>>

CommitSync ==
  /\ pc = "sync"
  /\ pc' = IF committed < Len(pending) THEN "validate" ELSE "cleanup"
  /\ at' = 1
  /\ UNCHANGED <<requests, disk, pending, output, backup, committed, errors,
                 outcome, late, edits, faults>>

(* Seeded fault: the item is counted after its directory sync.             *)
CommitSyncFailsUncounted ==
  /\ pc = "sync" /\ Fault
  /\ StartRollback(committed - 1)
  /\ UNCHANGED <<requests, disk, pending, output, backup, committed, errors,
                 outcome, late, edits>>

CommitSyncFails ==
  /\ pc = "sync" /\ Fault
  /\ StartRollback(committed)
  /\ UNCHANGED <<requests, disk, pending, output, backup, committed, errors,
                 outcome, late, edits>>

----------------------------------------------------------------------------
(* Transaction::rollback, from the last committed item to the first        *)

RollbackValidate ==
  /\ pc = "rollback" /\ at > 0
  /\ Valid(pending[at], "replacement")
  /\ pc' = "restore"
  /\ late' = {}
  /\ UNCHANGED <<requests, disk, pending, output, backup, at, committed,
                 errors, outcome, edits, faults>>

(* Seeded fault: an item that cannot be restored is tried again.           *)
RollbackRetry ==
  /\ at > 0
  /\ \/ pc = "rollback" /\ ~ Valid(pending[at], "replacement") /\ UNCHANGED faults
     \/ pc = "rollback" /\ Fault
     \/ pc = "restore" /\ Fault
  /\ errors' = errors \cup {[kind |-> "preserved", item |-> pending[at]]}
  /\ pc' = "rollback"
  /\ UNCHANGED <<requests, disk, pending, output, backup, at, committed,
                 outcome, late, edits>>

(* "could not restore ...; original preserved at ...": the source is no    *)
(* longer our replacement, or cannot be read, or the rename fails.         *)
RollbackKeep ==
  /\ at > 0
  /\ \/ pc = "rollback" /\ ~ Valid(pending[at], "replacement") /\ UNCHANGED faults
     \/ pc = "rollback" /\ Fault
     \/ pc = "restore" /\ Fault
  /\ errors' = errors \cup {[kind |-> "preserved", item |-> pending[at]]}
  /\ at' = at - 1
  /\ pc' = "rollback"
  /\ UNCHANGED <<requests, disk, pending, output, backup, committed, outcome,
                 late, edits>>

RollbackReplace ==
  /\ pc = "restore"
  /\ disk' = [disk EXCEPT ![Path(Item)] = "original"]
  /\ backup' = [backup EXCEPT ![Item] = "moved"]
  /\ pc' = "resync"
  /\ UNCHANGED <<requests, pending, output, at, committed, errors, outcome,
                 late, edits, faults>>

RollbackSync ==
  /\ pc = "resync"
  /\ \/ UNCHANGED <<errors, faults>>
     \/ /\ Fault
        /\ errors' = errors \cup {[kind |-> "unsynced", item |-> pending[at]]}
  /\ at' = at - 1
  /\ pc' = "rollback"
  /\ UNCHANGED <<requests, disk, pending, output, backup, committed, outcome,
                 late, edits>>

(* rollback returns, commit_with returns the error and the Transaction is  *)
(* dropped.                                                                *)
RollbackReturn ==
  /\ pc = "rollback" /\ at = 0
  /\ outcome' = IF errors = {} THEN "error" ELSE "recovery"
  /\ pc' = "drop"
  /\ UNCHANGED <<requests, disk, pending, output, backup, at, committed,
                 errors, late, edits, faults>>

----------------------------------------------------------------------------
(* The cleanup loop of commit_with                                         *)

CleanupRemove ==
  /\ pc = "cleanup" /\ at <= Len(pending)
  /\ backup' = [backup EXCEPT ![pending[at]] = "removed"]
  /\ pc' = "cleansync"
  /\ UNCHANGED <<requests, disk, pending, output, at, committed, errors,
                 outcome, late, edits, faults>>

CleanupSync ==
  /\ pc = "cleansync"
  /\ at' = at + 1
  /\ pc' = "cleanup"
  /\ UNCHANGED <<requests, disk, pending, output, backup, committed, errors,
                 outcome, late, edits, faults>>

(* Seeded fault: a failed removal is not reported.                         *)
CleanupFailsSilently ==
  /\ \/ pc = "cleanup" /\ at <= Len(pending)
     \/ pc = "cleansync"
  /\ Fault
  /\ at' = at + 1
  /\ pc' = "cleanup"
  /\ UNCHANGED <<requests, disk, pending, output, backup, committed, errors,
                 outcome, late, edits>>

CleanupFails ==
  /\ \/ pc = "cleanup" /\ at <= Len(pending)
     \/ pc = "cleansync"
  /\ Fault
  /\ errors' = errors \cup {[kind |-> "uncleaned", item |-> pending[at]]}
  /\ at' = at + 1
  /\ pc' = "cleanup"
  /\ UNCHANGED <<requests, disk, pending, output, backup, committed, outcome,
                 late, edits>>

CleanupReturn ==
  /\ pc = "cleanup" /\ at > Len(pending)
  /\ outcome' = IF errors = {} THEN "ok" ELSE "uncleaned"
  /\ pc' = "drop"
  /\ UNCHANGED <<requests, disk, pending, output, backup, at, committed,
                 errors, late, edits, faults>>

----------------------------------------------------------------------------
(* Drop for TemporaryFile: best-effort removal of what is still owned.     *)

DropOwned ==
  /\ pc = "drop"
  /\ \E i \in Requests, left \in {"removed", "stuck"} :
       /\ \/ left = "removed" /\ UNCHANGED faults
          \/ left = "stuck" /\ Fault
       /\ \/ /\ output[i] = "owned"
             /\ output' = [output EXCEPT ![i] = left] /\ UNCHANGED backup
          \/ /\ backup[i] = "owned"
             /\ backup' = [backup EXCEPT ![i] = left] /\ UNCHANGED output
  /\ UNCHANGED <<requests, disk, pending, pc, at, committed, errors, outcome,
                 late, edits>>

DropReturn ==
  /\ pc = "drop"
  /\ \A i \in Requests : output[i] # "owned" /\ backup[i] # "owned"
  /\ pc' = "done"
  /\ UNCHANGED <<requests, disk, pending, output, backup, at, committed,
                 errors, outcome, late, edits, faults>>

----------------------------------------------------------------------------
(* The surroundings                                                        *)

(* Unwinding drops the Transaction without a report; a kill runs no Drop.  *)
Unwind ==
  /\ pc \notin Ended \cup {"drop"}
  /\ pc' = "drop" /\ outcome' = "panic"
  /\ UNCHANGED <<requests, disk, pending, output, backup, at, committed,
                 errors, late, edits, faults>>

Crash ==
  /\ pc \notin Ended
  /\ pc' = "crashed"
  /\ UNCHANGED <<requests, disk, pending, output, backup, at, committed,
                 errors, outcome, late, edits, faults>>

(* Another program writes a source: an editor, a revert, another formatter. *)
EditFile(f) ==
  /\ pc \notin Ended /\ edits < MaxEdits
  /\ \E content \in Edits \cup Text :
       content # disk[f] /\ disk' = [disk EXCEPT ![f] = content]
  /\ late' = IF pc \in {"replace", "restore"} /\ f = Path(Item)
             THEN late \cup {f} ELSE late
  /\ edits' = edits + 1
  /\ UNCHANGED <<requests, pending, output, backup, pc, at, committed,
                 errors, outcome, faults>>

Stage == \/ StageSkip \/ StageValidate \/ StageRefuse \/ StageOutput
         \/ StageBackup \/ StageIoError \/ StageReturn
Commit == \/ CommitValidate \/ CommitRefuse \/ CommitReplace
          \/ CommitReplaceFails \/ CommitSync \/ CommitSyncFails
Rollback == \/ RollbackValidate \/ RollbackKeep \/ RollbackReplace
            \/ RollbackSync \/ RollbackReturn
Cleanup == CleanupRemove \/ CleanupSync \/ CleanupFails \/ CleanupReturn
Drop == DropOwned \/ DropReturn

(* What the process itself does.                                           *)
Process == Stage \/ Commit \/ Rollback \/ Cleanup \/ Drop

Environment == Unwind \/ Crash \/ \E f \in Files : EditFile(f)

Next == Process \/ Environment

Spec == Init /\ [][Next]_vars

(* The process is scheduled as long as it has a step to take.              *)
FairSpec == Spec /\ WF_vars(Process)

----------------------------------------------------------------------------
(* The batch replacement this implements.                                  *)

Replaced  == {i \in Requests : output[i] = "moved" /\ backup[i] # "moved"}
Originals == {i \in Requests : backup[i] = "retained"}
Phase     == IF pc \in RollbackSteps THEN "undoing"
             ELSE IF pc \in CleanupSteps THEN "complete"
             ELSE IF pc \in {"drop"} \cup Ended THEN "over"
             ELSE "replacing"

Batch == INSTANCE BatchReplacement
           WITH Contents <- Edits \cup Text, replaced <- Replaced,
                originals <- Originals, phase <- Phase, verdict <- outcome

----------------------------------------------------------------------------
(* Properties                                                              *)

(* Type invariant.                                                         *)
TypeOK ==
  /\ requests \in Seq(Request)
  /\ disk \in [Files -> Edits \cup Text]
  /\ pending \in Seq(Requests)
  /\ output \in [Requests -> TempState]
  /\ backup \in [Requests -> TempState]
  /\ pc \in Steps
  /\ at \in Nat /\ committed \in Nat
  /\ errors \subseteq ErrorReports
  /\ outcome \in Outcomes
  /\ late \subseteq Files
  /\ edits \in Nat /\ faults \in Nat

(* The original text of a replaced source stays recoverable, also after a  *)
(* kill or an unwinding: its backup exists or was renamed back, until the  *)
(* backups are discarded, which happens only when every pending file was   *)
(* replaced and none was put back (transaction.rs: "Until restoration or   *)
(* successful cleanup, preserve the backup").                              *)
OriginalKept ==
  \A i \in Requests :
    output[i] = "moved" =>
      \/ backup[i] \in {"retained", "moved"}
      \/ /\ backup[i] = "removed"
         /\ \A k \in 1..Len(pending) : /\ output[pending[k]] = "moved"
                                       /\ backup[pending[k]] # "moved"

(* A step of the transaction overwrites another program's edit only if the *)
(* edit fell between validate_source and the rename it authorises, in a    *)
(* commit as in a rollback; an edit made at any other time survives.  The  *)
(* window remains though docs/beta-support-contract.md says that "symbolic *)
(* links are never replaced" and newer edits not overwritten.              *)
EarlierEditsSurvive ==
  [][edits' = edits =>
       \A f \in Files : disk[f] \in Edits /\ f \notin late => disk'[f] = disk[f]]_vars

(* The recovery messages are true: "original preserved at <backup>" names  *)
(* a backup that still exists, and goes on existing.                       *)
ReportsTrue ==
  \A i \in Named({"preserved"}) : output[i] = "moved" /\ backup[i] = "retained"

(* When stage or commit has returned, every temporary file left in the     *)
(* source tree is named by the returned error, or its removal failed.      *)
NothingHidden ==
  pc = "done" /\ outcome # "panic" =>
    \A i \in Requests :
      /\ ~ Exists(output[i]) \/ output[i] = "stuck"
      /\ ~ Exists(backup[i]) \/ backup[i] = "stuck"
           \/ i \in Named({"preserved", "uncleaned"})

(* Without interference from other programs a returned batch is all or     *)
(* nothing: success replaced every changed file; a plain error left every  *)
(* file as it was; an error that speaks of recovery left as they were all  *)
(* files but those whose backup it names.  A batch of distinct files that  *)
(* no fault disturbs is committed.                                         *)
Distinct == \A i, j \in Requests : Path(i) = Path(j) => i = j

AllOrNothing ==
  pc = "done" /\ edits = 0 =>
    /\ outcome \in {"ok", "uncleaned"} =>
         \A i \in Requests : requests[i].changed => disk[Path(i)] = "replacement"
    /\ outcome \in {"refused", "error"} => \A f \in Files : disk[f] = "original"
    /\ outcome = "recovery" =>
         \A f \in Files : \/ disk[f] = "original"
                          \/ \E i \in Named({"preserved"}) : Path(i) = f
    /\ faults = 0 /\ Distinct => outcome \in {"ok", "panic"}

(* The transaction is a batch replacement: it never discards an original   *)
(* before every changed file is replaced, undoes only with the original it *)
(* kept, and the verdict it returns is deserved by what is then replaced   *)
(* and kept, whatever other programs do and whichever calls fail.          *)
ImplementsBatch == Batch!Spec

(* stage, commit and rollback come to an end whatever fails.               *)
Termination == <>(pc \in Ended)
=============================================================================
