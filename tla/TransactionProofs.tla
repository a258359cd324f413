------------------------- MODULE TransactionProofs -------------------------
(***************************************************************************)
(* Proofs, for every set of files, batch of requests and number of edits   *)
(* and faults, of the safety of Transaction.  The invariant IInv says what *)
(* holds of the temporary files in each phase of the code: which pending   *)
(* items were replaced, which of them rollback has still to visit, and     *)
(* what the renames may overwrite.                                         *)
(*                                                                         *)
(* The second part is that every transaction is a batch replacement: the   *)
(* staged items are exactly the changed requests, and the backups still    *)
(* retained at a return are exactly those the errors name.  The latter is  *)
(* what the caller may conclude from what is returned: which temporary     *)
(* files may be left, and, without interference, which files are replaced. *)
(***************************************************************************)
EXTENDS Transaction, SequenceTheorems, TLAPS

Items == 1..Len(pending)

(* No request is staged twice.                                             *)
Injective == \A a, b \in Items : pending[a] = pending[b] => a = b

(* stage: nothing is replaced yet and only earlier requests are pending.   *)
StageInv ==
  pc \in {"stage", "output", "backup"} =>
    /\ at >= 1
    /\ pc # "stage" => at \in Requests
    /\ errors = {}
    /\ committed = 0
    /\ \A k \in Items : pending[k] < at
    /\ \A i \in Requests : output[i] # "moved"

(* commit_with: the first `committed` items, and no others, are replaced.  *)
CommitInv ==
  pc \in CommitSteps =>
    /\ errors = {}
    /\ committed <= Len(pending)
    /\ pc # "sync" => committed < Len(pending)
    /\ \A k \in Items : output[pending[k]] = "moved" <=> k <= committed
    /\ \A i \in Requests : output[i] = "moved" => backup[i] = "retained"

(* rollback: the items still to visit are replaced and keep their backup,  *)
(* and a backup reported as preserved belongs to a visited item.           *)
RollbackInv ==
  pc \in RollbackSteps =>
    /\ at <= Len(pending)
    /\ pc # "rollback" => at >= 1
    /\ \A k \in Items : k <= at => output[pending[k]] = "moved"
    /\ \A k \in Items : k < at \/ (k = at /\ pc # "resync")
                          => backup[pending[k]] = "retained"
    /\ \A i \in Requests : output[i] = "moved" => backup[i] \in {"retained", "moved"}
    /\ \A i \in Named({"preserved"}) : \E k \in Items : k > at /\ pending[k] = i

(* The cleanup loop runs when every pending item is replaced.              *)
CleanupInv ==
  pc \in CleanupSteps =>
    /\ at >= 1
    /\ pc = "cleansync" => at <= Len(pending)
    /\ Named({"preserved"}) = {}
    /\ \A k \in Items : /\ output[pending[k]] = "moved"
                        /\ backup[pending[k]] \in {"retained", "removed"}

(* A rename finds the validated text, or an edit made since.               *)
WindowInv ==
  /\ pc = "replace" => LET f == Path(pending[committed + 1])
                       IN  disk[f] = "original" \/ f \in late
  /\ pc = "restore" => LET f == Path(pending[at])
                       IN  disk[f] = "replacement" \/ f \in late

IInv == /\ TypeOK /\ Injective /\ StageInv /\ CommitInv /\ RollbackInv
        /\ CleanupInv /\ WindowInv /\ OriginalKept /\ ReportsTrue

USE DEF Text, TempState, Steps, CommitSteps, RollbackSteps, CleanupSteps, Ended,
        Requests, Items

----------------------------------------------------------------------------
(* One lemma per function of the code: its steps preserve the invariant.   *)

(* Transaction::stage replaces nothing and retains nothing. *)
LEMMA StageStep == IInv /\ Stage => IInv'
<1> SUFFICES ASSUME IInv, Stage PROVE IInv'
  OBVIOUS
<1> USE DEF IInv
<1>1. CASE StageSkip
  <2>1. TypeOK'
    BY <1>1 DEF StageSkip, TypeOK, StageInv
  <2>2. Injective' /\ StageInv' /\ CommitInv' /\ RollbackInv'
        /\ CleanupInv' /\ WindowInv'
    BY <1>1
    DEF StageSkip, TypeOK, Injective, StageInv, CommitInv, RollbackInv,
        CleanupInv, WindowInv
  <2>3. OriginalKept' /\ ReportsTrue'
    BY <1>1 DEF StageSkip, OriginalKept, ReportsTrue, Named
  <2> QED
    BY <2>1, <2>2, <2>3
<1>2. CASE StageValidate
  <2>1. TypeOK'
    BY <1>2 DEF StageValidate, TypeOK, StageInv
  <2>2. Injective' /\ StageInv' /\ CommitInv' /\ RollbackInv'
        /\ CleanupInv' /\ WindowInv'
    BY <1>2
    DEF StageValidate, TypeOK, Injective, StageInv, CommitInv, RollbackInv,
        CleanupInv, WindowInv
  <2>3. OriginalKept' /\ ReportsTrue'
    BY <1>2 DEF StageValidate, OriginalKept, ReportsTrue, Named
  <2> QED
    BY <2>1, <2>2, <2>3
<1>3. CASE StageRefuse
  <2>1. TypeOK'
    BY <1>3 DEF StageRefuse, TypeOK, Outcomes, StageInv, Fault
  <2>2. Injective' /\ StageInv' /\ CommitInv' /\ RollbackInv'
        /\ CleanupInv' /\ WindowInv'
    BY <1>3
    DEF StageRefuse, Injective, StageInv, CommitInv, RollbackInv, CleanupInv,
        WindowInv
  <2>3. OriginalKept' /\ ReportsTrue'
    BY <1>3 DEF StageRefuse, OriginalKept, ReportsTrue, Named
  <2> QED
    BY <2>1, <2>2, <2>3
<1>4. CASE StageOutput
  <2>1. TypeOK'
    BY <1>4 DEF StageOutput, TypeOK, StageInv
  <2>2. Injective' /\ StageInv' /\ CommitInv' /\ RollbackInv'
        /\ CleanupInv' /\ WindowInv'
    BY <1>4
    DEF StageOutput, Injective, StageInv, CommitInv, RollbackInv, CleanupInv,
        WindowInv
  <2>3. OriginalKept' /\ ReportsTrue'
    BY <1>4 DEF StageOutput, OriginalKept, ReportsTrue, Named, StageInv
  <2> QED
    BY <2>1, <2>2, <2>3
<1>5. CASE StageBackup
  <2>1. TypeOK'
    BY <1>5 DEF StageBackup, TypeOK, StageInv
  <2>2. Injective' /\ StageInv' /\ CommitInv' /\ RollbackInv'
        /\ CleanupInv' /\ WindowInv'
    BY <1>5
    DEF StageBackup, TypeOK, Injective, StageInv, CommitInv, RollbackInv,
        CleanupInv, WindowInv
  <2>3. OriginalKept' /\ ReportsTrue'
    BY <1>5 DEF StageBackup, OriginalKept, ReportsTrue, Named, StageInv
  <2> QED
    BY <2>1, <2>2, <2>3
<1>6. CASE StageIoError
  <2>1. TypeOK'
    BY <1>6
    DEF StageIoError, TypeOK, Outcomes, ErrorReports, Request, StageInv, Fault
  <2>2. Injective' /\ StageInv' /\ CommitInv' /\ RollbackInv'
        /\ CleanupInv' /\ WindowInv'
    BY <1>6
    DEF StageIoError, Injective, StageInv, CommitInv, RollbackInv, CleanupInv,
        WindowInv
  <2>3. OriginalKept' /\ ReportsTrue'
    BY <1>6 DEF StageIoError, TypeOK, OriginalKept, ReportsTrue, Named, StageInv
  <2> QED
    BY <2>1, <2>2, <2>3
<1>7. CASE StageReturn
  <2>1. /\ pending # <<>> => 0 < Len(pending)
        /\ pending = <<>> => Len(pending) = 0
    OBVIOUS
  <2>2. TypeOK'
    BY <1>7 DEF StageReturn, TypeOK, ErrorReports
  <2>3. Injective' /\ StageInv' /\ CommitInv' /\ RollbackInv'
        /\ CleanupInv' /\ WindowInv'
    BY <1>7
    DEF StageReturn, TypeOK, Injective, StageInv, CommitInv, RollbackInv,
        CleanupInv, WindowInv, Named
  <2>4. OriginalKept' /\ ReportsTrue'
    BY <1>7 DEF StageReturn, OriginalKept, ReportsTrue, Named
  <2> QED
    BY <2>2, <2>3, <2>4
<1> QED
  BY <1>1, <1>2, <1>3, <1>4, <1>5, <1>6, <1>7 DEF Stage

(* The replacement loop retains the backup of every file it replaces. *)
LEMMA CommitStep == IInv /\ Commit => IInv'
<1> SUFFICES ASSUME IInv, Commit PROVE IInv'
  OBVIOUS
<1> USE DEF IInv
<1>1. CASE CommitValidate
  <2>1. TypeOK'
    BY <1>1 DEF CommitValidate, TypeOK, CommitInv
  <2>2. Injective' /\ StageInv' /\ CommitInv' /\ RollbackInv'
        /\ CleanupInv' /\ WindowInv'
    BY <1>1
    DEF CommitValidate, Injective, StageInv, CommitInv, RollbackInv, CleanupInv,
        WindowInv, Valid, Path
  <2>3. OriginalKept' /\ ReportsTrue'
    BY <1>1 DEF CommitValidate, OriginalKept, ReportsTrue, Named
  <2> QED
    BY <2>1, <2>2, <2>3
<1>2. CASE CommitRefuse
  <2>1. TypeOK'
    BY <1>2 DEF CommitRefuse, TypeOK, CommitInv, Fault, StartRollback
  <2>2. Injective' /\ StageInv' /\ CommitInv' /\ RollbackInv'
        /\ CleanupInv' /\ WindowInv'
    BY <1>2
    DEF CommitRefuse, TypeOK, Injective, StageInv, CommitInv, RollbackInv,
        CleanupInv, WindowInv, Named, Fault, StartRollback
  <2>3. OriginalKept' /\ ReportsTrue'
    BY <1>2 DEF CommitRefuse, OriginalKept, ReportsTrue, Named
  <2> QED
    BY <2>1, <2>2, <2>3
<1>3. CASE CommitReplace
  <2> DEFINE i == pending[committed + 1]
  <2>1. /\ Item = i /\ i \in Requests /\ committed + 1 \in Items
    BY <1>3 DEF CommitReplace, Item, TypeOK, CommitInv
  <2>2. /\ output' = [output EXCEPT ![i] = "moved"]
        /\ backup' = [backup EXCEPT ![i] = "retained"]
        /\ \A k \in Items : pending[k] = i => k = committed + 1
    BY <1>3, <2>1 DEF CommitReplace, Injective
  <2> HIDE DEF i
  <2>3. TypeOK'
    <3>1. disk' \in [Files -> Edits \cup Text]
      BY <1>3 DEF CommitReplace, TypeOK
    <3>2. output' \in [Requests -> TempState] /\ backup' \in [Requests -> TempState]
      BY <2>2 DEF TypeOK
    <3> QED
      BY <1>3, <3>1, <3>2 DEF CommitReplace, TypeOK, ErrorReports
  <2>4. CommitInv'
    <3>1. \A k \in Items : output'[pending[k]] = "moved" <=> k <= committed + 1
      BY <1>3, <2>2 DEF TypeOK, CommitInv, CommitReplace, i
    <3>2. \A j \in Requests : output'[j] = "moved" => backup'[j] = "retained"
      BY <1>3 DEF TypeOK, CommitInv, CommitReplace
    <3> QED
      BY <1>3, <3>1 DEF TypeOK, CommitInv, CommitReplace
  <2>5. Injective' /\ StageInv' /\ RollbackInv' /\ CleanupInv' /\ WindowInv'
    BY <1>3
    DEF CommitReplace, Injective, StageInv, RollbackInv, CleanupInv, WindowInv
  <2>6. OriginalKept' /\ ReportsTrue'
    BY <1>3, <2>2 DEF CommitReplace, TypeOK, OriginalKept, ReportsTrue, Named
  <2> QED
    BY <2>3, <2>4, <2>5, <2>6
<1>4. CASE CommitReplaceFails
  <2>1. TypeOK'
    BY <1>4 DEF CommitReplaceFails, TypeOK, CommitInv, Fault, StartRollback
  <2>2. Injective' /\ StageInv' /\ CommitInv' /\ RollbackInv'
        /\ CleanupInv' /\ WindowInv'
    BY <1>4
    DEF CommitReplaceFails, TypeOK, Injective, StageInv, CommitInv, RollbackInv,
        CleanupInv, WindowInv, Named, StartRollback
  <2>3. OriginalKept' /\ ReportsTrue'
    BY <1>4 DEF CommitReplaceFails, OriginalKept, ReportsTrue, Named
  <2> QED
    BY <2>1, <2>2, <2>3
<1>5. CASE CommitSync
  <2>1. TypeOK'
    BY <1>5 DEF CommitSync, TypeOK, CommitInv
  <2>2. Injective' /\ StageInv' /\ CommitInv' /\ RollbackInv'
        /\ CleanupInv' /\ WindowInv'
    BY <1>5
    DEF CommitSync, TypeOK, Injective, StageInv, CommitInv, RollbackInv,
        CleanupInv, WindowInv, Named
  <2>3. OriginalKept' /\ ReportsTrue'
    BY <1>5 DEF CommitSync, OriginalKept, ReportsTrue, Named
  <2> QED
    BY <2>1, <2>2, <2>3
<1>6. CASE CommitSyncFails
  <2>1. TypeOK'
    BY <1>6 DEF CommitSyncFails, TypeOK, CommitInv, Fault, StartRollback
  <2>2. Injective' /\ StageInv' /\ CommitInv' /\ RollbackInv'
        /\ CleanupInv' /\ WindowInv'
    BY <1>6
    DEF CommitSyncFails, TypeOK, Injective, StageInv, CommitInv, RollbackInv,
        CleanupInv, WindowInv, Named, StartRollback
  <2>3. OriginalKept' /\ ReportsTrue'
    BY <1>6 DEF CommitSyncFails, OriginalKept, ReportsTrue, Named
  <2> QED
    BY <2>1, <2>2, <2>3
<1> QED
  BY <1>1, <1>2, <1>3, <1>4, <1>5, <1>6 DEF Commit

(* rollback moves a backup only over the item it visits. *)
LEMMA RollbackStep == IInv /\ Rollback => IInv'
<1> SUFFICES ASSUME IInv, Rollback PROVE IInv'
  OBVIOUS
<1> USE DEF IInv
<1>1. CASE RollbackValidate
  <2>1. TypeOK'
    BY <1>1 DEF RollbackValidate, TypeOK, ErrorReports
  <2>2. Injective' /\ StageInv' /\ CommitInv' /\ RollbackInv'
        /\ CleanupInv' /\ WindowInv'
    BY <1>1
    DEF RollbackValidate, TypeOK, Injective, StageInv, CommitInv, RollbackInv,
        CleanupInv, WindowInv, Named, Valid, Path
  <2>3. OriginalKept' /\ ReportsTrue'
    BY <1>1 DEF RollbackValidate, OriginalKept, ReportsTrue, Named
  <2> QED
    BY <2>1, <2>2, <2>3
<1>2. CASE RollbackKeep
  <2>1. /\ at \in Items /\ pending[at] \in Requests
        /\ pending[at] \in Nat \ {0} /\ at - 1 \in Nat
    BY <1>2 DEF RollbackKeep, TypeOK, RollbackInv
  <2>2. Named({"preserved"})' = Named({"preserved"}) \cup {pending[at]}
    <3> DEFINE new == [kind |-> "preserved", item |-> pending[at]]
    <3>1. errors' = errors \cup {new}
      BY <1>2 DEF RollbackKeep
    <3>2. new.kind \in {"preserved"} /\ new.item = pending[at]
      OBVIOUS
    <3> HIDE DEF new
    <3> QED
      BY <3>1, <3>2 DEF Named
  <2>3. TypeOK'
    <3>1. errors' \subseteq ErrorReports
      BY <1>2, <2>1 DEF RollbackKeep, TypeOK, ErrorReports
    <3>2. at' \in Nat /\ pc' \in Steps
      BY <1>2, <2>1 DEF RollbackKeep, Steps
    <3>3. faults' \in Nat
      BY <1>2 DEF RollbackKeep, TypeOK, Fault
    <3>4. UNCHANGED <<requests, disk, pending, output, backup, committed,
                      outcome, late, edits>>
      BY <1>2 DEF RollbackKeep
    <3>5. Requests' = Requests /\ ErrorReports' = ErrorReports
      BY <3>4 DEF Requests, ErrorReports
    <3> QED
      BY <3>1, <3>2, <3>3, <3>4, <3>5 DEF TypeOK
  <2>4. RollbackInv'
    <3>1. \A j \in Named({"preserved"})' : \E k \in Items : k > at - 1 /\ pending[k] = j
      BY <1>2, <2>1, <2>2 DEF RollbackKeep, RollbackInv
    <3> QED
      BY <1>2, <2>1, <3>1 DEF RollbackKeep, RollbackInv
  <2>5. Injective' /\ StageInv' /\ CommitInv' /\ CleanupInv' /\ WindowInv'
    BY <1>2
    DEF RollbackKeep, Injective, StageInv, CommitInv, CleanupInv, WindowInv
  <2>6. OriginalKept'
    BY <1>2 DEF RollbackKeep, OriginalKept
  <2>7. ReportsTrue'
    BY <1>2, <2>1, <2>2 DEF RollbackKeep, ReportsTrue, RollbackInv
  <2> QED
    BY <2>3, <2>4, <2>5, <2>6, <2>7
<1>3. CASE RollbackReplace
  <2> DEFINE i == pending[at]
  <2>1. /\ Item = i /\ at \in Items /\ i \in Requests
    BY <1>3 DEF RollbackReplace, Item, TypeOK, RollbackInv
  <2>2. /\ backup' = [backup EXCEPT ![i] = "moved"]
        /\ Named({"preserved"})' = Named({"preserved"})
        /\ \A k \in Items : pending[k] = i => k = at
    BY <1>3, <2>1 DEF RollbackReplace, Injective, Named
  <2>3. TypeOK'
    BY <1>3 DEF RollbackReplace, TypeOK, ErrorReports
  <2>4. RollbackInv'
    <3>1. \A k \in Items : k < at => backup'[pending[k]] = "retained"
      BY <1>3, <2>2 DEF RollbackReplace, RollbackInv
    <3>2. \A j \in Requests : output[j] = "moved" => backup'[j] \in {"retained", "moved"}
      BY <1>3 DEF RollbackReplace, RollbackInv
    <3> QED
      BY <1>3, <2>2 DEF RollbackReplace, RollbackInv
  <2>5. Injective' /\ StageInv' /\ CommitInv' /\ CleanupInv' /\ WindowInv'
    BY <1>3
    DEF RollbackReplace, Injective, StageInv, CommitInv, CleanupInv, WindowInv
  <2>6. OriginalKept'
    BY <1>3 DEF RollbackReplace, OriginalKept, RollbackInv
  <2>7. ReportsTrue'
    <3>1. i \notin Named({"preserved"})
      BY <1>3, <2>2 DEF RollbackReplace, RollbackInv
    <3>2. \A j \in Named({"preserved"}) : j \in Requests
      BY <1>3 DEF RollbackReplace, TypeOK, RollbackInv
    <3> QED
      BY <1>3, <2>2, <3>1 DEF RollbackReplace, ReportsTrue
  <2> QED
    BY <2>3, <2>4, <2>5, <2>6, <2>7
<1>4. CASE RollbackSync
  <2>1. at \in Items /\ pending[at] \in Nat \ {0} /\ at - 1 \in Nat
    BY <1>4 DEF RollbackSync, TypeOK, RollbackInv
  <2>2. Named({"preserved"})' = Named({"preserved"})
    BY <1>4 DEF RollbackSync, Named
  <2>3. TypeOK'
    BY <1>4, <2>1 DEF RollbackSync, TypeOK, ErrorReports, Fault
  <2>4. RollbackInv'
    BY <1>4, <2>1, <2>2 DEF RollbackSync, RollbackInv
  <2>5. Injective' /\ StageInv' /\ CommitInv' /\ CleanupInv' /\ WindowInv'
    BY <1>4
    DEF RollbackSync, Injective, StageInv, CommitInv, CleanupInv, WindowInv
  <2>6. OriginalKept' /\ ReportsTrue'
    BY <1>4, <2>2 DEF RollbackSync, OriginalKept, ReportsTrue
  <2> QED
    BY <2>3, <2>4, <2>5, <2>6
<1>5. CASE RollbackReturn
  <2>1. TypeOK'
    BY <1>5 DEF RollbackReturn, TypeOK, Outcomes, ErrorReports
  <2>2. Injective' /\ StageInv' /\ CommitInv' /\ RollbackInv'
        /\ CleanupInv' /\ WindowInv'
    BY <1>5
    DEF RollbackReturn, Injective, StageInv, CommitInv, RollbackInv, CleanupInv,
        WindowInv
  <2>3. OriginalKept' /\ ReportsTrue'
    BY <1>5 DEF RollbackReturn, OriginalKept, ReportsTrue, Named
  <2> QED
    BY <2>1, <2>2, <2>3
<1> QED
  BY <1>1, <1>2, <1>3, <1>4, <1>5 DEF Rollback

(* Backups are discarded once every pending item is replaced. *)
LEMMA CleanupStep == IInv /\ Cleanup => IInv'
<1> SUFFICES ASSUME IInv, Cleanup PROVE IInv'
  OBVIOUS
<1> USE DEF IInv
<1>1. CASE CleanupRemove
  <2> DEFINE i == pending[at]
  <2>1. /\ at \in Items /\ i \in Requests
        /\ backup' = [backup EXCEPT ![i] = "removed"]
    BY <1>1 DEF CleanupRemove, TypeOK, CleanupInv
  <2>7. Named({"preserved"})' = {}
    BY <1>1 DEF CleanupRemove, CleanupInv, Named
  <2>2. TypeOK'
    BY <1>1 DEF CleanupRemove, TypeOK, ErrorReports
  <2>3. CleanupInv'
    <3>1. \A k \in Items : backup'[pending[k]] \in {"retained", "removed"}
      BY <1>1 DEF CleanupRemove, CleanupInv
    <3> QED
      BY <1>1, <2>7 DEF CleanupRemove, CleanupInv
  <2>4. Injective' /\ StageInv' /\ CommitInv' /\ RollbackInv' /\ WindowInv'
    BY <1>1
    DEF CleanupRemove, Injective, StageInv, CommitInv, RollbackInv, WindowInv
  <2>5. OriginalKept'
    BY <1>1 DEF CleanupRemove, OriginalKept, CleanupInv
  <2>6. ReportsTrue'
    BY <2>7 DEF ReportsTrue
  <2> QED
    BY <2>2, <2>3, <2>4, <2>5, <2>6
<1>2. CASE CleanupSync
  <2>1. TypeOK' /\ at + 1 >= 1
    BY <1>2 DEF CleanupSync, TypeOK, ErrorReports
  <2>2. Named({"preserved"})' = {}
    BY <1>2 DEF CleanupSync, CleanupInv, Named
  <2>3. CleanupInv'
    BY <1>2, <2>1, <2>2 DEF CleanupSync, CleanupInv
  <2>4. Injective' /\ StageInv' /\ CommitInv' /\ RollbackInv' /\ WindowInv'
    BY <1>2
    DEF CleanupSync, Injective, StageInv, CommitInv, RollbackInv, WindowInv
  <2>5. OriginalKept' /\ ReportsTrue'
    BY <1>2, <2>2 DEF CleanupSync, OriginalKept, ReportsTrue
  <2> QED
    BY <2>1, <2>3, <2>4, <2>5
<1>3. CASE CleanupFails
  <2>1. at \in Items /\ pending[at] \in Nat \ {0} /\ at + 1 >= 1
    BY <1>3 DEF CleanupFails, TypeOK, CleanupInv
  <2>2. Named({"preserved"})' = {}
    BY <1>3 DEF CleanupFails, CleanupInv, Named
  <2>3. TypeOK'
    BY <1>3, <2>1 DEF CleanupFails, TypeOK, ErrorReports, Fault
  <2>4. CleanupInv'
    BY <1>3, <2>1, <2>2 DEF CleanupFails, CleanupInv
  <2>5. Injective' /\ StageInv' /\ CommitInv' /\ RollbackInv' /\ WindowInv'
    BY <1>3
    DEF CleanupFails, Injective, StageInv, CommitInv, RollbackInv, WindowInv
  <2>6. OriginalKept' /\ ReportsTrue'
    BY <1>3, <2>2 DEF CleanupFails, OriginalKept, ReportsTrue
  <2> QED
    BY <2>3, <2>4, <2>5, <2>6
<1>4. CASE CleanupReturn
  <2>1. TypeOK'
    BY <1>4 DEF CleanupReturn, TypeOK, Outcomes, ErrorReports
  <2>2. Injective' /\ StageInv' /\ CommitInv' /\ RollbackInv'
        /\ CleanupInv' /\ WindowInv'
    BY <1>4
    DEF CleanupReturn, Injective, StageInv, CommitInv, RollbackInv, CleanupInv,
        WindowInv
  <2>3. OriginalKept' /\ ReportsTrue'
    BY <1>4 DEF CleanupReturn, OriginalKept, ReportsTrue, Named
  <2> QED
    BY <2>1, <2>2, <2>3
<1> QED
  BY <1>1, <1>2, <1>3, <1>4 DEF Cleanup

(* Drop removes no backup that was retained. *)
LEMMA DropStep == IInv /\ Drop => IInv'
<1> SUFFICES ASSUME IInv, Drop PROVE IInv'
  OBVIOUS
<1> USE DEF IInv
<1>1. CASE DropOwned
  <2>1. PICK i \in Requests, left \in {"removed", "stuck"} :
          /\ faults' \in Nat
          /\ \/ /\ output[i] = "owned"
                /\ output' = [output EXCEPT ![i] = left] /\ backup' = backup
             \/ /\ backup[i] = "owned"
                /\ backup' = [backup EXCEPT ![i] = left] /\ output' = output
    <3>1. faults' \in Nat
      BY <1>1 DEF DropOwned, TypeOK, Fault
    <3> QED
      BY <1>1, <3>1, Zenon DEF DropOwned
  <2>2. TypeOK'
    <3>1. output' \in [Requests -> TempState] /\ backup' \in [Requests -> TempState]
      BY <2>1 DEF TypeOK
    <3> QED
      BY <1>1, <2>1 DEF DropOwned, TypeOK, ErrorReports
  <2>3. /\ \A j \in Requests : output'[j] = "moved" <=> output[j] = "moved"
        /\ \A j \in Requests :
             backup'[j] # backup[j] =>
               backup[j] = "owned" /\ backup'[j] \in {"removed", "stuck"}
    <3>1. left # "moved" /\ left # "owned"
      OBVIOUS
    <3>2. output \in [Requests -> TempState] /\ backup \in [Requests -> TempState]
      BY DEF TypeOK
    <3>3. CASE output[i] = "owned" /\ output' = [output EXCEPT ![i] = left] /\ backup' = backup
      BY <3>3
    <3>4. CASE backup[i] = "owned" /\ backup' = [backup EXCEPT ![i] = left] /\ output' = output
      BY <3>4
    <3> QED
      BY <2>1, <3>3, <3>4
  <2>4. pending' = pending /\ requests' = requests /\ errors' = errors
        /\ \A k \in Items : pending[k] \in Requests
    BY <1>1 DEF DropOwned, TypeOK
  <2>5. Injective' /\ StageInv' /\ CommitInv' /\ RollbackInv'
        /\ CleanupInv' /\ WindowInv'
    BY <1>1
    DEF DropOwned, Injective, StageInv, CommitInv, RollbackInv, CleanupInv,
        WindowInv
  <2>6. OriginalKept'
    BY <2>3, <2>4 DEF OriginalKept
  <2>7. ReportsTrue'
    <3>1. Named({"preserved"})' = Named({"preserved"})
      BY <2>4 DEF Named
    <3>2. \A j \in Named({"preserved"}) : j \in Requests
      BY DEF TypeOK, Named, ErrorReports
    <3> QED
      BY <2>3, <3>1, <3>2 DEF ReportsTrue
  <2> QED
    BY <2>2, <2>5, <2>6, <2>7
<1>2. CASE DropReturn
  <2>1. TypeOK'
    BY <1>2 DEF DropReturn, TypeOK, ErrorReports
  <2>2. Injective' /\ StageInv' /\ CommitInv' /\ RollbackInv'
        /\ CleanupInv' /\ WindowInv'
    BY <1>2
    DEF DropReturn, Injective, StageInv, CommitInv, RollbackInv, CleanupInv,
        WindowInv
  <2>3. OriginalKept' /\ ReportsTrue'
    BY <1>2 DEF DropReturn, OriginalKept, ReportsTrue, Named
  <2> QED
    BY <2>1, <2>2, <2>3
<1> QED
  BY <1>1, <1>2 DEF Drop

(* Unwinding, a kill and other programs leave the temporary files alone. *)
LEMMA EnvironmentStep == IInv /\ Environment => IInv'
<1> SUFFICES ASSUME IInv, Environment PROVE IInv'
  OBVIOUS
<1> USE DEF IInv
<1>1. CASE Unwind
  <2>1. TypeOK'
    BY <1>1 DEF Unwind, TypeOK, Outcomes, ErrorReports
  <2>2. Injective' /\ StageInv' /\ CommitInv' /\ RollbackInv'
        /\ CleanupInv' /\ WindowInv'
    BY <1>1
    DEF Unwind, Injective, StageInv, CommitInv, RollbackInv, CleanupInv,
        WindowInv
  <2>3. OriginalKept' /\ ReportsTrue'
    BY <1>1 DEF Unwind, OriginalKept, ReportsTrue, Named
  <2> QED
    BY <2>1, <2>2, <2>3
<1>2. CASE Crash
  <2>1. TypeOK'
    BY <1>2 DEF Crash, TypeOK, ErrorReports
  <2>2. Injective' /\ StageInv' /\ CommitInv' /\ RollbackInv'
        /\ CleanupInv' /\ WindowInv'
    BY <1>2
    DEF Crash, Injective, StageInv, CommitInv, RollbackInv, CleanupInv,
        WindowInv
  <2>3. OriginalKept' /\ ReportsTrue'
    BY <1>2 DEF Crash, OriginalKept, ReportsTrue, Named
  <2> QED
    BY <2>1, <2>2, <2>3
<1>3. CASE \E f \in Files : EditFile(f)
  <2>1. PICK f \in Files : EditFile(f)
    BY <1>3
  <2>2. TypeOK'
    BY <2>1 DEF EditFile, TypeOK, ErrorReports
  <2>3. Injective' /\ StageInv' /\ CommitInv' /\ RollbackInv'
        /\ CleanupInv' /\ WindowInv'
    <3> USE <2>1 DEF EditFile
    <3>1. Injective' /\ StageInv'
      BY DEF Injective, StageInv
    <3>2. CommitInv'
      BY DEF CommitInv
    <3>3. RollbackInv' /\ CleanupInv'
      BY DEF RollbackInv, CleanupInv, Named
    <3>4. WindowInv'
      <4>1. CASE pc = "replace"
        BY DEF WindowInv, Item, Path
      <4>2. CASE pc = "restore"
        BY DEF WindowInv, Item, Path
      <4> QED
        BY <4>1, <4>2 DEF WindowInv
    <3> QED
      BY <3>1, <3>2, <3>3, <3>4
  <2>4. OriginalKept' /\ ReportsTrue'
    BY <2>1 DEF EditFile, OriginalKept, ReportsTrue, Named
  <2> QED
    BY <2>2, <2>3, <2>4
<1> QED
  BY <1>1, <1>2, <1>3 DEF Environment

----------------------------------------------------------------------------
(* The invariant holds before anything is staged.                          *)
LEMMA Initial == Init => IInv
<1> SUFFICES ASSUME Init PROVE IInv
  OBVIOUS
<1> USE DEF Init
<1>1. TypeOK
  BY RequestAssumption DEF TypeOK, Outcomes
<1>2. Injective /\ StageInv /\ CommitInv /\ RollbackInv /\ CleanupInv
      /\ WindowInv
  BY DEF Injective, StageInv, CommitInv, RollbackInv, CleanupInv, WindowInv
<1>3. OriginalKept /\ ReportsTrue
  BY DEF OriginalKept, ReportsTrue, Named
<1> QED
  BY <1>1, <1>2, <1>3 DEF IInv

(* Every step keeps the invariant.                                         *)
LEMMA Inductive == IInv /\ [Next]_vars => IInv'
<1> SUFFICES ASSUME IInv, [Next]_vars PROVE IInv'
  OBVIOUS
<1>1. CASE UNCHANGED vars
  <2> USE <1>1 DEF vars, IInv
  <2>1. TypeOK'
    BY DEF TypeOK, ErrorReports
  <2>2. Injective' /\ StageInv' /\ CommitInv'
    BY DEF Injective, StageInv, CommitInv
  <2>3. RollbackInv' /\ CleanupInv'
    BY DEF RollbackInv, CleanupInv, Named
  <2>4. WindowInv' /\ OriginalKept' /\ ReportsTrue'
    BY DEF WindowInv, OriginalKept, ReportsTrue, Named, Path
  <2> QED
    BY <2>1, <2>2, <2>3, <2>4
<1>2. CASE Process
  BY <1>2, StageStep, CommitStep, RollbackStep, CleanupStep, DropStep
  DEF Process
<1>3. CASE Environment
  BY <1>3, EnvironmentStep
<1> QED
  BY <1>1, <1>2, <1>3 DEF Next

(* In every reachable state the temporary files are as the phase of the    *)
(* code says.                                                              *)
THEOREM Invariance == Spec => []IInv
  BY Initial, Inductive, PTL DEF Spec

(* Every variable keeps its type, for any batch and any interference.      *)
THEOREM TypeCorrect == Spec => []TypeOK
<1>1. IInv => TypeOK
  BY DEF IInv
<1> QED
  BY Invariance, <1>1, PTL

(* The original of a replaced file is recoverable until the whole batch is *)
(* replaced, whatever fails and wherever the process stops.                *)
THEOREM OriginalsRecoverable == Spec => []OriginalKept
<1>1. IInv => OriginalKept
  BY DEF IInv
<1> QED
  BY Invariance, <1>1, PTL

(* A backup an error message calls preserved exists from then on.          *)
THEOREM RecoveryMessagesTrue == Spec => []ReportsTrue
<1>1. IInv => ReportsTrue
  BY DEF IInv
<1> QED
  BY Invariance, <1>1, PTL

(* Only an edit between a validation and the rename it authorises can be   *)
(* overwritten.                                                            *)
THEOREM OnlyWindowEditsLost == Spec => EarlierEditsSurvive
<1> DEFINE Keeps == edits' = edits =>
              \A f \in Files : disk[f] \in Edits /\ f \notin late => disk'[f] = disk[f]
<1>1. IInv /\ [Next]_vars => Keeps
  <2> SUFFICES ASSUME IInv, [Next]_vars, edits' = edits,
                      NEW f \in Files, disk[f] \in Edits, f \notin late
               PROVE  disk'[f] = disk[f]
    OBVIOUS
  <2>1. CASE CommitReplace
    <3>1. Path(Item) # f
      BY <2>1, EditsAssumption DEF CommitReplace, Item, IInv, WindowInv
    <3> QED
      BY <2>1, <3>1 DEF CommitReplace
  <2>2. CASE RollbackReplace
    <3>1. Path(Item) # f
      BY <2>2, EditsAssumption DEF RollbackReplace, Item, IInv, WindowInv
    <3> QED
      BY <2>2, <3>1 DEF RollbackReplace
  <2>3. CASE UNCHANGED disk
    BY <2>3
  <2>4. CASE \E g \in Files : EditFile(g)
    BY <2>4 DEF EditFile
  <2> QED
    BY <2>1, <2>2, <2>3, <2>4
    DEF Next, Process, Environment, Stage, Commit, Rollback, Cleanup, Drop, vars,
        StageSkip, StageValidate, StageRefuse, StageOutput, StageBackup,
        StageIoError, StageReturn, CommitValidate, CommitRefuse,
        CommitReplaceFails, CommitSync, CommitSyncFails, RollbackValidate,
        RollbackKeep, RollbackSync, RollbackReturn, CleanupRemove, CleanupSync,
        CleanupFails, CleanupReturn, DropOwned, DropReturn, Unwind, Crash
<1> QED
  BY Invariance, <1>1, PTL DEF Spec, EarlierEditsSurvive

-----------------------------------------------------------------------------
(* Every transaction is a batch replacement.                               *)

Staged(i) == \E k \in Items : pending[k] = i

(* What is staged is changed, and stage leaves no changed request out.     *)
StagedInv ==
  /\ \A k \in Items : requests[pending[k]].changed
  /\ pc \in {"output", "backup"} => requests[at].changed
  /\ pc \in {"stage", "output", "backup"} =>
       \A i \in Requests : i < at /\ requests[i].changed => Staged(i)
  /\ pc \in CommitSteps \cup RollbackSteps \cup CleanupSteps =>
       \A i \in Requests : requests[i].changed => Staged(i)

(* A retained backup belongs to a replaced item, which the current loop    *)
(* has still to visit or which an error names.                             *)
KeptInv ==
  /\ \A i \in Requests : /\ backup[i] \in {"retained", "moved"} => output[i] = "moved"
                         /\ output[i] = "moved" => Staged(i)
  /\ pc \in RollbackSteps =>
       \A i \in Requests : backup[i] = "retained" =>
         \/ i \in Named({"preserved"})
         \/ \E k \in Items : /\ pending[k] = i
                             /\ k < at \/ (k = at /\ pc # "resync")
  /\ pc = "cleansync" => backup[pending[at]] = "removed"
  /\ pc \in CleanupSteps =>
       \A i \in Requests : backup[i] = "retained" =>
         \/ i \in Named({"uncleaned"})
         \/ \E k \in Items : pending[k] = i /\ k >= at

(* Nothing is returned before the end.                                     *)
UntoldInv == pc \notin {"drop"} \cup Ended => outcome = "none"

ReplacementInv == StagedInv /\ KeptInv /\ UntoldInv

USE DEF Text, TempState, Steps, CommitSteps, RollbackSteps, CleanupSteps, Ended,
        Requests, Items

----------------------------------------------------------------------------
(* One lemma per function of the code: its steps preserve the invariant.   *)

(* Transaction::stage: a request is skipped only if it is not changed.     *)
LEMMA StageKeeps == IInv /\ ReplacementInv /\ Stage => ReplacementInv'
<1> SUFFICES ASSUME IInv, ReplacementInv, Stage PROVE ReplacementInv'
  OBVIOUS
<1> USE DEF IInv, ReplacementInv
<1>1. CASE StageSkip
  BY <1>1 DEF StageSkip, TypeOK, StagedInv, KeptInv, UntoldInv, Staged, Named
<1>2. CASE StageValidate
  BY <1>2 DEF StageValidate, TypeOK, StagedInv, KeptInv, UntoldInv, Staged, Named
<1>3. CASE StageRefuse
  BY <1>3 DEF StageRefuse, StagedInv, KeptInv, UntoldInv, Staged
<1>4. CASE StageOutput
  <2>1. /\ at \in Requests
        /\ \A i \in Requests : output'[i] = "moved" <=> output[i] = "moved"
    BY <1>4 DEF StageOutput, TypeOK, StageInv
  <2>2. StagedInv'
    BY <1>4 DEF StageOutput, StagedInv, Staged
  <2>3. KeptInv' /\ UntoldInv'
    BY <1>4, <2>1 DEF StageOutput, KeptInv, UntoldInv, Staged
  <2> QED
    BY <2>2, <2>3
<1>5. CASE StageBackup
  <2>1. /\ pending' = Append(pending, at) /\ at \in Requests
        /\ Len(pending') = Len(pending) + 1
        /\ \A k \in Items : pending'[k] = pending[k]
        /\ pending'[Len(pending) + 1] = at
    BY <1>5 DEF StageBackup, TypeOK, StageInv
  <2>2. \A i : Staged(i) \/ i = at <=> Staged(i)'
    BY <2>1 DEF Staged, TypeOK
  <2>3. StagedInv'
    BY <1>5, <2>1, <2>2 DEF StageBackup, TypeOK, StageInv, StagedInv
  <2>4. KeptInv' /\ UntoldInv'
    BY <1>5, <2>2 DEF StageBackup, TypeOK, StageInv, KeptInv, UntoldInv
  <2> QED
    BY <2>3, <2>4
<1>6. CASE StageIoError
  <2>1. \A i \in Requests :
          /\ output'[i] = "moved" <=> output[i] = "moved"
          /\ backup'[i] \in {"retained", "moved"} => backup[i] \in {"retained", "moved"}
    BY <1>6 DEF StageIoError, TypeOK, StageInv
  <2>2. StagedInv'
    BY <1>6 DEF StageIoError, StagedInv
  <2>3. KeptInv' /\ UntoldInv'
    BY <1>6, <2>1 DEF StageIoError, KeptInv, UntoldInv, Staged
  <2> QED
    BY <2>2, <2>3
<1>7. CASE StageReturn
  BY <1>7 DEF StageReturn, TypeOK, StageInv, StagedInv, KeptInv, UntoldInv, Staged
<1> QED
  BY <1>1, <1>2, <1>3, <1>4, <1>5, <1>6, <1>7 DEF Stage

(* The replacement loop. *)
LEMMA CommitKeeps == IInv /\ ReplacementInv /\ Commit => ReplacementInv'
<1> SUFFICES ASSUME IInv, ReplacementInv, Commit PROVE ReplacementInv'
  OBVIOUS
<1> USE DEF IInv, ReplacementInv
<1>1. CASE CommitValidate
  BY <1>1 DEF CommitValidate, TypeOK, StagedInv, KeptInv, UntoldInv, Staged, Named
<1>2. CASE CommitRefuse
  <2>1. StagedInv'
    BY <1>2 DEF CommitRefuse, StartRollback, StagedInv, Staged
  <2>2. \A i \in Requests : backup[i] = "retained" =>
          \E k \in Items : pending[k] = i /\ k <= committed
    BY <1>2 DEF CommitRefuse, CommitInv, KeptInv, Staged
  <2>3. \A k \in Items : k <= committed => k < committed \/ k = committed
    BY DEF TypeOK
  <2>4. KeptInv' /\ UntoldInv'
    BY <1>2, <2>2, <2>3
    DEF CommitRefuse, StartRollback, CommitInv, KeptInv, Staged, UntoldInv
  <2> QED
    BY <2>1, <2>4
<1>3. CASE CommitReplace
  <2> DEFINE item == pending[committed + 1]
  <2>1. /\ Item = item /\ item \in Requests /\ committed + 1 \in Items
    BY <1>3 DEF CommitReplace, Item, TypeOK, CommitInv
  <2>2. StagedInv'
    BY <1>3 DEF CommitReplace, StagedInv, Staged
  <2>3. /\ output' = [output EXCEPT ![item] = "moved"]
        /\ backup' = [backup EXCEPT ![item] = "retained"]
        /\ Staged(item)
    BY <1>3, <2>1 DEF CommitReplace, Staged
  <2>4. KeptInv' /\ UntoldInv'
    BY <1>3, <2>1, <2>3 DEF CommitReplace, TypeOK, KeptInv, UntoldInv, Staged
  <2> QED
    BY <2>2, <2>4
<1>4. CASE CommitReplaceFails
  <2>1. StagedInv'
    BY <1>4 DEF CommitReplaceFails, StartRollback, StagedInv, Staged
  <2>2. \A i \in Requests : backup[i] = "retained" =>
          \E k \in Items : pending[k] = i /\ k <= committed
    BY <1>4 DEF CommitReplaceFails, CommitInv, KeptInv, Staged
  <2>3. \A k \in Items : k <= committed => k < committed \/ k = committed
    BY DEF TypeOK
  <2>4. KeptInv' /\ UntoldInv'
    BY <1>4, <2>2, <2>3
    DEF CommitReplaceFails, StartRollback, CommitInv, KeptInv, Staged, UntoldInv
  <2> QED
    BY <2>1, <2>4
<1>5. CASE CommitSync
  BY <1>5 DEF CommitSync, TypeOK, CommitInv, StagedInv, KeptInv, UntoldInv, Staged
<1>6. CASE CommitSyncFails
  <2>1. StagedInv'
    BY <1>6 DEF CommitSyncFails, StartRollback, StagedInv, Staged
  <2>2. \A i \in Requests : backup[i] = "retained" =>
          \E k \in Items : pending[k] = i /\ k <= committed
    BY <1>6 DEF CommitSyncFails, CommitInv, KeptInv, Staged
  <2>3. \A k \in Items : k <= committed => k < committed \/ k = committed
    BY DEF TypeOK
  <2>4. KeptInv' /\ UntoldInv'
    BY <1>6, <2>2, <2>3
    DEF CommitSyncFails, StartRollback, CommitInv, KeptInv, Staged, UntoldInv
  <2> QED
    BY <2>1, <2>4
<1> QED
  BY <1>1, <1>2, <1>3, <1>4, <1>5, <1>6 DEF Commit

(* rollback. *)
LEMMA RollbackKeeps == IInv /\ ReplacementInv /\ Rollback => ReplacementInv'
<1> SUFFICES ASSUME IInv, ReplacementInv, Rollback PROVE ReplacementInv'
  OBVIOUS
<1> USE DEF IInv, ReplacementInv
<1>1. CASE RollbackValidate
  BY <1>1 DEF RollbackValidate, TypeOK, StagedInv, KeptInv, UntoldInv, Staged, Named
<1>2. CASE RollbackKeep
  <2>1. at \in Items /\ pending[at] \in Requests
    BY <1>2 DEF RollbackKeep, TypeOK, RollbackInv
  <2>2. Named({"preserved"}) \cup {pending[at]} \subseteq Named({"preserved"})'
    <3> DEFINE new == [kind |-> "preserved", item |-> pending[at]]
    <3>1. errors' = errors \cup {new}
      BY <1>2 DEF RollbackKeep
    <3>2. new.kind \in {"preserved"} /\ new.item = pending[at]
      OBVIOUS
    <3> HIDE DEF new
    <3> QED
      BY <3>1, <3>2 DEF Named
  <2>3. StagedInv'
    BY <1>2 DEF RollbackKeep, StagedInv, Staged
  <2>4. \A i \in Requests : backup[i] = "retained" =>
          \/ i \in Named({"preserved"})'
          \/ \E k \in Items : pending[k] = i /\ (k < at - 1 \/ k = at - 1)
    BY <1>2, <2>1, <2>2 DEF RollbackKeep, TypeOK, KeptInv
  <2>5. KeptInv' /\ UntoldInv'
    BY <1>2, <2>4 DEF RollbackKeep, KeptInv, Staged, UntoldInv
  <2> QED
    BY <2>3, <2>5
<1>3. CASE RollbackReplace
  <2> DEFINE item == pending[at]
  <2>1. /\ at \in Items /\ item \in Requests /\ output[item] = "moved"
        /\ backup' = [backup EXCEPT ![item] = "moved"]
        /\ Named({"preserved"})' = Named({"preserved"})
    BY <1>3 DEF RollbackReplace, Item, TypeOK, RollbackInv, Named
  <2>2. StagedInv'
    BY <1>3 DEF RollbackReplace, StagedInv, Staged
  <2>3. \A i \in Requests : backup'[i] = "retained" =>
          i # item /\ backup[i] = "retained"
    BY <2>1 DEF TypeOK
  <2>4. \A i \in Requests : backup'[i] = "retained" =>
          \/ i \in Named({"preserved"})'
          \/ \E k \in Items : pending[k] = i /\ k < at
    BY <1>3, <2>1, <2>3 DEF RollbackReplace, KeptInv
  <2>5. KeptInv' /\ UntoldInv'
    BY <1>3, <2>1, <2>4 DEF RollbackReplace, TypeOK, KeptInv, Staged, UntoldInv
  <2> QED
    BY <2>2, <2>5
<1>4. CASE RollbackSync
  <2>1. at \in Items
    BY <1>4 DEF RollbackSync, TypeOK, RollbackInv
  <2>2. Named({"preserved"}) \subseteq Named({"preserved"})'
    BY <1>4 DEF RollbackSync, Named
  <2>3. StagedInv'
    BY <1>4 DEF RollbackSync, StagedInv, Staged
  <2>4. \A i \in Requests : backup[i] = "retained" =>
          \/ i \in Named({"preserved"})'
          \/ \E k \in Items : pending[k] = i /\ (k < at - 1 \/ k = at - 1)
    BY <1>4, <2>1, <2>2 DEF RollbackSync, TypeOK, KeptInv
  <2>5. KeptInv' /\ UntoldInv'
    BY <1>4, <2>4 DEF RollbackSync, KeptInv, Staged, UntoldInv
  <2> QED
    BY <2>3, <2>5
<1>5. CASE RollbackReturn
  BY <1>5 DEF RollbackReturn, StagedInv, KeptInv, UntoldInv, Staged
<1> QED
  BY <1>1, <1>2, <1>3, <1>4, <1>5 DEF Rollback

(* cleanup. *)
LEMMA CleanupKeeps == IInv /\ ReplacementInv /\ Cleanup => ReplacementInv'
<1> SUFFICES ASSUME IInv, ReplacementInv, Cleanup PROVE ReplacementInv'
  OBVIOUS
<1> USE DEF IInv, ReplacementInv
<1>1. CASE CleanupRemove
  <2> DEFINE item == pending[at]
  <2>1. /\ at \in Items /\ item \in Requests /\ output[item] = "moved"
        /\ backup' = [backup EXCEPT ![item] = "removed"]
        /\ Named({"uncleaned"})' = Named({"uncleaned"})
    BY <1>1 DEF CleanupRemove, TypeOK, CleanupInv, Named
  <2>2. StagedInv'
    BY <1>1 DEF CleanupRemove, StagedInv, Staged
  <2>3. \A i \in Requests : backup'[i] = "retained" => backup[i] = "retained"
    BY <2>1 DEF TypeOK
  <2>4. KeptInv' /\ UntoldInv'
    BY <1>1, <2>1, <2>3 DEF CleanupRemove, TypeOK, KeptInv, Staged, UntoldInv
  <2> QED
    BY <2>2, <2>4
<1>2. CASE CleanupSync
  <2>1. StagedInv'
    BY <1>2 DEF CleanupSync, StagedInv, Staged
  <2>2. \A i \in Requests : backup[i] = "retained" =>
          \/ i \in Named({"uncleaned"})
          \/ \E k \in Items : pending[k] = i /\ k >= at + 1
    BY <1>2 DEF CleanupSync, TypeOK, KeptInv
  <2>3. KeptInv' /\ UntoldInv'
    BY <1>2, <2>2 DEF CleanupSync, KeptInv, Staged, Named, UntoldInv
  <2> QED
    BY <2>1, <2>3
<1>3. CASE CleanupFails
  <2>1. at \in Items /\ pending[at] \in Requests
    BY <1>3 DEF CleanupFails, TypeOK, CleanupInv
  <2>2. Named({"uncleaned"}) \cup {pending[at]} \subseteq Named({"uncleaned"})'
    <3> DEFINE new == [kind |-> "uncleaned", item |-> pending[at]]
    <3>1. errors' = errors \cup {new}
      BY <1>3 DEF CleanupFails
    <3>2. new.kind \in {"uncleaned"} /\ new.item = pending[at]
      OBVIOUS
    <3> HIDE DEF new
    <3> QED
      BY <3>1, <3>2 DEF Named
  <2>3. StagedInv'
    BY <1>3 DEF CleanupFails, StagedInv, Staged
  <2>4. \A i \in Requests : backup[i] = "retained" =>
          \/ i \in Named({"uncleaned"})'
          \/ \E k \in Items : pending[k] = i /\ k >= at + 1
    BY <1>3, <2>1, <2>2 DEF CleanupFails, TypeOK, KeptInv
  <2>5. KeptInv' /\ UntoldInv'
    BY <1>3, <2>4 DEF CleanupFails, KeptInv, Staged, UntoldInv
  <2> QED
    BY <2>3, <2>5
<1>4. CASE CleanupReturn
  BY <1>4 DEF CleanupReturn, StagedInv, KeptInv, UntoldInv, Staged
<1> QED
  BY <1>1, <1>2, <1>3, <1>4 DEF Cleanup

(* Drop. *)
LEMMA DropKeeps == IInv /\ ReplacementInv /\ Drop => ReplacementInv'
<1> SUFFICES ASSUME IInv, ReplacementInv, Drop PROVE ReplacementInv'
  OBVIOUS
<1> USE DEF IInv, ReplacementInv
<1>1. CASE DropOwned
  BY <1>1 DEF DropOwned, TypeOK, StagedInv, KeptInv, UntoldInv, Staged
<1>2. CASE DropReturn
  BY <1>2 DEF DropReturn, TypeOK, StagedInv, KeptInv, UntoldInv, Staged
<1> QED
  BY <1>1, <1>2 DEF Drop

(* Whatever the surroundings do. *)
LEMMA SurroundingsKeep == IInv /\ ReplacementInv /\ Environment => ReplacementInv'
<1> SUFFICES ASSUME IInv, ReplacementInv, Environment PROVE ReplacementInv'
  OBVIOUS
<1> USE DEF IInv, ReplacementInv
<1>1. CASE Unwind
  BY <1>1 DEF Unwind, StagedInv, KeptInv, UntoldInv, Staged
<1>2. CASE Crash
  BY <1>2 DEF Crash, StagedInv, KeptInv, UntoldInv, Staged
<1>3. CASE \E f \in Files : EditFile(f)
  <2>1. UNCHANGED <<requests, pending, output, backup, pc, at, errors, outcome>>
    BY <1>3 DEF EditFile
  <2> QED
    BY <2>1 DEF StagedInv, KeptInv, UntoldInv, Staged, Named
<1> QED
  BY <1>1, <1>2, <1>3 DEF Environment

(* Nothing is staged at first.                                             *)
LEMMA InitiallyStaged == Init => ReplacementInv
  BY DEF Init, ReplacementInv, StagedInv, KeptInv, UntoldInv, Staged

(* Every step of the transaction keeps the three facts.                    *)
LEMMA ReplacementInductive == IInv /\ ReplacementInv /\ [Next]_vars => ReplacementInv'
<1> SUFFICES ASSUME IInv, ReplacementInv, [Next]_vars PROVE ReplacementInv'
  OBVIOUS
<1>1. CASE UNCHANGED vars
  BY <1>1 DEF vars, ReplacementInv, StagedInv, KeptInv, UntoldInv, Staged, Named
<1>2. CASE Next
  BY <1>2, StageKeeps, CommitKeeps, RollbackKeeps, CleanupKeeps, DropKeeps,
     SurroundingsKeep
  DEF Next, Process
<1> QED
  BY <1>1, <1>2

----------------------------------------------------------------------------
(* The refinement: one lemma per step of the code that the abstract        *)
(* specification sees; every other step leaves its variables alone.        *)

USE DEF Replaced, Originals, Phase

(* A transaction begins as a batch begins.                                 *)
LEMMA InitiallyBatch == Init => Batch!Init
  BY DEF Init, Batch!Init

(* A rename of commit_with replaces a changed file and keeps its original. *)
LEMMA ReplaceStep ==
  ASSUME IInv, ReplacementInv, CommitReplace
  PROVE  \E i \in 1..Len(requests) : Batch!Replace(i)
<1> DEFINE item == pending[committed + 1]
<1>1. /\ Item = item /\ item \in Requests /\ committed + 1 \in Items
      /\ output[item] # "moved" /\ requests[item].changed
      /\ disk' = [disk EXCEPT ![requests[item].path] = "replacement"]
  BY DEF IInv, ReplacementInv, TypeOK, CommitInv, StagedInv, CommitReplace, Item, Path
<1>2. /\ output' = [output EXCEPT ![item] = "moved"]
      /\ backup' = [backup EXCEPT ![item] = "retained"]
  BY <1>1 DEF CommitReplace
<1>3. Replaced' = Replaced \cup {item}
  BY <1>1, <1>2 DEF CommitReplace, IInv, TypeOK
<1>4. Originals' = Originals \cup {item}
  BY <1>1, <1>2 DEF CommitReplace, IInv, TypeOK
<1>5. Phase = "replacing" /\ Phase' = "replacing"
  BY DEF CommitReplace
<1>6. Batch!Replace(item)
  BY <1>1, <1>3, <1>4, <1>5 DEF Batch!Replace, Batch!Changed, Batch!Put, CommitReplace
<1>7. item \in 1..Len(requests)
  BY <1>1
<1> QED
  BY <1>6, <1>7 DEF Batch!Replace, Batch!Put

(* A rename of rollback puts an original back that the batch kept.         *)
LEMMA RestoreStep ==
  ASSUME IInv, ReplacementInv, RollbackReplace
  PROVE  \E i \in 1..Len(requests) : Batch!Restore(i)
<1> DEFINE item == pending[at]
<1>1. /\ Item = item /\ item \in Requests /\ at \in Items
      /\ output[item] = "moved" /\ backup[item] = "retained"
      /\ disk' = [disk EXCEPT ![requests[item].path] = "original"]
  BY DEF IInv, TypeOK, RollbackInv, RollbackReplace, Item, Path
<1>2. backup' = [backup EXCEPT ![item] = "moved"]
  BY <1>1 DEF RollbackReplace
<1>3. Replaced' = Replaced \ {item}
  BY <1>1, <1>2 DEF RollbackReplace, IInv, TypeOK
<1>4. Originals' = Originals \ {item}
  BY <1>1, <1>2 DEF RollbackReplace, IInv, TypeOK
<1>5. Phase = "undoing" /\ Phase' = "undoing"
  BY DEF RollbackReplace
<1>6. Batch!Restore(item)
  BY <1>1, <1>3, <1>4, <1>5 DEF Batch!Restore, Batch!Put, RollbackReplace
<1>7. item \in 1..Len(requests)
  BY <1>1
<1> QED
  BY <1>6, <1>7 DEF Batch!Restore, Batch!Put

(* The loop of commit_with ends when every changed request is replaced.    *)
LEMMA CompleteStep ==
  ASSUME IInv, ReplacementInv, CommitSync \/ StageReturn
  PROVE  Batch!Complete \/ UNCHANGED Batch!batchVars
<1>1. UNCHANGED <<requests, disk, Replaced, Originals, outcome>>
  BY DEF CommitSync, StageReturn
<1>2. Phase = "replacing"
  BY DEF CommitSync, StageReturn
<1>3. CASE Phase' = "replacing"
  BY <1>1, <1>2, <1>3 DEF Batch!batchVars
<1>4. CASE Phase' # "replacing"
  <2>1. Phase' = "complete" /\ \A k \in Items : output[pending[k]] = "moved"
    BY <1>4 DEF CommitSync, StageReturn, IInv, TypeOK, CommitInv
  <2>2. \A i \in Requests : output[i] = "moved" => backup[i] # "moved"
    BY DEF CommitSync, StageReturn, IInv, CommitInv, StageInv
  <2>3. \A i \in Requests : requests[i].changed <=> Staged(i)
    <3>1. \A i \in Requests : Staged(i) => requests[i].changed
      BY DEF ReplacementInv, StagedInv, Staged
    <3>2. \A i \in Requests : requests[i].changed => Staged(i)
      BY DEF ReplacementInv, StagedInv, CommitSync, StageReturn, IInv, TypeOK
    <3> QED
      BY <3>1, <3>2
  <2>4. \A i \in Requests : i \in Replaced <=> Staged(i)
    BY <2>1, <2>2 DEF ReplacementInv, KeptInv, Staged
  <2>5. Replaced = Batch!Changed
    BY <2>3, <2>4 DEF Batch!Changed
  <2> QED
    BY <1>1, <1>2, <2>1, <2>5 DEF Batch!Complete
<1> QED
  BY <1>3, <1>4

(* A removed backup is one of a complete batch.                            *)
LEMMA DiscardStep ==
  ASSUME IInv, ReplacementInv, CleanupRemove
  PROVE  \/ \E i \in 1..Len(requests) : Batch!Discard(i)
         \/ UNCHANGED Batch!batchVars
<1> DEFINE item == pending[at]
<1>1. /\ item \in Requests /\ at \in Items /\ output[item] = "moved"
      /\ backup[item] \in {"retained", "removed"}
      /\ backup' = [backup EXCEPT ![item] = "removed"]
  BY DEF IInv, TypeOK, CleanupInv, CleanupRemove
<1>2. Replaced' = Replaced
  BY <1>1 DEF CleanupRemove, IInv, TypeOK
<1>3. Originals' = Originals \ {item}
  BY <1>1 DEF CleanupRemove, IInv, TypeOK
<1>4. Phase = "complete" /\ Phase' = "complete"
  BY DEF CleanupRemove
<1>5. CASE item \in Originals
  BY <1>1, <1>2, <1>3, <1>4, <1>5 DEF Batch!Discard, CleanupRemove
<1>6. CASE item \notin Originals
  BY <1>2, <1>3, <1>4, <1>6 DEF Batch!batchVars, CleanupRemove
<1> QED
  BY <1>5, <1>6

(* Nothing is replaced before the first rename of commit_with.             *)
LEMMA RefuseStep ==
  ASSUME IInv, ReplacementInv, StageRefuse \/ StageIoError
  PROVE  Batch!Return("refused")
<1>1. Replaced = {} /\ Originals = {}
  BY DEF StageRefuse, StageIoError, IInv, TypeOK, StageInv, ReplacementInv, KeptInv
<1>2. Replaced' = {}
  BY DEF StageRefuse, StageIoError, IInv, TypeOK, StageInv
<1>3. Originals' = {}
  BY <1>1 DEF StageRefuse, StageIoError, IInv, TypeOK
<1>4. Phase = "replacing" /\ Phase' = "over" /\ outcome' = "refused"
  BY DEF StageRefuse, StageIoError
<1> QED
  BY <1>1, <1>2, <1>3, <1>4 DEF Batch!Return, Batch!Deserved, StageRefuse, StageIoError

(* A rollback without errors has put every original back; one with errors  *)
(* leaves replaced the files whose originals it leaves.                    *)
LEMMA RollbackVerdict ==
  ASSUME IInv, ReplacementInv, RollbackReturn
  PROVE  Batch!Return("error") \/ Batch!Return("recovery")
<1>1. Replaced = Originals
  BY DEF RollbackReturn, IInv, RollbackInv, ReplacementInv, KeptInv
<1>2. errors = {} => Originals = {}
  BY DEF RollbackReturn, IInv, TypeOK, ReplacementInv, KeptInv, Named
<1>3. UNCHANGED <<requests, disk, Replaced, Originals>>
  BY DEF RollbackReturn
<1>4. Phase = "undoing" /\ Phase' = "over"
  BY DEF RollbackReturn
<1> QED
  BY <1>1, <1>2, <1>3, <1>4 DEF Batch!Return, Batch!Deserved, RollbackReturn

(* A success has no backup left; an error of the cleanup comes after the   *)
(* whole batch is replaced.                                                *)
LEMMA CleanupVerdict ==
  ASSUME IInv, ReplacementInv, CleanupReturn
  PROVE  Batch!Return("ok") \/ Batch!Return("uncleaned")
<1>1. errors = {} => Originals = {}
  BY DEF CleanupReturn, IInv, TypeOK, ReplacementInv, KeptInv, Named
<1>2. UNCHANGED <<requests, disk, Replaced, Originals>>
  BY DEF CleanupReturn
<1>3. Phase = "complete" /\ Phase' = "over"
  BY DEF CleanupReturn
<1> QED
  BY <1>1, <1>2, <1>3 DEF Batch!Return, Batch!Deserved, CleanupReturn

(* A panic and a kill may come at any time.                                *)
LEMMA BreakStep ==
  ASSUME IInv, ReplacementInv, Unwind \/ Crash
  PROVE  \/ Batch!Return("panic") \/ Batch!Return("none")
         \/ UNCHANGED Batch!batchVars
<1>1. UNCHANGED <<requests, disk, Replaced, Originals>>
  BY DEF Unwind, Crash
<1>2. Phase' = "over"
  BY DEF Unwind, Crash
<1>3. CASE Phase = "over"
  BY <1>1, <1>2, <1>3 DEF Unwind, Crash, Batch!batchVars
<1>4. CASE Phase # "over"
  BY <1>1, <1>2, <1>4
  DEF Unwind, Crash, ReplacementInv, UntoldInv, Batch!Return, Batch!Deserved
<1> QED
  BY <1>3, <1>4

(* Another program's write is the abstract one.                            *)
LEMMA EditStep ==
  ASSUME NEW f \in Files, EditFile(f)
  PROVE  Batch!Edit(f)
<1>1. UNCHANGED <<requests, Replaced, Originals, Phase, outcome>>
  BY DEF EditFile
<1> QED
  BY <1>1 DEF EditFile, Batch!Edit

(* The first failing call of commit_with turns to the rollback.            *)
LEMMA UndoStep ==
  ASSUME CommitRefuse \/ CommitReplaceFails \/ CommitSyncFails
  PROVE  Batch!Undo
<1>1. UNCHANGED <<requests, disk, Replaced, Originals, outcome>>
  BY DEF CommitRefuse, CommitReplaceFails, CommitSyncFails
<1>2. Phase = "replacing" /\ Phase' = "undoing"
  BY DEF CommitRefuse, CommitReplaceFails, CommitSyncFails, StartRollback
<1> QED
  BY <1>1, <1>2 DEF Batch!Undo

(* Staging writes temporary files only.                                    *)
LEMMA StageHidden ==
  ASSUME IInv, ReplacementInv,
         StageSkip \/ StageValidate \/ StageOutput \/ StageBackup
  PROVE  UNCHANGED Batch!batchVars
<1>1. UNCHANGED <<requests, disk, outcome, Phase>>
  BY DEF StageSkip, StageValidate, StageOutput, StageBackup
<1>2. Replaced' = Replaced /\ Originals' = Originals
  BY DEF StageSkip, StageValidate, StageOutput, StageBackup, IInv, TypeOK,
     StageInv, ReplacementInv, KeptInv
<1> QED
  BY <1>1, <1>2 DEF Batch!batchVars

(* Validations, synchronisations, error reports and Drop are not seen.     *)
LEMMA OthersHidden ==
  ASSUME IInv, ReplacementInv,
         \/ CommitValidate \/ RollbackValidate \/ RollbackKeep \/ RollbackSync
         \/ CleanupSync \/ CleanupFails \/ DropReturn
  PROVE  UNCHANGED Batch!batchVars
<1>1. UNCHANGED <<requests, disk, outcome, output, backup>>
  BY DEF CommitValidate, RollbackValidate, RollbackKeep, RollbackSync,
     CleanupSync, CleanupFails, DropReturn
<1>2. Phase' = Phase
  BY DEF CommitValidate, RollbackValidate, RollbackKeep, RollbackSync,
     CleanupSync, CleanupFails, DropReturn
<1> QED
  BY <1>1, <1>2 DEF Batch!batchVars

(* Dropping an owned temporary changes nothing the batch sees.             *)
LEMMA DropHidden ==
  ASSUME IInv, DropOwned
  PROVE  UNCHANGED Batch!batchVars
<1>1. UNCHANGED <<requests, disk, outcome, pc>>
  BY DEF DropOwned
<1>2. \A i \in Requests : /\ output'[i] = "moved" <=> output[i] = "moved"
                          /\ backup'[i] = "moved" <=> backup[i] = "moved"
                          /\ backup'[i] = "retained" <=> backup[i] = "retained"
  BY DEF DropOwned, IInv, TypeOK
<1>3. Replaced' = Replaced /\ Originals' = Originals
  BY <1>1, <1>2
<1> QED
  BY <1>1, <1>3 DEF Batch!batchVars

(* Every transaction is a batch replacement: whatever other programs do    *)
(* and whichever calls fail, each of its steps is one the abstract batch   *)
(* may take, or changes nothing the abstract batch speaks of.              *)
THEOREM Implementation == Spec => ImplementsBatch
<1>1. IInv /\ ReplacementInv /\ [Next]_vars => [Batch!Next]_(Batch!batchVars)
  <2> SUFFICES ASSUME IInv, ReplacementInv, [Next]_vars
               PROVE  Batch!Next \/ UNCHANGED Batch!batchVars
    OBVIOUS
  <2>1. CASE UNCHANGED vars
    BY <2>1 DEF vars, Batch!batchVars
  <2>2. CASE Stage
    BY <2>2, RefuseStep, CompleteStep, StageHidden
    DEF Stage, Batch!Next, Batch!Verdicts
  <2>3. CASE Commit
    BY <2>3, ReplaceStep, CompleteStep, UndoStep, OthersHidden DEF Commit, Batch!Next
  <2>4. CASE Rollback
    BY <2>4, RestoreStep, RollbackVerdict, OthersHidden
    DEF Rollback, Batch!Next, Batch!Verdicts
  <2>5. CASE Cleanup
    BY <2>5, DiscardStep, CleanupVerdict, OthersHidden
    DEF Cleanup, Batch!Next, Batch!Verdicts
  <2>6. CASE Drop
    BY <2>6, DropHidden, OthersHidden DEF Drop
  <2>7. CASE Environment
    BY <2>7, BreakStep, EditStep DEF Environment, Batch!Next, Batch!Verdicts
  <2> QED
    BY <2>1, <2>2, <2>3, <2>4, <2>5, <2>6, <2>7 DEF Next, Process
<1>2. Spec => []ReplacementInv
  BY Invariance, InitiallyStaged, ReplacementInductive, PTL DEF Spec
<1> QED
  BY Invariance, InitiallyBatch, <1>1, <1>2, PTL DEF Spec, ImplementsBatch, Batch!Spec

-----------------------------------------------------------------------------
(* What the caller may conclude.                                           *)

(* Once a result is known, every backup that is left is named, the         *)
(* replaced files are those the result speaks of, and a return leaves      *)
(* nothing owned.  No output is ever retained.                             *)
ResultInv ==
  /\ \A i \in Requests : output[i] # "retained"
  /\ pc \in {"drop", "done"} => outcome # "none"
  /\ pc = "done" => \A i \in Requests : output[i] # "owned" /\ backup[i] # "owned"
  /\ outcome \notin {"none", "panic"} =>
       \A i \in Requests : backup[i] = "retained" =>
                             i \in Named({"preserved", "uncleaned"})
  /\ outcome \in {"ok", "uncleaned"} =>
       \A i \in Requests : requests[i].changed => i \in Replaced
  /\ outcome \in {"refused", "error"} => Replaced = {}
  /\ outcome = "recovery" => Replaced \subseteq Named({"preserved"})

(* Without edits a file holds the new text exactly if one request replaced *)
(* it and was not undone.                                                  *)
UndisturbedInv ==
  edits = 0 =>
    /\ late = {}
    /\ \A f \in Files :
         disk[f] = IF \E i \in Replaced : Path(i) = f THEN "replacement"
                   ELSE "original"
    /\ \A i, j \in Replaced : Path(i) = Path(j) => i = j

(* Without edits and faults a batch of distinct files is never undone.     *)
FaultlessInv ==
  edits = 0 /\ faults = 0 /\ Distinct =>
    pc \notin RollbackSteps /\ errors = {} /\ outcome \in {"none", "ok", "panic"}

OutcomeInv == ResultInv /\ UndisturbedInv /\ FaultlessInv

USE DEF Text, TempState, Steps, CommitSteps, RollbackSteps, CleanupSteps, Ended,
        Requests, Items, Replaced

----------------------------------------------------------------------------
(* ResultInv.  Steps that return nothing have nothing to show but that no  *)
(* output is retained.                                                     *)

(* No step before the end returns anything, and all keep ResultInv.        *)
LEMMA UntoldStep ==
  ASSUME IInv, ReplacementInv, ResultInv,
         \/ StageSkip \/ StageValidate \/ StageOutput \/ StageBackup
         \/ StageReturn \/ Commit
         \/ RollbackValidate \/ RollbackKeep \/ RollbackReplace \/ RollbackSync
         \/ CleanupRemove \/ CleanupSync \/ CleanupFails
  PROVE  ResultInv'
<1>1. pc' \notin {"drop", "done"} /\ outcome' = "none"
  BY DEF ReplacementInv, UntoldInv, Commit, StageSkip, StageValidate,
     StageOutput, StageBackup, StageReturn, CommitValidate, CommitRefuse,
     CommitReplace, CommitReplaceFails, CommitSync, CommitSyncFails,
     StartRollback, RollbackValidate, RollbackKeep, RollbackReplace,
     RollbackSync, CleanupRemove, CleanupSync, CleanupFails
<1>2. requests' = requests /\ output \in [Requests -> TempState]
  BY DEF IInv, TypeOK, Commit, StageSkip, StageValidate,
     StageOutput, StageBackup, StageReturn, CommitValidate, CommitRefuse,
     CommitReplace, CommitReplaceFails, CommitSync, CommitSyncFails,
     RollbackValidate, RollbackKeep, RollbackReplace, RollbackSync,
     CleanupRemove, CleanupSync, CleanupFails
<1>3. \/ output' = output
      \/ output' = [output EXCEPT ![at] = "owned"]
      \/ output' = [output EXCEPT ![Item] = "moved"]
  BY DEF Commit, StageSkip, StageValidate,
     StageOutput, StageBackup, StageReturn, CommitValidate, CommitRefuse,
     CommitReplace, CommitReplaceFails, CommitSync, CommitSyncFails,
     RollbackValidate, RollbackKeep, RollbackReplace, RollbackSync,
     CleanupRemove, CleanupSync, CleanupFails
<1>4. \A i \in Requests : output'[i] # "retained"
  BY <1>2, <1>3 DEF ResultInv
<1> QED
  BY <1>1, <1>2, <1>4 DEF ResultInv

(* stage refuses before it has replaced or retained anything.              *)
LEMMA RefusedStep ==
  ASSUME IInv, ReplacementInv, ResultInv, StageRefuse \/ StageIoError
  PROVE  ResultInv'
<1>1. /\ pc' = "drop" /\ outcome' = "refused" /\ requests' = requests
      /\ pc \in {"stage", "output", "backup"}
  BY DEF StageRefuse, StageIoError
<1>2. \A i \in Requests : output'[i] # "retained" /\ output'[i] # "moved"
  BY <1>1 DEF IInv, TypeOK, StageInv, ResultInv, StageRefuse, StageIoError
<1>3. \A i \in Requests : backup'[i] # "retained"
  <2>1. backup \in [Requests -> TempState]
    BY DEF IInv, TypeOK
  <2>2. \A i \in Requests : backup[i] # "retained"
    BY <1>1 DEF ReplacementInv, KeptInv, IInv, StageInv
  <2>3. \/ backup' = backup
        \/ \E created \in {"none", "owned"} :
             backup' = [backup EXCEPT ![at] = created]
    BY DEF StageRefuse, StageIoError
  <2> QED
    BY <2>1, <2>2, <2>3
<1> QED
  BY <1>1, <1>2, <1>3 DEF ResultInv

(* rollback returns when every item is restored or named.                  *)
LEMMA RolledBackStep ==
  ASSUME IInv, ReplacementInv, ResultInv, RollbackReturn
  PROVE  ResultInv'
<1>1. UNCHANGED <<requests, output, backup, errors>> /\ pc' = "drop"
  BY DEF RollbackReturn
<1>2. \A i \in Requests : backup[i] = "retained" => i \in Named({"preserved"})
  BY DEF RollbackReturn, IInv, TypeOK, ReplacementInv, KeptInv
<1>3. Replaced \subseteq {i \in Requests : backup[i] = "retained"}
  BY DEF RollbackReturn, IInv, RollbackInv
<1>4. CASE errors = {}
  <2>1. Named({"preserved"}) = {} /\ outcome' = "error"
    BY <1>4 DEF Named, RollbackReturn
  <2> QED
    BY <1>1, <1>2, <1>3, <2>1 DEF ResultInv
<1>5. CASE errors # {}
  <2>1. outcome' = "recovery" /\ Named({"preserved"})' = Named({"preserved"})
    BY <1>1, <1>5 DEF Named, RollbackReturn
  <2>2. Named({"preserved"}) \subseteq Named({"preserved", "uncleaned"})'
    BY <1>1 DEF Named
  <2> QED
    BY <1>1, <1>2, <1>3, <2>1, <2>2 DEF ResultInv
<1> QED
  BY <1>4, <1>5

(* The cleanup loop returns when every backup is removed or named.         *)
LEMMA CleanedUpStep ==
  ASSUME IInv, ReplacementInv, ResultInv, CleanupReturn
  PROVE  ResultInv'
<1>1. /\ UNCHANGED <<requests, output, backup, errors>> /\ pc' = "drop"
      /\ outcome' \in {"ok", "uncleaned"}
  BY DEF CleanupReturn
<1>2. \A i \in Requests : backup[i] = "retained" => i \in Named({"uncleaned"})
  BY DEF CleanupReturn, IInv, TypeOK, ReplacementInv, KeptInv
<1>3. Named({"uncleaned"}) \subseteq Named({"preserved", "uncleaned"})'
  BY <1>1 DEF Named
<1>4. \A i \in Requests : requests[i].changed => i \in Replaced
  BY DEF CleanupReturn, IInv, TypeOK, CleanupInv, ReplacementInv, StagedInv, Staged
<1> QED
  BY <1>1, <1>2, <1>3, <1>4 DEF ResultInv

(* Drop removes what is owned, and neither adds nor hides anything.        *)
LEMMA DroppedStep ==
  ASSUME IInv, ReplacementInv, ResultInv, Drop
  PROVE  ResultInv'
<1>1. CASE DropReturn
  BY <1>1 DEF DropReturn, ResultInv, Named
<1>2. CASE DropOwned
  <2>1. UNCHANGED <<requests, errors, outcome, pc>> /\ pc = "drop"
    BY <1>2 DEF DropOwned
  <2>2. \A i \in Requests :
          /\ output'[i] = "moved" <=> output[i] = "moved"
          /\ output'[i] = "retained" <=> output[i] = "retained"
          /\ backup'[i] = "moved" <=> backup[i] = "moved"
          /\ backup'[i] = "retained" <=> backup[i] = "retained"
    BY <1>2 DEF DropOwned, IInv, TypeOK
  <2>3. Replaced' = Replaced
    BY <2>1, <2>2
  <2>4. \A kinds : Named(kinds)' = Named(kinds)
    BY <2>1 DEF Named
  <2> QED
    BY <2>1, <2>2, <2>3, <2>4 DEF ResultInv
<1> QED
  BY <1>1, <1>2 DEF Drop

(* Every step keeps what is known of the returned errors.                  *)
LEMMA ResultKept == IInv /\ ReplacementInv /\ ResultInv /\ [Next]_vars => ResultInv'
<1> SUFFICES ASSUME IInv, ReplacementInv, ResultInv, [Next]_vars
             PROVE  ResultInv'
  OBVIOUS
<1>1. CASE UNCHANGED vars
  BY <1>1 DEF vars, ResultInv, Named
<1>2. CASE Stage
  BY <1>2, UntoldStep, RefusedStep DEF Stage
<1>3. CASE Commit
  BY <1>3, UntoldStep
<1>4. CASE Rollback
  BY <1>4, UntoldStep, RolledBackStep DEF Rollback
<1>5. CASE Cleanup
  BY <1>5, UntoldStep, CleanedUpStep DEF Cleanup
<1>6. CASE Drop
  BY <1>6, DroppedStep
<1>7. CASE Environment
  <2>1. CASE Unwind
    BY <2>1 DEF Unwind, ResultInv
  <2>2. CASE Crash
    BY <2>2 DEF Crash, ResultInv, Named
  <2>3. CASE \E f \in Files : EditFile(f)
    <3>1. UNCHANGED <<requests, output, backup, pc, errors, outcome>>
      BY <2>3 DEF EditFile
    <3> QED
      BY <3>1 DEF ResultInv, Named
  <2> QED
    BY <1>7, <2>1, <2>2, <2>3 DEF Environment
<1> QED
  BY <1>1, <1>2, <1>3, <1>4, <1>5, <1>6, <1>7 DEF Next, Process

----------------------------------------------------------------------------
(* UndisturbedInv                                                          *)

(* Edits and faults are only counted upwards.                              *)
LEMMA Counted ==
  ASSUME IInv, [Next]_vars
  PROVE  (edits' = 0 => edits = 0) /\ (faults' = 0 => faults = 0)
<1>1. edits \in Nat /\ faults \in Nat
  BY DEF IInv, TypeOK
<1>2. edits' \in {edits, edits + 1} /\ faults' \in {faults, faults + 1}
  BY DEF Next, Process, Environment, Stage, Commit, Rollback, Cleanup, Drop, vars,
     Fault, StageSkip, StageValidate, StageRefuse, StageOutput, StageBackup,
     StageIoError, StageReturn, CommitValidate, CommitRefuse, CommitReplace,
     CommitReplaceFails, CommitSync, CommitSyncFails, RollbackValidate,
     RollbackKeep, RollbackReplace, RollbackSync, RollbackReturn, CleanupRemove,
     CleanupSync, CleanupFails, CleanupReturn, DropOwned, DropReturn, Unwind,
     Crash, EditFile
<1> QED
  BY <1>1, <1>2

(* A request names one of the source files.                                *)
LEMMA PathsTyped ==
  ASSUME TypeOK PROVE \A i \in Requests : Path(i) \in Files
<1>1. requests \in Seq(Request)
  BY DEF TypeOK
<1>2. ASSUME NEW i \in Requests PROVE requests[i] \in Request
  BY <1>1, ElementOfSeq
<1> QED
  BY <1>2 DEF Request, Path

(* The commit's rename finds a file that no other request has replaced.    *)
LEMMA CommitUndisturbed ==
  ASSUME IInv, ReplacementInv, UndisturbedInv, CommitReplace
  PROVE  UndisturbedInv'
<1> SUFFICES ASSUME edits = 0 PROVE UndisturbedInv'
  BY DEF UndisturbedInv, CommitReplace
<1> DEFINE item == pending[committed + 1]
<1>1. /\ Item = item /\ item \in Requests /\ late' = {} /\ requests' = requests
      /\ disk' = [disk EXCEPT ![Path(item)] = "replacement"]
      /\ disk[Path(item)] = "original"
  BY DEF IInv, TypeOK, CommitInv, WindowInv, UndisturbedInv, CommitReplace, Item
<1>2. /\ output' = [output EXCEPT ![item] = "moved"]
      /\ backup' = [backup EXCEPT ![item] = "retained"]
  BY <1>1 DEF CommitReplace
<1>3. Replaced' = Replaced \cup {item}
  BY <1>1, <1>2 DEF IInv, TypeOK
<1>4. disk \in [Files -> Edits \cup Text] /\ \A i \in Requests : Path(i) \in Files
  BY PathsTyped DEF IInv, TypeOK
<1>5. \A i : Path(i)' = Path(i)
  BY <1>1 DEF Path
<1>6. \A i \in Replaced : Path(i) # Path(item)
  BY <1>1, <1>4 DEF UndisturbedInv
<1> HIDE DEF item
<1>7. \A i, j \in Replaced' : Path(i) = Path(j) => i = j
  BY <1>3, <1>6 DEF UndisturbedInv
<1>8. ASSUME NEW f \in Files
      PROVE  disk'[f] = IF \E i \in Replaced' : Path(i) = f THEN "replacement"
                        ELSE "original"
  BY <1>1, <1>3, <1>4 DEF UndisturbedInv
<1> QED
  BY <1>1, <1>5, <1>7, <1>8 DEF UndisturbedInv

(* The rollback's rename restores a file that no other request replaced.   *)
LEMMA RollbackUndisturbed ==
  ASSUME IInv, ReplacementInv, UndisturbedInv, RollbackReplace
  PROVE  UndisturbedInv'
<1> SUFFICES ASSUME edits = 0 PROVE UndisturbedInv'
  BY DEF UndisturbedInv, RollbackReplace
<1> DEFINE item == pending[at]
<1>1. /\ Item = item /\ item \in Requests /\ late' = {} /\ requests' = requests
      /\ disk' = [disk EXCEPT ![Path(item)] = "original"]
      /\ output[item] = "moved" /\ backup[item] = "retained"
  BY DEF IInv, TypeOK, RollbackInv, UndisturbedInv, RollbackReplace, Item
<1>2. output' = output /\ backup' = [backup EXCEPT ![item] = "moved"]
  BY <1>1 DEF RollbackReplace
<1>3. Replaced' = Replaced \ {item} /\ item \in Replaced
  BY <1>1, <1>2 DEF IInv, TypeOK
<1>4. disk \in [Files -> Edits \cup Text] /\ \A i \in Requests : Path(i) \in Files
  BY PathsTyped DEF IInv, TypeOK
<1>5. \A i : Path(i)' = Path(i)
  BY <1>1 DEF Path
<1>6. \A i \in Replaced' : Path(i) # Path(item)
  BY <1>3 DEF UndisturbedInv
<1> HIDE DEF item
<1>7. ASSUME NEW f \in Files
      PROVE  disk'[f] = IF \E i \in Replaced' : Path(i) = f THEN "replacement"
                        ELSE "original"
  BY <1>1, <1>3, <1>4, <1>6 DEF UndisturbedInv
<1> QED
  BY <1>1, <1>3, <1>5, <1>7 DEF UndisturbedInv

(* Every other step leaves the files and what is replaced alone.           *)
LEMMA OtherwiseUndisturbed ==
  ASSUME IInv, ReplacementInv, [Next]_vars, edits' = edits,
         ~ CommitReplace, ~ RollbackReplace
  PROVE  /\ UNCHANGED <<requests, disk, Replaced>>
         /\ late' \in {late, {}}
<1>1. UNCHANGED <<requests, disk>> /\ late' \in {late, {}}
  <2>1. CASE \E f \in Files : EditFile(f)
    BY <2>1 DEF EditFile, IInv, TypeOK
  <2>2. CASE UNCHANGED vars
    BY <2>2 DEF vars
  <2>3. CASE Stage
    BY <2>3 DEF Stage, StageSkip, StageValidate, StageRefuse, StageOutput,
       StageBackup, StageIoError, StageReturn
  <2>4. CASE Commit \/ Rollback \/ Cleanup \/ Drop \/ Unwind \/ Crash
    BY <2>4 DEF Commit, Rollback, Cleanup, Drop, CommitValidate, CommitRefuse,
       CommitReplaceFails, CommitSync, CommitSyncFails, RollbackValidate,
       RollbackKeep, RollbackSync, RollbackReturn, CleanupRemove, CleanupSync,
       CleanupFails, CleanupReturn, DropOwned, DropReturn, Unwind, Crash
  <2> QED
    BY <2>1, <2>2, <2>3, <2>4 DEF Next, Process, Environment
<1>2. \A i \in Requests : /\ output'[i] = "moved" <=> output[i] = "moved"
                          /\ output[i] = "moved" =>
                               (backup'[i] = "moved" <=> backup[i] = "moved")
  <2>1. CASE Stage
    <3>1. UNCHANGED <<output, backup>> \/ StageOutput \/ StageBackup \/ StageIoError
      BY <2>1 DEF Stage, StageSkip, StageValidate, StageRefuse, StageReturn
    <3>2. CASE StageOutput
      BY <3>2 DEF IInv, TypeOK, StageInv, StageOutput
    <3>3. CASE StageBackup
      BY <3>3 DEF IInv, TypeOK, StageInv, StageBackup
    <3>4. CASE StageIoError
      BY <3>4 DEF IInv, TypeOK, StageInv, StageIoError
    <3> QED
      BY <3>1, <3>2, <3>3, <3>4
  <2>2. CASE CleanupRemove
    BY <2>2 DEF IInv, TypeOK, CleanupInv, CleanupRemove
  <2>3. CASE DropOwned
    BY <2>3 DEF IInv, TypeOK, DropOwned
  <2>4. CASE UNCHANGED <<output, backup>>
    BY <2>4
  <2> QED
    BY <2>1, <2>2, <2>3, <2>4
    DEF Next, Process, Environment, Commit, Rollback, Cleanup, Drop, vars,
        CommitValidate, CommitRefuse, CommitReplaceFails, CommitSync,
        CommitSyncFails, RollbackValidate, RollbackKeep, RollbackSync,
        RollbackReturn, CleanupSync, CleanupFails, CleanupReturn, DropReturn,
        Unwind, Crash, EditFile
<1>3. Replaced' = Replaced
  BY <1>1, <1>2
<1> QED
  BY <1>1, <1>3

(* Every step keeps what is known of undisturbed files.                    *)
LEMMA UndisturbedKept ==
  IInv /\ ReplacementInv /\ UndisturbedInv /\ [Next]_vars => UndisturbedInv'
<1> SUFFICES ASSUME IInv, ReplacementInv, UndisturbedInv, [Next]_vars
             PROVE  UndisturbedInv'
  OBVIOUS
<1>1. CASE CommitReplace
  BY <1>1, CommitUndisturbed
<1>2. CASE RollbackReplace
  BY <1>2, RollbackUndisturbed
<1>3. CASE edits' = 0 /\ ~ CommitReplace /\ ~ RollbackReplace
  <2>1. edits = 0
    BY <1>3, Counted
  <2>2. UNCHANGED <<requests, disk, Replaced>> /\ late' = {}
    BY <1>3, <2>1, OtherwiseUndisturbed DEF UndisturbedInv
  <2> QED
    BY <2>1, <2>2 DEF UndisturbedInv, Path
<1> QED
  BY <1>1, <1>2, <1>3 DEF UndisturbedInv

----------------------------------------------------------------------------
(* FaultlessInv                                                            *)

(* Every validation of a batch of distinct, undisturbed files succeeds.    *)
LEMMA ValidationsPass ==
  ASSUME IInv, UndisturbedInv, edits = 0, Distinct
  PROVE  /\ pc = "stage" => \A i \in Requests : Valid(i, "original")
         /\ pc = "validate" => Valid(pending[committed + 1], "original")
<1>1. \A i \in Requests : Path(i) \in Files
  BY PathsTyped DEF IInv
<1>2. ASSUME NEW i \in Requests, output[i] # "moved" PROVE Valid(i, "original")
  BY <1>1, <1>2 DEF UndisturbedInv, Distinct, Valid
<1>3. pc = "stage" => \A i \in Requests : output[i] # "moved"
  BY DEF IInv, StageInv
<1>4. pc = "validate" => /\ pending[committed + 1] \in Requests
                         /\ output[pending[committed + 1]] # "moved"
  BY DEF IInv, TypeOK, CommitInv
<1> QED
  BY <1>2, <1>3, <1>4

(* A transaction without faults or edits never begins a rollback.          *)
LEMMA FaultlessKept ==
  IInv /\ ReplacementInv /\ UndisturbedInv /\ FaultlessInv /\ [Next]_vars
    => FaultlessInv'
<1> SUFFICES ASSUME IInv, ReplacementInv, UndisturbedInv, FaultlessInv,
                    [Next]_vars, edits' = 0, faults' = 0, Distinct'
             PROVE  /\ pc' \notin RollbackSteps /\ errors' = {}
                    /\ outcome' \in {"none", "ok", "panic"}
  BY DEF FaultlessInv
<1>1. /\ edits = 0 /\ faults = 0
      /\ faults \in Nat /\ edits \in Nat
  BY Counted DEF IInv, TypeOK
<1>2. ~ Fault
  BY <1>1 DEF Fault
<1>3. requests' = requests
  BY DEF Next, Process, Environment, Stage, Commit, Rollback, Cleanup, Drop, vars,
     StageSkip, StageValidate, StageRefuse, StageOutput, StageBackup,
     StageIoError, StageReturn, CommitValidate, CommitRefuse, CommitReplace,
     CommitReplaceFails, CommitSync, CommitSyncFails, RollbackValidate,
     RollbackKeep, RollbackReplace, RollbackSync, RollbackReturn, CleanupRemove,
     CleanupSync, CleanupFails, CleanupReturn, DropOwned, DropReturn, Unwind,
     Crash, EditFile
<1>4. Distinct
  BY <1>3 DEF Distinct, Path
<1>5. pc \notin RollbackSteps /\ errors = {} /\ outcome \in {"none", "ok", "panic"}
  BY <1>1, <1>4 DEF FaultlessInv
<1>6. CASE UNCHANGED vars
  BY <1>5, <1>6 DEF vars
<1>7. CASE Stage
  <2>1. ~ StageRefuse
    BY <1>1, <1>2, <1>4, ValidationsPass DEF StageRefuse, IInv, TypeOK, StageInv
  <2> QED
    BY <1>2, <1>5, <1>7, <2>1
    DEF Stage, StageSkip, StageValidate, StageOutput, StageBackup, StageIoError,
        StageReturn
<1>8. CASE Commit
  <2>1. ~ CommitRefuse
    BY <1>1, <1>2, <1>4, ValidationsPass DEF CommitRefuse
  <2> QED
    BY <1>2, <1>5, <1>8, <2>1
    DEF Commit, CommitValidate, CommitReplace, CommitReplaceFails, CommitSync,
        CommitSyncFails
<1>9. CASE Rollback
  BY <1>5, <1>9
  DEF Rollback, RollbackValidate, RollbackKeep, RollbackReplace, RollbackSync,
      RollbackReturn
<1>10. CASE Cleanup
  BY <1>2, <1>5, <1>10
  DEF Cleanup, CleanupRemove, CleanupSync, CleanupFails, CleanupReturn
<1>11. CASE Drop \/ Unwind \/ Crash
  BY <1>5, <1>11 DEF Drop, DropOwned, DropReturn, Unwind, Crash
<1>12. CASE \E f \in Files : EditFile(f)
  BY <1>1, <1>12 DEF EditFile
<1> QED
  BY <1>6, <1>7, <1>8, <1>9, <1>10, <1>11, <1>12 DEF Next, Process, Environment

----------------------------------------------------------------------------
(* Before the first call nothing was returned.                             *)
LEMMA InitiallyNoOutcome == Init => OutcomeInv
  BY DEF Init, OutcomeInv, ResultInv, UndisturbedInv, FaultlessInv

(* The three invariants hold together in every state of every behaviour.   *)
THEOREM OutcomeInvariance == Spec => [](IInv /\ ReplacementInv /\ OutcomeInv)
<1>1. Init => IInv /\ ReplacementInv /\ OutcomeInv
  BY Initial, InitiallyStaged, InitiallyNoOutcome
<1>2. IInv /\ ReplacementInv /\ OutcomeInv /\ [Next]_vars
        => (IInv /\ ReplacementInv /\ OutcomeInv)'
  BY Inductive, ReplacementInductive, ResultKept, UndisturbedKept, FaultlessKept
  DEF OutcomeInv
<1> QED
  BY <1>1, <1>2, PTL DEF Spec

(* A returned transaction leaves no temporary file in the source tree that *)
(* its error does not name, unless the removal itself failed.              *)
THEOREM LeftoversNamed == Spec => []NothingHidden
<1>1. IInv /\ OutcomeInv => NothingHidden
  BY DEF IInv, TypeOK, OutcomeInv, ResultInv, NothingHidden, Exists
<1> QED
  BY OutcomeInvariance, <1>1, PTL

(* Undisturbed, a batch is replaced as a whole or not at all, but for the  *)
(* files whose backup the error names; and without faults it is replaced.  *)
THEOREM UndisturbedAllOrNothing == Spec => []AllOrNothing
<1>1. IInv /\ OutcomeInv => AllOrNothing
  <2> SUFFICES ASSUME IInv, OutcomeInv, pc = "done", edits = 0
               PROVE  AllOrNothing
    BY DEF AllOrNothing
  <2>1. \A i \in Requests : Path(i) \in Files
    BY PathsTyped DEF IInv
  <2>2. \A f \in Files : disk[f] = "original" \/ \E i \in Replaced : Path(i) = f
    BY DEF OutcomeInv, UndisturbedInv
  <2>3. \A i \in Replaced : disk[Path(i)] = "replacement"
    BY <2>1 DEF OutcomeInv, UndisturbedInv
  <2>4. outcome \in {"ok", "uncleaned"} =>
          \A i \in Requests : requests[i].changed => disk[Path(i)] = "replacement"
    BY <2>3 DEF OutcomeInv, ResultInv
  <2>5. outcome \in {"refused", "error"} => \A f \in Files : disk[f] = "original"
    BY <2>2 DEF OutcomeInv, ResultInv
  <2>6. outcome = "recovery" =>
          \A f \in Files : \/ disk[f] = "original"
                           \/ \E i \in Named({"preserved"}) : Path(i) = f
    BY <2>2 DEF OutcomeInv, ResultInv
  <2>7. faults = 0 /\ Distinct => outcome \in {"ok", "panic"}
    BY DEF OutcomeInv, ResultInv, FaultlessInv
  <2> QED
    BY <2>4, <2>5, <2>6, <2>7 DEF AllOrNothing
<1> QED
  BY OutcomeInvariance, <1>1, PTL
=============================================================================
