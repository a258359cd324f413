------------------------- MODULE BatchReplacement --------------------------
(***************************************************************************)
(* What a batch of file replacements promises to the commands that write   *)
(* files (`format --write`, `check --fix`), without temporary files, calls *)
(* and their failures.  Files are replaced one by one and the original of  *)
(* each is kept beside it; the batch then either goes on to the end, after *)
(* which the originals may be discarded, or is undone, as far as the files *)
(* still permit.  The verdict tells which.  Transaction implements this.   *)
(***************************************************************************)
EXTENDS Naturals, Sequences

CONSTANTS
  Files,         \* the source files
  Contents,      \* what a file may hold
  RequestLists   \* the batches

VARIABLES
  requests,   \* the batch
  disk,       \* what each file holds
  replaced,   \* the requests whose file was replaced and not put back
  originals,  \* the requests whose original is kept beside the file
  phase,      \* "replacing", "undoing", "complete" or "over"
  verdict     \* what the caller is told

batchVars == <<requests, disk, replaced, originals, phase, verdict>>

Changed == {i \in 1..Len(requests) : requests[i].changed}

Init ==
  /\ requests \in RequestLists
  /\ disk = [f \in Files |-> "original"]
  /\ replaced = {} /\ originals = {}
  /\ phase = "replacing" /\ verdict = "none"

Put(i, text) == disk' = [disk EXCEPT ![requests[i].path] = text]

(* A file gets its new text, and its original is kept.                     *)
Replace(i) ==
  /\ phase = "replacing" /\ i \in Changed \ replaced
  /\ Put(i, "replacement")
  /\ replaced' = replaced \cup {i} /\ originals' = originals \cup {i}
  /\ UNCHANGED <<requests, phase, verdict>>

(* Every changed file of the batch has its new text.                       *)
Complete ==
  /\ phase = "replacing" /\ replaced = Changed
  /\ phase' = "complete"
  /\ UNCHANGED <<requests, disk, replaced, originals, verdict>>

Discard(i) ==
  /\ phase = "complete" /\ i \in originals
  /\ originals' = originals \ {i}
  /\ UNCHANGED <<requests, disk, replaced, phase, verdict>>

Undo ==
  /\ phase = "replacing"
  /\ phase' = "undoing"
  /\ UNCHANGED <<requests, disk, replaced, originals, verdict>>

(* The kept original becomes the file again.                               *)
Restore(i) ==
  /\ phase = "undoing" /\ i \in replaced \cap originals
  /\ Put(i, "original")
  /\ replaced' = replaced \ {i} /\ originals' = originals \ {i}
  /\ UNCHANGED <<requests, phase, verdict>>

(* What each verdict says of the files and the originals.                  *)
Deserved(v) ==
  CASE v = "ok"        -> phase = "complete" /\ originals = {}
    [] v = "uncleaned" -> phase = "complete"
    [] v = "refused"   -> phase = "replacing" /\ replaced = {} /\ originals = {}
    [] v = "error"     -> phase = "undoing" /\ replaced = {} /\ originals = {}
    [] v = "recovery"  -> phase = "undoing" /\ replaced = originals
    [] v \in {"panic", "none"} -> TRUE

(* The caller gets its verdict; a killed process gives none.  What is      *)
(* replaced or kept by then stays so.                                      *)
Return(v) ==
  /\ phase # "over" /\ Deserved(v)
  /\ phase' = "over" /\ verdict' = v
  /\ UNCHANGED <<requests, disk, replaced, originals>>

(* Another program writes a file, at any time.                             *)
Edit(f) ==
  /\ \E content \in Contents : disk' = [disk EXCEPT ![f] = content]
  /\ UNCHANGED <<requests, replaced, originals, phase, verdict>>

Verdicts == {"none", "ok", "uncleaned", "refused", "error", "recovery", "panic"}

Next ==
  \/ \E i \in 1..Len(requests) : Replace(i) \/ Discard(i) \/ Restore(i)
  \/ Complete
  \/ Undo
  \/ \E v \in Verdicts : Return(v)
  \/ \E f \in Files : Edit(f)

Spec == Init /\ [][Next]_batchVars
=============================================================================
