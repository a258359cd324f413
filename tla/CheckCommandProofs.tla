------------------------- MODULE CheckCommandProofs -------------------------
(***************************************************************************)
(* Proofs, for every finite set of files and of kinds of findings, and for *)
(* all texts, profiles and catalogs, of what CheckCommand promises: fixes  *)
(* end as the exit says and keep edits, only a request changes the         *)
(* baseline, the counts of a comparison are exact, and new findings fail   *)
(* the run.                                                                *)
(***************************************************************************)
EXTENDS CheckCommand, FiniteSetTheorems, TLAPS

(* The steps after all the inputs were read.                               *)
Analysed == pc \in {"write", "compare", "refresh", "report"}

(* What was analysed or is being fixed are texts.                          *)
ReadInv == Analysed \/ pc \in Fixing => read \in [Files -> Texts]

(* What a run has put into a file.                                         *)
Held(f) == IF f \in written THEN Fixed(read[f]) ELSE read[f]

(* Where nobody has edited it, a file holds what the run has read or put   *)
(* there.                                                                  *)
DiskInv ==
  /\ pc = "idle" => read = [f \in Files |-> Unread]
  /\ pc = "read" =>
       \A f \in Files \ edited : read[f] # Unread => disk[f] = read[f]
  /\ pc \in Fixing => \A f \in Files \ edited : disk[f] = Held(f)

(* What a loop over the fixes has done, and has yet to do.                 *)
LoopInv ==
  /\ pc \notin {"undo", "restore"} => kept = {}
  /\ pc \notin Fixing \/ pc = "stage" => written = {}
  /\ pc \in {"commit", "replace"} =>
       left \subseteq Changed /\ written = Changed \ left
  /\ pc \in {"undo", "restore"} =>
       written = left \cup kept /\ left \cap kept = {}
  /\ pc = "relint" => written = Changed

(* The file that is about to change holds what it was validated against.   *)
CheckedInv ==
  /\ pc \notin {"replace", "restore"} => checked = {}
  /\ pc \in {"replace", "restore"} => checked \subseteq left
  /\ pc = "replace" /\ ~ late => \A f \in checked : disk[f] = read[f]
  /\ pc = "restore" /\ ~ late => \A f \in checked : disk[f] = Fixed(read[f])

FixInv == DiskInv /\ LoopInv /\ CheckedInv

(* The baseline file holds the findings that were accepted when it was     *)
(* written, and nothing unless it was.                                     *)
BaselineInv ==
  /\ baseline.state = "written" => baseline.entries = Entries(accepted)
  /\ baseline.state # "written" => baseline.entries = {}
  /\ baseline.state = "absent" => accepted = [i \in Identities |-> 0]

(* What was compared with was a baseline of this profile and catalog, or   *)
(* none; the counts are those of the findings read and of that baseline.   *)
SummaryInv ==
  /\ ~ summary.compared => summary.previous.entries = {}
  /\ summary.compared =>
       /\ pc \in {"refresh", "report"}
       /\ \/ summary.previous.state = "absent"
          \/ /\ summary.previous.profile = profile
             /\ summary.previous.catalog = catalog
       /\ IsFiniteSet(summary.previous.entries)
  /\ summary.compared /\ pc = "refresh" =>
       LET current == Entries(Found(read))
           former  == Entries(accepted)
       IN  /\ summary.existing = Cardinality(current \cap former)
           /\ summary.new = Cardinality(current \ former)
           /\ summary.stale = Cardinality(former \ current)

(* The inductive invariant.                                                *)
CheckInv == TypeOK /\ ReadInv /\ FixInv /\ BaselineInv /\ SummaryInv

Numbers == [Identities -> Nat]

----------------------------------------------------------------------------
(* Entries and counts                                                      *)

(* There are finitely many identities.                                     *)
LEMMA IdentitiesFinite == IsFiniteSet(Identities)
BY FinitenessAssumption, FS_Product DEF Identities

(* The findings of texts are numbers.                                      *)
LEMMA FoundTyped ==
  ASSUME NEW texts \in [Files -> Texts] PROVE Found(texts) \in Numbers
BY TextsAssumption DEF Found, Identities, Numbers

(* An entry is one of the findings of its identity, counted from 0.        *)
LEMMA EntryIn ==
  ASSUME NEW g \in Numbers, NEW i \in Identities, NEW n \in Nat
  PROVE  <<i, n>> \in Entries(g) <=> n < g[i]
<1>1. g[i] \in Nat  BY DEF Numbers
<1> QED BY <1>1 DEF Entries

(* Entries have the type of slots.                                         *)
LEMMA EntriesTyped ==
  ASSUME NEW g \in Numbers PROVE Entries(g) \subseteq Slots
<1> SUFFICES ASSUME NEW i \in Identities, NEW e \in {i} \X (0 .. g[i] - 1)
             PROVE  e \in Slots
  BY DEF Entries
<1>1. g[i] \in Nat  BY DEF Numbers
<1> QED BY <1>1 DEF Slots

(* Findings have finitely many entries, as many as they are.               *)
LEMMA EntriesCounted ==
  ASSUME NEW g \in Numbers
  PROVE  /\ IsFiniteSet(Entries(g))
         /\ Cardinality(Entries(g)) = Total(g)
<1> DEFINE T == {{i} \X (0 .. g[i] - 1) : i \in Identities}
           h == [i \in Identities |-> {i} \X (0 .. g[i] - 1)]
           U == UNION {{i} \X (1 .. g[i]) : i \in Identities}
           next == [e \in Entries(g) |-> <<e[1], e[2] + 1>>]
<1>1. IsFiniteSet(T)
  <2>1. h \in Surjection(Identities, T)  BY DEF Surjection
  <2> QED BY <2>1, IdentitiesFinite, FS_Surjection
<1>2. ASSUME NEW B \in T PROVE IsFiniteSet(B)
  <2>1. PICK i \in Identities : B = {i} \X (0 .. g[i] - 1)  OBVIOUS
  <2>2. g[i] \in Nat  BY DEF Numbers
  <2>3. IsFiniteSet(0 .. g[i] - 1)  BY <2>2, FS_Interval
  <2>4. IsFiniteSet({i})  BY FS_Singleton
  <2> QED BY <2>1, <2>3, <2>4, FS_Product
<1>3. IsFiniteSet(Entries(g))
  BY <1>1, <1>2, FS_UNION DEF Entries
<1>4. next \in Bijection(Entries(g), U)
  <2>1. ASSUME NEW e \in Entries(g)
        PROVE  /\ e = <<e[1], e[2]>> /\ e[1] \in Identities /\ e[2] \in Nat
               /\ e[2] < g[e[1]]
    <3>1. PICK i \in Identities : e \in {i} \X (0 .. g[i] - 1)
      BY DEF Entries
    <3>2. g[i] \in Nat  BY DEF Numbers
    <3> QED BY <3>1, <3>2
  <2>2. ASSUME NEW u \in U
        PROVE  /\ u = <<u[1], u[2]>> /\ u[1] \in Identities /\ u[2] \in Nat
               /\ 1 <= u[2] /\ u[2] <= g[u[1]]
    <3>1. PICK i \in Identities : u \in {i} \X (1 .. g[i])  OBVIOUS
    <3>2. g[i] \in Nat  BY DEF Numbers
    <3> QED BY <3>1, <3>2
  <2>3. ASSUME NEW e \in Entries(g) PROVE next[e] \in U
    <3>1. g[e[1]] \in Nat  BY <2>1 DEF Numbers
    <3>2. e[2] + 1 \in 1 .. g[e[1]]  BY <2>1, <3>1
    <3> QED BY <2>1, <3>2
  <2>4. ASSUME NEW e \in Entries(g), NEW d \in Entries(g), next[e] = next[d]
        PROVE  e = d
    BY <2>1, <2>4
  <2>5. ASSUME NEW u \in U PROVE \E e \in Entries(g) : next[e] = u
    <3>1. g[u[1]] \in Nat /\ u[2] - 1 \in Nat /\ u[2] - 1 < g[u[1]]
      BY <2>2 DEF Numbers
    <3>2. <<u[1], u[2] - 1>> \in Entries(g)
      BY <2>2, <3>1, EntryIn
    <3>3. next[<<u[1], u[2] - 1>>] = <<u[1], (u[2] - 1) + 1>>  BY <3>2
    <3>4. (u[2] - 1) + 1 = u[2]  BY <2>2
    <3> HIDE DEF next
    <3> QED BY <2>2, <3>2, <3>3, <3>4
  <2>6. next \in [Entries(g) -> U]
    <3> HIDE DEF U
    <3> QED BY <2>3
  <2> HIDE DEF U, next
  <2>7. next \in Injection(Entries(g), U)  BY <2>4, <2>6 DEF Injection, IsInjective
  <2>8. next \in Surjection(Entries(g), U)  BY <2>5, <2>6 DEF Surjection
  <2> QED BY <2>7, <2>8 DEF Bijection
<1> QED
  <2>1. ExistsBijection(Entries(g), U)  BY <1>4 DEF ExistsBijection
  <2>2. Cardinality(U) = Cardinality(Entries(g))
    <3> HIDE DEF U
    <3> QED BY <1>3, <2>1, FS_Bijection
  <2> QED BY <1>3, <2>2 DEF Total

(* What two runs share are, for each identity, as many findings as both    *)
(* have.                                                                   *)
LEMMA EntriesShared ==
  ASSUME NEW g \in Numbers, NEW h \in Numbers
  PROVE  LET shared == [i \in Identities |-> Lesser(g[i], h[i])]
         IN  shared \in Numbers /\ Entries(g) \cap Entries(h) = Entries(shared)
<1> DEFINE shared == [i \in Identities |-> Lesser(g[i], h[i])]
<1>1. shared \in Numbers  BY DEF Numbers, Lesser
<1>2. ASSUME NEW e \in Slots
      PROVE  e \in Entries(g) /\ e \in Entries(h) <=> e \in Entries(shared)
  <2>1. PICK i \in Identities, n \in Nat : e = <<i, n>>  BY DEF Slots
  <2>2. g[i] \in Nat /\ h[i] \in Nat /\ shared[i] = Lesser(g[i], h[i])
    BY DEF Numbers
  <2>3. n < shared[i] <=> n < g[i] /\ n < h[i]
    BY <2>2 DEF Lesser
  <2> HIDE DEF shared
  <2> QED BY <1>1, <2>1, <2>3, EntryIn
<1> HIDE DEF shared
<1>3. Entries(g) \cap Entries(h) = Entries(shared)
  BY <1>1, <1>2, EntriesTyped
<1> QED BY <1>1, <1>3 DEF shared

(* No findings have no entries.                                            *)
LEMMA EntriesNone ==
  /\ [i \in Identities |-> 0] \in Numbers
  /\ Entries([i \in Identities |-> 0]) = {}
<1> DEFINE zero == [i \in Identities |-> 0]
<1>1. zero \in Numbers  BY DEF Numbers
<1>2. ASSUME NEW e \in Entries(zero) PROVE FALSE
  BY DEF Entries
<1> QED BY <1>1, <1>2
----------------------------------------------------------------------------
(* The invariant                                                           *)

(* It holds before the first run.                                          *)
LEMMA InitInv == Init => CheckInv
<1> SUFFICES ASSUME Init PROVE CheckInv OBVIOUS
<1>1. TypeOK
  <2>1. NoArgs \in Args  BY DEF NoArgs, Args
  <2>2. disk \in [Files -> Texts] /\ profile \in Profiles /\ catalog \in Catalogs
        /\ pc = "idle" /\ read \in [Files -> Texts \cup {Unread}] /\ failed \in BOOLEAN
    BY DEF Init
  <2>3. /\ baseline.state = "absent" /\ baseline.profile = "none"
        /\ baseline.catalog = 0 /\ baseline.entries = {}
    BY DEF Init, Absent
  <2>4. accepted \in [Identities -> Nat] /\ exit.code = 0 /\ args \in Args
    BY <2>1 DEF Init
  <2>5. summary.existing = 0 /\ summary.new = 0 /\ summary.stale = 0
    BY DEF Init, NoSummary
  <2>6. /\ left \subseteq Files /\ checked \subseteq Files /\ edited \subseteq Files
        /\ written \subseteq Files /\ kept \subseteq Files /\ late \in BOOLEAN
    BY DEF Init
  <2> QED BY <2>2, <2>3, <2>4, <2>5, <2>6 DEF TypeOK
<1>2. ReadInv  BY DEF Init, ReadInv, Analysed, Fixing
<1>5. FixInv
  BY DEF Init, FixInv, DiskInv, LoopInv, CheckedInv, Fixing
<1>3. BaselineInv  BY DEF Init, BaselineInv, Absent
<1>4. SummaryInv  BY DEF Init, SummaryInv, NoSummary, Absent
<1> QED BY <1>1, <1>2, <1>3, <1>4, <1>5 DEF CheckInv

(* A run that ends leaves nothing of itself.                               *)
LEMMA Ended ==
  ASSUME NEW code \in 0 .. 2, NEW why, Exit(code, why)
  PROVE  /\ pc' = "idle" /\ args' \in Args /\ failed' \in BOOLEAN
         /\ read' = [f \in Files |-> Unread]
         /\ ~ summary'.compared /\ summary'.previous.entries = {}
         /\ summary'.existing \in Nat /\ summary'.new \in Nat
         /\ summary'.stale \in Nat /\ exit'.code \in 0 .. 2
         /\ left' = {} /\ checked' = {} /\ late' = FALSE
         /\ edited' = {} /\ written' = {} /\ kept' = {}
BY DEF Exit, EndFix, NoArgs, Args, NoSummary, Absent

(* The part of the type invariant about the baseline.                      *)
BaselineTyped ==
  /\ baseline.state \in {"absent", "torn", "written"}
  /\ baseline.profile \in Profiles \cup {"none"}
  /\ baseline.catalog \in Catalogs \cup {0}
  /\ baseline.entries \subseteq Slots
  /\ accepted \in [Identities -> Nat]

(* A write of the baseline records what was analysed, or ends the run,     *)
(* whatever was to follow.                                                 *)
LEMMA Writes ==
  ASSUME CheckInv, Analysed,
         \/ /\ baseline' = Written(Found(read)) /\ accepted' = Found(read)
         \/ /\ baseline' \in {baseline, Torn} /\ UNCHANGED accepted
         \/ UNCHANGED <<baseline, accepted>>
  PROVE  BaselineTyped' /\ BaselineInv'
<1>1. Found(read) \in Numbers /\ Entries(Found(read)) \subseteq Slots
  BY FoundTyped, EntriesTyped DEF CheckInv, ReadInv
<1>2. BaselineTyped
  BY DEF CheckInv, TypeOK, BaselineTyped
<1>3. CASE baseline' = Written(Found(read)) /\ accepted' = Found(read)
  BY <1>1, <1>3 DEF Written, BaselineTyped, BaselineInv, Numbers, CheckInv, TypeOK
<1>4. CASE UNCHANGED <<baseline, accepted>>
  BY <1>2, <1>4 DEF BaselineTyped, BaselineInv, CheckInv
<1>5. CASE baseline' = Torn /\ UNCHANGED accepted
  BY <1>2, <1>5 DEF Torn, Absent, BaselineTyped, BaselineInv
<1> QED BY <1>3, <1>4, <1>5

(* The types after a step that ends the run.                               *)
LEMMA EndedInv ==
  ASSUME CheckInv, NEW code \in 0 .. 2, NEW why, Exit(code, why),
         disk' \in [Files -> Texts], UNCHANGED <<profile, catalog>>,
         BaselineTyped' /\ BaselineInv'
  PROVE  CheckInv'
<1> USE Ended
<1>1. TypeOK'  BY DEF CheckInv, TypeOK, BaselineTyped
<1>2. ReadInv'  BY DEF ReadInv, Analysed, Fixing
<1>3. FixInv'  BY DEF FixInv, DiskInv, LoopInv, CheckedInv, Fixing
<1>4. SummaryInv'  BY DEF SummaryInv
<1> QED BY <1>1, <1>2, <1>3, <1>4 DEF CheckInv

(* After the fixes, a step that leaves them alone.                         *)
LEMMA NoFixKept ==
  ASSUME CheckInv, Analysed, Analysed', UNCHANGED fixVars
  PROVE  FixInv'
BY DEF CheckInv, FixInv, DiskInv, LoopInv, CheckedInv, Analysed, Fixing, fixVars

(* The types and the baseline after a step that touches no file.           *)
LEMMA FilesKept ==
  ASSUME CheckInv, UNCHANGED <<baseline, accepted>>
  PROVE  BaselineTyped' /\ BaselineInv'
BY DEF CheckInv, TypeOK, BaselineTyped, BaselineInv

(* Fixed texts are texts.                                                  *)
LEMMA FixedTyped == ASSUME NEW t \in Texts PROVE Fixed(t) \in Texts
BY TextsAssumption DEF Fixed

(* When no input is left unread, texts were read.                          *)
LEMMA AllReadTyped ==
  ASSUME CheckInv, AllRead PROVE read \in [Files -> Texts]
BY DEF CheckInv, TypeOK, AllRead

----------------------------------------------------------------------------
(* The fixes                                                               *)

(* A step among the fixes, or to what follows them.                        *)
LEMMA FixGoesOn ==
  ASSUME CheckInv, pc \in Fixing \cup {"read"}, pc' \in Fixing \cup {"write"},
         UNCHANGED <<baseline, accepted, profile, catalog, args, failed, summary,
                     exit>>,
         disk' \in [Files -> Texts], read' \in [Files -> Texts],
         left' \subseteq Files, checked' \subseteq Files, edited' \subseteq Files,
         written' \subseteq Files, kept' \subseteq Files, late' \in BOOLEAN,
         FixInv'
  PROVE  CheckInv'
<1>0. ~ summary.compared /\ pc' \notin {"refresh", "report"}
  BY DEF CheckInv, SummaryInv, Fixing
<1>1. TypeOK'  BY <1>0 DEF CheckInv, TypeOK, Fixing
<1>2. ReadInv'  BY DEF ReadInv
<1>3. BaselineInv'  BY FilesKept
<1>4. SummaryInv'  BY <1>0 DEF CheckInv, SummaryInv
<1> QED BY <1>1, <1>2, <1>3, <1>4 DEF CheckInv

(* What the fixes work on is typed.                                        *)
LEMMA FixTyped ==
  ASSUME CheckInv, pc \in Fixing
  PROVE  /\ disk \in [Files -> Texts] /\ read \in [Files -> Texts]
         /\ \A f \in Files : Fixed(read[f]) \in Texts
         /\ left \subseteq Files /\ checked \subseteq Files /\ edited \subseteq Files
         /\ written \subseteq Files /\ kept \subseteq Files /\ late \in BOOLEAN
BY FixedTyped DEF CheckInv, TypeOK, ReadInv

(* The start of the fixes, when all the files were read.                   *)
LEMMA BeginFixInv == CheckInv /\ BeginFix => CheckInv'
<1> SUFFICES ASSUME CheckInv, BeginFix PROVE CheckInv' OBVIOUS
<1>1. /\ UNCHANGED <<fileVars, args, read, failed, summary, exit, checked, late,
                     edited, written, kept>>
      /\ pc = "read" /\ AllRead
      /\ \/ pc' = "stage" /\ left' = Changed
         \/ pc' = "write" /\ left' = left
  BY DEF BeginFix
<1>2. read \in [Files -> Texts]  BY <1>1, AllReadTyped
<1>3. /\ disk \in [Files -> Texts] /\ left' \subseteq Files /\ checked \subseteq Files
      /\ edited \subseteq Files /\ written \subseteq Files /\ kept \subseteq Files
      /\ late \in BOOLEAN
  BY <1>1 DEF CheckInv, TypeOK, Changed
<1>4. DiskInv'
  <2>1. \A f \in Files \ edited : disk[f] = read[f]
    BY <1>1 DEF CheckInv, FixInv, DiskInv, AllRead
  <2>2. written = {}  BY <1>1 DEF CheckInv, FixInv, LoopInv, Fixing
  <2> QED BY <1>1, <2>1, <2>2 DEF DiskInv, Held, fileVars
<1>5. LoopInv' /\ CheckedInv'
  BY <1>1 DEF CheckInv, FixInv, LoopInv, CheckedInv, Fixing
<1> QED BY <1>1, <1>2, <1>3, <1>4, <1>5, FixGoesOn DEF FixInv, fileVars, Fixing

(* Staging validates the files and changes none of them.                   *)
LEMMA StageInv == ASSUME CheckInv, NEW f \in Files, Stage(f) PROVE CheckInv'
<1>1. pc = "stage" /\ UNCHANGED fileVars  BY DEF Stage
<1>2. CASE Exit(2, "fix")
  BY <1>1, <1>2, EndedInv, FilesKept DEF CheckInv, TypeOK, fileVars
<1>3. CASE ~ Exit(2, "fix")
  <2>1. /\ UNCHANGED <<args, read, failed, summary, exit, checked, late, edited,
                       written, kept>>
        /\ \/ pc' = "commit" /\ left' = Changed
           \/ pc' = pc /\ left' = left \ {f}
    BY <1>3 DEF Stage
  <2>2. Changed \subseteq Files  BY DEF Changed
  <2>3. DiskInv'
    BY <1>1, <2>1 DEF CheckInv, FixInv, DiskInv, Held, fileVars, Fixing
  <2>4. LoopInv' /\ CheckedInv'
    BY <1>1, <2>1 DEF CheckInv, FixInv, LoopInv, CheckedInv, Fixing, Changed
  <2> QED BY <1>1, <2>1, <2>2, <2>3, <2>4, FixTyped, FixGoesOn
          DEF FixInv, fileVars, Fixing
<1> QED BY <1>2, <1>3

(* Before a replacement, its file was found as it was read.                *)
LEMMA ValidateInv ==
  ASSUME CheckInv, NEW f \in Files, Validate(f) PROVE CheckInv'
<1>1. /\ pc = "commit" /\ f \in left
      /\ UNCHANGED <<fileVars, args, read, failed, summary, exit, edited, written,
                     kept>>
      /\ \/ /\ disk[f] = read[f] /\ pc' = "replace" /\ checked' = {f}
            /\ late' = FALSE /\ left' = left
         \/ /\ pc' = "undo" /\ left' = written /\ checked' = checked
            /\ late' = late
  BY DEF Validate, RollBack
<1>2. DiskInv'
  BY <1>1 DEF CheckInv, FixInv, DiskInv, Held, fileVars, Fixing
<1>3. LoopInv'
  BY <1>1 DEF CheckInv, FixInv, LoopInv, Fixing, Changed
<1>4. CheckedInv'
  BY <1>1 DEF CheckInv, FixInv, CheckedInv, fileVars, Fixing
<1> QED BY <1>1, <1>2, <1>3, <1>4, FixTyped, FixGoesOn DEF FixInv, fileVars, Fixing

(* A replacement puts its file among those that hold their fixed text.     *)
LEMMA ReplaceInv == CheckInv /\ Replace => CheckInv'
<1> SUFFICES ASSUME CheckInv, Replace PROVE CheckInv' OBVIOUS
<1>1. /\ pc = "replace" /\ checked' = {} /\ late' = FALSE
      /\ UNCHANGED <<baseline, accepted, profile, catalog, args, read, failed,
                     summary, exit, edited, kept>>
  BY DEF Replace
<1>2. PICK f \in checked :
        \/ /\ disk' = [disk EXCEPT ![f] = Fixed(read[f])]
           /\ written' = written \cup {f}
           /\ \/ /\ left' = left \ {f}
                 /\ pc' = IF left = {f} THEN "relint" ELSE "commit"
              \/ pc' = "undo" /\ left' = written \cup {f}
        \/ pc' = "undo" /\ left' = written /\ UNCHANGED <<disk, written>>
  BY DEF Replace, RollBack
<1>3. pc \in Fixing /\ pc' \in Fixing  BY <1>1, <1>2 DEF Fixing
<1>4. f \in Files /\ f \in left  BY <1>1, FixTyped, <1>3 DEF CheckInv, FixInv, CheckedInv
<1>5. /\ left \subseteq Changed /\ written = Changed \ left /\ kept = {}
      /\ \A g \in Files \ edited : disk[g] = Held(g)
  BY <1>1, <1>3 DEF CheckInv, FixInv, DiskInv, LoopInv
<1>6. disk' \in [Files -> Texts]  BY <1>2, <1>3, <1>4, FixTyped
<1>7. DiskInv'
  <2>1. ASSUME NEW g \in Files \ edited PROVE disk'[g] = Held(g)'
    <3>1. CASE UNCHANGED <<disk, written>>
      BY <1>1, <1>5, <3>1 DEF Held
    <3>2. CASE disk' = [disk EXCEPT ![f] = Fixed(read[f])] /\ written' = written \cup {f}
      BY <1>1, <1>3, <1>4, <1>5, <3>2, FixTyped DEF Held, Fixed
    <3> QED BY <1>2, <3>1, <3>2
  <2> QED BY <1>1, <1>3, <2>1 DEF DiskInv, Fixing
<1>8. LoopInv'
  <2>1. Changed' = Changed  BY <1>1 DEF Changed, Fixed
  <2> QED BY <1>1, <1>2, <1>4, <1>5, <2>1 DEF LoopInv, Fixing
<1>9. CheckedInv'  BY <1>1, <1>2 DEF CheckedInv
<1>10. left' \subseteq Files /\ written' \subseteq Files
  BY <1>2, <1>3, <1>4, FixTyped
<1> QED BY <1>1, <1>3, <1>6, <1>7, <1>8, <1>9, <1>10, FixTyped, FixGoesOn DEF FixInv

(* Before a file is put back, it was found as the fix left it; one that    *)
(* was not is named.                                                       *)
LEMMA ValidateUndoInv ==
  ASSUME CheckInv, NEW f \in Files, ValidateUndo(f) PROVE CheckInv'
<1>1. /\ pc = "undo" /\ f \in left
      /\ UNCHANGED <<fileVars, args, read, failed, summary, exit, edited, written>>
      /\ \/ /\ disk[f] = Fixed(read[f]) /\ pc' = "restore" /\ checked' = {f}
            /\ late' = FALSE /\ UNCHANGED <<left, kept>>
         \/ /\ left' = left \ {f} /\ kept' = kept \cup {f}
            /\ UNCHANGED <<pc, checked, late>>
  BY DEF ValidateUndo
<1>2. DiskInv'
  BY <1>1 DEF CheckInv, FixInv, DiskInv, Held, fileVars, Fixing
<1>3. LoopInv'
  BY <1>1 DEF CheckInv, FixInv, LoopInv, Fixing
<1>4. CheckedInv'
  BY <1>1 DEF CheckInv, FixInv, CheckedInv, fileVars, Fixing
<1>5. left' \subseteq Files /\ kept' \subseteq Files
  BY <1>1, FixTyped DEF Fixing
<1> QED BY <1>1, <1>2, <1>3, <1>4, <1>5, FixTyped, FixGoesOn
        DEF FixInv, fileVars, Fixing

(* A file that was put back holds what was read.                           *)
LEMMA RestoreInv == CheckInv /\ Restore => CheckInv'
<1> SUFFICES ASSUME CheckInv, Restore PROVE CheckInv' OBVIOUS
<1>1. /\ pc = "restore" /\ pc' = "undo" /\ checked' = {} /\ late' = FALSE
      /\ UNCHANGED <<baseline, accepted, profile, catalog, args, read, failed,
                     summary, exit, edited>>
  BY DEF Restore
<1>2. PICK f \in checked :
        /\ left' = left \ {f}
        /\ \/ /\ disk' = [disk EXCEPT ![f] = read[f]]
              /\ written' = written \ {f} /\ UNCHANGED kept
           \/ kept' = kept \cup {f} /\ UNCHANGED <<disk, written>>
  BY DEF Restore
<1>3. pc \in Fixing /\ pc' \in Fixing  BY <1>1 DEF Fixing
<1>4. f \in Files /\ f \in left  BY <1>1, FixTyped, <1>3 DEF CheckInv, FixInv, CheckedInv
<1>5. /\ written = left \cup kept /\ left \cap kept = {}
      /\ \A g \in Files \ edited : disk[g] = Held(g)
  BY <1>1, <1>3 DEF CheckInv, FixInv, DiskInv, LoopInv
<1>6. disk' \in [Files -> Texts]  BY <1>2, <1>3, <1>4, FixTyped
<1>7. DiskInv'
  <2>1. ASSUME NEW g \in Files \ edited PROVE disk'[g] = Held(g)'
    <3>1. CASE UNCHANGED <<disk, written>>
      BY <1>1, <1>5, <3>1 DEF Held
    <3>2. CASE disk' = [disk EXCEPT ![f] = read[f]] /\ written' = written \ {f}
      BY <1>1, <1>3, <1>4, <1>5, <3>2, FixTyped DEF Held, Fixed
    <3> QED BY <1>2, <3>1, <3>2
  <2> QED BY <1>1, <1>3, <2>1 DEF DiskInv, Fixing
<1>8. LoopInv'
  BY <1>1, <1>2, <1>4, <1>5 DEF LoopInv, Fixing
<1>9. CheckedInv'  BY <1>1 DEF CheckedInv
<1>10. left' \subseteq Files /\ written' \subseteq Files /\ kept' \subseteq Files
  BY <1>2, <1>3, <1>4, FixTyped
<1> QED BY <1>1, <1>3, <1>6, <1>7, <1>8, <1>9, <1>10, FixTyped, FixGoesOn DEF FixInv

(* The end of a rollback.                                                  *)
LEMMA CommitFailsInv == CheckInv /\ CommitFails => CheckInv'
BY EndedInv, FilesKept DEF CommitFails, CheckInv, TypeOK, fileVars

(* The end of the fixes, in good order or not.                             *)
LEMMA RelintInv == CheckInv /\ Relint => CheckInv'
<1> SUFFICES ASSUME CheckInv, Relint PROVE CheckInv' OBVIOUS
<1>1. pc = "relint" /\ UNCHANGED fileVars  BY DEF Relint
<1>2. CASE Exit(2, "cleanup") \/ Exit(2, "relint")
  BY <1>1, <1>2, EndedInv, FilesKept DEF CheckInv, TypeOK, fileVars
<1>3. CASE ~ (Exit(2, "cleanup") \/ Exit(2, "relint"))
  <2>1. /\ read' = [f \in Files |-> Fixed(read[f])] /\ pc' = "write" /\ EndFix
        /\ UNCHANGED <<args, failed, summary, exit>>
    BY <1>3 DEF Relint
  <2>2. read' \in [Files -> Texts] /\ disk' \in [Files -> Texts]
    BY <1>1, <2>1, FixTyped DEF Fixing, fileVars
  <2>3. FixInv'
    BY <2>1 DEF EndFix, FixInv, DiskInv, LoopInv, CheckedInv, Fixing
  <2> QED BY <1>1, <2>1, <2>2, <2>3, FixGoesOn DEF EndFix, fileVars, Fixing
<1> QED BY <1>2, <1>3

(* An edit is one of the history, or concerns no run.                      *)
LEMMA EditInv == ASSUME CheckInv, NEW f \in Files, Edit(f) PROVE CheckInv'
<1>1. /\ UNCHANGED <<baseline, accepted, profile, catalog, pc, args, read, failed,
                     summary, exit, left, checked, written, kept>>
      /\ pc \in {"idle", "read"} \cup Fixing
      /\ edited' = IF pc = "idle" THEN edited ELSE edited \cup {f}
      /\ late' = (late \/ f \in checked)
      /\ disk' \in [Files -> Texts] /\ \A g \in Files \ {f} : disk'[g] = disk[g]
  BY DEF Edit, CheckInv, TypeOK
<1>2. TypeOK'
  BY <1>1 DEF CheckInv, TypeOK
<1>3. ReadInv'  BY <1>1 DEF CheckInv, ReadInv, Analysed
<1>4. DiskInv'
  BY <1>1 DEF CheckInv, FixInv, DiskInv, Held, Fixed, Fixing
<1>5. LoopInv'
  BY <1>1 DEF CheckInv, FixInv, LoopInv, Changed, Fixed
<1>6. CheckedInv'
  <2>1. checked \subseteq Files  BY DEF CheckInv, TypeOK
  <2> QED BY <1>1, <2>1 DEF CheckInv, FixInv, CheckedInv, Fixed
<1>7. BaselineInv'  BY <1>1, FilesKept
<1>8. SummaryInv'
  BY <1>1 DEF CheckInv, SummaryInv, Fixing
<1> QED BY <1>2, <1>3, <1>4, <1>5, <1>6, <1>7, <1>8 DEF CheckInv, FixInv

----------------------------------------------------------------------------
(* Every step of a run, of a developer and of the installation keeps it.   *)
LEMMA StepInv == CheckInv /\ [Next]_vars => CheckInv'
<1> SUFFICES ASSUME CheckInv, [Next]_vars PROVE CheckInv' OBVIOUS
<1>0. TypeOK /\ ReadInv /\ FixInv /\ BaselineInv /\ SummaryInv  BY DEF CheckInv
<1>1. CASE Start
  <2>1. FixInv'
    BY <1>0, <1>1 DEF Start, FixInv, DiskInv, LoopInv, CheckedInv, Fixing, fixVars
  <2> QED BY <1>0, <1>1, <2>1 DEF Start, fileVars, fixVars, CheckInv, TypeOK,
             ReadInv, Analysed, Fixing, BaselineInv, SummaryInv
<1>2. ASSUME NEW f \in Files, Read(f) PROVE CheckInv'
  <2>1. /\ read' \in [Files -> Texts \cup {Unread}] /\ failed' \in BOOLEAN
        /\ edited' \subseteq Files
    BY <1>0, <1>2 DEF Read, TypeOK
  <2>2. DiskInv'
    BY <1>0, <1>2 DEF Read, FixInv, DiskInv, fileVars, Fixing, TypeOK
  <2>3. LoopInv' /\ CheckedInv'
    BY <1>0, <1>2 DEF Read, FixInv, LoopInv, CheckedInv, Fixing
  <2> QED BY <1>0, <1>2, <2>1, <2>2, <2>3 DEF Read, fileVars, CheckInv, TypeOK,
             ReadInv, FixInv, Analysed, Fixing, BaselineInv, SummaryInv
<1>3. CASE ReadFails
  <2>1. Exit(2, "input") /\ UNCHANGED fileVars  BY <1>3 DEF ReadFails
  <2> QED BY <1>0, <2>1, EndedInv, FilesKept DEF fileVars, TypeOK
<1>4. CASE BeginFix \/ Replace \/ Restore \/ CommitFails \/ Relint
  BY <1>4, BeginFixInv, ReplaceInv, RestoreInv, CommitFailsInv, RelintInv
<1>13. ASSUME NEW f \in Files, Stage(f) \/ Validate(f) \/ ValidateUndo(f)
       PROVE  CheckInv'
  BY <1>13, StageInv, ValidateInv, ValidateUndoInv
<1>5. CASE WriteBaseline
  <2>1. UNCHANGED <<disk, profile, catalog>> /\ pc = "write"
    BY <1>5 DEF WriteBaseline
  <2>2. BaselineTyped' /\ BaselineInv'
    BY <1>5, Writes DEF WriteBaseline, WriteOr, Analysed
  <2>3. CASE Exit(2, "baseline-write")
    BY <1>0, <2>1, <2>2, <2>3, EndedInv DEF TypeOK
  <2>4. CASE ~ Exit(2, "baseline-write")
    <3>1. pc' = "compare" /\ UNCHANGED runVars
      BY <1>5, <2>4 DEF WriteBaseline, WriteOr
    <3>2. FixInv'  BY <2>1, <3>1, NoFixKept DEF Analysed, runVars
    <3> QED BY <1>0, <2>1, <2>2, <3>1, <3>2
          DEF runVars, fixVars, CheckInv, TypeOK, BaselineTyped, ReadInv, Analysed,
              SummaryInv
  <2> QED BY <2>3, <2>4
<1>6. CASE CompareFails
  <2>1. Exit(2, "baseline-rejected") \/ Exit(2, "baseline-missing")
    BY <1>6 DEF CompareFails
  <2>2. UNCHANGED fileVars  BY <1>6 DEF CompareFails
  <2> QED BY <1>0, <2>1, <2>2, EndedInv, FilesKept DEF fileVars, TypeOK
<1>7. CASE Compare
  <2>1. UNCHANGED <<fileVars, args, read, failed, exit, fixVars>> /\ pc = "compare"
        /\ pc' = "refresh"
    BY <1>7 DEF Compare
  <2>6. FixInv'  BY <2>1, NoFixKept DEF Analysed
  <2>2. BaselineTyped' /\ BaselineInv'
    BY <2>1, FilesKept DEF fileVars
  <2>3. ~ summary.compared  BY <1>0, <2>1 DEF SummaryInv
  <2>4. CASE UNCHANGED summary
    BY <1>0, <2>1, <2>2, <2>3, <2>4, <2>6 DEF fileVars, fixVars, CheckInv, TypeOK,
       BaselineTyped, ReadInv, Analysed, SummaryInv
  <2>5. CASE ~ UNCHANGED summary
    <3> DEFINE current == Entries(Found(read))
    <3>1. /\ ~ Rejected
          /\ summary' = [compared |-> TRUE,
                existing |-> Cardinality(current \cap baseline.entries),
                new      |-> Cardinality(current \ baseline.entries),
                stale    |-> Cardinality(baseline.entries \ current),
                previous |-> baseline]
      BY <1>7, <2>5 DEF Compare
    <3>2. baseline.entries = Entries(accepted)
      <4>1. CASE baseline.state = "written"
        BY <1>0, <4>1 DEF BaselineInv
      <4>2. CASE baseline.state = "absent"
        BY <1>0, <4>2, EntriesNone DEF BaselineInv
      <4> QED BY <1>0, <3>1, <4>1, <4>2 DEF Rejected, TypeOK
    <3>3. IsFiniteSet(current) /\ IsFiniteSet(baseline.entries)
      <4>1. Found(read) \in Numbers
        BY <1>0, <2>1, FoundTyped DEF ReadInv, Analysed
      <4>2. accepted \in Numbers  BY <1>0 DEF TypeOK, Numbers
      <4> QED BY <3>2, <4>1, <4>2, EntriesCounted
    <3> HIDE DEF current
    <3>4. /\ Cardinality(current \cap baseline.entries) \in Nat
          /\ Cardinality(current \ baseline.entries) \in Nat
          /\ Cardinality(baseline.entries \ current) \in Nat
      BY <3>3, FS_Intersection, FS_Difference, FS_CardinalityType
    <3>5. TypeOK'
      BY <1>0, <2>1, <3>1, <3>4 DEF fileVars, fixVars, TypeOK
    <3>6. ReadInv'
      BY <1>0, <2>1 DEF ReadInv, Analysed, Fixing
    <3>7. SummaryInv'
      <4>1. Entries(Found(read))' = current /\ Entries(accepted)' = baseline.entries
        BY <2>1, <3>2 DEF fileVars, current, Found
      <4>2. summary'.previous.state = "absent"
            \/ /\ summary'.previous.profile = profile'
               /\ summary'.previous.catalog = catalog'
        BY <1>0, <2>1, <3>1 DEF Rejected, TypeOK, fileVars
      <4> QED BY <2>1, <3>1, <3>3, <4>1, <4>2 DEF SummaryInv
    <3> QED BY <2>2, <2>6, <3>5, <3>6, <3>7 DEF CheckInv
  <2> QED BY <2>4, <2>5
<1>8. CASE RefreshBaseline
  <2>1. UNCHANGED <<disk, profile, catalog>> /\ pc = "refresh"
    BY <1>8 DEF RefreshBaseline
  <2>2. BaselineTyped' /\ BaselineInv'
    BY <1>8, Writes DEF RefreshBaseline, WriteOr, Analysed
  <2>3. CASE Exit(2, "baseline-write")
    BY <1>0, <2>1, <2>2, <2>3, EndedInv DEF TypeOK
  <2>4. CASE ~ Exit(2, "baseline-write")
    <3>1. pc' = "report" /\ UNCHANGED runVars
      BY <1>8, <2>4 DEF RefreshBaseline, WriteOr
    <3>2. FixInv'  BY <2>1, <3>1, NoFixKept DEF Analysed, runVars
    <3> QED BY <1>0, <2>1, <2>2, <3>1, <3>2
          DEF runVars, fixVars, CheckInv, TypeOK, BaselineTyped, ReadInv, Analysed,
              SummaryInv
  <2> QED BY <2>3, <2>4
<1>9. CASE Report \/ ReportFails
  <2>1. PICK code \in 0 .. 2, why \in {"analysed", "pipe", "output"} : Exit(code, why)
    BY <1>9 DEF Report, ReportFails
  <2>2. UNCHANGED fileVars  BY <1>9 DEF Report, ReportFails
  <2> QED BY <1>0, <2>1, <2>2, EndedInv, FilesKept DEF fileVars, TypeOK
<1>10. ASSUME NEW f \in Files, Edit(f) PROVE CheckInv'
  BY <1>10, EditInv
<1>11. CASE SelectProfile \/ Upgrade
  <2>1. pc = "idle" /\ UNCHANGED <<disk, baseline, accepted, pc, runVars>>
    BY <1>11 DEF SelectProfile, Upgrade
  <2>2. FixInv'
    BY <1>0, <2>1 DEF runVars, fixVars, FixInv, DiskInv, LoopInv, CheckedInv, Fixing
  <2> QED BY <1>0, <1>11, <2>1, <2>2 DEF SelectProfile, Upgrade, runVars, fixVars,
             CheckInv, TypeOK, ReadInv, Analysed, BaselineInv, SummaryInv, Fixing
<1>12. CASE UNCHANGED vars
  <2>1. FixInv'
    BY <1>0, <1>12 DEF vars, fileVars, runVars, fixVars, FixInv, DiskInv, LoopInv,
       CheckedInv, Held, Changed, Fixed
  <2> QED BY <1>0, <1>12, <2>1 DEF vars, fileVars, runVars, fixVars, CheckInv, TypeOK,
             ReadInv, Analysed, BaselineInv, SummaryInv, Found
<1> QED BY <1>1, <1>2, <1>3, <1>4, <1>5, <1>6, <1>7, <1>8, <1>9, <1>10, <1>11,
           <1>12, <1>13 DEF Next
----------------------------------------------------------------------------
(* The theorems                                                            *)

(* The invariant holds in every state of every behaviour.                  *)
THEOREM CheckInvariance == Spec => []CheckInv
BY InitInv, StepInv, PTL DEF Spec

(* Type correctness of CheckCommand.                                       *)
THEOREM CheckTyped == Spec => []TypeOK
<1>1. CheckInv => TypeOK  BY DEF CheckInv
<1> QED BY <1>1, CheckInvariance, PTL

(* baseline_entries and the comparison: numbering equal findings makes the *)
(* existing, new and stale counts those of the multisets of findings, for  *)
(* every number of equal findings.                                         *)
THEOREM ComparisonsAreExact == Spec => []CountsExact
<1>1. CheckInv => CountsExact
  <2> SUFFICES ASSUME CheckInv, summary.compared, pc = "refresh"
               PROVE  CountsExact
    BY DEF CountsExact
  <2> DEFINE found  == Found(read)
             shared == [i \in Identities |-> Lesser(found[i], accepted[i])]
  <2>1. found \in Numbers /\ accepted \in Numbers
    BY FoundTyped DEF CheckInv, TypeOK, ReadInv, Analysed, Numbers
  <2>2. shared \in Numbers /\ Entries(found) \cap Entries(accepted) = Entries(shared)
    BY <2>1, EntriesShared
  <2>3. /\ summary.existing = Cardinality(Entries(found) \cap Entries(accepted))
        /\ summary.new = Cardinality(Entries(found) \ Entries(accepted))
        /\ summary.stale = Cardinality(Entries(accepted) \ Entries(found))
    BY DEF CheckInv, SummaryInv
  <2> HIDE DEF found, shared
  <2>4. /\ IsFiniteSet(Entries(found)) /\ Cardinality(Entries(found)) = Total(found)
        /\ IsFiniteSet(Entries(accepted))
        /\ Cardinality(Entries(accepted)) = Total(accepted)
        /\ Cardinality(Entries(shared)) = Total(shared)
    BY <2>1, <2>2, EntriesCounted
  <2>5. Cardinality(Entries(found) \ Entries(accepted)) =
          Cardinality(Entries(found)) - Cardinality(Entries(found) \cap Entries(accepted))
    BY <2>4, FS_Difference
  <2>6. Cardinality(Entries(accepted) \ Entries(found)) =
          Cardinality(Entries(accepted)) - Cardinality(Entries(accepted) \cap Entries(found))
    BY <2>4, FS_Difference
  <2>7. Entries(accepted) \cap Entries(found) = Entries(shared)  BY <2>2
  <2>8. /\ summary.existing = Total(shared)
        /\ summary.new = Total(found) - Total(shared)
        /\ summary.stale = Total(accepted) - Total(shared)
    BY <2>2, <2>3, <2>4, <2>5, <2>6, <2>7
  <2> QED BY <2>8 DEF CountsExact, found, shared
<1> QED BY <1>1, CheckInvariance, PTL

(* The exit code of run_lint: with 0, every blocking kind has at most as   *)
(* many findings as the compatible baseline recorded, and none if nothing  *)
(* was compared, the full findings are shown or no baseline excuses it.    *)
THEOREM NewFindingsAreBlocking == Spec => NewFindingsBlock
<1> DEFINE Blocked ==
      pc = "report" /\ exit' = [code |-> 0, why |-> "analysed"] =>
       /\ summary.compared => \/ summary.previous.state = "absent"
                              \/ /\ summary.previous.profile = profile
                                 /\ summary.previous.catalog = catalog
       /\ \A f \in Files, k \in Blocking \cup Always :
            LET recorded == {e \in summary.previous.entries : e[1] = <<f, k>>}
            IN  read[f][k] <= IF k \in Always \/ args.show THEN 0
                              ELSE Cardinality(recorded)
<1>1. CheckInv /\ [Next]_vars => [Blocked]_vars
  <2> SUFFICES ASSUME CheckInv, Next, pc = "report",
                      exit' = [code |-> 0, why |-> "analysed"]
               PROVE  Blocked
    OBVIOUS
  <2>1. ~ Blocks
    <3>1. Report \/ ReportFails
      BY DEF Next, Start, Read, ReadFails, BeginFix, Stage, Validate, Replace,
         ValidateUndo, Restore, CommitFails, Relint, WriteBaseline, CompareFails,
         Compare, RefreshBaseline, Edit, SelectProfile, Upgrade, Fixing
    <3> QED BY <3>1 DEF Report, ReportFails, Exit
  <2>2. SummaryInv  BY DEF CheckInv
  <2>3. ASSUME NEW f \in Files, NEW k \in Blocking \cup Always
        PROVE  read[f][k] <=
                 IF k \in Always \/ args.show THEN 0
                 ELSE Cardinality({e \in summary.previous.entries : e[1] = <<f, k>>})
    <3> DEFINE i == <<f, k>>
               recorded == {e \in summary.previous.entries : e[1] = i}
    <3>1. k \in Kinds /\ i \in Identities
      BY KindsAssumption DEF Identities
    <3>2. read \in [Files -> Texts] /\ read[f][k] \in Nat
      BY <3>1, TextsAssumption DEF CheckInv, ReadInv, Analysed
    <3>3. Found(read) \in Numbers /\ Found(read)[i] = read[f][k]
      BY <3>1, <3>2, FoundTyped DEF Found
    <3>4. ASSUME NEW n \in Nat, n < read[f][k]
          PROVE  <<i, n>> \in Entries(Found(read))
      BY <3>1, <3>3, <3>4, EntryIn
    <3>5. CASE k \in Always
      <4>1. \A n \in Nat : ~ (n < read[f][k])
        <5> SUFFICES ASSUME NEW n \in Nat, n < read[f][k] PROVE FALSE OBVIOUS
        <5>1. <<i, n>> \in Entries(Found(read))  BY <3>4
        <5> QED BY <2>1, <3>5, <5>1 DEF Blocks
      <4>2. read[f][k] = 0  BY <3>2, <4>1
      <4> QED BY <3>5, <4>2
    <3>6. CASE k \notin Always
      <4>1. ASSUME NEW n \in Nat, n < read[f][k]
            PROVE  <<i, n>> \in Excused
        <5>1. <<i, n>> \in Entries(Found(read))  BY <3>4, <4>1
        <5>2. <<i, n>>[1][2] = k /\ k \in Blocking  BY <3>6
        <5> QED BY <2>1, <5>1, <5>2 DEF Blocks
      <4>2. CASE args.show \/ ~ summary.compared
        <5>1. Excused = {}  BY <4>2 DEF Excused
        <5>2. read[f][k] = 0  BY <3>2, <4>1, <5>1
        <5>3. Cardinality(recorded) = 0 \/ args.show
          BY <2>2, <4>2, FS_EmptySet DEF SummaryInv
        <5> QED BY <3>6, <5>2, <5>3
      <4>3. CASE ~ args.show /\ summary.compared
        <5>1. Excused = summary.previous.entries  BY <4>3 DEF Excused
        <5>2. IsFiniteSet(recorded) /\ Cardinality(recorded) \in Nat
          BY <2>2, <4>3, FS_Subset, FS_CardinalityType DEF SummaryInv
        <5> DEFINE equal == {i} \X (0 .. read[f][k] - 1)
        <5>3. equal \subseteq recorded
          <6> SUFFICES ASSUME NEW e \in equal PROVE e \in recorded OBVIOUS
          <6>1. PICK n \in 0 .. read[f][k] - 1 : e = <<i, n>>  OBVIOUS
          <6>2. n \in Nat /\ n < read[f][k]  BY <3>2
          <6>3. <<i, n>> \in summary.previous.entries  BY <4>1, <5>1, <6>2
          <6> QED BY <6>1, <6>3
        <5>4. Cardinality(equal) = read[f][k]
          <6>1. IsFiniteSet({i}) /\ Cardinality({i}) = 1  BY FS_Singleton
          <6>2. /\ IsFiniteSet(0 .. read[f][k] - 1)
                /\ Cardinality(0 .. read[f][k] - 1) = read[f][k]
            <7> DEFINE last == read[f][k] - 1
            <7>1. last \in Int /\ read[f][k] = last + 1 /\ last >= -1  BY <3>2
            <7> HIDE DEF last
            <7>2. /\ IsFiniteSet(0 .. last)
                  /\ Cardinality(0 .. last) = IF 0 > last THEN 0 ELSE last - 0 + 1
              BY <7>1, FS_Interval
            <7>3. Cardinality(0 .. last) = last + 1  BY <7>1, <7>2
            <7> QED BY <7>1, <7>2, <7>3 DEF last
          <6> HIDE DEF i
          <6> DEFINE earlier == 0 .. read[f][k] - 1
                     one == {i}
          <6> HIDE DEF earlier, one
          <6>4. Cardinality(one \X earlier) = Cardinality(one) * Cardinality(earlier)
            BY <6>1, <6>2, FS_Product DEF earlier, one
          <6>3. Cardinality(equal) = 1 * read[f][k]
            BY <6>1, <6>2, <6>4 DEF earlier, one
          <6> QED BY <3>2, <6>3
        <5> HIDE DEF equal
        <5>5. Cardinality(equal) <= Cardinality(recorded)
          BY <5>2, <5>3, FS_Subset
        <5> HIDE DEF recorded
        <5>6. read[f][k] <= Cardinality(recorded)  BY <5>4, <5>5
        <5> QED BY <3>6, <4>3, <5>6 DEF recorded
      <4> QED BY <4>2, <4>3
    <3> QED BY <3>5, <3>6
  <2> QED BY <2>2, <2>3 DEF SummaryInv
<1> QED BY <1>1, CheckInvariance, PTL DEF Spec, NewFindingsBlock

(* What was validated as read is read, unless it was edited since.         *)
LEMMA EditsAreKept == CheckInv /\ Next /\ pc' # pc => EditsKept
<1> SUFFICES ASSUME CheckInv, Next, pc' # pc, NEW f \in Files, disk'[f] # disk[f]
             PROVE  \/ disk[f] = read[f] /\ disk'[f] = Fixed(read[f])
                    \/ disk[f] = Fixed(read[f]) /\ disk'[f] = read[f]
                    \/ f \in checked /\ late /\ disk'[f] \in {read[f], Fixed(read[f])}
  BY DEF EditsKept
<1>1. Replace \/ Restore
  BY DEF Next, Start, Read, ReadFails, BeginFix, Stage, Validate, ValidateUndo,
     CommitFails, Relint, WriteBaseline, CompareFails, Compare, RefreshBaseline,
     Report, ReportFails, Edit, SelectProfile, Upgrade, fileVars
<1>2. CheckedInv /\ disk \in [Files -> Texts]  BY DEF CheckInv, FixInv, TypeOK
<1>3. CASE Replace
  <2>1. pc = "replace" /\ \E g \in checked : disk' = [disk EXCEPT ![g] = Fixed(read[g])]
    BY <1>3 DEF Replace
  <2>2. f \in checked /\ disk'[f] = Fixed(read[f])  BY <1>2, <2>1
  <2> QED BY <1>2, <2>1, <2>2 DEF CheckedInv
<1>4. CASE Restore
  <2>1. pc = "restore" /\ \E g \in checked : disk' = [disk EXCEPT ![g] = read[g]]
    BY <1>4 DEF Restore
  <2>2. f \in checked /\ disk'[f] = read[f]  BY <1>2, <2>1
  <2> QED BY <1>2, <2>1, <2>2 DEF CheckedInv
<1> QED BY <1>1, <1>3, <1>4

(* Where the loops stop, every file is in the state its exit tells of.     *)
LEMMA EndIsAsTold == CheckInv /\ Next /\ pc' # pc => EndsAsTold
<1> SUFFICES ASSUME CheckInv, Next, pc' # pc, NEW f \in Files \ edited
             PROVE  /\ pc' = "write" => disk'[f] = read'[f]
                    /\ pc' = "idle" /\ exit'.why = "fix" =>
                         \/ disk'[f] = read[f]
                         \/ f \in kept /\ disk'[f] = Fixed(read[f])
                    /\ pc' = "idle" /\ exit'.why \in {"cleanup", "relint"} =>
                         disk'[f] = Fixed(read[f])
  BY DEF EndsAsTold
<1>0. DiskInv /\ LoopInv  BY DEF CheckInv, FixInv
<1>1. ASSUME pc' = "write" PROVE disk'[f] = read'[f]
  <2>1. BeginFix \/ Relint
    BY <1>1 DEF Next, Start, Read, ReadFails, Stage, Validate, Replace, RollBack,
       ValidateUndo, Restore, CommitFails, WriteBaseline, WriteOr, CompareFails,
       Compare, RefreshBaseline, Report, ReportFails, Edit, SelectProfile, Upgrade,
       Exit
  <2>2. CASE BeginFix
    BY <1>0, <2>2 DEF BeginFix, DiskInv, AllRead, fileVars
  <2>3. CASE Relint
    <3>1. disk'[f] = Held(f) /\ written = Changed /\ read'[f] = Fixed(read[f])
      BY <1>0, <1>1, <2>3 DEF Relint, Exit, DiskInv, LoopInv, Fixing, fileVars
    <3> QED BY <3>1 DEF Held, Changed
  <2> QED BY <2>1, <2>2, <2>3
<1>2. ASSUME pc' = "idle", exit'.why = "fix"
      PROVE  \/ disk'[f] = read[f]
             \/ f \in kept /\ disk'[f] = Fixed(read[f])
  <2>1. (\E g \in Files : Stage(g)) \/ CommitFails
    BY <1>2 DEF Next, Start, Read, ReadFails, BeginFix, Validate, Replace, RollBack,
       ValidateUndo, Restore, Relint, WriteBaseline, WriteOr, CompareFails,
       Compare, RefreshBaseline, Report, ReportFails, Edit, SelectProfile, Upgrade,
       Exit
  <2>2. disk'[f] = Held(f) /\ (pc = "stage" => written = {})
        /\ (pc = "undo" /\ left = {} => written = kept)
    BY <1>0, <2>1 DEF Stage, CommitFails, DiskInv, LoopInv, Fixing, fileVars
  <2> QED BY <2>1, <2>2 DEF Stage, CommitFails, Held
<1>3. ASSUME pc' = "idle", exit'.why \in {"cleanup", "relint"}
      PROVE  disk'[f] = Fixed(read[f])
  <2>1. Relint
    BY <1>3 DEF Next, Start, Read, ReadFails, BeginFix, Stage, Validate, Replace,
       RollBack, ValidateUndo, Restore, CommitFails, WriteBaseline, WriteOr,
       CompareFails, Compare, RefreshBaseline, Report, ReportFails, Edit,
       SelectProfile, Upgrade, Exit
  <2>2. disk'[f] = Held(f) /\ written = Changed
    BY <1>0, <2>1 DEF Relint, DiskInv, LoopInv, Fixing, fileVars
  <2> QED BY <2>2 DEF Held, Changed
<1> QED BY <1>1, <1>2, <1>3

(* --fix, whatever others save meanwhile and whichever call fails: edits   *)
(* are kept but in the moment between the validation of a file and its     *)
(* replacement, and a file nobody edited ends as the exit of the run says. *)
THEOREM FixesEndAsTold == Spec => FixesAsTold
<1>1. CheckInv /\ [Next]_vars => [pc' # pc => EditsKept /\ EndsAsTold]_vars
  BY EditsAreKept, EndIsAsTold
<1> QED BY <1>1, CheckInvariance, PTL DEF Spec, FixesAsTold

(* The baseline: only a run asked to write or refresh it changes the file, *)
(* and it records the findings that run analysed.                          *)
THEOREM BaselineIsExplicit == Spec => BaselineExplicit
<1>1. [Next]_vars =>
        [baseline' # baseline =>
           /\ args.write \/ args.refresh
           /\ baseline'.state = "written" =>
                baseline'.entries = Entries(Found(read))]_vars
  <2> SUFFICES ASSUME Next, baseline' # baseline
               PROVE  /\ args.write \/ args.refresh
                      /\ baseline'.state = "written" =>
                           baseline'.entries = Entries(Found(read))
    OBVIOUS
  <2>1. WriteBaseline \/ RefreshBaseline
    BY DEF Next, Start, Read, ReadFails, BeginFix, Stage, Validate, Replace,
       ValidateUndo, Restore, CommitFails, Relint, CompareFails, Compare, Report,
       ReportFails, Edit, SelectProfile, Upgrade, fileVars
  <2>2. args.write \/ args.refresh
    BY <2>1 DEF WriteBaseline, RefreshBaseline
  <2>3. baseline' = Written(Found(read)) \/ baseline' = Torn
    BY <2>1 DEF WriteBaseline, RefreshBaseline, WriteOr
  <2> QED BY <2>2, <2>3 DEF Written, Torn, Absent
<1> QED BY <1>1, PTL DEF Spec, BaselineExplicit
=============================================================================
