--------------------- MODULE WorkspaceResolutionProofs ---------------------
(***************************************************************************)
(* Proofs, for every finite set of files, every workspace and every limit, *)
(* of what WorkspaceResolution promises: the index is complete and in      *)
(* scope, the limits are held before anything else is asked, and every     *)
(* recipe is answered once within the budget.                              *)
(***************************************************************************)
EXTENDS WorkspaceResolution, FiniteSetTheorems, TLAPS

(* The steps before the helper answers, those before the recipes of the    *)
(* workspace are known, and the states after that.                         *)
Unanswered == pc \in {"preflight", "batch"}
Planning   == pc \in {"preflight", "batch", "environment", "conf", "check-conf",
                      "global", "check-global", "bbfiles", "check-bbfiles",
                      "select"}
Planned    == pc \in {"check-query", "query"} \/ outcome = "index"

(* A resolution that has returned takes no further step, and an index is   *)
(* returned when no recipe is left to ask.                                 *)
ReturnInv == /\ outcome # "none" => pc = "done"
             /\ outcome = "index" => missing = {}

(* What the helper answered, and what it could not see, it reported itself.*)
BatchInv ==
  /\ Unanswered => batch = NoBatch
  /\ batch.lost \subseteq gone
  /\ ~ batch.present => batch.recipes = {}

(* The filter holds of every file found, and only found files are measured.*)
ScopeInv ==
  /\ files \subseteq world.keep /\ accounted \subseteq files
  /\ missing \subseteq files

(* The running sum is the size of the files it has seen, and wherever more *)
(* is asked nothing found is unseen.                                       *)
LimitsInv ==
  /\ bytes = Bytes(accounted) /\ bytes <= MaxBytes
  /\ pc \in {"global", "bbfiles", "select", "query"} \/ outcome = "index" =>
       accounted = files /\ Cardinality(files) <= MaxFiles

(* What BBFILES matched is among the files, and later the recipes; a recipe*)
(* that is not to be asked has its files.                                  *)
CompleteInv ==
  /\ pc \in {"check-bbfiles", "select"} =>
       world.bbfiles \cap world.keep \subseteq files \cup gone
  /\ Planned => world.bbfiles \cap world.keep \subseteq recipes \cup gone
  /\ Planned => \A r \in recipes \ missing :
                  world.depends[r] \cap world.keep \subseteq files \cup gone

(* A recipe was answered by the helper or by a query of its own.           *)
AnswersInv ==
  /\ scheduled <= MaxRecipeQueries
  /\ Unanswered => scheduled = 0
  /\ \A r \in Recipes : answered[r] <= 1
  /\ Planning => \A r \in Recipes :
                   answered[r] = IF r \in batch.recipes THEN 1 ELSE 0
  /\ Planned => \A r \in recipes :
                  answered[r] = IF r \in missing THEN 0 ELSE 1

(* The reported counts are those of the two kinds of answers.              *)
CountsInv ==
  Planned => /\ counts.helper = Cardinality(recipes \cap batch.recipes)
             /\ counts.fallback = Cardinality(recipes \ batch.recipes)

(* The inductive invariant.                                                *)
ResolutionInv ==
  /\ TypeOK /\ ReturnInv /\ BatchInv /\ ScopeInv /\ LimitsInv
  /\ CompleteInv /\ AnswersInv /\ CountsInv

----------------------------------------------------------------------------
(* Facts about the data                                                    *)

(* Every set of files is finite.                                           *)
LEMMA FilesFinite == ASSUME NEW S \in SUBSET Files PROVE IsFiniteSet(S)
<1>1. IsFiniteSet(Files)
  BY FilesAssumption, FS_Union DEF Files
<1> QED BY <1>1, FS_Subset

(* The limits are numbers, and at least one.                               *)
LEMMA LimitsTyped ==
  /\ MaxFiles \in Nat /\ MaxBytes \in Nat /\ MaxRecipeQueries \in Nat
  /\ MaxVanishing \in Nat
BY LimitsAssumption

(* The parts of a workspace have the types of the assumption.              *)
LEMMA WorldTyped ==
  ASSUME TypeOK
  PROVE  /\ world.depends \in [Recipes -> SUBSET Includes]
         /\ world.global \subseteq Includes /\ world.conf \subseteq Includes
         /\ world.bbfiles \subseteq Recipes /\ world.keep \subseteq Files
BY WorldsAssumption DEF TypeOK

(* A batch has its three fields.                                           *)
LEMMA BatchTyped ==
  ASSUME TypeOK
  PROVE  /\ batch.recipes \subseteq Recipes /\ batch.lost \subseteq Files
         /\ batch.present \in BOOLEAN
BY DEF TypeOK

(* The bytes of finitely many files are finitely many.                     *)
LEMMA BytesFinite ==
  ASSUME NEW S \in SUBSET Files
  PROVE  /\ IsFiniteSet(UNION {{f} \X (1 .. Size[f]) : f \in S})
         /\ Bytes(S) \in Nat
<1> DEFINE T == {{f} \X (1 .. Size[f]) : f \in S}
           g == [f \in S |-> {f} \X (1 .. Size[f])]
<1>1. IsFiniteSet(T)
  <2>1. g \in Surjection(S, T)  BY DEF Surjection
  <2> QED BY <2>1, FilesFinite, FS_Surjection
<1>2. ASSUME NEW B \in T PROVE IsFiniteSet(B)
  <2>1. PICK f \in S : B = {f} \X (1 .. Size[f])  OBVIOUS
  <2>2. Size[f] \in Nat  BY SizeAssumption
  <2>3. IsFiniteSet(1 .. Size[f])  BY <2>2, FS_Interval
  <2>4. IsFiniteSet({f})  BY FS_Singleton
  <2> QED BY <2>1, <2>3, <2>4, FS_Product
<1>3. IsFiniteSet(UNION T)  BY <1>1, <1>2, FS_UNION
<1> QED BY <1>3, FS_CardinalityType DEF Bytes

(* Files measured apart add up: nothing is counted twice.                  *)
LEMMA BytesAdd ==
  ASSUME NEW S \in SUBSET Files, NEW T \in SUBSET Files, S \cap T = {}
  PROVE  Bytes(S \cup T) = Bytes(S) + Bytes(T)
<1> DEFINE B(X) == UNION {{f} \X (1 .. Size[f]) : f \in X}
<1>1. B(S \cup T) = B(S) \cup B(T)  OBVIOUS
<1>2. B(S) \cap B(T) = {}  OBVIOUS
<1>3. IsFiniteSet(B(S)) /\ IsFiniteSet(B(T))  BY BytesFinite
<1>4. Cardinality(B(S)) \in Nat /\ Cardinality(B(T)) \in Nat
  BY BytesFinite DEF Bytes
<1>5. Cardinality(B(S) \cup B(T)) =
        Cardinality(B(S)) + Cardinality(B(T)) - Cardinality(B(S) \cap B(T))
  <2> HIDE DEF B
  <2> QED BY <1>3, FS_Union
<1>6. Bytes(S) = Cardinality(B(S)) /\ Bytes(T) = Cardinality(B(T))
      /\ Bytes(S \cup T) = Cardinality(B(S \cup T))
  BY DEF Bytes
<1> HIDE DEF B
<1>7. Cardinality(B(S) \cap B(T)) = 0  BY <1>2, FS_EmptySet
<1>8. Cardinality(B(S) \cup B(T)) = Cardinality(B(S \cup T))  BY <1>1
<1> QED BY <1>4, <1>5, <1>6, <1>7, <1>8

(* No files have no bytes.                                                 *)
LEMMA BytesNone == Bytes({}) = 0
<1>1. UNION {{f} \X (1 .. Size[f]) : f \in {}} = {}  OBVIOUS
<1> QED BY <1>1, FS_EmptySet DEF Bytes

(* The check moves on from one of its four steps to the next question.     *)
LEMMA AfterChecks ==
  pc \in Checks =>
    /\ After(pc) \in {"global", "bbfiles", "select", "query"}
    /\ After(pc) = "select" <=> pc = "check-bbfiles"
    /\ After(pc) = "query" <=> pc = "check-query"
BY DEF Checks, After

----------------------------------------------------------------------------
(* The first state                                                         *)

(* The invariant holds before anything is asked.                           *)
LEMMA InitInv == Init => ResolutionInv
<1> SUFFICES ASSUME Init PROVE ResolutionInv OBVIOUS
<1>1. TypeOK  BY DEF Init, TypeOK, NoBatch, Checks
<1>2. LimitsInv  BY BytesNone, LimitsTyped DEF Init, LimitsInv
<1>3. BatchInv /\ ReturnInv /\ ScopeInv
  BY DEF Init, BatchInv, ReturnInv, ScopeInv, NoBatch
<1>4. CompleteInv /\ CountsInv  BY DEF Init, CompleteInv, CountsInv, Planned
<1>5. AnswersInv
  BY LimitsTyped DEF Init, AnswersInv, Planned, Planning, Unanswered, NoBatch
<1> QED BY <1>1, <1>2, <1>3, <1>4, <1>5 DEF ResolutionInv----------------------------------------------------------------------------
(* One step                                                                *)

(* The steps that only ask, and those that find files.                     *)
Asks    == Preflight \/ BatchAbsent \/ BatchFails \/ Environment
Gathers == GatherConf \/ GatherGlobal \/ GatherRecipes

(* Every step keeps the types.                                             *)
LEMMA TypeStep == ResolutionInv /\ [Next]_vars => TypeOK'
<1> SUFFICES ASSUME ResolutionInv, [Next]_vars PROVE TypeOK' OBVIOUS
<1> USE DEF ResolutionInv
<1> USE WorldTyped, BatchTyped, LimitsTyped
<1>1. CASE Asks
  BY <1>1 DEF Asks, Preflight, BatchAbsent, BatchFails, Environment, TypeOK,
     Return, givenVars, answerVars, trackVars, planVars
<1>2. CASE BatchAnswers
  <2> PICK answer \in SUBSET Recipes :
        /\ batch' = [recipes |-> answer, lost |-> gone, present |-> TRUE]
        /\ scheduled' = scheduled + Cardinality(answer)
        /\ answered' = [r \in Recipes |-> IF r \in answer THEN answered[r] + 1
                                          ELSE answered[r]]
    BY <1>2 DEF BatchAnswers
  <2>1. Cardinality(answer) \in Nat
    BY FilesFinite, FS_CardinalityType DEF Files
  <2> QED BY <1>2, <2>1 DEF BatchAnswers, TypeOK, givenVars, trackVars, planVars
<1>3. CASE Gathers
  BY <1>3 DEF Gathers, GatherConf, GatherGlobal, GatherRecipes, Found, TypeOK,
     Files, Checks, givenVars, answerVars, trackVars, planVars
<1>4. CASE Select
  <2>1. IsFiniteSet(recipes' \cap batch.recipes) /\ IsFiniteSet(missing')
    BY <1>4, FilesFinite DEF Select, SelectAsking, TypeOK, Files
  <2>2. counts' \in [helper : Nat, fallback : Nat]
    BY <1>4, <2>1, FS_CardinalityType DEF Select, SelectAsking
  <2>3. files' \subseteq Files
    BY <1>4 DEF Select, SelectAsking, TypeOK
  <2>4. pc' \in {"check-query", "query"}
    BY <1>4 DEF Select, SelectAsking
  <2>5. recipes' \subseteq Recipes /\ missing' \subseteq recipes'
    BY <1>4 DEF Select, SelectAsking
  <2> QED BY <1>4, <2>2, <2>3, <2>4, <2>5
        DEF Select, SelectAsking, TypeOK, Checks, givenVars, answerVars, trackVars
<1>5. ASSUME NEW r \in Recipes, Query(r) PROVE TypeOK'
  BY <1>5 DEF Query, Found, Return, TypeOK, Files, Checks, givenVars, trackVars
<1>6. CASE Finish
  BY <1>6 DEF Finish, Return, TypeOK, givenVars, answerVars, trackVars, planVars
<1>7. CASE CheckPasses
  <2>1. Bytes(Fresh) \in Nat  BY BytesFinite DEF Fresh, TypeOK
  <2> QED BY <1>7, <2>1, AfterChecks
        DEF CheckPasses, Fresh, TypeOK, givenVars, answerVars, planVars
<1>8. CASE CheckFails
  BY <1>8 DEF CheckFails, Return, TypeOK, givenVars, answerVars, trackVars, planVars
<1>9. ASSUME NEW f \in Files, Vanish(f) PROVE TypeOK'
  BY <1>9 DEF Vanish, TypeOK, answerVars, trackVars, planVars
<1>10. CASE UNCHANGED vars
  BY <1>10 DEF vars, TypeOK, givenVars, answerVars, trackVars, planVars
<1> QED BY <1>1, <1>2, <1>3, <1>4, <1>5, <1>6, <1>7, <1>8, <1>9, <1>10
        DEF Next, Asks, Gathers

(* Only a return sets the outcome, and nothing follows it.                 *)
LEMMA ReturnStep == ResolutionInv /\ [Next]_vars => ReturnInv'
BY DEF ResolutionInv, ReturnInv, Next, Preflight, BatchAbsent, BatchFails,
   BatchAnswers, Environment, GatherConf, GatherGlobal, GatherRecipes, Select,
   SelectAsking, Query, Finish, CheckPasses, CheckFails, Vanish, Return, Checks,
   vars, planVars

(* The helper answers once, and files only vanish.                         *)
LEMMA BatchStep == ResolutionInv /\ [Next]_vars => BatchInv'
<1> SUFFICES ASSUME ResolutionInv, [Next]_vars PROVE BatchInv' OBVIOUS
<1> USE DEF ResolutionInv, BatchInv, Unanswered, answerVars, givenVars
<1>1. CASE Asks
  BY <1>1 DEF Asks, Preflight, BatchAbsent, BatchFails, Environment, Return
<1>2. CASE BatchAnswers
  BY <1>2 DEF BatchAnswers
<1>3. CASE Gathers
  BY <1>3 DEF Gathers, GatherConf, GatherGlobal, GatherRecipes
<1>4. CASE Select
  BY <1>4 DEF Select, SelectAsking
<1>5. ASSUME NEW r \in Recipes, Query(r) PROVE BatchInv'
  BY <1>5 DEF Query, Return
<1>6. CASE Finish \/ CheckPasses \/ CheckFails
  BY <1>6, AfterChecks DEF Finish, CheckPasses, CheckFails, Return
<1>7. ASSUME NEW f \in Files, Vanish(f) PROVE BatchInv'
  BY <1>7 DEF Vanish
<1>8. CASE UNCHANGED vars  BY <1>8 DEF vars
<1> QED BY <1>1, <1>2, <1>3, <1>4, <1>5, <1>6, <1>7, <1>8
        DEF Next, Asks, Gathers

(* What is found passes the filter, and what is measured was found.        *)
LEMMA ScopeStep == ResolutionInv /\ [Next]_vars => ScopeInv'
<1> SUFFICES ASSUME ResolutionInv, [Next]_vars PROVE ScopeInv' OBVIOUS
<1> USE DEF ResolutionInv, ScopeInv, trackVars, planVars, givenVars
<1>1. CASE Asks \/ BatchAnswers
  BY <1>1 DEF Asks, Preflight, BatchAbsent, BatchFails, BatchAnswers, Environment
<1>2. CASE Gathers
  BY <1>2 DEF Gathers, GatherConf, GatherGlobal, GatherRecipes, Found
<1>3. CASE Select
  BY <1>3 DEF Select, SelectAsking
<1>4. ASSUME NEW r \in Recipes, Query(r) PROVE ScopeInv'
  BY <1>4 DEF Query, Found
<1>5. CASE Finish \/ CheckPasses \/ CheckFails
  BY <1>5 DEF Finish, CheckPasses, CheckFails, Fresh
<1>6. ASSUME NEW f \in Files, Vanish(f) PROVE ScopeInv'
  BY <1>6 DEF Vanish
<1>7. CASE UNCHANGED vars  BY <1>7 DEF vars
<1> QED BY <1>1, <1>2, <1>3, <1>4, <1>5, <1>6, <1>7 DEF Next, Asks, Gathers

(* Every file is measured once, before anything else is asked.             *)
LEMMA LimitsStep == ResolutionInv /\ [Next]_vars => LimitsInv'
<1> SUFFICES ASSUME ResolutionInv, [Next]_vars PROVE LimitsInv' OBVIOUS
<1> USE DEF ResolutionInv, LimitsInv, ReturnInv, trackVars
<1>1. CASE Asks \/ BatchAnswers
  BY <1>1 DEF Asks, Preflight, BatchAbsent, BatchFails, BatchAnswers, Environment,
     Return
<1>2. CASE Gathers
  BY <1>2 DEF Gathers, GatherConf, GatherGlobal, GatherRecipes
<1>3. CASE Select
  <2>1. pc = "select" /\ outcome' = outcome /\ outcome = "none"
    BY <1>3 DEF Select, SelectAsking
  <2>2. bytes' = bytes /\ accounted' = accounted
    BY <1>3 DEF Select, SelectAsking
  <2>3. CASE batch.present /\ recipes' # {}
    BY <1>3, <2>1, <2>2, <2>3 DEF Select, SelectAsking
  <2>4. CASE ~ (batch.present /\ recipes' # {})
    <3>1. recipes' \cap batch.recipes = {}
      BY <2>4, BatchTyped DEF BatchInv
    <3>2. files' = files
      BY <1>3, <3>1 DEF Select, SelectAsking
    <3> QED BY <2>1, <2>2, <3>2
  <2> QED BY <2>3, <2>4
<1>4. ASSUME NEW r \in Recipes, Query(r) PROVE LimitsInv'
  BY <1>4 DEF Query, Return
<1>5. CASE Finish
  BY <1>5 DEF Finish, Return
<1>6. CASE CheckPasses
  <2>1. accounted' = files /\ files' = files /\ outcome' = outcome
    BY <1>6 DEF CheckPasses, Fresh, ScopeInv
  <2>2. Bytes(files) = Bytes(accounted) + Bytes(Fresh)
    <3>1. files = accounted \cup Fresh /\ accounted \cap Fresh = {}
      BY DEF Fresh, ScopeInv
    <3>2. accounted \subseteq Files /\ Fresh \subseteq Files
      BY DEF TypeOK, Fresh
    <3> QED BY <3>1, <3>2, BytesAdd
  <2> QED BY <1>6, <2>1, <2>2 DEF CheckPasses
<1>7. CASE CheckFails
  BY <1>7 DEF CheckFails, Return
<1>8. ASSUME NEW f \in Files, Vanish(f) PROVE LimitsInv'
  BY <1>8 DEF Vanish
<1>9. CASE UNCHANGED vars  BY <1>9 DEF vars
<1> QED BY <1>1, <1>2, <1>3, <1>4, <1>5, <1>6, <1>7, <1>8, <1>9
        DEF Next, Asks, Gathers
(* No file of the scope is forgotten, and only vanished ones are missing.  *)
LEMMA CompleteStep == ResolutionInv /\ [Next]_vars => CompleteInv'
<1> SUFFICES ASSUME ResolutionInv, [Next]_vars PROVE CompleteInv' OBVIOUS
<1> USE DEF ResolutionInv, CompleteInv, Planned, ReturnInv, givenVars, planVars
<1>1. CASE Asks \/ BatchAnswers
  BY <1>1 DEF Asks, Preflight, BatchAbsent, BatchFails, BatchAnswers, Environment,
     Return
<1>2. CASE Gathers
  BY <1>2 DEF Gathers, GatherConf, GatherGlobal, GatherRecipes, Found
<1>3. CASE Select
  <2>1. pc = "select" /\ pc' \in {"check-query", "query"} /\ world' = world
        /\ gone' = gone
    BY <1>3 DEF Select, SelectAsking
  <2>2. recipes' = files \cap Recipes
    BY <1>3 DEF Select, SelectAsking
  <2>3. world.bbfiles \cap world.keep \subseteq recipes' \cup gone
    BY <2>1, <2>2, WorldTyped
  <2>4. ASSUME NEW r \in recipes' \ missing'
        PROVE  world.depends[r] \cap world.keep \subseteq files' \cup gone
    <3>1. r \in recipes' \cap batch.recipes
      BY <1>3, <2>2, <2>4 DEF Select, SelectAsking
    <3>2. world.depends[r] \subseteq
            UNION {world.depends[q] : q \in recipes' \cap batch.recipes}
      BY <3>1
    <3> DEFINE found == UNION {world.depends[q] : q \in recipes' \cap batch.recipes}
    <3>3. files' = files \cup ((found \ batch.lost) \cap world.keep)
      BY <1>3, Zenon DEF Select, SelectAsking
    <3> HIDE DEF found
    <3> QED BY <3>2, <3>3 DEF BatchInv, found
  <2> QED BY <2>1, <2>3, <2>4
<1>4. ASSUME NEW r \in Recipes, Query(r) PROVE CompleteInv'
  <2>1. CASE outcome' # outcome
    BY <1>4, <2>1 DEF Query, Return
  <2>2. CASE outcome' = outcome
    <3>1. /\ missing' = missing \ {r} /\ pc' = "check-query" /\ pc = "query"
          /\ Found(world.depends[r]) /\ recipes' = recipes
          /\ world' = world /\ gone' = gone
      BY <1>4, <2>2 DEF Query, Return
    <3>2. files \subseteq files'
      BY <3>1 DEF Found, ScopeInv
    <3>3. world.depends[r] \cap world.keep \subseteq files' \cup gone
      BY <3>1 DEF Found
    <3> QED BY <3>1, <3>2, <3>3
  <2> QED BY <2>1, <2>2
<1>5. CASE Finish
  BY <1>5 DEF Finish, Return
<1>6. CASE CheckPasses
  <2>1. /\ pc \in Checks /\ pc' = After(pc) /\ files' = files /\ world' = world
        /\ gone' = gone /\ recipes' = recipes /\ missing' = missing
        /\ outcome' = outcome
    BY <1>6 DEF CheckPasses
  <2>2. pc = "check-query" <=> pc' = "query"
    BY <2>1, AfterChecks
  <2>3. pc' = "select" => pc = "check-bbfiles"
    BY <2>1, AfterChecks
  <2>4. pc' \notin {"check-query", "check-bbfiles"}
    BY <2>1, AfterChecks
  <2>5. outcome = "none"
    BY <2>1 DEF Checks, TypeOK
  <2> QED BY <2>1, <2>2, <2>3, <2>4, <2>5
<1>7. CASE CheckFails
  BY <1>7 DEF CheckFails, Return
<1>8. ASSUME NEW f \in Files, Vanish(f) PROVE CompleteInv'
  BY <1>8 DEF Vanish
<1>9. CASE UNCHANGED vars  BY <1>9 DEF vars
<1> QED BY <1>1, <1>2, <1>3, <1>4, <1>5, <1>6, <1>7, <1>8, <1>9
        DEF Next, Asks, Gathers

(* Each recipe is answered by the helper or by one query, never by both.   *)
LEMMA AnswersStep == ResolutionInv /\ [Next]_vars => AnswersInv'
<1> SUFFICES ASSUME ResolutionInv, [Next]_vars PROVE AnswersInv' OBVIOUS
<1> USE DEF ResolutionInv, AnswersInv, Planned, Planning, Unanswered, ReturnInv,
            planVars, answerVars
<1>1. CASE Asks
  BY <1>1 DEF Asks, Preflight, BatchAbsent, BatchFails, Environment, Return
<1>2. CASE BatchAnswers
  <2>1. pc = "batch" /\ pc' = "environment" /\ outcome' = outcome
        /\ outcome = "none"
    BY <1>2 DEF BatchAnswers
  <2> PICK answer \in SUBSET Recipes :
        /\ Cardinality(answer) <= MaxRecipeQueries - scheduled
        /\ batch' = [recipes |-> answer, lost |-> gone, present |-> TRUE]
        /\ scheduled' = scheduled + Cardinality(answer)
        /\ answered' = [r \in Recipes |-> IF r \in answer THEN answered[r] + 1
                                          ELSE answered[r]]
    BY <1>2 DEF BatchAnswers
  <2>2. Cardinality(answer) \in Nat
    BY FilesFinite, FS_CardinalityType DEF Files
  <2>3. scheduled' <= MaxRecipeQueries
    BY <2>1, <2>2, LimitsTyped
  <2>4. \A r \in Recipes : answered[r] = 0
    BY <2>1 DEF BatchInv, NoBatch
  <2> QED BY <2>1, <2>3, <2>4
<1>3. CASE Gathers
  BY <1>3 DEF Gathers, GatherConf, GatherGlobal, GatherRecipes
<1>4. CASE Select
  <2>1. /\ pc = "select" /\ pc' \in {"check-query", "query"}
        /\ recipes' = files \cap Recipes
        /\ missing' = recipes' \ batch.recipes
        /\ scheduled' = scheduled /\ answered' = answered
    BY <1>4 DEF Select, SelectAsking
  <2> QED BY <2>1
<1>5. ASSUME NEW r \in Recipes, Query(r) PROVE AnswersInv'
  <2>1. /\ pc = "query" /\ r \in missing /\ recipes' = recipes
        /\ outcome = "none"
    BY <1>5 DEF Query, TypeOK
  <2>2. answered[r] = 0 /\ answered \in [Recipes -> Nat] /\ scheduled \in Nat
    BY <2>1 DEF TypeOK
  <2>3. CASE outcome' = outcome
    <3>1. /\ missing' = missing \ {r} /\ pc' = "check-query"
          /\ answered' = [answered EXCEPT ![r] = @ + 1]
          /\ scheduled < MaxRecipeQueries /\ scheduled' = scheduled + 1
      BY <1>5, <2>1, <2>3 DEF Query, Return
    <3>2. recipes \subseteq Recipes  BY DEF TypeOK
    <3>3. \A q \in Recipes : answered'[q] = IF q = r THEN 1 ELSE answered[q]
      BY <2>2, <3>1
    <3>4. scheduled' <= MaxRecipeQueries
      BY <2>2, <3>1, LimitsTyped
    <3> QED BY <2>1, <2>2, <3>1, <3>2, <3>3, <3>4
  <2>4. CASE outcome' # outcome
    <3>1. /\ pc' = "done" /\ outcome' # "index" /\ answered' = answered
          /\ scheduled' = scheduled \/ /\ scheduled < MaxRecipeQueries
                                       /\ scheduled' = scheduled + 1
      BY <1>5, <2>4 DEF Query, Return
    <3>2. scheduled' <= MaxRecipeQueries
      BY <2>2, <3>1, LimitsTyped
    <3> QED BY <3>1, <3>2
  <2> QED BY <2>3, <2>4
<1>6. CASE Finish
  BY <1>6 DEF Finish, Return
<1>7. CASE CheckPasses
  BY <1>7, AfterChecks DEF CheckPasses, Checks
<1>8. CASE CheckFails
  BY <1>8 DEF CheckFails, Return
<1>9. ASSUME NEW f \in Files, Vanish(f) PROVE AnswersInv'
  BY <1>9 DEF Vanish
<1>10. CASE UNCHANGED vars  BY <1>10 DEF vars
<1> QED BY <1>1, <1>2, <1>3, <1>4, <1>5, <1>6, <1>7, <1>8, <1>9, <1>10
        DEF Next, Asks, Gathers

(* The counts are made when the recipes are known, and stay.               *)
LEMMA CountsStep == ResolutionInv /\ [Next]_vars => CountsInv'
<1> SUFFICES ASSUME ResolutionInv, [Next]_vars PROVE CountsInv' OBVIOUS
<1> USE DEF ResolutionInv, CountsInv, Planned, ReturnInv, planVars, answerVars
<1>1. CASE Asks \/ BatchAnswers \/ Gathers
  BY <1>1 DEF Asks, Gathers, Preflight, BatchAbsent, BatchFails, BatchAnswers,
     Environment, GatherConf, GatherGlobal, GatherRecipes, Return
<1>2. CASE Select
  <2>1. missing' = recipes' \ batch.recipes
    BY <1>2 DEF Select, SelectAsking
  <2> QED BY <1>2, <2>1 DEF Select, SelectAsking
<1>3. ASSUME NEW r \in Recipes, Query(r) PROVE CountsInv'
  BY <1>3 DEF Query, Return
<1>4. CASE Finish
  BY <1>4 DEF Finish, Return
<1>5. CASE CheckPasses
  BY <1>5, AfterChecks DEF CheckPasses
<1>6. CASE CheckFails
  BY <1>6 DEF CheckFails, Return
<1>7. ASSUME NEW f \in Files, Vanish(f) PROVE CountsInv'
  BY <1>7 DEF Vanish
<1>8. CASE UNCHANGED vars  BY <1>8 DEF vars
<1> QED BY <1>1, <1>2, <1>3, <1>4, <1>5, <1>6, <1>7, <1>8
        DEF Next, Asks, Gathers

----------------------------------------------------------------------------
(* The theorems                                                            *)

(* The invariant holds in every state of every behaviour.                  *)
THEOREM ResolutionInvariance == Spec => []ResolutionInv
<1>1. ResolutionInv /\ [Next]_vars => ResolutionInv'
  BY TypeStep, ReturnStep, BatchStep, ScopeStep, LimitsStep, CompleteStep,
     AnswersStep, CountsStep DEF ResolutionInv
<1> QED BY InitInv, <1>1, PTL DEF Spec

(* Type correctness of WorkspaceResolution.                                *)
THEOREM ResolutionTyped == Spec => []TypeOK
<1>1. ResolutionInv => TypeOK  BY DEF ResolutionInv
<1> QED BY <1>1, ResolutionInvariance, PTL

(* from_bitbake_with_runner never returns an index that lacks an existing  *)
(* file of one of its recipes, whichever recipes the helper answered, and  *)
(* never measures or asks about a file outside the scope.                  *)
THEOREM IndexIsComplete == Spec => []IndexComplete
<1>1. ResolutionInv => IndexComplete
  <2> SUFFICES ASSUME ResolutionInv PROVE IndexComplete OBVIOUS
  <2>1. ScopeHeld  BY DEF ResolutionInv, ScopeInv, ScopeHeld
  <2>2. outcome = "index" => missing = {}
    BY DEF ResolutionInv, ReturnInv
  <2> QED BY <2>1, <2>2
       DEF ResolutionInv, CompleteInv, Planned, IndexComplete, NothingMissing
<1> QED BY <1>1, ResolutionInvariance, PTL

(* WorkspaceLimitTracker: whatever is asked next, and whatever is returned,*)
(* the files found so far were each measured once and are within the       *)
(* limits on their number and on their size.                               *)
THEOREM LimitsAreHeldFirst == Spec => []LimitsHeldFirst
<1>1. ResolutionInv => LimitsHeldFirst
  BY DEF ResolutionInv, LimitsInv, LimitsHeldFirst
<1> QED BY <1>1, ResolutionInvariance, PTL

(* The helper's answers and the queries together answer every recipe of an *)
(* index exactly once, within the recipe budget, and the reported counts   *)
(* add up to the recipes.                                                  *)
THEOREM RecipesAnsweredOnce == Spec => []AnsweredOnce
<1>1. ResolutionInv => AnsweredOnce
  <2> SUFFICES ASSUME ResolutionInv PROVE AnsweredOnce OBVIOUS
  <2>1. outcome = "index" => missing = {}
    BY DEF ResolutionInv, ReturnInv
  <2>2. outcome = "index" => counts.helper + counts.fallback = Cardinality(recipes)
    <3> SUFFICES ASSUME outcome = "index"
                 PROVE  counts.helper + counts.fallback = Cardinality(recipes)
      OBVIOUS
    <3>1. IsFiniteSet(recipes)
      BY FilesFinite DEF ResolutionInv, TypeOK, Files
    <3>2. Cardinality(recipes \ batch.recipes) =
            Cardinality(recipes) - Cardinality(recipes \cap batch.recipes)
      BY <3>1, FS_Difference
    <3>3. Cardinality(recipes) \in Nat /\ Cardinality(recipes \cap batch.recipes) \in Nat
      BY <3>1, FS_CardinalityType, FS_Intersection
    <3> QED BY <3>2, <3>3 DEF ResolutionInv, CountsInv, Planned
  <2> QED BY <2>1, <2>2 DEF ResolutionInv, AnswersInv, Planned, AnsweredOnce, TypeOK
<1> QED BY <1>1, ResolutionInvariance, PTL
=============================================================================
