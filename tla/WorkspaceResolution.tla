------------------------ MODULE WorkspaceResolution ------------------------
(***************************************************************************)
(* WorkspaceIndex::from_bitbake_with_runner of src/workspace.rs.  BitBake  *)
(* is asked what the workspace contains: a version and a parse, one batch  *)
(* answered by a Tinfoil helper if there is one, the global environment if *)
(* the batch did not bring it, and one query per recipe the batch did not  *)
(* answer.  After every step the files found are filtered and held against *)
(* the limits, before anything else is asked.                              *)
(*                                                                         *)
(* BitBake may fail at every call, the helper may answer recipes outside   *)
(* the workspace or only some inside it, and files may vanish after they   *)
(* were found.  The caller has set limits, as the command line does.       *)
(***************************************************************************)
EXTENDS Naturals, FiniteSets

CONSTANTS
  Recipes,           \* recipe files
  Includes,          \* classes, includes and configuration files
  Size,              \* the bytes of each file
  MaxFiles,          \* limits.max_files
  MaxBytes,          \* limits.max_bytes
  MaxRecipeQueries,  \* runner.limits().max_recipe_queries
  MaxVanishing,      \* bound: files that vanish
  Worlds             \* the workspaces to consider

Files == Recipes \cup Includes

ASSUME FilesAssumption == IsFiniteSet(Recipes) /\ IsFiniteSet(Includes)
ASSUME SizeAssumption == Size \in [Files -> Nat]
ASSUME LimitsAssumption ==
  /\ MaxFiles \in Nat \ {0} /\ MaxBytes \in Nat \ {0}
  /\ MaxRecipeQueries \in Nat \ {0} /\ MaxVanishing \in Nat

(* The files each recipe includes, those the global environment names, the *)
(* files of the configuration, the recipes BBFILES matches, and the files  *)
(* `keep` accepts.                                                         *)
ASSUME WorldsAssumption ==
  Worlds \subseteq [depends : [Recipes -> SUBSET Includes],
                    global : SUBSET Includes, conf : SUBSET Includes,
                    bbfiles : SUBSET Recipes, keep : SUBSET Files]

VARIABLES
  world,      \* what BitBake would answer, and what the caller's filter keeps
  gone,       \* files that vanished
  pc,         \* the next step
  batch,      \* tinfoil_batch: the recipes it answered and the files that did
              \* not exist then, or NoBatch
  files,      \* the files found so far
  accounted,  \* WorkspaceLimitTracker.accounted
  bytes,      \* WorkspaceLimitTracker.bytes
  recipes,    \* the recipes of the workspace
  missing,    \* the recipes still to be queried one by one
  scheduled,  \* stats.recipe_queries_scheduled
  counts,     \* stats.helper_recipe_count and fallback_recipe_count
  answered,   \* how often each recipe was answered
  outcome     \* what the resolution returned

givenVars  == <<world, gone>>
answerVars == <<batch, scheduled, answered>>
trackVars  == <<accounted, bytes>>
planVars   == <<recipes, missing, counts>>
vars == <<givenVars, pc, files, answerVars, trackVars, planVars, outcome>>

NoBatch == [recipes |-> {}, lost |-> {}, present |-> FALSE]

Init ==
  /\ world \in Worlds
  /\ gone = {} /\ pc = "preflight" /\ batch = NoBatch
  /\ files = {} /\ accounted = {} /\ bytes = 0
  /\ recipes = {} /\ missing = {} /\ scheduled = 0
  /\ counts = [helper |-> 0, fallback |-> 0]
  /\ answered = [r \in Recipes |-> 0]
  /\ outcome = "none"

Return(value) == pc' = "done" /\ outcome' = value

----------------------------------------------------------------------------
(* What BitBake is asked before any file is known                          *)

(* The version and the parse.                                              *)
Preflight ==
  /\ pc = "preflight"
  /\ \/ pc' = "batch" /\ UNCHANGED outcome
     \/ Return("failed")
  /\ UNCHANGED <<files, givenVars, trackVars, planVars, answerVars>>

(* query_workspace_with_tinfoil: no Python library beside the executable,  *)
(* or a helper that cannot be started, is no batch; any other failure, one *)
(* over the recipe limit included, is an error.                            *)
BatchAbsent ==
  /\ pc = "batch"
  /\ pc' = "environment"
  /\ UNCHANGED <<files, outcome, givenVars, trackVars, planVars, answerVars>>

BatchFails ==
  /\ pc = "batch"
  /\ Return("failed")
  /\ UNCHANGED <<files, givenVars, trackVars, planVars, answerVars>>

BatchAnswers ==
  /\ pc = "batch"
  /\ \E answer \in SUBSET Recipes :
       /\ Cardinality(answer) <= MaxRecipeQueries - scheduled
       /\ batch' = [recipes |-> answer, lost |-> gone, present |-> TRUE]
       /\ scheduled' = scheduled + Cardinality(answer)
       /\ answered' = [r \in Recipes |-> IF r \in answer THEN answered[r] + 1
                                         ELSE answered[r]]
  /\ pc' = "environment"
  /\ UNCHANGED <<files, outcome, givenVars, trackVars, planVars>>

(* The batch's variables, or `bitbake --environment`, and the checks of    *)
(* BBLAYERS, BBFILES and BBPATH.                                           *)
Environment ==
  /\ pc = "environment"
  /\ \/ pc' = "conf" /\ UNCHANGED outcome
     \/ Return("failed")
  /\ UNCHANGED <<files, givenVars, trackVars, planVars, answerVars>>

----------------------------------------------------------------------------
(* Files.  What does not exist is not added; what `keep` rejects is        *)
(* dropped, and WorkspaceLimitTracker::check follows.                      *)

Found(candidates) == files' = (files \cup (candidates \ gone)) \cap world.keep

(* WorkspaceIndex's seeds: the build's conf tree, the files the global     *)
(* environment names, and those BBFILES matches.                           *)
GatherConf ==
  /\ pc = "conf"
  /\ Found(world.conf)
  /\ pc' = "check-conf"
  /\ UNCHANGED <<outcome, givenVars, trackVars, planVars, answerVars>>

GatherGlobal ==
  /\ pc = "global"
  /\ Found(world.global)
  /\ pc' = "check-global"
  /\ UNCHANGED <<outcome, givenVars, trackVars, planVars, answerVars>>

GatherRecipes ==
  /\ pc = "bbfiles"
  /\ Found(world.bbfiles)
  /\ pc' = "check-bbfiles"
  /\ UNCHANGED <<outcome, givenVars, trackVars, planVars, answerVars>>

(* TinfoilBatchResult::select_recipes, and the files of the selection,     *)
(* which existed when the batch was read; the recipes to ask are those the *)
(* batch did not answer.                                                   *)
SelectAsking(ask) ==
  /\ pc = "select"
  /\ recipes' = files \cap Recipes
  /\ missing' = ask
  /\ counts' = [helper   |-> Cardinality(recipes' \cap batch.recipes),
                fallback |-> Cardinality(missing')]
  /\ LET found == UNION {world.depends[r] : r \in recipes' \cap batch.recipes}
     IN  files' = files \cup ((found \ batch.lost) \cap world.keep)
  /\ pc' = IF batch.present /\ recipes' # {} THEN "check-query" ELSE "query"
  /\ UNCHANGED <<outcome, givenVars, trackVars, answerVars>>

(* Seeded faults: a batch is taken for a complete answer; every recipe is  *)
(* asked again.                                                            *)
SelectTrusting  == SelectAsking({r \in files \cap Recipes : ~ batch.present})
SelectAll       == SelectAsking(files \cap Recipes)

Select == SelectAsking((files \cap Recipes) \ batch.recipes)

(* One `bitbake --environment --buildfile` per missing recipe, which the   *)
(* runner refuses when the recipe budget is used up.                       *)
Query(r) ==
  /\ pc = "query" /\ r \in missing
  /\ \/ /\ scheduled < MaxRecipeQueries
        /\ scheduled' = scheduled + 1
        /\ answered' = [answered EXCEPT ![r] = @ + 1]
        /\ missing' = missing \ {r}
        /\ Found(world.depends[r])
        /\ pc' = "check-query"
        /\ UNCHANGED outcome
     \/ /\ scheduled < MaxRecipeQueries
        /\ scheduled' = scheduled + 1
        /\ Return("failed")
        /\ UNCHANGED <<answered, missing, files>>
     \/ /\ scheduled >= MaxRecipeQueries
        /\ Return("budget")
        /\ UNCHANGED <<scheduled, answered, missing, files>>
  /\ UNCHANGED <<batch, recipes, counts, givenVars, trackVars>>

Finish ==
  /\ pc = "query" /\ missing = {}
  /\ Return("index")
  /\ UNCHANGED <<files, givenVars, trackVars, planVars, answerVars>>

----------------------------------------------------------------------------
(* WorkspaceLimitTracker::check                                            *)

Checks == {"check-conf", "check-global", "check-bbfiles", "check-query"}

After(check) == CASE check = "check-conf"    -> "global"
                  [] check = "check-global"  -> "bbfiles"
                  [] check = "check-bbfiles" -> "select"
                  [] OTHER                   -> "query"

Fresh == files \ accounted

(* The bytes of a set of files: each is a file and a position in it.       *)
Bytes(S) == Cardinality(UNION {{f} \X (1 .. Size[f]) : f \in S})

(* Seeded fault: the files found earlier are counted again.                *)
CheckPassesRecounting ==
  /\ pc \in Checks
  /\ Cardinality(files) <= MaxFiles
  /\ Fresh \cap gone = {}
  /\ accounted' = files
  /\ bytes' = bytes + Bytes(files) /\ bytes' <= MaxBytes
  /\ pc' = After(pc)
  /\ UNCHANGED <<files, outcome, givenVars, planVars, answerVars>>

CheckPasses ==
  /\ pc \in Checks
  /\ Cardinality(files) <= MaxFiles
  /\ Fresh \cap gone = {}
  /\ accounted' = accounted \cup Fresh
  /\ bytes' = bytes + Bytes(Fresh) /\ bytes' <= MaxBytes
  /\ pc' = After(pc)
  /\ UNCHANGED <<files, outcome, givenVars, planVars, answerVars>>

(* The file count is looked at first, then the size of each new file,      *)
(* which fails for a file that vanished, then the sum.                     *)
CheckFails ==
  /\ pc \in Checks
  /\ \/ Cardinality(files) > MaxFiles /\ Return("limit")
     \/ /\ Cardinality(files) <= MaxFiles /\ Fresh \cap gone # {}
        /\ Return("failed")
     \/ /\ Cardinality(files) <= MaxFiles /\ Fresh \cap gone = {}
        /\ bytes + Bytes(Fresh) > MaxBytes /\ Return("limit")
  /\ UNCHANGED <<files, givenVars, trackVars, planVars, answerVars>>

Vanish(f) ==
  /\ pc # "done" /\ f \notin gone /\ Cardinality(gone) < MaxVanishing
  /\ gone' = gone \cup {f}
  /\ UNCHANGED <<world, pc, files, outcome, trackVars, planVars, answerVars>>

Next == \/ Preflight \/ BatchAbsent \/ BatchFails \/ BatchAnswers \/ Environment
        \/ GatherConf \/ GatherGlobal \/ GatherRecipes \/ Select
        \/ (\E r \in Recipes : Query(r)) \/ Finish
        \/ CheckPasses \/ CheckFails
        \/ \E f \in Files : Vanish(f)

Spec == Init /\ [][Next]_vars

----------------------------------------------------------------------------
(* Properties                                                              *)

(* Type invariant.                                                         *)
TypeOK ==
  /\ world \in Worlds /\ gone \subseteq Files
  /\ pc \in Checks \cup {"preflight", "batch", "environment", "conf", "global",
                         "bbfiles", "select", "query", "done"}
  /\ batch \in [recipes : SUBSET Recipes, lost : SUBSET Files,
               present : BOOLEAN]
  /\ files \subseteq Files /\ accounted \subseteq Files /\ bytes \in Nat
  /\ recipes \subseteq Recipes /\ missing \subseteq recipes
  /\ scheduled \in Nat /\ answered \in [Recipes -> Nat]
  /\ counts \in [helper : Nat, fallback : Nat]
  /\ outcome \in {"none", "index", "limit", "budget", "failed"}

(* An index has every existing, kept file of every recipe in it, whether   *)
(* the helper or a query of its own answered for the recipe ("any recipe   *)
(* absent from the cache is queried").                                     *)
NothingMissing ==
  outcome = "index" =>
    /\ world.bbfiles \cap world.keep \subseteq recipes \cup gone
    /\ \A r \in recipes :
         world.depends[r] \cap world.keep \subseteq files \cup gone

(* Nothing the filter rejects is in the file set when it is measured or    *)
(* used, and no rejected recipe is queried on its own.                     *)
ScopeHeld == files \subseteq world.keep /\ missing \subseteq world.keep

(* The files of the workspace are those in scope, no fewer and no more,    *)
(* at every step that reads them.                                          *)
IndexComplete == NothingMissing /\ ScopeHeld

(* Whenever another recipe is queried, and when an index is returned, all  *)
(* files found so far were measured once and are within both limits.       *)
LimitsHeldFirst ==
  pc = "query" \/ outcome = "index" =>
    /\ accounted = files
    /\ Cardinality(files) <= MaxFiles
    /\ bytes = Bytes(files) /\ bytes <= MaxBytes

(* The recipe budget covers the batch and the queries together; a recipe   *)
(* the batch answered is not queried again; the reported helper and        *)
(* fallback counts add up to the recipes of the workspace.                 *)
AnsweredOnce ==
  /\ scheduled <= MaxRecipeQueries
  /\ \A r \in Recipes : answered[r] <= 1
  /\ outcome = "index" =>
       /\ \A r \in recipes : answered[r] = 1
       /\ counts.helper + counts.fallback = Cardinality(recipes)
=============================================================================
