-------------------------- MODULE MCWorkspaceIndex --------------------------
(***************************************************************************)
(* Two layers whose names begin alike, and one inside the build directory, *)
(* each with a class of one name; a recipe and two includes of one name.   *)
(* At most three of the classes and includes refer to others.  In two more *)
(* builds a layer is inside another one, its file ranking it lowest or     *)
(* highest.                                                                *)
(***************************************************************************)
EXTENDS WorkspaceIndex

meta      == <<"meta">>
meta_x    == <<"meta", "-x">>
build     == <<"build">>
workspace == <<"workspace">>

M == <<meta>>
X == <<meta_x>>
B == <<build>>
W == <<build, workspace>>

In(root, directory, name) == root \o <<<<directory>>, name>>

c_class == <<"c", "bbclass">>
x_inc   == <<"x", "inc">>
r_bb    == <<"r", "bb">>

MCRank ==
  << build, <<"c", "bbclass">>, <<"classes">>, <<"classes-global">>, <<"classes-recipe">>,
     <<"conf">>, <<"layer", "conf">>, <<"local", "conf">>, meta, meta_x, r_bb, workspace, x_inc >>

RankOf == [name \in Range(MCRank) |-> CHOOSE k \in DOMAIN MCRank : MCRank[k] = name]

Reference(kind, name) == [kind |-> kind, target |-> <<name>>, absolute |-> FALSE]

Recipe    == M \o <<r_bb>>
ClassOfM  == In(M, "classes", c_class)
LocalConf == In(B, "conf", <<"local", "conf">>)

Plain(scope) ==
  (Recipe :> {Reference("Inherit", c_class), Reference("Require", x_inc),
              Reference("IncludeAll", x_inc)})
  @@ (LocalConf :> {Reference("InheritGlobal", c_class), Reference("Include", <<"layer", "conf">>)})
  @@ [f \in {M \o LayerConf, X \o LayerConf, W \o LayerConf, ClassOfM, In(X, scope, c_class),
             In(W, "classes-global", c_class), M \o <<x_inc>>, X \o <<x_inc>>} |-> {}]

Additions(scope) == {
  ClassOfM :> {Reference("Require", x_inc)},
  ClassOfM :> {Reference("InheritDefer", c_class)},
  In(X, scope, c_class) :> {[kind |-> "Require", target |-> Recipe, absolute |-> TRUE]},
  In(X, scope, c_class) :> {Reference("IncludeAll", x_inc)},
  M \o <<x_inc>> :> {Reference("Inherit", c_class)},
  M \o <<x_inc>> :> {Reference("Require", r_bb)},
  X \o <<x_inc>> :> {Reference("UserClasses", c_class), Reference("Include", x_inc)},
  X \o <<x_inc>> :> {Reference("Require", r_bb)}}

Texts ==
  UNION {{a @@ b @@ c @@ Plain(scope) : a, b, c \in Additions(scope) \cup {Plain(scope)}} :
         scope \in {"classes", "classes-recipe"}}

\* What a layer.conf says, as far as it can be read without BitBake.
Conf(collection, root, priority, bbpath) ==
  [collections |-> <<collection>>, declares |-> <<collection>>,
   patterns |-> collection :> root, priorities |-> priority, bbpath |-> bbpath]

Confs(priorityOfW, bbpathOfX) ==
  (M :> Conf("core", M, "core" :> 5, <<M>>))
  @@ (X :> Conf("x", X, "x" :> 3, bbpathOfX))
  @@ (W :> Conf("w", W, priorityOfW, <<W>>))

Environment(bbpath, priorities) ==
  [collections |-> <<"core", "x", "w">>, bbpath |-> bbpath, priorities |-> priorities,
   patterns |-> "core" :> M @@ "x" :> X @@ "w" :> W]

\* A layer inside another one, also reached through the outer one.
N == M \o <<workspace>>

Nested ==
  [f \in {N \o LayerConf, In(N, "classes", c_class), N \o <<x_inc>>} |-> {}]
  @@ (X \o <<x_inc>> :> {[kind |-> "Require", target |-> <<workspace, x_inc>>, absolute |-> FALSE],
                         Reference("IncludeAll", x_inc)})
  @@ Plain("classes")

NestedConfs(priority) ==
  (N :> Conf("n", N, "n" :> priority, <<N>>)) @@ Confs("w" :> 7, <<X>>)

NestedEnvironment(bbpath) ==
  [collections |-> <<"core", "x", "n">>, bbpath |-> bbpath,
   priorities |-> "core" :> 2 @@ "x" :> 6 @@ "n" :> 4,
   patterns |-> "core" :> M @@ "x" :> X @@ "n" :> N]

Build(layers, texts, conf, environment, kept) ==
  [build |-> B, layers |-> layers, conf |-> conf, environment |-> environment,
   texts |-> texts, kept |-> kept]

MCWorlds ==
  UNION {{
    Build({M, X, W}, texts, Confs("w" :> 7, <<X>>),
          Environment(<<B, M, X, W>>, "core" :> 5 @@ "x" :> 3 @@ "w" :> 7), DOMAIN texts),
    Build({M, X, W}, texts, Confs(<<>>, <<W, X>>),
          Environment(<<W, X, M>>, "core" :> 2 @@ "x" :> 4 @@ "w" :> 0), DOMAIN texts),
    Build({M, X, W}, texts, Confs("w" :> 7, <<X>>),
          Environment(<<M, X, W>>, "core" :> 5 @@ "x" :> 6 @@ "w" :> 1),
          DOMAIN texts \ {X \o LayerConf})} : texts \in Texts}
  \cup {Build({M, X, N}, Nested, NestedConfs(1), NestedEnvironment(<<M, X, N>>), DOMAIN Nested),
        Build({M, X, N}, Nested, NestedConfs(7), NestedEnvironment(<<N, X>>), DOMAIN Nested)}
=============================================================================
