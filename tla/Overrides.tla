----------------------------- MODULE Overrides -----------------------------
(***************************************************************************)
(* src/overrides.rs: the values that the assignments of one file give its  *)
(* variables under BitBake's override semantics, computed without BitBake. *)
(* resolve_static_environment passes over the file until the values of the *)
(* plain assignments settle; resolve_override_list reads OVERRIDES with    *)
(* them, unless the caller supplies the active overrides; then             *)
(* resolve_with_active_overrides selects and combines the assignments of   *)
(* each variable.                                                          *)
(*                                                                         *)
(* A text is a sequence of fragments: a word, " ", ":", "_", or a          *)
(* reference such as "${A}" to the variable whose name is that word.  An   *)
(* assignment's name is its components, split at ":" (modern) or at "_".   *)
(***************************************************************************)
EXTENDS Naturals, Sequences, FiniteSets, SequencesExt

CONSTANTS
  RefTo,           \* the variable each reference names
  Pool,            \* the assignments a file may hold
  MaxAssignments,  \* bound: the assignments of a file
  Contexts         \* the lists of active overrides a caller may supply

Operations == {"append", "prepend", "remove"}
Operators  == {"=", ":=", "?=", "??=", "+=", "=+", ".=", "=."}

ASSUME BoundAssumption == MaxAssignments \in Nat
ASSUME RefAssumption == {" ", ":", "_", "OVERRIDES"} \cap DOMAIN RefTo = {}
ASSUME PoolAssumption ==
  \A a \in Pool : /\ a.parts \in Seq(STRING) /\ a.value \in Seq(STRING)
                  /\ a.parts # <<>> /\ a.parts[1] \notin Operations
                  /\ {a.modern, a.flag} \subseteq BOOLEAN
                  /\ a.operator \in Operators

VARIABLES
  file,    \* the assignments of the file, in order
  pc,      \* the next step
  passes,  \* the passes of resolve_static_environment so far
  known,   \* known_values: the values of the plain assignments
  names,   \* for the properties: the names each assignment had in a pass
  active,  \* active_overrides
  given,   \* whether the caller supplied them
  values   \* OverrideResolution::values

vars == <<file, pc, passes, known, names, active, given, values>>

----------------------------------------------------------------------------
(* Texts.                                                                  *)
Refs    == DOMAIN RefTo
Nothing == [name \in {} |-> <<>>]
OverridesName == <<"OVERRIDES">>

IsUnresolved(fragment, env) ==
  fragment \in Refs /\ <<RefTo[fragment]>> \notin DOMAIN env

Dynamic(text, env) == \E i \in DOMAIN text : IsUnresolved(text[i], env)

Expand(text, env) ==
  FlattenSeq([i \in DOMAIN text |->
    IF text[i] \in Refs /\ ~IsUnresolved(text[i], env)
    THEN env[<<RefTo[text[i]]>>] ELSE <<text[i]>>])

(* The positions in S, in order.                                           *)
Sorted(S) == [k \in 1..Cardinality(S) |->
                CHOOSE i \in S : Cardinality({j \in S : j <= i}) = k]

(* The elements of the sequence s at the positions in S, in order.         *)
At(s, S) == [k \in 1..Cardinality(S) |-> s[Sorted(S)[k]]]

(* The first and last position of each maximal run without a separator.    *)
Runs(text, separators) ==
  {r \in (DOMAIN text) \X (DOMAIN text) :
     /\ r[1] <= r[2]
     /\ \A k \in r[1]..r[2] : text[k] \notin separators
     /\ r[1] = 1 \/ text[r[1] - 1] \in separators
     /\ r[2] = Len(text) \/ text[r[2] + 1] \in separators}

Tokens(text) == {SubSeq(text, r[1], r[2]) : r \in Runs(text, {" "})}

Without(text, removal) ==
  LET gone == {r \in Runs(text, {" "}) :
                 SubSeq(text, r[1], r[2]) \in Tokens(removal)}
  IN  At(text, DOMAIN text \ UNION {r[1]..r[2] : r \in gone})

Distinct(s) == At(s, {i \in DOMAIN s : \A j \in 1..(i - 1) : s[j] # s[i]})

OverrideTokens(text) ==
  LET runs == SetToSortSeq(Runs(text, {" ", ":"}), LAMBDA r, q : r[1] < q[1])
  IN  Distinct([k \in DOMAIN runs |-> SubSeq(text, runs[k][1], runs[k][2])])

Joined(texts, separator) ==
  FlattenSeq([i \in DOMAIN texts |->
    IF i = 1 THEN texts[i] ELSE <<separator>> \o texts[i]])

Spaced(left, right) ==
  IF left = <<>> \/ right = <<>> THEN left \o right
                                 ELSE left \o <<" ">> \o right

Apply(value, operator, addition) ==
  CASE operator \in {"=", ":="}   -> addition
    [] operator \in {"?=", "??="} -> IF value = <<>> THEN addition ELSE value
    [] operator = "+="            -> Spaced(value, addition)
    [] operator = "=+"            -> Spaced(addition, value)
    [] operator = ".="            -> value \o addition
    [] operator = "=."            -> addition \o value

----------------------------------------------------------------------------
(* Keys.                                                                   *)
OperationsOf(a) == {i \in DOMAIN a.parts : a.parts[i] \in Operations}
IsKey(a)        == Cardinality(OperationsOf(a)) <= 1
WordsOf(a)      == At(a.parts, DOMAIN a.parts \ OperationsOf(a))

(* How many of the last words are overrides: all but the base of a modern  *)
(* name, the longest active suffix of a legacy one.                        *)
Suffix(a, act) ==
  LET n == Len(a.parts) - Cardinality(OperationsOf(a))
  IN  IF a.modern THEN n - 1
      ELSE CHOOSE k \in 0..(n - 1) :
             /\ \A j \in (n - k + 1)..n : <<WordsOf(a)[j]>> \in act
             /\ k = n - 1 \/ <<WordsOf(a)[n - k]>> \notin act

Key(a, act, env) ==
  LET words == WordsOf(a)
      ops   == OperationsOf(a)
      k     == Suffix(a, act)
      n     == Len(words) - k
      texts == [i \in DOMAIN words |-> Expand(<<words[i]>>, env)]
      last  == Len(a.parts)
  IN  [base      |-> Joined(SubSeq(texts, 1, n), "_"),
       overrides |-> SubSeq(texts, n + 1, n + k),
       operation |-> IF ops = {} THEN "none" ELSE a.parts[CHOOSE i \in ops : TRUE],
       selected  |-> k > 0 /\ \E i \in ops : IF a.modern THEN i > 2 ELSE i = last,
       dynamic   |-> Dynamic(words, env),
       expanded  |-> \E i \in DOMAIN words : words[i] \in Refs]

(* The assignments in S, those with an expanded name after the others.     *)
LiteralFirst(f, S) ==
  LET expanded == {i \in S : Key(f[i], {}, Nothing).expanded}
  IN  Sorted(S \ expanded) \o Sorted(expanded)

Texts(f, env, S) == [i \in S |-> Expand(f[i].value, env)]

Assigned(f, texts, order) ==
  FoldLeft(LAMBDA value, i : Apply(value, f[i].operator, texts[i]), <<>>, order)

(* The texts of one operation, in an order of the assignments.             *)
TextsOf(f, env, order, op) ==
  LET mine == {k \in DOMAIN order : op \in ToSet(f[order[k]].parts)}
      s    == At(order, mine)
  IN  [k \in DOMAIN s |-> Expand(f[s[k]].value, env)]

(* Mutant: removals before the appends and prepends.                       *)
OperatedRemovingFirst(f, env, order, value) ==
  FlattenSeq(Reverse(TextsOf(f, env, order, "prepend")))
    \o FoldLeft(Without, value, TextsOf(f, env, order, "remove"))
    \o FlattenSeq(TextsOf(f, env, order, "append"))

(* Appends, then prepends, then removals.                                  *)
Operated(f, env, order, value) ==
  FoldLeft(Without,
           FlattenSeq(Reverse(TextsOf(f, env, order, "prepend"))) \o value
             \o FlattenSeq(TextsOf(f, env, order, "append")),
           TextsOf(f, env, order, "remove"))

----------------------------------------------------------------------------
(* One pass of resolve_static_environment.                                 *)
IsPlain(f, env, i) ==
  /\ IsKey(f[i]) /\ ~f[i].flag
  /\ Key(f[i], {}, env).overrides = <<>>
  /\ OperationsOf(f[i]) = {}
  /\ ~Dynamic(f[i].value, env)

(* Mutant: a pass starts from the values of the last one.                  *)
NextEnvironmentKept(f, env) ==
  LET plain   == {i \in DOMAIN f : IsPlain(f, env, i)}
      base(i) == Key(f[i], {}, env).base
  IN  [name \in {base(i) : i \in plain} |->
         FoldLeft(LAMBDA value, i :
                    Apply(value, f[i].operator, Expand(f[i].value, env)),
                  IF name \in DOMAIN env THEN env[name] ELSE <<>>,
                  LiteralFirst(f, {i \in plain : base(i) = name}))]

BaseIn(f, env, i) == Key(f[i], {}, env).base

NextEnvironment(f, env) ==
  LET plain   == {i \in DOMAIN f : IsPlain(f, env, i)}
      mine(x) == {i \in plain : BaseIn(f, env, i) = x}
  IN  [name \in {BaseIn(f, env, i) : i \in plain} |->
         Assigned(f, Texts(f, env, mine(name)), LiteralFirst(f, mine(name)))]

(* Mutant: operations on OVERRIDES are passed over.                        *)
OverrideListPlain(f, env) ==
  Assigned(f, Texts(f, env, DOMAIN f),
    Sorted({i \in DOMAIN f : /\ IsPlain(f, env, i)
                                   /\ Key(f[i], {}, Nothing).base = OverridesName}))

(* resolve_override_list: OVERRIDES, whose names are not expanded.         *)
OverrideList(f, env) ==
  LET mine == {i \in DOMAIN f :
                 /\ IsKey(f[i]) /\ ~f[i].flag /\ ~Dynamic(f[i].value, env)
                 /\ Key(f[i], {}, Nothing).base = OverridesName
                 /\ Key(f[i], {}, Nothing).overrides = <<>>}
      direct == {i \in mine : OperationsOf(f[i]) = {}}
  IN  Operated(f, env, Sorted(mine \ direct),
               Assigned(f, Texts(f, env, direct), Sorted(direct)))

ActiveOf(f, env) == OverrideTokens(OverrideList(f, env))

----------------------------------------------------------------------------
(* resolve_with_active_overrides.                                          *)
KeyOf(f, act, env, i) == Key(f[i], ToSet(act), env)

Entries(f, act, env) ==
  {i \in DOMAIN f : /\ IsKey(f[i]) /\ ~f[i].flag /\ ~Dynamic(f[i].value, env)
                    /\ LET key == KeyOf(f, act, env, i)
                       IN  ~key.dynamic /\ ToSet(key.overrides) \subseteq ToSet(act)}

(* override_rank, and the order of the candidates.                         *)
Rank(overrides, act) ==
  SortSeq([k \in DOMAIN overrides |->
             CHOOSE p \in DOMAIN act : act[p] = overrides[k]], <)

Lexicographic(p, q) ==
  \E k \in DOMAIN p : p[k] < q[k] /\ \A j \in 1..(k - 1) : p[j] = q[j]

(* Mutant: between as many overrides, the later assignment wins.           *)
PrecedesBySequence(x, y, act) ==
  LET p == Rank(x.overrides, act)
      q == Rank(y.overrides, act)
  IN  Len(p) < Len(q) \/ (Len(p) = Len(q) /\ x.sequence < y.sequence)

Precedes(x, y, act) ==
  LET p == Rank(x.overrides, act)
      q == Rank(y.overrides, act)
  IN  \/ Len(p) < Len(q)
      \/ Len(p) = Len(q) /\ Lexicographic(p, q)
      \/ p = q /\ x.sequence < y.sequence

Latest(S) == CHOOSE i \in S : \A j \in S : j <= i

(* resolve_direct_entries: the variant of the highest rank replaces the    *)
(* value of the assignments without overrides.                             *)
Direct(f, act, env, mine) ==
  LET key(i)   == KeyOf(f, act, env, i)
      base     == {i \in mine : key(i).operation = "none" /\ key(i).overrides = <<>>}
      variants == {i \in mine : /\ key(i).overrides # <<>>
                                /\ key(i).operation = "none" \/ key(i).selected}
      named(o) == {i \in variants : key(i).overrides = o}
      sets(o)  == {i \in named(o) : key(i).operation = "none"}
      candidates == {[overrides |-> o, sequence |-> Latest(named(o))] :
                       o \in {key(i).overrides : i \in variants}}
      assigned(S) == Assigned(f, Texts(f, env, S), LiteralFirst(f, S))
  IN  IF variants = {} THEN assigned(base)
      ELSE LET best == CHOOSE c \in candidates :
                         \A d \in candidates \ {c} : Precedes(d, c, act)
               o    == best.overrides
           IN  Operated(f, env, LiteralFirst(f, named(o) \ sets(o)), assigned(sets(o)))

ValueOf(f, act, env, mine) ==
  LET deferred == {i \in mine : /\ OperationsOf(f[i]) # {}
                                /\ ~KeyOf(f, act, env, i).selected}
  IN  Operated(f, env, Sorted(deferred), Direct(f, act, env, mine))

Resolution(f, act, env) ==
  LET entries == Entries(f, act, env)
      base(i) == KeyOf(f, act, env, i).base
  IN  [name \in {base(i) : i \in entries} \cup {OverridesName} |->
         IF name = OverridesName THEN Joined(act, ":")
         ELSE ValueOf(f, act, env, {i \in entries : base(i) = name})]

----------------------------------------------------------------------------
Init ==
  /\ file \in SeqOf(Pool, MaxAssignments)
  /\ pc = "environment" /\ passes = 0 /\ known = Nothing
  /\ names = [i \in DOMAIN file |-> {}]
  /\ active = <<>> /\ given = FALSE /\ values = Nothing

LastPass == Len(file) + 1

Pass ==
  /\ pc = "environment" /\ passes < LastPass
  /\ NextEnvironment(file, known) # known
  /\ known' = NextEnvironment(file, known)
  /\ names' = [i \in DOMAIN file |->
                 IF IsPlain(file, known, i) THEN names[i] \cup {BaseIn(file, known, i)}
                                            ELSE names[i]]
  /\ passes' = passes + 1
  /\ UNCHANGED <<file, pc, active, given, values>>

(* A pass that changed nothing, or the last one allowed, ends the loop.    *)
EndPasses ==
  /\ pc = "environment"
  /\ passes = LastPass \/ NextEnvironment(file, known) = known
  /\ pc' = "overrides"
  /\ UNCHANGED <<file, passes, known, names, active, given, values>>

(* resolve_overrides.                                                      *)
ReadActive ==
  /\ pc = "overrides"
  /\ active' = ActiveOf(file, known)
  /\ pc' = "resolve"
  /\ UNCHANGED <<file, passes, known, names, given, values>>

(* resolve_overrides_with_active.                                          *)
TakeActive ==
  /\ pc = "overrides"
  /\ \E context \in Contexts :
       active' = Distinct(SelectSeq(context, LAMBDA o : o # <<>>))
  /\ given' = TRUE
  /\ pc' = "resolve"
  /\ UNCHANGED <<file, passes, known, names, values>>

Resolve ==
  /\ pc = "resolve"
  /\ values' = Resolution(file, active, known)
  /\ pc' = "done"
  /\ UNCHANGED <<file, passes, known, names, active, given>>

Next == Pass \/ EndPasses \/ ReadActive \/ TakeActive \/ Resolve
Spec == Init /\ [][Next]_vars

----------------------------------------------------------------------------
(* Properties.                                                             *)
Settled(f, env) == NextEnvironment(f, env) = env

RefsOf(a) == (ToSet(WordsOf(a)) \cup ToSet(a.value)) \cap Refs

(* The assignments that, in some pass, gave a value to a variable that the *)
(* name or the value of the assignment i refers to.                        *)
DependsOn(i) ==
  {j \in DOMAIN file : \E r \in RefsOf(file[i]) : <<RefTo[r]>> \in names[j]}

Respects(depth) == \A i \in DOMAIN file : \A j \in DependsOn(i) : depth[j] < depth[i]

Acyclic == \E depth \in [DOMAIN file -> DOMAIN file] : Respects(depth)

(* However the references of a file are ordered and nested, the bounded    *)
(* loop of resolve_static_environment ends with every value up to date     *)
(* with the values it refers to, unless they refer to each other in a      *)
(* circle.                                                                 *)
AcyclicSettles ==
  pc # "environment" /\ Acyclic => Settled(file, known)

(* A variable without overrides or operations has the value that the       *)
(* other code path, resolve_static_environment, put into the texts that    *)
(* refer to it: what a reference expands to is what the variable resolves  *)
(* to.  This is not so if an active override makes an assignment of that   *)
(* path a variant of another variable: A_b is one of A, and a name that    *)
(* expands to A_b is none.                                                 *)
PlainValuesAgree ==
  pc = "done" /\ Settled(file, known) =>
    \A name \in DOMAIN values \ {OverridesName} :
      LET mine == {i \in Entries(file, active, known) :
                     KeyOf(file, active, known, i).base = name}
      IN  /\ \A i \in mine : /\ KeyOf(file, active, known, i).overrides = <<>>
                            /\ OperationsOf(file[i]) = {}
          /\ \A i \in DOMAIN file :
               IsPlain(file, known, i) /\ BaseIn(file, known, i) = name
               => KeyOf(file, active, known, i).overrides = <<>>
          => name \in DOMAIN known /\ values[name] = known[name]

(* resolve_override_list, which has its own loop over the assignments, and *)
(* the resolution of any other variable read the same value from the       *)
(* assignments to OVERRIDES.                                               *)
OverridesReadAlike ==
  pc \in {"resolve", "done"} /\ ~given /\ Settled(file, known) =>
    LET entries == Entries(file, <<>>, known)
        mine    == {i \in entries : KeyOf(file, <<>>, known, i).base = OverridesName}
    IN  (\A i \in mine : ~KeyOf(file, <<>>, known, i).expanded)
        => active = OverrideTokens(ValueOf(file, <<>>, known, mine))

(* The three evaluations of the module read a file alike.                  *)
EvaluationsAgree == PlainValuesAgree /\ OverridesReadAlike

(* No token that an effective removal names is in the value, wherever in   *)
(* the file it was assigned, appended or prepended.                        *)
RemovedStaysRemoved ==
  pc = "done" =>
    \A i \in Entries(file, active, known) :
      LET key == KeyOf(file, active, known, i)
      IN  key.operation = "remove" /\ ~key.selected /\ key.base # OverridesName
          => Tokens(Expand(file[i].value, known)) \cap Tokens(values[key.base]) = {}

(* The whole computation on a file f.                                      *)
Environment(f) ==
  LET env[k \in 0..(Len(f) + 1)] ==
        IF k = 0 THEN Nothing ELSE NextEnvironment(f, env[k - 1])
  IN  env[Len(f) + 1]

SameResult(f) ==
  /\ given \/ ActiveOf(f, Environment(f)) = active
  /\ Resolution(f, active, Environment(f)) = values

(* A flag, or an assignment for an override that is not active, changes no *)
(* value of the file it is in.                                             *)
InactiveIgnored ==
  pc = "done" /\ Settled(file, known) =>
    \A i \in DOMAIN file :
      \/ file[i].flag
      \/ /\ file[i].modern /\ IsKey(file[i])
         /\ ~(ToSet(KeyOf(file, active, known, i).overrides) \subseteq ToSet(active))
      => SameResult(RemoveAt(file, i))

Exchangeable(i, j) ==
  LET k == KeyOf(file, active, known, i)
      l == KeyOf(file, active, known, j)
  IN  /\ IsKey(file[i]) /\ IsKey(file[j]) /\ ~k.expanded /\ ~l.expanded
      /\ \/ k.base # l.base
         \/ /\ ToSet(k.overrides) # ToSet(l.overrides)
            /\ \A key \in {k, l} : key.operation = "none" \/ key.selected

(* Which override wins follows from OVERRIDES alone: exchanging two        *)
(* neighbouring assignments of different variables, or of different        *)
(* overrides of one variable, changes no value.                            *)
OrderBetweenVariantsIgnored ==
  pc = "done" /\ Settled(file, known) =>
    \A i \in 1..(Len(file) - 1) :
      Exchangeable(i, i + 1) =>
        SameResult([file EXCEPT ![i] = file[i + 1], ![i + 1] = file[i]])

(* What does not decide in BitBake does not decide here: inactive          *)
(* assignments and the layout of the file.                                 *)
LayoutIgnored == InactiveIgnored /\ OrderBetweenVariantsIgnored
=============================================================================
