--------------------------- MODULE OverridesProofs ---------------------------
(***************************************************************************)
(* resolve_static_environment, for every file: an assignment expands alike *)
(* in two passes if the variables it refers to did, so every pass settles  *)
(* the assignments one reference further from those without any, and one   *)
(* pass more than there are assignments is enough.                         *)
(*                                                                         *)
(* And the tokens of the values: Without drops whole runs of fragments and *)
(* keeps the blanks around them, so it never joins what is left into a     *)
(* token that was not there, and a later removal brings none back.         *)
(*                                                                         *)
(* And the evaluations: the selection of a variant, the static environment *)
(* and the loop that reads OVERRIDES take the same assignments for those   *)
(* of a variable without overrides, and so give it the same value.         *)
(***************************************************************************)
EXTENDS Overrides, FiniteSetTheorems, TLAPS

(* The environments e and d give the variable x the same value, or none.   *)
Same(e, d, x) == (x \in DOMAIN e <=> x \in DOMAIN d) /\ (x \in DOMAIN e => e[x] = d[x])

(* They agree on all that the assignment a refers to.                      *)
Agree(e, d, a) == \A r \in RefsOf(a) : Same(e, d, <<RefTo[r]>>)

(* The names that the pass from the environment e gave were noted.         *)
Noted(e) == \A i \in DOMAIN file : IsPlain(file, e, i) => BaseIn(file, e, i) \in names[i]

(* The values come from an environment that agrees with them on all        *)
(* assignments that are at most as deep as there were passes.              *)
Behind(e, depth) ==
  /\ known = NextEnvironment(file, e) /\ Noted(e)
  /\ \A i \in DOMAIN file : depth[i] <= passes => Agree(e, known, file[i])

PassInv ==
  pc = "environment" =>
    \A depth \in [DOMAIN file -> DOMAIN file] :
      Respects(depth) =>
        \/ passes = 0 /\ known = Nothing
        \/ \E e : Behind(e, depth)

FileInv == file \in Seq(Pool) /\ passes \in Nat /\ DOMAIN names = DOMAIN file

EnvironmentInv == FileInv /\ PassInv /\ AcyclicSettles

-----------------------------------------------------------------------------
(* A text expands alike where its references have the same values.         *)
LEMMA ExpandAlike ==
  ASSUME NEW e, NEW d, NEW text,
         \A i \in DOMAIN text : text[i] \in Refs => Same(e, d, <<RefTo[text[i]]>>)
  PROVE  Expand(text, e) = Expand(text, d) /\ (Dynamic(text, e) <=> Dynamic(text, d))
<1>1. \A i \in DOMAIN text : IsUnresolved(text[i], e) <=> IsUnresolved(text[i], d)
  BY DEF IsUnresolved, Same
<1>2. \A i \in DOMAIN text :
        text[i] \in Refs /\ ~IsUnresolved(text[i], e)
        => e[<<RefTo[text[i]]>>] = d[<<RefTo[text[i]]>>]
  BY DEF IsUnresolved, Same
<1> DEFINE In(env) == [i \in DOMAIN text |->
              IF text[i] \in Refs /\ ~IsUnresolved(text[i], env)
              THEN env[<<RefTo[text[i]]>>] ELSE <<text[i]>>]
<1>3. In(e) = In(d)
  BY <1>1, <1>2
<1>4. Expand(text, e) = FlattenSeq(In(e)) /\ Expand(text, d) = FlattenSeq(In(d))
  BY DEF Expand
<1> HIDE DEF In
<1>5. Expand(text, e) = Expand(text, d)
  BY <1>3, <1>4
<1> QED
  BY <1>1, <1>5 DEF Dynamic

(* The key of an assignment is the same in environments that agree on its  *)
(* name.                                                                   *)
LEMMA KeyAlike ==
  ASSUME NEW e, NEW d, NEW a, NEW act,
         \A i \in DOMAIN WordsOf(a) :
           WordsOf(a)[i] \in Refs => Same(e, d, <<RefTo[WordsOf(a)[i]]>>)
  PROVE  Key(a, act, e) = Key(a, act, d)
<1> DEFINE words    == WordsOf(a)
           In(env)  == [i \in DOMAIN words |-> Expand(<<words[i]>>, env)]
           Rest(texts, dynamic) ==
             LET ops  == OperationsOf(a)
                 k    == Suffix(a, act)
                 n    == Len(words) - k
                 last == Len(a.parts)
             IN [base      |-> Joined(SubSeq(texts, 1, n), "_"),
                 overrides |-> SubSeq(texts, n + 1, n + k),
                 operation |-> IF ops = {} THEN "none" ELSE a.parts[CHOOSE i \in ops : TRUE],
                 selected  |-> k > 0 /\ \E i \in ops : IF a.modern THEN i > 2 ELSE i = last,
                 dynamic   |-> dynamic,
                 expanded  |-> \E i \in DOMAIN words : words[i] \in Refs]
<1>1. \A i \in DOMAIN words : words[i] \in Refs => Same(e, d, <<RefTo[words[i]]>>)
  OBVIOUS
<1>2. \A i \in DOMAIN words : Expand(<<words[i]>>, e) = Expand(<<words[i]>>, d)
  <2> SUFFICES ASSUME NEW i \in DOMAIN words
               PROVE  Expand(<<words[i]>>, e) = Expand(<<words[i]>>, d)
    OBVIOUS
  <2> DEFINE word == words[i]
  <2>1. word \in Refs => Same(e, d, <<RefTo[word]>>)
    BY <1>1
  <2> HIDE DEF word
  <2>2. \A j \in DOMAIN <<word>> : <<word>>[j] = word
    OBVIOUS
  <2>3. Expand(<<word>>, e) = Expand(<<word>>, d)
    BY <2>1, <2>2, ExpandAlike
  <2> QED
    BY <2>3 DEF word
<1>3. In(e) = In(d)
  BY <1>2
<1>4. Dynamic(words, e) <=> Dynamic(words, d)
  <2> HIDE DEF words
  <2> QED
    BY <1>1, ExpandAlike
<1>5. /\ Key(a, act, e) = Rest(In(e), Dynamic(words, e))
      /\ Key(a, act, d) = Rest(In(d), Dynamic(words, d))
  BY DEF Key
<1>6. Dynamic(words, e) = Dynamic(words, d)
  BY <1>4 DEF Dynamic
<1> HIDE DEF Rest, In
<1> QED
  BY <1>3, <1>5, <1>6

(* So is whether it is plain, its name, and its text.                      *)
LEMMA PlainAlike ==
  ASSUME NEW e, NEW d, NEW f, NEW i, Agree(e, d, f[i])
  PROVE  /\ IsPlain(f, e, i) <=> IsPlain(f, d, i)
         /\ BaseIn(f, e, i) = BaseIn(f, d, i)
         /\ Expand(f[i].value, e) = Expand(f[i].value, d)
<1>1. Key(f[i], {}, e) = Key(f[i], {}, d)
  <2>1. \A k \in DOMAIN WordsOf(f[i]) :
          WordsOf(f[i])[k] \in Refs => Same(e, d, <<RefTo[WordsOf(f[i])[k]]>>)
    BY DEF Agree, RefsOf, ToSet
  <2> QED
    BY <2>1, KeyAlike
<1>2. \A k \in DOMAIN f[i].value :
        f[i].value[k] \in Refs => Same(e, d, <<RefTo[f[i].value[k]]>>)
  BY DEF Agree, RefsOf, ToSet
<1>3. /\ Expand(f[i].value, e) = Expand(f[i].value, d)
      /\ Dynamic(f[i].value, e) <=> Dynamic(f[i].value, d)
  BY <1>2, ExpandAlike
<1> QED
  BY <1>1, <1>3 DEF IsPlain, BaseIn

(* A variable has the same value after two passes, if all assignments that *)
(* either of them gave its name expand alike in both.                      *)
LEMMA NextAlike ==
  ASSUME NEW e, NEW d, NEW f, NEW x,
         \A i \in DOMAIN f :
           \/ IsPlain(f, e, i) /\ BaseIn(f, e, i) = x
           \/ IsPlain(f, d, i) /\ BaseIn(f, d, i) = x
           => Agree(e, d, f[i])
  PROVE  Same(NextEnvironment(f, e), NextEnvironment(f, d), x)
<1> DEFINE Mine(env)   == {i \in {j \in DOMAIN f : IsPlain(f, env, j)} : BaseIn(f, env, i) = x}
           Sum(env)    == Assigned(f, Texts(f, env, Mine(env)), LiteralFirst(f, Mine(env)))
<1>1. Mine(e) = Mine(d)
  BY PlainAlike
<1>2. \A i \in Mine(e) : Expand(f[i].value, e) = Expand(f[i].value, d)
  BY PlainAlike
<1>3. Texts(f, e, Mine(e)) = Texts(f, d, Mine(d))
  BY <1>1, <1>2 DEF Texts
<1>4. Sum(e) = Sum(d)
  <2> HIDE DEF Mine
  <2> QED
    BY <1>1, <1>3
<1>5. ASSUME NEW env
      PROVE  /\ x \in DOMAIN NextEnvironment(f, env) <=> Mine(env) # {}
             /\ x \in DOMAIN NextEnvironment(f, env) => NextEnvironment(f, env)[x] = Sum(env)
  BY DEF NextEnvironment
<1> HIDE DEF Mine, Sum
<1> QED
  BY <1>1, <1>4, <1>5 DEF Same
(* A pass settles the assignments that are one step deeper.                *)
LEMMA PassStep ==
  ASSUME EnvironmentInv, Pass
  PROVE  EnvironmentInv'
<1>1. /\ pc = "environment" /\ known' = NextEnvironment(file, known)
      /\ passes' = passes + 1
      /\ UNCHANGED <<file, pc>>
  BY DEF Pass
<1>2. names' = [i \in DOMAIN file |->
                 IF IsPlain(file, known, i) THEN names[i] \cup {BaseIn(file, known, i)}
                                            ELSE names[i]]
  BY DEF Pass
<1>3. DOMAIN names = DOMAIN file /\ DOMAIN names' = DOMAIN file
  BY <1>2 DEF EnvironmentInv, FileInv
<1>4. \A i \in DOMAIN file : names[i] \subseteq names'[i]
  BY <1>2
<1>5. \A i \in DOMAIN file : IsPlain(file, known, i) => BaseIn(file, known, i) \in names'[i]
  BY <1>2
<1>6. FileInv'
  BY <1>1, <1>3 DEF EnvironmentInv, FileInv
<1>7. ASSUME NEW depth \in [DOMAIN file -> DOMAIN file],
             \A i \in DOMAIN file : \A j \in DOMAIN file : \A r \in RefsOf(file[i]) :
               <<RefTo[r]>> \in names'[j] => depth[j] < depth[i]
      PROVE  \A i \in DOMAIN file : depth[i] <= passes + 1 => Agree(known, known', file[i])
  <2>1. \A i \in DOMAIN file : depth[i] \in Nat /\ depth[i] >= 1
    <3>1. DOMAIN file \subseteq Nat \ {0}
      BY DEF EnvironmentInv, FileInv
    <3> QED
      BY <1>7, <3>1
  <2>2. Respects(depth)
    BY <1>4, <1>7 DEF Respects, DependsOn
  <2>3. (passes = 0 /\ known = Nothing) \/ \E e : Behind(e, depth)
    BY <1>1, <2>2 DEF EnvironmentInv, PassInv
  <2> SUFFICES ASSUME NEW i \in DOMAIN file, depth[i] <= passes + 1,
                      NEW r \in RefsOf(file[i])
               PROVE  Same(known, known', <<RefTo[r]>>)
    BY DEF Agree
  <2>4. CASE passes = 0 /\ known = Nothing
    <3>1. \A j \in DOMAIN file : IsPlain(file, known, j) => BaseIn(file, known, j) # <<RefTo[r]>>
      <4> SUFFICES ASSUME NEW j \in DOMAIN file, <<RefTo[r]>> \in names'[j]
                   PROVE  FALSE
        BY <1>5
      <4>1. depth[j] < depth[i] /\ depth[i] <= 1
        BY <1>7, <2>4
      <4> QED
        BY <2>1, <4>1
    <3>2. <<RefTo[r]>> \notin DOMAIN known'
      BY <1>1, <3>1 DEF NextEnvironment
    <3>3. <<RefTo[r]>> \notin DOMAIN known
      BY <2>4 DEF Nothing
    <3> QED
      BY <3>2, <3>3 DEF Same
  <2>5. CASE \E e : Behind(e, depth)
    <3>1. PICK e : Behind(e, depth)
      BY <2>5
    <3>2. \A j \in DOMAIN file :
            \/ IsPlain(file, e, j) /\ BaseIn(file, e, j) = <<RefTo[r]>>
            \/ IsPlain(file, known, j) /\ BaseIn(file, known, j) = <<RefTo[r]>>
            => Agree(e, known, file[j])
      <4> SUFFICES ASSUME NEW j \in DOMAIN file, <<RefTo[r]>> \in names'[j]
                   PROVE  Agree(e, known, file[j])
        BY <1>4, <1>5, <3>1 DEF Behind, Noted
      <4>1. depth[j] < depth[i]
        BY <1>7
      <4>2. depth[j] <= passes
        <5>1. passes \in Nat /\ depth[i] <= passes + 1
          BY DEF EnvironmentInv, FileInv
        <5> QED
          BY <2>1, <4>1, <5>1
      <4> QED
        BY <3>1, <4>2 DEF Behind
    <3>3. Same(NextEnvironment(file, e), NextEnvironment(file, known), <<RefTo[r]>>)
      BY <3>2, NextAlike
    <3> QED
      BY <1>1, <3>1, <3>3 DEF Behind
  <2> QED
    BY <2>3, <2>4, <2>5
<1>8. PassInv'
  <2>3. PICK e : e = known
    OBVIOUS
  <2> SUFFICES ASSUME NEW depth \in [DOMAIN file -> DOMAIN file], Respects(depth)'
               PROVE  Behind(e, depth)'
    BY <1>1 DEF PassInv
  <2>1. \A i \in DOMAIN file : \A j \in DOMAIN file : \A r \in RefsOf(file[i]) :
          <<RefTo[r]>> \in names'[j] => depth[j] < depth[i]
    BY <1>1 DEF Respects, DependsOn
  <2>2. \A i \in DOMAIN file : depth[i] <= passes + 1 => Agree(known, known', file[i])
    BY <1>7, <2>1
  <2> QED
    BY <1>1, <1>5, <2>2, <2>3 DEF Behind, Noted
<1> QED
  BY <1>1, <1>6, <1>8 DEF EnvironmentInv, AcyclicSettles

(* The loop ends with settled values: after the last pass all depths agree.*)
LEMMA EndPassesStep ==
  ASSUME EnvironmentInv, EndPasses
  PROVE  EnvironmentInv'
<1>1. /\ pc = "environment" /\ pc' = "overrides"
      /\ passes = LastPass \/ NextEnvironment(file, known) = known
      /\ UNCHANGED <<file, passes, known, names>>
  BY DEF EndPasses
<1>2. FileInv' /\ PassInv'
  BY <1>1 DEF EnvironmentInv, FileInv, PassInv
<1>3. ASSUME Acyclic, passes = LastPass
      PROVE  NextEnvironment(file, known) = known
  <2>1. PICK depth \in [DOMAIN file -> DOMAIN file] : Respects(depth)
    BY <1>3 DEF Acyclic
  <2>2. /\ DOMAIN file = 1 .. Len(file) /\ Len(file) \in Nat
        /\ passes = Len(file) + 1
    BY <1>3 DEF EnvironmentInv, FileInv, LastPass
  <2>3. PICK e : Behind(e, depth)
    BY <1>1, <2>1, <2>2 DEF EnvironmentInv, PassInv
  <2>4. \A i \in DOMAIN file : Agree(e, known, file[i])
    <3>1. \A i \in DOMAIN file : depth[i] <= passes
      BY <2>2
    <3> QED
      BY <2>3, <3>1 DEF Behind
  <2>5. \A x : Same(NextEnvironment(file, e), NextEnvironment(file, known), x)
    BY <2>4, NextAlike
  <2>6. known = NextEnvironment(file, e)
    BY <2>3 DEF Behind
  <2>7. \A x : Same(known, NextEnvironment(file, known), x)
    BY <2>5, <2>6
  <2>8. ASSUME NEW env
        PROVE  NextEnvironment(file, env) = [x \in DOMAIN NextEnvironment(file, env) |->
                                               NextEnvironment(file, env)[x]]
    BY DEF NextEnvironment
  <2>9. DOMAIN known = DOMAIN NextEnvironment(file, known)
    BY <2>7 DEF Same
  <2>10. \A x \in DOMAIN known : known[x] = NextEnvironment(file, known)[x]
    BY <2>7 DEF Same
  <2>11. known = [x \in DOMAIN known |-> known[x]]
    BY <2>6, <2>8
  <2> QED
    BY <2>8, <2>9, <2>10, <2>11
<1>4. Acyclic' <=> Acyclic
  BY <1>1 DEF Acyclic, Respects, DependsOn
<1>5. AcyclicSettles'
  BY <1>1, <1>3, <1>4 DEF AcyclicSettles, Settled
<1> QED
  BY <1>2, <1>5 DEF EnvironmentInv

(* The loop of resolve_static_environment is long enough for every file.   *)
THEOREM PassesSuffice == Spec => []AcyclicSettles
<1>1. Init => EnvironmentInv
  <2> SUFFICES ASSUME Init PROVE EnvironmentInv
    OBVIOUS
  <2>1. file \in Seq(Pool)
    BY DEF Init, SeqOf
  <2>2. FileInv
    BY <2>1 DEF Init, FileInv
  <2> QED
    BY <2>2 DEF Init, EnvironmentInv, PassInv, AcyclicSettles
<1>2. EnvironmentInv /\ [Next]_vars => EnvironmentInv'
  <2> SUFFICES ASSUME EnvironmentInv, [Next]_vars PROVE EnvironmentInv'
    OBVIOUS
  <2>1. ASSUME UNCHANGED <<file, pc, passes, known, names>>
        PROVE  EnvironmentInv'
    <3>1. \A e, depth : Behind(e, depth)' <=> Behind(e, depth)
      BY <2>1 DEF Behind, Noted
    <3>2. \A depth : Respects(depth)' <=> Respects(depth)
      BY <2>1 DEF Respects, DependsOn
    <3> QED
      BY <2>1, <3>1, <3>2
      DEF EnvironmentInv, FileInv, PassInv, AcyclicSettles, Acyclic, Settled
  <2>2. ASSUME ReadActive \/ TakeActive \/ Resolve
        PROVE  EnvironmentInv'
    <3>1. /\ pc # "environment" /\ pc' # "environment"
          /\ UNCHANGED <<file, passes, known, names>>
      BY <2>2 DEF ReadActive, TakeActive, Resolve
    <3>2. Acyclic' <=> Acyclic
      BY <3>1 DEF Acyclic, Respects, DependsOn
    <3> QED
      BY <3>1, <3>2 DEF EnvironmentInv, FileInv, PassInv, AcyclicSettles, Settled
  <2> QED
    BY <2>1, <2>2, PassStep, EndPassesStep DEF Next, vars
<1>3. EnvironmentInv => AcyclicSettles
  BY DEF EnvironmentInv
<1> QED
  BY <1>1, <1>2, <1>3, PTL DEF Spec

-----------------------------------------------------------------------------
(* Induction over the naturals, for a set of them.                         *)
LEMMA Inductive ==
  ASSUME NEW M, 0 \in M, \A n \in Nat : n \in M => n + 1 \in M
  PROVE  \A n \in Nat : n \in M
<1> DEFINE Out == Nat \ M
<1> SUFFICES ASSUME Out # {} PROVE FALSE
  OBVIOUS
<1>1. PICK n \in Out : \A m \in Out : ~(<<m, n>> \in OpToRel(<, Nat))
  BY WFMin, NatLessThanWellFounded
<1>2. \A m \in Out : ~(m < n)
  BY <1>1 DEF OpToRel
<1>3. n # 0 /\ n - 1 \in Nat
  OBVIOUS
<1>4. n - 1 \in M
  BY <1>2, <1>3
<1> QED
  BY <1>3, <1>4

(* Sorted lists the members of a set in their order, each once.            *)
LEMMA SortedLists ==
  ASSUME NEW S, S \subseteq Nat, IsFiniteSet(S)
  PROVE  /\ Cardinality(S) \in Nat
         /\ Sorted(S) \in [1..Cardinality(S) -> S]
         /\ \A k, l \in 1..Cardinality(S) : k < l => Sorted(S)[k] < Sorted(S)[l]
         /\ \A i \in S : \E k \in 1..Cardinality(S) : Sorted(S)[k] = i
<1> DEFINE n == Cardinality(S)
           Upto(i) == {j \in S : j <= i}
           rank == [i \in S |-> Cardinality(Upto(i))]
<1>1. n \in Nat
  BY FS_CardinalityType
<1>2. ASSUME NEW i \in S
      PROVE  IsFiniteSet(Upto(i)) /\ Cardinality(Upto(i)) \in 1..n
  <2>1. IsFiniteSet(Upto(i)) /\ Cardinality(Upto(i)) <= n
    <3>1. Upto(i) \in SUBSET S
      OBVIOUS
    <3> QED
      BY <3>1, FS_Subset
  <2>2. Upto(i) # {}
    OBVIOUS
  <2>3. Cardinality(Upto(i)) \in Nat /\ Cardinality(Upto(i)) # 0
    BY <2>1, <2>2, FS_CardinalityType, FS_EmptySet
  <2> QED
    BY <1>1, <2>1, <2>3
<1>3. ASSUME NEW i \in S, NEW j \in S, i < j
      PROVE  Cardinality(Upto(i)) < Cardinality(Upto(j))
  <2>1. Upto(i) \in SUBSET Upto(j) /\ Upto(i) # Upto(j)
    <3>1. i \in Nat /\ j \in Nat
      OBVIOUS
    <3>2. ASSUME NEW x \in S, x <= i PROVE x <= j
      <4>1. x \in Nat
        OBVIOUS
      <4> QED
        BY <1>3, <3>1, <3>2, <4>1
    <3>3. j <= j /\ ~(j <= i)
      BY <1>3, <3>1
    <3> QED
      BY <3>2, <3>3
  <2>2. /\ Cardinality(Upto(i)) <= Cardinality(Upto(j))
        /\ Cardinality(Upto(j)) = Cardinality(Upto(i)) => Upto(j) = Upto(i)
    BY <1>2, <2>1, FS_Subset
  <2> QED
    BY <1>2, <2>1, <2>2
<1>4. rank \in Injection(S, 1..n)
  <2>1. rank \in [S -> 1..n]
    BY <1>2
  <2>2. \A i, j \in S : rank[i] = rank[j] => i = j
    BY <1>2, <1>3
  <2> QED
    BY <2>1, <2>2 DEF Injection, IsInjective
<1>5. rank \in Surjection(S, 1..n)
  <2>1. IsFiniteSet(1..n) /\ Cardinality(1..n) = n
    BY <1>1, FS_Interval
  <2> QED
    BY <1>4, <2>1, FS_Injection
<1>6. \A k \in 1..n : \E i \in S : Cardinality(Upto(i)) = k
  BY <1>5 DEF Surjection
<1>7. Sorted(S) = [k \in 1..n |-> CHOOSE i \in S : Cardinality(Upto(i)) = k]
  BY DEF Sorted
<1>8. \A k \in 1..n : Sorted(S)[k] \in S /\ Cardinality(Upto(Sorted(S)[k])) = k
  BY <1>6, <1>7
<1>9. \A k, l \in 1..n : k < l => Sorted(S)[k] < Sorted(S)[l]
  <2> SUFFICES ASSUME NEW k \in 1..n, NEW l \in 1..n, k < l, ~(Sorted(S)[k] < Sorted(S)[l])
               PROVE  FALSE
    OBVIOUS
  <2> DEFINE a == Sorted(S)[k]
             b == Sorted(S)[l]
  <2>1. /\ a \in S /\ Cardinality(Upto(a)) = k
        /\ b \in S /\ Cardinality(Upto(b)) = l
    BY <1>8
  <2>2. ~(a < b)
    OBVIOUS
  <2> HIDE DEF a, b
  <2>3. a \in Nat /\ b \in Nat
    BY <2>1
  <2>4. CASE a = b
    BY <2>1, <2>4
  <2>5. CASE b < a
    BY <1>3, <2>1, <2>5
  <2> QED
    BY <2>2, <2>3, <2>4, <2>5
<1>10. \A i \in S : \E k \in 1..n : Sorted(S)[k] = i
  <2> SUFFICES ASSUME NEW i \in S
               PROVE  \E k \in 1..n : Sorted(S)[k] = i
    OBVIOUS
  <2>1. rank[i] \in 1..n /\ Sorted(S)[rank[i]] \in S /\ rank[Sorted(S)[rank[i]]] = rank[i]
    BY <1>2, <1>8
  <2>2. Sorted(S)[rank[i]] = i
    BY <1>4, <2>1 DEF Injection, IsInjective
  <2> QED
    BY <2>1, <2>2
<1>11. Sorted(S) \in [1..n -> S]
  BY <1>7, <1>8
<1> QED
  BY <1>1, <1>9, <1>10, <1>11
(* A run of S: numbers of S in a row, with no neighbour in S.              *)
IsRun(S, a, b) ==
  a \in Nat /\ b \in Nat /\ a <= b /\ a..b \subseteq S /\ a - 1 \notin S /\ b + 1 \notin S

(* at lists the numbers up to n that are kept: those outside W, and with a *)
(* number of W its neighbours in W.                                        *)
ListsKept(at, m, kept, W, n) ==
  /\ n \in Nat /\ m \in Nat /\ W \subseteq 1..n /\ kept \subseteq 1..n
  /\ \A i \in 1..n : i \notin W => i \in kept
  /\ \A i \in W : i + 1 \in W => (i \in kept <=> i + 1 \in kept)
  /\ at \in [1..m -> kept]
  /\ \A k, l \in 1..m : k < l => at[k] < at[l]
  /\ \A i \in kept : \E k \in 1..m : at[k] = i

Listed(at, m, W) == {k \in 1..m : at[k] \in W}

(* Then the runs among the listed numbers are runs of W.                   *)
LEMMA KeptRuns ==
  ASSUME NEW at, NEW m, NEW kept, NEW W, NEW n, ListsKept(at, m, kept, W, n),
         NEW a, NEW b, IsRun(Listed(at, m, W), a, b)
  PROVE  /\ a \in 1..m /\ b \in 1..m /\ a <= b
         /\ IsRun(W, at[a], at[b])
         /\ at[b] = at[a] + (b - a)
         /\ \A k \in a..b : at[k] = at[a] + (k - a)
<1> USE DEF ListsKept
<1>1. ASSUME NEW k \in 1..m
      PROVE  at[k] \in Nat /\ at[k] \in kept /\ at[k] \in 1..n
  <2>1. at[k] \in kept
    OBVIOUS
  <2>2. at[k] \in 1..n
    BY <2>1
  <2> QED
    BY <2>1, <2>2
<1>2. ASSUME NEW k \in 1..m, at[k] + 1 \in kept
      PROVE  k + 1 \in 1..m /\ at[k + 1] = at[k] + 1
  <2>1. PICK l \in 1..m : at[l] = at[k] + 1
    BY <1>2
  <2>2. ~(l < k) /\ l # k
    BY <1>1, <2>1
  <2>3. k < l /\ k + 1 \in 1..m
    BY <2>2
  <2>4. at[k] < at[k + 1]
    BY <2>3
  <2>5. ~(k + 1 < l)
    BY <1>1, <2>1, <2>3, <2>4
  <2> QED
    BY <2>1, <2>3, <2>5
<1>3. /\ a \in 1..m /\ b \in 1..m /\ a <= b
      /\ \A k \in a..b : k \in 1..m /\ at[k] \in W
      /\ a - 1 \in 1..m => at[a - 1] \notin W
      /\ b + 1 \in 1..m => at[b + 1] \notin W
  <2> DEFINE V == Listed(at, m, W)
  <2>1. \A k : k \in V <=> k \in 1..m /\ at[k] \in W
    BY DEF Listed
  <2>2. /\ a \in Nat /\ b \in Nat /\ a <= b /\ a - 1 \notin V /\ b + 1 \notin V
        /\ \A k \in a..b : k \in V
    BY DEF IsRun
  <2>3. a \in V /\ b \in V
    BY <2>2
  <2> HIDE DEF V
  <2> QED
    BY <2>1, <2>2, <2>3
<1>4. ASSUME NEW k \in a..b, k + 1 \in a..b
      PROVE  at[k + 1] = at[k] + 1
  <2>1. /\ k \in 1..m /\ at[k] \in W /\ at[k] \in kept
        /\ k + 1 \in 1..m /\ at[k + 1] \in 1..n /\ at[k] < at[k + 1]
    BY <1>1, <1>3, <1>4
  <2>2. at[k] + 1 \in 1..n
    BY <1>1, <2>1
  <2>3. at[k] + 1 \in kept
    BY <2>1, <2>2
  <2> QED
    BY <1>2, <2>1, <2>3
<1>5. \A k \in a..b : at[k] = at[a] + (k - a)
  <2> DEFINE M == {d \in Nat : a + d <= b => at[a + d] = at[a] + d}
  <2>1. 0 \in M
    BY <1>1, <1>3
  <2>2. ASSUME NEW d \in Nat, d \in M
        PROVE  d + 1 \in M
    <3>1. CASE a + (d + 1) <= b
      <4>1. /\ a + d \in a..b /\ (a + d) + 1 \in a..b /\ (a + d) + 1 = a + (d + 1)
            /\ a + d <= b
        BY <1>3, <3>1
      <4>2. at[a + (d + 1)] = at[a + d] + 1
        BY <1>4, <4>1
      <4>3. at[a + d] = at[a] + d
        BY <2>2, <4>1
      <4> QED
        BY <1>1, <1>3, <4>2, <4>3
    <3> QED
      BY <3>1
  <2>3. \A d \in Nat : d \in M
    <3> HIDE DEF M
    <3> QED
      BY <2>1, <2>2, Inductive
  <2>4. ASSUME NEW k \in a..b
        PROVE  at[k] = at[a] + (k - a)
    <3>1. k - a \in Nat /\ a + (k - a) = k /\ k <= b
      BY <1>3
    <3> QED
      BY <2>3, <3>1
  <2> QED
    BY <2>4
<1>6. b \in a..b /\ a \in a..b
  BY <1>3
<1>7. at[b] = at[a] + (b - a)
  BY <1>5, <1>6
<1>8. ASSUME NEW i \in at[a]..at[b]
      PROVE  i \in W
  <2>1. a + (i - at[a]) \in a..b
    <3>1. at[a] \in Nat /\ at[b] \in Nat
      BY <1>1, <1>3
    <3>2. i \in Nat /\ at[a] <= i /\ i <= at[b]
      BY <3>1
    <3> QED
      BY <1>3, <1>7, <3>1, <3>2
  <2>2. at[a + (i - at[a])] = at[a] + ((a + (i - at[a])) - a)
    BY <1>5, <2>1
  <2>3. at[a] + ((a + (i - at[a])) - a) = i
    BY <1>1, <1>3
  <2> QED
    BY <1>3, <2>1, <2>2, <2>3
<1>9. ASSUME at[a] - 1 \in W
      PROVE  FALSE
  <2> DEFINE h == at[a] - 1
  <2>1. at[a] \in Nat /\ at[a] \in W
    BY <1>1, <1>3, <1>6
  <2>2. h \in W /\ h + 1 = at[a] /\ h + 1 \in W
    BY <1>9, <2>1
  <2>3. h \in kept
    BY <1>1, <1>3, <2>2
  <2> HIDE DEF h
  <2>4. PICK k \in 1..m : at[k] = h
    BY <2>3
  <2>5. k + 1 \in 1..m /\ at[k + 1] = at[a]
    BY <1>1, <1>2, <1>3, <2>2, <2>4
  <2>6. ~(k + 1 < a) /\ ~(a < k + 1)
    BY <1>1, <1>3, <2>5
  <2>7. k = a - 1
    BY <1>3, <2>6
  <2> QED
    BY <1>3, <2>2, <2>4, <2>7
<1>10. ASSUME at[b] + 1 \in W
       PROVE  FALSE
  <2>1. at[b] + 1 \in kept
    BY <1>1, <1>3, <1>6, <1>10
  <2>2. b + 1 \in 1..m /\ at[b + 1] = at[b] + 1
    BY <1>2, <1>3, <2>1
  <2> QED
    BY <1>3, <1>10, <2>2
<1>11. at[a] \in Nat /\ at[b] \in Nat /\ at[a] <= at[b]
  BY <1>1, <1>3, <1>7
<1>12. IsRun(W, at[a], at[b])
  BY <1>8, <1>9, <1>10, <1>11 DEF IsRun
<1> QED
  BY <1>3, <1>5, <1>7, <1>12

(* The fragments of a text: the provers know no literal as a string.       *)
Fragments == STRING \cup {" ", "_"}

(* The places of a text that belong to a token.                            *)
InTokens(text) == {i \in 1..Len(text) : text[i] # " "}

(* A run is the pair of its ends.                                          *)
LEMMA RunIsPair ==
  ASSUME NEW text, NEW separators, NEW r \in Runs(text, separators)
  PROVE  r = <<r[1], r[2]>>
<1>1. r \in (DOMAIN text) \X (DOMAIN text)
  BY DEF Runs
<1>2. PICK a, b : r = <<a, b>>
  BY <1>1
<1> QED
  BY <1>2

(* The runs of a text between its blanks are the runs of its other places. *)
LEMMA RunsAreRuns ==
  ASSUME NEW text \in Seq(Fragments), NEW a, NEW b
  PROVE  <<a, b>> \in Runs(text, {" "}) <=> IsRun(InTokens(text), a, b)
<1> DEFINE W == InTokens(text)
           n == Len(text)
<1>1. n \in Nat /\ DOMAIN text = 1..n
  OBVIOUS
<1>2. \A i : i \in W <=> i \in 1..n /\ text[i] # " "
  BY DEF InTokens
<1>3. <<a, b>> \in Runs(text, {" "})
      <=> /\ a \in 1..n /\ b \in 1..n /\ a <= b
          /\ \A k \in a..b : text[k] # " "
          /\ a = 1 \/ text[a - 1] = " "
          /\ b = n \/ text[b + 1] = " "
  BY <1>1 DEF Runs
<1> HIDE DEF W, n
<1>4. ASSUME a \in 1..n, b \in 1..n, a <= b
      PROVE  /\ (\A k \in a..b : text[k] # " ") <=> a..b \subseteq W
             /\ (a = 1 \/ text[a - 1] = " ") <=> a - 1 \notin W
             /\ (b = n \/ text[b + 1] = " ") <=> b + 1 \notin W
  <2>1. \A k \in a..b : k \in 1..n
    BY <1>1, <1>4
  <2>2. (\A k \in a..b : text[k] # " ") <=> a..b \subseteq W
    BY <1>2, <2>1
  <2>3. a = 1 <=> a - 1 \notin 1..n
    BY <1>1, <1>4
  <2>4. b = n <=> b + 1 \notin 1..n
    BY <1>1, <1>4
  <2> QED
    BY <1>2, <2>2, <2>3, <2>4
<1>5. IsRun(W, a, b) => a \in 1..n /\ b \in 1..n /\ a <= b
  <2> SUFFICES ASSUME IsRun(W, a, b)
               PROVE  a \in 1..n /\ b \in 1..n /\ a <= b
    OBVIOUS
  <2>1. a \in a..b /\ b \in a..b /\ a <= b /\ a..b \subseteq W
    BY DEF IsRun
  <2> QED
    BY <1>2, <2>1
<1>6. IsRun(W, a, b)
      <=> a \in 1..n /\ b \in 1..n /\ a <= b /\ a..b \subseteq W /\ a - 1 \notin W /\ b + 1 \notin W
  BY <1>1, <1>5 DEF IsRun
<1> QED
  BY <1>3, <1>4, <1>6 DEF W

(* So a token of a text is what one of those runs spells.                  *)
LEMMA TokensAreRuns ==
  ASSUME NEW text \in Seq(Fragments), NEW t
  PROVE  t \in Tokens(text) <=> \E a, b : IsRun(InTokens(text), a, b) /\ t = SubSeq(text, a, b)
<1>1. \A r \in Runs(text, {" "}) : r = <<r[1], r[2]>>
  BY RunIsPair
<1>2. t \in Tokens(text) <=> \E r \in Runs(text, {" "}) : t = SubSeq(text, r[1], r[2])
  BY DEF Tokens
<1>3. ASSUME NEW r \in Runs(text, {" "}), t = SubSeq(text, r[1], r[2])
      PROVE  \E a, b : IsRun(InTokens(text), a, b) /\ t = SubSeq(text, a, b)
  <2>1. <<r[1], r[2]>> \in Runs(text, {" "})
    BY <1>1
  <2> QED
    BY <1>3, <2>1, RunsAreRuns
<1>4. ASSUME NEW a, NEW b, IsRun(InTokens(text), a, b), t = SubSeq(text, a, b)
      PROVE  \E r \in Runs(text, {" "}) : t = SubSeq(text, r[1], r[2])
  <2>1. <<a, b>> \in Runs(text, {" "})
    BY <1>4, RunsAreRuns
  <2> QED
    BY <1>4, <2>1
<1> QED
  BY <1>2, <1>3, <1>4

(* At lists the elements at some positions, in their order.                *)
LEMMA AtLists ==
  ASSUME NEW T, NEW s \in Seq(T), NEW S \in SUBSET (DOMAIN s)
  PROVE  /\ S \in SUBSET Nat /\ IsFiniteSet(S) /\ Cardinality(S) \in Nat
         /\ At(s, S) \in Seq(T) /\ Len(At(s, S)) = Cardinality(S)
         /\ \A k \in 1..Cardinality(S) : At(s, S)[k] = s[Sorted(S)[k]]
<1>1. DOMAIN s = 1..Len(s) /\ Len(s) \in Nat
  OBVIOUS
<1>2. IsFiniteSet(S)
  <2>1. IsFiniteSet(DOMAIN s)
    BY <1>1, FS_Interval
  <2> QED
    BY <2>1, FS_Subset
<1>3. S \in SUBSET Nat
  BY <1>1
<1>4. Cardinality(S) \in Nat /\ Sorted(S) \in [1..Cardinality(S) -> S]
  BY <1>2, <1>3, SortedLists
<1>5. At(s, S) = [k \in 1..Cardinality(S) |-> s[Sorted(S)[k]]]
  BY DEF At
<1>6. \A k \in 1..Cardinality(S) : s[Sorted(S)[k]] \in T
  BY <1>4
<1> HIDE DEF At
<1>7. At(s, S) \in [1..Cardinality(S) -> T]
  BY <1>5, <1>6
<1>8. At(s, S) \in Seq(T) /\ Len(At(s, S)) = Cardinality(S)
  BY <1>4, <1>7
<1> QED
  BY <1>2, <1>3, <1>4, <1>5, <1>8

(* Without leaves no token of the removal, and makes none that was not     *)
(* there: what is left of a text keeps its separators.                     *)
LEMMA WithoutTokens ==
  ASSUME NEW text \in Seq(Fragments), NEW removal
  PROVE  /\ Without(text, removal) \in Seq(Fragments)
         /\ Tokens(Without(text, removal)) \subseteq Tokens(text) \ Tokens(removal)
<1> DEFINE gone == {r \in Runs(text, {" "}) : SubSeq(text, r[1], r[2]) \in Tokens(removal)}
           kept == DOMAIN text \ UNION {r[1]..r[2] : r \in gone}
           out  == At(text, kept)
           n    == Len(text)
           m    == Cardinality(kept)
           at   == Sorted(kept)
           W    == InTokens(text)
           Gone(a, b) == IsRun(W, a, b) /\ SubSeq(text, a, b) \in Tokens(removal)
<1>1. Without(text, removal) = out
  BY DEF Without
<1>2. n \in Nat /\ DOMAIN text = 1..n
  OBVIOUS
<1>3. \A i : i \in kept <=> i \in 1..n /\ ~\E a, b : Gone(a, b) /\ i \in a..b
  <2>1. ASSUME NEW r \in gone
        PROVE  Gone(r[1], r[2])
    <3>1. r = <<r[1], r[2]>>
      BY RunIsPair
    <3>2. <<r[1], r[2]>> \in Runs(text, {" "}) /\ SubSeq(text, r[1], r[2]) \in Tokens(removal)
      BY <3>1
    <3> QED
      BY <3>2, RunsAreRuns
  <2>2. ASSUME NEW a, NEW b, Gone(a, b)
        PROVE  <<a, b>> \in gone
    <3>1. <<a, b>> \in Runs(text, {" "})
      BY <2>2, RunsAreRuns
    <3> QED
      BY <2>2, <3>1
  <2> HIDE DEF Gone
  <2>3. ASSUME NEW i
        PROVE  (\E r \in gone : i \in r[1]..r[2]) <=> \E a, b : Gone(a, b) /\ i \in a..b
    <3>1. ASSUME NEW a, NEW b, Gone(a, b), i \in a..b
          PROVE  \E r \in gone : i \in r[1]..r[2]
      <4>1. <<a, b>> \in gone /\ <<a, b>>[1] = a /\ <<a, b>>[2] = b
        BY <2>2, <3>1
      <4> HIDE DEF gone
      <4> QED
        BY <3>1, <4>1
    <3> HIDE DEF gone
    <3> QED
      BY <2>1, <3>1
  <2>4. \A i : i \in kept <=> i \in DOMAIN text /\ ~\E r \in gone : i \in r[1]..r[2]
    OBVIOUS
  <2> HIDE DEF kept, gone, n
  <2> QED
    BY <1>2, <2>3, <2>4
<1>4. kept \in SUBSET (DOMAIN text)
  OBVIOUS
<1> HIDE DEF gone, kept
<1>5. /\ out \in Seq(Fragments) /\ Len(out) = m /\ m \in Nat
      /\ \A k \in 1..m : out[k] = text[at[k]]
      /\ kept \in SUBSET Nat /\ IsFiniteSet(kept)
  BY <1>4, AtLists
<1>6. /\ at \in [1..m -> kept]
      /\ \A k, l \in 1..m : k < l => at[k] < at[l]
      /\ \A i \in kept : \E k \in 1..m : at[k] = i
  BY <1>5, SortedLists
<1>7. W \in SUBSET (1..n) /\ kept \in SUBSET (1..n)
  BY <1>2, <1>4 DEF InTokens
<1> HIDE DEF out, n, m, at, W, Gone
<1>8. \A i \in 1..n : i \notin W => i \in kept
  <2>1. \A a, b : Gone(a, b) => a..b \subseteq W
    BY DEF Gone, IsRun
  <2> QED
    BY <1>3, <2>1
<1>9. ASSUME NEW i \in W, i + 1 \in W
      PROVE  i \in kept <=> i + 1 \in kept
  <2>1. \A a, b : Gone(a, b) => a \in Nat /\ b \in Nat /\ a - 1 \notin W /\ b + 1 \notin W
    BY DEF Gone, IsRun
  <2>2. ASSUME NEW a, NEW b, Gone(a, b)
        PROVE  i \in a..b <=> i + 1 \in a..b
    <3>1. a \in Nat /\ b \in Nat /\ i \in Nat /\ a - 1 # i /\ b # i
      BY <1>7, <1>9, <2>1, <2>2
    <3> QED
      BY <3>1
  <2> QED
    BY <1>3, <1>7, <1>9, <2>2
<1>10. InTokens(out) = Listed(at, m, W)
  <2>1. InTokens(out) = {k \in 1..m : out[k] # " "}
    BY <1>5 DEF InTokens
  <2>2. \A k \in 1..m : at[k] \in 1..n
    BY <1>6, <1>7
  <2>3. \A k \in 1..m : out[k] # " " <=> at[k] \in W
    BY <1>5, <2>2 DEF W, InTokens, n
  <2> QED
    BY <2>1, <2>3 DEF Listed
<1>11. ASSUME NEW a, NEW b, IsRun(InTokens(out), a, b)
       PROVE  SubSeq(out, a, b) \in Tokens(text) \ Tokens(removal)
  <2>1. /\ a \in 1..m /\ b \in 1..m /\ a <= b
        /\ IsRun(W, at[a], at[b])
        /\ at[b] = at[a] + (b - a)
        /\ \A k \in a..b : at[k] = at[a] + (k - a)
    <3>1. \A i \in W : i + 1 \in W => (i \in kept <=> i + 1 \in kept)
      BY <1>9
    <3>2. ListsKept(at, m, kept, W, n)
      BY <1>2, <1>5, <1>6, <1>7, <1>8, <3>1 DEF ListsKept
    <3>3. IsRun(Listed(at, m, W), a, b)
      BY <1>10, <1>11
    <3> QED
      BY <3>2, <3>3, KeptRuns
  <2> DEFINE i == at[a]
             j == at[b]
  <2>2. i \in kept /\ i \in 1..n /\ j \in 1..n /\ i <= j
    BY <1>6, <1>7, <2>1 DEF IsRun
  <2>3. \A k \in a..b : out[k] = text[i + (k - a)]
    BY <1>5, <2>1
  <2>4. SubSeq(out, a, b) = SubSeq(text, i, j)
    <3>1. ASSUME NEW k \in 1..(b - a) + 1
          PROVE  out[(k + a) - 1] = text[(k + i) - 1]
      <4>1. (k + a) - 1 \in a..b /\ i + (((k + a) - 1) - a) = (k + i) - 1
        BY <1>2, <2>1, <2>2
      <4> QED
        BY <2>3, <4>1
    <3>2. (j - i) + 1 = (b - a) + 1
      BY <1>2, <2>1, <2>2
    <3>3. SubSeq(out, a, b) = [k \in 1..(b - a) + 1 |-> out[(k + a) - 1]]
      BY <1>5, <2>1
    <3>4. SubSeq(text, i, j) = [k \in 1..(j - i) + 1 |-> text[(k + i) - 1]]
      BY <1>2, <2>2
    <3> HIDE DEF i, j
    <3> QED
      BY <3>1, <3>2, <3>3, <3>4
  <2>5. SubSeq(text, i, j) \in Tokens(text)
    BY <2>1, TokensAreRuns DEF W
  <2>6. SubSeq(text, i, j) \notin Tokens(removal)
    <3>1. i \in i..j
      BY <2>2
    <3>2. ~Gone(i, j)
      BY <1>3, <2>2, <3>1
    <3> QED
      BY <2>1, <3>2 DEF Gone
  <2> QED
    BY <2>4, <2>5, <2>6
<1>12. ASSUME NEW t \in Tokens(out)
       PROVE  t \in Tokens(text) \ Tokens(removal)
  <2>1. out \in Seq(Fragments)
    BY <1>5
  <2>2. PICK a, b : IsRun(InTokens(out), a, b) /\ t = SubSeq(out, a, b)
    BY <2>1, TokensAreRuns
  <2> QED
    BY <1>11, <2>2
<1> QED
  BY <1>1, <1>5, <1>12
-----------------------------------------------------------------------------
(* Folds of sequences.                                                     *)

(* The greatest of a set of numbers.                                       *)
LEMMA MaxIs ==
  ASSUME NEW t \in SUBSET Nat, NEW m \in t, \A j \in t : j <= m
  PROVE  Max(t) = m
<1>1. m \in t /\ \A j \in t : m >= j
  OBVIOUS
<1>2. Max(t) \in t /\ \A j \in t : Max(t) >= j
  BY <1>1, Zenon DEF Max
<1>3. Max(t) \in Nat /\ Max(t) <= m /\ Max(t) >= m
  BY <1>2
<1> QED
  BY <1>3

(* A set of positions that is not empty has a greatest one.                *)
LEMMA MaxIn ==
  ASSUME NEW n \in Nat, NEW t \in SUBSET (1..n), t # {}
  PROVE  Max(t) \in t
<1> DEFINE M == {k \in Nat : \A s \in SUBSET (1..n) : s \subseteq 1..k /\ s # {} => Max(s) \in s}
<1>1. 0 \in M
  <2>1. \A s : s \subseteq 1..0 => s = {}
    OBVIOUS
  <2> QED
    BY <2>1
<1>2. ASSUME NEW k \in Nat, k \in M
      PROVE  k + 1 \in M
  <2> SUFFICES ASSUME NEW s \in SUBSET (1..n), s \subseteq 1..(k + 1), s # {}
               PROVE  Max(s) \in s
    OBVIOUS
  <2>1. CASE k + 1 \in s
    <3>1. s \in SUBSET Nat /\ \A j \in s : j <= k + 1
      OBVIOUS
    <3> QED
      BY <2>1, <3>1, MaxIs
  <2>2. CASE k + 1 \notin s
    <3>1. s \subseteq 1..k
      BY <2>2
    <3> QED
      BY <1>2, <3>1
  <2> QED
    BY <2>1, <2>2
<1>3. \A k \in Nat : k \in M
  <2> HIDE DEF M
  <2> QED
    BY <1>1, <1>2, Inductive
<1>4. n \in M
  BY <1>3
<1> QED
  BY <1>4

(* Sets of positions are reached by adding a new last one.                 *)
LEMMA SetInduction ==
  ASSUME NEW n \in Nat, NEW M, {} \in M,
         \A t \in SUBSET (1..n) : t # {} /\ t \ {Max(t)} \in M => t \in M
  PROVE  \A t \in SUBSET (1..n) : t \in M
<1> DEFINE Upto == {k \in Nat : \A t \in SUBSET (1..n) : t \subseteq 1..k => t \in M}
<1>1. 0 \in Upto
  <2>1. \A t : t \subseteq 1..0 => t = {}
    OBVIOUS
  <2> QED
    BY <2>1
<1>2. ASSUME NEW k \in Nat, k \in Upto
      PROVE  k + 1 \in Upto
  <2> SUFFICES ASSUME NEW t \in SUBSET (1..n), t \subseteq 1..(k + 1)
               PROVE  t \in M
    OBVIOUS
  <2>1. CASE k + 1 \in t
    <3>1. t \in SUBSET Nat /\ \A j \in t : j <= k + 1
      OBVIOUS
    <3>2. Max(t) = k + 1
      BY <2>1, <3>1, MaxIs
    <3>3. t \ {k + 1} \subseteq 1..k
      BY <3>1
    <3>4. t \ {k + 1} \in M
      BY <1>2, <3>3
    <3> QED
      BY <2>1, <3>2, <3>4
  <2>2. CASE k + 1 \notin t
    <3>1. t \subseteq 1..k
      BY <2>2
    <3> QED
      BY <1>2, <3>1
  <2> QED
    BY <2>1, <2>2
<1>3. \A k \in Nat : k \in Upto
  <2> HIDE DEF Upto
  <2> QED
    BY <1>1, <1>2, Inductive
<1>4. n \in Upto
  BY <1>3
<1> QED
  BY <1>4

(* g folds a step on the set A over the first n positions.                 *)
FoldsStep(g, A, v, step, n) ==
  /\ g \in [SUBSET (1..n) -> A]
  /\ \A t \in SUBSET (1..n) :
       g[t] = IF t = {} THEN v ELSE step[<<g[t \ {Max(t)}], Max(t)>>]

(* A typed step can be folded over any number of positions.                *)
LEMMA FoldExists ==
  ASSUME NEW A, NEW v \in A, NEW n \in Nat, NEW step \in [A \X (1..n) -> A]
  PROVE  \E g : FoldsStep(g, A, v, step, n)
<1> DEFINE Folds(g, k) == FoldsStep(g, A, v, step, k)
           M == {k \in Nat : k <= n => \E g : Folds(g, k)}
<1> USE DEF FoldsStep
<1>1. 0 \in M
  <2> DEFINE g == [t \in SUBSET (1..0) |-> v]
  <2>1. \A t \in SUBSET (1..0) : t = {}
    OBVIOUS
  <2>2. Folds(g, 0)
    BY <2>1
  <2> QED
    BY <2>2
<1> HIDE DEF Folds
<1>2. ASSUME NEW k \in Nat, k \in M
      PROVE  k + 1 \in M
  <2> SUFFICES ASSUME k + 1 <= n
               PROVE  \E g : Folds(g, k + 1)
    OBVIOUS
  <2>1. k <= n /\ k + 1 \in 1..n
    OBVIOUS
  <2>2. PICK g : Folds(g, k)
    BY <1>2, <2>1
  <2> DEFINE h == [t \in SUBSET (1..(k + 1)) |->
                     IF k + 1 \in t THEN step[<<g[t \ {k + 1}], k + 1>>] ELSE g[t]]
  <2>3. ASSUME NEW t \in SUBSET (1..(k + 1)), k + 1 \in t
        PROVE  /\ t \ {k + 1} \in SUBSET (1..k) /\ k + 1 \notin t \ {k + 1}
               /\ Max(t) = k + 1
    <3>1. t \in SUBSET Nat /\ \A j \in t : j <= k + 1
      OBVIOUS
    <3>2. Max(t) = k + 1
      BY <2>3, <3>1, MaxIs
    <3> QED
      BY <3>1, <3>2
  <2>4. ASSUME NEW t \in SUBSET (1..(k + 1)), k + 1 \notin t
        PROVE  t \in SUBSET (1..k)
    BY <2>4
  <2>5. \A t \in SUBSET (1..k) :
          t \in SUBSET (1..(k + 1)) /\ k + 1 \notin t /\ t \ {Max(t)} \in SUBSET (1..k)
    <3>1. k + 1 \notin 1..k /\ 1..k \subseteq 1..(k + 1)
      OBVIOUS
    <3> QED
      BY <3>1
  <2>6. \A t \in SUBSET (1..(k + 1)) : h[t] \in A
    <3>1. ASSUME NEW t \in SUBSET (1..(k + 1)), k + 1 \in t
          PROVE  h[t] \in A
      <4>1. g[t \ {k + 1}] \in A
        BY <2>2, <2>3, <3>1 DEF Folds
      <4>2. <<g[t \ {k + 1}], k + 1>> \in A \X (1..n)
        BY <2>1, <4>1
      <4>3. h[t] = step[<<g[t \ {k + 1}], k + 1>>]
        BY <3>1
      <4> HIDE DEF h
      <4> QED
        BY <4>2, <4>3
    <3>2. ASSUME NEW t \in SUBSET (1..(k + 1)), k + 1 \notin t
          PROVE  h[t] \in A
      <4>1. h[t] = g[t]
        BY <3>2
      <4> HIDE DEF h
      <4> QED
        BY <2>2, <2>4, <3>2, <4>1 DEF Folds
    <3> QED
      BY <3>1, <3>2
  <2>7. \A t \in SUBSET (1..k) : h[t] = g[t]
    BY <2>5
  <2>8. ASSUME NEW t \in SUBSET (1..(k + 1))
        PROVE  h[t] = IF t = {} THEN v ELSE step[<<h[t \ {Max(t)}], Max(t)>>]
    <3>1. CASE k + 1 \in t
      <4>1. h[t] = step[<<g[t \ {k + 1}], k + 1>>] /\ t # {}
        BY <3>1
      <4>2. h[t \ {k + 1}] = g[t \ {k + 1}] /\ Max(t) = k + 1
        BY <2>3, <2>7, <3>1
      <4> HIDE DEF h
      <4> QED
        BY <4>1, <4>2
    <3>2. CASE k + 1 \notin t
      <4>1. t \in SUBSET (1..k) /\ t \ {Max(t)} \in SUBSET (1..k)
        BY <2>4, <2>5, <3>2
      <4>2. h[t] = g[t] /\ h[t \ {Max(t)}] = g[t \ {Max(t)}]
        BY <2>7, <4>1
      <4> HIDE DEF h
      <4> QED
        BY <2>2, <4>1, <4>2 DEF Folds
    <3> QED
      BY <3>1, <3>2
  <2>9. Folds(h, k + 1)
    <3>1. h \in [SUBSET (1..(k + 1)) -> A]
      <4>1. DOMAIN h = SUBSET (1..(k + 1)) /\ h = [t \in SUBSET (1..(k + 1)) |-> h[t]]
        OBVIOUS
      <4> HIDE DEF h
      <4> QED
        BY <2>6, <4>1
    <3> HIDE DEF h
    <3> QED
      BY <2>8, <3>1 DEF Folds
  <2> HIDE DEF h
  <2> QED
    BY <2>9
<1>3. \A k \in Nat : k \in M
  <2> HIDE DEF M
  <2> QED
    BY <1>1, <1>2, Inductive
<1>4. \E g : Folds(g, n)
  BY <1>3
<1> QED
  BY <1>4 DEF Folds

(* The empty text is one.                                                  *)
LEMMA NoneTyped ==
  ASSUME NEW T
  PROVE  <<>> \in Seq(T)
OBVIOUS

(* One fragment is a text.                                                 *)
LEMMA OneTyped ==
  ASSUME NEW T, NEW x \in T
  PROVE  <<x>> \in Seq(T)
OBVIOUS

(* g joins the first k of the texts s, one after the other.                *)
JoinsTexts(g, s, T, k) ==
  /\ g \in [1..k -> Seq(T)]
  /\ \A i \in 1..k : g[i] = IF i = 1 THEN s[i] ELSE g[i - 1] \o s[i]

(* FlattenSeq joins them all.                                              *)
LEMMA FlattenJoins ==
  ASSUME NEW T, NEW s \in Seq(Seq(T)), s # <<>>
  PROVE  /\ Len(s) \in Nat /\ Len(s) \in 1..Len(s) /\ \A i \in 1..Len(s) : s[i] \in Seq(T)
         /\ \E g : JoinsTexts(g, s, T, Len(s)) /\ FlattenSeq(s) = g[Len(s)]
<1> DEFINE n == Len(s)
           Joins(g, k) == JoinsTexts(g, s, T, k)
           M == {k \in Nat : k <= n => \E g : Joins(g, k)}
           is(f) == f = [i \in 1..n |-> IF i = 1 THEN s[i] ELSE f[i - 1] \o s[i]]
<1>1. n \in Nat /\ \A i \in 1..n : s[i] \in Seq(T)
  OBVIOUS
<1>2. n # 0
  OBVIOUS
<1>3. 0 \in M
  <2>1. Joins(<<>>, 0)
    BY DEF JoinsTexts
  <2> QED
    BY <2>1
<1> HIDE DEF Joins, n
<1>4. ASSUME NEW k \in Nat, k \in M
      PROVE  k + 1 \in M
  <2> SUFFICES ASSUME k + 1 <= n
               PROVE  \E g : Joins(g, k + 1)
    OBVIOUS
  <2>1. PICK g : Joins(g, k)
    BY <1>1, <1>4
  <2> DEFINE h == [i \in 1..(k + 1) |->
                     IF i = k + 1 THEN IF i = 1 THEN s[i] ELSE g[i - 1] \o s[i] ELSE g[i]]
  <2>2. \A i \in 1..k : h[i] = g[i] /\ g[i] \in Seq(T)
    <3>1. \A i \in 1..k : i \in 1..(k + 1) /\ i # k + 1
      OBVIOUS
    <3>2. \A i \in 1..k : g[i] \in Seq(T)
      BY <2>1 DEF Joins, JoinsTexts
    <3> QED
      BY <3>1, <3>2
  <2>3. k + 1 \in 1..n
    BY <1>1
  <2>4. h[k + 1] = IF k + 1 = 1 THEN s[k + 1] ELSE h[(k + 1) - 1] \o s[k + 1]
    <3>1. k # 0 => (k + 1) - 1 \in 1..k
      OBVIOUS
    <3> QED
      BY <2>2, <3>1
  <2>5. h[k + 1] \in Seq(T)
    <3>1. k # 0 => (k + 1) - 1 \in 1..k
      OBVIOUS
    <3>2. s[k + 1] \in Seq(T)
      BY <1>1, <2>3
    <3>3. CASE k = 0
      BY <2>4, <3>2, <3>3
    <3>4. CASE k # 0
      <4> HIDE DEF h
      <4>1. h[(k + 1) - 1] \in Seq(T) /\ k + 1 # 1
        BY <2>2, <3>1, <3>4
      <4> QED
        BY <2>4, <3>2, <4>1
    <3> QED
      BY <3>3, <3>4
  <2>6. h \in [1..(k + 1) -> Seq(T)]
    <3>1. \A i \in 1..(k + 1) : h[i] \in Seq(T)
      <4>1. \A i \in 1..(k + 1) : i = k + 1 \/ i \in 1..k
        OBVIOUS
      <4> HIDE DEF h
      <4> QED
        BY <2>2, <2>5, <4>1
    <3>2. h = [i \in 1..(k + 1) |-> h[i]]
      OBVIOUS
    <3> HIDE DEF h
    <3> QED
      BY <3>1, <3>2
  <2>7. \A i \in 1..k : h[i] = IF i = 1 THEN s[i] ELSE h[i - 1] \o s[i]
    <3>1. \A i \in 1..k : i # 1 => i - 1 \in 1..k
      OBVIOUS
    <3> HIDE DEF h
    <3> QED
      BY <2>1, <2>2, <3>1 DEF Joins, JoinsTexts
  <2>8. Joins(h, k + 1)
    <3>1. \A i \in 1..(k + 1) : i = k + 1 \/ i \in 1..k
      OBVIOUS
    <3> HIDE DEF h
    <3> QED
      BY <2>4, <2>6, <2>7, <3>1 DEF Joins, JoinsTexts
  <2> HIDE DEF h
  <2> QED
    BY <2>8
<1>5. \A k \in Nat : k \in M
  <2> HIDE DEF M
  <2> QED
    BY <1>3, <1>4, Inductive
<1>6. PICK g : Joins(g, n)
  <2>1. n \in M /\ n <= n
    <3> HIDE DEF M
    <3> QED
      BY <1>1, <1>5
  <2> QED
    BY <2>1
<1>7. is(g)
  BY <1>6 DEF Joins, JoinsTexts
<1> DEFINE f == CHOOSE f : is(f)
<1>8. is(f)
  <2> HIDE DEF is
  <2> QED
    BY <1>7
<1>9. FlattenSeq(s) = f[n]
  BY <1>2 DEF FlattenSeq, n
<1> HIDE DEF f
<1> DEFINE L == {k \in Nat : k \in 1..n => f[k] \in Seq(T)}
<1>10. 0 \in L
  OBVIOUS
<1>11. ASSUME NEW k \in Nat, k \in L
      PROVE  k + 1 \in L
  <2> SUFFICES ASSUME k + 1 \in 1..n
               PROVE  f[k + 1] \in Seq(T)
    OBVIOUS
  <2>1. f[k + 1] = IF k + 1 = 1 THEN s[k + 1] ELSE f[(k + 1) - 1] \o s[k + 1]
    BY <1>8
  <2>2. k # 0 => (k + 1) - 1 \in 1..n /\ (k + 1) - 1 = k
    BY <1>1
  <2> HIDE DEF is
  <2> QED
    BY <1>1, <1>11, <2>1, <2>2
<1>12. \A k \in Nat : k \in L
  <2> HIDE DEF L
  <2> QED
    BY <1>10, <1>11, Inductive
<1>13. n \in 1..n
  BY <1>1, <1>2
<1>14. Joins(f, n)
  <2>1. \A k \in 1..n : f[k] \in Seq(T)
    BY <1>12
  <2>2. f = [k \in 1..n |-> f[k]]
    BY <1>8
  <2>3. \A i \in 1..n : f[i] = IF i = 1 THEN s[i] ELSE f[i - 1] \o s[i]
    BY <1>8
  <2> HIDE DEF is
  <2> QED
    BY <2>1, <2>2, <2>3 DEF Joins, JoinsTexts
<1> QED
  BY <1>1, <1>9, <1>13, <1>14 DEF Joins, n

(* Texts in a row are a text.                                              *)
LEMMA FlattenTyped ==
  ASSUME NEW T, NEW s \in Seq(Seq(T))
  PROVE  FlattenSeq(s) \in Seq(T)
<1>1. CASE s = <<>>
  BY <1>1 DEF FlattenSeq
<1>2. CASE s # <<>>
  <2>1. PICK g : JoinsTexts(g, s, T, Len(s)) /\ FlattenSeq(s) = g[Len(s)]
    BY <1>2, FlattenJoins
  <2>2. Len(s) \in 1..Len(s)
    BY <1>2, FlattenJoins
  <2> QED
    BY <2>1, <2>2 DEF JoinsTexts
<1> QED
  BY <1>1, <1>2

(* The fragment x is in the text u.                                        *)
Has(u, x) == \E l \in DOMAIN u : u[l] = x

(* Two texts in a row have what each of them has.                          *)
LEMMA BothHave ==
  ASSUME NEW T, NEW u \in Seq(T), NEW v \in Seq(T), NEW x, Has(u, x) \/ Has(v, x)
  PROVE  Has(u \o v, x)
<1>1. CASE Has(u, x)
  <2>1. PICK l \in 1..Len(u) : u[l] = x
    BY <1>1 DEF Has
  <2>2. l \in 1..Len(u \o v) /\ (u \o v)[l] = x
    BY <2>1
  <2> QED
    BY <2>2 DEF Has
<1>2. CASE Has(v, x)
  <2>1. PICK l \in 1..Len(v) : v[l] = x
    BY <1>2 DEF Has
  <2>2. Len(u) + l \in 1..Len(u \o v) /\ (u \o v)[Len(u) + l] = x
    BY <2>1
  <2> QED
    BY <2>2 DEF Has
<1> QED
  BY <1>1, <1>2

(* So have any number of them.                                             *)
LEMMA FlattenHas ==
  ASSUME NEW T, NEW s \in Seq(Seq(T)), NEW i \in DOMAIN s, NEW x, Has(s[i], x)
  PROVE  Has(FlattenSeq(s), x)
<1> DEFINE n == Len(s)
<1>1. s # <<>> /\ n \in Nat /\ i \in 1..n
  OBVIOUS
<1>2. PICK g : JoinsTexts(g, s, T, n) /\ FlattenSeq(s) = g[n]
  BY <1>1, FlattenJoins
<1>3. \A k \in 1..n : s[k] \in Seq(T)
  OBVIOUS
<1> HIDE DEF n
<1> DEFINE M == {k \in Nat : k \in i..n => Has(g[k], x)}
<1>4. 0 \in M
  BY <1>1
<1>5. ASSUME NEW k \in Nat, k \in M
      PROVE  k + 1 \in M
  <2> SUFFICES ASSUME k + 1 \in i..n
               PROVE  Has(g[k + 1], x)
    OBVIOUS
  <2>1. k + 1 \in 1..n /\ s[k + 1] \in Seq(T)
    BY <1>1, <1>3
  <2>2. CASE k = 0
    <3>1. i = 1 /\ 1 \in 1..n /\ k + 1 = 1
      BY <1>1, <2>1, <2>2
    <3>2. g[1] = s[1]
      BY <1>2, <3>1 DEF JoinsTexts
    <3> QED
      BY <3>1, <3>2
  <2>3. CASE k # 0
    <3>1. k \in 1..n /\ (k + 1) - 1 = k /\ k + 1 # 1
      BY <1>1, <2>1, <2>3
    <3>2. g[k] \in Seq(T) /\ g[k + 1] = g[k] \o s[k + 1]
      <4>1. g[k] \in Seq(T)
        BY <1>2, <3>1 DEF JoinsTexts
      <4>2. g[k + 1] = IF k + 1 = 1 THEN s[k + 1] ELSE g[(k + 1) - 1] \o s[k + 1]
        BY <1>2, <2>1 DEF JoinsTexts
      <4> QED
        BY <3>1, <4>1, <4>2
    <3>3. Has(g[k], x) \/ Has(s[k + 1], x)
      <4>1. CASE k + 1 = i
        BY <4>1
      <4>2. CASE k + 1 # i
        <5>1. k \in i..n
          BY <1>1, <2>1, <4>2
        <5> QED
          BY <1>5, <5>1
      <4> QED
        BY <4>1, <4>2
    <3> QED
      BY <2>1, <3>2, <3>3, BothHave
  <2> QED
    BY <2>2, <2>3
<1>6. \A k \in Nat : k \in M
  <2> HIDE DEF M
  <2> QED
    BY <1>4, <1>5, Inductive
<1>7. n \in Nat /\ n \in i..n
  BY <1>1
<1> QED
  BY <1>2, <1>6, <1>7

-----------------------------------------------------------------------------
(* Texts.                                                                  *)
TextsIn(env) == \A x \in DOMAIN env : env[x] \in Seq(Fragments)

(* An expanded text is a text.                                             *)
LEMMA ExpandTyped ==
  ASSUME NEW text \in Seq(Fragments), NEW env, TextsIn(env)
  PROVE  Expand(text, env) \in Seq(Fragments)
<1> DEFINE each(i) == IF text[i] \in Refs /\ ~IsUnresolved(text[i], env)
                      THEN env[<<RefTo[text[i]]>>] ELSE <<text[i]>>
           s == [i \in DOMAIN text |-> each(i)]
<1>1. \A i \in DOMAIN text : each(i) \in Seq(Fragments)
  <2> SUFFICES ASSUME NEW i \in DOMAIN text
               PROVE  each(i) \in Seq(Fragments)
    OBVIOUS
  <2>1. text[i] \in Fragments
    OBVIOUS
  <2>2. CASE text[i] \in Refs /\ ~IsUnresolved(text[i], env)
    BY <2>2 DEF IsUnresolved, TextsIn
  <2>3. CASE ~(text[i] \in Refs /\ ~IsUnresolved(text[i], env))
    BY <2>1, <2>3, OneTyped
  <2> QED
    BY <2>2, <2>3
<1>2. s \in Seq(Seq(Fragments))
  <2> HIDE DEF each
  <2>1. DOMAIN text = 1..Len(text) /\ Len(text) \in Nat
    OBVIOUS
  <2>2. s \in [1..Len(text) -> Seq(Fragments)]
    BY <1>1, <2>1
  <2> HIDE DEF s
  <2> QED
    BY <2>1, <2>2
<1>3. Expand(text, env) = FlattenSeq(s)
  BY DEF Expand
<1> HIDE DEF s
<1> QED
  BY <1>2, <1>3, FlattenTyped

(* A sequence has its elements at the numbers up to its length.            *)
LEMMA SequenceIs ==
  ASSUME NEW T, NEW s \in Seq(T)
  PROVE  Len(s) \in Nat /\ DOMAIN s = 1..Len(s) /\ \A k \in DOMAIN s : s[k] \in T
OBVIOUS

(* A text after another one is a text.                                     *)
LEMMA ConcatTyped ==
  ASSUME NEW T, NEW v \in Seq(T), NEW w \in Seq(T)
  PROVE  v \o w \in Seq(T)
OBVIOUS

(* Every assignment operator gives a text.                                 *)
LEMMA ApplyTyped ==
  ASSUME NEW T, " " \in T, NEW v \in Seq(T), NEW w \in Seq(T), NEW o \in Operators
  PROVE  Apply(v, o, w) \in Seq(T)
<1> DEFINE space == <<" ">>
<1>1. space \in Seq(T)
  BY OneTyped
<1> HIDE DEF space
<1>2. v \o space \in Seq(T) /\ w \o space \in Seq(T)
  BY <1>1, ConcatTyped
<1>3. (v \o space) \o w \in Seq(T) /\ (w \o space) \o v \in Seq(T)
  BY <1>2, ConcatTyped
<1>4. v \o w \in Seq(T) /\ w \o v \in Seq(T)
  BY ConcatTyped
<1>5. Spaced(v, w) \in Seq(T) /\ Spaced(w, v) \in Seq(T)
  BY <1>3, <1>4 DEF Spaced, space
<1> HIDE DEF Spaced
<1> QED
  BY <1>4, <1>5 DEF Apply, Operators

(* The assignments of a file have operators and texts.                     *)
LEMMA FileTyped ==
  ASSUME NEW f \in Seq(Pool), NEW i \in DOMAIN f
  PROVE  f[i].operator \in Operators /\ f[i].value \in Seq(Fragments)
<1>1. f[i] \in Pool
  OBVIOUS
<1>2. f[i].operator \in Operators /\ f[i].value \in Seq(STRING)
  BY <1>1, PoolAssumption
<1>3. f[i].value \in Seq(Fragments)
  <2> DEFINE v == f[i].value
  <2>1. v \in Seq(STRING)
    BY <1>2
  <2> HIDE DEF v
  <2>2. v \in [1..Len(v) -> STRING] /\ Len(v) \in Nat
    BY <2>1
  <2>3. v \in [1..Len(v) -> Fragments]
    BY <2>2 DEF Fragments
  <2>4. v \in Seq(Fragments)
    BY <2>2, <2>3
  <2> QED
    BY <2>4 DEF v
<1> QED
  BY <1>2, <1>3

(* Assignments, one after the other, give a text.                          *)
LEMMA AssignedTyped ==
  ASSUME NEW T, " " \in T, NEW f \in Seq(Pool), NEW S \in SUBSET (DOMAIN f),
         NEW texts \in [S -> Seq(T)], NEW order \in Seq(S)
  PROVE  Assigned(f, texts, order) \in Seq(T)
<1> DEFINE A == Seq(T)
           n == Len(order)
           do(v, k) == Apply(v, f[order[k]].operator, texts[order[k]])
           step == [x \in A \X (1..n) |-> do(x[1], x[2])]
           is(g) == g = [t \in SUBSET DOMAIN order |->
                          IF t = {} THEN <<>> ELSE do(g[t \ {Max(t)}], Max(t))]
<1>1. n \in Nat /\ DOMAIN order = 1..n /\ <<>> \in A
  <2>1. n \in Nat /\ DOMAIN order = 1..n
    BY SequenceIs
  <2>2. <<>> \in A
    BY NoneTyped
  <2> QED
    BY <2>1, <2>2
<1>2. ASSUME NEW v \in A, NEW k \in 1..n
      PROVE  do(v, k) \in A
  <2>1. order[k] \in S /\ order[k] \in DOMAIN f
    BY <1>1, SequenceIs
  <2>2. f[order[k]].operator \in Operators /\ texts[order[k]] \in Seq(T)
    BY <2>1, FileTyped
  <2> QED
    BY <2>2, ApplyTyped
<1>3. Assigned(f, texts, order) = (CHOOSE g : is(g))[DOMAIN order]
  BY DEF Assigned, FoldLeft, MapThenFoldSet
<1> HIDE DEF A, n, do
<1>4. step \in [A \X (1..n) -> A] /\ \A v \in A, k \in 1..n : step[<<v, k>>] = do(v, k)
  BY <1>2
<1> HIDE DEF step
<1>5. PICK g : FoldsStep(g, A, <<>>, step, n)
  BY <1>1, <1>4, FoldExists
<1>6. \A t \in SUBSET (1..n) : t # {} => Max(t) \in 1..n
  BY <1>1, MaxIn
<1>7. is(g)
  <2>1. ASSUME NEW t \in SUBSET (1..n)
        PROVE  g[t] = IF t = {} THEN <<>> ELSE do(g[t \ {Max(t)}], Max(t))
    <3>1. t # {} => step[<<g[t \ {Max(t)}], Max(t)>>] = do(g[t \ {Max(t)}], Max(t))
      <4>1. t \ {Max(t)} \in SUBSET (1..n)
        OBVIOUS
      <4> QED
        BY <1>4, <1>5, <1>6, <4>1 DEF FoldsStep
    <3> QED
      BY <1>5, <3>1 DEF FoldsStep
  <2>2. g = [t \in SUBSET (1..n) |-> g[t]]
    BY <1>5 DEF FoldsStep
  <2>3. g = [t \in SUBSET (1..n) |-> IF t = {} THEN <<>> ELSE do(g[t \ {Max(t)}], Max(t))]
    BY <2>1, <2>2
  <2> QED
    BY <1>1, <2>3
<1> DEFINE h == CHOOSE g_1 : is(g_1)
<1>8. is(h)
  <2> HIDE DEF is
  <2> QED
    BY <1>7
<1> HIDE DEF h
<1> DEFINE M == {t \in SUBSET (1..n) : h[t] \in A}
<1>9. {} \in M
  BY <1>1, <1>8
<1>10. ASSUME NEW t \in SUBSET (1..n), t # {}, t \ {Max(t)} \in M
       PROVE  t \in M
  <2>1. h[t] = do(h[t \ {Max(t)}], Max(t))
    BY <1>1, <1>8, <1>10
  <2>2. h[t \ {Max(t)}] \in A
    BY <1>10
  <2> HIDE DEF is
  <2> QED
    BY <1>2, <1>6, <1>10, <2>1, <2>2
<1>11. \A t \in SUBSET (1..n) : t \in M
  <2> HIDE DEF M
  <2> QED
    BY <1>1, <1>9, <1>10, SetInduction
<1> QED
  BY <1>1, <1>3, <1>11 DEF h, A

(* A function on the first n numbers is a sequence.                        *)
LEMMA IsSequence ==
  ASSUME NEW T, NEW n \in Nat, NEW s \in [1..n -> T]
  PROVE  s \in Seq(T) /\ Len(s) = n /\ DOMAIN s = 1..n
OBVIOUS

(* Sorted lists the members of a finite set.                               *)
LEMMA SortedTyped ==
  ASSUME NEW S, S \subseteq Nat, IsFiniteSet(S)
  PROVE  /\ Sorted(S) \in Seq(S)
         /\ \A i \in S : \E k \in DOMAIN Sorted(S) : Sorted(S)[k] = i
<1>1. /\ Cardinality(S) \in Nat /\ Sorted(S) \in [1..Cardinality(S) -> S]
      /\ \A i \in S : \E k \in 1..Cardinality(S) : Sorted(S)[k] = i
  BY SortedLists
<1> QED
  BY <1>1

(* No removal leaves a token that an earlier one took.                     *)
LEMMA WithoutFold ==
  ASSUME NEW v \in Seq(Fragments), NEW removals \in Seq(Seq(Fragments))
  PROVE  /\ FoldLeft(Without, v, removals) \in Seq(Fragments)
         /\ \A k \in DOMAIN removals :
              Tokens(removals[k]) \cap Tokens(FoldLeft(Without, v, removals)) = {}
<1> DEFINE A == Seq(Fragments)
           n == Len(removals)
           do(w, k) == Without(w, removals[k])
           step == [x \in A \X (1..n) |-> do(x[1], x[2])]
           is(g) == g = [t \in SUBSET DOMAIN removals |->
                          IF t = {} THEN v ELSE do(g[t \ {Max(t)}], Max(t))]
<1>1. n \in Nat /\ DOMAIN removals = 1..n /\ v \in A
  OBVIOUS
<1>2. ASSUME NEW w \in A, NEW k \in 1..n
      PROVE  /\ do(w, k) \in A
             /\ Tokens(do(w, k)) \subseteq Tokens(w) \ Tokens(removals[k])
  BY WithoutTokens
<1>3. FoldLeft(Without, v, removals) = (CHOOSE g : is(g))[DOMAIN removals]
  BY DEF FoldLeft, MapThenFoldSet
<1> HIDE DEF A, n, do
<1>4. step \in [A \X (1..n) -> A] /\ \A w \in A, k \in 1..n : step[<<w, k>>] = do(w, k)
  BY <1>2
<1> HIDE DEF step
<1>5. PICK g : FoldsStep(g, A, v, step, n)
  BY <1>1, <1>4, FoldExists
<1>6. \A t \in SUBSET (1..n) : t # {} => Max(t) \in 1..n /\ Max(t) \in t
  BY <1>1, MaxIn
<1>7. is(g)
  <2>1. ASSUME NEW t \in SUBSET (1..n)
        PROVE  g[t] = IF t = {} THEN v ELSE do(g[t \ {Max(t)}], Max(t))
    <3>1. t # {} => step[<<g[t \ {Max(t)}], Max(t)>>] = do(g[t \ {Max(t)}], Max(t))
      <4>1. t \ {Max(t)} \in SUBSET (1..n)
        OBVIOUS
      <4> QED
        BY <1>4, <1>5, <1>6, <4>1 DEF FoldsStep
    <3> QED
      BY <1>5, <3>1 DEF FoldsStep
  <2>2. g = [t \in SUBSET (1..n) |-> g[t]]
    BY <1>5 DEF FoldsStep
  <2>3. g = [t \in SUBSET (1..n) |-> IF t = {} THEN v ELSE do(g[t \ {Max(t)}], Max(t))]
    BY <2>1, <2>2
  <2> QED
    BY <1>1, <2>3
<1> DEFINE h == CHOOSE g_1 : is(g_1)
<1>8. is(h)
  <2> HIDE DEF is
  <2> QED
    BY <1>7
<1> HIDE DEF h
<1> DEFINE Good(w, t) == w \in A /\ \A k \in t : Tokens(removals[k]) \cap Tokens(w) = {}
           M == {t \in SUBSET (1..n) : Good(h[t], t)}
<1>9. {} \in M
  <2>1. h[{}] = v
    BY <1>1, <1>8
  <2> QED
    BY <1>1, <2>1
<1>10. ASSUME NEW t \in SUBSET (1..n), t # {}, t \ {Max(t)} \in M
       PROVE  t \in M
  <2> DEFINE m == Max(t)
             w == h[t \ {m}]
  <2>1. h[t] = do(w, m)
    BY <1>1, <1>8, <1>10
  <2>2. Good(w, t \ {m})
    BY <1>10
  <2>3. m \in 1..n /\ m \in t
    BY <1>6, <1>10
  <2> HIDE DEF is, m, w, M
  <2>4. do(w, m) \in A /\ Tokens(do(w, m)) \subseteq Tokens(w) \ Tokens(removals[m])
    BY <1>2, <2>2, <2>3
  <2>5. ASSUME NEW k \in t
        PROVE  Tokens(removals[k]) \cap Tokens(do(w, m)) = {}
    <3>1. CASE k = m
      BY <2>4, <3>1
    <3>2. CASE k # m
      BY <2>2, <2>4, <3>2
    <3> QED
      BY <3>1, <3>2
  <2> QED
    BY <2>1, <2>4, <2>5 DEF M
<1>11. \A t \in SUBSET (1..n) : t \in M
  <2> HIDE DEF M
  <2> QED
    BY <1>1, <1>9, <1>10, SetInduction
<1>12. Good(h[1..n], 1..n)
  BY <1>11
<1> QED
  BY <1>1, <1>3, <1>12 DEF h, A

(* Each assignment of an operation has its text among these.               *)
TextOfEach(texts, f, env, order, op) ==
  \A k \in DOMAIN order :
    op \in ToSet(f[order[k]].parts) =>
      \E l \in DOMAIN texts : texts[l] = Expand(f[order[k]].value, env)

(* The texts of an operation, that of each of its assignments among them.  *)
LEMMA TextsOfTyped ==
  ASSUME NEW f \in Seq(Pool), NEW env, TextsIn(env), NEW order \in Seq(DOMAIN f), NEW op
  PROVE  /\ TextsOf(f, env, order, op) \in Seq(Seq(Fragments))
         /\ TextOfEach(TextsOf(f, env, order, op), f, env, order, op)
<1> DEFINE mine == {k \in DOMAIN order : op \in ToSet(f[order[k]].parts)}
           s == At(order, mine)
           m == Cardinality(mine)
           texts == TextsOf(f, env, order, op)
<1>1. /\ mine \in SUBSET Nat /\ IsFiniteSet(mine) /\ m \in Nat
      /\ s \in Seq(DOMAIN f) /\ Len(s) = m
      /\ \A k \in 1..m : s[k] = order[Sorted(mine)[k]]
  <2>1. mine \in SUBSET (DOMAIN order)
    OBVIOUS
  <2> HIDE DEF mine
  <2> QED
    BY <2>1, AtLists
<1>2. \A i \in mine : \E k \in 1..m : Sorted(mine)[k] = i
  BY <1>1, SortedLists
<1>3. texts = [k \in DOMAIN s |-> Expand(f[s[k]].value, env)]
  BY DEF TextsOf
<1> HIDE DEF s, texts
<1>4. DOMAIN s = 1..m
  BY <1>1
<1>5. ASSUME NEW k \in 1..m
      PROVE  Expand(f[s[k]].value, env) \in Seq(Fragments)
  <2>1. s[k] \in DOMAIN f
    BY <1>1, <1>4
  <2> QED
    BY <2>1, FileTyped, ExpandTyped
<1>6. texts \in [1..m -> Seq(Fragments)]
  BY <1>3, <1>4, <1>5
<1>7. texts \in Seq(Seq(Fragments)) /\ DOMAIN texts = 1..m
  BY <1>1, <1>6, IsSequence
<1>8. ASSUME NEW k \in DOMAIN order, op \in ToSet(f[order[k]].parts)
      PROVE  \E l \in DOMAIN texts : texts[l] = Expand(f[order[k]].value, env)
  <2>1. k \in mine
    BY <1>8
  <2>2. PICK l \in 1..m : Sorted(mine)[l] = k
    BY <1>2, <2>1
  <2>3. s[l] = order[k]
    BY <1>1, <2>2
  <2> QED
    BY <1>3, <1>4, <1>7, <2>3
<1> QED
  BY <1>7, <1>8 DEF texts, TextOfEach

(* The operations give a text without the tokens of the removals.          *)
LEMMA OperatedTyped ==
  ASSUME NEW f \in Seq(Pool), NEW env, TextsIn(env), NEW order \in Seq(DOMAIN f),
         NEW value \in Seq(Fragments)
  PROVE  /\ Operated(f, env, order, value) \in Seq(Fragments)
         /\ \A k \in DOMAIN order :
              "remove" \in ToSet(f[order[k]].parts) =>
                Tokens(Expand(f[order[k]].value, env))
                  \cap Tokens(Operated(f, env, order, value)) = {}
<1> DEFINE first == FlattenSeq(Reverse(TextsOf(f, env, order, "prepend")))
           last == FlattenSeq(TextsOf(f, env, order, "append"))
           gone == TextsOf(f, env, order, "remove")
           whole == first \o value \o last
<1>1. TextsOf(f, env, order, "prepend") \in Seq(Seq(Fragments))
      /\ TextsOf(f, env, order, "append") \in Seq(Seq(Fragments))
  BY TextsOfTyped
<1>2. Reverse(TextsOf(f, env, order, "prepend")) \in Seq(Seq(Fragments))
  <2> DEFINE s == TextsOf(f, env, order, "prepend")
             r == Reverse(s)
  <2>1. s \in Seq(Seq(Fragments))
    BY <1>1
  <2> HIDE DEF s
  <2>2. Len(s) \in Nat /\ \A k \in 1..Len(s) : s[k] \in Seq(Fragments)
    BY <2>1
  <2>3. \A k \in 1..Len(s) : (Len(s) - k) + 1 \in 1..Len(s)
    BY <2>2
  <2>4. r = [k \in 1..Len(s) |-> s[(Len(s) - k) + 1]]
    BY DEF Reverse
  <2> HIDE DEF r
  <2>5. r \in [1..Len(s) -> Seq(Fragments)]
    BY <2>2, <2>3, <2>4
  <2>6. r \in Seq(Seq(Fragments))
    BY <2>2, <2>5, IsSequence
  <2> QED
    BY <2>6 DEF r, s
<1>3. first \in Seq(Fragments) /\ last \in Seq(Fragments)
  BY <1>1, <1>2, FlattenTyped
<1> HIDE DEF first, last
<1>4. whole \in Seq(Fragments)
  BY <1>3
<1>5. gone \in Seq(Seq(Fragments)) /\ TextOfEach(gone, f, env, order, "remove")
  BY TextsOfTyped
<1>6. Operated(f, env, order, value) = FoldLeft(Without, whole, gone)
  BY DEF Operated, first, last
<1> HIDE DEF whole, gone
<1>7. /\ FoldLeft(Without, whole, gone) \in Seq(Fragments)
      /\ \A k \in DOMAIN gone : Tokens(gone[k]) \cap Tokens(FoldLeft(Without, whole, gone)) = {}
  BY <1>4, <1>5, WithoutFold
<1>8. ASSUME NEW k \in DOMAIN order, "remove" \in ToSet(f[order[k]].parts)
      PROVE  Tokens(Expand(f[order[k]].value, env))
               \cap Tokens(FoldLeft(Without, whole, gone)) = {}
  <2>1. PICK l \in DOMAIN gone : gone[l] = Expand(f[order[k]].value, env)
    BY <1>5, <1>8 DEF TextOfEach
  <2> QED
    BY <1>7, <2>1
<1> QED
  BY <1>6, <1>7, <1>8

(* LiteralFirst lists the assignments it is given.                         *)
LEMMA LiteralFirstTyped ==
  ASSUME NEW f \in Seq(Pool), NEW S \in SUBSET (DOMAIN f)
  PROVE  LiteralFirst(f, S) \in Seq(S)
<1> DEFINE expanded == {i \in S : Key(f[i], {}, Nothing).expanded}
           first == Sorted(S \ expanded)
           last == Sorted(expanded)
<1>1. S \in SUBSET Nat /\ IsFiniteSet(S)
  BY AtLists
<1>2. expanded \in SUBSET S
  OBVIOUS
<1> HIDE DEF expanded
<1>3. /\ expanded \subseteq Nat /\ IsFiniteSet(expanded)
      /\ S \ expanded \subseteq Nat /\ IsFiniteSet(S \ expanded)
  BY <1>1, <1>2, FS_Subset
<1>4. first \in Seq(S \ expanded) /\ last \in Seq(expanded)
  BY <1>3, SortedTyped
<1> HIDE DEF first, last
<1>5. first \in Seq(S) /\ last \in Seq(S)
  BY <1>2, <1>4
<1>6. first \o last \in Seq(S)
  BY <1>5
<1> QED
  BY <1>6 DEF LiteralFirst, first, last, expanded

(* What assignments give without operations, in the order of the code.     *)
LEMMA PlainTyped ==
  ASSUME NEW f \in Seq(Pool), NEW env, TextsIn(env), NEW S \in SUBSET (DOMAIN f)
  PROVE  Assigned(f, Texts(f, env, S), LiteralFirst(f, S)) \in Seq(Fragments)
<1>1. \A i \in S : Expand(f[i].value, env) \in Seq(Fragments)
  BY FileTyped, ExpandTyped
<1>2. Texts(f, env, S) \in [S -> Seq(Fragments)]
  BY <1>1 DEF Texts
<1>3. " " \in Fragments
  BY DEF Fragments
<1> QED
  BY <1>2, <1>3, LiteralFirstTyped, AssignedTyped

(* A pass gives every plain variable a text.                               *)
LEMMA NextEnvironmentTyped ==
  ASSUME NEW f \in Seq(Pool), NEW env, TextsIn(env)
  PROVE  TextsIn(NextEnvironment(f, env))
<1> DEFINE plain == {i \in DOMAIN f : IsPlain(f, env, i)}
           mine(x) == {i \in plain : BaseIn(f, env, i) = x}
           value(x) == Assigned(f, Texts(f, env, mine(x)), LiteralFirst(f, mine(x)))
           bases == {BaseIn(f, env, i) : i \in plain}
<1>1. ASSUME NEW x
      PROVE  value(x) \in Seq(Fragments)
  <2>1. mine(x) \in SUBSET (DOMAIN f)
    OBVIOUS
  <2> HIDE DEF mine
  <2> QED
    BY <2>1, PlainTyped
<1>2. NextEnvironment(f, env) = [x \in bases |-> value(x)]
  BY DEF NextEnvironment
<1> HIDE DEF value, bases
<1> QED
  BY <1>1, <1>2 DEF TextsIn

(* Whichever variant wins, the direct value is a text.                     *)
LEMMA DirectTyped ==
  ASSUME NEW f \in Seq(Pool), NEW env, TextsIn(env), NEW act, NEW mine \in SUBSET (DOMAIN f)
  PROVE  Direct(f, act, env, mine) \in Seq(Fragments)
<1> DEFINE key(i)   == KeyOf(f, act, env, i)
           base     == {i \in mine : key(i).operation = "none" /\ key(i).overrides = <<>>}
           variants == {i \in mine : /\ key(i).overrides # <<>>
                                     /\ key(i).operation = "none" \/ key(i).selected}
           named(o) == {i \in variants : key(i).overrides = o}
           sets(o)  == {i \in named(o) : key(i).operation = "none"}
           candidates == {[overrides |-> o, sequence |-> Latest(named(o))] :
                            o \in {key(i).overrides : i \in variants}}
           assigned(S) == Assigned(f, Texts(f, env, S), LiteralFirst(f, S))
           best == CHOOSE c \in candidates :
                     \A d \in candidates \ {c} : Precedes(d, c, act)
           chosen(o) == Operated(f, env, LiteralFirst(f, named(o) \ sets(o)), assigned(sets(o)))
<1>1. Direct(f, act, env, mine)
        = IF variants = {} THEN assigned(base) ELSE chosen(best.overrides)
  BY DEF Direct
<1>2. base \in SUBSET (DOMAIN f)
  OBVIOUS
<1>3. ASSUME NEW o
      PROVE  named(o) \ sets(o) \in SUBSET (DOMAIN f) /\ sets(o) \in SUBSET (DOMAIN f)
  OBVIOUS
<1> HIDE DEF base, named, sets, variants, best
<1>4. assigned(base) \in Seq(Fragments)
  BY <1>2, PlainTyped
<1>5. ASSUME NEW o
      PROVE  chosen(o) \in Seq(Fragments)
  <2>1. assigned(sets(o)) \in Seq(Fragments)
    BY <1>3, PlainTyped
  <2> DEFINE order == LiteralFirst(f, named(o) \ sets(o))
             S == named(o) \ sets(o)
  <2>2. order \in Seq(S) /\ S \in SUBSET (DOMAIN f)
    BY <1>3, LiteralFirstTyped
  <2> HIDE DEF order, S
  <2>3. order \in Seq(DOMAIN f)
    BY <2>2
  <2> HIDE DEF assigned
  <2>4. Operated(f, env, order, assigned(sets(o))) \in Seq(Fragments)
    BY <2>1, <2>3, OperatedTyped
  <2> QED
    BY <2>4 DEF order, S
<1> HIDE DEF chosen, assigned
<1> QED
  BY <1>1, <1>4, <1>5

(* A removal deferred to the value of its variable leaves none of its tokens.*)
LEMMA ValueWithout ==
  ASSUME NEW f \in Seq(Pool), NEW env, TextsIn(env), NEW act, NEW mine \in SUBSET (DOMAIN f),
         NEW i \in mine, KeyOf(f, act, env, i).operation = "remove",
         ~KeyOf(f, act, env, i).selected
  PROVE  Tokens(Expand(f[i].value, env)) \cap Tokens(ValueOf(f, act, env, mine)) = {}
<1> DEFINE deferred == {j \in mine : /\ OperationsOf(f[j]) # {}
                                     /\ ~KeyOf(f, act, env, j).selected}
           ops == OperationsOf(f[i])
           direct == Direct(f, act, env, mine)
<1>1. KeyOf(f, act, env, i).operation
        = IF ops = {} THEN "none" ELSE f[i].parts[CHOOSE o \in ops : TRUE]
  BY DEF KeyOf, Key
<1>2. ops # {} /\ f[i].parts[CHOOSE o \in ops : TRUE] = "remove"
  BY <1>1
<1>3. "remove" \in ToSet(f[i].parts)
  <2>1. (CHOOSE o \in ops : TRUE) \in ops
    BY <1>2
  <2>2. (CHOOSE o \in ops : TRUE) \in DOMAIN f[i].parts
    BY <2>1 DEF OperationsOf
  <2> QED
    BY <1>2, <2>2 DEF ToSet
<1>4. i \in deferred /\ deferred \in SUBSET (DOMAIN f)
  BY <1>2
<1>5. direct \in Seq(Fragments)
  BY DirectTyped
<1>6. ValueOf(f, act, env, mine) = Operated(f, env, Sorted(deferred), direct)
  BY DEF ValueOf
<1> HIDE DEF deferred, direct, ops
<1>7. deferred \subseteq Nat /\ IsFiniteSet(deferred)
  BY <1>4, AtLists
<1>8. /\ Sorted(deferred) \in Seq(deferred)
      /\ \A j \in deferred : \E k \in DOMAIN Sorted(deferred) : Sorted(deferred)[k] = j
  BY <1>7, SortedTyped
<1>9. Sorted(deferred) \in Seq(DOMAIN f)
  BY <1>4, <1>8
<1>10. PICK k \in DOMAIN Sorted(deferred) : Sorted(deferred)[k] = i
  BY <1>4, <1>8
<1>11. Tokens(Expand(f[Sorted(deferred)[k]].value, env))
         \cap Tokens(Operated(f, env, Sorted(deferred), direct)) = {}
  BY <1>3, <1>5, <1>9, <1>10, OperatedTyped
<1> QED
  BY <1>6, <1>10, <1>11

-----------------------------------------------------------------------------
(* Names.                                                                  *)

(* The name of an assignment has a word at least.                          *)
LEMMA WordsTyped ==
  ASSUME NEW a \in Pool
  PROVE  /\ WordsOf(a) \in Seq(STRING) /\ Len(WordsOf(a)) \in Nat \ {0}
         /\ Len(WordsOf(a)) = Len(a.parts) - Cardinality(OperationsOf(a))
<1> DEFINE parts == a.parts
           kept  == DOMAIN parts \ OperationsOf(a)
<1>1. parts \in Seq(STRING) /\ parts # <<>> /\ parts[1] \notin Operations
  BY PoolAssumption
<1>2. 1 \in kept /\ kept \in SUBSET (DOMAIN parts)
  BY <1>1 DEF OperationsOf
<1>3. WordsOf(a) = At(parts, kept)
  BY DEF WordsOf
<1>4. Cardinality(kept) = Len(parts) - Cardinality(OperationsOf(a))
  <2>1. IsFiniteSet(1..Len(parts)) /\ Cardinality(1..Len(parts)) = Len(parts)
    <3> DEFINE l == Len(parts)
    <3>1. l \in Nat
      BY <1>1
    <3> HIDE DEF l
    <3>2. IsFiniteSet(1..l) /\ Cardinality(1..l) = l
      BY <3>1, FS_Interval
    <3> QED
      BY <3>2 DEF l
  <2>2. DOMAIN parts = 1..Len(parts) /\ OperationsOf(a) \in SUBSET (1..Len(parts))
    BY <1>1 DEF OperationsOf
  <2>3. (1..Len(parts)) \cap OperationsOf(a) = OperationsOf(a)
    BY <2>2
  <2> QED
    BY <2>1, <2>2, <2>3, FS_Difference
<1> HIDE DEF parts, kept
<1>5. /\ IsFiniteSet(kept) /\ Cardinality(kept) \in Nat
      /\ At(parts, kept) \in Seq(STRING) /\ Len(At(parts, kept)) = Cardinality(kept)
  BY <1>1, <1>2, AtLists
<1>6. Cardinality(kept) # 0
  BY <1>2, <1>5, FS_EmptySet
<1> QED
  BY <1>3, <1>4, <1>5, <1>6 DEF parts

(* The suffix leaves a base, and that of a legacy name is active.          *)
LEMMA SuffixIs ==
  ASSUME NEW a \in Pool, NEW act
  PROVE  LET words == WordsOf(a)
             n     == Len(words)
             k     == Suffix(a, act)
         IN  /\ k \in 0..(n - 1)
             /\ a.modern => k = n - 1
             /\ ~a.modern => \A j \in (n - k + 1)..n : <<words[j]>> \in act
<1> DEFINE words == WordsOf(a)
           n == Len(words)
           fits(k) == /\ \A j \in (n - k + 1)..n : <<words[j]>> \in act
                      /\ k = n - 1 \/ <<words[n - k]>> \notin act
<1>1. n \in Nat \ {0} /\ n = Len(a.parts) - Cardinality(OperationsOf(a))
  BY WordsTyped
<1>2. Suffix(a, act) = IF a.modern THEN n - 1 ELSE CHOOSE k \in 0..(n - 1) : fits(k)
  BY <1>1 DEF Suffix
<1> HIDE DEF words, n
<1>3. \E k \in 0..(n - 1) : fits(k)
  <2> DEFINE ends == {k \in 0..(n - 1) : k = n - 1 \/ <<words[n - k]>> \notin act}
  <2>1. n - 1 \in ends /\ ends \subseteq Nat
    BY <1>1
  <2>2. PICK k \in ends : \A m \in ends : ~(<<m, k>> \in OpToRel(<, Nat))
    <3> HIDE DEF ends
    <3> QED
      BY <2>1, WFMin, NatLessThanWellFounded
  <2>3. \A m \in ends : ~(m < k)
    BY <2>1, <2>2 DEF OpToRel
  <2>4. ASSUME NEW j \in (n - k + 1)..n
        PROVE  <<words[j]>> \in act
    <3>1. n - j \in 0..(n - 1) /\ n - j < k /\ n - (n - j) = j
      <4>1. k \in 0..(n - 1) /\ n \in Nat
        BY <1>1
      <4> HIDE DEF ends
      <4> QED
        BY <4>1
    <3>2. n - j \notin ends
      BY <2>3, <3>1
    <3> QED
      BY <3>1, <3>2
  <2> QED
    BY <2>2, <2>4
<1>4. CASE a.modern
  BY <1>1, <1>2, <1>4 DEF n, words
<1>5. CASE ~a.modern
  <2>1. Suffix(a, act) \in 0..(n - 1) /\ fits(Suffix(a, act))
    <3> HIDE DEF fits
    <3> QED
      BY <1>2, <1>3, <1>5
  <2> QED
    BY <1>5, <2>1 DEF n, words
<1> QED
  BY <1>4, <1>5

(* The words of a name, expanded.                                          *)
Expanded(a, env) == [i \in DOMAIN WordsOf(a) |-> Expand(<<WordsOf(a)[i]>>, env)]

(* They are texts.                                                         *)
LEMMA ExpandedTyped ==
  ASSUME NEW a \in Pool, NEW env, TextsIn(env)
  PROVE  /\ Expanded(a, env) \in Seq(Seq(Fragments))
         /\ Len(Expanded(a, env)) = Len(WordsOf(a)) /\ DOMAIN Expanded(a, env) = DOMAIN WordsOf(a)
<1> DEFINE words == WordsOf(a)
           n == Len(words)
<1>1. words \in Seq(STRING)
  BY WordsTyped
<1>2. n \in Nat /\ DOMAIN words = 1..n /\ \A i \in 1..n : words[i] \in STRING
  <2> HIDE DEF words
  <2> QED
    BY <1>1, SequenceIs
<1>3. Expanded(a, env) = [i \in 1..n |-> Expand(<<words[i]>>, env)]
  BY <1>2 DEF Expanded
<1> HIDE DEF words, n
<1>4. ASSUME NEW i \in 1..n
      PROVE  Expand(<<words[i]>>, env) \in Seq(Fragments)
  <2>1. words[i] \in Fragments
    BY <1>2 DEF Fragments
  <2>2. <<words[i]>> \in Seq(Fragments)
    BY <2>1, OneTyped
  <2> QED
    BY <2>2, ExpandTyped
<1>5. Expanded(a, env) \in [1..n -> Seq(Fragments)]
  BY <1>3, <1>4
<1> QED
  BY <1>2, <1>5, IsSequence DEF words, n

(* A name without overrides is the same whatever overrides are active.     *)
LEMMA Unvaried ==
  ASSUME NEW a \in Pool, NEW env, TextsIn(env), NEW act, Key(a, act, env).overrides = <<>>
  PROVE  Suffix(a, act) = 0 /\ Key(a, act, env) = Key(a, {}, env)
<1> DEFINE texts == Expanded(a, env)
           k == Suffix(a, act)
           l == Len(WordsOf(a))
<1>1. texts \in Seq(Seq(Fragments)) /\ Len(texts) = l /\ l \in Nat \ {0}
  BY ExpandedTyped, WordsTyped
<1>2. Key(a, act, env).overrides = SubSeq(texts, (l - k) + 1, (l - k) + k)
  BY DEF Key, Expanded
<1>3. k \in 0..(l - 1)
  BY SuffixIs
<1>4. k = 0
  <2> HIDE DEF texts, k, l
  <2>1. (l - k) + 1 \in 1..(l + 1) /\ (l - k) + k = l
    BY <1>1, <1>3
  <2>2. Len(SubSeq(texts, (l - k) + 1, (l - k) + k)) = k
    BY <1>1, <1>3, <2>1
  <2>3. Len(<<>>) = 0
    OBVIOUS
  <2> QED
    BY <1>2, <2>2, <2>3
<1>5. Suffix(a, {}) = 0
  <2> DEFINE m == Suffix(a, {})
  <2>1. /\ m \in 0..(l - 1) /\ (a.modern => m = l - 1)
        /\ ~a.modern => \A j \in (l - m + 1)..l : <<WordsOf(a)[j]>> \in {}
    BY SuffixIs
  <2>2. a.modern => k = l - 1
    BY SuffixIs
  <2> HIDE DEF m, k, l
  <2>3. CASE a.modern
    BY <1>4, <2>1, <2>2, <2>3 DEF m
  <2>4. CASE ~a.modern
    <3>1. m # 0 => l \in (l - m + 1)..l
      BY <1>1, <2>1
    <3> QED
      BY <2>1, <2>4, <3>1 DEF m
  <2> QED
    BY <2>3, <2>4
<1>6. Suffix(a, act) = Suffix(a, {})
  BY <1>4, <1>5
<1> QED
  BY <1>4, <1>6 DEF Key

(* The texts that Joined flattens.                                         *)
Separated(s, separator) == [i \in DOMAIN s |-> IF i = 1 THEN s[i] ELSE <<separator>> \o s[i]]

(* They are texts.                                                         *)
LEMMA SeparatedTyped ==
  ASSUME NEW T, NEW x \in T, NEW s \in Seq(Seq(T))
  PROVE  /\ Separated(s, x) \in Seq(Seq(T)) /\ DOMAIN Separated(s, x) = DOMAIN s
         /\ Joined(s, x) = FlattenSeq(Separated(s, x))
<1>1. Len(s) \in Nat /\ DOMAIN s = 1..Len(s) /\ \A i \in DOMAIN s : s[i] \in Seq(T)
  BY SequenceIs
<1> DEFINE one == <<x>>
<1>2. one \in Seq(T)
  BY OneTyped
<1>3. Separated(s, x) = [i \in 1..Len(s) |-> IF i = 1 THEN s[i] ELSE one \o s[i]]
  BY <1>1 DEF Separated
<1> HIDE DEF one
<1>4. \A i \in 1..Len(s) : one \o s[i] \in Seq(T)
  BY <1>1, <1>2, ConcatTyped
<1>5. Separated(s, x) \in [1..Len(s) -> Seq(T)]
  BY <1>1, <1>3, <1>4
<1>6. Joined(s, x) = FlattenSeq(Separated(s, x))
  BY DEF Joined, Separated
<1> QED
  BY <1>1, <1>5, <1>6, IsSequence

(* Joined texts are a text.                                                *)
LEMMA JoinedTyped ==
  ASSUME NEW T, NEW x \in T, NEW s \in Seq(Seq(T))
  PROVE  Joined(s, x) \in Seq(T)
BY SeparatedTyped, FlattenTyped

(* They have what each of them has.                                        *)
LEMMA JoinedHas ==
  ASSUME NEW T, NEW x \in T, NEW s \in Seq(Seq(T)), NEW i \in DOMAIN s, NEW y, Has(s[i], y)
  PROVE  Has(Joined(s, x), y)
<1>1. /\ Separated(s, x) \in Seq(Seq(T)) /\ DOMAIN Separated(s, x) = DOMAIN s
      /\ Joined(s, x) = FlattenSeq(Separated(s, x))
  BY SeparatedTyped
<1>2. s[i] \in Seq(T)
  BY SequenceIs
<1>3. Has(Separated(s, x)[i], y)
  <2>1. CASE i = 1
    BY <2>1 DEF Separated
  <2>2. CASE i # 1
    <3> DEFINE one == <<x>>
    <3>1. one \in Seq(T)
      BY OneTyped
    <3>2. Separated(s, x)[i] = one \o s[i]
      BY <2>2 DEF Separated
    <3> HIDE DEF one
    <3> QED
      BY <1>2, <3>1, <3>2, BothHave
  <2> QED
    BY <2>1, <2>2
<1> QED
  BY <1>1, <1>3, FlattenHas

(* Fragments that are no references.                                       *)
Known == Fragments \ Refs

KnownTexts(env) == \A x \in DOMAIN env : env[x] \in Seq(Known)

(* Blanks and underscores are none.                                        *)
LEMMA MarksKnown == " " \in Known /\ "_" \in Known
<1>1. " " \notin Refs /\ "_" \notin Refs
  BY RefAssumption DEF Refs
<1>2. " " \in Fragments /\ "_" \in Fragments
  BY DEF Fragments
<1> QED
  BY <1>1, <1>2 DEF Known

(* The front of a sequence is one.                                         *)
LEMMA FrontTyped ==
  ASSUME NEW T, NEW s \in Seq(T), NEW n \in 1..Len(s)
  PROVE  SubSeq(s, 1, n) \in Seq(T)
OBVIOUS

(* Texts of them are texts.                                                *)
LEMMA KnownAreTexts ==
  ASSUME NEW env, KnownTexts(env)
  PROVE  TextsIn(env)
<1> SUFFICES ASSUME NEW x \in DOMAIN env
             PROVE  env[x] \in Seq(Fragments)
  BY DEF TextsIn
<1> DEFINE text == env[x]
<1>1. text \in Seq(Known) /\ Known \subseteq Fragments
  BY DEF KnownTexts, Known
<1> HIDE DEF text
<1>2. text \in Seq(Fragments)
  BY <1>1
<1> QED
  BY <1>2 DEF text

(* A text without unresolved references expands to one without any.        *)
LEMMA ExpandKnown ==
  ASSUME NEW text \in Seq(Fragments), NEW env, KnownTexts(env), ~Dynamic(text, env)
  PROVE  Expand(text, env) \in Seq(Known)
<1> DEFINE each(i) == IF text[i] \in Refs /\ ~IsUnresolved(text[i], env)
                      THEN env[<<RefTo[text[i]]>>] ELSE <<text[i]>>
           s == [i \in DOMAIN text |-> each(i)]
<1>1. \A i \in DOMAIN text : each(i) \in Seq(Known)
  <2> SUFFICES ASSUME NEW i \in DOMAIN text
               PROVE  each(i) \in Seq(Known)
    OBVIOUS
  <2>1. text[i] \in Fragments /\ ~IsUnresolved(text[i], env)
    BY DEF Dynamic
  <2>2. CASE text[i] \in Refs
    BY <2>1, <2>2 DEF IsUnresolved, KnownTexts
  <2>3. CASE text[i] \notin Refs
    BY <2>1, <2>3, OneTyped DEF Known
  <2> QED
    BY <2>2, <2>3
<1>2. s \in Seq(Seq(Known))
  <2> HIDE DEF each
  <2>1. DOMAIN text = 1..Len(text) /\ Len(text) \in Nat
    OBVIOUS
  <2>2. s \in [1..Len(text) -> Seq(Known)]
    BY <1>1, <2>1
  <2> HIDE DEF s
  <2> QED
    BY <2>1, <2>2, IsSequence
<1>3. Expand(text, env) = FlattenSeq(s)
  BY DEF Expand
<1> HIDE DEF s
<1> QED
  BY <1>2, <1>3, FlattenTyped

(* A pass makes texts without references.                                  *)
LEMMA NextEnvironmentKnown ==
  ASSUME NEW f \in Seq(Pool), NEW env, KnownTexts(env)
  PROVE  KnownTexts(NextEnvironment(f, env))
<1> DEFINE plain == {i \in DOMAIN f : IsPlain(f, env, i)}
           mine(x) == {i \in plain : BaseIn(f, env, i) = x}
           value(x) == Assigned(f, Texts(f, env, mine(x)), LiteralFirst(f, mine(x)))
           bases == {BaseIn(f, env, i) : i \in plain}
<1>1. " " \in Known
  BY MarksKnown
<1>2. ASSUME NEW x
      PROVE  value(x) \in Seq(Known)
  <2> DEFINE S == mine(x)
  <2>1. S \in SUBSET (DOMAIN f) /\ \A i \in S : ~Dynamic(f[i].value, env)
    BY DEF IsPlain
  <2> HIDE DEF S
  <2>2. \A i \in S : Expand(f[i].value, env) \in Seq(Known)
    BY <2>1, FileTyped, ExpandKnown
  <2>3. Texts(f, env, S) \in [S -> Seq(Known)]
    BY <2>2 DEF Texts
  <2>4. LiteralFirst(f, S) \in Seq(S)
    BY <2>1, LiteralFirstTyped
  <2>5. Assigned(f, Texts(f, env, S), LiteralFirst(f, S)) \in Seq(Known)
    BY <1>1, <2>1, <2>3, <2>4, AssignedTyped
  <2> QED
    BY <2>5 DEF S
<1>3. NextEnvironment(f, env) = [x \in bases |-> value(x)]
  BY DEF NextEnvironment
<1> HIDE DEF value, bases
<1> QED
  BY <1>2, <1>3 DEF KnownTexts

(* A resolved name is free of references.                                  *)
LEMMA BaseKnown ==
  ASSUME NEW a \in Pool, NEW env, KnownTexts(env), NEW act, ~Key(a, act, env).dynamic
  PROVE  Key(a, act, env).base \in Seq(Known)
<1> DEFINE words == WordsOf(a)
           texts == Expanded(a, env)
           l == Len(words)
           n == l - Suffix(a, act)
           u == SubSeq(texts, 1, n)
<1>1. words \in Seq(STRING) /\ l \in Nat \ {0}
  BY WordsTyped
<1>2. DOMAIN words = 1..l /\ \A i \in 1..l : words[i] \in STRING
  <2> HIDE DEF words
  <2> QED
    BY <1>1, SequenceIs DEF l
<1>3. Key(a, act, env).base = Joined(u, "_")
  BY DEF Key, Expanded
<1>4. ~Dynamic(words, env)
  BY DEF Key
<1>5. n \in 1..l
  <2>1. Suffix(a, act) \in 0..(l - 1)
    BY SuffixIs
  <2> HIDE DEF l
  <2> QED
    BY <1>1, <2>1
<1>6. texts = [i \in 1..l |-> Expand(<<words[i]>>, env)]
  BY <1>2 DEF Expanded
<1> HIDE DEF words, l, n, texts
<1>7. ASSUME NEW i \in 1..l
      PROVE  Expand(<<words[i]>>, env) \in Seq(Known)
  <2> DEFINE word == words[i]
  <2>1. word \in Fragments /\ ~IsUnresolved(word, env)
    BY <1>2, <1>4 DEF Fragments, Dynamic
  <2> HIDE DEF word
  <2>2. <<word>> \in Seq(Fragments)
    BY <2>1, OneTyped
  <2>3. ~Dynamic(<<word>>, env)
    BY <2>1 DEF Dynamic
  <2>4. Expand(<<word>>, env) \in Seq(Known)
    BY <2>2, <2>3, ExpandKnown
  <2> QED
    BY <2>4 DEF word
<1>8. texts \in Seq(Seq(Known)) /\ Len(texts) = l
  BY <1>1, <1>6, <1>7, IsSequence
<1>9. u \in Seq(Seq(Known))
  BY <1>5, <1>8, FrontTyped
<1>10. "_" \in Known
  BY MarksKnown
<1> HIDE DEF u
<1> QED
  BY <1>3, <1>9, <1>10, JoinedTyped

(* A name without overrides has each of its unresolved references.         *)
LEMMA BaseHas ==
  ASSUME NEW a \in Pool, NEW env, TextsIn(env), NEW act, Suffix(a, act) = 0,
         NEW i \in DOMAIN WordsOf(a), IsUnresolved(WordsOf(a)[i], env)
  PROVE  Has(Key(a, act, env).base, WordsOf(a)[i])
<1> DEFINE words == WordsOf(a)
           texts == Expanded(a, env)
           l == Len(words)
           word == words[i]
<1>1. words \in Seq(STRING) /\ l \in Nat \ {0}
  BY WordsTyped
<1>2. i \in DOMAIN texts /\ texts \in Seq(Seq(Fragments)) /\ Len(texts) = l
  BY ExpandedTyped
<1>3. Key(a, act, env).base = Joined(SubSeq(texts, 1, l), "_")
  <2>1. l - 0 = l
    BY <1>1
  <2> QED
    BY <2>1 DEF Key, Expanded
<1>4. texts[i] = Expand(<<word>>, env)
  BY DEF Expanded
<1> HIDE DEF words, texts, l
<1>5. SubSeq(texts, 1, l) = texts
  BY <1>1, <1>2
<1>6. word \in STRING
  BY <1>1 DEF words
<1> HIDE DEF word
<1>7. Has(Expand(<<word>>, env), word)
  <2> DEFINE s == [k \in DOMAIN <<word>> |->
                     IF <<word>>[k] \in Refs /\ ~IsUnresolved(<<word>>[k], env)
                     THEN env[<<RefTo[<<word>>[k]]>>] ELSE <<<<word>>[k]>>]
  <2>1. IsUnresolved(word, env)
    BY DEF word, words
  <2>2. s = <<<<word>>>>
    BY <2>1
  <2>3. Expand(<<word>>, env) = FlattenSeq(s)
    BY DEF Expand
  <2> HIDE DEF s
  <2>4. <<word>> \in Seq(STRING)
    BY <1>6, OneTyped
  <2>5. s \in Seq(Seq(STRING)) /\ 1 \in DOMAIN s /\ s[1] = <<word>>
    BY <2>2, <2>4
  <2>6. Has(s[1], word)
    BY <2>5 DEF Has
  <2> QED
    BY <2>3, <2>5, <2>6, FlattenHas
<1>8. "_" \in Fragments
  BY MarksKnown DEF Known
<1>9. Has(Joined(texts, "_"), word)
  BY <1>2, <1>4, <1>7, <1>8, JoinedHas
<1> QED
  BY <1>3, <1>5, <1>9 DEF word, words

(* Nothing is sorted into nothing.                                         *)
LEMMA SortedNone == Sorted({}) = <<>>
<1>1. Cardinality({}) = 0
  BY FS_EmptySet
<1>2. Sorted({}) = [k \in 1..0 |-> CHOOSE i \in {} : Cardinality({j \in {} : j <= i}) = k]
  BY <1>1 DEF Sorted
<1> QED
  BY <1>2

(* Without operations a value stays as it is.                              *)
LEMMA OperatedNone ==
  ASSUME NEW f \in Seq(Pool), NEW env, TextsIn(env), NEW v \in Seq(Fragments)
  PROVE  Operated(f, env, <<>>, v) = v
<1>1. ASSUME NEW op
      PROVE  TextsOf(f, env, <<>>, op) = <<>>
  <2> DEFINE s == At(<<>>, {})
             mine == {k \in DOMAIN <<>> : op \in ToSet(f[<<>>[k]].parts)}
  <2>1. mine = {}
    OBVIOUS
  <2>2. s = <<>>
    BY SortedNone, FS_EmptySet DEF At
  <2>3. TextsOf(f, env, <<>>, op) = [k \in DOMAIN At(<<>>, mine) |-> Expand(f[At(<<>>, mine)[k]].value, env)]
    BY DEF TextsOf
  <2> HIDE DEF mine, s
  <2>4. TextsOf(f, env, <<>>, op) = [k \in DOMAIN <<>> |-> Expand(f[<<>>[k]].value, env)]
    BY <2>1, <2>2, <2>3 DEF s
  <2> QED
    BY <2>4
<1>2. FlattenSeq(<<>>) = <<>> /\ Reverse(<<>>) = <<>>
  BY DEF FlattenSeq, Reverse
<1>3. FoldLeft(Without, v, <<>>) = v
  <2> DEFINE is(g) == g = [t \in SUBSET DOMAIN <<>> |->
                            IF t = {} THEN v ELSE Without(g[t \ {Max(t)}], <<>>[Max(t)])]
             none == [t \in SUBSET DOMAIN <<>> |-> v]
  <2>1. FoldLeft(Without, v, <<>>) = (CHOOSE g : is(g))[DOMAIN <<>>]
    BY DEF FoldLeft, MapThenFoldSet
  <2>2. \A t \in SUBSET DOMAIN <<>> : t = {}
    OBVIOUS
  <2>3. is(none)
    BY <2>2
  <2> DEFINE h == CHOOSE g : is(g)
  <2>4. is(h)
    <3> HIDE DEF is, none
    <3> QED
      BY <2>3
  <2> HIDE DEF h
  <2>5. {} \in SUBSET DOMAIN <<>> /\ DOMAIN <<>> = {}
    OBVIOUS
  <2>6. h[{}] = v
    BY <2>4, <2>5
  <2> QED
    BY <2>1, <2>5, <2>6 DEF h
<1>4. (<<>> \o v) \o <<>> = v
  OBVIOUS
<1> QED
  BY <1>1, <1>2, <1>3, <1>4 DEF Operated

(* A variable without variants has what its plain assignments give it, and *)
(* then the operations.                                                    *)
LEMMA DirectOnly ==
  ASSUME NEW f \in Seq(Pool), NEW env, TextsIn(env), NEW act, NEW mine \in SUBSET (DOMAIN f),
         \A i \in mine : KeyOf(f, act, env, i).overrides = <<>>
  PROVE  LET direct == {i \in mine : OperationsOf(f[i]) = {}}
         IN  ValueOf(f, act, env, mine)
               = Operated(f, env, Sorted(mine \ direct),
                          Assigned(f, Texts(f, env, direct), LiteralFirst(f, direct)))
<1> DEFINE key(i)   == KeyOf(f, act, env, i)
           direct   == {i \in mine : OperationsOf(f[i]) = {}}
           base     == {i \in mine : key(i).operation = "none" /\ key(i).overrides = <<>>}
           variants == {i \in mine : /\ key(i).overrides # <<>>
                                     /\ key(i).operation = "none" \/ key(i).selected}
           deferred == {i \in mine : OperationsOf(f[i]) # {} /\ ~key(i).selected}
           named(o) == {i \in variants : key(i).overrides = o}
           sets(o)  == {i \in named(o) : key(i).operation = "none"}
           candidates == {[overrides |-> o, sequence |-> Latest(named(o))] :
                            o \in {key(i).overrides : i \in variants}}
           assigned(S) == Assigned(f, Texts(f, env, S), LiteralFirst(f, S))
           best == CHOOSE c \in candidates :
                     \A d \in candidates \ {c} : Precedes(d, c, act)
           chosen(o) == Operated(f, env, LiteralFirst(f, named(o) \ sets(o)), assigned(sets(o)))
<1>1. ASSUME NEW i \in mine
      PROVE  /\ ~key(i).selected
             /\ key(i).operation = "none" <=> OperationsOf(f[i]) = {}
  <2> DEFINE a == f[i]
             ops == OperationsOf(a)
  <2>1. a \in Pool
    BY SequenceIs
  <2>2. key(i) = Key(a, ToSet(act), env) /\ key(i).overrides = <<>>
    BY DEF KeyOf
  <2>3. Suffix(a, ToSet(act)) = 0
    BY <2>1, <2>2, Unvaried
  <2>4. ~Key(a, ToSet(act), env).selected
    <3>1. Key(a, ToSet(act), env).selected
            = (/\ Suffix(a, ToSet(act)) > 0
               /\ \E o \in ops : IF a.modern THEN o > 2 ELSE o = Len(a.parts))
      BY DEF Key
    <3>2. ~(Suffix(a, ToSet(act)) > 0)
      BY <2>3
    <3> HIDE DEF a, ops
    <3> QED
      BY <3>1, <3>2
  <2>5. Key(a, ToSet(act), env).operation
          = IF ops = {} THEN "none" ELSE a.parts[CHOOSE o \in ops : TRUE]
    BY DEF Key
  <2>6. ops # {} => a.parts[CHOOSE o \in ops : TRUE] \in Operations
    <3>1. ops # {} => (CHOOSE o \in ops : TRUE) \in ops
      OBVIOUS
    <3> QED
      BY <3>1 DEF OperationsOf
  <2>7. "none" \notin Operations
    BY DEF Operations
  <2> HIDE DEF a, ops
  <2> QED
    BY <2>2, <2>4, <2>5, <2>6, <2>7 DEF a, ops
<1>2. variants = {} /\ base = direct /\ deferred = mine \ direct
  <2> HIDE DEF key
  <2> QED
    BY <1>1 DEF key
<1>3. Direct(f, act, env, mine)
        = IF variants = {} THEN assigned(base) ELSE chosen(best.overrides)
  BY DEF Direct
<1>4. ValueOf(f, act, env, mine)
        = Operated(f, env, Sorted(deferred), Direct(f, act, env, mine))
  BY DEF ValueOf
<1> HIDE DEF variants, base, deferred, chosen, best
<1> QED
  BY <1>2, <1>3, <1>4

(* The entries of the variable `name` are `mine`, there are some, and none *)
(* of them has an override or an operation.                                *)
AllPlain(f, act, env, name, mine) ==
  /\ mine \in SUBSET Entries(f, act, env) /\ mine # {}
  /\ \A i \in Entries(f, act, env) : i \in mine <=> KeyOf(f, act, env, i).base = name
  /\ \A i \in mine : KeyOf(f, act, env, i).overrides = <<>>
  /\ \A i \in mine : OperationsOf(f[i]) = {}
  /\ \A i \in DOMAIN f : IsPlain(f, env, i) /\ BaseIn(f, env, i) = name
                          => KeyOf(f, act, env, i).overrides = <<>>

(* The entries of a variable without overrides and operations are its      *)
(* plain assignments.                                                      *)
LEMMA PlainsAre ==
  ASSUME NEW f \in Seq(Pool), NEW env, KnownTexts(env), NEW act, NEW name, NEW mine,
         AllPlain(f, act, env, name, mine)
  PROVE  /\ mine \subseteq DOMAIN f
         /\ \A i \in DOMAIN f : i \in mine
                               <=> IsPlain(f, env, i) /\ BaseIn(f, env, i) = name
<1> USE DEF AllPlain
<1>1. TextsIn(env)
  BY KnownAreTexts
<1>2. \A i \in DOMAIN f : f[i] \in Pool
  BY SequenceIs
<1>3. ASSUME NEW i \in DOMAIN f, KeyOf(f, act, env, i).overrides = <<>>
      PROVE  /\ Suffix(f[i], ToSet(act)) = 0
             /\ KeyOf(f, act, env, i) = Key(f[i], {}, env)
  <2>1. Key(f[i], ToSet(act), env).overrides = <<>>
    BY <1>3 DEF KeyOf
  <2> QED
    BY <1>1, <1>2, <2>1, Unvaried DEF KeyOf
<1>4. name \in Seq(Known)
  <2>1. PICK i \in mine : TRUE
    OBVIOUS
  <2>2. i \in DOMAIN f /\ ~KeyOf(f, act, env, i).dynamic /\ KeyOf(f, act, env, i).base = name
    BY <2>1 DEF Entries
  <2> QED
    BY <1>2, <2>2, BaseKnown DEF KeyOf
<1>5. ASSUME NEW i \in mine
      PROVE  i \in DOMAIN f /\ IsPlain(f, env, i) /\ BaseIn(f, env, i) = name
  <2>1. /\ i \in DOMAIN f /\ IsKey(f[i]) /\ ~f[i].flag /\ ~Dynamic(f[i].value, env)
        /\ KeyOf(f, act, env, i).base = name
    BY <1>5 DEF Entries
  <2>2. KeyOf(f, act, env, i) = Key(f[i], {}, env)
    BY <1>3, <2>1
  <2> QED
    BY <2>1, <2>2 DEF IsPlain, BaseIn
<1>6. ASSUME NEW i \in DOMAIN f, IsPlain(f, env, i), BaseIn(f, env, i) = name
      PROVE  i \in mine
  <2>1. /\ KeyOf(f, act, env, i).overrides = <<>> /\ Suffix(f[i], ToSet(act)) = 0
        /\ KeyOf(f, act, env, i) = Key(f[i], {}, env)
    BY <1>3, <1>6
  <2>2. KeyOf(f, act, env, i).base = name
    BY <1>6, <2>1 DEF BaseIn
  <2>3. ~KeyOf(f, act, env, i).dynamic
    <3> SUFFICES ASSUME KeyOf(f, act, env, i).dynamic
                 PROVE  FALSE
      OBVIOUS
    <3>1. Dynamic(WordsOf(f[i]), env)
      BY DEF KeyOf, Key
    <3>2. PICK k \in DOMAIN WordsOf(f[i]) : IsUnresolved(WordsOf(f[i])[k], env)
      BY <3>1 DEF Dynamic
    <3> DEFINE word == WordsOf(f[i])[k]
    <3>3. Has(name, word)
      BY <1>1, <1>2, <2>1, <2>2, <3>2, BaseHas DEF KeyOf
    <3>4. word \in Refs
      BY <3>2 DEF IsUnresolved
    <3> HIDE DEF word
    <3>5. word \in Known
      BY <1>4, <3>3, SequenceIs DEF Has
    <3> QED
      BY <3>4, <3>5 DEF Known
  <2>4. ToSet(KeyOf(f, act, env, i).overrides) \subseteq ToSet(act)
    BY <2>1 DEF ToSet
  <2>5. i \in Entries(f, act, env)
    BY <1>6, <2>3, <2>4 DEF Entries, IsPlain
  <2> QED
    BY <2>2, <2>5
<1> QED
  BY <1>5, <1>6

(* Literal names keep the order of the file.                               *)
LEMMA LiteralOrder ==
  ASSUME NEW f \in Seq(Pool), NEW S \in SUBSET (DOMAIN f),
         \A i \in S : ~Key(f[i], {}, Nothing).expanded
  PROVE  LiteralFirst(f, S) = Sorted(S)
<1>1. S \subseteq Nat /\ IsFiniteSet(S)
  BY AtLists
<1>2. Sorted(S) \in Seq(S)
  BY <1>1, SortedTyped
<1>3. Sorted(S) \o <<>> = Sorted(S)
  BY <1>2
<1>4. S \ {} = S /\ {i \in S : Key(f[i], {}, Nothing).expanded} = {}
  OBVIOUS
<1> QED
  BY <1>3, <1>4, SortedNone DEF LiteralFirst

(* The loop that reads OVERRIDES gives the value that a variable with its  *)
(* assignments has, if their names are literal.                            *)
LEMMA ListIs ==
  ASSUME NEW f \in Seq(Pool), NEW env, KnownTexts(env), NEW mine,
         mine = {i \in Entries(f, <<>>, env) : KeyOf(f, <<>>, env, i).base = OverridesName},
         \A i \in mine : ~KeyOf(f, <<>>, env, i).expanded
  PROVE  OverrideList(f, env) = ValueOf(f, <<>>, env, mine)
<1> DEFINE read == {i \in DOMAIN f :
                      /\ IsKey(f[i]) /\ ~f[i].flag /\ ~Dynamic(f[i].value, env)
                      /\ Key(f[i], {}, Nothing).base = OverridesName
                      /\ Key(f[i], {}, Nothing).overrides = <<>>}
           Literal(i) == \A k \in DOMAIN WordsOf(f[i]) : WordsOf(f[i])[k] \notin Refs
           direct == {i \in mine : OperationsOf(f[i]) = {}}
<1>1. TextsIn(env) /\ TextsIn(Nothing) /\ ToSet(<<>>) = {}
  BY KnownAreTexts DEF TextsIn, Nothing, ToSet
<1>2. \A i \in DOMAIN f : f[i] \in Pool
  BY SequenceIs
<1>3. ASSUME NEW i \in DOMAIN f, Literal(i)
      PROVE  KeyOf(f, <<>>, env, i) = Key(f[i], {}, Nothing)
  <2>1. Key(f[i], {}, env) = Key(f[i], {}, Nothing)
    BY <1>3, KeyAlike
  <2> QED
    BY <1>1, <2>1 DEF KeyOf
<1>4. ASSUME NEW i \in mine
      PROVE  i \in read /\ Literal(i) /\ KeyOf(f, <<>>, env, i).overrides = <<>>
  <2>1. /\ i \in DOMAIN f /\ IsKey(f[i]) /\ ~f[i].flag /\ ~Dynamic(f[i].value, env)
        /\ KeyOf(f, <<>>, env, i).base = OverridesName
        /\ ToSet(KeyOf(f, <<>>, env, i).overrides) \subseteq ToSet(<<>>)
    BY <1>4 DEF Entries
  <2>2. Literal(i)
    <3>1. ~Key(f[i], ToSet(<<>>), env).expanded
      BY <1>4 DEF KeyOf
    <3> QED
      BY <3>1 DEF Key
  <2>3. KeyOf(f, <<>>, env, i) = Key(f[i], {}, Nothing)
    BY <1>3, <2>1, <2>2
  <2>4. KeyOf(f, <<>>, env, i).overrides = <<>>
    <3> DEFINE texts == Expanded(f[i], env)
               k == Suffix(f[i], {})
               l == Len(WordsOf(f[i]))
               u == SubSeq(texts, (l - k) + 1, (l - k) + k)
    <3>1. texts \in Seq(Seq(Fragments)) /\ Len(texts) = l /\ l \in Nat \ {0}
      BY <1>1, <1>2, <2>1, ExpandedTyped, WordsTyped
    <3>2. k \in 0..(l - 1)
      BY <1>2, <2>1, SuffixIs
    <3>3. KeyOf(f, <<>>, env, i).overrides = u
      BY <1>1 DEF KeyOf, Key, Expanded
    <3> HIDE DEF texts, k, l
    <3>4. Len(u) = k /\ DOMAIN u = 1..k
      BY <3>1, <3>2
    <3>5. ToSet(u) \subseteq {}
      BY <1>1, <2>1, <3>3
    <3>6. k = 0
      <4> HIDE DEF u
      <4>1. k # 0 => 1 \in DOMAIN u
        BY <3>1, <3>2, <3>4
      <4> QED
        BY <3>5, <4>1 DEF ToSet
    <3>7. u = <<>>
      BY <3>1, <3>6
    <3> QED
      BY <3>3, <3>7
  <2> QED
    BY <2>1, <2>2, <2>3, <2>4
<1>5. ASSUME NEW i \in read
      PROVE  i \in mine
  <2> DEFINE a == f[i]
  <2>1. /\ i \in DOMAIN f /\ IsKey(a) /\ ~a.flag /\ ~Dynamic(a.value, env)
        /\ Key(a, {}, Nothing).base = OverridesName /\ Key(a, {}, Nothing).overrides = <<>>
        /\ a \in Pool
    BY <1>2
  <2>2. Suffix(a, {}) = 0
    BY <1>1, <2>1, Unvaried
  <2>3. Literal(i)
    <3> SUFFICES ASSUME NEW k \in DOMAIN WordsOf(a), WordsOf(a)[k] \in Refs
                 PROVE  FALSE
      OBVIOUS
    <3> DEFINE word == WordsOf(a)[k]
    <3>1. IsUnresolved(word, Nothing)
      BY DEF IsUnresolved, Nothing
    <3>2. Has(OverridesName, word)
      BY <1>1, <2>1, <2>2, <3>1, BaseHas
    <3>3. word \in Refs
      OBVIOUS
    <3> HIDE DEF word
    <3>4. word = "OVERRIDES"
      BY <3>2 DEF Has, OverridesName
    <3>5. "OVERRIDES" \notin Refs
      BY RefAssumption DEF Refs
    <3> QED
      BY <3>3, <3>4, <3>5
  <2>4. KeyOf(f, <<>>, env, i) = Key(a, {}, Nothing)
    BY <1>3, <2>1, <2>3
  <2>5. ~KeyOf(f, <<>>, env, i).dynamic
    <3>1. ~Dynamic(WordsOf(a), env)
      BY <2>3 DEF Dynamic, IsUnresolved
    <3> QED
      BY <3>1 DEF KeyOf, Key
  <2>6. ToSet(KeyOf(f, <<>>, env, i).overrides) \subseteq ToSet(<<>>)
    BY <2>1, <2>4 DEF ToSet
  <2> QED
    BY <2>1, <2>4, <2>5, <2>6 DEF Entries
<1>6. read = mine /\ mine \in SUBSET (DOMAIN f)
  BY <1>4, <1>5
<1>7. ValueOf(f, <<>>, env, mine)
        = Operated(f, env, Sorted(mine \ direct),
                   Assigned(f, Texts(f, env, direct), LiteralFirst(f, direct)))
  <2>1. \A i \in mine : KeyOf(f, <<>>, env, i).overrides = <<>>
    BY <1>4
  <2> QED
    BY <1>1, <1>6, <2>1, DirectOnly
<1>8. LiteralFirst(f, direct) = Sorted(direct)
  <2>1. \A i \in direct : ~Key(f[i], {}, Nothing).expanded
    BY <1>4 DEF Key
  <2>2. direct \in SUBSET (DOMAIN f)
    BY <1>6
  <2> HIDE DEF direct
  <2> QED
    BY <2>1, <2>2, LiteralOrder
<1>9. OverrideList(f, env)
        = Operated(f, env, Sorted(read \ {i \in read : OperationsOf(f[i]) = {}}),
                   Assigned(f, Texts(f, env, {i \in read : OperationsOf(f[i]) = {}}),
                            Sorted({i \in read : OperationsOf(f[i]) = {}})))
  BY DEF OverrideList
<1> HIDE DEF read
<1> QED
  BY <1>6, <1>7, <1>8, <1>9

-----------------------------------------------------------------------------
(* What the steps keep: a file of the pool, texts without references for   *)
(* the plain variables, the overrides these and the file give, unless the  *)
(* caller did, and in the end the values of all three.                     *)
Resolved ==
  /\ file \in Seq(Pool)
  /\ KnownTexts(known)
  /\ pc \in {"environment", "overrides"} => ~given
  /\ pc \in {"resolve", "done"} /\ ~given => active = ActiveOf(file, known)
  /\ pc = "done" => values = Resolution(file, active, known)

(* They keep it.                                                           *)
LEMMA ResolvedHolds == Spec => []Resolved
<1>1. Init => Resolved
  <2> SUFFICES ASSUME Init
               PROVE  Resolved
    OBVIOUS
  <2>1. file \in Seq(Pool)
    <3>1. PICK m \in 0..MaxAssignments : file \in [1..m -> Pool]
      BY DEF Init, SeqOf
    <3>2. m \in Nat
      BY BoundAssumption
    <3> QED
      BY <3>1, <3>2, IsSequence
  <2>2. KnownTexts(known)
    BY DEF Init, Nothing, KnownTexts
  <2> QED
    BY <2>1, <2>2 DEF Init, Resolved
<1>2. Resolved /\ [Next]_vars => Resolved'
  <2> SUFFICES ASSUME Resolved, [Next]_vars
               PROVE  Resolved'
    OBVIOUS
  <2> USE DEF Resolved
  <2>1. CASE Pass
    <3>1. KnownTexts(NextEnvironment(file, known))
      BY NextEnvironmentKnown
    <3>2. /\ known' = NextEnvironment(file, known) /\ pc' = "environment"
          /\ UNCHANGED <<file, given>> /\ ~given
      BY <2>1 DEF Pass
    <3>3. KnownTexts(known')
      BY <3>1, <3>2
    <3> QED
      BY <3>2, <3>3 DEF KnownTexts
  <2>2. CASE EndPasses
    BY <2>2 DEF EndPasses, KnownTexts
  <2>3. CASE ReadActive
    <3>1. /\ active' = ActiveOf(file, known) /\ pc' = "resolve"
          /\ UNCHANGED <<file, known>>
      BY <2>3 DEF ReadActive
    <3>2. ActiveOf(file', known') = ActiveOf(file, known)
      BY <3>1
    <3>3. (active = ActiveOf(file, known))' <=> active' = ActiveOf(file', known')
      OBVIOUS
    <3> QED
      BY <3>1, <3>2, <3>3 DEF KnownTexts
  <2>4. CASE TakeActive
    BY <2>4 DEF TakeActive, KnownTexts
  <2>5. CASE Resolve
    <3>1. /\ values' = Resolution(file, active, known) /\ pc' = "done" /\ pc = "resolve"
          /\ UNCHANGED <<file, known, active, given>>
      BY <2>5 DEF Resolve
    <3>2. /\ Resolution(file', active', known') = Resolution(file, active, known)
          /\ ActiveOf(file', known') = ActiveOf(file, known)
      BY <3>1
    <3>3. /\ (values = Resolution(file, active, known))'
             <=> values' = Resolution(file', active', known')
          /\ (active = ActiveOf(file, known))' <=> active' = ActiveOf(file', known')
      OBVIOUS
    <3> QED
      BY <3>1, <3>2, <3>3 DEF KnownTexts
  <2>6. CASE UNCHANGED vars
    <3>1. UNCHANGED <<file, known, active, given, values, pc>>
      BY <2>6 DEF vars
    <3>2. /\ Resolution(file', active', known') = Resolution(file, active, known)
          /\ ActiveOf(file', known') = ActiveOf(file, known)
      BY <3>1
    <3>3. /\ (values = Resolution(file, active, known))'
             <=> values' = Resolution(file', active', known')
          /\ (active = ActiveOf(file, known))' <=> active' = ActiveOf(file', known')
      OBVIOUS
    <3> QED
      BY <3>1, <3>2, <3>3 DEF KnownTexts
  <2> QED
    BY <2>1, <2>2, <2>3, <2>4, <2>5, <2>6 DEF Next
<1> QED
  BY <1>1, <1>2, PTL DEF Spec

(* No token that an effective removal names is left in the value of its    *)
(* variable, for every file, pool and list of active overrides             *)
(* (resolve_with_active_overrides, apply_operation_entries).               *)
THEOREM RemovedStays == Spec => []RemovedStaysRemoved
<1>1. Resolved => RemovedStaysRemoved
  <2> SUFFICES ASSUME Resolved, pc = "done", NEW i \in Entries(file, active, known),
                      KeyOf(file, active, known, i).operation = "remove",
                      ~KeyOf(file, active, known, i).selected,
                      KeyOf(file, active, known, i).base # OverridesName
               PROVE  Tokens(Expand(file[i].value, known))
                        \cap Tokens(values[KeyOf(file, active, known, i).base]) = {}
    BY DEF RemovedStaysRemoved
  <2> DEFINE entries == Entries(file, active, known)
             base(j) == KeyOf(file, active, known, j).base
             mine == {j \in entries : base(j) = base(i)}
  <2>1. values = Resolution(file, active, known) /\ file \in Seq(Pool) /\ TextsIn(known)
    BY KnownAreTexts DEF Resolved
  <2>2. values[base(i)] = ValueOf(file, active, known, mine)
    BY <2>1 DEF Resolution
  <2>3. mine \in SUBSET (DOMAIN file) /\ i \in mine
    BY DEF Entries
  <2> HIDE DEF mine
  <2>4. Tokens(Expand(file[i].value, known)) \cap Tokens(ValueOf(file, active, known, mine)) = {}
    BY <2>1, <2>3, ValueWithout
  <2> QED
    BY <2>2, <2>4
<1> QED
  BY <1>1, ResolvedHolds, PTL

(* What a reference expands to is what the variable resolves to, and       *)
(* OVERRIDES is read as any variable is, for every file, pool and list of  *)
(* active overrides (resolve_static_environment, resolve_override_list and *)
(* resolve_with_active_overrides).                                         *)
THEOREM EvaluationsAreAlike == Spec => []EvaluationsAgree
<1>1. Resolved => PlainValuesAgree
  <2> SUFFICES ASSUME Resolved, pc = "done", Settled(file, known),
                      NEW name \in DOMAIN values \ {OverridesName},
                      NEW mine,
                      mine = {i \in Entries(file, active, known) :
                                KeyOf(file, active, known, i).base = name},
                      \A i \in mine : /\ KeyOf(file, active, known, i).overrides = <<>>
                                     /\ OperationsOf(file[i]) = {},
                      \A i \in DOMAIN file :
                        IsPlain(file, known, i) /\ BaseIn(file, known, i) = name
                        => KeyOf(file, active, known, i).overrides = <<>>
               PROVE  name \in DOMAIN known /\ values[name] = known[name]
    BY DEF PlainValuesAgree
  <2> DEFINE plain == {i \in DOMAIN file : IsPlain(file, known, i)}
             own(x) == {i \in plain : BaseIn(file, known, i) = x}
             sum(S) == Assigned(file, Texts(file, known, S), LiteralFirst(file, S))
             next == NextEnvironment(file, known)
  <2>1. /\ values = Resolution(file, active, known) /\ file \in Seq(Pool)
        /\ KnownTexts(known) /\ TextsIn(known)
    BY KnownAreTexts DEF Resolved
  <2>2. mine # {} /\ values[name] = ValueOf(file, active, known, mine)
    BY <2>1 DEF Resolution
  <2>3. \A i \in mine : KeyOf(file, active, known, i).overrides = <<>>
    OBVIOUS
  <2>4. \A i \in mine : OperationsOf(file[i]) = {}
    OBVIOUS
  <2> HIDE DEF plain, own, sum, next
  <2>5. mine = {i \in DOMAIN file : IsPlain(file, known, i) /\ BaseIn(file, known, i) = name}
    <3>1. AllPlain(file, active, known, name, mine)
      BY <2>2, <2>3, <2>4 DEF AllPlain
    <3>2. /\ mine \subseteq DOMAIN file
          /\ \A i \in DOMAIN file :
               i \in mine <=> IsPlain(file, known, i) /\ BaseIn(file, known, i) = name
      BY <2>1, <3>1, PlainsAre
    <3> QED
      BY <3>2
  <2>6. mine = own(name) /\ mine \in SUBSET (DOMAIN file)
    BY <2>5 DEF own, plain
  <2>7. ValueOf(file, active, known, mine) = sum(mine)
    <3> DEFINE direct == {i \in mine : OperationsOf(file[i]) = {}}
    <3>1. mine \ direct = {} /\ direct = mine
      BY <2>4
    <3> HIDE DEF direct
    <3>2. ValueOf(file, active, known, mine)
            = Operated(file, known, Sorted(mine \ direct), sum(direct))
      BY <2>1, <2>6, <2>3, DirectOnly DEF direct, sum
    <3>3. sum(mine) \in Seq(Fragments)
      BY <2>1, <2>6, PlainTyped DEF sum
    <3> QED
      BY <2>1, <3>1, <3>2, <3>3, SortedNone, OperatedNone
  <2>8. next = known
    BY DEF Settled, next
  <2>9. next = [x \in {BaseIn(file, known, i) : i \in plain} |-> sum(own(x))]
    BY DEF NextEnvironment, next, sum, own, plain
  <2>10. name \in {BaseIn(file, known, i) : i \in plain}
    BY <2>2, <2>6 DEF own
  <2> QED
    BY <2>2, <2>6, <2>7, <2>8, <2>9, <2>10
<1>2. Resolved => OverridesReadAlike
  <2> SUFFICES ASSUME Resolved, pc \in {"resolve", "done"}, ~given,
                      NEW mine,
                      mine = {i \in Entries(file, <<>>, known) :
                                KeyOf(file, <<>>, known, i).base = OverridesName},
                      \A i \in mine : ~KeyOf(file, <<>>, known, i).expanded
               PROVE  active = OverrideTokens(ValueOf(file, <<>>, known, mine))
    BY DEF OverridesReadAlike
  <2>1. /\ active = OverrideTokens(OverrideList(file, known))
        /\ file \in Seq(Pool) /\ KnownTexts(known)
    BY DEF Resolved, ActiveOf
  <2> QED
    BY <2>1, ListIs
<1> QED
  BY <1>1, <1>2, ResolvedHolds, PTL DEF EvaluationsAgree

=============================================================================
