------------------------------ MODULE LintRules ------------------------------
(***************************************************************************)
(* The rules of src/lint.rs: what each one finds in a parsed file, its     *)
(* place and, for two of them, its fix.  A finding is a record, so two     *)
(* findings of one rule at one place are one.  A word of the text is a     *)
(* lexeme: the forms of a name that end in "_x" (SRC_URI_append) are not   *)
(* told apart from the name, a name such as BBFILE_PATTERN_core is the     *)
(* lexemes "BBFILE_PATTERN_" and "core", lengths count lexemes, and the    *)
(* digests of 32 and 64 digits are the lexemes "<32>" and "<64>".          *)
(***************************************************************************)
EXTENDS SyntaxTree, ShellBody

CONSTANTS
  SummaryLimit,   \* how long a SUMMARY may be
  IntegerWords,   \* the words that are integers of 32 bits
  Workspace       \* what the index answers about the layers, a record:
    \* files, classes  the candidates of a target, and of a class in a
    \*                 context, in search order: each is a file and its rank
    \*                 (priority and search scope together)
    \* leadsBack       the files, with contexts, whose dependencies lead back
    \*                 to the linted file
    \* sources         what a file that can be read and parsed assigns, and
    \*                 the targets it includes
    \* collections     the collections of the layers

VARIABLE
  path  \* what the lint knows of the path: whether it is a recipe or a layer
        \* configuration, indexed or in a complete layer, the class contexts,
        \* and the recipe name and version in it

Lookup(f, x) == IF x \in DOMAIN f THEN f[x] ELSE <<>>

-----------------------------------------------------------------------------
(* Words and values. *)

Words(t) ==
  LET begins == {i \in DOMAIN t : t[i] \notin White /\ (i = 1 \/ t[i - 1] \in White)}
      starts == SetToSortSeq(begins, <)
      end(i) == First({j \in i .. Len(t) : t[j] \in White} \cup {Len(t) + 1})
  IN [k \in DOMAIN starts |->
        [at |-> starts[k] - 1, word |-> SubSeq(t, starts[k], end(starts[k]) - 1)]]

Count(lexeme, t) == Cardinality({i \in DOMAIN t : t[i] = lexeme})

\* Mutant: a word with an expansion is skipped, not the words inside it.
RECURSIVE StaticFromFlat(_, _)
StaticFromFlat(ws, depth) ==
  IF ws = <<>> THEN <<>>
  ELSE LET word == Head(ws).word
       IN (IF \E l \in {"$", "{", "}"} : Occurs(l, word) \/ word = <<"\\">> THEN <<>>
           ELSE <<[Head(ws) EXCEPT !.word = WithoutLast(@, "\\")]>>)
          \o StaticFromFlat(Tail(ws), depth)

RECURSIVE StaticFrom(_, _)
\* The words outside expansions; depth braces are open.
StaticFrom(ws, depth) ==
  IF ws = <<>> THEN <<>>
  ELSE LET word == Head(ws).word
           open == depth + Count("{", word) - Count("}", word)
       IN IF depth > 0 \/ Occurs("$", word) \/ Occurs("{", word)
          THEN StaticFrom(Tail(ws), IF open > 0 THEN open ELSE 0)
          ELSE IF word = <<"\\">> \/ Occurs("}", word) THEN StaticFrom(Tail(ws), 0)
          ELSE <<[Head(ws) EXCEPT !.word = WithoutLast(@, "\\")]>> \o StaticFrom(Tail(ws), 0)

StaticWords(t) == StaticFrom(Words(t), 0)

RECURSIVE SplitOn(_, _)
SplitOn(t, lexeme) ==
  LET cut == First({i \in DOMAIN t : t[i] = lexeme})
  IN IF cut = 0 THEN <<t>> ELSE <<SubSeq(t, 1, cut - 1)>> \o SplitOn(From(t, cut + 1), lexeme)

RECURSIVE NextQuote(_, _, _)
NextQuote(t, i, quote) ==
  IF i > Len(t) THEN 0
  ELSE IF t[i] = "\\" THEN NextQuote(t, i + 2, quote)
  ELSE IF t[i] = quote THEN i ELSE NextQuote(t, i + 1, quote)

NoValue == [simple |-> FALSE, value |-> <<>>, at |-> 0]

\* The text between the quotes of a value that is nothing but quoted.
SimpleQuotedValue(t) ==
  LET value == TrimStart(t, Space)
      close == NextQuote(value, 2, value[1])
      rest  == Trim(From(value, close + 1))
  IN IF \/ value = <<>> \/ value[1] \notin Quotes \/ close = 0
        \/ rest # <<>> /\ rest[1] # "#" THEN NoValue
     ELSE [simple |-> TRUE, value |-> SubSeq(value, 2, close - 1),
           at |-> Len(t) - Len(value) + 1]

ScalarValue(t) ==
  LET value == Trim(t)
  IN IF value # <<>> /\ value[1] \in Quotes THEN SimpleQuotedValue(value)
     ELSE [simple |-> TRUE, value |-> Trim(SplitOn(value, "#")[1]), at |-> 0]

-----------------------------------------------------------------------------
(* Findings and the nodes they are about. *)

\* Where a fix is none, from is 0.
NoFix == [from |-> 0, to |-> 0, with |-> <<>>]

At(rule, place) == [rule |-> rule, at |-> place, fix |-> NoFix]

EndOfText == Len(text) + 1

LineOf(place) == 1 + Count("\n", SubSeq(text, 1, place - 1))

Start(k) == 1 + Len(FlattenSeq([j \in 1 .. k - 1 |-> nodes[j].text]))

\* A part that ends where the content of its node ends.
PartStart(k, part) == Start(k) + Len(Content(nodes[k].text)) - Len(part)

Of(kind) == {k \in DOMAIN nodes : nodes[k].kind = kind}

Assignments == Of("Assignment")
Name(k)      == nodes[k].name
Base(k)      == nodes[k].name[1]
Named(name)  == {k \in Assignments : Name(k) = name}

\* The assignments to a variable itself or in the scope of some overrides.
NamedOrScoped(base) ==
  {k \in Assignments : Base(k) = base /\ (Len(Name(k)) = 1 \/ Name(k)[2] = ":")}

NamePlace(k) ==
  LET left == AssignmentLeft(nodes[k].text) IN Start(k) + Len(left) - Len(Name(k))

ValuePlace(k) == PartStart(k, nodes[k].value)

Quoted(k) == SimpleQuotedValue(nodes[k].value)

\* A word of a part of the text, at its place in the text.
Placed(ws, from) == {[word |-> ws[j].word, at |-> from + ws[j].at] : j \in DOMAIN ws}

\* The static words of the quoted value of an assignment.
ValueWords(k) == Placed(StaticWords(Quoted(k).value), ValuePlace(k) + Quoted(k).at)

Directives(keywords) == {k \in Of("Directive") : nodes[k].keyword \in keywords}
Arguments(k)         == BeforeComment(nodes[k].arguments)
ArgumentPlace(k)     == PartStart(k, nodes[k].arguments)
ArgumentWords(k)     == Placed(StaticWords(Arguments(k)), ArgumentPlace(k))

-----------------------------------------------------------------------------
(* Rules on any file. *)

LineStarts == {i \in DOMAIN text : i = 1 \/ text[i - 1] = "\n"}

\* Mutant: the backslash of a continued line goes with the white space.
TrimmedLineBackslash(i) == TrimEnd(Content(Line(text, i)), Space \cup {"\\"})

TrimmedLine(i) == TrimEnd(Content(Line(text, i)), Space)

CheckTrailingWhitespace ==
  {LET from == i + Len(TrimmedLine(i))
       to   == i + Len(Content(Line(text, i)))
   IN [rule |-> "BBT001", at |-> from, fix |-> [from |-> from, to |-> to, with |-> <<>>]] :
     i \in {j \in LineStarts : TrimmedLine(j) # Content(Line(text, j))}}

CheckFinalNewline ==
  IF text = <<>> \/ text[Len(text)] = "\n" THEN {}
  ELSE {[rule |-> "BBT002", at |-> EndOfText,
         fix |-> [from |-> EndOfText, to |-> EndOfText, with |-> <<"\n">>]]}

CheckSummary ==
  {At("BBT003", NamePlace(k)) :
     k \in {j \in Named(<<"SUMMARY">>) : /\ Quoted(j).simple
                                         /\ ~\E l \in {"\r", "\n", "$"} : Occurs(l, Quoted(j).value)
                                         /\ Len(Quoted(j).value) > SummaryLimit}}

CheckAutorev ==
  LET reference == <<"$", "{", "AUTOREV", "}">>
      place(k)  == LET code == BeforeComment(nodes[k].value)
                   IN First({i \in DOMAIN code : StartsAt(code, i, reference)})
  IN {At("BBT004", ValuePlace(k) + place(k) - 1) :
        k \in {j \in NamedOrScoped("SRCREV") : place(j) # 0}}

CheckFilePaths ==
  {At("BBT014", Start(k) + OperatorStart(nodes[k].text) - 1) :
     k \in {j \in Assignments : /\ Base(j) = "FILESEXTRAPATHS"
                                /\ ~Occurs("[", Name(j))
                                /\ nodes[j].operator # <<":", "=">>}}

SourceWords == UNION {ValueWords(k) : k \in NamedOrScoped("SRC_URI")}

Scheme(uri, names) == \E n \in names : StartsAt(uri, 1, <<n, ":", "/", "/">>)

Parameters(uri) == Tail(SplitOn(uri, ";"))

CheckGitUriProtocol ==
  {At("BBT015", w.at) :
     w \in {u \in SourceWords :
              /\ Scheme(u.word, {"git"})
              /\ ~\E p \in ToSet(SplitOn(u.word, ";")) : StartsAt(p, 1, <<"protocol", "=">>)}}

\* The words that an earlier one of them is the same as.
Repeated(words) == {w \in words : \E u \in words : u.at < w.at /\ u.word = w.word}

CheckDuplicateAssignments ==
  LET direct == {k \in Assignments : /\ nodes[k].operator \in {<<"=">>, <<":", "=">>}
                                     /\ ~Occurs(":", Name(k))}
  IN {At("BBT016", w.at) : w \in Repeated({[word |-> Name(k), at |-> NamePlace(k)] : k \in direct})}

\* A function is placed at the start of its line.
CheckDuplicateFunctions ==
  LET named == {k \in Of("Function") : Name(k) # <<>>}
  IN {At("BBT017", w.at) : w \in Repeated({[word |-> Name(k), at |-> Start(k)] : k \in named})}

CheckEmptyDirectives ==
  {At("BBT018", Start(k)) :
     k \in {j \in Directives({"include", "include_all", "require", "inherit", "inherit_defer"}) :
              Trim(Arguments(j)) = <<>>}}

RECURSIVE InheritedFrom(_, _)
\* The classes among words, where an expansion runs to the first word with
\* a closing brace; dynamic while one is open.
InheritedFrom(ws, dynamic) ==
  IF ws = <<>> THEN <<>>
  ELSE LET word == Head(ws).word
       IN IF dynamic \/ Occurs("$", word) THEN InheritedFrom(Tail(ws), ~Occurs("}", word))
          ELSE IF word = <<"\\">> \/ Occurs("{", word) \/ Occurs("}", word)
          THEN InheritedFrom(Tail(ws), FALSE)
          ELSE <<Head(ws)>> \o InheritedFrom(Tail(ws), FALSE)

CheckDuplicateInherits ==
  LET classes == UNION {Placed(InheritedFrom(Words(Arguments(k)), FALSE), ArgumentPlace(k)) :
                          k \in Directives({"inherit", "inherit_defer"})}
  IN {At("BBT005", w.at) : w \in Repeated(classes)}

BodyRule == [ShellSyntax |-> "BBT034", PythonSyntax |-> "BBT035", PythonIndentation |-> "BBT036"]

CheckBodyDiagnostics ==
  UNION {LET n     == nodes[k]
             shell == n.kind = "Function" /\ n.language = "Shell"
             from  == Start(k) + IF n.kind = "Function" THEN FunctionOpeningBrace(Line(n.text, 1)).brace
                                 ELSE Len(n.text) - Len(n.body)
         IN {At(BodyRule[d.kind], from + d.from - 1) :
               d \in ToSet(IF shell THEN AnalyzeShellBody(n.body) ELSE AnalyzePythonBody(n.body))} :
         k \in Of("Function") \cup Of("PythonDefinition")}

-----------------------------------------------------------------------------
(* Overrides.  How OVERRIDES gets its value is the subject of module       *)
(* Overrides; here the last assignment to it has its whole value.          *)

ActiveOverrides ==
  LET lists == Named(<<"OVERRIDES">>)
      last  == CHOOSE k \in lists : \A j \in lists : j <= k
  IN IF lists = {} THEN {}
     ELSE UNION {ToSet(SplitOn(w.word, ":")) : w \in ValueWords(last)} \ {<<>>}

Operations == {<<"append">>, <<"prepend">>, <<"remove">>}

CheckUnknownOverrides ==
  LET key(k)        == SplitOn(Name(k), "[")[1]
      parts(k)      == Tail(SplitOn(key(k), ":"))
      components(k) == ToSet(parts(k)) \ Operations
      operations(k) == {j \in DOMAIN parts(k) : parts(k)[j] \in Operations}
  IN IF ActiveOverrides = {} THEN {}
     ELSE {At("BBT037", NamePlace(k)) :
             k \in {j \in Assignments : /\ Cardinality(operations(j)) <= 1
                                        /\ ~Occurs("$", key(j))
                                        /\ ~(components(j) \subseteq ActiveOverrides)}}

-----------------------------------------------------------------------------
(* References to other files of the layers. *)

Ambiguous(candidates) ==
  Cardinality({j \in DOMAIN candidates : candidates[j].rank = candidates[1].rank}) > 1

Cycle(place, candidate, context) ==
  IF <<candidate.file, context>> \in Workspace.leadsBack THEN {At("BBT010", place)} ELSE {}

FileCandidates(target) == Lookup(Workspace.files, target)

ClassCandidates(class, context) == Lookup(Workspace.classes[context], class)

CheckRequired(w) ==
  LET found == FileCandidates(w.word)
  IN IF found = <<>> THEN {At("BBT006", w.at)}
     ELSE (IF Ambiguous(found) THEN {At("BBT008", w.at)} ELSE {})
          \cup Cycle(w.at, found[1], path.contexts[1])

\* The first context in which the class is found and unambiguous, else the
\* first in which it is found.
CheckClassReference(w, contexts) ==
  LET found  == SelectSeq(contexts, LAMBDA c : ClassCandidates(w.word, c) # <<>>)
      clear  == SelectSeq(found, LAMBDA c : ~Ambiguous(ClassCandidates(w.word, c)))
      chosen == IF clear # <<>> THEN clear[1] ELSE found[1]
  IN IF found = <<>> THEN {At("BBT007", w.at)}
     ELSE (IF clear = <<>> THEN {At("BBT009", w.at)} ELSE {})
          \cup Cycle(w.at, ClassCandidates(w.word, chosen)[1], chosen)

CheckIncluded(w, all) ==
  LET found == FileCandidates(w.word)
  IN UNION {Cycle(w.at, found[j], path.contexts[1]) :
              j \in {i \in DOMAIN found : all \/ i = 1}}

NamesGlobalClasses(k) ==
  LET parts == SplitOn(Name(k), ":")
  IN parts[1] \in {<<"INHERIT">>, <<"USER_CLASSES">>} /\ <<"remove">> \notin ToSet(Tail(parts))

CheckWorkspaceReferences ==
  LET global == {k \in Assignments : "Global" \in ToSet(path.contexts) /\ NamesGlobalClasses(k)}
      wordsOf(keyword) == UNION {ArgumentWords(k) : k \in Directives(keyword)}
  IN UNION ({CheckClassReference(w, <<"Global">>) : w \in UNION {ValueWords(k) : k \in global}}
       \cup {CheckRequired(w) : w \in wordsOf({"require"})}
       \cup {CheckClassReference(w, path.contexts) : w \in wordsOf({"inherit", "inherit_defer"})}
       \cup {CheckIncluded(w, FALSE) : w \in wordsOf({"include"})}
       \cup {CheckIncluded(w, TRUE) : w \in wordsOf({"include_all"})})

-----------------------------------------------------------------------------
(* Recipes.  Their path gives the name and the version they must have.     *)

RECURSIVE Substituted(_)
\* A target with the recipe's name for ${PN} and ${BPN}.
Substituted(t) ==
  IF t = <<>> THEN <<>>
  ELSE IF \E n \in {"PN", "BPN"} : StartsAt(t, 1, <<"$", "{", n, "}">>)
  THEN path.name \o Substituted(From(t, 5))
  ELSE <<t[1]>> \o Substituted(Tail(t))

Followed(included) ==
  UNION {LET found == FileCandidates(i.target)
         IN {found[j].file : j \in {n \in DOMAIN found : i.all \/ n = 1}} : i \in included}

RECURSIVE IncludedFiles(_)
\* The readable files the given ones include, and those they include.
IncludedFiles(files) ==
  LET more == UNION {Followed(Workspace.sources[f].includes) : f \in files}
              \cap DOMAIN Workspace.sources
  IN IF more \subseteq files THEN files ELSE IncludedFiles(files \cup more)

\* The names the recipe and the files it includes assign.
RecipeAssignments ==
  LET keywords == {"include", "include_all", "require"}
      target(w) == Substituted(WithoutLast(w.word, "\\"))
      included == UNION {{[target |-> target(w), all |-> nodes[k].keyword = "include_all"] :
                            w \in {v \in ToSet(Words(Arguments(k))) :
                                     ~\E l \in {"$", "{", "}"} : Occurs(l, target(v))}} :
                         k \in Directives(keywords)}
      files == IncludedFiles(Followed(included) \cap DOMAIN Workspace.sources)
  IN {Name(k) : k \in Assignments} \cup UNION {Workspace.sources[f].assigns : f \in files}

Metadata == [BBT011 |-> "SUMMARY", BBT012 |-> "DESCRIPTION", BBT013 |-> "LICENSE"]

CheckRecipeMetadata ==
  {At(rule, EndOfText) : rule \in {r \in DOMAIN Metadata : <<Metadata[r]>> \notin RecipeAssignments}}

CheckRecipeIdentity ==
  LET differs(name, value) ==
        {k \in Named(<<name>>) : /\ Quoted(k).simple
                                 /\ ~Occurs("$", Quoted(k).value)
                                 /\ Quoted(k).value # value}
      static == \A l \in {"$", "%"} : ~Occurs(l, path.name \o path.version)
  IN IF path.name = <<>> \/ path.version = <<>> \/ ~static THEN {}
     ELSE {At("BBT020", NamePlace(k)) : k \in differs("PN", path.name)}
          \cup {At("BBT021", NamePlace(k)) : k \in differs("PV", path.version)}

Digest == [md5 |-> "<32>", md5sum |-> "<32>", sha256 |-> "<64>", sha256sum |-> "<64>"]

HasValidChecksum(uri, key) ==
  \E p \in ToSet(Parameters(uri)) :
    /\ StartsAt(p, 1, <<key, "=">>)
    /\ LET value == From(p, 3)
       IN \/ StartsAt(value, 1, <<"$", "{">>) /\ Last(value) = "}"
          \/ value = <<Digest[key]>>

LastNamed(name) == LET S == Named(<<name>>) IN CHOOSE k \in S : \A j \in S : j <= k

CheckLicenseChecksum ==
  LET license  == LastNamed("LICENSE")
      checksum == LastNamed("LIC_FILES_CHKSUM")
      uris     == {[w EXCEPT !.word = WithoutLast(@, "\\")] :
                     w \in Placed(Words(Quoted(checksum).value),
                                  ValuePlace(checksum) + Quoted(checksum).at)}
      files    == {u \in uris : Scheme(u.word, {"file"})}
  IN IF \/ Named(<<"LICENSE">>) = {} \/ ~Quoted(license).simple
        \/ \E w \in ToSet(Words(Quoted(license).value)) : w.word = <<"CLOSED">> THEN {}
     ELSE IF Named(<<"LIC_FILES_CHKSUM">>) = {} THEN {At("BBT022", NamePlace(license))}
     ELSE {At("BBT022", u.at) : u \in {f \in files : ~\E key \in {"md5", "sha256"} :
                                                       HasValidChecksum(f.word, key)}}
          \cup (IF files = {} /\ Trim(Quoted(checksum).value) # <<>>
                THEN {At("BBT022", NamePlace(checksum))} ELSE {})

CheckSourceChecksums ==
  {At("BBT023", w.at) :
     w \in {u \in SourceWords : /\ Scheme(u.word, {"http", "https", "ftp"})
                                /\ ~\E key \in {"md5sum", "sha256sum"} :
                                      HasValidChecksum(u.word, key)}}

\* The feature of a name PACKAGECONFIG[feature], <<>> for another name.
PackageconfigFeature(name) ==
  IF StartsAt(name, 1, <<"PACKAGECONFIG", "[">>) THEN SubSeq(name, 3, Len(name) - 1) ELSE <<>>

CheckPackageconfig ==
  LET tooLong == {k \in Assignments : /\ PackageconfigFeature(Name(k)) # <<>>
                                      /\ ~Occurs("$", Quoted(k).value)
                                      /\ Len(SplitOn(Quoted(k).value, ",")) > 6}
      defined == {PackageconfigFeature(name) : name \in RecipeAssignments}
  IN {At("BBT025", NamePlace(k)) : k \in tooLong}
     \cup {At("BBT024", w.at) :
             w \in {v \in UNION {ValueWords(k) : k \in NamedOrScoped("PACKAGECONFIG")} :
                       v.word \notin defined}}

\* The package of a name such as FILES:package, <<>> for another name.
PackageScope(name) ==
  IF /\ name[1] \in {"FILES", "RDEPENDS", "RRECOMMENDS", "RPROVIDES", "RCONFLICTS", "RREPLACES"}
     /\ Len(name) > 1 /\ name[2] = ":"
  THEN SplitOn(name, ":")[2] ELSE <<>>

CheckPackageScope ==
  LET listed   == UNION {ValueWords(k) : k \in Named(<<"PACKAGES">>)}
      packages == {w.word : w \in listed}
      dynamic  == UNION {ValueWords(k) : k \in NamedOrScoped("PACKAGES_DYNAMIC")}
      prefixes == {SubSeq(w.word, 2, Len(w.word) - 2) :
                     w \in {v \in dynamic : /\ StartsAt(v.word, 1, <<"^">>)
                                            /\ IsSuffix(<<".", "*">>, v.word)}}
      scoped   == {k \in Assignments : PackageScope(Name(k)) # <<>>}
      known(p) == Occurs("$", p) \/ p \in packages \/ \E q \in prefixes : IsPrefix(q, p)
  IN {At("BBT027", w.at) : w \in Repeated(listed)}
     \cup (IF packages = {} THEN {}
           ELSE {At("BBT026", NamePlace(k)) : k \in {j \in scoped : ~known(PackageScope(Name(j)))}})

InvalidParameter(uri, j) ==
  LET p      == Parameters(uri)
      key(i) == SplitOn(p[i], "=")[1]
      value  == From(p[j], Len(key(j)) + 2)
      git    == Scheme(uri, {"git", "gitsm"})
  IN /\ Occurs("=", p[j])
     /\ \/ key(j) = <<>>
        \/ \E i \in 1 .. j - 1 : Occurs("=", p[i]) /\ key(i) # <<>> /\ key(i) = key(j)
        \/ value = <<>> /\ key(j) # <<"destsuffix">>
        \/ key(j) \in {<<"branch">>, <<"protocol">>} /\ ~git
        \/ key(j) = <<"protocol">>
           /\ value \notin {<<n>> : n \in {"git", "http", "https", "ssh", "file"}}

\* A parameter is placed where its text first occurs in the URI.
CheckUriParameters ==
  LET place(uri, p) == First({i \in DOMAIN uri : StartsAt(uri, i, p)})
  IN UNION {{At("BBT028", w.at + place(w.word, Parameters(w.word)[j]) - 1) :
               j \in {i \in DOMAIN Parameters(w.word) : InvalidParameter(w.word, i)}} :
            w \in SourceWords}

CheckRecipeQa ==
  CheckRecipeIdentity \cup CheckLicenseChecksum \cup CheckSourceChecksums
  \cup CheckPackageconfig \cup CheckPackageScope \cup CheckUriParameters

-----------------------------------------------------------------------------
(* Layer configurations. *)

CheckLayerValue(rule, prefix, collection, fits(_)) ==
  LET set == Named(<<prefix>> \o collection)
      k   == First(set)
  IN IF set = {} THEN {At(rule, EndOfText)}
     ELSE IF fits(ScalarValue(nodes[k].value)) THEN {} ELSE {At(rule, NamePlace(k))}

IsInteger(value) ==
  LET digits == IF value # <<>> /\ value[1] \in {"+", "-"} THEN Tail(value) ELSE value
  IN Len(digits) = 1 /\ digits[1] \in IntegerWords

CheckLayerDepends(collection) ==
  LET set == Named(<<"LAYERDEPENDS_">> \o collection)
  IN IF set = {} THEN {}
     ELSE {At("BBT032", w.at) :
             w \in {v \in ValueWords(First(set)) : /\ v.word[1] # "("
                                                   /\ Last(v.word) # ")"
                                                   /\ v.word \notin Workspace.collections}}

CheckCollection(collection) ==
  LET filled(v)  == v.simple /\ v.value # <<>>
      integer(v) == v.simple /\ (Occurs("$", v.value) \/ IsInteger(v.value))
  IN CheckLayerValue("BBT030", "BBFILE_PATTERN_", collection, filled)
     \cup CheckLayerValue("BBT031", "BBFILE_PRIORITY_", collection, integer)
     \cup CheckLayerValue("BBT033", "LAYERSERIES_COMPAT_", collection, filled)
     \cup CheckLayerDepends(collection)

CheckLayerQa ==
  LET lists    == Named(<<"BBFILE_COLLECTIONS">>)
      declared == UNION {ValueWords(k) : k \in lists}
      dynamic  == \E k \in lists : Occurs("$", Quoted(k).value) \/ Occurs("{", Quoted(k).value)
  IN IF declared = {} THEN (IF dynamic THEN {} ELSE {At("BBT029", EndOfText)})
     ELSE {At("BBT029", w.at) : w \in Repeated(declared)}
          \cup UNION {CheckCollection(c) : c \in {w.word : w \in declared}}

-----------------------------------------------------------------------------
(* All the rules that apply to the file. *)

CollectLintDiagnostics ==
  CheckTrailingWhitespace \cup CheckFinalNewline
  \cup CheckSummary \cup CheckAutorev \cup CheckFilePaths \cup CheckGitUriProtocol
  \cup CheckDuplicateAssignments \cup CheckDuplicateFunctions \cup CheckBodyDiagnostics
  \cup CheckUnknownOverrides \cup CheckEmptyDirectives \cup CheckDuplicateInherits

Diagnostics ==
  CollectLintDiagnostics
  \cup (IF path.recipe THEN CheckRecipeQa ELSE {})
  \cup (IF path.indexed THEN CheckWorkspaceReferences ELSE {})
  \cup (IF path.complete /\ path.recipe THEN CheckRecipeMetadata ELSE {})
  \cup (IF path.complete /\ path.layer THEN CheckLayerQa ELSE {})

=============================================================================
