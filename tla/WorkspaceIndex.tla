--------------------------- MODULE WorkspaceIndex ---------------------------
(***************************************************************************)
(* The WorkspaceIndex of src/workspace.rs, from the set of files it is     *)
(* built from (see WorkspaceResolution) to what it answers: the layers and *)
(* their order, the search paths, the candidates of a class or an included *)
(* file, the dependency edges and the search for a cycle among them.       *)
(*                                                                         *)
(* A path is a sequence of names, each the sequence of its parts: a file's *)
(* name ends with its extension, and a name that continues another one has *)
(* its parts first, since a pattern is compared as text and a directory is *)
(* not.  Paths are canonical.                                              *)
(***************************************************************************)
EXTENDS Integers, FiniteSets, SequencesExt

CONSTANTS
  Worlds,      \* the builds to consider
  Rank,        \* the place of each name in the alphabet
  MaxRetained  \* bound: how often the caller narrows the files down

VARIABLES
  world,    \* the build: its directory, BBLAYERS, what each layer.conf says,
            \* BitBake's environment, the references of each file and the
            \* files that the caller keeps
  index,    \* the index
  stage,    \* "files", "context", "ready", "search", "trace" or "answered"
  retained, \* how often the files were narrowed down
  asked,    \* dependency_cycle_for: from, to and context
  queue,    \* the paths to visit
  current,  \* the path being visited
  edges,    \* what is left of its edges
  visited, parents,
  tail,     \* the witness, from its end
  answer

Paths == Seq(DOMAIN Rank)

\* The alphabet orders names completely, those of conf and the class directories too.
ASSUME RankAssumption ==
  /\ {<<"classes">>, <<"classes-global">>, <<"classes-recipe">>, <<"conf">>} \subseteq DOMAIN Rank
  /\ \A a, b \in DOMAIN Rank : Rank[a] \in Nat /\ (Rank[a] = Rank[b] => a = b)

search == <<asked, queue, current, edges, visited, parents, tail, answer>>
vars == <<world, index, stage, retained, search>>

LayerConf == <<<<"conf">>, <<"layer", "conf">>>>
Below(path, root) == IsPrefix(root, path)
Extension(path) == Last(Last(path))
Among(path, directory) == \E k \in DOMAIN path : path[k] = <<directory>>

Precedes(p, q) ==
  \/ IsStrictPrefix(p, q)
  \/ \E k \in DOMAIN p \cap DOMAIN q :
       (\A j \in 1 .. k - 1 : p[j] = q[j]) /\ Rank[p[k]] < Rank[q[k]]

First(indices) == IF indices = {} THEN 0 ELSE Min(indices)

\* The members of a finite set in an order, which is a set of pairs.
Ordered(S, order) ==
  [k \in 1 .. Cardinality(S) |->
     CHOOSE s \in S : Cardinality({t \in S : <<t, s>> \in order}) = k - 1]

\* The elements of a sequence at some of its places.
At(s, places) ==
  LET order == Ordered(places, {p \in places \X places : p[1] < p[2]})
  IN [k \in DOMAIN order |-> s[order[k]]]

\* The first entry for each path.
FirstOfEach(entries) ==
  At(entries, {i \in DOMAIN entries : \A j \in 1 .. i - 1 : entries[j].path # entries[i].path})

-----------------------------------------------------------------------------
(* Layers. *)

NoMetadata == [collections |-> <<>>, patterns |-> <<>>, priorities |-> <<>>, bbpath |-> <<>>]

PriorityOf(metadata) ==
  LET of(collections) ==
        {metadata.priorities[c] : c \in collections \cap DOMAIN metadata.priorities}
      all == Range(metadata.priorities)
  IN IF of(Range(metadata.collections)) # {} THEN Max(of(Range(metadata.collections)))
     ELSE IF all # {} THEN Max(all) ELSE 0

\* The text of the pattern is a prefix of the text of the path.
PatternMatches(pattern, path) ==
  /\ pattern # <<>> /\ Len(pattern) <= Len(path)
  /\ IsPrefix(Front(pattern), path)
  /\ IsPrefix(Last(pattern), path[Len(pattern)])

CollectionFor(metadata, path) ==
  LET matching == SelectSeq(metadata.collections,
                    LAMBDA c : c \in DOMAIN metadata.patterns
                               /\ PatternMatches(metadata.patterns[c], path))
  IN IF matching # <<>> THEN Head(matching)
     ELSE IF Len(metadata.collections) = 1 THEN metadata.collections[1] ELSE "none"

NewLayer(root, all) ==
  LET metadata == IF root \o LayerConf \in all THEN world.conf[root] ELSE NoMetadata
  IN [root |-> root, files |-> {f \in all : Below(f, root)}, metadata |-> metadata,
      priority |-> PriorityOf(metadata)]

IsComplete(layer) == layer.root \o LayerConf \in layer.files

HigherFirst(l, m) ==
  l.priority > m.priority \/ (l.priority = m.priority /\ Precedes(l.root, m.root))

\* The first layer, in their order, that contains a path; 0 if none does.
Containing(layers, path) == First({i \in DOMAIN layers : Below(path, layers[i].root)})

BuildSearchPaths(layers) ==
  LET paths(l) == IF l.metadata.bbpath = <<>> THEN <<l.root>> ELSE l.metadata.bbpath
      owner(i, path) == IF Containing(layers, path) # 0 THEN Containing(layers, path) ELSE i
  IN FirstOfEach(FlattenSeq([i \in DOMAIN layers |->
       [k \in DOMAIN paths(layers[i]) |->
          [path |-> paths(layers[i])[k], layer |-> owner(i, paths(layers[i])[k])]]]))

IsWorkspaceFile(x, path) ==
  \/ x.authoritative /\ path \in x.files
  \/ path \in x.buildFiles
  \/ \E i \in DOMAIN x.layers : IsComplete(x.layers[i]) /\ path \in x.layers[i].files

-----------------------------------------------------------------------------
(* Candidates. *)

Candidate(layer, path, scope) ==
  [path |-> path, layer |-> layer.root, priority |-> layer.priority,
   collection |-> CollectionFor(layer.metadata, path), scope |-> scope]

\* What the search paths hold under a relative path, in their order.
Searched(x, relative, scope) ==
  LET layer(k) == x.layers[x.searchPaths[k].layer]
      path(k)  == x.searchPaths[k].path \o relative
  IN At([k \in DOMAIN x.searchPaths |-> Candidate(layer(k), path(k), scope)],
        {k \in DOMAIN x.searchPaths : path(k) \in layer(k).files})

ScopedDirectory(context) == IF context = "Global" THEN "classes-global" ELSE "classes-recipe"

ClassCandidates(x, class, context) ==
  LET in(directory) == Searched(x, <<<<directory>>>> \o class, directory)
  IN FirstOfEach(in(ScopedDirectory(context)) \o in("classes"))

\* candidate_for_path: in the first layer that has the file, or in the build,
\* whose first file is right in conf, so that build_root is its directory.
CandidateAt(x, path) ==
  LET holder == First({i \in DOMAIN x.layers : path \in x.layers[i].files})
  IN IF holder # 0 THEN <<Candidate(x.layers[holder], path, "CurrentFile")>>
     ELSE IF path \in x.buildFiles
     THEN <<[path |-> path, layer |-> world.build, priority |-> 0, collection |-> "none",
             scope |-> "CurrentFile"]>>
     ELSE <<>>

FileCandidates(x, from, reference) ==
  LET beside == CandidateAt(x, Front(from) \o reference.target)
  IN IF reference.absolute THEN CandidateAt(x, reference.target)
     ELSE IF reference.kind # "IncludeAll" /\ beside # <<>> THEN beside
     ELSE FirstOfEach(Searched(x, reference.target, "Bbpath"))

-----------------------------------------------------------------------------
(* Dependencies. *)

ContextsFor(path) ==
  IF Extension(path) = "conf" \/ Among(path, "classes-global") THEN {"Global"}
  ELSE IF Extension(path) \in {"bb", "bbappend"} \/ Among(path, "classes-recipe") THEN {"Recipe"}
  ELSE {"Recipe", "Global"}

FileKinds   == {"Include", "IncludeAll", "Require"}
ClassKinds  == {"Inherit", "InheritDefer"}
GlobalKinds == {"InheritGlobal", "UserClasses"}

CandidatesFor(x, from, reference, context) ==
  IF reference.kind \in FileKinds THEN FileCandidates(x, from, reference)
  ELSE IF reference.kind \in ClassKinds \/ context = "Global"
  THEN ClassCandidates(x, reference.target, context)
  ELSE <<>>

\* A class has a name and no path.
References ==
  {r \in [kind : FileKinds \cup ClassKinds \cup GlobalKinds, target : Paths, absolute : BOOLEAN] :
     r.absolute => r.kind \in FileKinds}

\* Where a conf/layer.conf is among some files.
LayerRoots(files) == {Front(Front(f)) : f \in {g \in files : IsSuffix(LayerConf, g)}}

\* The builds to consider name layers and search paths, their files refer to
\* classes and files, and layer.conf gives paths and numbers.
ASSUME WorldsAssumption ==
  \A w \in Worlds :
    LET env   == w.environment
        roots == w.layers \cup Range(env.bbpath) \cup LayerRoots(w.kept)
    IN /\ env.bbpath \in Seq(Paths) /\ env.collections \in Seq(Range(env.collections))
       /\ w.build \in Paths /\ w.layers \in SUBSET Paths /\ IsFiniteSet(w.layers)
       /\ DOMAIN w.texts \in SUBSET Paths /\ IsFiniteSet(w.kept) /\ w.kept \subseteq DOMAIN w.texts
       /\ \A f \in DOMAIN w.texts : w.texts[f] \subseteq References
       /\ \A root \in roots :
            root \o LayerConf \in DOMAIN w.texts =>
              LET conf == w.conf[root]
              IN /\ IsFiniteSet(DOMAIN conf.priorities) /\ conf.bbpath \in Seq(Paths)
                 /\ \A c \in DOMAIN conf.priorities : conf.priorities[c] \in Int

\* The files a reference leads to: all candidates of include_all, the first
\* of any other.
LeadsTo(x, from, reference, context) ==
  LET candidates == CandidatesFor(x, from, reference, context)
  IN {candidates[k].path :
        k \in {j \in DOMAIN candidates : j = 1 \/ reference.kind = "IncludeAll"}}

Edge(from, to, context, kind) == [from |-> from, to |-> to, context |-> context, kind |-> kind]

BuildDependencies(x) ==
  UNION {UNION {UNION {{Edge(from, to, context, reference.kind) :
        to \in LeadsTo(x, from, reference, context)} :
      context \in ContextsFor(from)} :
    reference \in world.texts[from]} :
  from \in {f \in x.files : IsWorkspaceFile(x, f)}}

-----------------------------------------------------------------------------
(* Construction. *)

FromCanonicalFiles(all, build, roots) ==
  LET found  == {NewLayer(root, all) : root \in roots}
      layers == Ordered(found, {p \in found \X found : HigherFirst(p[1], p[2])})
      bare   == [layers |-> layers, searchPaths |-> BuildSearchPaths(layers), files |-> all,
                 buildFiles |-> build, authoritative |-> FALSE, edges |-> {}]
  IN [bare EXCEPT !.edges = BuildDependencies(bare)]

NoIndex == [layers |-> <<>>, searchPaths |-> <<>>, files |-> {}, buildFiles |-> {},
            authoritative |-> FALSE, edges |-> {}]
NoSearch ==
  /\ asked = [from |-> <<>>, to |-> <<>>, context |-> ""]
  /\ queue = <<>> /\ current = <<>> /\ edges = {} /\ visited = {} /\ parents = <<>>
  /\ tail = <<>> /\ answer = <<>>

Init ==
  /\ world \in Worlds
  /\ index = NoIndex /\ stage = "files" /\ retained = 0 /\ NoSearch

Disk == DOMAIN world.texts

BuildFiles == {f \in Disk : Below(f, world.build \o <<<<"conf">>>>)}

Built(all, build, roots, next) ==
  /\ stage = "files"
  /\ index' = FromCanonicalFiles(all, build, roots)
  /\ stage' = next
  /\ UNCHANGED <<world, retained, search>>

\* from_paths: a layer is where a conf/layer.conf was supplied.
FromPaths ==
  Built(world.kept, {}, LayerRoots(world.kept), "ready")

\* from_build_dir: everything in the layers and the build's configuration.
FromBuildDir ==
  LET inLayers == {f \in Disk : \E root \in world.layers : Below(f, root)}
  IN Built(inLayers \cup BuildFiles, BuildFiles, world.layers, "ready")

\* from_bitbake_with_runner: what BitBake resolved and the caller keeps; each
\* entry of BBPATH is a layer as well.
FromBitbake ==
  Built(world.kept, BuildFiles \cap world.kept,
        world.layers \cup Range(world.environment.bbpath), "context")

\* Mutant: a layer keeps the priority its layer.conf gave.
DescribedByItself(layer) == layer

\* A layer as BitBake's environment describes it.
Described(layer) ==
  LET env  == world.environment
      mine == IF IsComplete(layer)
              THEN At(env.collections,
                      {k \in DOMAIN env.collections :
                         /\ env.collections[k] \in DOMAIN env.patterns
                         /\ PatternMatches(env.patterns[env.collections[k]], layer.root)})
              ELSE <<>>
      metadata == [collections |-> mine,
                   patterns    |-> Restrict(env.patterns, Range(mine)),
                   priorities  |-> Restrict(env.priorities, Range(mine) \cap DOMAIN env.priorities),
                   bbpath      |-> layer.metadata.bbpath]
  IN [layer EXCEPT !.metadata = metadata, !.priority = PriorityOf(metadata)]

DescribedSearchPaths(layers) ==
  LET bbpath == world.environment.bbpath
      above(path) == First({i \in DOMAIN layers : Below(layers[i].root, path)})
      owner(path) == IF Containing(layers, path) # 0 THEN Containing(layers, path)
                     ELSE IF above(path) # 0 THEN above(path) ELSE 1
  IN IF bbpath = <<>> THEN BuildSearchPaths(layers)
     ELSE FirstOfEach([k \in DOMAIN bbpath |-> [path |-> bbpath[k], layer |-> owner(bbpath[k])]])

\* The layers stay in the order of the priorities their own files gave.
ApplyBitbakeContext ==
  /\ stage = "context"
  /\ LET layers == [i \in DOMAIN index.layers |-> Described(index.layers[i])]
         bare   == [index EXCEPT !.layers = layers, !.authoritative = TRUE,
                                 !.searchPaths = DescribedSearchPaths(layers)]
     IN index' = [bare EXCEPT !.edges = BuildDependencies(bare)]
  /\ stage' = "ready"
  /\ UNCHANGED <<world, retained, search>>

\* Mutant: the edges are those of all files.
RetainedWithEdges(kept) ==
  [index EXCEPT !.files = @ \cap kept, !.buildFiles = @ \cap kept,
                !.layers = [i \in DOMAIN @ |-> [@[i] EXCEPT !.files = @ \cap kept]]]

Retained(kept) ==
  LET layers == [i \in DOMAIN index.layers |-> [index.layers[i] EXCEPT !.files = @ \cap kept]]
      bare   == [index EXCEPT !.files = @ \cap kept, !.buildFiles = @ \cap kept,
                              !.layers = layers]
  IN [bare EXCEPT !.edges = BuildDependencies(bare)]

RetainFiles ==
  /\ stage = "ready" /\ retained < MaxRetained
  /\ \E f \in index.files : index' = Retained(index.files \ {f})
  /\ retained' = retained + 1
  /\ UNCHANGED <<world, stage, search>>

-----------------------------------------------------------------------------
(* dependency_cycle_for, asked for a reference and what it leads to: a     *)
(* breadth-first search from there.                                        *)

Ask ==
  /\ stage = "ready"
  /\ \E e \in index.edges :
       /\ asked' = [from |-> e.from, to |-> e.to, context |-> e.context]
       /\ IF e.from = e.to
          THEN answer' = <<e.from, e.from>> /\ stage' = "answered" /\ UNCHANGED <<queue, visited>>
          ELSE queue' = <<e.to>> /\ visited' = {e.to} /\ stage' = "search" /\ UNCHANGED answer
  /\ UNCHANGED <<world, index, retained, current, edges, parents, tail>>

\* Mutant: the search leaves the context it was asked for.
FollowingAny(path) == {e.to : e \in {d \in index.edges : d.from = path}}

Following(path) ==
  {e.to : e \in {d \in index.edges : d.from = path /\ d.context = asked.context}}

Pop ==
  /\ stage = "search" /\ edges = {} /\ queue # <<>>
  /\ current' = Head(queue) /\ queue' = Tail(queue)
  /\ edges' = Following(Head(queue)) \ visited
  /\ UNCHANGED <<world, index, stage, retained, asked, visited, parents, tail, answer>>

Visit ==
  /\ stage = "search"
  /\ \E next \in edges :
       /\ \A other \in edges : ~Precedes(other, next)
       /\ edges' = edges \ {next}
       /\ visited' = visited \cup {next}
       /\ parents' = [p \in visited' \ {asked.to} |-> IF p = next THEN current ELSE parents[p]]
       /\ IF next = asked.from
          THEN tail' = <<next>> /\ stage' = "trace" /\ UNCHANGED queue
          ELSE queue' = Append(queue, next) /\ UNCHANGED <<tail, stage>>
  /\ UNCHANGED <<world, index, retained, asked, current, answer>>

\* Back to `to` over the parents; a path without a parent would end it.
Trace ==
  /\ stage = "trace"
  /\ IF Head(tail) \in DOMAIN parents \ {asked.to}
     THEN tail' = <<parents[Head(tail)]>> \o tail /\ UNCHANGED <<stage, answer>>
     ELSE /\ answer' = IF Head(tail) = asked.to THEN <<asked.from>> \o tail ELSE <<>>
          /\ stage' = "answered" /\ UNCHANGED tail
  /\ UNCHANGED <<world, index, retained, asked, queue, current, edges, visited, parents>>

NoCycle ==
  /\ stage = "search" /\ edges = {} /\ queue = <<>>
  /\ stage' = "answered"
  /\ UNCHANGED <<world, index, retained, search>>

Next ==
  \/ FromPaths
  \/ FromBuildDir
  \/ FromBitbake
  \/ ApplyBitbakeContext
  \/ RetainFiles
  \/ Ask
  \/ Pop
  \/ Visit
  \/ Trace
  \/ NoCycle

Spec == Init /\ [][Next]_vars

-----------------------------------------------------------------------------
(* What BitBake does. *)

Ready == stage = "ready"

\* The paths BitBake tries for a reference, in its order.
Places(from, reference, context) ==
  LET bbpath == world.environment.bbpath
      under(directory) == [k \in DOMAIN bbpath |-> bbpath[k] \o directory \o reference.target]
      beside == IF reference.kind = "IncludeAll" THEN <<>> ELSE <<Front(from) \o reference.target>>
  IN IF reference.absolute THEN <<reference.target>>
     ELSE IF reference.kind \in FileKinds THEN beside \o under(<<>>)
     ELSE under(<<<<ScopedDirectory(context)>>>>) \o under(<<<<"classes">>>>)

\* The files in a layer or in the build's configuration.
Findable(path) ==
  /\ path \in index.files
  /\ path \in index.buildFiles \/ Containing(index.layers, path) # 0

\* The files of the index BitBake would open for a reference.
Opened(from, reference, context) ==
  LET places == Places(from, reference, context)
      found  == {k \in DOMAIN places : Findable(places[k])}
  IN IF reference.kind \in GlobalKinds /\ context # "Global" THEN {}
     ELSE {places[k] : k \in {j \in found : reference.kind = "IncludeAll"
                                             \/ \A i \in found : j <= i}}

\* If BitBake told its BBPATH, the dependency graph is the one its own search
\* gives over the files of the index, also after files were removed from it:
\* the sorting of layers, the owner that is looked up for a search path, and
\* edges made before the files or the context changed leave no trace.
EdgesAsSearched ==
  Ready /\ index.authoritative /\ world.environment.bbpath # <<>> =>
    \A from \in index.files, context \in {"Recipe", "Global"} :
      LET references == IF context \in ContextsFor(from) THEN world.texts[from] ELSE {}
      IN {<<e.kind, e.to>> : e \in {d \in index.edges : d.from = from /\ d.context = context}}
         = UNION {{<<r.kind, to>> : to \in Opened(from, r, context)} : r \in references}

AllCandidates ==
  UNION {UNION {UNION {Range(CandidatesFor(index, from, reference, context)) :
        context \in ContextsFor(from)} :
      reference \in world.texts[from]} :
    from \in index.files}

Roots == {index.layers[i].root : i \in DOMAIN index.layers}

\* What layer.conf gave the layer when the index was made.
OwnPriority(root) ==
  IF root \o LayerConf \in world.kept THEN PriorityOf(world.conf[root]) ELSE 0

\* The collections a layer declares, and whether the patterns, taken as text,
\* tell the layer by them and no others.
Declares(root) == Range(world.environment.collections) \cap Range(world.conf[root].declares)
Told(root) ==
  LET env == world.environment
  IN /\ Declares(root) # {} /\ Declares(root) \subseteq DOMAIN env.priorities
     /\ {c \in DOMAIN env.patterns : PatternMatches(env.patterns[c], root)} = Declares(root)

BitBakePriority(root) == Max({world.environment.priorities[c] : c \in Declares(root)})

\* The layer's own file ranks it above the others that a path is in.
Outranks(layer, path) ==
  /\ Below(path, layer)
  /\ \A other \in Roots \ {layer} : Below(path, other) => OwnPriority(layer) > OwnPriority(other)

\* The search for a path begins in a layer.
SearchedWithin(layer, path) ==
  \A k \in DOMAIN index.searchPaths :
    Below(path, index.searchPaths[k].path) => Below(index.searchPaths[k].path, layer)

\* With BitBake's context a candidate is ranked as BitBake ranks its layer,
\* whatever the layer's own file says.  The order of the layers still comes
\* from those files: of the layers a candidate is in it gets the one its own
\* file ranks highest, unless the search began outside of that one.
RankedByBitBake ==
  Ready /\ index.authoritative =>
    \A c \in AllCandidates :
      /\ c.layer \in Roots /\ c.layer \o LayerConf \in index.files /\ Told(c.layer)
         => c.priority = BitBakePriority(c.layer)
      /\ \A layer \in Roots :
           Outranks(layer, c.path) /\ SearchedWithin(layer, c.path) => c.layer = layer

\* A path is in one layer and no other.
InOneLayer(path) == \A p, q \in Roots : Below(path, p) /\ Below(path, q) => p = q

\* Without BitBake's context the candidates of one scope come in the order of
\* their priorities, unless a layer puts others on BBPATH or is in another one.
RankedByLayers ==
  Ready /\ ~index.authoritative
  /\ (\A i \in DOMAIN index.layers :
        Range(index.layers[i].metadata.bbpath) \subseteq {index.layers[i].root}) =>
    \A from \in index.files :
      \A reference \in world.texts[from], context \in ContextsFor(from) :
        LET candidates == CandidatesFor(index, from, reference, context)
        IN \A i, j \in DOMAIN candidates :
             /\ i < j /\ candidates[i].scope = candidates[j].scope
             /\ InOneLayer(candidates[i].path) /\ InOneLayer(candidates[j].path)
             => candidates[i].priority >= candidates[j].priority

\* Whichever definition is chosen first, or called ambiguous, is so for the
\* priorities BitBake uses, or those the layers state if BitBake was not asked.
Ranked == RankedByBitBake /\ RankedByLayers

Leads(p, q) ==
  \E e \in index.edges : e.from = p /\ e.to = q /\ e.context = asked.context

\* Some set of files has `to`, whatever its files lead to, and not `from`.
LeadsNotBack ==
  \E S \in SUBSET {e.to : e \in index.edges} :
    /\ asked.to \in S /\ asked.from \notin S
    /\ \A e \in index.edges : e.context = asked.context /\ e.from \in S => e.to \in S

\* A cycle is reported for a reference exactly when what it leads to leads
\* back in the context of the reference; the witness goes from file to file
\* along edges of that context and visits none twice.
CyclesExact ==
  stage = "answered" =>
    IF answer = <<>> THEN LeadsNotBack
    ELSE /\ answer[1] = asked.from /\ answer[2] = asked.to
         /\ answer[Len(answer)] = asked.from
         /\ \A k \in 1 .. Len(answer) - 1 : Leads(answer[k], answer[k + 1])
         /\ IsInjective(Tail(answer))

=============================================================================
