------------------------- MODULE WorkspaceIndexProofs -------------------------
(***************************************************************************)
(* Three facts about the answers of WorkspaceIndex, for every build.       *)
(*                                                                         *)
(* Its search for a cycle is exact: when it finds none, the paths it       *)
(* visited are a set that dependencies do not leave; when it finds one,    *)
(* the parents lead back to where it began, over paths that were visited   *)
(* ever earlier.                                                           *)
(*                                                                         *)
(* With BitBake's BBPATH its dependency graph is the one that BitBake's    *)
(* own search gives. What a sequence of paths leads to, the first of them  *)
(* that is in a set, is followed from the layers in their order through    *)
(* the search paths and the candidates to the edges; every step that       *)
(* makes an index makes one whose search paths lead where BBPATH leads.    *)
(*                                                                         *)
(* Candidates are ranked as their layers are. Each is traced to the        *)
(* search path it was found under and to the layer that owns that path,    *)
(* the first that contains it; every step keeps the layers in the order    *)
(* of the priorities their own files give, and the context replaces the    *)
(* priorities by BitBake's without a change of the order.                  *)
(***************************************************************************)
EXTENDS WorkspaceIndex, FiniteSetTheorems, WellFoundedInduction, TLAPS

-----------------------------------------------------------------------------
(* The search for a cycle.                                                 *)

Stages == {"files", "context", "ready", "search", "trace", "answered"}

\* Before the question nothing is known.
Unasked ==
  stage \in {"files", "context", "ready"} =>
    edges = {} /\ parents = <<>> /\ tail = <<>> /\ answer = <<>>

Question ==
  /\ Leads(asked.from, asked.to) /\ asked.from # asked.to
  /\ asked.to \in visited /\ visited \subseteq {e.to : e \in index.edges}
  /\ queue \in Seq(visited)
  /\ answer = <<>>

\* What is left of the edges leads from the current path to new ones.
EdgesLeft ==
  /\ edges \subseteq Following(current) \ visited
  /\ edges # {} => current \in visited

\* A visited path waits in the queue, or its edges were followed or are left.
Followed ==
  /\ asked.from \notin visited /\ tail = <<>>
  /\ \A p \in visited : \/ \E k \in DOMAIN queue : queue[k] = p
                        \/ Following(p) \subseteq visited \cup edges

ParentsLead ==
  /\ DOMAIN parents = visited \ {asked.to}
  /\ \A p \in DOMAIN parents : parents[p] \in visited /\ Leads(parents[p], p)

TailLeads ==
  /\ tail \in Seq(visited) /\ tail # <<>> /\ tail[Len(tail)] = asked.from
  /\ \A k \in 1 .. Len(tail) - 1 : Leads(tail[k], tail[k + 1])

\* Parents are nearer to the start, and so is the tail from its end.
Nearer(depth) ==
  /\ depth \in [visited -> Nat]
  /\ \A p \in DOMAIN parents : depth[parents[p]] < depth[p]
  /\ \A j, k \in DOMAIN tail : j < k => depth[tail[j]] < depth[tail[k]]

SearchInv ==
  /\ stage \in {"search", "trace"} =>
       Question /\ EdgesLeft /\ ParentsLead /\ \E depth \in [visited -> Nat] : Nearer(depth)
  /\ stage = "search" => Followed
  /\ stage = "trace" => TailLeads

IndexInv == stage \in Stages /\ Unasked /\ SearchInv /\ CyclesExact

-----------------------------------------------------------------------------
\* Before a question is asked, steps change neither search nor answer.
LEMMA IndexingStep ==
  ASSUME IndexInv,
         FromPaths \/ FromBuildDir \/ FromBitbake \/ ApplyBitbakeContext \/ RetainFiles
  PROVE  IndexInv'
<1>1. /\ stage \in {"files", "context", "ready"} /\ stage' \in {"context", "ready"}
      /\ UNCHANGED search
  BY DEF FromPaths, FromBuildDir, FromBitbake, Built, ApplyBitbakeContext, RetainFiles
<1> QED
  BY <1>1 DEF IndexInv, Stages, Unasked, SearchInv, CyclesExact, search

\* The search begins where the reference leads.
LEMMA AskStep ==
  ASSUME IndexInv, Ask
  PROVE  IndexInv'
<1>1. PICK e \in index.edges :
        /\ asked' = [from |-> e.from, to |-> e.to, context |-> e.context]
        /\ IF e.from = e.to
           THEN answer' = <<e.from, e.from>> /\ stage' = "answered" /\ UNCHANGED <<queue, visited>>
           ELSE queue' = <<e.to>> /\ visited' = {e.to} /\ stage' = "search" /\ UNCHANGED answer
  BY DEF Ask
<1>2. /\ UNCHANGED <<index, current, edges, parents, tail>>
      /\ edges = {} /\ parents = <<>> /\ tail = <<>> /\ answer = <<>>
  BY DEF Ask, IndexInv, Unasked
<1>3. Leads(asked.from, asked.to)'
  BY <1>1, <1>2 DEF Leads
<1>4. CASE e.from = e.to
  <2>1. answer' = <<e.from, e.from>> /\ stage' = "answered"
    BY <1>1, <1>4
  <2>2. CyclesExact'
    BY <1>1, <1>3, <1>4, <2>1 DEF CyclesExact, IsInjective
  <2> QED
    BY <2>1, <2>2 DEF IndexInv, Stages, Unasked, SearchInv
<1>5. CASE e.from # e.to
  <2>1. queue' = <<e.to>> /\ visited' = {e.to} /\ stage' = "search" /\ answer' = <<>>
    BY <1>1, <1>2, <1>5
  <2>2. Question'
    BY <1>1, <1>2, <1>3, <1>5, <2>1 DEF Question
  <2>3. EdgesLeft' /\ ParentsLead'
    BY <1>1, <1>2, <2>1 DEF EdgesLeft, ParentsLead
  <2>4. Followed'
    <3>1. 1 \in DOMAIN queue' /\ queue'[1] = e.to
      BY <2>1
    <3> QED
      BY <1>1, <1>2, <1>5, <2>1, <3>1 DEF Followed
  <2>5. \E depth \in [visited' -> Nat] : Nearer(depth)'
    <3> DEFINE zero == [p \in visited' |-> 0]
    <3>1. zero \in [visited' -> Nat]
      OBVIOUS
    <3>2. DOMAIN parents' = {} /\ DOMAIN tail' = {}
      BY <1>2
    <3> HIDE DEF zero
    <3> QED
      BY <3>1, <3>2 DEF Nearer
  <2> QED
    BY <2>1, <2>2, <2>3, <2>4, <2>5 DEF IndexInv, Stages, Unasked, SearchInv, CyclesExact
<1> QED
  BY <1>4, <1>5
\* A path leaves the queue for its edges.
LEMMA PopStep ==
  ASSUME IndexInv, Pop
  PROVE  IndexInv'
<1>1. /\ stage = "search" /\ edges = {} /\ queue # <<>>
      /\ current' = Head(queue) /\ queue' = Tail(queue)
      /\ edges' = Following(Head(queue)) \ visited
      /\ UNCHANGED <<index, stage, asked, visited, parents, tail, answer>>
  BY DEF Pop
<1>2. Question /\ EdgesLeft /\ ParentsLead /\ Followed
  BY <1>1 DEF IndexInv, SearchInv
<1>3. \A p : Following(p)' = Following(p)
  BY <1>1 DEF Following
<1>4. /\ Head(queue) \in visited /\ queue' \in Seq(visited) /\ Head(queue) = queue[1]
      /\ \A k \in DOMAIN queue : k # 1 => k - 1 \in DOMAIN queue' /\ queue'[k - 1] = queue[k]
  BY <1>1, <1>2 DEF Question
<1>5. Question' /\ ParentsLead'
  BY <1>1, <1>2, <1>4 DEF Question, ParentsLead, Leads
<1>6. EdgesLeft'
  BY <1>1, <1>3, <1>4 DEF EdgesLeft
<1>7. Followed'
  <2> SUFFICES ASSUME NEW p \in visited,
                      ~ \E k \in DOMAIN queue' : queue'[k] = p
               PROVE  Following(p) \subseteq visited \cup edges'
    BY <1>1, <1>2, <1>3 DEF Followed
  <2>1. CASE \E k \in DOMAIN queue : queue[k] = p
    <3>1. p = Head(queue)
      <4>1. PICK k \in DOMAIN queue : queue[k] = p
        BY <2>1
      <4>2. k = 1
        BY <1>4, <4>1
      <4> QED
        BY <1>4, <4>1, <4>2
    <3> QED
      BY <1>1, <3>1
  <2>2. CASE ~ \E k \in DOMAIN queue : queue[k] = p
    BY <1>1, <1>2, <2>2 DEF Followed
  <2> QED
    BY <2>1, <2>2
<1>8. (\E depth \in [visited -> Nat] : Nearer(depth))'
  BY <1>1 DEF IndexInv, SearchInv, Nearer
<1> QED
  BY <1>1, <1>5, <1>6, <1>7, <1>8 DEF IndexInv, Stages, Unasked, SearchInv, CyclesExact

\* An edge to a new path: it is one step further than the current path.
LEMMA VisitStep ==
  ASSUME IndexInv, Visit
  PROVE  IndexInv'
<1>1. PICK next \in edges :
        /\ edges' = edges \ {next}
        /\ visited' = visited \cup {next}
        /\ parents' = [p \in visited' \ {asked.to} |-> IF p = next THEN current ELSE parents[p]]
        /\ IF next = asked.from
           THEN tail' = <<next>> /\ stage' = "trace" /\ UNCHANGED queue
           ELSE queue' = Append(queue, next) /\ UNCHANGED <<tail, stage>>
  BY DEF Visit
<1>2. stage = "search" /\ UNCHANGED <<index, asked, current, answer>>
  BY DEF Visit
<1>3. Question /\ EdgesLeft /\ ParentsLead /\ Followed
  BY <1>2 DEF IndexInv, SearchInv
<1>4. \A p : Following(p)' = Following(p)
  BY <1>2 DEF Following
<1>5. \A p, q : Leads(p, q)' <=> Leads(p, q)
  BY <1>2 DEF Leads
<1>6. /\ next \in Following(current) /\ next \notin visited /\ current \in visited
      /\ Leads(current, next) /\ next \in {e.to : e \in index.edges} /\ next # asked.to
  BY <1>3 DEF EdgesLeft, Following, Leads, Question
<1>7. Question'
  <2>1. queue' \in Seq(visited')
    <3>1. queue \in Seq(visited \cup {next})
      BY <1>3 DEF Question
    <3> QED
      BY <1>1, <3>1
  <2> QED
    BY <1>1, <1>2, <1>3, <1>5, <1>6, <2>1 DEF Question
<1>8. EdgesLeft'
  BY <1>1, <1>2, <1>3, <1>4 DEF EdgesLeft
<1>9. ParentsLead'
  <2> SUFFICES ASSUME NEW p \in visited' \ {asked.to}
               PROVE  parents'[p] \in visited' /\ Leads(parents'[p], p)
    BY <1>1, <1>2, <1>5 DEF ParentsLead
  <2>1. CASE p = next
    BY <1>1, <1>6, <2>1
  <2>2. CASE p # next
    BY <1>1, <1>3, <2>2 DEF ParentsLead
  <2> QED
    BY <2>1, <2>2
<1>10. \E depth \in [visited' -> Nat] : Nearer(depth)'
  <2>1. PICK depth \in [visited -> Nat] : Nearer(depth)
    BY <1>2 DEF IndexInv, SearchInv
  <2> DEFINE deeper == [p \in visited' |-> IF p = next THEN depth[current] + 1 ELSE depth[p]]
  <2>2. deeper \in [visited' -> Nat]
    BY <1>1, <1>6
  <2>3. /\ deeper[next] = depth[current] + 1
        /\ \A p \in visited : deeper[p] = depth[p]
    BY <1>1, <1>6
  <2> HIDE DEF deeper
  <2>4. \A p \in DOMAIN parents' : deeper[parents'[p]] < deeper[p]
    <3> SUFFICES ASSUME NEW p \in visited' \ {asked.to}
                 PROVE  deeper[parents'[p]] < deeper[p]
      BY <1>1
    <3>1. CASE p = next
      BY <1>1, <1>6, <2>3, <3>1
    <3>2. CASE p # next
      <4>1. p \in DOMAIN parents /\ parents'[p] = parents[p] /\ parents[p] \in visited
        BY <1>1, <1>3, <3>2 DEF ParentsLead
      <4> QED
        BY <1>1, <2>1, <2>3, <3>2, <4>1 DEF Nearer
    <3> QED
      BY <3>1, <3>2
  <2>5. \A j, k \in DOMAIN tail' : ~ j < k
    <3>1. tail = <<>>
      BY <1>3 DEF Followed
    <3> QED
      BY <1>1, <3>1
  <2> QED
    BY <2>2, <2>4, <2>5 DEF Nearer
<1>11. CASE next = asked.from
  <2>1. tail' = <<next>> /\ stage' = "trace"
    BY <1>1, <1>11
  <2>2. TailLeads'
    BY <1>1, <1>2, <1>11, <2>1 DEF TailLeads
  <2> QED
    BY <1>7, <1>8, <1>9, <1>10, <2>1, <2>2
    DEF IndexInv, Stages, Unasked, SearchInv, CyclesExact
<1>12. CASE next # asked.from
  <2>1. queue' = Append(queue, next) /\ tail' = tail /\ stage' = "search"
    BY <1>1, <1>2, <1>12
  <2>2. /\ Len(queue) + 1 \in DOMAIN queue' /\ queue'[Len(queue) + 1] = next
        /\ \A k \in DOMAIN queue : k \in DOMAIN queue' /\ queue'[k] = queue[k]
    BY <1>3, <2>1 DEF Question
  <2>3. Followed'
    <3>1. \A p \in visited' : \/ \E k \in DOMAIN queue' : queue'[k] = p
                              \/ Following(p) \subseteq visited' \cup edges'
      BY <1>1, <1>3, <2>2 DEF Followed
    <3> QED
      BY <1>1, <1>2, <1>3, <1>4, <1>12, <2>1, <3>1 DEF Followed
  <2> QED
    BY <1>7, <1>8, <1>9, <1>10, <2>1, <2>3
    DEF IndexInv, Stages, Unasked, SearchInv, CyclesExact
<1> QED
  BY <1>11, <1>12
\* A parent joins the tail, or the tail is complete; there is always a parent.
LEMMA TraceStep ==
  ASSUME IndexInv, Trace
  PROVE  IndexInv'
<1>1. /\ stage = "trace"
      /\ UNCHANGED <<index, asked, queue, current, edges, visited, parents>>
      /\ IF Head(tail) \in DOMAIN parents \ {asked.to}
         THEN tail' = <<parents[Head(tail)]>> \o tail /\ UNCHANGED <<stage, answer>>
         ELSE /\ answer' = IF Head(tail) = asked.to THEN <<asked.from>> \o tail ELSE <<>>
              /\ stage' = "answered" /\ UNCHANGED tail
  BY DEF Trace
<1>2. Question /\ EdgesLeft /\ ParentsLead /\ TailLeads
  BY <1>1 DEF IndexInv, SearchInv
<1>3. PICK depth \in [visited -> Nat] : Nearer(depth)
  BY <1>1 DEF IndexInv, SearchInv
<1>4. \A p, q : Leads(p, q)' <=> Leads(p, q)
  BY <1>1 DEF Leads
<1>5. /\ tail \in Seq(visited) /\ Len(tail) \in Nat /\ Len(tail) >= 1
      /\ DOMAIN tail = 1 .. Len(tail)
      /\ Head(tail) = tail[1] /\ Head(tail) \in visited
      /\ tail[Len(tail)] = asked.from
      /\ \A k \in 1 .. Len(tail) - 1 : Leads(tail[k], tail[k + 1])
  BY <1>2 DEF TailLeads
<1>6. CASE Head(tail) \in DOMAIN parents \ {asked.to}
  <2> DEFINE parent == parents[Head(tail)]
  <2>1. parent \in visited /\ Leads(parent, Head(tail)) /\ depth[parent] < depth[Head(tail)]
    BY <1>2, <1>3, <1>6 DEF ParentsLead, Nearer
  <2>2. tail' = <<parent>> \o tail /\ UNCHANGED <<stage, answer>>
    BY <1>1, <1>6
  <2> HIDE DEF parent
  <2>3. /\ tail' \in Seq(visited) /\ Len(tail') = Len(tail) + 1 /\ tail'[1] = parent
        /\ \A k \in 1 .. Len(tail) : tail'[k + 1] = tail[k]
    BY <1>5, <2>1, <2>2
  <2>4. \A k \in 2 .. Len(tail') : k - 1 \in 1 .. Len(tail) /\ tail'[k] = tail[k - 1]
    <3> SUFFICES ASSUME NEW k \in 2 .. Len(tail')
                 PROVE  k - 1 \in 1 .. Len(tail) /\ tail'[k] = tail[k - 1]
      OBVIOUS
    <3>1. k - 1 \in 1 .. Len(tail) /\ (k - 1) + 1 = k
      BY <1>5, <2>3
    <3> QED
      BY <2>3, <3>1
  <2>5. TailLeads'
    <3>1. tail'[Len(tail')] = asked.from
      BY <1>5, <2>3
    <3>2. \A k \in 1 .. Len(tail') - 1 : Leads(tail'[k], tail'[k + 1])
      <4> DEFINE length == Len(tail)
      <4>3. 1 .. Len(tail') - 1 = 1 .. length
        <5>1. Len(tail') = length + 1 /\ length \in Nat
          BY <1>5, <2>3
        <5> HIDE DEF length
        <5> QED
          BY <5>1
      <4> SUFFICES ASSUME NEW k \in 1 .. Len(tail) PROVE Leads(tail'[k], tail'[k + 1])
        BY <4>3
      <4>1. CASE k = 1
        BY <1>5, <2>1, <2>3, <4>1
      <4>2. CASE k # 1
        <5>1. k - 1 \in 1 .. Len(tail) - 1 /\ (k - 1) + 1 = k /\ k \in 2 .. Len(tail')
          BY <1>5, <2>3, <4>2
        <5>2. Leads(tail[k - 1], tail[k])
          BY <1>5, <5>1
        <5> QED
          BY <2>3, <2>4, <5>1, <5>2
      <4> QED
        BY <4>1, <4>2
    <3> QED
      BY <1>1, <1>4, <1>5, <2>3, <3>1, <3>2 DEF TailLeads
  <2>6. Nearer(depth)'
    <3>1. \A j, k \in DOMAIN tail' : j < k => depth[tail'[j]] < depth[tail'[k]]
      <4> SUFFICES ASSUME NEW j \in 1 .. Len(tail'), NEW k \in 1 .. Len(tail'), j < k
                   PROVE  depth[tail'[j]] < depth[tail'[k]]
        BY <2>3
      <4>1. k \in 2 .. Len(tail') /\ k - 1 \in 1 .. Len(tail) /\ tail'[k] = tail[k - 1]
        BY <2>3, <2>4
      <4>2. /\ 1 \in 1 .. Len(tail)
            /\ \A m, n \in 1 .. Len(tail) : m < n => depth[tail[m]] < depth[tail[n]]
        <5>1. \A m, n \in DOMAIN tail : m < n => depth[tail[m]] < depth[tail[n]]
          BY <1>3 DEF Nearer
        <5>2. 1 \in 1 .. Len(tail) /\ DOMAIN tail = 1 .. Len(tail)
          BY <1>5
        <5> QED
          BY <5>1, <5>2
      <4>3. \A m \in 1 .. Len(tail) : tail[m] \in visited /\ depth[tail[m]] \in Nat
        BY <1>3, <1>5
      <4>4. depth[parent] \in Nat
        BY <1>3, <2>1
      <4>5. CASE j = 1
        <5>1. k - 1 = 1 \/ 1 < k - 1
          BY <4>1
        <5>2. depth[tail[1]] <= depth[tail[k - 1]]
          BY <4>1, <4>2, <4>3, <5>1
        <5> QED
          BY <1>5, <2>1, <2>3, <4>1, <4>2, <4>3, <4>4, <4>5, <5>2
      <4>6. CASE j # 1
        <5>1. j \in 2 .. Len(tail') /\ j - 1 \in 1 .. Len(tail) /\ tail'[j] = tail[j - 1]
          BY <2>3, <2>4, <4>6
        <5>2. j - 1 < k - 1
          BY <2>3
        <5> QED
          BY <4>1, <4>2, <5>1, <5>2
      <4> QED
        BY <4>5, <4>6
    <3> QED
      BY <1>1, <1>3, <3>1 DEF Nearer
  <2>7. Question' /\ EdgesLeft' /\ ParentsLead'
    BY <1>1, <1>2, <1>4, <2>2 DEF Question, EdgesLeft, ParentsLead, Following
  <2> QED
    BY <1>1, <2>2, <2>5, <2>6, <2>7, <1>3
    DEF IndexInv, Stages, Unasked, SearchInv, CyclesExact
<1>7. CASE Head(tail) \notin DOMAIN parents \ {asked.to}
  <2>1. Head(tail) = asked.to
    BY <1>2, <1>5, <1>7 DEF ParentsLead
  <2>2. answer' = <<asked.from>> \o tail /\ stage' = "answered"
    BY <1>1, <1>7, <2>1
  <2>3. /\ Len(answer') = Len(tail) + 1 /\ answer'[1] = asked.from /\ answer' # <<>>
        /\ \A k \in 1 .. Len(tail) : answer'[k + 1] = tail[k]
        /\ Tail(answer') = tail
    <3> DEFINE from == asked.from
    <3>1. answer' = <<from>> \o tail
      BY <2>2
    <3>2. tail \in Seq(visited \cup {from}) /\ from \in visited \cup {from}
      BY <1>5
    <3> HIDE DEF from
    <3>3. /\ Len(answer') = Len(tail) + 1 /\ answer'[1] = from
          /\ \A k \in 1 .. Len(tail) : answer'[k + 1] = tail[k]
      BY <3>1, <3>2
    <3>4. answer' \in Seq(visited \cup {from})
      BY <3>1, <3>2
    <3>5. answer' # <<>>
      BY <1>5, <3>3
    <3>6. Tail(answer') = tail
      <4>1. /\ Tail(answer') \in Seq(visited \cup {from}) /\ Len(Tail(answer')) = Len(tail)
            /\ \A k \in 1 .. Len(tail) : Tail(answer')[k] = answer'[k + 1]
        BY <1>5, <3>3, <3>4, <3>5
      <4> QED
        BY <3>2, <3>3, <4>1
    <3> QED
      BY <3>3, <3>5, <3>6 DEF from
  <2>4. answer'[2] = asked.to
    BY <1>5, <2>1, <2>3
  <2>5. answer'[Len(answer')] = asked.from
    BY <1>5, <2>3
  <2>6. \A k \in 1 .. Len(answer') - 1 : Leads(answer'[k], answer'[k + 1])
    <3> SUFFICES ASSUME NEW k \in 1 .. Len(tail) PROVE Leads(answer'[k], answer'[k + 1])
      BY <1>5, <2>3
    <3>1. CASE k = 1
      BY <1>2, <1>5, <2>1, <2>3, <3>1 DEF Question
    <3>2. CASE k # 1
      <4>1. k - 1 \in 1 .. Len(tail) - 1 /\ (k - 1) + 1 = k /\ k - 1 \in 1 .. Len(tail)
        BY <1>5, <3>2
      <4>2. Leads(tail[k - 1], tail[k])
        BY <1>5, <4>1
      <4>3. answer'[k] = tail[k - 1] /\ answer'[k + 1] = tail[k]
        BY <2>3, <4>1
      <4> QED
        BY <4>2, <4>3
    <3> QED
      BY <3>1, <3>2
  <2>7. IsInjective(tail)
    <3> SUFFICES ASSUME NEW j \in DOMAIN tail, NEW k \in DOMAIN tail, tail[j] = tail[k]
                 PROVE  j = k
      BY DEF IsInjective
    <3>1. /\ j < k => depth[tail[j]] < depth[tail[k]]
          /\ k < j => depth[tail[k]] < depth[tail[j]]
      BY <1>3 DEF Nearer
    <3>2. depth[tail[j]] \in Nat /\ depth[tail[k]] \in Nat /\ j \in Nat /\ k \in Nat
      BY <1>3, <1>5
    <3> QED
      BY <3>1, <3>2
  <2>8. CyclesExact'
    BY <1>1, <1>4, <2>2, <2>3, <2>4, <2>5, <2>6, <2>7 DEF CyclesExact
  <2> QED
    BY <2>2, <2>8 DEF IndexInv, Stages, Unasked, SearchInv
<1> QED
  BY <1>6, <1>7

\* With nothing left to visit no edge leaves the visited paths.
LEMMA NoCycleStep ==
  ASSUME IndexInv, NoCycle
  PROVE  IndexInv'
<1>1. /\ stage = "search" /\ edges = {} /\ queue = <<>> /\ stage' = "answered"
      /\ UNCHANGED <<index, asked, answer>>
  BY DEF NoCycle, search
<1>2. Question /\ Followed
  BY <1>1 DEF IndexInv, SearchInv
<1>3. \A p \in visited : Following(p) \subseteq visited
  BY <1>1, <1>2 DEF Followed
<1>4. LeadsNotBack'
  <2>1. visited \in SUBSET {e.to : e \in index.edges} /\ asked.to \in visited
        /\ asked.from \notin visited
    BY <1>2 DEF Question, Followed
  <2>2. \A e \in index.edges :
          e.context = asked.context /\ e.from \in visited => e.to \in visited
    BY <1>3 DEF Following
  <2> QED
    BY <1>1, <2>1, <2>2 DEF LeadsNotBack
<1>5. answer' = <<>>
  BY <1>1, <1>2 DEF Question
<1> QED
  BY <1>1, <1>4, <1>5 DEF IndexInv, Stages, Unasked, SearchInv, CyclesExact

\* The invariant holds at the start and every step keeps it.
LEMMA IndexInvariance == Spec => []IndexInv
<1>1. Init => IndexInv
  BY DEF Init, NoSearch, IndexInv, Stages, Unasked, SearchInv, CyclesExact
<1>2. IndexInv /\ [Next]_vars => IndexInv'
  <2> SUFFICES ASSUME IndexInv, [Next]_vars PROVE IndexInv'
    OBVIOUS
  <2>1. CASE UNCHANGED vars
    <3>1. UNCHANGED <<index, stage, asked, queue, current, edges, visited, parents,
                      tail, answer>>
      BY <2>1 DEF vars, search
    <3>2. /\ \A p, q : Leads(p, q)' <=> Leads(p, q)
          /\ \A p : Following(p)' = Following(p)
          /\ \A depth : Nearer(depth)' <=> Nearer(depth)
          /\ LeadsNotBack' <=> LeadsNotBack
      BY <3>1 DEF Leads, Following, Nearer, LeadsNotBack
    <3>3. Unasked' /\ CyclesExact'
      BY <3>1, <3>2 DEF IndexInv, Unasked, CyclesExact
    <3>4. /\ Question' <=> Question
          /\ EdgesLeft' <=> EdgesLeft
          /\ Followed' <=> Followed
          /\ ParentsLead' <=> ParentsLead
          /\ TailLeads' <=> TailLeads
      BY <3>1, <3>2 DEF Question, EdgesLeft, Followed, ParentsLead, TailLeads
    <3> QED
      BY <3>1, <3>2, <3>3, <3>4 DEF IndexInv, SearchInv
  <2>2. CASE Next
    BY <2>2, IndexingStep, AskStep, PopStep, VisitStep, TraceStep, NoCycleStep DEF Next
  <2> QED
    BY <2>1, <2>2
<1> QED
  BY <1>1, <1>2, PTL DEF Spec

\* dependency_cycle_for is exact in every index, for every reference.
THEOREM CycleSearchIsExact == Spec => []CyclesExact
<1>1. IndexInv => CyclesExact
  BY DEF IndexInv
<1> QED
  BY <1>1, IndexInvariance, PTL

-----------------------------------------------------------------------------
(* Numbers and orders.                                                     *)

\* A set that has 0 and every successor has all numbers: the set of those that
\* it lacks would have a least member.
LEMMA Inductive ==
  ASSUME NEW M, 0 \in M, \A n \in Nat : n \in M => n + 1 \in M
  PROVE  \A n \in Nat : n \in M
<1> SUFFICES ASSUME Nat \ M # {} PROVE FALSE
  OBVIOUS
<1>1. PICK n \in Nat \ M : \A m \in Nat \ M : ~(<<m, n>> \in OpToRel(<, Nat))
  BY WFMin, NatLessThanWellFounded
<1>2. \A m \in Nat \ M : ~(m < n)
  BY <1>1 DEF OpToRel
<1>3. n # 0 /\ n - 1 \in Nat
  OBVIOUS
<1>4. n - 1 \in M
  BY <1>2, <1>3
<1> QED
  BY <1>3, <1>4

\* A set of numbers has a least member, and Min finds it.
LEMMA MinIs ==
  ASSUME NEW S \in SUBSET Nat, S # {}
  PROVE  Min(S) \in S /\ \A s \in S : Min(S) <= s
<1>1. PICK n \in S : \A m \in S : ~(<<m, n>> \in OpToRel(<, Nat))
  BY WFMin, NatLessThanWellFounded
<1>2. \A m \in S : ~(m < n) /\ m \in Nat /\ n \in Nat
  BY <1>1 DEF OpToRel
<1>3. \E m \in S : \A s \in S : m =< s
  BY <1>2
<1>4. Min(S) \in S /\ \A s \in S : Min(S) =< s
  BY <1>3, Zenon DEF Min
<1> QED
  BY <1>4

\* The pairs of order are a strict and total order of the members of S.
IsOrder(S, order) ==
  /\ \A s \in S : <<s, s>> \notin order
  /\ \A s, t \in S : s # t => <<s, t>> \in order \/ <<t, s>> \in order
  /\ \A s, t, u \in S : <<s, t>> \in order /\ <<t, u>> \in order => <<s, u>> \in order

\* Ordered lists the members of a set in their order, each once.
LEMMA OrderedLists ==
  ASSUME NEW S, IsFiniteSet(S), NEW order, IsOrder(S, order)
  PROVE  /\ Cardinality(S) \in Nat
         /\ Ordered(S, order) \in [1 .. Cardinality(S) -> S]
         /\ \A k, l \in 1 .. Cardinality(S) :
              k < l => <<Ordered(S, order)[k], Ordered(S, order)[l]>> \in order
         /\ \A s \in S : \E k \in 1 .. Cardinality(S) : Ordered(S, order)[k] = s
<1> DEFINE n == Cardinality(S)
           Before(s) == {t \in S : <<t, s>> \in order}
           place == [s \in S |-> Cardinality(Before(s)) + 1]
           listed == Ordered(S, order)
<1>1. n \in Nat
  BY FS_CardinalityType
<1>2. ASSUME NEW s \in S
      PROVE  IsFiniteSet(Before(s)) /\ Cardinality(Before(s)) \in 0 .. n - 1
  <2>1. Before(s) \in SUBSET S /\ Before(s) # S
    BY DEF IsOrder
  <2>2. IsFiniteSet(Before(s)) /\ Cardinality(Before(s)) <= n /\ Cardinality(Before(s)) # n
    BY <2>1, FS_Subset
  <2>3. Cardinality(Before(s)) \in Nat
    BY <2>2, FS_CardinalityType
  <2> QED
    BY <1>1, <2>2, <2>3
<1>3. ASSUME NEW s \in S, NEW t \in S, <<s, t>> \in order
      PROVE  Cardinality(Before(s)) < Cardinality(Before(t))
  <2>1. Before(s) \in SUBSET Before(t) /\ Before(s) # Before(t)
    BY <1>3 DEF IsOrder
  <2>2. /\ Cardinality(Before(s)) <= Cardinality(Before(t))
        /\ Cardinality(Before(s)) # Cardinality(Before(t))
    BY <1>2, <2>1, FS_Subset
  <2> QED
    BY <1>2, <2>2
<1> HIDE DEF Before
<1>4. place \in Injection(S, 1 .. n)
  <2>1. place \in [S -> 1 .. n]
    BY <1>1, <1>2
  <2>2. ASSUME NEW s \in S, NEW t \in S, place[s] = place[t]
        PROVE  s = t
    <3>1. Cardinality(Before(s)) = Cardinality(Before(t))
      BY <1>2, <2>2
    <3>2. <<s, t>> \notin order /\ <<t, s>> \notin order
      BY <1>2, <1>3, <3>1
    <3> QED
      BY <3>2 DEF IsOrder
  <2> QED
    BY <2>1, <2>2 DEF Injection, IsInjective
<1>5. place \in Surjection(S, 1 .. n)
  <2>1. IsFiniteSet(1 .. n) /\ Cardinality(1 .. n) = n
    BY <1>1, FS_Interval
  <2> QED
    BY <1>4, <2>1, FS_Injection
<1>6. ASSUME NEW k \in 1 .. n
      PROVE  \E s \in S : Cardinality(Before(s)) = k - 1
  <2>1. PICK s \in S : place[s] = k
    BY <1>5 DEF Surjection
  <2> QED
    BY <1>2, <2>1
<1>7. listed = [k \in 1 .. n |-> CHOOSE s \in S : Cardinality(Before(s)) = k - 1]
  BY DEF Ordered, Before
<1>8. ASSUME NEW k \in 1 .. n
      PROVE  listed[k] \in S /\ Cardinality(Before(listed[k])) = k - 1
  BY <1>6, <1>7
<1> HIDE DEF listed
<1>9. ASSUME NEW k \in 1 .. n, NEW l \in 1 .. n, k < l
      PROVE  <<listed[k], listed[l]>> \in order
  <2>1. listed[k] \in S /\ listed[l] \in S
    BY <1>8
  <2>2. Cardinality(Before(listed[k])) < Cardinality(Before(listed[l]))
    BY <1>8, <1>9
  <2>3. listed[k] # listed[l] /\ <<listed[l], listed[k]>> \notin order
    BY <1>2, <1>3, <2>1, <2>2
  <2> QED
    BY <2>1, <2>3 DEF IsOrder
<1>10. ASSUME NEW s \in S
       PROVE  \E k \in 1 .. n : listed[k] = s
  <2>1. place[s] \in 1 .. n /\ place[listed[place[s]]] = place[s] /\ listed[place[s]] \in S
    BY <1>1, <1>2, <1>8
  <2>2. listed[place[s]] = s
    BY <1>4, <2>1 DEF Injection, IsInjective
  <2> QED
    BY <2>1, <2>2
<1> QED
  BY <1>1, <1>7, <1>8, <1>9, <1>10 DEF listed

\* The numbers in their order.
Increasing(places) == Ordered(places, {p \in places \X places : p[1] < p[2]})

\* The places of a set of numbers, listed from the least.
LEMMA IncreasingLists ==
  ASSUME NEW n \in Nat, NEW places \in SUBSET (1 .. n)
  PROVE  \E m \in Nat :
           /\ Increasing(places) \in [1 .. m -> places]
           /\ \A k, l \in 1 .. m : k < l => Increasing(places)[k] < Increasing(places)[l]
           /\ \A i \in places : \E k \in 1 .. m : Increasing(places)[k] = i
<1> DEFINE order == {p \in places \X places : p[1] < p[2]}
<1>1. IsFiniteSet(places)
  <2>1. IsFiniteSet(1 .. n)
    BY FS_Interval
  <2> QED
    BY <2>1, FS_Subset
<1>2. \A i, j \in places : <<i, j>> \in order <=> i < j
  OBVIOUS
<1>3. \A i, j \in places : i \in Nat /\ j \in Nat
  OBVIOUS
<1>4. Increasing(places) = Ordered(places, order)
  BY DEF Increasing
<1> HIDE DEF order
<1>5. IsOrder(places, order)
  BY <1>2, <1>3 DEF IsOrder
<1>6. /\ Cardinality(places) \in Nat
      /\ Ordered(places, order) \in [1 .. Cardinality(places) -> places]
      /\ \A k, l \in 1 .. Cardinality(places) :
           k < l => <<Ordered(places, order)[k], Ordered(places, order)[l]>> \in order
      /\ \A s \in places : \E k \in 1 .. Cardinality(places) : Ordered(places, order)[k] = s
  BY <1>1, <1>5, OrderedLists
<1>7. \A k, l \in 1 .. Cardinality(places) :
        k < l => Ordered(places, order)[k] < Ordered(places, order)[l]
  BY <1>2, <1>6
<1> QED
  BY <1>4, <1>6, <1>7

-----------------------------------------------------------------------------
(* What a search finds first.                                              *)

\* The first of the members of T in a sequence is p.
Leading(s, T, p) ==
  p \in T /\ \E k \in DOMAIN s : s[k] = p /\ \A j \in DOMAIN s : j < k => s[j] \notin T

\* As Leading, at some places of the sequence only.
LeadingAt(s, places, T, p) ==
  p \in T /\ \E k \in places : s[k] = p /\ \A j \in places : j < k => s[j] \notin T

\* A sequence, whatever it is of.
Length(s, n) == n \in Nat /\ s = [k \in 1 .. n |-> s[k]]

PathsOf(entries) == [k \in DOMAIN entries |-> entries[k].path]

\* What is listed of a sequence has the same first members as its places.
LEMMA AtLeads ==
  ASSUME NEW entries, NEW n, Length(entries, n), NEW places \in SUBSET (1 .. n)
  PROVE  /\ \E m : Length(At(entries, places), m)
         /\ \A T, p : Leading(PathsOf(At(entries, places)), T, p)
                      <=> LeadingAt(PathsOf(entries), places, T, p)
<1> DEFINE at == Increasing(places)
<1>1. n \in Nat /\ DOMAIN entries = 1 .. n
  BY DEF Length
<1>2. PICK m \in Nat : /\ at \in [1 .. m -> places]
                       /\ \A k, l \in 1 .. m : k < l => at[k] < at[l]
                       /\ \A i \in places : \E k \in 1 .. m : at[k] = i
  BY <1>1, IncreasingLists
<1>3. At(entries, places) = [k \in DOMAIN at |-> entries[at[k]]]
  BY DEF At, Increasing
<1> HIDE DEF at
<1>4. Length(At(entries, places), m)
  BY <1>2, <1>3 DEF Length
<1> DEFINE paths == PathsOf(entries)
           listed == PathsOf(At(entries, places))
<1>5. DOMAIN listed = 1 .. m /\ \A k \in 1 .. m : listed[k] = paths[at[k]]
  <2>1. \A k \in 1 .. m : at[k] \in 1 .. n
    BY <1>2
  <2> QED
    BY <1>1, <1>2, <1>3, <2>1 DEF PathsOf
<1> HIDE DEF listed, paths
<1>6. ASSUME NEW k \in 1 .. m
      PROVE  k \in Nat /\ at[k] \in places /\ at[k] \in Nat
  <2>1. at[k] \in places
    BY <1>2
  <2>2. at[k] \in 1 .. n
    BY <2>1
  <2> QED
    BY <1>1, <2>1, <2>2
<1>7. ASSUME NEW T, NEW p, Leading(listed, T, p)
      PROVE  LeadingAt(paths, places, T, p)
  <2>1. PICK k \in 1 .. m : listed[k] = p /\ \A j \in 1 .. m : j < k => listed[j] \notin T
    BY <1>5, <1>7 DEF Leading
  <2>2. ASSUME NEW i \in places, i < at[k]
        PROVE  paths[i] \notin T
    <3>1. PICK j \in 1 .. m : at[j] = i
      BY <1>2
    <3>2. j # k /\ ~(k < j)
      <4>1. at[j] < at[k] /\ at[j] \in Nat /\ at[k] \in Nat
        BY <1>6, <2>2, <3>1
      <4> QED
        BY <1>2, <4>1
    <3>3. j < k
      BY <3>2
    <3> QED
      BY <1>5, <2>1, <3>1, <3>3
  <2> QED
    BY <1>5, <1>6, <1>7, <2>1, <2>2 DEF Leading, LeadingAt
<1>8. ASSUME NEW T, NEW p, LeadingAt(paths, places, T, p)
      PROVE  Leading(listed, T, p)
  <2>1. PICK i \in places : paths[i] = p /\ \A j \in places : j < i => paths[j] \notin T
    BY <1>8 DEF LeadingAt
  <2>2. PICK k \in 1 .. m : at[k] = i
    BY <1>2
  <2>3. \A j \in 1 .. m : j < k => listed[j] \notin T
    BY <1>2, <1>5, <1>6, <2>1, <2>2
  <2> QED
    BY <1>5, <1>8, <2>1, <2>2, <2>3 DEF Leading, LeadingAt
<1> QED
  BY <1>4, <1>7, <1>8 DEF listed, paths

\* The first entry for each path keeps what is found first.
LEMMA FirstOfEachLeads ==
  ASSUME NEW entries, NEW n, Length(entries, n)
  PROVE  /\ \E m : Length(FirstOfEach(entries), m)
         /\ \A T, p : Leading(PathsOf(FirstOfEach(entries)), T, p)
                      <=> Leading(PathsOf(entries), T, p)
<1> DEFINE first == {i \in DOMAIN entries : \A j \in 1 .. i - 1 : entries[j].path # entries[i].path}
           paths == PathsOf(entries)
<1>1. n \in Nat /\ DOMAIN entries = 1 .. n /\ first \in SUBSET (1 .. n)
  BY DEF Length
<1>2. FirstOfEach(entries) = At(entries, first)
  BY DEF FirstOfEach
<1>3. DOMAIN paths = 1 .. n /\ \A i \in 1 .. n : paths[i] = entries[i].path
  BY <1>1 DEF PathsOf
<1>4. \A i : i \in first <=> i \in 1 .. n /\ \A j \in 1 .. i - 1 : paths[j] # paths[i]
  BY <1>1, <1>3
<1> HIDE DEF first, paths
<1>5. ASSUME NEW T, NEW p, Leading(paths, T, p)
      PROVE  LeadingAt(paths, first, T, p)
  <2>1. PICK k \in 1 .. n : paths[k] = p /\ \A j \in 1 .. n : j < k => paths[j] \notin T
    BY <1>3, <1>5 DEF Leading
  <2>2. k \in first
    BY <1>1, <1>4, <1>5, <2>1 DEF Leading
  <2> QED
    BY <1>1, <1>5, <2>1, <2>2 DEF Leading, LeadingAt
<1>6. ASSUME NEW T, NEW p, LeadingAt(paths, first, T, p)
      PROVE  Leading(paths, T, p)
  <2>1. PICK k \in first : paths[k] = p /\ \A j \in first : j < k => paths[j] \notin T
    BY <1>6 DEF LeadingAt
  <2> DEFINE earlier == {j \in 1 .. n : j < k /\ paths[j] \in T}
  <2>2. earlier = {}
    <3> SUFFICES ASSUME earlier # {} PROVE FALSE
      OBVIOUS
    <3>1. PICK j \in earlier : \A i \in earlier : j <= i
      <4>1. earlier \in SUBSET Nat
        OBVIOUS
      <4> QED
        BY <4>1, MinIs
    <3>2. j \in first
      BY <1>1, <1>4, <3>1
    <3> QED
      BY <2>1, <3>1, <3>2
  <2> QED
    BY <1>1, <1>3, <1>6, <2>1, <2>2 DEF Leading, LeadingAt
<1>7. /\ \E m : Length(At(entries, first), m)
      /\ \A T, p : Leading(PathsOf(At(entries, first)), T, p) <=> LeadingAt(paths, first, T, p)
  BY <1>1, AtLeads DEF paths
<1> QED
  BY <1>2, <1>5, <1>6, <1>7 DEF paths

\* A sequence of some length is one in the library's sense.
LEMMA LengthIs ==
  ASSUME NEW s, NEW n, Length(s, n)
  PROVE  /\ n \in Nat /\ DOMAIN s = 1 .. n
         /\ s \in Seq({s[k] : k \in 1 .. n}) /\ Len(s) = n
<1> DEFINE R == {s[k] : k \in 1 .. n}
<1>1. n \in Nat /\ s = [k \in 1 .. n |-> s[k]]
  BY DEF Length
<1>2. DOMAIN s = 1 .. n /\ \A k \in 1 .. n : s[k] \in R
  BY <1>1
<1> HIDE DEF R
<1>3. s \in [1 .. n -> R]
  BY <1>1, <1>2
<1>4. s \in Seq(R) /\ Len(s) = n
  BY <1>1, <1>3
<1> QED
  BY <1>1, <1>2, <1>4 DEF R

\* Entries have a path each.
LEMMA PathsLength ==
  ASSUME NEW entries, NEW n, Length(entries, n)
  PROVE  Length(PathsOf(entries), n) /\ \A k \in 1 .. n : PathsOf(entries)[k] = entries[k].path
<1>1. n \in Nat /\ DOMAIN entries = 1 .. n
  BY LengthIs
<1>2. PathsOf(entries) = [k \in 1 .. n |-> entries[k].path]
  BY <1>1 DEF PathsOf
<1> QED
  BY <1>1, <1>2 DEF Length

\* u is one sequence after the other.
Joined(u, s, m, t, n) ==
  /\ Length(u, m + n)
  /\ \A k \in 1 .. m : u[k] = s[k]
  /\ \A k \in 1 .. n : u[k + m] = t[k]

\* A concatenation is its first part and, shifted, its second.
LEMMA JoinedLength ==
  ASSUME NEW s, NEW m, Length(s, m), NEW t, NEW n, Length(t, n)
  PROVE  Joined(s \o t, s, m, t, n)
<1> DEFINE A == {s[k] : k \in 1 .. m}
           B == {t[k] : k \in 1 .. n}
<1>1. /\ m \in Nat /\ s \in Seq(A) /\ Len(s) = m
      /\ n \in Nat /\ t \in Seq(B) /\ Len(t) = n
  BY LengthIs
<1> HIDE DEF A, B
<1>2. s \in Seq(A \cup B) /\ t \in Seq(A \cup B)
  BY <1>1
<1>3. /\ s \o t \in Seq(A \cup B) /\ Len(s \o t) = m + n
      /\ \A k \in 1 .. m : (s \o t)[k] = s[k]
      /\ \A k \in 1 .. n : (s \o t)[k + m] = t[k]
  BY <1>1, <1>2
<1> DEFINE u == s \o t
<1>4. u \in Seq(A \cup B) /\ Len(u) = m + n /\ m + n \in Nat
  BY <1>1, <1>3
<1>5. u = [k \in 1 .. m + n |-> u[k]]
  <2> HIDE DEF u
  <2>1. u \in [1 .. Len(u) -> A \cup B]
    BY <1>4
  <2> QED
    BY <1>4, <2>1
<1>6. Length(u, m + n)
  <2> HIDE DEF u
  <2> QED
    BY <1>4, <1>5 DEF Length
<1> QED
  BY <1>3, <1>6 DEF u, Joined

\* Nothing of a sequence is in T.
None(s, T) == \A k \in DOMAIN s : s[k] \notin T

\* Nothing leads in a sequence exactly when none of it is in the set.
LEMMA NoneLeads ==
  ASSUME NEW s, NEW n, Length(s, n), NEW T
  PROVE  None(s, T) <=> \A p : ~Leading(s, T, p)
<1>1. n \in Nat /\ DOMAIN s = 1 .. n
  BY LengthIs
<1>2. None(s, T) => \A p : ~Leading(s, T, p)
  BY DEF None, Leading
<1>3. ASSUME ~None(s, T)
      PROVE  \E p : Leading(s, T, p)
  <2> DEFINE in == {k \in 1 .. n : s[k] \in T}
  <2>1. in \in SUBSET Nat /\ in # {}
    BY <1>1, <1>3 DEF None
  <2>2. Min(in) \in in /\ \A j \in in : Min(in) <= j
    BY <2>1, MinIs
  <2>3. \A j \in 1 .. n : j < Min(in) => s[j] \notin T
    BY <2>2
  <2>4. Leading(s, T, s[Min(in)])
    BY <1>1, <2>2, <2>3 DEF Leading
  <2> QED
    BY <2>4
<1> QED
  BY <1>2, <1>3

\* In a joined sequence the first part is searched first.
LEMMA JoinedLeads ==
  ASSUME NEW s, NEW m, Length(s, m), NEW t, NEW n, Length(t, n), NEW T, NEW p
  PROVE  Leading(s \o t, T, p) <=> Leading(s, T, p) \/ (None(s, T) /\ Leading(t, T, p))
<1>1. /\ m \in Nat /\ DOMAIN s = 1 .. m /\ n \in Nat /\ DOMAIN t = 1 .. n
      /\ DOMAIN (s \o t) = 1 .. m + n
      /\ \A k \in 1 .. m : (s \o t)[k] = s[k]
      /\ \A k \in 1 .. n : (s \o t)[k + m] = t[k]
  <2>1. Joined(s \o t, s, m, t, n)
    BY JoinedLength
  <2>2. /\ m \in Nat /\ DOMAIN s = 1 .. m /\ n \in Nat /\ DOMAIN t = 1 .. n
        /\ DOMAIN (s \o t) = 1 .. m + n
    BY <2>1, LengthIs DEF Joined
  <2> QED
    BY <2>1, <2>2 DEF Joined
<1> DEFINE u == s \o t
<1>2. /\ DOMAIN u = 1 .. m + n
      /\ \A k \in 1 .. m : u[k] = s[k]
      /\ \A k \in 1 .. n : u[k + m] = t[k]
  BY <1>1
<1> HIDE DEF u
<1>3. ASSUME NEW k \in 1 .. m + n
      PROVE  \/ k \in 1 .. m /\ u[k] = s[k]
             \/ k - m \in 1 .. n /\ u[k] = t[k - m]
  <2>1. CASE k <= m
    BY <1>1, <1>2, <2>1
  <2>2. CASE ~(k <= m)
    <3>1. k - m \in 1 .. n /\ (k - m) + m = k
      BY <1>1, <2>2
    <3> QED
      BY <1>2, <3>1
  <2> QED
    BY <2>1, <2>2
<1>4. ASSUME Leading(u, T, p)
      PROVE  Leading(s, T, p) \/ (None(s, T) /\ Leading(t, T, p))
  <2>1. p \in T
    BY <1>4 DEF Leading
  <2>2. PICK k \in 1 .. m + n : u[k] = p /\ \A j \in 1 .. m + n : j < k => u[j] \notin T
    BY <1>2, <1>4 DEF Leading
  <2>3. CASE k \in 1 .. m /\ u[k] = s[k]
    <3>1. \A j \in 1 .. m : j < k => s[j] \notin T
      BY <1>1, <1>2, <2>2
    <3>2. k \in DOMAIN s /\ s[k] = p
      BY <1>1, <2>2, <2>3
    <3>3. Leading(s, T, p)
      BY <1>1, <2>1, <3>1, <3>2 DEF Leading
    <3> QED
      BY <3>3
  <2>4. CASE k - m \in 1 .. n /\ u[k] = t[k - m]
    <3>1. ASSUME NEW j \in 1 .. m
          PROVE  s[j] \notin T
      BY <1>1, <1>2, <2>2, <2>4
    <3>2. ASSUME NEW j \in 1 .. n, j < k - m
          PROVE  t[j] \notin T
      <4>1. j + m \in 1 .. m + n /\ j + m < k
        BY <1>1, <3>2
      <4> QED
        BY <1>2, <2>2, <4>1
    <3> QED
      BY <1>1, <2>1, <2>2, <2>4, <3>1, <3>2 DEF Leading, None
  <2> QED
    BY <1>3, <2>3, <2>4
<1>5. ASSUME Leading(s, T, p)
      PROVE  Leading(u, T, p)
  <2>1. p \in T
    BY <1>5 DEF Leading
  <2>2. PICK k \in 1 .. m : s[k] = p /\ \A j \in 1 .. m : j < k => s[j] \notin T
    BY <1>1, <1>5 DEF Leading
  <2>3. k \in 1 .. m + n /\ u[k] = p
    BY <1>1, <1>2, <2>2
  <2>4. ASSUME NEW j \in 1 .. m + n, j < k
        PROVE  u[j] \notin T
    <3>1. j \in 1 .. m
      BY <1>1, <2>4
    <3> QED
      BY <1>2, <2>2, <2>4, <3>1
  <2> QED
    BY <1>2, <2>1, <2>3, <2>4 DEF Leading
<1>6. ASSUME None(s, T), Leading(t, T, p)
      PROVE  Leading(u, T, p)
  <2>1. p \in T /\ \A j \in 1 .. m : s[j] \notin T
    BY <1>1, <1>6 DEF Leading, None
  <2>2. PICK k \in 1 .. n : t[k] = p /\ \A j \in 1 .. n : j < k => t[j] \notin T
    BY <1>1, <1>6 DEF Leading
  <2>3. k + m \in 1 .. m + n /\ u[k + m] = p
    BY <1>1, <1>2, <2>2
  <2>4. ASSUME NEW j \in 1 .. m + n, j < k + m
        PROVE  u[j] \notin T
    <3>1. CASE j \in 1 .. m /\ u[j] = s[j]
      BY <2>1, <3>1
    <3>2. CASE j - m \in 1 .. n /\ u[j] = t[j - m]
      <4>1. j - m < k
        BY <1>1, <2>4
      <4> QED
        BY <2>2, <3>2, <4>1
    <3> QED
      BY <1>3, <3>1, <3>2
  <2> QED
    BY <1>2, <2>1, <2>3, <2>4 DEF Leading
<1> QED
  BY <1>4, <1>5, <1>6 DEF u

\* s lists what is in F among the members of t, as a search meets them.
Finds(s, t, F) == \A T, p : Leading(s, T, p) <=> Leading(t, T \cap F, p)

\* Two searches one after the other find what their places do.
LEMMA FindsJoined ==
  ASSUME NEW s, NEW m, Length(s, m), NEW t, NEW n, Length(t, n),
         NEW ss, NEW i, Length(ss, i), NEW tt, NEW j, Length(tt, j),
         NEW F, Finds(s, t, F), Finds(ss, tt, F)
  PROVE  Finds(s \o ss, t \o tt, F)
<1> SUFFICES ASSUME NEW T, NEW p
             PROVE  Leading(s \o ss, T, p) <=> Leading(t \o tt, T \cap F, p)
  BY DEF Finds
<1>1. /\ \A q : Leading(s, T, q) <=> Leading(t, T \cap F, q)
      /\ \A q : Leading(ss, T, q) <=> Leading(tt, T \cap F, q)
  BY DEF Finds
<1>2. None(s, T) <=> None(t, T \cap F)
  <2>1. None(s, T) <=> \A q : ~Leading(s, T, q)
    BY NoneLeads
  <2>2. None(t, T \cap F) <=> \A q : ~Leading(t, T \cap F, q)
    BY NoneLeads
  <2> QED
    BY <1>1, <2>1, <2>2
<1>3. Leading(s \o ss, T, p) <=> Leading(s, T, p) \/ (None(s, T) /\ Leading(ss, T, p))
  BY JoinedLeads
<1>4. Leading(t \o tt, T \cap F, p)
      <=> Leading(t, T \cap F, p) \/ (None(t, T \cap F) /\ Leading(tt, T \cap F, p))
  BY JoinedLeads
<1> QED
  BY <1>1, <1>2, <1>3, <1>4

\* To list each path once does not change what is found.
LEMMA FindsFirst ==
  ASSUME NEW entries, NEW n, Length(entries, n), NEW t, NEW F, Finds(PathsOf(entries), t, F)
  PROVE  /\ \E m : Length(FirstOfEach(entries), m)
         /\ Finds(PathsOf(FirstOfEach(entries)), t, F)
<1>1. /\ \E m : Length(FirstOfEach(entries), m)
      /\ \A T, p : Leading(PathsOf(FirstOfEach(entries)), T, p) <=> Leading(PathsOf(entries), T, p)
  BY FirstOfEachLeads
<1> QED
  BY <1>1 DEF Finds

-----------------------------------------------------------------------------
(* Paths and layers.                                                       *)

\* A prefix agrees name by name.
LEMMA PrefixIs ==
  ASSUME NEW p \in Paths, NEW q \in Paths
  PROVE  IsPrefix(p, q) <=> Len(p) <= Len(q) /\ \A k \in 1 .. Len(p) : p[k] = q[k]
<1> DEFINE X == DOMAIN Rank
<1>1. p \in Seq(X) /\ q \in Seq(X) /\ Len(p) \in Nat /\ Len(q) \in Nat
  BY DEF Paths
<1> HIDE DEF X
<1>2. CASE Len(p) <= Len(q)
  <2>1. /\ SubSeq(p, 1, Len(p)) \in Seq(X) /\ Len(SubSeq(p, 1, Len(p))) = Len(p)
        /\ \A k \in 1 .. Len(p) : SubSeq(p, 1, Len(p))[k] = p[k]
    BY <1>1
  <2>2. /\ SubSeq(q, 1, Len(p)) \in Seq(X) /\ Len(SubSeq(q, 1, Len(p))) = Len(p)
        /\ \A k \in 1 .. Len(p) : SubSeq(q, 1, Len(p))[k] = q[k]
    BY <1>1, <1>2
  <2>3. SubSeq(p, 1, Len(p)) = SubSeq(q, 1, Len(p))
        <=> \A k \in 1 .. Len(p) : SubSeq(p, 1, Len(p))[k] = SubSeq(q, 1, Len(p))[k]
    BY <2>1, <2>2
  <2> QED
    BY <1>2, <2>1, <2>2, <2>3 DEF IsPrefix
<1>3. CASE ~(Len(p) <= Len(q))
  BY <1>3 DEF IsPrefix
<1> QED
  BY <1>2, <1>3

\* What is below a path is below the root that the path is below.
LEMMA BelowJoined ==
  ASSUME NEW path \in Paths, NEW root \in Paths, NEW relative \in Paths, Below(path, root)
  PROVE  path \o relative \in Paths /\ Below(path \o relative, root)
<1> DEFINE X == DOMAIN Rank
<1>1. /\ path \in Seq(X) /\ relative \in Seq(X) /\ root \in Seq(X)
      /\ Len(path) \in Nat /\ Len(relative) \in Nat /\ Len(root) \in Nat
  BY DEF Paths
<1>2. Len(root) <= Len(path) /\ \A k \in 1 .. Len(root) : root[k] = path[k]
  BY PrefixIs DEF Below
<1> DEFINE joined == path \o relative
<1>3. /\ joined \in Seq(X) /\ Len(joined) = Len(path) + Len(relative)
      /\ \A k \in 1 .. Len(path) : joined[k] = path[k]
  <2> HIDE DEF X
  <2> QED
    BY <1>1
<1> HIDE DEF joined
<1>4. joined \in Paths
  BY <1>3 DEF Paths
<1>5. Len(root) <= Len(joined) /\ \A k \in 1 .. Len(root) : root[k] = joined[k]
  BY <1>1, <1>2, <1>3
<1>6. Below(joined, root)
  BY <1>4, <1>5, PrefixIs DEF Below
<1> QED
  BY <1>4, <1>6 DEF joined

\* A path is below itself.
LEMMA BelowItself ==
  ASSUME NEW path \in Paths
  PROVE  Below(path, path)
<1>1. Len(path) \in Nat
  BY DEF Paths
<1> QED
  BY <1>1, PrefixIs DEF Below

\* The first of some places.
LEMMA FirstIs ==
  ASSUME NEW n \in Nat, NEW S \in SUBSET (1 .. n)
  PROVE  IF S = {} THEN First(S) = 0
         ELSE First(S) \in S /\ First(S) # 0 /\ \A i \in S : First(S) <= i
<1>1. S \in SUBSET Nat /\ 0 \notin S
  OBVIOUS
<1>2. S # {} => Min(S) \in S /\ \A i \in S : Min(S) <= i
  BY <1>1, MinIs
<1> QED
  BY <1>1, <1>2 DEF First

\* Containing finds a layer when one contains the path.
LEMMA ContainingIs ==
  ASSUME NEW layers, NEW n \in Nat, DOMAIN layers = 1 .. n, NEW path
  PROVE  /\ Containing(layers, path) # 0 <=> \E i \in 1 .. n : Below(path, layers[i].root)
         /\ Containing(layers, path) # 0 =>
              /\ Containing(layers, path) \in 1 .. n
              /\ Below(path, layers[Containing(layers, path)].root)
<1> DEFINE S == {i \in 1 .. n : Below(path, layers[i].root)}
<1>1. Containing(layers, path) = First(S)
  BY DEF Containing
<1>2. IF S = {} THEN First(S) = 0 ELSE First(S) \in S /\ First(S) # 0
  <2>1. S \in SUBSET (1 .. n)
    OBVIOUS
  <2> HIDE DEF S
  <2> QED
    BY <2>1, FirstIs
<1> QED
  BY <1>1, <1>2

\* The layers of an index hold those of its files that are below them.
LayersHold(x) ==
  /\ x.buildFiles \subseteq x.files
  /\ \E n \in Nat : DOMAIN x.layers = 1 .. n
  /\ \A i \in DOMAIN x.layers :
       /\ x.layers[i].root \in Paths
       /\ x.layers[i].files = {f \in x.files : Below(f, x.layers[i].root)}

\* The search paths list BBPATH, each with a layer that it is in.
SearchesBbpath(x) ==
  /\ \E n : Length(x.searchPaths, n)
  /\ \A k \in DOMAIN x.searchPaths :
       /\ x.searchPaths[k].path \in Paths
       /\ x.searchPaths[k].layer \in DOMAIN x.layers
       /\ Below(x.searchPaths[k].path, x.layers[x.searchPaths[k].layer].root)
  /\ \A T, p : Leading(PathsOf(x.searchPaths), T, p)
               <=> Leading(world.environment.bbpath, T, p)

\* The files that BitBake may find.
Held(x) == {f \in x.files : f \in x.buildFiles \/ Containing(x.layers, f) # 0}

Under(directories, relative) == [k \in DOMAIN directories |-> directories[k] \o relative]

LeadsUnder(s, relative, T, p) ==
  \E q : Leading(s, {d \in Paths : d \o relative \in T}, q) /\ q \o relative = p

ArePaths(s) == \A k \in DOMAIN s : s[k] \in Paths

\* What is found first under directories is in the first directory that has it.
LEMMA UnderLeads ==
  ASSUME NEW s, ArePaths(s), NEW relative, NEW T, NEW p
  PROVE  Leading(Under(s, relative), T, p) <=> LeadsUnder(s, relative, T, p)
<1> DEFINE U == {d \in Paths : d \o relative \in T}
<1>1. /\ DOMAIN Under(s, relative) = DOMAIN s
      /\ \A k \in DOMAIN s : Under(s, relative)[k] = s[k] \o relative
  BY DEF Under
<1>2. \A k \in DOMAIN s : s[k] \in U <=> Under(s, relative)[k] \in T
  BY <1>1 DEF ArePaths
<1>3. \A d \in U : d \o relative \in T
  OBVIOUS
<1> HIDE DEF U
<1>4. ASSUME Leading(Under(s, relative), T, p)
      PROVE  \E q : Leading(s, U, q) /\ q \o relative = p
  <2>1. PICK k \in DOMAIN s : /\ Under(s, relative)[k] = p /\ p \in T
                              /\ \A j \in DOMAIN s : j < k => Under(s, relative)[j] \notin T
    BY <1>1, <1>4 DEF Leading
  <2>2. Leading(s, U, s[k])
    BY <1>2, <2>1 DEF Leading
  <2> QED
    BY <1>1, <2>1, <2>2
<1>5. ASSUME NEW q, Leading(s, U, q), q \o relative = p
      PROVE  Leading(Under(s, relative), T, p)
  <2>1. PICK k \in DOMAIN s : s[k] = q /\ q \in U /\ \A j \in DOMAIN s : j < k => s[j] \notin U
    BY <1>5 DEF Leading
  <2> QED
    BY <1>1, <1>2, <1>3, <1>5, <2>1 DEF Leading
<1> QED
  BY <1>4, <1>5 DEF U, LeadsUnder

\* The search paths of an index find what BitBake finds under BBPATH.
LEMMA SearchedFinds ==
  ASSUME NEW x, LayersHold(x), SearchesBbpath(x), NEW relative \in Paths, NEW scope,
         ArePaths(world.environment.bbpath)
  PROVE  /\ \E m : Length(Searched(x, relative, scope), m)
         /\ Finds(PathsOf(Searched(x, relative, scope)),
                  Under(world.environment.bbpath, relative), Held(x))
<1> DEFINE sp == x.searchPaths
           bbpath == world.environment.bbpath
           layer(k) == x.layers[sp[k].layer]
           path(k) == sp[k].path \o relative
           entries == [k \in DOMAIN sp |-> Candidate(layer(k), path(k), scope)]
           places == {k \in DOMAIN sp : path(k) \in layer(k).files}
<1>1. PICK n : Length(sp, n)
  BY DEF SearchesBbpath
<1>2. n \in Nat /\ DOMAIN sp = 1 .. n
  BY <1>1, LengthIs
<1>3. Searched(x, relative, scope) = At(entries, places)
  BY DEF Searched
<1>4. Length(entries, n) /\ places \in SUBSET (1 .. n)
  BY <1>2 DEF Length
<1>5. DOMAIN PathsOf(entries) = 1 .. n /\ \A k \in 1 .. n : PathsOf(entries)[k] = path(k)
  BY <1>2 DEF PathsOf, Candidate
<1>6. ASSUME NEW k \in 1 .. n
      PROVE  k \in places <=> path(k) \in Held(x)
  <2>1. PICK m \in Nat : DOMAIN x.layers = 1 .. m
    BY DEF LayersHold
  <2>2. /\ sp[k].path \in Paths /\ sp[k].layer \in 1 .. m
        /\ Below(sp[k].path, layer(k).root)
    BY <1>2, <2>1 DEF SearchesBbpath
  <2>3. layer(k).root \in Paths /\ layer(k).files = {f \in x.files : Below(f, layer(k).root)}
    BY <2>1, <2>2 DEF LayersHold
  <2>4. Below(path(k), layer(k).root)
    BY <2>2, <2>3, BelowJoined
  <2>5. Containing(x.layers, path(k)) # 0
    BY <2>1, <2>2, <2>4, ContainingIs
  <2> QED
    BY <1>2, <2>3, <2>4, <2>5 DEF Held
<1>7. \A T, p : Leading(PathsOf(At(entries, places)), T, p)
                <=> LeadingAt(PathsOf(entries), places, T, p)
  BY <1>4, AtLeads
<1>8. \E m : Length(At(entries, places), m)
  BY <1>4, AtLeads
<1>9. /\ ArePaths(PathsOf(sp)) /\ ArePaths(bbpath)
      /\ DOMAIN PathsOf(sp) = 1 .. n
      /\ \A k \in 1 .. n : PathsOf(sp)[k] \o relative = path(k)
  BY <1>2 DEF PathsOf, SearchesBbpath, ArePaths
<1>10. \A T, p : Leading(PathsOf(sp), T, p) <=> Leading(bbpath, T, p)
  BY DEF SearchesBbpath
<1> HIDE DEF sp, bbpath, entries, places, path
<1>11. ASSUME NEW T, NEW p
       PROVE  LeadingAt(PathsOf(entries), places, T, p)
              <=> Leading(PathsOf(entries), T \cap Held(x), p)
  <2>1. \A k \in 1 .. n : PathsOf(entries)[k] \in Held(x) <=> k \in places
    BY <1>5, <1>6
  <2>2. DOMAIN PathsOf(entries) = 1 .. n /\ places \in SUBSET (1 .. n)
    BY <1>4, <1>5
  <2> QED
    BY <2>1, <2>2 DEF Leading, LeadingAt
<1>12. PathsOf(entries) = Under(PathsOf(sp), relative)
  <2>1. PathsOf(entries) = [k \in DOMAIN PathsOf(entries) |-> PathsOf(entries)[k]]
    BY DEF PathsOf
  <2> QED
    BY <1>5, <1>9, <2>1 DEF Under
<1>13. ASSUME NEW T, NEW p
       PROVE  Leading(Under(PathsOf(sp), relative), T, p) <=> Leading(Under(bbpath, relative), T, p)
  <2>1. Leading(Under(PathsOf(sp), relative), T, p) <=> LeadsUnder(PathsOf(sp), relative, T, p)
    BY <1>9, UnderLeads
  <2>2. Leading(Under(bbpath, relative), T, p) <=> LeadsUnder(bbpath, relative, T, p)
    BY <1>9, UnderLeads
  <2> QED
    BY <1>10, <2>1, <2>2 DEF LeadsUnder
<1>14. Finds(PathsOf(At(entries, places)), Under(bbpath, relative), Held(x))
  BY <1>7, <1>11, <1>12, <1>13 DEF Finds
<1> QED
  BY <1>3, <1>8, <1>14 DEF bbpath

-----------------------------------------------------------------------------
(* Candidates.                                                             *)

\* The paths of a concatenation.
LEMMA JoinedPaths ==
  ASSUME NEW a, NEW m, Length(a, m), NEW b, NEW n, Length(b, n)
  PROVE  PathsOf(a \o b) = PathsOf(a) \o PathsOf(b)
<1> DEFINE u == a \o b
           v == PathsOf(a) \o PathsOf(b)
<1>1. m \in Nat /\ n \in Nat
  BY LengthIs
<1>2. Joined(u, a, m, b, n)
  BY JoinedLength
<1>3. /\ Length(PathsOf(a), m) /\ \A k \in 1 .. m : PathsOf(a)[k] = a[k].path
      /\ Length(PathsOf(b), n) /\ \A k \in 1 .. n : PathsOf(b)[k] = b[k].path
  BY PathsLength
<1>4. Joined(v, PathsOf(a), m, PathsOf(b), n)
  BY <1>3, JoinedLength
<1> HIDE DEF u, v
<1>5. Length(PathsOf(u), m + n) /\ \A k \in 1 .. m + n : PathsOf(u)[k] = u[k].path
  <2>1. Length(u, m + n)
    BY <1>2 DEF Joined
  <2> QED
    BY <2>1, PathsLength
<1>6. ASSUME NEW k \in 1 .. m + n
      PROVE  PathsOf(u)[k] = v[k]
  <2>1. CASE k <= m
    <3>1. k \in 1 .. m
      BY <1>1, <2>1
    <3>2. u[k] = a[k] /\ v[k] = PathsOf(a)[k]
      BY <1>2, <1>4, <3>1 DEF Joined
    <3> QED
      BY <1>3, <1>5, <3>1, <3>2
  <2>2. CASE ~(k <= m)
    <3>1. k - m \in 1 .. n /\ (k - m) + m = k
      BY <1>1, <2>2
    <3>2. u[(k - m) + m] = b[k - m] /\ v[(k - m) + m] = PathsOf(b)[k - m]
      BY <1>2, <1>4, <3>1 DEF Joined
    <3> QED
      BY <1>3, <1>5, <3>1, <3>2
  <2> QED
    BY <2>1, <2>2
<1>7. /\ PathsOf(u) = [k \in 1 .. m + n |-> PathsOf(u)[k]]
      /\ v = [k \in 1 .. m + n |-> v[k]]
  BY <1>4, <1>5 DEF Length, Joined
<1>8. PathsOf(u) = v
  BY <1>6, <1>7
<1> QED
  BY <1>8 DEF u, v

\* Paths are joined in any grouping.
LEMMA Associative ==
  ASSUME NEW p \in Paths, NEW d \in Paths, NEW r \in Paths
  PROVE  /\ d \o r \in Paths
         /\ p \o d \o r = p \o (d \o r)
         /\ p \o <<>> \o r = p \o r
<1> DEFINE X == DOMAIN Rank
<1>1. p \in Seq(X) /\ d \in Seq(X) /\ r \in Seq(X)
  BY DEF Paths
<1> HIDE DEF X
<1>2. d \o r \in Seq(X) /\ p \o d \o r = p \o (d \o r) /\ p \o <<>> \o r = p \o r
  BY <1>1
<1> QED
  BY <1>2 DEF X, Paths

\* There is a place under every entry of BBPATH.
LEMMA UnderLength ==
  ASSUME NEW n, Length(world.environment.bbpath, n), NEW relative
  PROVE  Length(Under(world.environment.bbpath, relative), n)
<1>1. n \in Nat /\ DOMAIN world.environment.bbpath = 1 .. n
  BY LengthIs
<1> QED
  BY <1>1 DEF Under, Length

\* A single path.
LEMMA OneLeads ==
  ASSUME NEW path, NEW T, NEW p
  PROVE  Leading(<<path>>, T, p) <=> p = path /\ p \in T
<1>1. DOMAIN <<path>> = {1} /\ <<path>>[1] = path
  OBVIOUS
<1> QED
  BY <1>1 DEF Leading

\* One path finds itself, if a layer or the build has it.
LEMMA CandidateAtFinds ==
  ASSUME NEW x, LayersHold(x), NEW path
  PROVE  /\ \E m : Length(CandidateAt(x, path), m)
         /\ Finds(PathsOf(CandidateAt(x, path)), <<path>>, Held(x))
         /\ CandidateAt(x, path) = <<>> <=> path \notin Held(x)
<1> DEFINE holders == {i \in DOMAIN x.layers : path \in x.layers[i].files}
           at == CandidateAt(x, path)
<1>1. PICK n \in Nat : DOMAIN x.layers = 1 .. n
  BY DEF LayersHold
<1>2. First(holders) # 0 <=> holders # {}
  <2>1. holders \in SUBSET (1 .. n)
    BY <1>1
  <2> HIDE DEF holders
  <2> QED
    BY <2>1, FirstIs
<1>3. path \in Held(x) <=> holders # {} \/ path \in x.buildFiles
  <2>1. Containing(x.layers, path) # 0 <=> \E i \in 1 .. n : Below(path, x.layers[i].root)
    BY <1>1, ContainingIs
  <2>2. \A i \in 1 .. n : x.layers[i].files = {f \in x.files : Below(f, x.layers[i].root)}
    BY <1>1 DEF LayersHold
  <2>3. path \in x.buildFiles => path \in x.files
    BY DEF LayersHold
  <2>4. holders # {} <=> \E i \in 1 .. n : path \in x.files /\ Below(path, x.layers[i].root)
    BY <1>1, <2>2
  <2> QED
    BY <2>1, <2>3, <2>4 DEF Held
<1>4. \/ path \in Held(x) /\ \E c : at = <<c>> /\ c.path = path
      \/ path \notin Held(x) /\ at = <<>>
  <2>1. CASE holders # {}
    <3>1. at = <<Candidate(x.layers[First(holders)], path, "CurrentFile")>>
      BY <1>2, <2>1 DEF CandidateAt
    <3>2. Candidate(x.layers[First(holders)], path, "CurrentFile").path = path
      BY DEF Candidate
    <3> QED
      BY <1>3, <2>1, <3>1, <3>2
  <2>2. CASE holders = {}
    <3> DEFINE c == [path |-> path, layer |-> world.build, priority |-> 0,
                     collection |-> "none", scope |-> "CurrentFile"]
    <3>1. at = IF path \in x.buildFiles THEN <<c>> ELSE <<>>
      BY <1>2, <2>2 DEF CandidateAt
    <3>2. c.path = path
      OBVIOUS
    <3> QED
      BY <1>3, <2>2, <3>1, <3>2
  <2> QED
    BY <2>1, <2>2
<1> HIDE DEF at
<1>5. CASE path \in Held(x)
  <2>1. PICK c : at = <<c>> /\ c.path = path
    BY <1>4, <1>5
  <2>2. Length(at, 1) /\ PathsOf(at) = <<path>> /\ at # <<>>
    BY <2>1 DEF Length, PathsOf
  <2>3. \A T, p : Leading(PathsOf(at), T, p) <=> Leading(<<path>>, T \cap Held(x), p)
    BY <1>5, <2>2, OneLeads
  <2> QED
    BY <1>5, <2>2, <2>3 DEF Finds, at
<1>6. CASE path \notin Held(x)
  <2>1. at = <<>>
    BY <1>4, <1>6
  <2>2. Length(at, 0) /\ DOMAIN PathsOf(at) = {}
    BY <2>1 DEF Length, PathsOf
  <2>3. \A T, p : ~Leading(PathsOf(at), T, p) /\ ~Leading(<<path>>, T \cap Held(x), p)
    BY <1>6, <2>2, OneLeads DEF Leading
  <2> QED
    BY <1>6, <2>1, <2>2, <2>3 DEF Finds, at
<1> QED
  BY <1>5, <1>6

\* What is found is in F.
LEMMA FindsIn ==
  ASSUME NEW s, NEW n, Length(s, n), NEW t, NEW F, Finds(s, t, F), NEW k \in 1 .. n
  PROVE  s[k] \in F
<1>1. DOMAIN s = 1 .. n
  BY LengthIs
<1>2. ~None(s, {s[k]})
  BY <1>1 DEF None
<1>3. PICK p : Leading(s, {s[k]}, p)
  BY <1>2, NoneLeads
<1>4. Leading(t, {s[k]} \cap F, p)
  BY <1>3 DEF Finds
<1> QED
  BY <1>4 DEF Leading

\* The first of the members of T, or all of them.
Found(s, T, every, p) == Leading(s, IF every THEN {p} \cap T ELSE T, p)

FoundAmong(s, n, T, every, p) ==
  \E k \in 1 .. n : /\ s[k] = p /\ p \in T
                    /\ every \/ \A j \in 1 .. n : s[j] \in T => k <= j

\* What is found, said with the length of the sequence.
LEMMA FoundIs ==
  ASSUME NEW s, NEW n, Length(s, n), NEW T, NEW every \in BOOLEAN, NEW p
  PROVE  Found(s, T, every, p) <=> FoundAmong(s, n, T, every, p)
<1>1. n \in Nat /\ DOMAIN s = 1 .. n
  BY LengthIs
<1>2. CASE every
  <2>1. Found(s, T, every, p) <=> Leading(s, {p} \cap T, p)
    BY <1>2 DEF Found
  <2>2. (\E k \in 1 .. n : s[k] = p /\ p \in T) => \E q : Leading(s, {p} \cap T, q)
    BY <1>1, NoneLeads DEF None
  <2>3. \A q : Leading(s, {p} \cap T, q) => q = p
    BY DEF Leading
  <2>4. Leading(s, {p} \cap T, p) => \E k \in 1 .. n : s[k] = p /\ p \in T
    BY <1>1 DEF Leading
  <2> QED
    BY <1>2, <2>1, <2>2, <2>3, <2>4 DEF FoundAmong
<1>3. CASE ~every
  <2>1. Found(s, T, every, p) <=> Leading(s, T, p)
    BY <1>3 DEF Found
  <2>2. \A k, j \in 1 .. n : ~(j < k) <=> k <= j
    BY <1>1
  <2> QED
    BY <1>1, <1>3, <2>1, <2>2 DEF Leading, FoundAmong
<1> QED
  BY <1>2, <1>3

Every(reference) == reference.kind = "IncludeAll"

\* The files a reference leads to, by the first members.
LEMMA LeadsToIs ==
  ASSUME NEW x, NEW from, NEW reference, NEW context, NEW n,
         Length(CandidatesFor(x, from, reference, context), n), NEW T,
         \A k \in 1 .. n : CandidatesFor(x, from, reference, context)[k].path \in T, NEW p
  PROVE  p \in LeadsTo(x, from, reference, context)
         <=> Found(PathsOf(CandidatesFor(x, from, reference, context)), T, Every(reference), p)
<1> DEFINE cs == CandidatesFor(x, from, reference, context)
<1>1. n \in Nat /\ DOMAIN cs = 1 .. n
  BY LengthIs
<1>2. Length(PathsOf(cs), n) /\ \A k \in 1 .. n : PathsOf(cs)[k] = cs[k].path
  BY PathsLength
<1>3. Every(reference) \in BOOLEAN
  BY DEF Every
<1>4. p \in LeadsTo(x, from, reference, context)
      <=> \E k \in 1 .. n : cs[k].path = p /\ (k = 1 \/ Every(reference))
  BY <1>1 DEF LeadsTo, Every
<1> HIDE DEF cs
<1>5. Found(PathsOf(cs), T, Every(reference), p)
      <=> FoundAmong(PathsOf(cs), n, T, Every(reference), p)
  BY <1>2, <1>3, FoundIs
<1>6. \A k \in 1 .. n : cs[k].path \in T
  BY DEF cs
<1>7. ASSUME NEW k \in 1 .. n
      PROVE  k = 1 <=> \A j \in 1 .. n : k <= j
  <2>1. 1 \in 1 .. n
    BY <1>1
  <2>2. (\A j \in 1 .. n : k <= j) => k <= 1
    BY <2>1
  <2> QED
    BY <1>1, <2>2
<1> QED
  BY <1>2, <1>4, <1>5, <1>6, <1>7 DEF cs, FoundAmong

\* The files BitBake opens, by the first members.
LEMMA OpenedIs ==
  ASSUME NEW from, NEW reference, NEW context, NEW n, Length(Places(from, reference, context), n),
         ~(reference.kind \in GlobalKinds /\ context # "Global"), NEW p
  PROVE  p \in Opened(from, reference, context)
         <=> Found(Places(from, reference, context), Held(index), Every(reference), p)
<1> DEFINE places == Places(from, reference, context)
<1>1. n \in Nat /\ DOMAIN places = 1 .. n
  BY LengthIs
<1>2. \A q : Findable(q) <=> q \in Held(index)
  BY DEF Findable, Held
<1>3. p \in Opened(from, reference, context)
      <=> \E k \in 1 .. n :
            /\ places[k] = p /\ p \in Held(index)
            /\ Every(reference) \/ \A j \in 1 .. n : places[j] \in Held(index) => k <= j
  BY <1>1, <1>2 DEF Opened, Every
<1>4. Every(reference) \in BOOLEAN
  BY DEF Every
<1> QED
  BY <1>3, <1>4, FoundIs DEF FoundAmong

\* Where a list finds what is in F, so do the first members.
LEMMA FindsFound ==
  ASSUME NEW s, NEW t, NEW F, Finds(s, t, F), NEW every, NEW p
  PROVE  Found(s, F, every, p) <=> Found(t, F, every, p)
<1> DEFINE T == IF every THEN {p} \cap F ELSE F
<1>1. Leading(s, T, p) <=> Leading(t, T \cap F, p)
  BY DEF Finds
<1>2. T \cap F = T
  OBVIOUS
<1> QED
  BY <1>1, <1>2 DEF Found

\* Where the candidates find what BitBake's places have, they lead there.
LEMMA CandidatesLead ==
  ASSUME NEW from, NEW reference, NEW context,
         NEW m, Length(CandidatesFor(index, from, reference, context), m),
         NEW n, Length(Places(from, reference, context), n),
         ~(reference.kind \in GlobalKinds /\ context # "Global"),
         Finds(PathsOf(CandidatesFor(index, from, reference, context)),
               Places(from, reference, context), Held(index))
  PROVE  LeadsTo(index, from, reference, context) = Opened(from, reference, context)
<1> DEFINE cs == CandidatesFor(index, from, reference, context)
<1>1. Length(PathsOf(cs), m) /\ \A k \in 1 .. m : PathsOf(cs)[k] = cs[k].path
  BY PathsLength
<1>2. \A k \in 1 .. m : PathsOf(cs)[k] \in Held(index)
  BY <1>1, FindsIn
<1>3. \A k \in 1 .. m : cs[k].path \in Held(index)
  BY <1>1, <1>2
<1>4. ASSUME NEW p
      PROVE  p \in LeadsTo(index, from, reference, context)
             <=> p \in Opened(from, reference, context)
  <2>1. p \in LeadsTo(index, from, reference, context)
        <=> Found(PathsOf(cs), Held(index), Every(reference), p)
    BY <1>3, LeadsToIs
  <2>2. p \in Opened(from, reference, context)
        <=> Found(Places(from, reference, context), Held(index), Every(reference), p)
    BY OpenedIs
  <2>3. Found(PathsOf(cs), Held(index), Every(reference), p)
        <=> Found(Places(from, reference, context), Held(index), Every(reference), p)
    BY FindsFound
  <2> QED
    BY <2>1, <2>2, <2>3
<1> QED
  BY <1>4

\* What the proofs use of BBPATH.
BbpathIs(n) == Length(world.environment.bbpath, n) /\ ArePaths(world.environment.bbpath)

\* Where BitBake looks under BBPATH.
LEMMA UnderIs ==
  ASSUME NEW n, BbpathIs(n), NEW directory \in Paths, NEW target \in Paths
  PROVE  /\ [k \in DOMAIN world.environment.bbpath |->
               world.environment.bbpath[k] \o directory \o target]
            = Under(world.environment.bbpath, directory \o target)
         /\ [k \in DOMAIN world.environment.bbpath |->
               world.environment.bbpath[k] \o <<>> \o target]
            = Under(world.environment.bbpath, target)
<1> DEFINE bbpath == world.environment.bbpath
<1>1. \A k \in DOMAIN bbpath : bbpath[k] \in Paths
  BY DEF BbpathIs, ArePaths
<1> HIDE DEF bbpath
<1>2. \A k \in DOMAIN bbpath :
        /\ bbpath[k] \o directory \o target = bbpath[k] \o (directory \o target)
        /\ bbpath[k] \o <<>> \o target = bbpath[k] \o target
  BY <1>1, Associative
<1>3. [k \in DOMAIN bbpath |-> bbpath[k] \o directory \o target]
      = [k \in DOMAIN bbpath |-> bbpath[k] \o (directory \o target)]
  BY <1>2
<1>4. [k \in DOMAIN bbpath |-> bbpath[k] \o <<>> \o target]
      = [k \in DOMAIN bbpath |-> bbpath[k] \o target]
  BY <1>2
<1> QED
  BY <1>3, <1>4 DEF Under, bbpath

\* A class leads where BitBake finds it under BBPATH: in the directory of the
\* context first, then in classes.
LEMMA ClassesLead ==
  ASSUME LayersHold(index), SearchesBbpath(index), NEW n, BbpathIs(n),
         NEW from, NEW reference \in References, NEW context,
         reference.kind \in ClassKinds \/ (reference.kind \in GlobalKinds /\ context = "Global")
  PROVE  LeadsTo(index, from, reference, context) = Opened(from, reference, context)
<1> DEFINE bbpath == world.environment.bbpath
           scoped == <<<<ScopedDirectory(context)>>>>
           shared == <<<<"classes">>>>
           target == reference.target
           a == Searched(index, scoped \o target, ScopedDirectory(context))
           b == Searched(index, shared \o target, "classes")
<1>1. scoped \in Paths /\ shared \in Paths /\ target \in Paths
  <2>1. <<ScopedDirectory(context)>> \in DOMAIN Rank /\ <<"classes">> \in DOMAIN Rank
    BY RankAssumption DEF ScopedDirectory
  <2>2. scoped \in Seq(DOMAIN Rank) /\ shared \in Seq(DOMAIN Rank)
    BY <2>1
  <2> QED
    BY <2>2 DEF Paths, References
<1>2. ~reference.absolute /\ reference.kind \notin FileKinds
  BY DEF References, FileKinds, ClassKinds, GlobalKinds
<1>3. CandidatesFor(index, from, reference, context) = FirstOfEach(a \o b)
  BY <1>2 DEF CandidatesFor, ClassCandidates
<1>4. Places(from, reference, context)
      = [k \in DOMAIN bbpath |-> bbpath[k] \o scoped \o target]
        \o [k \in DOMAIN bbpath |-> bbpath[k] \o shared \o target]
  BY <1>2 DEF Places
<1> HIDE DEF bbpath, scoped, shared, target
<1>5. [k \in DOMAIN bbpath |-> bbpath[k] \o scoped \o target] = Under(bbpath, scoped \o target)
  BY <1>1, UnderIs DEF bbpath
<1>6. [k \in DOMAIN bbpath |-> bbpath[k] \o shared \o target] = Under(bbpath, shared \o target)
  BY <1>1, UnderIs DEF bbpath
<1>7. Places(from, reference, context)
      = Under(bbpath, scoped \o target) \o Under(bbpath, shared \o target)
  BY <1>4, <1>5, <1>6
<1>8. scoped \o target \in Paths /\ shared \o target \in Paths
  BY <1>1, Associative
<1>9. ArePaths(bbpath) /\ Length(bbpath, n)
  BY DEF BbpathIs, bbpath
<1>10. PICK i : Length(a, i)
  BY <1>8, <1>9, SearchedFinds DEF bbpath
<1>11. PICK j : Length(b, j)
  BY <1>8, <1>9, SearchedFinds DEF bbpath
<1>12. /\ Finds(PathsOf(a), Under(bbpath, scoped \o target), Held(index))
       /\ Finds(PathsOf(b), Under(bbpath, shared \o target), Held(index))
  BY <1>8, <1>9, SearchedFinds DEF bbpath
<1> HIDE DEF a, b
<1>13. /\ Length(PathsOf(a), i) /\ Length(PathsOf(b), j)
       /\ Length(Under(bbpath, scoped \o target), n)
       /\ Length(Under(bbpath, shared \o target), n)
  BY <1>9, <1>10, <1>11, PathsLength, UnderLength DEF bbpath
<1>14. Finds(PathsOf(a) \o PathsOf(b), Places(from, reference, context), Held(index))
  BY <1>7, <1>12, <1>13, FindsJoined
<1>15. PathsOf(a \o b) = PathsOf(a) \o PathsOf(b)
  BY <1>10, <1>11, JoinedPaths
<1>16. Length(a \o b, i + j)
  BY <1>10, <1>11, JoinedLength DEF Joined
<1>17. Length(Places(from, reference, context), n + n)
  BY <1>7, <1>13, JoinedLength DEF Joined
<1> DEFINE cs == FirstOfEach(a \o b)
<1>18. (\E m : Length(cs, m)) /\ Finds(PathsOf(cs), Places(from, reference, context), Held(index))
  BY <1>14, <1>15, <1>16, FindsFirst
<1>19. ~(reference.kind \in GlobalKinds /\ context # "Global")
  BY DEF ClassKinds, GlobalKinds
<1> QED
  BY <1>3, <1>17, <1>18, <1>19, CandidatesLead

\* A file leads where BitBake finds it: beside the file that asks for it unless
\* all are wanted, then under BBPATH; an absolute one at its own place.
LEMMA FilesLead ==
  ASSUME LayersHold(index), SearchesBbpath(index), NEW n, BbpathIs(n),
         NEW from, NEW reference \in References, NEW context, reference.kind \in FileKinds
  PROVE  LeadsTo(index, from, reference, context) = Opened(from, reference, context)
<1> DEFINE bbpath == world.environment.bbpath
           target == reference.target
           cs == CandidatesFor(index, from, reference, context)
           places == Places(from, reference, context)
           searched == Searched(index, target, "Bbpath")
           near == Front(from) \o target
<1>1. ~(reference.kind \in GlobalKinds /\ context # "Global")
  BY DEF FileKinds, GlobalKinds
<1>2. cs = FileCandidates(index, from, reference)
  BY DEF CandidatesFor
<1>3. target \in Paths /\ ArePaths(bbpath) /\ Length(bbpath, n)
  BY DEF References, BbpathIs
<1>4. CASE reference.absolute
  <2>1. cs = CandidateAt(index, target) /\ places = <<target>>
    BY <1>2, <1>4 DEF FileCandidates, Places
  <2>2. Length(places, 1)
    BY <2>1 DEF Length
  <2>3. (\E m : Length(cs, m)) /\ Finds(PathsOf(cs), places, Held(index))
    BY <2>1, CandidateAtFinds
  <2> QED
    BY <1>1, <2>2, <2>3, CandidatesLead
<1>5. (\E m : Length(searched, m)) /\ Finds(PathsOf(searched), Under(bbpath, target), Held(index))
  BY <1>3, SearchedFinds
<1>6. /\ \E m : Length(FirstOfEach(searched), m)
      /\ Finds(PathsOf(FirstOfEach(searched)), Under(bbpath, target), Held(index))
  BY <1>5, FindsFirst
<1>7. Length(Under(bbpath, target), n)
  BY <1>3, UnderLength
<1>8. [k \in DOMAIN bbpath |-> bbpath[k] \o <<>> \o target] = Under(bbpath, target)
  BY <1>3, UnderIs
<1>9. ~reference.absolute => places = (IF reference.kind = "IncludeAll" THEN <<>> ELSE <<near>>)
                                      \o [k \in DOMAIN bbpath |-> bbpath[k] \o <<>> \o target]
  BY DEF Places
<1>10. CASE ~reference.absolute /\ reference.kind = "IncludeAll"
  <2>1. cs = FirstOfEach(searched)
    BY <1>2, <1>10 DEF FileCandidates
  <2>2. places = <<>> \o Under(bbpath, target)
    BY <1>8, <1>9, <1>10
  <2>3. places = Under(bbpath, target)
    <3> DEFINE u == Under(bbpath, target)
    <3>1. u \in Seq({u[k] : k \in 1 .. n})
      BY <1>7, LengthIs
    <3> HIDE DEF u
    <3>2. <<>> \o u = u
      BY <3>1
    <3> QED
      BY <2>2, <3>2 DEF u
  <2> QED
    BY <1>1, <1>6, <1>7, <2>1, <2>3, CandidatesLead
<1>11. CASE ~reference.absolute /\ reference.kind # "IncludeAll"
  <2> DEFINE beside == CandidateAt(index, near)
             F == Held(index)
  <2>1. cs = IF beside # <<>> THEN beside ELSE FirstOfEach(searched)
    BY <1>2, <1>11 DEF FileCandidates
  <2>2. places = <<near>> \o Under(bbpath, target)
    BY <1>8, <1>9, <1>11
  <2>3. Length(<<near>>, 1)
    BY DEF Length
  <2>4. Length(places, 1 + n)
    BY <1>7, <2>2, <2>3, JoinedLength DEF Joined
  <2>5. /\ \E m : Length(beside, m)
        /\ Finds(PathsOf(beside), <<near>>, F)
        /\ beside = <<>> <=> near \notin F
    BY CandidateAtFinds
  <2>6. Every(reference) = FALSE
    BY <1>11 DEF Every
  <2>7. None(<<near>>, F) <=> near \notin F
    <3> HIDE DEF near, F
    <3>1. DOMAIN <<near>> = {1} /\ <<near>>[1] = near
      OBVIOUS
    <3> QED
      BY <3>1 DEF None
  <2> HIDE DEF cs, places, searched, near, F, beside
  <2>8. PICK m : Length(cs, m)
    BY <1>6, <2>1, <2>5
  <2>9. Length(PathsOf(cs), m) /\ \A k \in 1 .. m : PathsOf(cs)[k] = cs[k].path
    BY <2>8, PathsLength
  <2>10. \A k \in 1 .. m : PathsOf(cs)[k] \in F
    <3>1. CASE beside # <<>>
      BY <2>1, <2>5, <2>9, <3>1, FindsIn
    <3>2. CASE beside = <<>>
      BY <1>6, <2>1, <2>9, <3>2, FindsIn DEF F
    <3> QED
      BY <3>1, <3>2
  <2>11. ASSUME NEW p
         PROVE  Found(PathsOf(cs), F, FALSE, p) <=> Found(places, F, FALSE, p)
    <3>1. Found(places, F, FALSE, p) <=> Leading(places, F, p)
      BY DEF Found
    <3>2. Leading(places, F, p)
          <=> Leading(<<near>>, F, p) \/ (None(<<near>>, F) /\ Leading(Under(bbpath, target), F, p))
      BY <1>7, <2>2, <2>3, JoinedLeads
    <3>3. Leading(<<near>>, F, p) <=> p = near /\ p \in F
      BY OneLeads
    <3>4. CASE beside # <<>>
      <4>1. Found(PathsOf(beside), F, FALSE, p) <=> Found(<<near>>, F, FALSE, p)
        BY <2>5, FindsFound
      <4> QED
        BY <2>1, <2>5, <2>7, <3>1, <3>2, <3>4, <4>1 DEF Found
    <3>5. CASE beside = <<>>
      <4>1. Found(PathsOf(FirstOfEach(searched)), F, FALSE, p)
            <=> Found(Under(bbpath, target), F, FALSE, p)
        BY <1>6, FindsFound DEF F
      <4>2. ~Leading(<<near>>, F, p) /\ None(<<near>>, F)
        BY <2>5, <2>7, <3>3, <3>5
      <4> QED
        BY <2>1, <3>1, <3>2, <3>5, <4>1, <4>2 DEF Found
    <3> QED
      BY <3>4, <3>5
  <2>12. ASSUME NEW p
         PROVE  p \in LeadsTo(index, from, reference, context)
                <=> p \in Opened(from, reference, context)
    <3>1. \A k \in 1 .. m : cs[k].path \in F
      BY <2>9, <2>10
    <3>2. p \in LeadsTo(index, from, reference, context) <=> Found(PathsOf(cs), F, FALSE, p)
      BY <2>6, <2>8, <3>1, LeadsToIs DEF cs
    <3>3. p \in Opened(from, reference, context) <=> Found(places, F, FALSE, p)
      BY <1>1, <2>4, <2>6, OpenedIs DEF places, F
    <3> QED
      BY <2>11, <3>2, <3>3
  <2> QED
    BY <2>12
<1> QED
  BY <1>4, <1>10, <1>11 DEF References

\* Every reference leads to what BitBake opens for it.
LEMMA ReferencesLead ==
  ASSUME LayersHold(index), SearchesBbpath(index), NEW n, BbpathIs(n),
         NEW from, NEW reference \in References, NEW context
  PROVE  LeadsTo(index, from, reference, context) = Opened(from, reference, context)
<1>1. CASE reference.kind \in FileKinds
  BY <1>1, FilesLead
<1>2. CASE reference.kind \in ClassKinds \/ (reference.kind \in GlobalKinds /\ context = "Global")
  BY <1>2, ClassesLead
<1>3. CASE reference.kind \in GlobalKinds /\ context # "Global"
  <2>1. Opened(from, reference, context) = {}
    BY <1>3 DEF Opened
  <2>2. CandidatesFor(index, from, reference, context) = <<>>
    BY <1>3 DEF CandidatesFor, FileKinds, ClassKinds, GlobalKinds
  <2>3. LeadsTo(index, from, reference, context) = {}
    BY <2>2 DEF LeadsTo
  <2> QED
    BY <2>1, <2>3
<1> QED
  BY <1>1, <1>2, <1>3 DEF References

-----------------------------------------------------------------------------
(* The order of the layers.                                                *)

\* A function has finitely many values on a finite domain.
LEMMA FiniteImage ==
  ASSUME NEW f, IsFiniteSet(DOMAIN f), f = [x \in DOMAIN f |-> f[x]]
  PROVE  IsFiniteSet({f[x] : x \in DOMAIN f})
<1> DEFINE T == {f[x] : x \in DOMAIN f}
<1>1. f \in Surjection(DOMAIN f, T)
  <2>1. f \in [DOMAIN f -> T]
    OBVIOUS
  <2> QED
    BY <2>1 DEF Surjection
<1> HIDE DEF T
<1>2. IsFiniteSet(T)
  BY <1>1, FS_Surjection
<1> QED
  BY <1>2 DEF T

\* A finite set of integers has a greatest one, and Max finds it.
LEMMA MaxIs ==
  ASSUME NEW S \in SUBSET Int, IsFiniteSet(S), S # {}
  PROVE  Max(S) \in S
<1> DEFINE M == {n \in Nat : \A T \in SUBSET S :
                   Cardinality(T) = n /\ T # {} => \E m \in T : \A t \in T : m >= t}
<1>1. 0 \in M
  <2> SUFFICES ASSUME NEW T \in SUBSET S, Cardinality(T) = 0, T # {} PROVE FALSE
    OBVIOUS
  <2>1. IsFiniteSet(T)
    BY FS_Subset
  <2> QED
    BY <2>1, FS_EmptySet
<1>2. ASSUME NEW n \in Nat, n \in M
      PROVE  n + 1 \in M
  <2> SUFFICES ASSUME NEW T \in SUBSET S, Cardinality(T) = n + 1, T # {}
               PROVE  \E m \in T : \A t \in T : m >= t
    OBVIOUS
  <2>1. PICK s \in T : TRUE
    OBVIOUS
  <2> DEFINE R == T \ {s}
  <2>2. R \in SUBSET S /\ Cardinality(R) = n
    <3>1. IsFiniteSet(T)
      BY FS_Subset
    <3>2. Cardinality(R) = Cardinality(T) - 1
      BY <2>1, <3>1, FS_RemoveElement
    <3> QED
      BY <3>2
  <2>3. CASE R = {}
    <3>1. \A t \in T : t = s /\ s \in Int
      BY <2>1, <2>3
    <3>2. \A t \in T : s >= t
      BY <3>1
    <3> QED
      BY <3>2
  <2>4. CASE R # {}
    <3>1. PICK m \in R : \A t \in R : m >= t
      BY <1>2, <2>2, <2>4
    <3>2. m \in Int /\ s \in Int /\ \A t \in T : t \in Int /\ (t = s \/ t \in R)
      BY <2>1
    <3>3. CASE m >= s
      BY <3>1, <3>2, <3>3
    <3>4. CASE ~(m >= s)
      <4>1. \A t \in T : s >= t
        BY <3>1, <3>2, <3>4
      <4> QED
        BY <4>1
    <3> QED
      BY <3>3, <3>4
  <2> QED
    BY <2>3, <2>4
<1>3. \A n \in Nat : n \in M
  <2> HIDE DEF M
  <2> QED
    BY <1>1, <1>2, Inductive
<1>4. Cardinality(S) \in M
  BY <1>3, FS_CardinalityType
<1>5. \E m \in S : \A t \in S : m >= t
  BY <1>4
<1> QED
  BY <1>5, Zenon DEF Max

\* The priority of a layer is a number.
Prioritised(metadata) ==
  /\ IsFiniteSet(DOMAIN metadata.priorities)
  /\ \A c \in DOMAIN metadata.priorities : metadata.priorities[c] \in Int

\* The priority of a layer is a number.
LEMMA PriorityIs ==
  ASSUME NEW metadata, Prioritised(metadata)
  PROVE  PriorityOf(metadata) \in Int
<1> DEFINE priorities == metadata.priorities
           of(collections) == {priorities[c] : c \in collections \cap DOMAIN priorities}
           all == Range(priorities)
<1>1. IsFiniteSet(DOMAIN priorities) /\ \A c \in DOMAIN priorities : priorities[c] \in Int
  BY DEF Prioritised
<1> HIDE DEF priorities
<1>2. all = {priorities[c] : c \in DOMAIN priorities}
  BY DEF Range
<1>3. IsFiniteSet(all) /\ all \in SUBSET Int
  <2> DEFINE f == [c \in DOMAIN priorities |-> priorities[c]]
  <2>1. DOMAIN f = DOMAIN priorities /\ f = [x \in DOMAIN f |-> f[x]]
        /\ {f[x] : x \in DOMAIN f} = all
    BY <1>2
  <2> HIDE DEF f, all
  <2>2. IsFiniteSet({f[x] : x \in DOMAIN f})
    BY <1>1, <2>1, FiniteImage
  <2> QED
    BY <1>1, <1>2, <2>1, <2>2
<1>4. ASSUME NEW S \in SUBSET all, S # {}
      PROVE  Max(S) \in Int
  <2>1. IsFiniteSet(S) /\ S \in SUBSET Int
    BY <1>3, FS_Subset
  <2>2. Max(S) \in S
    BY <1>4, <2>1, MaxIs
  <2> QED
    BY <2>1, <2>2
<1>5. of(Range(metadata.collections)) \in SUBSET all
  BY <1>2
<1>6. PriorityOf(metadata)
      = IF of(Range(metadata.collections)) # {} THEN Max(of(Range(metadata.collections)))
        ELSE IF all # {} THEN Max(all) ELSE 0
  BY DEF PriorityOf, priorities
<1> HIDE DEF of, all
<1> QED
  BY <1>4, <1>5, <1>6

\* Up to the first difference: there p ends, or has the earlier name.
DiffersAt(p, q, k) ==
  /\ k \in 1 .. Len(q) /\ k <= Len(p) + 1
  /\ \A j \in 1 .. k - 1 : p[j] = q[j]
  /\ k <= Len(p) => Rank[p[k]] < Rank[q[k]]

\* A path precedes another one by the first name in which they differ.
LEMMA PrecedesIs ==
  ASSUME NEW p \in Paths, NEW q \in Paths
  PROVE  Precedes(p, q) <=> \E k \in Nat : DiffersAt(p, q, k)
<1> DEFINE X == DOMAIN Rank
<1>1. /\ p \in Seq(X) /\ q \in Seq(X) /\ Len(p) \in Nat /\ Len(q) \in Nat
      /\ DOMAIN p = 1 .. Len(p) /\ DOMAIN q = 1 .. Len(q)
  BY DEF Paths
<1> HIDE DEF X
<1>2. ASSUME Len(p) = Len(q), \A k \in 1 .. Len(p) : p[k] = q[k]
      PROVE  p = q
  <2>1. p \in [1 .. Len(p) -> X] /\ q \in [1 .. Len(p) -> X]
    BY <1>1, <1>2
  <2> QED
    BY <1>2, <2>1
<1>3. ASSUME IsStrictPrefix(p, q)
      PROVE  \E k \in Nat : DiffersAt(p, q, k)
  <2>1. p # q /\ IsPrefix(p, q)
    BY <1>3 DEF IsStrictPrefix
  <2>2. Len(p) <= Len(q) /\ \A k \in 1 .. Len(p) : p[k] = q[k]
    BY <2>1, PrefixIs
  <2>3. ASSUME Len(p) = Len(q) PROVE FALSE
    <3>1. \A k \in 1 .. Len(p) : p[k] = q[k]
      BY <2>2
    <3>2. p = q
      BY <1>2, <2>3, <3>1
    <3> QED
      BY <2>1, <3>2
  <2>4. Len(p) + 1 \in 1 .. Len(q)
    <3>1. Len(p) \in Nat /\ Len(q) \in Nat /\ Len(p) <= Len(q)
      BY <1>1, <2>2
    <3> QED
      BY <2>3, <3>1
  <2>5. DiffersAt(p, q, Len(p) + 1)
    BY <1>1, <2>2, <2>4 DEF DiffersAt
  <2> QED
    BY <1>1, <2>5
<1>4. ASSUME NEW k \in DOMAIN p \cap DOMAIN q, \A j \in 1 .. k - 1 : p[j] = q[j],
             Rank[p[k]] < Rank[q[k]]
      PROVE  \E m \in Nat : DiffersAt(p, q, m)
  <2>1. k \in Nat /\ k \in 1 .. Len(q) /\ k <= Len(p) + 1
    BY <1>1
  <2>2. DiffersAt(p, q, k)
    BY <1>4, <2>1 DEF DiffersAt
  <2> QED
    BY <2>1, <2>2
<1>5. ASSUME NEW k \in Nat, DiffersAt(p, q, k)
      PROVE  Precedes(p, q)
  <2>1. CASE k <= Len(p)
    <3>1. k \in DOMAIN p \cap DOMAIN q
      BY <1>1, <1>5, <2>1 DEF DiffersAt
    <3> QED
      BY <1>5, <2>1, <3>1 DEF Precedes, DiffersAt
  <2>2. CASE ~(k <= Len(p))
    <3>1. k = Len(p) + 1 /\ Len(p) < Len(q) /\ \A j \in 1 .. Len(p) : p[j] = q[j]
      BY <1>1, <1>5, <2>2 DEF DiffersAt
    <3>2. IsPrefix(p, q) /\ p # q
      BY <1>1, <3>1, PrefixIs
    <3> QED
      BY <3>2 DEF Precedes, IsStrictPrefix
  <2> QED
    BY <2>1, <2>2
<1> QED
  BY <1>3, <1>4, <1>5 DEF Precedes

\* Paths are ordered completely.
LEMMA PathsAreOrdered ==
  ASSUME NEW p \in Paths, NEW q \in Paths, NEW r \in Paths
  PROVE  /\ ~Precedes(p, p)
         /\ p # q => Precedes(p, q) \/ Precedes(q, p)
         /\ Precedes(p, q) /\ Precedes(q, r) => Precedes(p, r)
<1> DEFINE X == DOMAIN Rank
<1>1. /\ p \in Seq(X) /\ q \in Seq(X) /\ r \in Seq(X)
      /\ Len(p) \in Nat /\ Len(q) \in Nat /\ Len(r) \in Nat
  BY DEF Paths
<1>2. /\ \A k \in 1 .. Len(p) : p[k] \in X
      /\ \A k \in 1 .. Len(q) : q[k] \in X
      /\ \A k \in 1 .. Len(r) : r[k] \in X
  BY <1>1
<1>3. \A a, b \in X : Rank[a] \in Nat /\ (Rank[a] = Rank[b] => a = b)
  BY RankAssumption
<1> HIDE DEF X
<1>4. ~Precedes(p, p)
  <2>1. \A k \in Nat : ~DiffersAt(p, p, k)
    BY <1>1, <1>2, <1>3 DEF DiffersAt
  <2> QED
    BY <2>1, PrecedesIs
<1>5. ASSUME p # q
      PROVE  Precedes(p, q) \/ Precedes(q, p)
  <2> DEFINE D == {k \in Nat : k \in 1 .. Len(p) /\ k \in 1 .. Len(q) /\ p[k] # q[k]}
  <2>1. CASE D = {}
    <3>1. \A k \in 1 .. Len(p) : k <= Len(q) => p[k] = q[k]
      BY <1>1, <2>1
    <3>2. Len(p) # Len(q)
      BY <1>1, <1>5, <3>1
    <3>3. CASE Len(p) < Len(q)
      <4>1. DiffersAt(p, q, Len(p) + 1)
        BY <1>1, <3>1, <3>3 DEF DiffersAt
      <4> QED
        BY <1>1, <4>1, PrecedesIs
    <3>4. CASE Len(q) < Len(p)
      <4>1. DiffersAt(q, p, Len(q) + 1)
        BY <1>1, <3>1, <3>4 DEF DiffersAt
      <4> QED
        BY <1>1, <4>1, PrecedesIs
    <3> QED
      BY <1>1, <3>2, <3>3, <3>4
  <2>2. CASE D # {}
    <3>1. Min(D) \in D /\ \A k \in D : Min(D) <= k
      <4>1. D \in SUBSET Nat
        OBVIOUS
      <4> HIDE DEF D
      <4> QED
        BY <2>2, <4>1, MinIs
    <3>2. PICK k \in D : \A j \in D : k <= j
      BY <3>1
    <3>3. \A j \in 1 .. k - 1 : p[j] = q[j]
      BY <1>1, <3>2
    <3>4. Rank[p[k]] < Rank[q[k]] \/ Rank[q[k]] < Rank[p[k]]
      BY <1>2, <1>3, <3>2
    <3>5. DiffersAt(p, q, k) \/ DiffersAt(q, p, k)
      BY <1>1, <3>2, <3>3, <3>4 DEF DiffersAt
    <3> QED
      BY <3>2, <3>5, PrecedesIs
  <2> QED
    BY <2>1, <2>2
<1>6. ASSUME Precedes(p, q), Precedes(q, r)
      PROVE  Precedes(p, r)
  <2>1. PICK k \in Nat : DiffersAt(p, q, k)
    BY <1>6, PrecedesIs
  <2>2. PICK l \in Nat : DiffersAt(q, r, l)
    BY <1>6, PrecedesIs
  <2>3. CASE k < l
    <3>1. k \in 1 .. Len(r) /\ k <= Len(p) + 1 /\ \A j \in 1 .. k - 1 : p[j] = r[j]
      BY <1>1, <2>1, <2>2, <2>3 DEF DiffersAt
    <3>2. q[k] = r[k]
      BY <1>1, <2>1, <2>2, <2>3 DEF DiffersAt
    <3>3. DiffersAt(p, r, k)
      BY <2>1, <3>1, <3>2 DEF DiffersAt
    <3> QED
      BY <3>3, PrecedesIs
  <2>4. CASE k = l
    <3>1. k \in 1 .. Len(r) /\ k <= Len(p) + 1 /\ \A j \in 1 .. k - 1 : p[j] = r[j]
      BY <1>1, <2>1, <2>2, <2>4 DEF DiffersAt
    <3>2. ASSUME k <= Len(p)
          PROVE  Rank[p[k]] < Rank[r[k]]
      <4>1. Rank[p[k]] < Rank[q[k]] /\ Rank[q[k]] < Rank[r[k]]
        BY <1>1, <2>1, <2>2, <2>4, <3>2 DEF DiffersAt
      <4>2. k \in 1 .. Len(p) /\ k \in 1 .. Len(q) /\ k \in 1 .. Len(r)
        BY <1>1, <2>1, <2>2, <2>4, <3>2 DEF DiffersAt
      <4>3. Rank[p[k]] \in Nat /\ Rank[q[k]] \in Nat /\ Rank[r[k]] \in Nat
        BY <1>2, <1>3, <4>2
      <4> QED
        BY <4>1, <4>3
    <3>3. DiffersAt(p, r, k)
      BY <3>1, <3>2 DEF DiffersAt
    <3> QED
      BY <3>3, PrecedesIs
  <2>5. CASE l < k
    <3>1. l \in 1 .. Len(r) /\ l <= Len(p) + 1 /\ \A j \in 1 .. l - 1 : p[j] = r[j]
      BY <1>1, <2>1, <2>2, <2>5 DEF DiffersAt
    <3>2. p[l] = q[l] /\ l <= Len(q)
      BY <1>1, <2>1, <2>2, <2>5 DEF DiffersAt
    <3>3. DiffersAt(p, r, l)
      BY <2>2, <3>1, <3>2 DEF DiffersAt
    <3> QED
      BY <3>3, PrecedesIs
  <2> QED
    BY <2>3, <2>4, <2>5
<1> QED
  BY <1>4, <1>5, <1>6

\* Layers with higher priorities come first, and equal ones in the order of paths.
LEMMA LayersAreOrdered ==
  ASSUME NEW all, NEW roots \in SUBSET Paths, IsFiniteSet(roots),
         \A root \in roots : root \o LayerConf \in all => Prioritised(world.conf[root])
  PROVE  LET found == {NewLayer(root, all) : root \in roots}
         IN /\ IsFiniteSet(found)
            /\ IsOrder(found, {p \in found \X found : HigherFirst(p[1], p[2])})
<1> DEFINE found == {NewLayer(root, all) : root \in roots}
           order == {p \in found \X found : HigherFirst(p[1], p[2])}
<1>1. IsFiniteSet(found)
  <2> DEFINE f == [root \in roots |-> NewLayer(root, all)]
  <2>1. DOMAIN f = roots /\ f = [x \in DOMAIN f |-> f[x]] /\ {f[x] : x \in DOMAIN f} = found
    OBVIOUS
  <2> HIDE DEF f, found
  <2> QED
    BY <2>1, FiniteImage
<1>2. ASSUME NEW l \in found
      PROVE  /\ l.root \in Paths /\ l.priority \in Int
             /\ \A m \in found : l.root = m.root => l = m
  <2>1. \A root \in roots : NewLayer(root, all).root = root
    BY DEF NewLayer
  <2>2. PICK root \in roots : l = NewLayer(root, all)
    OBVIOUS
  <2> DEFINE metadata == IF root \o LayerConf \in all THEN world.conf[root] ELSE NoMetadata
  <2>3. Prioritised(NoMetadata)
    <3>1. NoMetadata.priorities = <<>> /\ DOMAIN NoMetadata.priorities = {}
      BY DEF NoMetadata
    <3> QED
      BY <3>1, FS_EmptySet DEF Prioritised
  <2>4. Prioritised(metadata)
    BY <2>3
  <2>5. l.priority = PriorityOf(metadata)
    BY <2>2 DEF NewLayer
  <2> HIDE DEF metadata
  <2>6. l.priority \in Int
    BY <2>4, <2>5, PriorityIs
  <2> QED
    BY <2>1, <2>2, <2>6
<1>3. \A l, m \in found : <<l, m>> \in order <=> HigherFirst(l, m)
  OBVIOUS
<1> HIDE DEF found, order
<1>4. ASSUME NEW l \in found, NEW m \in found, NEW n \in found
      PROVE  /\ ~HigherFirst(l, l)
             /\ l # m => HigherFirst(l, m) \/ HigherFirst(m, l)
             /\ HigherFirst(l, m) /\ HigherFirst(m, n) => HigherFirst(l, n)
  <2>1. /\ l.root \in Paths /\ m.root \in Paths /\ n.root \in Paths
        /\ l.priority \in Int /\ m.priority \in Int /\ n.priority \in Int
        /\ l # m => l.root # m.root
    BY <1>2
  <2>2. /\ ~Precedes(l.root, l.root)
        /\ l.root # m.root => Precedes(l.root, m.root) \/ Precedes(m.root, l.root)
        /\ Precedes(l.root, m.root) /\ Precedes(m.root, n.root) => Precedes(l.root, n.root)
    BY <2>1, PathsAreOrdered
  <2> QED
    BY <2>1, <2>2 DEF HigherFirst
<1>5. IsOrder(found, order)
  BY <1>3, <1>4 DEF IsOrder
<1> QED
  BY <1>1, <1>5 DEF found, order

-----------------------------------------------------------------------------
(* The index.                                                              *)

\* The fields of a layer and of an index.
IsLayer(l) ==
  l = [root |-> l.root, files |-> l.files, metadata |-> l.metadata, priority |-> l.priority]

Index(l, p, f, b, a, e) ==
  [layers |-> l, searchPaths |-> p, files |-> f, buildFiles |-> b, authoritative |-> a, edges |-> e]
IsIndex(x) ==
  x = Index(x.layers, x.searchPaths, x.files, x.buildFiles, x.authoritative, x.edges)

Shaped(x) ==
  /\ IsIndex(x)
  /\ \A i \in DOMAIN x.layers : IsLayer(x.layers[i])

\* The edges do not depend on those that were there.
LEMMA SameDependencies ==
  ASSUME NEW x, NEW y, x.layers = y.layers, x.searchPaths = y.searchPaths, x.files = y.files,
         x.buildFiles = y.buildFiles, x.authoritative = y.authoritative
  PROVE  BuildDependencies(x) = BuildDependencies(y)
<1>1. \A path : IsWorkspaceFile(x, path) <=> IsWorkspaceFile(y, path)
  BY DEF IsWorkspaceFile
<1>2. \A relative, scope : Searched(x, relative, scope) = Searched(y, relative, scope)
  BY DEF Searched
<1>3. \A class, context : ClassCandidates(x, class, context) = ClassCandidates(y, class, context)
  BY <1>2 DEF ClassCandidates
<1>4. \A path : CandidateAt(x, path) = CandidateAt(y, path)
  BY DEF CandidateAt
<1>5. \A from, reference : FileCandidates(x, from, reference) = FileCandidates(y, from, reference)
  BY <1>2, <1>4 DEF FileCandidates
<1>6. \A from, reference, context :
        CandidatesFor(x, from, reference, context) = CandidatesFor(y, from, reference, context)
  BY <1>3, <1>5 DEF CandidatesFor
<1>7. \A from, reference, context :
        LeadsTo(x, from, reference, context) = LeadsTo(y, from, reference, context)
  BY <1>6 DEF LeadsTo
<1> QED
  BY <1>1, <1>7 DEF BuildDependencies

\* Nor do they change with anything but the index and the build.
LEMMA NextDependencies ==
  ASSUME UNCHANGED world
  PROVE  BuildDependencies(index)' = BuildDependencies(index')
<1>1. \A path : IsWorkspaceFile(index, path)' <=> IsWorkspaceFile(index', path)
  BY DEF IsWorkspaceFile
<1>2. \A relative, scope : Searched(index, relative, scope)' = Searched(index', relative, scope)
  BY DEF Searched
<1>3. \A class, context :
        ClassCandidates(index, class, context)' = ClassCandidates(index', class, context)
  BY <1>2 DEF ClassCandidates
<1>4. \A path : CandidateAt(index, path)' = CandidateAt(index', path)
  BY DEF CandidateAt
<1>5. \A from, reference :
        FileCandidates(index, from, reference)' = FileCandidates(index', from, reference)
  BY <1>2, <1>4 DEF FileCandidates
<1>6. \A from, reference, context :
        CandidatesFor(index, from, reference, context)'
        = CandidatesFor(index', from, reference, context)
  BY <1>3, <1>5 DEF CandidatesFor
<1>7. \A from, reference, context :
        LeadsTo(index, from, reference, context)' = LeadsTo(index', from, reference, context)
  BY <1>6 DEF LeadsTo
<1> QED
  BY <1>1, <1>7 DEF BuildDependencies

\* BBPATH is a sequence of paths.
LEMMA BbpathHolds ==
  ASSUME world \in Worlds
  PROVE  \E n : BbpathIs(n)
<1> DEFINE bbpath == world.environment.bbpath
<1>1. bbpath \in Seq(Paths)
  BY WorldsAssumption
<1> HIDE DEF bbpath
<1>2. Len(bbpath) \in Nat /\ bbpath \in [1 .. Len(bbpath) -> Paths]
  BY <1>1
<1>3. /\ bbpath = [k \in 1 .. Len(bbpath) |-> bbpath[k]]
      /\ \A k \in DOMAIN bbpath : bbpath[k] \in Paths
  BY <1>2
<1>4. BbpathIs(Len(bbpath))
  BY <1>2, <1>3 DEF BbpathIs, Length, ArePaths, bbpath
<1> QED
  BY <1>4

-----------------------------------------------------------------------------
(* What keeps the order of a sequence.                                     *)

\* The elements of u are those of s at some places, in their order.
Picks(u, m, s, places, at) ==
  /\ Length(u, m) /\ at \in [1 .. m -> places]
  /\ \A k, l \in 1 .. m : k < l => at[k] < at[l]
  /\ \A k \in 1 .. m : u[k] = s[at[k]]
  /\ \A i \in places : \E k \in 1 .. m : at[k] = i

\* At picks the elements at the places.
LEMMA AtPicks ==
  ASSUME NEW s, NEW n, Length(s, n), NEW places \in SUBSET (1 .. n)
  PROVE  \E m, at : Picks(At(s, places), m, s, places, at)
<1> DEFINE at == Increasing(places)
<1>1. n \in Nat
  BY LengthIs
<1>2. At(s, places) = [k \in DOMAIN at |-> s[at[k]]]
  BY DEF At, Increasing
<1>3. PICK m \in Nat :
        /\ at \in [1 .. m -> places]
        /\ \A k, l \in 1 .. m : k < l => at[k] < at[l]
        /\ \A i \in places : \E k \in 1 .. m : at[k] = i
  BY <1>1, IncreasingLists
<1> HIDE DEF at
<1>4. At(s, places) = [k \in 1 .. m |-> s[at[k]]]
  BY <1>2, <1>3
<1>5. Length(At(s, places), m)
  BY <1>4 DEF Length
<1>6. Picks(At(s, places), m, s, places, at)
  BY <1>3, <1>4, <1>5 DEF Picks
<1> QED
  BY <1>6

\* Two elements of u are two of s, in their order.
InOrder(u, m, s, n) ==
  /\ Length(u, m)
  /\ \A k \in 1 .. m : \E i \in 1 .. n : u[k] = s[i]
  /\ \A k, l \in 1 .. m : k < l => \E i, j \in 1 .. n : i < j /\ u[k] = s[i] /\ u[l] = s[j]

\* What is picked keeps its order.
LEMMA PicksInOrder ==
  ASSUME NEW u, NEW m, NEW s, NEW n, NEW places \in SUBSET (1 .. n), NEW at,
         Picks(u, m, s, places, at)
  PROVE  InOrder(u, m, s, n)
<1>1. \A k \in 1 .. m : at[k] \in 1 .. n /\ u[k] = s[at[k]]
  BY DEF Picks
<1>2. ASSUME NEW k \in 1 .. m, NEW l \in 1 .. m, k < l
      PROVE  \E i, j \in 1 .. n : i < j /\ u[k] = s[i] /\ u[l] = s[j]
  <2>1. at[k] < at[l]
    BY <1>2 DEF Picks
  <2> QED
    BY <1>1, <2>1
<1> QED
  BY <1>1, <1>2 DEF InOrder, Picks

\* The first entries of their paths keep their order.
LEMMA FirstOfEachInOrder ==
  ASSUME NEW entries, NEW n, Length(entries, n)
  PROVE  \E m : InOrder(FirstOfEach(entries), m, entries, n)
<1> DEFINE first == {i \in DOMAIN entries : \A j \in 1 .. i - 1 : entries[j].path # entries[i].path}
<1>1. n \in Nat /\ DOMAIN entries = 1 .. n
  BY LengthIs
<1>2. first \in SUBSET (1 .. n)
  BY <1>1
<1>3. FirstOfEach(entries) = At(entries, first)
  BY DEF FirstOfEach
<1> HIDE DEF first
<1>4. \E m, at : Picks(FirstOfEach(entries), m, entries, first, at)
  BY <1>2, <1>3, AtPicks
<1> QED
  BY <1>2, <1>4, PicksInOrder

-----------------------------------------------------------------------------
(* Sequences in a row.                                                     *)

\* Every element of u is from one of the first n sequences of s; at says from
\* which, and does not go back.
Rows(u, s, n, at) ==
  /\ at \in [1 .. Len(u) -> 1 .. n]
  /\ \A p, q \in 1 .. Len(u) : p < q => at[p] <= at[q]
  /\ \A p \in 1 .. Len(u) : \E q \in DOMAIN s[at[p]] : u[p] = s[at[p]][q]

\* One more sequence at the end.
LEMMA OneMoreRow ==
  ASSUME NEW T, NEW n \in Nat, NEW s, NEW u \in Seq(T), NEW at, Rows(u, s, n, at),
         s[n + 1] \in Seq(T)
  PROVE  \E more : Rows(u \o s[n + 1], s, n + 1, more)
<1> DEFINE m == Len(u)
           t == s[n + 1]
           w == u \o t
           more == [p \in 1 .. Len(w) |-> IF p <= m THEN at[p] ELSE n + 1]
<1>1. /\ m \in Nat /\ Len(t) \in Nat /\ Len(w) = m + Len(t) /\ DOMAIN t = 1 .. Len(t)
      /\ \A p \in 1 .. Len(w) : w[p] = IF p <= m THEN u[p] ELSE t[p - m]
  OBVIOUS
<1>2. \A p \in 1 .. m : at[p] \in 1 .. n
  BY DEF Rows
<1> HIDE DEF m, w, t
<1>3. ASSUME NEW p \in 1 .. Len(w)
      PROVE  p \in 1 .. m \/ (p > m /\ p - m \in 1 .. Len(t))
  BY <1>1
<1>4. more \in [1 .. Len(w) -> 1 .. n + 1]
  <2>1. ASSUME NEW p \in 1 .. Len(w)
        PROVE  (IF p <= m THEN at[p] ELSE n + 1) \in 1 .. n + 1
    BY <1>1, <1>2, <1>3
  <2> QED
    BY <2>1
<1>5. ASSUME NEW p \in 1 .. Len(w), NEW q \in 1 .. Len(w), p < q
      PROVE  more[p] <= more[q]
  <2>1. CASE q <= m
    <3>1. p \in 1 .. m /\ q \in 1 .. m
      BY <1>1, <1>5, <2>1
    <3> QED
      BY <1>1, <1>5, <2>1, <3>1 DEF Rows, m
  <2>2. CASE ~(q <= m)
    <3>1. more[q] = n + 1
      BY <2>2
    <3>2. more[p] \in 1 .. n + 1
      BY <1>4
    <3> QED
      BY <3>1, <3>2
  <2> QED
    BY <2>1, <2>2
<1>6. ASSUME NEW p \in 1 .. Len(w)
      PROVE  \E q \in DOMAIN s[more[p]] : w[p] = s[more[p]][q]
  <2>1. CASE p <= m
    <3>1. p \in 1 .. m /\ more[p] = at[p] /\ w[p] = u[p]
      BY <1>1, <1>6, <2>1
    <3> QED
      BY <3>1 DEF Rows, m
  <2>2. CASE ~(p <= m)
    <3>1. more[p] = n + 1 /\ p - m \in 1 .. Len(t) /\ w[p] = t[p - m]
      BY <1>1, <1>3, <1>6, <2>2
    <3>2. more[p] = n + 1 /\ p - m \in DOMAIN t
      BY <1>1, <3>1
    <3> QED
      BY <3>1, <3>2 DEF t
  <2> QED
    BY <2>1, <2>2
<1> HIDE DEF more
<1>7. Rows(w, s, n + 1, more)
  BY <1>4, <1>5, <1>6 DEF Rows
<1> QED
  BY <1>7 DEF w, t

\* Sequences in a row are rows, with elements of the same kind.
LEMMA FlattenRows ==
  ASSUME NEW T, NEW s \in Seq(Seq(T))
  PROVE  /\ FlattenSeq(s) \in Seq(T)
         /\ \E at : Rows(FlattenSeq(s), s, Len(s), at)
<1> DEFINE n == Len(s)
           joined(g, i) == IF i = 1 THEN s[i] ELSE g[i - 1] \o s[i]
           Joins(g, k) == g \in [1 .. k -> Seq(T)] /\ \A i \in 1 .. k : g[i] = joined(g, i)
           M == {k \in Nat : k <= n => \E g : Joins(g, k)}
           is(f) == f = [i \in 1 .. n |-> IF i = 1 THEN s[i] ELSE f[i - 1] \o s[i]]
<1>1. n \in Nat /\ \A i \in 1 .. n : s[i] \in Seq(T)
  OBVIOUS
<1>2. CASE n = 0
  <2>1. s = <<>>
    BY <1>2
  <2>2. FlattenSeq(s) = <<>> /\ Len(FlattenSeq(s)) = 0 /\ Len(s) = 0
    BY <2>1 DEF FlattenSeq
  <2>3. Rows(FlattenSeq(s), s, Len(s), <<>>)
    BY <2>2 DEF Rows
  <2> QED
    BY <2>2, <2>3
<1>3. CASE n # 0
  <2>1. 0 \in M
    <3>1. Joins(<<>>, 0)
      BY DEF Joins
    <3> QED
      BY <3>1
  <2> HIDE DEF n, Joins
  <2>2. ASSUME NEW k \in Nat, k \in M
        PROVE  k + 1 \in M
    <3> SUFFICES ASSUME k + 1 <= n
                 PROVE  \E g : Joins(g, k + 1)
      OBVIOUS
    <3>1. PICK g : Joins(g, k)
      BY <1>1, <2>2
    <3>2. s[k + 1] \in Seq(T)
      BY <1>1
    <3> DEFINE next == joined(g, k + 1)
               h == [i \in 1 .. (k + 1) |-> IF i = k + 1 THEN next ELSE g[i]]
    <3>3. next \in Seq(T)
      <4>1. k # 0 => g[(k + 1) - 1] \in Seq(T) /\ k + 1 # 1
        BY <3>1 DEF Joins
      <4>2. k = 0 => k + 1 = 1
        OBVIOUS
      <4> QED
        BY <3>2, <4>1, <4>2
    <3>4. \A i \in 1 .. k : h[i] = g[i] /\ g[i] \in Seq(T) /\ g[i] = joined(g, i)
      <4>1. \A i \in 1 .. k : i \in 1 .. (k + 1) /\ i # k + 1
        OBVIOUS
      <4>2. \A i \in 1 .. k : h[i] = g[i]
        <5> HIDE DEF next
        <5> QED
          BY <4>1
      <4>3. \A i \in 1 .. k : g[i] \in Seq(T) /\ g[i] = joined(g, i)
        BY <3>1 DEF Joins
      <4> HIDE DEF h, joined
      <4> QED
        BY <4>2, <4>3
    <3>5. k # 0 => g[(k + 1) - 1] = h[(k + 1) - 1] /\ k + 1 # 1
      BY <3>4
    <3>6. h[k + 1] = joined(h, k + 1)
      <4>1. h[k + 1] = joined(g, k + 1) /\ (k = 0 => k + 1 = 1)
        OBVIOUS
      <4> HIDE DEF h, next
      <4> QED
        BY <3>5, <4>1
    <3> HIDE DEF next
    <3>7. h \in [1 .. (k + 1) -> Seq(T)]
      <4>1. \A i \in 1 .. (k + 1) : (IF i = k + 1 THEN next ELSE g[i]) \in Seq(T)
        <5>1. \A i \in 1 .. (k + 1) : i = k + 1 \/ i \in 1 .. k
          OBVIOUS
        <5> HIDE DEF h, joined
        <5> QED
          BY <3>3, <3>4, <5>1
      <4> QED
        BY <4>1
    <3> HIDE DEF h
    <3>8. \A i \in 1 .. k : h[i] = joined(h, i)
      <4>1. \A i \in 1 .. k : i # 1 => i - 1 \in 1 .. k
        OBVIOUS
      <4> QED
        BY <3>4, <4>1
    <3>9. \A i \in 1 .. (k + 1) : h[i] = joined(h, i)
      <4>1. \A i \in 1 .. (k + 1) : i = k + 1 \/ i \in 1 .. k
        OBVIOUS
      <4> HIDE DEF joined
      <4> QED
        BY <3>6, <3>8, <4>1
    <3>10. Joins(h, k + 1)
      BY <3>7, <3>9 DEF Joins
    <3> QED
      BY <3>10
  <2>3. \A k \in Nat : k \in M
    <3> HIDE DEF M
    <3> QED
      BY <2>1, <2>2, Inductive
  <2>4. PICK g : Joins(g, n)
    <3>1. n \in M /\ n <= n
      <4> HIDE DEF M
      <4> QED
        BY <1>1, <2>3
    <3> QED
      BY <3>1
  <2>5. is(g)
    BY <2>4 DEF Joins
  <2> DEFINE f == CHOOSE f : is(f)
  <2>6. is(f)
    <3> HIDE DEF is
    <3> QED
      BY <2>5
  <2>7. FlattenSeq(s) = f[n]
    BY <1>3 DEF FlattenSeq, n
  <2>8. \A i \in 1 .. n : f[i] = IF i = 1 THEN s[i] ELSE f[i - 1] \o s[i]
    BY <2>6
  <2> HIDE DEF f, is
  <2> DEFINE L == {k \in Nat : k \in 1 .. n => f[k] \in Seq(T) /\ \E at : Rows(f[k], s, k, at)}
  <2>9. 0 \in L
    OBVIOUS
  <2>10. ASSUME NEW k \in Nat, k \in L
         PROVE  k + 1 \in L
    <3> SUFFICES ASSUME k + 1 \in 1 .. n
                 PROVE  f[k + 1] \in Seq(T) /\ \E at : Rows(f[k + 1], s, k + 1, at)
      OBVIOUS
    <3>1. s[k + 1] \in Seq(T)
      BY <1>1
    <3>2. CASE k = 0
      <4>1. f[k + 1] = s[1] /\ k + 1 = 1 /\ s[1] \in Seq(T)
        BY <2>8, <3>1, <3>2
      <4> DEFINE at == [p \in 1 .. Len(s[1]) |-> 1]
      <4>2. Rows(s[1], s, 1, at)
        <5>1. at \in [1 .. Len(s[1]) -> 1 .. 1]
          OBVIOUS
        <5>2. \A p \in 1 .. Len(s[1]) : at[p] = 1 /\ p \in DOMAIN s[1]
          BY <4>1
        <5> HIDE DEF at
        <5> QED
          BY <5>1, <5>2 DEF Rows
      <4> QED
        BY <4>1, <4>2
    <3>3. CASE k # 0
      <4>1. k \in 1 .. n /\ k + 1 # 1 /\ (k + 1) - 1 = k
        BY <1>1, <3>3
      <4>2. f[k + 1] = f[k] \o s[k + 1]
        BY <2>8, <4>1
      <4>3. f[k] \in Seq(T) /\ \E at : Rows(f[k], s, k, at)
        BY <2>10, <4>1
      <4>4. f[k + 1] \in Seq(T)
        BY <3>1, <4>2, <4>3
      <4>5. \E more : Rows(f[k] \o s[k + 1], s, k + 1, more)
        BY <3>1, <4>3, OneMoreRow
      <4> QED
        BY <4>2, <4>4, <4>5
    <3> QED
      BY <3>2, <3>3
  <2>11. \A k \in Nat : k \in L
    <3> HIDE DEF L
    <3> QED
      BY <2>9, <2>10, Inductive
  <2>12. n \in 1 .. n
    BY <1>1, <1>3
  <2>13. f[n] \in Seq(T) /\ \E at : Rows(f[n], s, n, at)
    BY <1>1, <2>11, <2>12
  <2> QED
    BY <2>7, <2>13 DEF n
<1> QED
  BY <1>2, <1>3

-----------------------------------------------------------------------------
(* The layers and the search paths of every index.                         *)

\* A search path belongs to the first layer that it is in.
Owned(paths, layers) ==
  /\ \E n : Length(paths, n)
  /\ \A k \in DOMAIN paths :
       /\ paths[k].path \in Paths /\ paths[k].layer \in DOMAIN layers
       /\ Containing(layers, paths[k].path) # 0
          => paths[k].layer = Containing(layers, paths[k].path)

\* The search paths are layers, in their order.
ByLayers(paths, layers) ==
  /\ \A k \in DOMAIN paths : \E a \in DOMAIN layers : paths[k].path = layers[a].root
  /\ \A k, l \in DOMAIN paths :
       k < l => \E a, b \in DOMAIN layers : /\ a <= b /\ paths[k].path = layers[a].root
                                            /\ paths[l].path = layers[b].root

\* The paths of a layer: its BBPATH, or its root.
OwnPaths(l) == IF l.metadata.bbpath = <<>> THEN <<l.root>> ELSE l.metadata.bbpath

\* Without BitBake's BBPATH the search paths are those of the layers.
LEMMA BuildSearchPathsAre ==
  ASSUME NEW layers, NEW n \in Nat, DOMAIN layers = 1 .. n,
         \A i \in 1 .. n : layers[i].root \in Paths /\ layers[i].metadata.bbpath \in Seq(Paths)
  PROVE  /\ Owned(BuildSearchPaths(layers), layers)
         /\ (\A i \in 1 .. n : Range(layers[i].metadata.bbpath) \subseteq {layers[i].root})
            => ByLayers(BuildSearchPaths(layers), layers)
<1> DEFINE T == [path : Paths, layer : 1 .. n]
           owner(i, path) == IF Containing(layers, path) # 0 THEN Containing(layers, path) ELSE i
           row(i) == [k \in DOMAIN OwnPaths(layers[i]) |->
                        [path |-> OwnPaths(layers[i])[k],
                         layer |-> owner(i, OwnPaths(layers[i])[k])]]
           s == [i \in DOMAIN layers |-> row(i)]
           flat == FlattenSeq(s)
           built == FirstOfEach(flat)
<1>1. BuildSearchPaths(layers) = built
  BY DEF BuildSearchPaths, OwnPaths
<1>2. ASSUME NEW i \in 1 .. n, NEW path
      PROVE  owner(i, path) \in 1 .. n
  BY ContainingIs
<1>3. ASSUME NEW i \in 1 .. n
      PROVE  OwnPaths(layers[i]) \in Seq(Paths)
  BY DEF OwnPaths
<1>4. ASSUME NEW i \in 1 .. n
      PROVE  row(i) \in Seq(T) /\ DOMAIN row(i) = DOMAIN OwnPaths(layers[i])
  <2> DEFINE own == OwnPaths(layers[i])
  <2>1. own \in Seq(Paths) /\ Len(own) \in Nat /\ DOMAIN own = 1 .. Len(own)
    BY <1>3
  <2> HIDE DEF own, owner
  <2>2. ASSUME NEW k \in 1 .. Len(own)
        PROVE  [path |-> own[k], layer |-> owner(i, own[k])] \in T
    BY <1>2, <2>1
  <2> HIDE DEF T
  <2>3. [k \in 1 .. Len(own) |-> [path |-> own[k], layer |-> owner(i, own[k])]] \in Seq(T)
    BY <2>1, <2>2
  <2>4. row(i) = [k \in 1 .. Len(own) |-> [path |-> own[k], layer |-> owner(i, own[k])]]
    BY <2>1 DEF own
  <2> QED
    BY <2>1, <2>3, <2>4 DEF own
<1>5. s \in Seq(Seq(T)) /\ Len(s) = n /\ \A i \in 1 .. n : s[i] = row(i)
  <2> HIDE DEF row, T
  <2>1. s = [i \in 1 .. n |-> row(i)]
    OBVIOUS
  <2> QED
    BY <1>4, <2>1
<1> HIDE DEF s
<1>6. flat \in Seq(T) /\ \E at : Rows(flat, s, n, at)
  <2> HIDE DEF T
  <2> QED
    BY <1>5, FlattenRows
<1> HIDE DEF flat
<1> DEFINE m == Len(flat)
<1>7. m \in Nat /\ Length(flat, m)
  <2>1. flat = [k \in 1 .. m |-> flat[k]] /\ m \in Nat
    BY <1>6
  <2> QED
    BY <2>1 DEF Length
<1>8. PICK at : /\ at \in [1 .. m -> 1 .. n]
                /\ \A p, q \in 1 .. m : p < q => at[p] <= at[q]
                /\ \A p \in 1 .. m : \E q \in DOMAIN s[at[p]] : flat[p] = s[at[p]][q]
  BY <1>6 DEF Rows
<1> HIDE DEF m
<1>9. ASSUME NEW p \in 1 .. m
      PROVE  /\ at[p] \in 1 .. n
             /\ \E q \in DOMAIN OwnPaths(layers[at[p]]) :
                  /\ flat[p].path = OwnPaths(layers[at[p]])[q]
                  /\ flat[p].layer = owner(at[p], flat[p].path)
  <2>1. at[p] \in 1 .. n
    BY <1>8
  <2>2. PICK q \in DOMAIN row(at[p]) : flat[p] = row(at[p])[q]
    BY <1>5, <1>8, <2>1
  <2>3. q \in DOMAIN OwnPaths(layers[at[p]])
    BY <2>2
  <2>4. row(at[p])[q] = [path |-> OwnPaths(layers[at[p]])[q],
                         layer |-> owner(at[p], OwnPaths(layers[at[p]])[q])]
    BY <2>3
  <2> QED
    BY <2>1, <2>2, <2>3, <2>4
<1> HIDE DEF row
<1>10. PICK l : InOrder(built, l, flat, m)
  BY <1>7, FirstOfEachInOrder
<1> HIDE DEF built
<1>11. Length(built, l) /\ DOMAIN built = 1 .. l
  BY <1>10, LengthIs DEF InOrder
<1>12. ASSUME NEW k \in DOMAIN built
       PROVE  /\ built[k].path \in Paths /\ built[k].layer \in DOMAIN layers
              /\ Containing(layers, built[k].path) # 0
                 => built[k].layer = Containing(layers, built[k].path)
  <2>1. PICK p \in 1 .. m : built[k] = flat[p]
    BY <1>10, <1>11 DEF InOrder
  <2>2. at[p] \in 1 .. n /\ built[k].layer = owner(at[p], built[k].path)
    BY <1>9, <2>1
  <2>3. built[k].layer \in 1 .. n
    BY <1>2, <2>2
  <2>4. built[k].path \in Paths
    <3>1. PICK q \in DOMAIN OwnPaths(layers[at[p]]) : flat[p].path = OwnPaths(layers[at[p]])[q]
      BY <1>9
    <3>2. OwnPaths(layers[at[p]])[q] \in Paths
      BY <1>3, <2>2, <3>1
    <3> QED
      BY <2>1, <3>1, <3>2
  <2> QED
    BY <2>2, <2>3, <2>4
<1>13. Owned(built, layers)
  BY <1>11, <1>12 DEF Owned
<1>14. ASSUME \A i \in 1 .. n : Range(layers[i].metadata.bbpath) \subseteq {layers[i].root}
       PROVE  ByLayers(built, layers)
  <2>1. ASSUME NEW i \in 1 .. n, NEW q \in DOMAIN OwnPaths(layers[i])
        PROVE  OwnPaths(layers[i])[q] = layers[i].root
    <3>1. CASE layers[i].metadata.bbpath = <<>>
      BY <2>1, <3>1 DEF OwnPaths
    <3>2. CASE layers[i].metadata.bbpath # <<>>
      <4>1. OwnPaths(layers[i]) = layers[i].metadata.bbpath
        BY <3>2 DEF OwnPaths
      <4>2. OwnPaths(layers[i])[q] \in Range(layers[i].metadata.bbpath)
        BY <2>1, <4>1 DEF Range
      <4> QED
        BY <1>14, <4>2
    <3> QED
      BY <3>1, <3>2
  <2>2. \A p \in 1 .. m : at[p] \in 1 .. n /\ flat[p].path = layers[at[p]].root
    BY <1>9, <2>1
  <2>3. ASSUME NEW k \in DOMAIN built
        PROVE  \E a \in DOMAIN layers : built[k].path = layers[a].root
    <3>1. PICK p \in 1 .. m : built[k] = flat[p]
      BY <1>10, <1>11 DEF InOrder
    <3> QED
      BY <2>2, <3>1
  <2>4. ASSUME NEW k \in DOMAIN built, NEW j \in DOMAIN built, k < j
        PROVE  \E a, b \in DOMAIN layers : /\ a <= b /\ built[k].path = layers[a].root
                                           /\ built[j].path = layers[b].root
    <3>1. PICK p \in 1 .. m, q \in 1 .. m : p < q /\ built[k] = flat[p] /\ built[j] = flat[q]
      BY <1>10, <1>11, <2>4 DEF InOrder
    <3>2. at[p] <= at[q]
      BY <1>8, <3>1
    <3> QED
      BY <2>2, <3>1, <3>2
  <2> QED
    BY <2>3, <2>4 DEF ByLayers
<1> QED
  BY <1>1, <1>13, <1>14

\* With BitBake's BBPATH, whose entries are layers, they are those of BBPATH.
LEMMA BbpathIsSearched ==
  ASSUME NEW layers, NEW n \in Nat, DOMAIN layers = 1 .. n, world \in Worlds,
         world.environment.bbpath # <<>>, \A i \in 1 .. n : layers[i].root \in Paths,
         \A k \in DOMAIN world.environment.bbpath :
           \E i \in 1 .. n : layers[i].root = world.environment.bbpath[k]
  PROVE  LET paths == DescribedSearchPaths(layers)
         IN /\ Owned(paths, layers)
            /\ \A k \in DOMAIN paths : Containing(layers, paths[k].path) # 0
            /\ \A T, p : Leading(PathsOf(paths), T, p)
                         <=> Leading(world.environment.bbpath, T, p)
<1> DEFINE bbpath == world.environment.bbpath
           above(path) == First({i \in DOMAIN layers : Below(layers[i].root, path)})
           owner(path) == IF Containing(layers, path) # 0 THEN Containing(layers, path)
                          ELSE IF above(path) # 0 THEN above(path) ELSE 1
           entries == [k \in DOMAIN bbpath |-> [path |-> bbpath[k], layer |-> owner(bbpath[k])]]
           paths == FirstOfEach(entries)
<1>1. DescribedSearchPaths(layers) = paths
  BY DEF DescribedSearchPaths
<1>2. PICK b : BbpathIs(b)
  BY BbpathHolds
<1>3. b \in Nat /\ DOMAIN bbpath = 1 .. b /\ \A k \in 1 .. b : bbpath[k] \in Paths
  BY <1>2, LengthIs DEF BbpathIs, ArePaths
<1>4. ASSUME NEW k \in 1 .. b
      PROVE  Containing(layers, bbpath[k]) \in 1 .. n /\ Containing(layers, bbpath[k]) # 0
  <2>1. PICK i \in 1 .. n : layers[i].root = bbpath[k]
    BY <1>3
  <2>2. Below(bbpath[k], layers[i].root)
    BY <1>3, <2>1, BelowItself
  <2> QED
    BY <2>2, ContainingIs
<1>5. ASSUME NEW k \in 1 .. b
      PROVE  entries[k].path = bbpath[k] /\ entries[k].layer = Containing(layers, bbpath[k])
  BY <1>3, <1>4
<1>6. Length(entries, b)
  BY <1>3 DEF Length
<1>7. PathsOf(entries) = bbpath
  <2>1. PathsOf(entries) = [k \in 1 .. b |-> bbpath[k]]
    BY <1>3 DEF PathsOf
  <2>2. bbpath = [k \in 1 .. b |-> bbpath[k]]
    BY <1>2 DEF BbpathIs, Length
  <2> QED
    BY <2>1, <2>2
<1> HIDE DEF entries
<1>8. \A T, p : Leading(PathsOf(paths), T, p) <=> Leading(bbpath, T, p)
  BY <1>6, <1>7, FirstOfEachLeads
<1>9. PICK l : InOrder(paths, l, entries, b)
  BY <1>6, FirstOfEachInOrder
<1> HIDE DEF paths
<1>10. Length(paths, l) /\ DOMAIN paths = 1 .. l
  BY <1>9, LengthIs DEF InOrder
<1>11. ASSUME NEW k \in DOMAIN paths
       PROVE  /\ paths[k].path \in Paths /\ paths[k].layer \in DOMAIN layers
              /\ paths[k].layer = Containing(layers, paths[k].path)
              /\ Containing(layers, paths[k].path) # 0
  <2>1. PICK i \in 1 .. b : paths[k] = entries[i]
    BY <1>9, <1>10 DEF InOrder
  <2> QED
    BY <1>3, <1>4, <1>5, <2>1
<1>12. Owned(paths, layers)
  BY <1>10, <1>11 DEF Owned
<1> QED
  BY <1>1, <1>8, <1>11, <1>12

\* What every index keeps: the files of its layers, the owners of its search
\* paths, each root once.
Arranged(x) ==
  /\ Shaped(x) /\ LayersHold(x) /\ Owned(x.searchPaths, x.layers)
  /\ \A f \in x.buildFiles : Below(f, world.build)
  /\ \A i \in DOMAIN x.layers : x.layers[i].metadata.bbpath \in Seq(Paths)
  /\ \A i, j \in DOMAIN x.layers : x.layers[i].root = x.layers[j].root => i = j

\* Until BitBake is asked, priorities do not rise along the layers, and the
\* search paths follow the layers if these put no others on BBPATH.
Plain(x) ==
  /\ \A i \in DOMAIN x.layers : x.layers[i].priority \in Int
  /\ \A i, j \in DOMAIN x.layers : i < j => x.layers[i].priority >= x.layers[j].priority
  /\ (\A i \in DOMAIN x.layers : Range(x.layers[i].metadata.bbpath) \subseteq {x.layers[i].root})
     => ByLayers(x.searchPaths, x.layers)

\* Roots an index can be made from.
Sources(all, roots) ==
  /\ roots \in SUBSET Paths /\ IsFiniteSet(roots)
  /\ \A root \in roots :
       root \o LayerConf \in all =>
         Prioritised(world.conf[root]) /\ world.conf[root].bbpath \in Seq(Paths)

\* An index as it is made: a layer for each root.
MadeFrom(x, all, build, roots) ==
  /\ x.files = all /\ x.buildFiles = build /\ x.authoritative = FALSE
  /\ Arranged(x) /\ Plain(x)
  /\ \A root \in roots : \E i \in DOMAIN x.layers : x.layers[i].root = root
  /\ \A i \in DOMAIN x.layers :
       x.layers[i].root \in roots /\ x.layers[i] = NewLayer(x.layers[i].root, all)

\* from_canonical_files arranges the layers, highest priority first.
LEMMA BuiltIs ==
  ASSUME NEW all, NEW build \in SUBSET all, NEW roots, Sources(all, roots),
         \A f \in build : Below(f, world.build)
  PROVE  MadeFrom(FromCanonicalFiles(all, build, roots), all, build, roots)
<1> DEFINE found == {NewLayer(root, all) : root \in roots}
           order == {p \in found \X found : HigherFirst(p[1], p[2])}
           x == FromCanonicalFiles(all, build, roots)
           m == Cardinality(found)
<1>1. /\ x.layers = Ordered(found, order) /\ x.files = all /\ x.buildFiles = build
      /\ x.authoritative = FALSE /\ x.searchPaths = BuildSearchPaths(x.layers) /\ IsIndex(x)
  <2> DEFINE layers == Ordered(found, order)
             paths == BuildSearchPaths(layers)
             bare == [layers |-> layers, searchPaths |-> paths, files |-> all,
                      buildFiles |-> build, authoritative |-> FALSE, edges |-> {}]
  <2>1. x = [bare EXCEPT !.edges = BuildDependencies(bare)]
    BY DEF FromCanonicalFiles
  <2> HIDE DEF layers, paths
  <2>2. x = Index(layers, paths, all, build, FALSE, BuildDependencies(bare))
    BY <2>1 DEF Index
  <2> HIDE DEF bare, x
  <2>3. /\ x.layers = layers /\ x.searchPaths = paths /\ x.files = all /\ x.buildFiles = build
        /\ x.authoritative = FALSE /\ IsIndex(x)
    BY <2>2 DEF IsIndex, Index
  <2> QED
    BY <2>3 DEF layers, paths
<1>2. IsFiniteSet(found) /\ IsOrder(found, order)
  BY LayersAreOrdered DEF Sources
<1>3. \A l, k \in found : <<l, k>> \in order <=> HigherFirst(l, k)
  OBVIOUS
<1>4. ASSUME NEW root \in roots
      PROVE  LET l == NewLayer(root, all)
             IN /\ root \in Paths /\ l.root = root /\ IsLayer(l) /\ l.priority \in Int
                /\ l.files = {f \in all : Below(f, root)} /\ l.metadata.bbpath \in Seq(Paths)
  <2> DEFINE metadata == IF root \o LayerConf \in all THEN world.conf[root] ELSE NoMetadata
             l == NewLayer(root, all)
  <2>1. l = [root |-> root, files |-> {f \in all : Below(f, root)}, metadata |-> metadata,
             priority |-> PriorityOf(metadata)]
    BY DEF NewLayer
  <2>2. Prioritised(NoMetadata) /\ NoMetadata.bbpath \in Seq(Paths)
    <3>1. NoMetadata.priorities = <<>> /\ DOMAIN NoMetadata.priorities = {}
          /\ NoMetadata.bbpath = <<>>
      BY DEF NoMetadata
    <3> QED
      BY <3>1, FS_EmptySet DEF Prioritised
  <2>3. Prioritised(metadata) /\ metadata.bbpath \in Seq(Paths)
    BY <2>2 DEF Sources
  <2> HIDE DEF metadata, l
  <2>4. l.priority \in Int
    BY <2>1, <2>3, PriorityIs
  <2>5. root \in Paths
    BY DEF Sources
  <2> QED
    BY <2>1, <2>3, <2>4, <2>5 DEF IsLayer, l
<1> HIDE DEF x, order
<1>5. /\ m \in Nat /\ x.layers \in [1 .. m -> found]
      /\ \A k, l \in 1 .. m : k < l => <<x.layers[k], x.layers[l]>> \in order
      /\ \A l \in found : \E i \in 1 .. m : x.layers[i] = l
  <2> HIDE DEF found
  <2> QED
    BY <1>1, <1>2, OrderedLists
<1> HIDE DEF m
<1>6. DOMAIN x.layers = 1 .. m
  BY <1>5
<1>7. ASSUME NEW i \in 1 .. m
      PROVE  x.layers[i].root \in roots /\ x.layers[i] = NewLayer(x.layers[i].root, all)
  <2>1. x.layers[i] \in found
    BY <1>5
  <2>2. PICK root \in roots : x.layers[i] = NewLayer(root, all)
    BY <2>1
  <2> QED
    BY <1>4, <2>2
<1>8. ASSUME NEW i \in 1 .. m
      PROVE  /\ x.layers[i].root \in Paths /\ IsLayer(x.layers[i])
             /\ x.layers[i].priority \in Int /\ x.layers[i].metadata.bbpath \in Seq(Paths)
             /\ x.layers[i].files = {f \in x.files : Below(f, x.layers[i].root)}
  <2> DEFINE root == x.layers[i].root
  <2>1. root \in roots /\ x.layers[i] = NewLayer(root, all)
    BY <1>7
  <2>2. x.files = all
    BY <1>1
  <2> HIDE DEF root
  <2>3. /\ root \in Paths /\ IsLayer(x.layers[i])
        /\ x.layers[i].priority \in Int /\ x.layers[i].metadata.bbpath \in Seq(Paths)
        /\ x.layers[i].files = {f \in all : Below(f, root)}
    BY <1>4, <2>1
  <2> QED
    BY <2>2, <2>3 DEF root
<1>9. ASSUME NEW i \in 1 .. m, NEW j \in 1 .. m, i < j
      PROVE  /\ x.layers[i].priority >= x.layers[j].priority
             /\ x.layers[i].root # x.layers[j].root
  <2>1. <<x.layers[i], x.layers[j]>> \in order /\ x.layers[i] \in found /\ x.layers[j] \in found
    BY <1>5, <1>9
  <2>2. HigherFirst(x.layers[i], x.layers[j])
    <3> HIDE DEF found
    <3> QED
      BY <1>3, <2>1
  <2>3. x.layers[i] # x.layers[j]
    <3> HIDE DEF found
    <3> QED
      BY <1>2, <2>1 DEF IsOrder
  <2>4. x.layers[i].root # x.layers[j].root
    BY <1>7, <2>3
  <2>5. x.layers[i].priority \in Int /\ x.layers[j].priority \in Int
    BY <1>8
  <2> QED
    BY <2>2, <2>4, <2>5 DEF HigherFirst
<1>10. \A i, j \in 1 .. m : x.layers[i].root = x.layers[j].root => i = j
  <2>1. \A i, j \in 1 .. m : i < j \/ j < i \/ i = j
    OBVIOUS
  <2> QED
    BY <1>9, <2>1
<1>11. /\ Owned(x.searchPaths, x.layers)
       /\ (\A i \in 1 .. m : Range(x.layers[i].metadata.bbpath) \subseteq {x.layers[i].root})
          => ByLayers(x.searchPaths, x.layers)
  <2>1. \A i \in 1 .. m : x.layers[i].root \in Paths /\ x.layers[i].metadata.bbpath \in Seq(Paths)
    BY <1>8
  <2>2. m \in Nat /\ DOMAIN x.layers = 1 .. m /\ x.searchPaths = BuildSearchPaths(x.layers)
    BY <1>1, <1>5, <1>6
  <2> QED
    BY <2>1, <2>2, BuildSearchPathsAre
<1>12. Shaped(x) /\ LayersHold(x)
  BY <1>1, <1>5, <1>6, <1>8 DEF Shaped, LayersHold
<1>13. \A f \in x.buildFiles : Below(f, world.build)
  BY <1>1
<1>14. Arranged(x)
  BY <1>6, <1>8, <1>10, <1>11, <1>12, <1>13 DEF Arranged
<1>15. Plain(x)
  BY <1>6, <1>8, <1>9, <1>11 DEF Plain
<1>16. ASSUME NEW root \in roots
       PROVE  \E i \in DOMAIN x.layers : x.layers[i].root = root
  <2>1. NewLayer(root, all) \in found
    OBVIOUS
  <2>2. PICK i \in 1 .. m : x.layers[i] = NewLayer(root, all)
    BY <1>5, <2>1
  <2> QED
    BY <1>4, <1>6, <2>2
<1> QED
  BY <1>1, <1>6, <1>7, <1>14, <1>15, <1>16 DEF MadeFrom, x

\* The directory of a path's directory.
LEMMA FrontIs ==
  ASSUME NEW path \in Paths, IsSuffix(LayerConf, path)
  PROVE  Front(Front(path)) \in Paths
<1> DEFINE X == DOMAIN Rank
<1>1. path \in Seq(X) /\ Len(path) \in Nat
  BY DEF Paths
<1>2. Len(path) >= 2
  <2> DEFINE Y == {<<"conf">>, <<"layer", "conf">>}
  <2>1. ASSUME NEW S, NEW s \in Seq(S)
        PROVE  Len(Reverse(s)) = Len(s)
    <3>1. Len(s) \in Nat /\ \A i \in 1 .. Len(s) : Len(s) - i + 1 \in 1 .. Len(s)
      OBVIOUS
    <3>2. Reverse(s) = [i \in 1 .. Len(s) |-> s[Len(s) - i + 1]]
      BY DEF Reverse
    <3>3. Reverse(s) \in Seq(S) /\ DOMAIN Reverse(s) = 1 .. Len(s)
      BY <3>1, <3>2
    <3> QED
      BY <3>1, <3>3
  <2>2. LayerConf \in Seq(Y) /\ Len(LayerConf) = 2
    BY DEF LayerConf
  <2>3. Len(Reverse(LayerConf)) = 2 /\ Len(Reverse(path)) = Len(path)
    <3> HIDE DEF X, Y
    <3> QED
      BY <1>1, <2>1, <2>2
  <2> QED
    BY <2>3 DEF IsSuffix, IsPrefix
<1> HIDE DEF X
<1>3. SubSeq(path, 1, Len(path) - 1) \in Seq(X)
      /\ Len(SubSeq(path, 1, Len(path) - 1)) = Len(path) - 1
  BY <1>1, <1>2
<1> DEFINE front == SubSeq(path, 1, Len(path) - 1)
<1> HIDE DEF front
<1>4. SubSeq(front, 1, Len(front) - 1) \in Seq(X)
  BY <1>1, <1>2, <1>3 DEF front
<1> QED
  BY <1>4 DEF Front, front, Paths, X

\* What is below a directory of a root is below the root.
LEMMA BelowDirectory ==
  ASSUME NEW path \in Paths, NEW root \in Paths, NEW name \in DOMAIN Rank,
         Below(path, root \o <<name>>)
  PROVE  Below(path, root)
<1> DEFINE X == DOMAIN Rank
           deep == root \o <<name>>
<1>1. root \in Seq(X) /\ path \in Seq(X) /\ Len(root) \in Nat /\ Len(path) \in Nat
  BY DEF Paths
<1>2. /\ deep \in Seq(X) /\ Len(deep) = Len(root) + 1
      /\ \A k \in 1 .. Len(root) : deep[k] = root[k]
  <2> HIDE DEF X
  <2>1. name \in X
    BY DEF X
  <2> QED
    BY <1>1, <2>1
<1> HIDE DEF deep
<1>3. deep \in Paths
  BY <1>2 DEF Paths
<1>4. Len(deep) <= Len(path) /\ \A k \in 1 .. Len(deep) : deep[k] = path[k]
  BY <1>3, PrefixIs DEF Below, deep
<1>5. Len(root) <= Len(path) /\ \A k \in 1 .. Len(root) : root[k] = path[k]
  BY <1>1, <1>2, <1>4
<1> QED
  BY <1>5, PrefixIs DEF Below

\* The files of the build are below its directory.
LEMMA BuildFilesAre ==
  ASSUME world \in Worlds, NEW f \in BuildFiles
  PROVE  f \in Disk /\ Below(f, world.build)
<1>1. f \in DOMAIN world.texts /\ Below(f, world.build \o <<<<"conf">>>>)
  BY DEF BuildFiles, Disk
<1>2. f \in Paths /\ world.build \in Paths
  BY <1>1, WorldsAssumption
<1>3. <<"conf">> \in DOMAIN Rank
  BY RankAssumption
<1> QED
  BY <1>1, <1>2, <1>3, BelowDirectory DEF Disk

\* A sequence is a prefix of what continues it.
LEMMA PrefixOfJoined ==
  ASSUME NEW X, NEW s \in Seq(X), NEW t \in Seq(X)
  PROVE  IsPrefix(s, s \o t)
<1> DEFINE u == s \o t
<1>1. Len(s) \in Nat /\ Len(t) \in Nat
  OBVIOUS
<1>2. /\ u \in Seq(X) /\ Len(u) = Len(s) + Len(t)
      /\ \A k \in 1 .. Len(s) : u[k] = s[k]
  OBVIOUS
<1> HIDE DEF u
<1> DEFINE a == SubSeq(s, 1, Len(s))
           b == SubSeq(u, 1, Len(s))
<1>3. a \in Seq(X) /\ Len(a) = Len(s) /\ \A k \in 1 .. Len(s) : a[k] = s[k]
  BY <1>1
<1>4. b \in Seq(X) /\ Len(b) = Len(s) /\ \A k \in 1 .. Len(s) : b[k] = u[k]
  BY <1>1, <1>2
<1> HIDE DEF a, b
<1>5. a = b
  BY <1>1, <1>2, <1>3, <1>4
<1> QED
  BY <1>1, <1>2, <1>5 DEF IsPrefix, a, b, u

\* So is its layer.conf.
LEMMA BelowLayerConf ==
  ASSUME NEW root \in Paths
  PROVE  Below(root \o LayerConf, root)
<1> DEFINE X == DOMAIN Rank \cup {<<"conf">>, <<"layer", "conf">>}
<1>1. root \in Seq(X) /\ LayerConf \in Seq(X)
  BY DEF Paths, LayerConf
<1> HIDE DEF X
<1>2. IsPrefix(root, root \o LayerConf)
  BY <1>1, PrefixOfJoined
<1> QED
  BY <1>2 DEF Below

\* What the build may be made from, whichever way it is made.
LEMMA SourcesAre ==
  ASSUME world \in Worlds
  PROVE  /\ Sources(world.kept, LayerRoots(world.kept))
         /\ \A all \in SUBSET (DOMAIN world.texts) : Sources(all, world.layers)
         /\ Sources(world.kept, world.layers \cup Range(world.environment.bbpath))
<1> DEFINE bbpath == world.environment.bbpath
           kept == world.kept
           roots == world.layers \cup Range(bbpath) \cup LayerRoots(kept)
<1>1. /\ world.layers \in SUBSET Paths /\ IsFiniteSet(world.layers)
      /\ DOMAIN world.texts \in SUBSET Paths /\ IsFiniteSet(kept)
      /\ kept \subseteq DOMAIN world.texts
  BY WorldsAssumption
<1>2. ASSUME NEW root \in roots, root \o LayerConf \in DOMAIN world.texts
      PROVE  Prioritised(world.conf[root]) /\ world.conf[root].bbpath \in Seq(Paths)
  BY <1>2, WorldsAssumption DEF Prioritised
<1>3. Range(bbpath) \in SUBSET Paths /\ IsFiniteSet(Range(bbpath))
  <2>1. PICK n : BbpathIs(n)
    BY BbpathHolds
  <2>2. n \in Nat /\ DOMAIN bbpath = 1 .. n /\ \A k \in 1 .. n : bbpath[k] \in Paths
    BY <2>1, LengthIs DEF BbpathIs, ArePaths
  <2>3. bbpath = [k \in DOMAIN bbpath |-> bbpath[k]]
    BY <2>1, <2>2 DEF BbpathIs, Length
  <2> HIDE DEF bbpath
  <2>4. IsFiniteSet({bbpath[k] : k \in DOMAIN bbpath})
    BY <2>2, <2>3, FS_Interval, FiniteImage
  <2> QED
    BY <2>2, <2>4 DEF Range
<1>4. LayerRoots(kept) \in SUBSET Paths /\ IsFiniteSet(LayerRoots(kept))
  <2> DEFINE confs == {g \in kept : IsSuffix(LayerConf, g)}
             front == [g \in confs |-> Front(Front(g))]
  <2>1. confs \in SUBSET kept /\ \A g \in confs : Front(Front(g)) \in Paths
    BY <1>1, FrontIs
  <2>2. IsFiniteSet(confs)
    <3> HIDE DEF confs
    <3> QED
      BY <1>1, <2>1, FS_Subset
  <2>3. LayerRoots(kept) = {Front(Front(f)) : f \in confs}
    BY DEF LayerRoots
  <2> HIDE DEF confs
  <2>4. DOMAIN front = confs /\ front = [g \in DOMAIN front |-> front[g]]
        /\ \A g \in confs : front[g] = Front(Front(g))
    OBVIOUS
  <2> HIDE DEF front
  <2>5. IsFiniteSet({front[g] : g \in DOMAIN front})
    BY <2>2, <2>4, FiniteImage
  <2>6. {front[g] : g \in DOMAIN front} = LayerRoots(kept)
    BY <2>3, <2>4
  <2> QED
    BY <2>1, <2>3, <2>5, <2>6
<1> HIDE DEF roots
<1>5. ASSUME NEW all \in SUBSET (DOMAIN world.texts), NEW some \in SUBSET roots,
             some \in SUBSET Paths, IsFiniteSet(some)
      PROVE  Sources(all, some)
  BY <1>2, <1>5 DEF Sources
<1>6. IsFiniteSet(world.layers \cup Range(bbpath))
  BY <1>1, <1>3, FS_Union
<1> QED
  BY <1>1, <1>3, <1>4, <1>5, <1>6 DEF roots

-----------------------------------------------------------------------------
(* The graph, from step to step.                                           *)

\* Each entry of BBPATH is a layer.
HasBbpath(x) ==
  \A k \in DOMAIN world.environment.bbpath :
    \E i \in DOMAIN x.layers : x.layers[i].root = world.environment.bbpath[k]

\* With BitBake's environment, each entry of BBPATH is a layer.
Layered(x) ==
  Shaped(x) /\ LayersHold(x) /\ x.files \subseteq world.kept /\ HasBbpath(x)

\* The index answers as BitBake does.
Resolved(x) ==
  /\ Shaped(x) /\ LayersHold(x) /\ x.files \subseteq world.kept
  /\ SearchesBbpath(x)
  /\ x.edges = BuildDependencies(x)

GraphInv ==
  /\ world \in Worlds
  /\ IsIndex(index)
  /\ stage = "context" => Layered(index)
  /\ index.authoritative /\ world.environment.bbpath # <<>> => Resolved(index)

\* FromBitbake makes a layer of each entry of BBPATH.
LEMMA FromBitbakeStep ==
  ASSUME world \in Worlds, FromBitbake
  PROVE  GraphInv'
<1> DEFINE build == BuildFiles \cap world.kept
           roots == world.layers \cup Range(world.environment.bbpath)
           x == index'
<1>1. index' = FromCanonicalFiles(world.kept, build, roots) /\ UNCHANGED world
  BY DEF FromBitbake, Built
<1>2. Sources(world.kept, roots) /\ \A f \in build : Below(f, world.build)
  BY SourcesAre, BuildFilesAre
<1> HIDE DEF roots, build, x
<1>3. MadeFrom(x, world.kept, build, roots)
  BY <1>1, <1>2, BuiltIs DEF build, x
<1>4. /\ x.files = world.kept /\ x.authoritative = FALSE /\ Shaped(x) /\ LayersHold(x)
      /\ \A root \in roots : \E i \in DOMAIN x.layers : x.layers[i].root = root
  BY <1>3 DEF MadeFrom, Arranged
<1>5. HasBbpath(x)
  BY <1>4 DEF HasBbpath, roots, Range
<1>6. Layered(index)'
  BY <1>1, <1>4, <1>5 DEF Layered, HasBbpath, Shaped, IsIndex, Index, LayersHold, x
<1> QED
  BY <1>1, <1>4, <1>6 DEF GraphInv, Shaped, IsIndex, Index, x

\* BitBake's description leaves a layer where it is.
LEMMA DescribedIs ==
  ASSUME NEW l, IsLayer(l)
  PROVE  /\ IsLayer(Described(l))
         /\ Described(l).root = l.root /\ Described(l).files = l.files
<1>1. PICK metadata, priority :
        Described(l) = [l EXCEPT !.metadata = metadata, !.priority = priority]
  BY DEF Described
<1>2. Described(l) = [root |-> l.root, files |-> l.files, metadata |-> metadata,
                      priority |-> priority]
  BY <1>1 DEF IsLayer
<1> QED
  BY <1>2 DEF IsLayer

\* The two ways in which an index is changed.
WithSearch(x, t, u, v) == [x EXCEPT !.layers = t, !.authoritative = u, !.searchPaths = v]
WithFiles(x, t, u, v) == [x EXCEPT !.files = t, !.buildFiles = u, !.layers = v]

\* A change touches the fields it names.
LEMMA IndexWith ==
  ASSUME NEW x, IsIndex(x), NEW t, NEW u, NEW v
  PROVE  /\ WithSearch(x, t, u, v) = Index(t, v, x.files, x.buildFiles, u, x.edges)
         /\ WithFiles(x, t, u, v) = Index(v, x.searchPaths, t, u, x.authoritative, x.edges)
<1> DEFINE l == x.layers
           p == x.searchPaths
           f == x.files
           b == x.buildFiles
           a == x.authoritative
           e == x.edges
<1>1. x = Index(l, p, f, b, a, e)
  BY DEF IsIndex
<1> HIDE DEF l, p, f, b, a, e
<1> DEFINE x1 == [x EXCEPT !.layers = t]
           x2 == [x1 EXCEPT !.authoritative = u]
           y1 == [x EXCEPT !.files = t]
           y2 == [y1 EXCEPT !.buildFiles = u]
<1>2. x1 = Index(t, p, f, b, a, e)
  BY <1>1 DEF Index
<1>3. y1 = Index(l, p, t, b, a, e)
  BY <1>1 DEF Index
<1>4. x2 = Index(t, p, f, b, u, e)
  <2> HIDE DEF x1
  <2> QED
    BY <1>2 DEF Index
<1>5. y2 = Index(l, p, t, u, a, e)
  <2> HIDE DEF y1
  <2> QED
    BY <1>3 DEF Index
<1>6. [x2 EXCEPT !.searchPaths = v] = Index(t, v, f, b, u, e)
  <2> HIDE DEF x2
  <2> QED
    BY <1>4 DEF Index
<1>7. [y2 EXCEPT !.layers = v] = Index(v, p, t, u, a, e)
  <2> HIDE DEF y2
  <2> QED
    BY <1>5 DEF Index
<1>8. [x EXCEPT !.layers = t, !.authoritative = u, !.searchPaths = v]
      = [x2 EXCEPT !.searchPaths = v]
  BY <1>1 DEF Index
<1>9. [x EXCEPT !.files = t, !.buildFiles = u, !.layers = v] = [y2 EXCEPT !.layers = v]
  BY <1>1 DEF Index
<1> QED
  BY <1>6, <1>7, <1>8, <1>9 DEF WithSearch, WithFiles, l, p, f, b, a, e

\* An index with BitBake's description of another one's layers.
Applied(x, y) ==
  LET layers == [i \in DOMAIN x.layers |-> Described(x.layers[i])]
  IN y = Index(layers, DescribedSearchPaths(layers), x.files, x.buildFiles, TRUE,
               BuildDependencies(y))

\* An index with some of the files of another one.
Narrowed(x, kept, y) ==
  LET layers == [i \in DOMAIN x.layers |-> [x.layers[i] EXCEPT !.files = @ \cap kept]]
  IN y = Index(layers, x.searchPaths, x.files \cap kept, x.buildFiles \cap kept,
               x.authoritative, BuildDependencies(y))

\* The context is applied to the whole index, and its edges are made anew.
LEMMA AppliedIs ==
  ASSUME IsIndex(index), ApplyBitbakeContext
  PROVE  Applied(index, index')
<1> DEFINE layers == [i \in DOMAIN index.layers |-> Described(index.layers[i])]
           paths == DescribedSearchPaths(layers)
           bare == [index EXCEPT !.layers = layers, !.authoritative = TRUE,
                                 !.searchPaths = paths]
           built == BuildDependencies(bare)
           x == index'
<1>1. x = [bare EXCEPT !.edges = built]
  BY DEF ApplyBitbakeContext
<1> HIDE DEF layers, paths, x
<1>2. bare = Index(layers, paths, index.files, index.buildFiles, TRUE, index.edges)
  <2>1. bare = WithSearch(index, layers, TRUE, paths)
    BY DEF WithSearch
  <2> QED
    BY <2>1, IndexWith
<1> HIDE DEF bare, built
<1>3. x = Index(layers, paths, index.files, index.buildFiles, TRUE, built)
  BY <1>1, <1>2 DEF Index
<1>4. BuildDependencies(x) = built
  <2>1. /\ x.layers = bare.layers /\ x.searchPaths = bare.searchPaths /\ x.files = bare.files
        /\ x.buildFiles = bare.buildFiles /\ x.authoritative = bare.authoritative
    BY <1>2, <1>3 DEF Index
  <2> QED
    BY <2>1, SameDependencies DEF built
<1> QED
  BY <1>3, <1>4 DEF Applied, layers, paths, x

\* So it is when files are taken away.
LEMMA RetainedIs ==
  ASSUME IsIndex(index), RetainFiles
  PROVE  \E kept : Narrowed(index, kept, index')
<1>1. \E f \in index.files : index' = Retained(index.files \ {f})
  BY DEF RetainFiles
<1>2. PICK kept : index' = Retained(kept)
  BY <1>1
<1> DEFINE layers == [i \in DOMAIN index.layers |-> [index.layers[i] EXCEPT !.files = @ \cap kept]]
           bare == [index EXCEPT !.files = @ \cap kept, !.buildFiles = @ \cap kept,
                                 !.layers = layers]
           built == BuildDependencies(bare)
           x == index'
<1>3. x = [bare EXCEPT !.edges = built]
  BY <1>2 DEF Retained
<1> HIDE DEF layers, x
<1>4. bare = Index(layers, index.searchPaths, index.files \cap kept, index.buildFiles \cap kept,
                   index.authoritative, index.edges)
  <2>1. bare = WithFiles(index, index.files \cap kept, index.buildFiles \cap kept, layers)
    BY DEF WithFiles, IsIndex, Index
  <2> QED
    BY <2>1, IndexWith
<1> HIDE DEF bare, built
<1>5. x = Index(layers, index.searchPaths, index.files \cap kept, index.buildFiles \cap kept,
                index.authoritative, built)
  BY <1>3, <1>4 DEF Index
<1>6. BuildDependencies(x) = built
  <2>1. /\ x.layers = bare.layers /\ x.searchPaths = bare.searchPaths /\ x.files = bare.files
        /\ x.buildFiles = bare.buildFiles /\ x.authoritative = bare.authoritative
    BY <1>4, <1>5 DEF Index
  <2> QED
    BY <2>1, SameDependencies DEF built
<1>7. Narrowed(index, kept, x)
  BY <1>5, <1>6 DEF Narrowed, layers
<1> QED
  BY <1>7 DEF x

\* BitBake's description leaves the layers where they are.
LEMMA AppliedLayers ==
  ASSUME NEW x, Shaped(x), LayersHold(x), NEW y, Applied(x, y)
  PROVE  /\ y.files = x.files /\ y.buildFiles = x.buildFiles /\ y.authoritative = TRUE
         /\ y.searchPaths = DescribedSearchPaths(y.layers)
         /\ y.edges = BuildDependencies(y)
         /\ Shaped(y) /\ LayersHold(y) /\ DOMAIN y.layers = DOMAIN x.layers
         /\ \A i \in DOMAIN x.layers :
              y.layers[i] = Described(x.layers[i]) /\ y.layers[i].root = x.layers[i].root
<1> DEFINE layers == [i \in DOMAIN x.layers |-> Described(x.layers[i])]
<1>1. /\ y.layers = layers /\ y.files = x.files /\ y.buildFiles = x.buildFiles
      /\ y.authoritative = TRUE /\ y.searchPaths = DescribedSearchPaths(y.layers)
      /\ y.edges = BuildDependencies(y) /\ IsIndex(y)
  <2> DEFINE built == BuildDependencies(y)
  <2> HIDE DEF layers, built
  <2>1. y = Index(layers, DescribedSearchPaths(layers), x.files, x.buildFiles, TRUE, built)
    BY DEF Applied, layers, built
  <2> QED
    BY <2>1 DEF IsIndex, Index, built
<1>2. ASSUME NEW i \in DOMAIN x.layers
      PROVE  /\ y.layers[i] = Described(x.layers[i]) /\ IsLayer(y.layers[i])
             /\ y.layers[i].root = x.layers[i].root /\ y.layers[i].files = x.layers[i].files
  <2>1. y.layers[i] = Described(x.layers[i]) /\ IsLayer(x.layers[i])
    BY <1>1 DEF Shaped
  <2> QED
    BY <2>1, DescribedIs
<1>3. DOMAIN y.layers = DOMAIN x.layers
  BY <1>1
<1> HIDE DEF layers
<1>4. Shaped(y) /\ LayersHold(y)
  BY <1>1, <1>2, <1>3 DEF Shaped, LayersHold
<1> QED
  BY <1>1, <1>2, <1>3, <1>4

\* What remains is below the same roots.
LEMMA NarrowedLayers ==
  ASSUME NEW x, Shaped(x), LayersHold(x), NEW kept, NEW y, Narrowed(x, kept, y)
  PROVE  /\ y.files = x.files \cap kept /\ y.buildFiles = x.buildFiles \cap kept
         /\ y.authoritative = x.authoritative /\ y.searchPaths = x.searchPaths
         /\ y.edges = BuildDependencies(y)
         /\ Shaped(y) /\ LayersHold(y) /\ DOMAIN y.layers = DOMAIN x.layers
         /\ \A i \in DOMAIN x.layers :
              /\ y.layers[i].root = x.layers[i].root
              /\ y.layers[i].metadata = x.layers[i].metadata
              /\ y.layers[i].priority = x.layers[i].priority
<1> DEFINE layers == [i \in DOMAIN x.layers |-> [x.layers[i] EXCEPT !.files = @ \cap kept]]
<1>1. /\ y.layers = layers /\ y.files = x.files \cap kept /\ y.buildFiles = x.buildFiles \cap kept
      /\ y.authoritative = x.authoritative /\ y.searchPaths = x.searchPaths
      /\ y.edges = BuildDependencies(y) /\ IsIndex(y)
  <2> DEFINE built == BuildDependencies(y)
  <2> HIDE DEF layers, built
  <2>1. y = Index(layers, x.searchPaths, x.files \cap kept, x.buildFiles \cap kept,
                  x.authoritative, built)
    BY DEF Narrowed, layers, built
  <2> QED
    BY <2>1 DEF IsIndex, Index, built
<1>2. ASSUME NEW i \in DOMAIN x.layers
      PROVE  /\ y.layers[i].root = x.layers[i].root /\ IsLayer(y.layers[i])
             /\ y.layers[i].metadata = x.layers[i].metadata
             /\ y.layers[i].priority = x.layers[i].priority
             /\ y.layers[i].files = x.layers[i].files \cap kept
  <2>1. IsLayer(x.layers[i])
    BY DEF Shaped
  <2>2. y.layers[i] = [x.layers[i] EXCEPT !.files = x.layers[i].files \cap kept]
    BY <1>1
  <2>3. ASSUME NEW l, IsLayer(l), NEW files
        PROVE  [l EXCEPT !.files = files]
               = [root |-> l.root, files |-> files, metadata |-> l.metadata,
                  priority |-> l.priority]
    BY <2>3 DEF IsLayer
  <2>4. y.layers[i] = [root |-> x.layers[i].root, files |-> x.layers[i].files \cap kept,
                       metadata |-> x.layers[i].metadata, priority |-> x.layers[i].priority]
    BY <2>1, <2>2, <2>3
  <2> QED
    BY <2>4 DEF IsLayer
<1>3. DOMAIN y.layers = DOMAIN x.layers
  BY <1>1
<1> HIDE DEF layers
<1>4. ASSUME NEW i \in DOMAIN y.layers
      PROVE  /\ y.layers[i].root \in Paths /\ IsLayer(y.layers[i])
             /\ y.layers[i].files = {f \in y.files : Below(f, y.layers[i].root)}
  <2>1. /\ x.layers[i].root \in Paths
        /\ x.layers[i].files = {f \in x.files : Below(f, x.layers[i].root)}
    BY <1>3, <1>4 DEF LayersHold
  <2> QED
    BY <1>1, <1>2, <1>3, <1>4, <2>1
<1>5. Shaped(y) /\ LayersHold(y)
  BY <1>1, <1>3, <1>4 DEF Shaped, LayersHold
<1> QED
  BY <1>1, <1>2, <1>3, <1>5

\* What an index searches changes with the index and the build only.
LEMMA NextSearches ==
  ASSUME UNCHANGED world, SearchesBbpath(index')
  PROVE  SearchesBbpath(index)'
<1>1. world'.environment.bbpath = world.environment.bbpath
  OBVIOUS
<1>2. /\ \E n : Length(index'.searchPaths, n)
      /\ \A k \in DOMAIN index'.searchPaths :
           /\ index'.searchPaths[k].path \in Paths
           /\ index'.searchPaths[k].layer \in DOMAIN index'.layers
           /\ Below(index'.searchPaths[k].path, index'.layers[index'.searchPaths[k].layer].root)
      /\ \A T, p : Leading(PathsOf(index'.searchPaths), T, p)
                   <=> Leading(world'.environment.bbpath, T, p)
  BY <1>1 DEF SearchesBbpath
<1> QED
  BY <1>2 DEF SearchesBbpath

\* The search paths become those of BBPATH, each in a layer.
LEMMA ApplyStep ==
  ASSUME GraphInv, ApplyBitbakeContext
  PROVE  GraphInv'
<1> DEFINE bbpath == world.environment.bbpath
           x == index'
           layers == x.layers
           paths == x.searchPaths
<1>1. stage = "context" /\ stage' = "ready" /\ UNCHANGED world
  BY DEF ApplyBitbakeContext
<1>2. world \in Worlds /\ Layered(index)
  BY <1>1 DEF GraphInv
<1>3. /\ Shaped(x) /\ LayersHold(x) /\ DOMAIN layers = DOMAIN index.layers
      /\ \A i \in DOMAIN index.layers : layers[i].root = index.layers[i].root
      /\ paths = DescribedSearchPaths(layers)
      /\ x.edges = BuildDependencies(x) /\ x.files = index.files
  <2>1. IsIndex(index) /\ Shaped(index) /\ LayersHold(index)
    BY <1>2 DEF Layered, Shaped
  <2>2. Applied(index, x)
    BY <2>1, AppliedIs
  <2> HIDE DEF x
  <2>3. /\ Shaped(x) /\ LayersHold(x) /\ DOMAIN layers = DOMAIN index.layers
        /\ \A i \in DOMAIN index.layers : /\ layers[i] = Described(index.layers[i])
                                          /\ layers[i].root = index.layers[i].root
        /\ paths = DescribedSearchPaths(layers)
        /\ x.edges = BuildDependencies(x) /\ x.files = index.files
    BY <2>1, <2>2, AppliedLayers
  <2> QED
    BY <2>3
<1> HIDE DEF layers, paths
<1>4. IsIndex(index)'
  BY <1>3 DEF Shaped, IsIndex, Index
<1>5. SUFFICES ASSUME bbpath # <<>> PROVE Resolved(index)'
  BY <1>1, <1>2, <1>4 DEF GraphInv
<1>6. PICK m \in Nat : DOMAIN layers = 1 .. m
  BY <1>3 DEF LayersHold, layers
<1>7. \A i \in 1 .. m : layers[i].root \in Paths /\ layers[i].root = index.layers[i].root
  BY <1>3, <1>6 DEF LayersHold, layers
<1>8. Shaped(index)' /\ LayersHold(index)' /\ (index.files \subseteq world.kept)'
  BY <1>1, <1>2, <1>3 DEF Layered, Shaped, IsIndex, Index, LayersHold
<1>9. (index.edges = BuildDependencies(index))'
  BY <1>1, <1>3, NextDependencies
<1>10. /\ Owned(paths, layers) /\ \A k \in DOMAIN paths : Containing(layers, paths[k].path) # 0
       /\ \A T, p : Leading(PathsOf(paths), T, p) <=> Leading(bbpath, T, p)
  <2>1. ASSUME NEW k \in DOMAIN bbpath
        PROVE  \E i \in 1 .. m : layers[i].root = bbpath[k]
    BY <1>2, <1>3, <1>6, <1>7 DEF Layered, HasBbpath
  <2> QED
    BY <1>2, <1>3, <1>5, <1>6, <1>7, <2>1, BbpathIsSearched
<1>11. ASSUME NEW k \in DOMAIN paths
       PROVE  /\ paths[k].path \in Paths /\ paths[k].layer \in 1 .. m
              /\ Below(paths[k].path, layers[paths[k].layer].root)
  <2>1. Containing(layers, paths[k].path) # 0
    BY <1>10
  <2>2. /\ Containing(layers, paths[k].path) \in 1 .. m
        /\ Below(paths[k].path, layers[Containing(layers, paths[k].path)].root)
    BY <1>6, <2>1, ContainingIs
  <2>3. paths[k].path \in Paths /\ paths[k].layer = Containing(layers, paths[k].path)
    BY <1>10, <2>1 DEF Owned
  <2> QED
    BY <2>2, <2>3
<1>12. SearchesBbpath(index)'
  <2>1. SearchesBbpath(index')
    BY <1>6, <1>10, <1>11 DEF SearchesBbpath, Owned, layers, paths
  <2> QED
    BY <1>1, <2>1, NextSearches
<1> QED
  BY <1>8, <1>9, <1>12 DEF Resolved

\* Fewer files, and the edges made anew from them.
LEMMA RetainStep ==
  ASSUME GraphInv, RetainFiles
  PROVE  GraphInv'
<1>1. stage = "ready" /\ UNCHANGED <<world, stage>> /\ IsIndex(index)
  BY DEF RetainFiles, GraphInv
<1>2. PICK kept : Narrowed(index, kept, index')
  BY <1>1, RetainedIs
<1>3. index'.authoritative = index.authoritative /\ IsIndex(index)'
  BY <1>2 DEF Narrowed, IsIndex, Index
<1>4. SUFFICES ASSUME index.authoritative, world.environment.bbpath # <<>>
               PROVE  Resolved(index)'
  BY <1>1, <1>3 DEF GraphInv
<1>5. Resolved(index)
  BY <1>4 DEF GraphInv
<1>6. /\ Shaped(index') /\ LayersHold(index') /\ DOMAIN index'.layers = DOMAIN index.layers
      /\ \A i \in DOMAIN index.layers : index'.layers[i].root = index.layers[i].root
      /\ index'.searchPaths = index.searchPaths /\ index'.edges = BuildDependencies(index')
      /\ index'.files = index.files \cap kept
  BY <1>2, <1>5, NarrowedLayers DEF Resolved
<1>7. Shaped(index)' /\ LayersHold(index)' /\ (index.files \subseteq world.kept)'
  BY <1>1, <1>5, <1>6 DEF Resolved, Shaped, IsIndex, Index, LayersHold
<1>8. (index.edges = BuildDependencies(index))'
  BY <1>1, <1>6, NextDependencies
<1>9. SearchesBbpath(index)'
  <2>1. SearchesBbpath(index')
    BY <1>5, <1>6 DEF Resolved, SearchesBbpath
  <2> QED
    BY <1>1, <2>1, NextSearches
<1> QED
  BY <1>7, <1>8, <1>9 DEF Resolved

\* Without BitBake's environment nothing is claimed.
LEMMA OtherBuiltStep ==
  ASSUME GraphInv, FromPaths \/ FromBuildDir
  PROVE  GraphInv'
<1>1. PICK all, build, roots : Built(all, build, roots, "ready")
  BY DEF FromPaths, FromBuildDir
<1>2. index' = FromCanonicalFiles(all, build, roots) /\ stage' = "ready" /\ UNCHANGED world
  BY <1>1 DEF Built
<1>3. index'.authoritative = FALSE /\ IsIndex(index)'
  BY <1>2 DEF FromCanonicalFiles, IsIndex, Index
<1> QED
  BY <1>2, <1>3 DEF GraphInv

\* A question leaves the index alone.
LEMMA QuestionStep ==
  ASSUME GraphInv, UNCHANGED <<world, index>>, stage' = "context" => stage = "context"
  PROVE  GraphInv'
<1>1. Layered(index) => Layered(index)'
  BY DEF Layered, HasBbpath, Shaped, IsIndex, Index, LayersHold
<1>2. SearchesBbpath(index) => SearchesBbpath(index)'
  BY NextSearches
<1>3. BuildDependencies(index)' = BuildDependencies(index)
  BY NextDependencies
<1>4. Resolved(index) => Resolved(index)'
  BY <1>2, <1>3 DEF Resolved, Shaped, IsIndex, Index, LayersHold
<1> QED
  BY <1>1, <1>4 DEF GraphInv, IsIndex, Index

-----------------------------------------------------------------------------
(* The graph.                                                              *)

\* The edges of a file are those of its references in its contexts.
LEMMA EdgesFrom ==
  ASSUME NEW x, x.authoritative, NEW from \in x.files, NEW context, NEW kind, NEW to
  PROVE  Edge(from, to, context, kind) \in BuildDependencies(x)
         <=> /\ context \in ContextsFor(from)
             /\ \E r \in world.texts[from] : r.kind = kind /\ to \in LeadsTo(x, from, r, context)
<1>1. IsWorkspaceFile(x, from)
  BY DEF IsWorkspaceFile
<1>2. ASSUME Edge(from, to, context, kind) \in BuildDependencies(x)
      PROVE  /\ context \in ContextsFor(from)
             /\ \E r \in world.texts[from] : r.kind = kind /\ to \in LeadsTo(x, from, r, context)
  <2>1. PICK f, r, c, t : /\ r \in world.texts[f] /\ c \in ContextsFor(f)
                          /\ t \in LeadsTo(x, f, r, c)
                          /\ Edge(from, to, context, kind) = Edge(f, t, c, r.kind)
    BY <1>2 DEF BuildDependencies
  <2>2. f = from /\ t = to /\ c = context /\ r.kind = kind
    BY <2>1 DEF Edge
  <2> QED
    BY <2>1, <2>2
<1>3. ASSUME context \in ContextsFor(from), NEW r \in world.texts[from], r.kind = kind,
             to \in LeadsTo(x, from, r, context)
      PROVE  Edge(from, to, context, kind) \in BuildDependencies(x)
  BY <1>1, <1>3 DEF BuildDependencies
<1> QED
  BY <1>2, <1>3

\* Every edge is one.
LEMMA EdgesAre ==
  ASSUME NEW x, NEW e \in BuildDependencies(x)
  PROVE  e = Edge(e.from, e.to, e.context, e.kind)
<1>1. \E f, r, c, t : e = Edge(f, t, c, r.kind)
  BY DEF BuildDependencies
<1> QED
  BY <1>1 DEF Edge

\* An index that answers as BitBake does has BitBake's graph.
LEMMA EdgesHold ==
  ASSUME GraphInv
  PROVE  EdgesAsSearched
<1> SUFFICES ASSUME index.authoritative, world.environment.bbpath # <<>>,
                    NEW from \in index.files, NEW context \in {"Recipe", "Global"}
             PROVE  LET references == IF context \in ContextsFor(from)
                                      THEN world.texts[from] ELSE {}
                    IN {<<e.kind, e.to>> :
                          e \in {d \in index.edges : d.from = from /\ d.context = context}}
                       = UNION {{<<r.kind, to>> : to \in Opened(from, r, context)} :
                                r \in references}
  BY DEF EdgesAsSearched
<1> DEFINE references == IF context \in ContextsFor(from) THEN world.texts[from] ELSE {}
           mine == {d \in index.edges : d.from = from /\ d.context = context}
           told == {<<e.kind, e.to>> : e \in mine}
           opened == UNION {{<<r.kind, to>> : to \in Opened(from, r, context)} : r \in references}
<1>1. world \in Worlds /\ Resolved(index)
  BY DEF GraphInv
<1>2. PICK n : BbpathIs(n)
  BY <1>1, BbpathHolds
<1>3. ASSUME NEW r \in references
      PROVE  LeadsTo(index, from, r, context) = Opened(from, r, context)
  <2>1. r \in References
    BY <1>1, WorldsAssumption DEF Resolved
  <2> QED
    BY <1>1, <1>2, <2>1, ReferencesLead DEF Resolved
<1>4. \A kind, to :
        Edge(from, to, context, kind) \in index.edges
        <=> \E r \in references : r.kind = kind /\ to \in LeadsTo(index, from, r, context)
  BY <1>1, EdgesFrom DEF Resolved
<1>5. \A e \in index.edges : e = Edge(e.from, e.to, e.context, e.kind)
  BY <1>1, EdgesAre DEF Resolved
<1> HIDE DEF references
<1>6. ASSUME NEW p \in told
      PROVE  p \in opened
  <2>1. PICK e \in mine : p = <<e.kind, e.to>>
    OBVIOUS
  <2>2. Edge(from, e.to, context, e.kind) \in index.edges
    BY <1>5, <2>1
  <2>3. PICK r \in references : r.kind = e.kind /\ e.to \in LeadsTo(index, from, r, context)
    BY <1>4, <2>2
  <2> QED
    BY <1>3, <2>1, <2>3
<1>7. ASSUME NEW p \in opened
      PROVE  p \in told
  <2>1. PICK r \in references : p \in {<<r.kind, to>> : to \in Opened(from, r, context)}
    OBVIOUS
  <2>2. PICK to \in Opened(from, r, context) : p = <<r.kind, to>>
    BY <2>1
  <2> DEFINE e == Edge(from, to, context, r.kind)
  <2>3. e \in index.edges
    BY <1>3, <1>4, <2>1, <2>2
  <2>4. e.from = from /\ e.to = to /\ e.context = context /\ e.kind = r.kind
    BY DEF Edge
  <2> HIDE DEF e
  <2>5. e \in mine /\ p = <<e.kind, e.to>>
    BY <2>2, <2>3, <2>4
  <2> QED
    BY <2>5
<1> QED
  BY <1>6, <1>7 DEF references

\* The invariant holds at the start and every step keeps it.
LEMMA GraphInvariance == Spec => []GraphInv
<1>1. Init => GraphInv
  BY DEF Init, NoIndex, GraphInv, IsIndex, Index
<1>2. GraphInv /\ [Next]_vars => GraphInv'
  <2> SUFFICES ASSUME GraphInv, [Next]_vars PROVE GraphInv'
    OBVIOUS
  <2>1. CASE FromPaths \/ FromBuildDir
    BY <2>1, OtherBuiltStep
  <2>2. CASE FromBitbake
    BY <2>2, FromBitbakeStep DEF GraphInv
  <2>3. CASE ApplyBitbakeContext
    BY <2>3, ApplyStep
  <2>4. CASE RetainFiles
    BY <2>4, RetainStep
  <2>5. CASE Ask \/ Pop \/ Visit \/ Trace \/ NoCycle
    <3>1. UNCHANGED <<world, index>> /\ (stage' = "context" => stage = "context")
      BY <2>5 DEF Ask, Pop, Visit, Trace, NoCycle
    <3> QED
      BY <3>1, QuestionStep
  <2>6. CASE UNCHANGED vars
    <3>1. UNCHANGED <<world, index, stage>>
      BY <2>6 DEF vars
    <3> QED
      BY <3>1, QuestionStep
  <2> QED
    BY <2>1, <2>2, <2>3, <2>4, <2>5, <2>6 DEF Next
<1> QED
  BY <1>1, <1>2, PTL DEF Spec

\* With BitBake's BBPATH the dependency graph is the one BitBake's own search
\* gives, whatever the layers, their order and the files removed since.
THEOREM EdgesAreAsSearched == Spec => []EdgesAsSearched
<1> QED
  BY EdgesHold, GraphInvariance, PTL

-----------------------------------------------------------------------------
(* Where candidates come from.                                             *)

\* A candidate names a layer that holds it, with the layer's priority.
HeldBy(c, x, i) ==
  /\ c.layer = x.layers[i].root /\ c.priority = x.layers[i].priority
  /\ c.path \in x.layers[i].files

SearchedAt(c, x, k, scope) ==
  /\ HeldBy(c, x, x.searchPaths[k].layer) /\ c.scope = scope
  /\ Below(c.path, x.searchPaths[k].path)

\* A candidate is found under a search path, in the first layer that has it,
\* or in the build.
Placed(c, x) ==
  \/ \E k \in DOMAIN x.searchPaths : SearchedAt(c, x, k, c.scope)
  \/ \E i \in DOMAIN x.layers :
       HeldBy(c, x, i) /\ \A j \in DOMAIN x.layers : j < i => c.path \notin x.layers[j].files
  \/ /\ c.layer = world.build /\ c.path \in x.buildFiles
     /\ \A i \in DOMAIN x.layers : c.path \notin x.layers[i].files

\* Candidates of one scope follow the search paths.
Follow(u, m, x) ==
  /\ Length(u, m)
  /\ \A i \in 1 .. m : Placed(u[i], x)
  /\ \A i, j \in 1 .. m :
       i < j /\ u[i].scope = u[j].scope =>
         \E k, l \in DOMAIN x.searchPaths :
           k < l /\ SearchedAt(u[i], x, k, u[i].scope) /\ SearchedAt(u[j], x, l, u[j].scope)

\* What the search paths hold, in their order and of one scope.
LEMMA SearchedFollow ==
  ASSUME NEW x, Arranged(x), NEW relative \in Paths, NEW scope
  PROVE  \E m : /\ Follow(Searched(x, relative, scope), m, x)
                /\ \A i \in 1 .. m : Searched(x, relative, scope)[i].scope = scope
<1> DEFINE sp == x.searchPaths
           layer(k) == x.layers[sp[k].layer]
           path(k) == sp[k].path \o relative
           entries == [k \in DOMAIN sp |-> Candidate(layer(k), path(k), scope)]
           places == {k \in DOMAIN sp : path(k) \in layer(k).files}
           u == At(entries, places)
<1>1. Searched(x, relative, scope) = u
  BY DEF Searched
<1>2. PICK n : Length(sp, n)
  BY DEF Arranged, Owned
<1>3. n \in Nat /\ DOMAIN sp = 1 .. n
  BY <1>2, LengthIs
<1>4. Length(entries, n) /\ places \in SUBSET (1 .. n)
  BY <1>3 DEF Length
<1>5. ASSUME NEW k \in places
      PROVE  SearchedAt(entries[k], x, k, scope) /\ entries[k].scope = scope
  <2>1. /\ entries[k].path = path(k) /\ entries[k].layer = layer(k).root
        /\ entries[k].priority = layer(k).priority /\ entries[k].scope = scope
    BY DEF Candidate
  <2>2. path(k) \in layer(k).files /\ k \in DOMAIN sp
    OBVIOUS
  <2>3. sp[k].path \in Paths
    BY <2>2 DEF Arranged, Owned
  <2>4. Below(path(k), sp[k].path)
    BY <2>3, BelowItself, BelowJoined
  <2> QED
    BY <2>1, <2>2, <2>4 DEF SearchedAt, HeldBy
<1> HIDE DEF entries, places
<1>6. PICK m, at : Picks(u, m, entries, places, at)
  BY <1>4, AtPicks
<1>7. /\ Length(u, m) /\ at \in [1 .. m -> places]
      /\ \A k, l \in 1 .. m : k < l => at[k] < at[l]
      /\ \A k \in 1 .. m : u[k] = entries[at[k]]
  BY <1>6 DEF Picks
<1> HIDE DEF u
<1>8. ASSUME NEW i \in 1 .. m
      PROVE  at[i] \in DOMAIN sp /\ SearchedAt(u[i], x, at[i], u[i].scope) /\ u[i].scope = scope
  <2>1. at[i] \in places /\ u[i] = entries[at[i]]
    BY <1>7
  <2> QED
    BY <1>3, <1>4, <1>5, <2>1
<1>9. Follow(u, m, x)
  BY <1>7, <1>8 DEF Follow, Placed
<1> QED
  BY <1>1, <1>8, <1>9

\* A path has one candidate at most.
LEMMA CandidateAtFollows ==
  ASSUME NEW x, Arranged(x), NEW path
  PROVE  \E m : Follow(CandidateAt(x, path), m, x)
<1> DEFINE holders == {i \in DOMAIN x.layers : path \in x.layers[i].files}
           holder == First(holders)
<1>1. PICK n \in Nat : DOMAIN x.layers = 1 .. n
  BY DEF Arranged, LayersHold
<1>2. CASE holders = {}
  <2>1. holder = 0
    BY <1>2 DEF First
  <2>2. CASE path \in x.buildFiles
    <3> DEFINE c == [path |-> path, layer |-> world.build, priority |-> 0, collection |-> "none",
                     scope |-> "CurrentFile"]
    <3>1. CandidateAt(x, path) = <<c>>
      BY <2>1, <2>2 DEF CandidateAt
    <3>2. Placed(c, x)
      BY <1>2, <2>2 DEF Placed
    <3> HIDE DEF c
    <3>3. Follow(<<c>>, 1, x)
      BY <3>2 DEF Follow, Length
    <3> QED
      BY <3>1, <3>3
  <2>3. CASE path \notin x.buildFiles
    <3>1. CandidateAt(x, path) = <<>>
      BY <2>1, <2>3 DEF CandidateAt
    <3>2. Follow(<<>>, 0, x)
      BY DEF Follow, Length
    <3> QED
      BY <3>1, <3>2
  <2> QED
    BY <2>2, <2>3
<1>3. CASE holders # {}
  <2>1. holder \in holders /\ holder # 0 /\ \A i \in holders : holder <= i
    <3>1. holders \in SUBSET (1 .. n)
      BY <1>1
    <3> HIDE DEF holders
    <3> QED
      BY <1>3, <3>1, FirstIs
  <2>2. ASSUME NEW j \in DOMAIN x.layers, j < holder
        PROVE  path \notin x.layers[j].files
    <3>1. holder \in Nat /\ j \in Nat
      BY <1>1, <2>1
    <3>2. j \notin holders
      <4> HIDE DEF holders, holder
      <4> QED
        BY <2>1, <2>2, <3>1
    <3> QED
      BY <3>2
  <2> DEFINE c == Candidate(x.layers[holder], path, "CurrentFile")
  <2>3. CandidateAt(x, path) = <<c>>
    BY <2>1 DEF CandidateAt
  <2>4. holder \in DOMAIN x.layers /\ path \in x.layers[holder].files
    BY <2>1
  <2> HIDE DEF holders, holder
  <2>5. Placed(c, x)
    BY <2>2, <2>4 DEF Placed, HeldBy, Candidate
  <2> HIDE DEF c
  <2>6. Follow(<<c>>, 1, x)
    BY <2>5 DEF Follow, Length
  <2> QED
    BY <2>3, <2>6
<1> QED
  BY <1>2, <1>3

\* To list each path once keeps the order.
LEMMA FirstOfEachFollows ==
  ASSUME NEW x, NEW u, NEW n, Follow(u, n, x)
  PROVE  \E m : Follow(FirstOfEach(u), m, x)
<1>1. PICK m : InOrder(FirstOfEach(u), m, u, n)
  BY FirstOfEachInOrder DEF Follow
<1> DEFINE f == FirstOfEach(u)
<1> HIDE DEF f
<1>2. Length(f, m)
  BY <1>1 DEF InOrder, f
<1>3. ASSUME NEW i \in 1 .. m
      PROVE  Placed(f[i], x)
  BY <1>1 DEF InOrder, Follow, f
<1>4. ASSUME NEW i \in 1 .. m, NEW j \in 1 .. m, i < j, f[i].scope = f[j].scope
      PROVE  \E k, l \in DOMAIN x.searchPaths :
               k < l /\ SearchedAt(f[i], x, k, f[i].scope) /\ SearchedAt(f[j], x, l, f[j].scope)
  <2>1. PICK a \in 1 .. n, b \in 1 .. n : a < b /\ f[i] = u[a] /\ f[j] = u[b]
    BY <1>1, <1>4 DEF InOrder, f
  <2> QED
    BY <1>4, <2>1 DEF Follow
<1>5. Follow(f, m, x)
  BY <1>2, <1>3, <1>4 DEF Follow
<1> QED
  BY <1>5 DEF f

\* Candidates of two scopes, one after the other.
LEMMA JoinedFollow ==
  ASSUME NEW x, NEW u, NEW m, Follow(u, m, x), NEW v, NEW n, Follow(v, n, x),
         \A i \in 1 .. m, j \in 1 .. n : u[i].scope # v[j].scope
  PROVE  Follow(u \o v, m + n, x)
<1> DEFINE w == u \o v
<1>1. Length(u, m) /\ Length(v, n) /\ m \in Nat /\ n \in Nat
  BY LengthIs DEF Follow
<1>2. Joined(w, u, m, v, n)
  BY <1>1, JoinedLength
<1> HIDE DEF w
<1>3. /\ Length(w, m + n) /\ \A k \in 1 .. m : w[k] = u[k]
      /\ \A k \in 1 .. n : w[k + m] = v[k]
  BY <1>2 DEF Joined
<1>4. ASSUME NEW i \in 1 .. (m + n)
      PROVE  \/ i \in 1 .. m /\ w[i] = u[i]
             \/ i > m /\ i - m \in 1 .. n /\ w[i] = v[i - m]
  <2>1. CASE i <= m
    <3>1. i \in 1 .. m
      BY <1>1, <2>1
    <3> QED
      BY <1>3, <3>1
  <2>2. CASE ~(i <= m)
    <3>1. i > m /\ i - m \in 1 .. n /\ (i - m) + m = i
      BY <1>1, <2>2
    <3> QED
      BY <1>3, <3>1
  <2> QED
    BY <2>1, <2>2
<1>5. ASSUME NEW i \in 1 .. (m + n)
      PROVE  Placed(w[i], x)
  BY <1>4 DEF Follow
<1>6. ASSUME NEW i \in 1 .. (m + n), NEW j \in 1 .. (m + n), i < j, w[i].scope = w[j].scope
      PROVE  \E k, l \in DOMAIN x.searchPaths :
               k < l /\ SearchedAt(w[i], x, k, w[i].scope) /\ SearchedAt(w[j], x, l, w[j].scope)
  <2>1. CASE i \in 1 .. m /\ j \in 1 .. m /\ w[i] = u[i] /\ w[j] = u[j]
    BY <1>6, <2>1 DEF Follow
  <2>2. CASE /\ i - m \in 1 .. n /\ w[i] = v[i - m]
             /\ j - m \in 1 .. n /\ w[j] = v[j - m]
    <3> DEFINE a == i - m
               b == j - m
    <3>1. a \in 1 .. n /\ b \in 1 .. n /\ a < b
      BY <1>1, <1>6, <2>2
    <3>2. w[i] = v[a] /\ w[j] = v[b]
      BY <2>2
    <3> HIDE DEF a, b
    <3> QED
      BY <1>6, <3>1, <3>2 DEF Follow
  <2>3. CASE i \in 1 .. m /\ w[i] = u[i] /\ j - m \in 1 .. n /\ w[j] = v[j - m]
    BY <1>6, <2>3
  <2>4. ~(i > m /\ j \in 1 .. m)
    BY <1>1, <1>6
  <2> QED
    BY <1>4, <2>1, <2>2, <2>3, <2>4
<1>7. Follow(w, m + n, x)
  BY <1>3, <1>5, <1>6 DEF Follow
<1> QED
  BY <1>7 DEF w

\* Every list of candidates follows the search paths.
LEMMA CandidatesFollow ==
  ASSUME NEW x, Arranged(x), NEW from, NEW reference \in References, NEW context
  PROVE  \E m : Follow(CandidatesFor(x, from, reference, context), m, x)
<1>1. reference.target \in Paths
  BY DEF References
<1>2. Follow(<<>>, 0, x)
  BY DEF Follow, Length
<1>3. \E m : Follow(FileCandidates(x, from, reference), m, x)
  <2>1. \E m : Follow(Searched(x, reference.target, "Bbpath"), m, x)
    BY <1>1, SearchedFollow
  <2>2. \E m : Follow(FirstOfEach(Searched(x, reference.target, "Bbpath")), m, x)
    BY <2>1, FirstOfEachFollows
  <2>3. \A path : \E m : Follow(CandidateAt(x, path), m, x)
    BY CandidateAtFollows
  <2> QED
    BY <2>2, <2>3 DEF FileCandidates
<1>4. \E m : Follow(ClassCandidates(x, reference.target, context), m, x)
  <2> DEFINE in(directory) == Searched(x, <<<<directory>>>> \o reference.target, directory)
             scoped == ScopedDirectory(context)
  <2>1. scoped \in {"classes-global", "classes-recipe"} /\ scoped # "classes"
    BY DEF ScopedDirectory
  <2> HIDE DEF scoped
  <2>2. ASSUME NEW directory \in {"classes", "classes-global", "classes-recipe"}
        PROVE  <<<<directory>>>> \o reference.target \in Paths
    <3>1. <<directory>> \in DOMAIN Rank
      BY RankAssumption
    <3> QED
      BY <1>1, <3>1 DEF Paths
  <2>3. PICK m : Follow(in(scoped), m, x) /\ \A i \in 1 .. m : in(scoped)[i].scope = scoped
    BY <2>1, <2>2, SearchedFollow
  <2>4. PICK n : Follow(in("classes"), n, x) /\ \A i \in 1 .. n : in("classes")[i].scope = "classes"
    BY <2>2, SearchedFollow
  <2> HIDE DEF in
  <2>5. \A i \in 1 .. m, j \in 1 .. n : in(scoped)[i].scope # in("classes")[j].scope
    BY <2>1, <2>3, <2>4
  <2>6. Follow(in(scoped) \o in("classes"), m + n, x)
    BY <2>3, <2>4, <2>5, JoinedFollow
  <2>7. \E l : Follow(FirstOfEach(in(scoped) \o in("classes")), l, x)
    BY <2>6, FirstOfEachFollows
  <2>8. ClassCandidates(x, reference.target, context) = FirstOfEach(in(scoped) \o in("classes"))
    BY DEF ClassCandidates, in, scoped
  <2> QED
    BY <2>7, <2>8
<1> QED
  BY <1>2, <1>3, <1>4 DEF CandidatesFor

-----------------------------------------------------------------------------
(* Ranks.                                                                  *)

\* The layers are in the order of the priorities their own files give.
OwnOrder(x) ==
  /\ \A i \in DOMAIN x.layers : OwnPriority(x.layers[i].root) \in Int
  /\ \A i, j \in DOMAIN x.layers :
       i < j => OwnPriority(x.layers[i].root) >= OwnPriority(x.layers[j].root)

\* A layer that the patterns tell has BitBake's priority.
AsTold(x) ==
  \A i \in DOMAIN x.layers :
    x.layers[i].root \o LayerConf \in x.files /\ Told(x.layers[i].root)
    => x.layers[i].priority = BitBakePriority(x.layers[i].root)

RankedIndex(x, s) ==
  /\ Arranged(x) /\ x.files \subseteq DOMAIN world.texts
  /\ s = "context" => OwnOrder(x) /\ HasBbpath(x)
  /\ IF x.authoritative THEN OwnOrder(x) /\ AsTold(x) ELSE Plain(x)

RankInv == world \in Worlds /\ RankedIndex(index, stage)

\* It speaks of the build, the index and the stage only.
LEMMA NextRanked ==
  ASSUME UNCHANGED world, RankedIndex(index', stage')
  PROVE  RankedIndex(index, stage)'
<1>1. Arranged(index') => Arranged(index)'
  BY DEF Arranged, Shaped, IsIndex, Index, LayersHold
<1>2. \A root : OwnPriority(root)' = OwnPriority(root)
  BY DEF OwnPriority
<1>3. OwnOrder(index') => OwnOrder(index)'
  BY <1>2 DEF OwnOrder
<1>4. \A root : (Told(root)' <=> Told(root)) /\ BitBakePriority(root)' = BitBakePriority(root)
  BY DEF Told, BitBakePriority, Declares
<1>5. AsTold(index') => AsTold(index)'
  BY <1>4 DEF AsTold
<1>6. HasBbpath(index') => HasBbpath(index)'
  BY DEF HasBbpath
<1>7. Plain(index') => Plain(index)'
  BY DEF Plain
<1> QED
  BY <1>1, <1>3, <1>5, <1>6, <1>7 DEF RankedIndex

\* A layer without a file has priority 0.
LEMMA OwnPriorityIs ==
  ASSUME NEW root
  PROVE  NewLayer(root, world.kept).priority = OwnPriority(root)
<1>1. PriorityOf(NoMetadata) = 0
  <2>1. Range(NoMetadata.priorities) = {} /\ DOMAIN NoMetadata.priorities = {}
    BY DEF NoMetadata, Range
  <2> QED
    BY <2>1 DEF PriorityOf
<1> QED
  BY <1>1 DEF NewLayer, OwnPriority

\* An index as it is made from sources.
LEMMA MadeRanks ==
  ASSUME NEW all \in SUBSET (DOMAIN world.texts), NEW build \in SUBSET all, NEW roots,
         Sources(all, roots), \A f \in build : Below(f, world.build)
  PROVE  RankedIndex(FromCanonicalFiles(all, build, roots), "ready")
<1> DEFINE x == FromCanonicalFiles(all, build, roots)
<1>1. MadeFrom(x, all, build, roots)
  BY BuiltIs
<1> HIDE DEF x
<1>2. Arranged(x) /\ Plain(x) /\ x.files = all /\ x.authoritative = FALSE
  BY <1>1 DEF MadeFrom
<1>3. RankedIndex(x, "ready")
  BY <1>2 DEF RankedIndex
<1> QED
  BY <1>3 DEF x

\* Each of the three ways to make an index.
LEMMA BuiltRanks ==
  ASSUME RankInv, FromPaths \/ FromBuildDir \/ FromBitbake
  PROVE  RankInv'
<1>1. world \in Worlds
  BY DEF RankInv
<1>2. world.kept \in SUBSET (DOMAIN world.texts)
  BY <1>1, WorldsAssumption
<1>3. \A f \in BuildFiles : f \in DOMAIN world.texts /\ Below(f, world.build)
  BY <1>1, BuildFilesAre DEF Disk
<1>4. CASE FromPaths
  <2> DEFINE x == FromCanonicalFiles(world.kept, {}, LayerRoots(world.kept))
  <2>1. index' = x /\ stage' = "ready" /\ UNCHANGED world
    BY <1>4 DEF FromPaths, Built
  <2>2. RankedIndex(x, "ready")
    BY <1>1, <1>2, MadeRanks, SourcesAre
  <2> QED
    BY <1>1, <2>1, <2>2, NextRanked DEF RankInv
<1>5. CASE FromBuildDir
  <2> DEFINE inLayers == {f \in Disk : \E root \in world.layers : Below(f, root)}
             all == inLayers \cup BuildFiles
             x == FromCanonicalFiles(all, BuildFiles, world.layers)
  <2>1. index' = x /\ stage' = "ready" /\ UNCHANGED world
    BY <1>5 DEF FromBuildDir, Built
  <2>2. all \in SUBSET (DOMAIN world.texts) /\ BuildFiles \in SUBSET all
    BY <1>3 DEF Disk
  <2> HIDE DEF all
  <2>3. Sources(all, world.layers)
    BY <1>1, <2>2, SourcesAre
  <2>4. RankedIndex(x, "ready")
    BY <1>3, <2>2, <2>3, MadeRanks
  <2> QED
    BY <1>1, <2>1, <2>4, NextRanked DEF RankInv
<1>6. CASE FromBitbake
  <2> DEFINE build == BuildFiles \cap world.kept
             roots == world.layers \cup Range(world.environment.bbpath)
             x == FromCanonicalFiles(world.kept, build, roots)
  <2>1. index' = x /\ stage' = "context" /\ UNCHANGED world
    BY <1>6 DEF FromBitbake, Built
  <2>2. Sources(world.kept, roots)
    BY <1>1, SourcesAre
  <2>3. build \in SUBSET world.kept /\ \A f \in build : Below(f, world.build)
    BY <1>3
  <2> HIDE DEF build, roots
  <2>4. MadeFrom(x, world.kept, build, roots)
    BY <2>2, <2>3, BuiltIs
  <2> HIDE DEF x
  <2>5. /\ Arranged(x) /\ Plain(x) /\ x.files = world.kept /\ x.authoritative = FALSE
        /\ \A root \in roots : \E i \in DOMAIN x.layers : x.layers[i].root = root
        /\ \A i \in DOMAIN x.layers : x.layers[i] = NewLayer(x.layers[i].root, world.kept)
    BY <2>4 DEF MadeFrom
  <2>6. \A i \in DOMAIN x.layers : x.layers[i].priority = OwnPriority(x.layers[i].root)
    BY <2>5, OwnPriorityIs
  <2>7. OwnOrder(x)
    BY <2>5, <2>6 DEF OwnOrder, Plain
  <2>8. HasBbpath(x)
    BY <2>5 DEF HasBbpath, roots, Range
  <2>9. RankedIndex(x, "context")
    BY <1>2, <2>5, <2>7, <2>8 DEF RankedIndex
  <2> QED
    BY <1>1, <2>1, <2>9, NextRanked DEF RankInv
<1> QED
  BY <1>4, <1>5, <1>6

\* BitBake's priority of a layer is that of the collections that tell it.
LEMMA DescribedAsTold ==
  ASSUME world \in Worlds, NEW l, IsLayer(l), l.metadata.bbpath \in Seq(Paths)
  PROVE  /\ Described(l).metadata.bbpath \in Seq(Paths)
         /\ IsComplete(l) /\ Told(l.root) => Described(l).priority = BitBakePriority(l.root)
<1> DEFINE env == world.environment
           places == {k \in DOMAIN env.collections :
                        /\ env.collections[k] \in DOMAIN env.patterns
                        /\ PatternMatches(env.patterns[env.collections[k]], l.root)}
           mine == IF IsComplete(l) THEN At(env.collections, places) ELSE <<>>
           metadata == [collections |-> mine,
                        patterns    |-> Restrict(env.patterns, Range(mine)),
                        priorities  |-> Restrict(env.priorities,
                                                 Range(mine) \cap DOMAIN env.priorities),
                        bbpath      |-> l.metadata.bbpath]
<1>1. Described(l) = [l EXCEPT !.metadata = metadata, !.priority = PriorityOf(metadata)]
  BY DEF Described
<1> HIDE DEF mine
<1>2. /\ metadata.collections = mine /\ metadata.bbpath = l.metadata.bbpath
      /\ metadata.priorities = Restrict(env.priorities, Range(mine) \cap DOMAIN env.priorities)
  OBVIOUS
<1> HIDE DEF metadata
<1>3. Described(l).metadata = metadata /\ Described(l).priority = PriorityOf(metadata)
  <2>1. Described(l) = [root |-> l.root, files |-> l.files, metadata |-> metadata,
                        priority |-> PriorityOf(metadata)]
    BY <1>1 DEF IsLayer
  <2> QED
    BY <2>1
<1>4. ASSUME IsComplete(l), Told(l.root)
      PROVE  PriorityOf(metadata) = BitBakePriority(l.root)
  <2> DEFINE told == Declares(l.root)
             of == {metadata.priorities[c] : c \in Range(mine) \cap DOMAIN metadata.priorities}
  <2>1. /\ told # {} /\ told \subseteq DOMAIN env.priorities
        /\ told \subseteq Range(env.collections)
        /\ {c \in DOMAIN env.patterns : PatternMatches(env.patterns[c], l.root)} = told
    BY <1>4 DEF Told, Declares
  <2>2. PICK n : Length(env.collections, n)
    <3> DEFINE collections == env.collections
    <3>1. collections \in Seq(Range(collections))
      BY WorldsAssumption
    <3> HIDE DEF collections
    <3>2. Len(collections) \in Nat /\ collections = [k \in 1 .. Len(collections) |-> collections[k]]
      BY <3>1
    <3> QED
      BY <3>2 DEF Length, collections
  <2>3. n \in Nat /\ DOMAIN env.collections = 1 .. n
    BY <2>2, LengthIs
  <2>4. places \in SUBSET (1 .. n)
    BY <2>3
  <2>5. mine = At(env.collections, places)
    BY <1>4 DEF mine
  <2>6. \A k \in 1 .. n : k \in places <=> env.collections[k] \in told
    BY <2>1, <2>3
  <2> HIDE DEF places, told, env
  <2>7. PICK m, at : Picks(mine, m, env.collections, places, at)
    BY <2>2, <2>4, <2>5, AtPicks
  <2>8. /\ DOMAIN mine = 1 .. m /\ at \in [1 .. m -> places]
        /\ \A k \in 1 .. m : mine[k] = env.collections[at[k]]
        /\ \A i \in places : \E k \in 1 .. m : at[k] = i
    BY <2>7, LengthIs DEF Picks
  <2>9. Range(mine) = told
    <3>1. ASSUME NEW c \in Range(mine)
          PROVE  c \in told
      <4>1. PICK k \in 1 .. m : c = mine[k]
        BY <2>8 DEF Range
      <4> QED
        BY <2>4, <2>6, <2>8, <4>1
    <3>2. ASSUME NEW c \in told
          PROVE  c \in Range(mine)
      <4>1. PICK i \in 1 .. n : c = env.collections[i]
        BY <2>1, <2>3 DEF Range
      <4>2. PICK k \in 1 .. m : at[k] = i
        BY <2>6, <2>8, <4>1
      <4> QED
        BY <2>8, <4>1, <4>2 DEF Range
    <3> QED
      BY <3>1, <3>2
  <2>10. metadata.priorities = [c \in told |-> env.priorities[c]]
    <3>1. told \cap DOMAIN env.priorities = told
      BY <2>1
    <3> QED
      BY <1>2, <2>9, <3>1 DEF Restrict, env
  <2>11. of = {env.priorities[c] : c \in told}
    BY <2>9, <2>10
  <2>12. of # {}
    BY <2>1, <2>11
  <2>13. PriorityOf(metadata) = Max(of)
    BY <1>2, <2>12 DEF PriorityOf
  <2> QED
    BY <2>11, <2>13 DEF BitBakePriority, told, env
<1> QED
  BY <1>2, <1>3, <1>4

\* BitBake's description changes what the layers say of themselves.
LEMMA ApplyRanks ==
  ASSUME RankInv, ApplyBitbakeContext
  PROVE  RankInv'
<1> DEFINE x == index'
           layers == x.layers
           paths == x.searchPaths
<1>1. stage = "context" /\ stage' = "ready" /\ UNCHANGED world
  BY DEF ApplyBitbakeContext
<1>2. /\ world \in Worlds /\ Arranged(index) /\ index.files \subseteq DOMAIN world.texts
      /\ OwnOrder(index) /\ HasBbpath(index)
  BY <1>1 DEF RankInv, RankedIndex
<1>3. Shaped(index) /\ LayersHold(index)
  BY <1>2 DEF Arranged
<1>4. /\ x.files = index.files /\ x.buildFiles = index.buildFiles /\ x.authoritative = TRUE
      /\ paths = DescribedSearchPaths(layers) /\ Shaped(x) /\ LayersHold(x)
      /\ DOMAIN layers = DOMAIN index.layers
      /\ \A i \in DOMAIN index.layers : /\ layers[i] = Described(index.layers[i])
                                        /\ layers[i].root = index.layers[i].root
  <2>1. Applied(index, x)
    BY <1>3, AppliedIs DEF Shaped
  <2> HIDE DEF x
  <2> QED
    BY <1>3, <2>1, AppliedLayers
<1> HIDE DEF x, layers, paths
<1>5. PICK m \in Nat : DOMAIN index.layers = 1 .. m
  BY <1>2 DEF Arranged, LayersHold
<1>6. DOMAIN layers = 1 .. m
  BY <1>4, <1>5
<1>7. ASSUME NEW i \in 1 .. m
      PROVE  LET l == index.layers[i]
             IN /\ layers[i].root = l.root /\ l.root \in Paths
                /\ layers[i].metadata.bbpath \in Seq(Paths)
                /\ l.root \o LayerConf \in index.files /\ Told(l.root)
                   => layers[i].priority = BitBakePriority(l.root)
  <2> DEFINE l == index.layers[i]
  <2>1. layers[i] = Described(l) /\ layers[i].root = l.root
    BY <1>4, <1>5
  <2>2. /\ IsLayer(l) /\ l.metadata.bbpath \in Seq(Paths) /\ l.root \in Paths
        /\ l.files = {f \in index.files : Below(f, l.root)}
    BY <1>2, <1>5 DEF Arranged, Shaped, LayersHold
  <2> HIDE DEF l
  <2>3. layers[i].metadata.bbpath \in Seq(Paths)
    BY <1>2, <2>1, <2>2, DescribedAsTold
  <2>4. ASSUME l.root \o LayerConf \in index.files, Told(l.root)
        PROVE  layers[i].priority = BitBakePriority(l.root)
    <3>1. Below(l.root \o LayerConf, l.root)
      BY <2>2, BelowLayerConf
    <3>2. IsComplete(l)
      BY <2>2, <2>4, <3>1 DEF IsComplete
    <3> QED
      BY <1>2, <2>1, <2>2, <2>4, <3>2, DescribedAsTold
  <2> QED
    BY <2>1, <2>2, <2>3, <2>4 DEF l
<1>8. Owned(paths, layers)
  <2>1. \A i \in 1 .. m : layers[i].root \in Paths /\ layers[i].metadata.bbpath \in Seq(Paths)
    BY <1>7
  <2>2. CASE world.environment.bbpath = <<>>
    <3>1. paths = BuildSearchPaths(layers)
      BY <1>4, <2>2 DEF DescribedSearchPaths
    <3> QED
      BY <1>6, <2>1, <3>1, BuildSearchPathsAre
  <2>3. CASE world.environment.bbpath # <<>>
    <3>1. \A k \in DOMAIN world.environment.bbpath :
            \E i \in 1 .. m : layers[i].root = world.environment.bbpath[k]
      BY <1>2, <1>5, <1>7 DEF HasBbpath
    <3> QED
      BY <1>2, <1>4, <1>6, <2>1, <2>3, <3>1, BbpathIsSearched
  <2> QED
    BY <2>2, <2>3
<1>9. x.layers = layers /\ x.searchPaths = paths
  BY DEF layers, paths
<1>10. Arranged(x)
  <2>1. ASSUME NEW i \in 1 .. m, NEW j \in 1 .. m, layers[i].root = layers[j].root
        PROVE  i = j
    BY <1>2, <1>5, <1>7, <2>1 DEF Arranged
  <2> QED
    BY <1>2, <1>4, <1>6, <1>7, <1>8, <1>9, <2>1 DEF Arranged
<1>11. OwnOrder(x)
  BY <1>2, <1>5, <1>6, <1>7, <1>9 DEF OwnOrder
<1>12. AsTold(x)
  BY <1>4, <1>6, <1>7, <1>9 DEF AsTold
<1>13. RankedIndex(x, "ready")
  BY <1>2, <1>4, <1>10, <1>11, <1>12 DEF RankedIndex
<1> QED
  BY <1>1, <1>2, <1>13, NextRanked DEF RankInv, x

\* To take files away leaves the layers and the search paths as they are.
LEMMA RetainRanks ==
  ASSUME RankInv, RetainFiles
  PROVE  RankInv'
<1> DEFINE x == index'
<1>1. stage = "ready" /\ UNCHANGED <<world, stage>>
  BY DEF RetainFiles
<1>2. /\ world \in Worlds /\ Arranged(index) /\ index.files \subseteq DOMAIN world.texts
      /\ IF index.authoritative THEN OwnOrder(index) /\ AsTold(index) ELSE Plain(index)
  BY DEF RankInv, RankedIndex
<1>3. Shaped(index) /\ LayersHold(index)
  BY <1>2 DEF Arranged
<1>4. PICK kept : Narrowed(index, kept, x)
  BY <1>3, RetainedIs DEF Shaped
<1> HIDE DEF x
<1>5. /\ x.files = index.files \cap kept /\ x.buildFiles = index.buildFiles \cap kept
      /\ x.authoritative = index.authoritative /\ x.searchPaths = index.searchPaths
      /\ Shaped(x) /\ LayersHold(x) /\ DOMAIN x.layers = DOMAIN index.layers
      /\ \A i \in DOMAIN index.layers :
           /\ x.layers[i].root = index.layers[i].root
           /\ x.layers[i].metadata = index.layers[i].metadata
           /\ x.layers[i].priority = index.layers[i].priority
  BY <1>3, <1>4, NarrowedLayers
<1>6. Owned(x.searchPaths, x.layers)
  <2>1. ASSUME NEW path
        PROVE  Containing(x.layers, path) = Containing(index.layers, path)
    <3>1. {i \in DOMAIN x.layers : Below(path, x.layers[i].root)}
          = {i \in DOMAIN index.layers : Below(path, index.layers[i].root)}
      BY <1>5
    <3> QED
      BY <3>1 DEF Containing
  <2> QED
    BY <1>2, <1>5, <2>1 DEF Arranged, Owned
<1>7. Arranged(x)
  BY <1>2, <1>5, <1>6 DEF Arranged
<1>8. OwnOrder(index) => OwnOrder(x)
  BY <1>5 DEF OwnOrder
<1>9. AsTold(index) => AsTold(x)
  BY <1>5 DEF AsTold
<1>10. Plain(index) => Plain(x)
  <2>1. ByLayers(index.searchPaths, index.layers) => ByLayers(x.searchPaths, x.layers)
    BY <1>5 DEF ByLayers
  <2> QED
    BY <1>5, <2>1 DEF Plain
<1>11. RankedIndex(x, "ready")
  BY <1>2, <1>5, <1>7, <1>8, <1>9, <1>10 DEF RankedIndex
<1> QED
  BY <1>1, <1>2, <1>11, NextRanked DEF RankInv, x

\* The invariant holds at the start and every step keeps it.
LEMMA RankInvariance == Spec => []RankInv
<1>1. Init => RankInv
  <2> SUFFICES ASSUME Init PROVE RankInv
    OBVIOUS
  <2>1. world \in Worlds /\ index = NoIndex /\ stage = "files"
    BY DEF Init
  <2> DEFINE x == NoIndex
  <2>2. /\ x.layers = <<>> /\ x.searchPaths = <<>> /\ x.files = {} /\ x.buildFiles = {}
        /\ x.authoritative = FALSE /\ IsIndex(x)
    BY DEF NoIndex, IsIndex, Index
  <2>3. DOMAIN x.layers = 1 .. 0 /\ DOMAIN x.layers = {} /\ DOMAIN x.searchPaths = {}
        /\ Length(x.searchPaths, 0)
    BY <2>2 DEF Length
  <2> HIDE DEF x
  <2>4. Arranged(x)
    BY <2>2, <2>3 DEF Arranged, Shaped, LayersHold, Owned
  <2>5. Plain(x)
    BY <2>3 DEF Plain, ByLayers
  <2> QED
    BY <2>1, <2>2, <2>4, <2>5 DEF RankInv, RankedIndex, x
<1>2. RankInv /\ [Next]_vars => RankInv'
  <2> SUFFICES ASSUME RankInv, [Next]_vars PROVE RankInv'
    OBVIOUS
  <2>1. CASE FromPaths \/ FromBuildDir \/ FromBitbake
    BY <2>1, BuiltRanks
  <2>2. CASE ApplyBitbakeContext
    BY <2>2, ApplyRanks
  <2>3. CASE RetainFiles
    BY <2>3, RetainRanks
  <2>4. CASE Ask \/ Pop \/ Visit \/ Trace \/ NoCycle \/ UNCHANGED vars
    <3>1. UNCHANGED <<world, index>> /\ (stage' = "context" => stage = "context")
      BY <2>4 DEF Ask, Pop, Visit, Trace, NoCycle, vars
    <3>2. RankedIndex(index', stage')
      BY <3>1 DEF RankInv, RankedIndex
    <3> QED
      BY <3>1, <3>2, NextRanked DEF RankInv
  <2> QED
    BY <2>1, <2>2, <2>3, <2>4 DEF Next
<1> QED
  BY <1>1, <1>2, PTL DEF Spec

\* A candidate is in the layer it names, which is the first one that holds it
\* or the first one that holds the search path it was found under.
LEMMA HolderIs ==
  ASSUME NEW x, Arranged(x), NEW c, Placed(c, x)
  PROVE  \/ /\ c.layer = world.build /\ Below(c.path, world.build)
            /\ \A i \in DOMAIN x.layers : ~Below(c.path, x.layers[i].root)
         \/ \E i \in DOMAIN x.layers :
              /\ HeldBy(c, x, i) /\ Below(c.path, x.layers[i].root)
              /\ \A a \in DOMAIN x.layers :
                   /\ Below(c.path, x.layers[a].root)
                   /\ \A k \in DOMAIN x.searchPaths :
                        Below(c.path, x.searchPaths[k].path)
                        => Below(x.searchPaths[k].path, x.layers[a].root)
                   => i <= a
<1>1. PICK n \in Nat : DOMAIN x.layers = 1 .. n
  BY DEF Arranged, LayersHold
<1>2. /\ x.buildFiles \subseteq x.files
      /\ \A i \in 1 .. n : x.layers[i].files = {f \in x.files : Below(f, x.layers[i].root)}
  BY <1>1 DEF Arranged, LayersHold
<1>3. CASE \E k \in DOMAIN x.searchPaths : SearchedAt(c, x, k, c.scope)
  <2>1. PICK k \in DOMAIN x.searchPaths : SearchedAt(c, x, k, c.scope)
    BY <1>3
  <2> DEFINE path == x.searchPaths[k].path
             i == x.searchPaths[k].layer
  <2>2. /\ HeldBy(c, x, i) /\ Below(c.path, path) /\ i \in 1 .. n
        /\ Containing(x.layers, path) # 0 => i = Containing(x.layers, path)
    BY <1>1, <2>1 DEF SearchedAt, Arranged, Owned
  <2>3. Below(c.path, x.layers[i].root)
    BY <1>2, <2>2 DEF HeldBy
  <2> HIDE DEF path, i
  <2>4. ASSUME NEW a \in 1 .. n, Below(path, x.layers[a].root)
        PROVE  i <= a
    <3> DEFINE S == {j \in 1 .. n : Below(path, x.layers[j].root)}
    <3>1. Containing(x.layers, path) = First(S) /\ S \in SUBSET (1 .. n) /\ a \in S
      BY <1>1, <2>4 DEF Containing
    <3> HIDE DEF S
    <3>2. First(S) # 0 /\ \A j \in S : First(S) <= j
      BY <3>1, FirstIs
    <3> QED
      BY <2>2, <3>1, <3>2
  <2> QED
    BY <1>1, <2>1, <2>2, <2>3, <2>4 DEF path
<1>4. CASE \E i \in DOMAIN x.layers :
             HeldBy(c, x, i) /\ \A j \in DOMAIN x.layers : j < i => c.path \notin x.layers[j].files
  <2>1. PICK i \in 1 .. n :
          HeldBy(c, x, i) /\ \A j \in 1 .. n : j < i => c.path \notin x.layers[j].files
    BY <1>1, <1>4
  <2>2. c.path \in x.files /\ Below(c.path, x.layers[i].root)
    BY <1>2, <2>1 DEF HeldBy
  <2>3. ASSUME NEW a \in 1 .. n, Below(c.path, x.layers[a].root)
        PROVE  i <= a
    <3>1. c.path \in x.layers[a].files
      BY <1>2, <2>2, <2>3
    <3> QED
      BY <2>1, <3>1
  <2> QED
    BY <1>1, <2>1, <2>2, <2>3
<1>5. CASE /\ c.layer = world.build /\ c.path \in x.buildFiles
           /\ \A i \in DOMAIN x.layers : c.path \notin x.layers[i].files
  BY <1>1, <1>2, <1>5 DEF Arranged
<1> QED
  BY <1>3, <1>4, <1>5 DEF Placed

\* Every candidate that is asked for is placed.
LEMMA CandidatesArePlaced ==
  ASSUME RankInv, NEW c \in AllCandidates
  PROVE  Placed(c, index)
<1>1. PICK from \in index.files :
        \E reference \in world.texts[from], context \in ContextsFor(from) :
          c \in Range(CandidatesFor(index, from, reference, context))
  BY DEF AllCandidates
<1>2. PICK reference \in world.texts[from], context \in ContextsFor(from) :
        c \in Range(CandidatesFor(index, from, reference, context))
  BY <1>1
<1>3. world \in Worlds /\ Arranged(index) /\ from \in DOMAIN world.texts
  BY DEF RankInv, RankedIndex
<1>4. reference \in References
  BY <1>2, <1>3, WorldsAssumption
<1> DEFINE u == CandidatesFor(index, from, reference, context)
<1>5. PICK m : Follow(u, m, index)
  BY <1>3, <1>4, CandidatesFollow
<1> HIDE DEF u
<1>6. DOMAIN u = 1 .. m
  BY <1>5, LengthIs DEF Follow
<1>7. PICK i \in 1 .. m : c = u[i]
  BY <1>2, <1>6 DEF Range, u
<1> QED
  BY <1>5, <1>7 DEF Follow

\* The first part: what BitBake told ranks a candidate.
LEMMA RankedByBitBakeHolds ==
  ASSUME RankInv
  PROVE  RankedByBitBake
<1> SUFFICES ASSUME index.authoritative, NEW c \in AllCandidates
             PROVE  /\ c.layer \in Roots /\ c.layer \o LayerConf \in index.files /\ Told(c.layer)
                       => c.priority = BitBakePriority(c.layer)
                    /\ \A layer \in Roots :
                         Outranks(layer, c.path) /\ SearchedWithin(layer, c.path)
                         => c.layer = layer
  BY DEF RankedByBitBake
<1> DEFINE layers == index.layers
<1>1. Arranged(index) /\ OwnOrder(index) /\ AsTold(index) /\ world \in Worlds
  BY DEF RankInv, RankedIndex
<1>2. PICK n \in Nat : DOMAIN layers = 1 .. n
  BY <1>1 DEF Arranged, LayersHold
<1>3. Placed(c, index)
  BY CandidatesArePlaced
<1>4. Roots = {layers[i].root : i \in 1 .. n}
  BY <1>2 DEF Roots
<1>5. CASE /\ c.layer = world.build /\ Below(c.path, world.build)
           /\ \A i \in 1 .. n : ~Below(c.path, layers[i].root)
  <2>1. \A layer \in Roots : ~Below(c.path, layer)
    BY <1>4, <1>5
  <2> QED
    BY <1>5, <2>1 DEF Outranks
<1>6. CASE \E i \in 1 .. n :
             /\ HeldBy(c, index, i) /\ Below(c.path, layers[i].root)
             /\ \A a \in 1 .. n :
                  /\ Below(c.path, layers[a].root)
                  /\ \A k \in DOMAIN index.searchPaths :
                       Below(c.path, index.searchPaths[k].path)
                       => Below(index.searchPaths[k].path, layers[a].root)
                  => i <= a
  <2>1. PICK i \in 1 .. n :
             /\ HeldBy(c, index, i) /\ Below(c.path, layers[i].root)
             /\ \A a \in 1 .. n :
                  /\ Below(c.path, layers[a].root)
                  /\ \A k \in DOMAIN index.searchPaths :
                       Below(c.path, index.searchPaths[k].path)
                       => Below(index.searchPaths[k].path, layers[a].root)
                  => i <= a
    BY <1>6
  <2>2. c.layer = layers[i].root /\ c.priority = layers[i].priority
    BY <2>1 DEF HeldBy
  <2>3. /\ c.layer \o LayerConf \in index.files /\ Told(c.layer)
        => c.priority = BitBakePriority(c.layer)
    BY <1>1, <1>2, <2>2 DEF AsTold
  <2>4. ASSUME NEW layer \in Roots, Outranks(layer, c.path), SearchedWithin(layer, c.path)
        PROVE  c.layer = layer
    <3>1. PICK a \in 1 .. n : layer = layers[a].root
      BY <1>4
    <3>2. Below(c.path, layers[a].root)
      BY <2>4, <3>1 DEF Outranks
    <3>3. i <= a
      BY <2>1, <2>4, <3>1, <3>2 DEF SearchedWithin
    <3>4. CASE i = a
      BY <2>2, <3>1, <3>4
    <3>5. CASE i < a
      <4>1. OwnPriority(layers[i].root) >= OwnPriority(layers[a].root)
        BY <1>1, <1>2, <3>5 DEF OwnOrder
      <4>2. OwnPriority(layers[i].root) \in Int /\ OwnPriority(layers[a].root) \in Int
        BY <1>1, <1>2 DEF OwnOrder
      <4>3. layers[i].root \in Roots
        BY <1>4
      <4>4. SUFFICES ASSUME layers[i].root # layer PROVE FALSE
        BY <2>2
      <4>5. OwnPriority(layer) > OwnPriority(layers[i].root)
        BY <2>1, <2>4, <4>3, <4>4 DEF Outranks
      <4> QED
        BY <3>1, <4>1, <4>2, <4>5
    <3> QED
      BY <3>3, <3>4, <3>5
  <2> QED
    BY <2>3, <2>4
<1> QED
  BY <1>1, <1>2, <1>3, <1>5, <1>6, HolderIs

\* The second part: without BitBake the search paths follow the layers.
LEMMA RankedByLayersHolds ==
  ASSUME RankInv
  PROVE  RankedByLayers
<1> SUFFICES ASSUME ~index.authoritative,
                    \A i \in DOMAIN index.layers :
                      Range(index.layers[i].metadata.bbpath) \subseteq {index.layers[i].root},
                    NEW from \in index.files, NEW reference \in world.texts[from],
                    NEW context \in ContextsFor(from)
             PROVE  LET candidates == CandidatesFor(index, from, reference, context)
                    IN \A i, j \in DOMAIN candidates :
                         /\ i < j /\ candidates[i].scope = candidates[j].scope
                         /\ InOneLayer(candidates[i].path) /\ InOneLayer(candidates[j].path)
                         => candidates[i].priority >= candidates[j].priority
  BY DEF RankedByLayers
<1> DEFINE layers == index.layers
           paths == index.searchPaths
           u == CandidatesFor(index, from, reference, context)
<1>1. /\ Arranged(index) /\ Plain(index) /\ world \in Worlds /\ from \in DOMAIN world.texts
      /\ ByLayers(paths, layers)
  BY DEF RankInv, RankedIndex, Plain
<1>2. reference \in References
  BY <1>1, WorldsAssumption
<1>3. PICK m : Follow(u, m, index)
  BY <1>1, <1>2, CandidatesFollow
<1> HIDE DEF u
<1>4. DOMAIN u = 1 .. m
  BY <1>3, LengthIs DEF Follow
<1>5. ASSUME NEW c, NEW k \in DOMAIN paths, SearchedAt(c, index, k, c.scope),
             InOneLayer(c.path), NEW a \in DOMAIN layers, paths[k].path = layers[a].root
      PROVE  c.priority = layers[a].priority
  <2> DEFINE i == paths[k].layer
  <2>1. i \in DOMAIN layers /\ HeldBy(c, index, i) /\ Below(c.path, layers[a].root)
    BY <1>1, <1>5 DEF SearchedAt, Arranged, Owned
  <2>2. Below(c.path, layers[i].root)
    BY <1>1, <2>1 DEF HeldBy, Arranged, LayersHold
  <2>3. layers[i].root \in Roots /\ layers[a].root \in Roots
    BY <1>5, <2>1 DEF Roots
  <2>4. layers[i].root = layers[a].root
    BY <1>5, <2>1, <2>2, <2>3 DEF InOneLayer
  <2>5. i = a
    BY <1>1, <1>5, <2>1, <2>4 DEF Arranged
  <2> QED
    BY <2>1, <2>5 DEF HeldBy
<1>6. ASSUME NEW i \in DOMAIN u, NEW j \in DOMAIN u, i < j, u[i].scope = u[j].scope,
             InOneLayer(u[i].path), InOneLayer(u[j].path)
      PROVE  u[i].priority >= u[j].priority
  <2>1. PICK k \in DOMAIN paths, l \in DOMAIN paths :
          k < l /\ SearchedAt(u[i], index, k, u[i].scope) /\ SearchedAt(u[j], index, l, u[j].scope)
    BY <1>3, <1>4, <1>6 DEF Follow
  <2>2. PICK a \in DOMAIN layers, b \in DOMAIN layers :
          a <= b /\ paths[k].path = layers[a].root /\ paths[l].path = layers[b].root
    BY <1>1, <2>1 DEF ByLayers
  <2>3. u[i].priority = layers[a].priority /\ u[j].priority = layers[b].priority
    BY <1>5, <1>6, <2>1, <2>2
  <2>4. layers[a].priority \in Int /\ layers[b].priority \in Int
        /\ (a < b => layers[a].priority >= layers[b].priority)
    BY <1>1, <2>2 DEF Plain
  <2>5. a = b \/ a < b
    <3>1. PICK n \in Nat : DOMAIN layers = 1 .. n
      BY <1>1 DEF Arranged, LayersHold
    <3> QED
      BY <2>2, <3>1
  <2> QED
    BY <2>3, <2>4, <2>5
<1> QED
  BY <1>6 DEF u

\* With BitBake's context a candidate is ranked as BitBake ranks its layer, and
\* comes from the layer whose own file ranks highest; without it candidates of
\* one scope come in the order of their priorities.
THEOREM CandidatesAreRanked == Spec => []Ranked
<1>1. RankInv => Ranked
  BY RankedByBitBakeHolds, RankedByLayersHolds DEF Ranked
<1> QED
  BY <1>1, RankInvariance, PTL

=============================================================================
