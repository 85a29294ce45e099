--------------------------- MODULE WorkflowProofs ---------------------------
(***************************************************************************)
(* The run loop implements Workflow: every step of Scheduler is, under the *)
(* mapping of SchedulerProps, a step of the abstract specification or none *)
(* of its.  What has to be proved is that the graph's edges, with all that *)
(* splicing adds, order exactly what the IR declares in order.             *)
(***************************************************************************)
EXTENDS FailureProofs

-----------------------------------------------------------------------------
(* The declared order                                                      *)

\* A node or an item stands for nodes, for itself among them, and for whatever
\* is inside one of them.
LEMMA WithinFacts ==
  ASSUME NEW x \in Node \cup Inst
  PROVE  /\ Within(x) \subseteq Node
         /\ x \in Node => x \in Within(x) /\ x \notin Inst
         /\ \A m, k \in Node : m \in Within(x) /\ <<m, k>> \in Inside => k \in Within(x)
<1>1. x \in Node => x \notin Inst
  BY InstAssumption
<1>2. CASE x \in Inst
  <2>1. Within(x) = Below(x) \cup {p[2] : p \in {q \in Inside : q[1] \in Below(x)}}
    BY <1>2 DEF Within, InsideInst
  <2>2. \A k \in Node : k \in Within(x) <=>
                          k \in Below(x) \/ \E c \in Below(x) : <<c, k>> \in Inside
    <3>1. ASSUME NEW k \in Node, NEW c \in Below(x), <<c, k>> \in Inside PROVE k \in Within(x)
      BY <3>1, <2>1
    <3>2. ASSUME NEW k \in Node, k \in Within(x), k \notin Below(x)
          PROVE  \E c \in Below(x) : <<c, k>> \in Inside
      <4>1. PICK q \in Inside : q[1] \in Below(x) /\ q[2] = k
        BY <3>2, <2>1
      <4>2. q = <<q[1], q[2]>>
        BY <4>1, InsideFacts
      <4> QED
        BY <4>1, <4>2
    <3> QED
      BY <3>1, <3>2, <2>1
  <2>3. Within(x) \subseteq Node
    BY <2>1, InsideFacts DEF Below
  <2>4. Below(x) \subseteq Node
    BY DEF Below
  <2>5. ASSUME NEW m \in Node, NEW k \in Node, m \in Within(x), <<m, k>> \in Inside
        PROVE  k \in Within(x)
    BY <2>2, <2>4, <2>5, InsideFacts
  <2> QED
    BY <1>1, <1>2, <2>3, <2>5
<1>3. CASE x \notin Inst
  <2>1. x \in Node /\ Within(x) = {x} \cup {m \in Node : <<x, m>> \in Inside}
    BY <1>3 DEF Within
  <2> QED
    BY <1>1, <2>1, InsideFacts
<1> QED
  BY <1>2, <1>3

\* What it means for a node to come before another.
LEMMA OrderFacts ==
  /\ Order \in SUBSET (Node \X Node) /\ Gate \in SUBSET (Node \X Node)
  /\ \A a, b \in Node : <<a, b>> \in Order <=>
       \/ b \in Members(a)
       \/ \E e \in Decl \cup Cond \cup InstDeps : a \in Within(e[1]) /\ b \in Within(e[2])
  /\ \A a, b \in Node : <<a, b>> \in Gate <=> b \in Members(a)
<1>1. \A e \in Decl \cup Cond \cup InstDeps :
         e[1] \in Node \cup Inst /\ e[2] \in Node \cup Inst
  BY EdgeAssumption, ShapeAssumption
<1>2. \A e \in Decl \cup Cond \cup InstDeps :
         Within(e[1]) \subseteq Node /\ Within(e[2]) \subseteq Node
  BY <1>1, WithinFacts
<1>3. Gate \in SUBSET (Node \X Node) /\ \A a, b \in Node : <<a, b>> \in Gate <=> b \in Members(a)
  BY DEF Gate
<1>4. Order \in SUBSET (Node \X Node)
  BY <1>2, <1>3 DEF Order
<1>5. \A a, b \in Node : <<a, b>> \in Order <=>
         \/ <<a, b>> \in Gate
         \/ \E e \in Decl \cup Cond \cup InstDeps : a \in Within(e[1]) /\ b \in Within(e[2])
  BY DEF Order
<1> QED
  BY <1>3, <1>4, <1>5

\* What comes before or after comes so with all that is inside of it; what comes
\* after a generate node comes after the instances.
LEMMA OrderInherits ==
  ASSUME NEW g \in Node, g \notin Subs, NEW a \in Node, <<g, a>> \in Inside,
         NEW d \in Node, <<g, d>> \in Order
  PROVE  <<a, d>> \in Order
<1>1. d \notin Members(g)
  BY DEF Members
<1>2. PICK e \in Decl \cup Cond \cup InstDeps : g \in Within(e[1]) /\ d \in Within(e[2])
  BY <1>1, OrderFacts
<1>3. e[1] \in Node \cup Inst
  BY EdgeAssumption, ShapeAssumption
<1>4. a \in Within(e[1])
  BY <1>2, <1>3, WithinFacts
<1> QED
  BY <1>2, <1>4, OrderFacts

-----------------------------------------------------------------------------
(* Every edge is in the declared order                                     *)

\* addLevel's edges.
LEMMA LevelOrdered ==
  ASSUME NEW r \in Roots
  PROVE  AddLevel(r) \subseteq Order
<1> SUFFICES ASSUME NEW e \in AddLevel(r) PROVE e \in Order
  OBVIOUS
<1>1. e[1] \in Node /\ e[2] \in Node /\ e = <<e[1], e[2]>>
  BY AddLevelInto DEF Below
<1>2. CASE e \in Decl \cup Cond
  <2>1. e[1] \in Within(e[1]) /\ e[2] \in Within(e[2])
    BY <1>1, WithinFacts
  <2> QED
    BY <2>1, <1>1, <1>2, OrderFacts
<1>3. CASE e[1] \in Subs /\ e[2] \in LevelSources(e[1])
  <2>1. LevelOf(e[2]) = e[1]
    BY <1>3 DEF LevelSources, NodesOf
  <2>2. e[2] \in Members(e[1])
    BY <2>1, <1>1, <1>3, PathFacts DEF Members, Below, LevelOf
  <2> QED
    BY <2>2, <1>1, OrderFacts
<1>4. CASE \E s \in Subs \cap Below(r) : <<s, e[2]>> \in Decl /\ e[1] \in DeepSinks(s)
  <2>1. PICK s \in Subs : <<s, e[2]>> \in Decl /\ e[1] \in DeepSinks(s)
    BY <1>4
  <2>2. e[1] \in Members(s) /\ s \in Node
    BY <2>1 DEF DeepSinks, Members, Subs
  <2>3. <<s, e[1]>> \in Inside
    <3>1. <<s, e[1]>> \in HoldsDirectly
      BY <2>2, <1>1, HoldsFacts
    <3> QED
      BY <3>1, HoldsFacts, ClosureFacts
  <2>4. e[1] \in Within(s) /\ e[2] \in Within(e[2])
    BY <2>2, <2>3, <1>1, WithinFacts
  <2>5. <<s, e[2]>>[1] = s /\ <<s, e[2]>>[2] = e[2]
    OBVIOUS
  <2> QED
    BY <2>1, <2>4, <2>5, <1>1, OrderFacts
<1> QED
  BY <1>2, <1>3, <1>4 DEF AddLevel

\* applyExpansion's: what the generate node was before, its instances are before.
LEMMA SpliceOrdered ==
  ASSUME NEW n \in Node, NEW is, is \subseteq {i \in Inst : InstGen[i] = n},
         edge \subseteq Order
  PROVE  SpliceEdges(n, is, edge) \subseteq Order
<1> SUFFICES ASSUME NEW e \in SpliceEdges(n, is, edge) PROVE e \in Order
  OBVIOUS
<1>1. /\ e = <<e[1], e[2]>> /\ e[1] \in Node /\ e[2] \in Node
      /\ \/ \E i \in is : e \in AddLevel(i) /\ e[1] \in Below(i) /\ e[2] \in Below(i)
         \/ \E j, k \in is : /\ <<j, k>> \in InstDeps
                             /\ e[1] \in Below(j) /\ e[1] \in DeepSinks(j)
                             /\ e[2] \in Below(k) /\ e[2] \in LevelSources(k)
         \/ \E i \in is : e[1] \in Below(i) /\ e[1] \in DeepSinks(i) /\ <<n, e[2]>> \in edge
  BY SpliceKinds
<1>2. ASSUME NEW i \in is
      PROVE  i \in Roots /\ i \in Inst /\ InstGen[i] = n /\ Below(i) \subseteq Within(i)
  BY DEF Roots, Within, InsideInst
<1>3. CASE \E i \in is : e \in AddLevel(i)
  BY <1>2, <1>3, LevelOrdered
<1>4. CASE \E j, k \in is : /\ <<j, k>> \in InstDeps /\ e[1] \in Below(j) /\ e[2] \in Below(k)
  <2>1. PICK j, k \in is : /\ <<j, k>> \in InstDeps /\ e[1] \in Below(j) /\ e[2] \in Below(k)
    BY <1>4
  <2>2. /\ e[1] \in Within(<<j, k>>[1]) /\ e[2] \in Within(<<j, k>>[2])
    BY <2>1, <1>2
  <2> QED
    BY <2>1, <2>2, <1>1, OrderFacts
<1>5. CASE \E i \in is : e[1] \in Below(i) /\ <<n, e[2]>> \in edge
  <2>1. PICK i \in is : e[1] \in Below(i) /\ <<n, e[2]>> \in edge
    BY <1>5
  <2>2. n \notin Subs /\ Path[e[1]][1] = i
    BY <2>1, <1>2, InstAssumption, RootBelow DEF Subs
  <2>3. <<n, e[1]>> \in Inside
    <3>1. <<n, e[1]>> \in HoldsDirectly
      BY <2>2, <1>1, <1>2, HoldsFacts
    <3> QED
      BY <3>1, HoldsFacts, ClosureFacts
  <2> QED
    BY <2>1, <2>2, <2>3, <1>1, OrderInherits
<1> QED
  BY <1>1, <1>3, <1>4, <1>5

-----------------------------------------------------------------------------
(* The graph orders what is declared in order                              *)

\* The edges lead to every node under a root from one of the root's sources.
LEMMA BelowStarts ==
  ASSUME NEW lf, NEW ed, NEW ind, GraphInv(lf, ed, ind), Acyclic(ed),
         NEW r \in Roots, NEW k \in Below(r), lf[k] # "absent"
  PROVE  \E y \in LevelSources(r) : lf[y] # "absent" /\ (y = k \/ <<y, k>> \in Closure(ed))
<1> DEFINE c == Closure(ed)
           T == {m \in Below(r) : m = k \/ <<m, k>> \in c}
<1>1. /\ ed \in SUBSET (Node \X Node) /\ Wired(lf, ed) /\ Together(lf)
      /\ Below(r) = {m \in Node : Path[m][1] = r} /\ k \in Node
  BY RootBelow DEF GraphInv, Below
<1>2. ed \subseteq c /\ \A a, b, d \in Node : <<a, b>> \in c /\ <<b, d>> \in c => <<a, d>> \in c
  BY <1>1, ClosureFacts
<1> HIDE DEF c
<1>3. k \in T /\ T \in SUBSET Node
  BY <1>1
<1>4. PICK m \in T : \A p \in T : <<p, m>> \notin ed
  <2> HIDE DEF T
  <2> QED
    BY <1>3 DEF Acyclic
<1>5. m \in Node /\ m \in Below(r) /\ Path[m][1] = r /\ (m = k \/ <<m, k>> \in c)
  BY <1>1, <1>4
<1>6. lf[m] # "absent"
  BY <1>1, <1>5 DEF Together
<1>7. \A p \in Node : <<p, m>> \in ed => Path[p][1] # r
  <2>1. ASSUME NEW p \in Node, <<p, m>> \in ed, Path[p][1] = r PROVE FALSE
    <3>1. <<p, k>> \in c
      BY <2>1, <1>1, <1>2, <1>5
    <3> QED
      BY <3>1, <2>1, <1>1, <1>4
  <2> QED
    BY <2>1
<1>8. m \in LevelSources(LevelOf(m))
  <2>1. CASE m \notin LevelSources(LevelOf(m))
    <3>1. PICK e \in Decl \cup Cond : e[2] = m
      BY <1>5, <2>1, NotASource
    <3>2. e = <<e[1], m>> /\ e[1] \in Node /\ Path[e[1]][1] = r
      BY <3>1, <1>5, SameLevel
    <3>3. e \in ed
      BY <3>1, <1>1, <1>5, <1>6 DEF Wired
    <3> QED
      BY <3>2, <3>3, <1>7
  <2> QED
    BY <2>1
<1>9. LevelOf(m) \in Roots
  <2>1. CASE LevelOf(m) \in Subs /\ m \in Members(LevelOf(m))
    <3>1. <<LevelOf(m), m>> \in ed
      BY <2>1, <1>1, <1>5, <1>6, <1>8 DEF Wired
    <3>2. Path[LevelOf(m)][1] = r
      BY <2>1, <1>5, MembersRoot
    <3> QED
      BY <3>1, <3>2, <2>1, <1>7 DEF Subs
  <2> QED
    BY <2>1, <1>5, LevelFacts
<1>10. LevelOf(m) = r
  <2>1. LevelOf(m) \notin Subs
    BY <1>9, NodeAssumption, InstAssumption DEF Roots, Subs
  <2>2. Len(Path[m]) \notin 2..Len(Path[m])
    BY <2>1, <1>5, PathFacts DEF LevelOf
  <2>3. Len(Path[m]) = 1
    <3> DEFINE len == Len(Path[m])
    <3>1. len \in Nat \ {0} /\ len \notin 2..len
      BY <2>2, <1>5, PathFacts
    <3> HIDE DEF len
    <3>2. len = 1
      BY <3>1
    <3> QED
      BY <3>2 DEF len
  <2> QED
    BY <2>3, <1>5 DEF LevelOf
<1> QED
  BY <1>5, <1>6, <1>8, <1>10 DEF c

\* The edges lead into what is inside a node, or it is past the node: instances
\* join a run whose generate node ended ok.
LEMMA InsideFollows ==
  ASSUME AfterInv, NEW y \in Node, NEW b \in Node, <<y, b>> \in Inside, life[b] # "absent"
  PROVE  <<y, b>> \in Closure(edge) \/ Clear(life, edge, status, y)
<1>1. /\ GraphInv(life, edge, indeg) /\ Acyclic(edge) /\ Together(life) /\ Fresh(life)
      /\ Settled(life, status) /\ Expanded(life, status) /\ life \in [Node -> Lives]
  BY DEF AfterInv, FailRunInv, RunInv, IInv, Readiness, Sound, FailInv, GraphInv
<1>2. CASE y \in Subs /\ b \in Members(y)
  <2>1. life[y] # "absent"
    BY <1>1, InsidePresent
  <2> QED
    BY <2>1, <1>1, <1>2, MembersReached
<1>3. CASE Path[b][1] \in Inst
  <2> DEFINE g == InstGen[Path[b][1]]
  <2>1. g \in Node /\ status[g] = "ok"
    BY <1>1, <1>3, InstAssumption DEF Expanded
  <2> HIDE DEF g
  <2>2. life[g] = "done" /\ g \notin Stopped(status, edge)
    BY <2>1, <1>1, StoppedFacts DEF Settled, Skips
  <2>3. Clear(life, edge, status, g)
    BY <2>2 DEF Clear
  <2>4. y = g \/ <<y, g>> \in Inside \/ (y \in Subs /\ b \in Members(y))
    BY InsideFacts DEF g
  <2> QED
    BY <2>1, <2>3, <2>4, <1>2, ClearOutside
<1> QED
  BY <1>2, <1>3, InsideFacts

\* So it is for an item, and one of its sources.
LEMMA ItemFollows ==
  ASSUME AfterInv, NEW i \in Inst, NEW b \in InsideInst(i), life[b] # "absent"
  PROVE  \E y \in LevelSources(i) :
           /\ y \in Node /\ life[y] # "absent"
           /\ y = b \/ <<y, b>> \in Closure(edge) \/ Clear(life, edge, status, y)
<1>1. /\ GraphInv(life, edge, indeg) /\ Acyclic(edge) /\ Ready(life, edge)
      /\ Together(life) /\ Fresh(life)
      /\ FailInv(life, edge, status) /\ life \in [Node -> Lives]
      /\ edge \in SUBSET (Node \X Node)
  BY DEF AfterInv, FailRunInv, RunInv, IInv, Readiness, Sound, GraphInv
<1>2. /\ b \in Node
      /\ \E c \in Below(i) : (c = b \/ <<c, b>> \in Inside) /\ life[c] # "absent"
  BY <1>1, ItemPresent
<1>3. PICK c \in Below(i) : (c = b \/ <<c, b>> \in Inside) /\ life[c] # "absent"
  BY <1>2
<1>4. i \in Roots /\ c \in Node
  BY DEF Roots, Below
<1>5. PICK y \in LevelSources(i) : life[y] # "absent" /\ (y = c \/ <<y, c>> \in Closure(edge))
  BY <1>1, <1>3, <1>4, BelowStarts
<1>6. y \in Node
  BY DEF LevelSources, NodesOf
<1>7. c = b \/ <<c, b>> \in Closure(edge) \/ Clear(life, edge, status, c)
  BY <1>2, <1>3, <1>4, InsideFollows
<1>8. CASE <<c, b>> \in Closure(edge)
  <2>1. y = c \/ <<y, b>> \in Closure(edge)
    BY <1>1, <1>2, <1>4, <1>5, <1>6, <1>8, ClosureFacts
  <2> QED
    BY <2>1, <1>5, <1>6, <1>8
<1>9. CASE Clear(life, edge, status, c)
  <2>1. y = c \/ Clear(life, edge, status, y)
    BY <1>1, <1>4, <1>5, <1>6, <1>9, ClearUpstream
  <2> QED
    BY <2>1, <1>5, <1>6, <1>9
<1> QED
  BY <1>5, <1>6, <1>7, <1>8, <1>9

\* What is before a node that was released and is no part of a cascade settled,
\* and let it go on.
LEMMA ClearAfter ==
  ASSUME AfterInv, NEW a \in Node, NEW y \in Node, <<a, y>> \in Closure(edge),
         Clear(life, edge, status, y)
  PROVE  life[a] = "done" /\ status[a] \notin {"failed", "halted"}
<1>1. /\ edge \in SUBSET (Node \X Node) /\ life \in [Node -> Lives]
      /\ FailInv(life, edge, status) /\ Ready(life, edge)
  BY DEF AfterInv, FailRunInv, RunInv, IInv, Readiness, Sound, GraphInv
<1>2. life[a] = "done"
  BY <1>1, ClearUpstream
<1>3. status[a] \notin {"failed", "halted"}
  BY <1>1, DownstreamStops DEF Clear
<1> QED
  BY <1>2, <1>3

\* Of two nodes that are there and declared in order, the graph has the first
\* before the second, or the first settled and let go on what is after it.
LEMMA OrderMeets ==
  ASSUME AfterInv, NEW a \in Node, NEW b \in Node, <<a, b>> \in Order,
         life[a] # "absent", life[b] # "absent"
  PROVE  \/ <<a, b>> \in Closure(edge)
         \/ life[a] = "done" /\ status[a] \notin {"failed", "halted"}
<1>1. /\ GraphInv(life, edge, indeg) /\ Acyclic(edge) /\ Together(life) /\ Fresh(life)
      /\ Wired(life, edge) /\ Linked(life, edge) /\ life \in [Node -> Lives]
      /\ edge \in SUBSET (Node \X Node)
  BY DEF AfterInv, FailRunInv, RunInv, IInv, Readiness, Sound, GraphInv
<1>2. ASSUME NEW y \in Node, <<a, y>> \in Closure(edge),
             y = b \/ <<y, b>> \in Closure(edge) \/ Clear(life, edge, status, y)
      PROVE  \/ <<a, b>> \in Closure(edge)
             \/ life[a] = "done" /\ status[a] \notin {"failed", "halted"}
  BY <1>1, <1>2, ClosureFacts, ClearAfter
<1>3. CASE b \in Members(a)
  <2>1. a \in Subs
    BY <1>3 DEF Members
  <2> QED
    BY <2>1, <1>1, <1>3, MembersReached
<1>4. ASSUME NEW e \in Decl \cup Cond, a \in Within(e[1]), b \in Within(e[2])
      PROVE  \E y \in Node : /\ <<a, y>> \in Closure(edge)
                             /\ y = b \/ <<y, b>> \in Closure(edge) \/ Clear(life, edge, status, y)
  <2>1. e[1] \in Node /\ e[2] \in Node /\ e = <<e[1], e[2]>>
    BY SameLevel
  <2>2. /\ a = e[1] \/ <<e[1], a>> \in Inside
        /\ b = e[2] \/ <<e[2], b>> \in Inside
    BY <2>1, <1>4, InstAssumption DEF Within
  <2>3. life[e[2]] # "absent"
    BY <2>1, <2>2, <1>1, InsidePresent
  <2>4. <<a, e[2]>> \in Closure(edge)
    <3>1. CASE a = e[1]
      <4>1. e \in edge
        BY <2>1, <2>3, <1>1 DEF Wired
      <4> QED
        BY <4>1, <3>1, <2>1, <1>1, ClosureFacts
    <3>2. CASE <<e[1], a>> \in Inside
      <4>1. Follows(a, e[2])
        BY <3>2, <2>1 DEF Follows
      <4> QED
        BY <4>1, <2>1, <2>3, <1>1 DEF Linked
    <3> QED
      BY <3>1, <3>2, <2>2
  <2>5. e[2] = b \/ <<e[2], b>> \in Closure(edge) \/ Clear(life, edge, status, e[2])
    BY <2>1, <2>2, InsideFollows
  <2> QED
    BY <2>1, <2>4, <2>5
<1>5. ASSUME NEW e \in InstDeps, a \in Within(e[1]), b \in Within(e[2])
      PROVE  \E y \in Node : /\ <<a, y>> \in Closure(edge)
                             /\ y = b \/ <<y, b>> \in Closure(edge) \/ Clear(life, edge, status, y)
  <2>1. /\ e[1] \in Inst /\ e[2] \in Inst
        /\ a \in InsideInst(e[1]) /\ b \in InsideInst(e[2])
    BY <1>5, ShapeAssumption DEF Within
  <2>2. PICK y \in LevelSources(e[2]) :
           /\ y \in Node /\ life[y] # "absent"
           /\ y = b \/ <<y, b>> \in Closure(edge) \/ Clear(life, edge, status, y)
    BY <2>1, ItemFollows
  <2>3. Follows(a, y)
    BY <2>1, <2>2 DEF Follows
  <2> QED
    BY <2>2, <2>3, <1>1 DEF Linked
<1> QED
  BY <1>2, <1>3, <1>4, <1>5, OrderFacts

-----------------------------------------------------------------------------
(* The mapping                                                             *)

\* The invariant the mapping needs: the edges are in the declared order, a node
\* that waits for its pools has its inputs, and what the loop's position says of
\* the flags.
Fed == \A n \in Node : life[n] = "slotwait" => \A s \in DataSources(n) : status[s] = "ok"

Flags ==
  /\ pc = "grant" => ~fatal
  /\ runEnd = "none" <=> pc # "exit"

FlowInv == AfterInv /\ edge \subseteq Order /\ Fed /\ Flags

\* A released node is ready.
LEMMA ReadyMaps ==
  ASSUME FlowInv, NEW n \in Node, life[n] \in {"queued", "slotwait"}
  PROVE  Flow!Ready(n)
<1>1. /\ GraphInv(life, edge, indeg) /\ Acyclic(edge) /\ Together(life) /\ Enclosed(life)
      /\ Settled(life, status) /\ EntrySkips(life, status) /\ life \in [Node -> Lives]
      /\ status \in [Node -> Terminal \cup {"none"}]
  BY DEF FlowInv, AfterInv, FailRunInv, RunInv, IInv, TypeOK, Readiness, Sound, FailInv, GraphInv
<1>2. status[n] = "none"
  BY <1>1 DEF Settled
<1>3. Clear(life, edge, status, n)
  BY <1>2, StoppedFacts DEF Clear, Skips
<1>4. n \in Flow!Open \ Running
  BY <1>2 DEF Flow!Open, Running
<1>5. ASSUME NEW p \in Node, life[p] # "absent", <<p, n>> \in Order
      PROVE  status[p] \notin Flow!Stops \cup {"none"}
  <2>1. life[p] = "done" /\ status[p] \notin {"failed", "halted"}
    BY <1>3, <1>5, OrderMeets, ClearAfter DEF FlowInv, Clear
  <2> QED
    BY <2>1, <1>1 DEF Settled, Flow!Stops
<1>6. ASSUME NEW s \in Node, <<s, n>> \in Gate PROVE status[s] = "ok"
  <2>1. n \in Members(s) /\ s \in Subs
    BY <1>6, OrderFacts DEF Members
  <2>2. life[s] = "done"
    BY <2>1, <1>1 DEF Enclosed
  <2> QED
    BY <2>1, <2>2, <1>1, <1>2 DEF EntrySkips, Skips
<1> QED
  BY <1>4, <1>5, <1>6 DEF Flow!Ready

\* What a failure of n takes with it is what the declared order takes.
LEMMA DoomedMaps ==
  ASSUME FlowInv, NEW n \in Node, life[n] \in {"queued", "running"},
         NEW st \in {"failed", "halted"}, NEW x, Settle(n, st, x)
  PROVE  Flow!Downstream(n) = Doomed(life, edge, n)
<1>1. /\ GraphInv(life, edge, indeg) /\ Sound(life, edge) /\ TypeOK
      /\ FailInv(life, edge, status) /\ Settled(life, status) /\ life \in [Node -> Lives]
      /\ edge \in SUBSET (Node \X Node)
      /\ status \in [Node -> Terminal \cup {"none"}]
  BY DEF FlowInv, AfterInv, FailRunInv, RunInv, IInv, TypeOK, Readiness, FailInv, GraphInv
<1>2. SettleOn(life, edge, indeg, n, st, x) /\ st \in Terminal
  BY DEF Settle, Terminal
<1>3. FailInv(life', edge, status')
  BY <1>1, <1>2, FailSettle
<1>4. /\ edge' = edge /\ status'[n] = st
      /\ \A m \in Node : status'[m] # status[m] => m = n \/ m \in Doomed(life, edge, n)
  BY <1>2, <1>1 DEF SettleOn, Cascade
<1>5. Flow!Open = Open(life)
  BY <1>1 DEF Flow!Open, Open, Settled
<1> DEFINE rest == Open(life) \ {n}
           D == Doomed(life, edge, n)
           Closed(T) == \A o \in Order : o[1] \in T \cup {n} /\ o[2] \in rest => o[2] \in T
<1>6. Flow!Downstream(n) = {m \in rest : \A T \in SUBSET rest : Closed(T) => m \in T}
  BY <1>5 DEF Flow!Downstream
<1>7. /\ D \subseteq rest /\ rest \subseteq Node /\ n \in Node
      /\ \A T \in SUBSET rest :
           (\A a \in T \cup {n}, b \in rest : Spreads(life, edge, a, b) => b \in T) => D \subseteq T
  BY DoomedFacts DEF Open
<1> HIDE DEF D, rest
<1>8. ASSUME NEW T \in SUBSET rest, Closed(T) PROVE D \subseteq T
  <2>1. ASSUME NEW a \in T \cup {n}, NEW b \in rest, Spreads(life, edge, a, b) PROVE b \in T
    <3>1. <<a, b>> \in Order
      BY <2>1, <1>7, OrderFacts DEF Spreads, FlowInv
    <3> QED
      BY <3>1, <2>1, <1>8
  <2> QED
    BY <2>1, <1>7
<1>9. Closed(D)
  <2> SUFFICES ASSUME NEW o \in Order, o[1] \in D \cup {n}, o[2] \in rest PROVE o[2] \in D
    OBVIOUS
  <2>1. o = <<o[1], o[2]>> /\ o[1] \in Node /\ o[2] \in Node
    BY OrderFacts
  <2>2. life[o[1]] \notin {"absent", "done"} /\ life[o[2]] \notin {"absent", "done"} /\ o[2] # n
    BY <2>1, <1>7 DEF rest, Open
  <2>3. <<o[1], o[2]>> \in Closure(edge)
    BY <2>1, <2>2, OrderMeets DEF FlowInv
  <2>4. <<n, o[2]>> \in Closure(edge)
    <3>1. CASE o[1] = n
      BY <3>1, <2>3
    <3>2. CASE o[1] \in D
      <4>1. <<n, o[1]>> \in Closure(edge)
        BY <3>2, <1>1, DoomedReached DEF D
      <4> QED
        BY <4>1, <2>1, <2>3, <1>1, ClosureFacts
    <3> QED
      BY <3>1, <3>2
  <2>5. o[2] \in Stopped(status', edge)
    BY <2>1, <2>4, <1>1, <1>3, <1>4, DownstreamStops
  <2>6. status'[o[2]] \in Skips /\ status[o[2]] = "none"
    BY <2>1, <2>2, <2>5, <1>1, StoppedFacts DEF Settled
  <2>7. status'[o[2]] # status[o[2]]
    BY <2>6 DEF Skips
  <2> QED
    BY <2>1, <2>2, <2>7, <1>4 DEF D
<1>10. D \in SUBSET rest
  BY <1>7
<1> HIDE DEF Closed
<1>11. \A m \in rest : (\A T \in SUBSET rest : Closed(T) => m \in T) <=> m \in D
  BY <1>8, <1>9, <1>10
<1> QED
  BY <1>6, <1>10, <1>11 DEF D

\* A step the mapping does not see.
LEMMA StutterMaps ==
  ASSUME \A m \in Node : /\ life'[m] = "absent" <=> life[m] = "absent"
                         /\ life'[m] = "running" <=> life[m] = "running"
                         /\ Holds(m)' <=> Holds(m),
         UNCHANGED <<status, paused, fatal, journal, runEnd>>
  PROVE  UNCHANGED Flow!vars
<1>1. /\ {m \in Node : life'[m] # "absent"} = {m \in Node : life[m] # "absent"}
      /\ {m \in Node : life'[m] = "running"} = {m \in Node : life[m] = "running"}
      /\ {m \in Node : Holds(m)'} = {m \in Node : Holds(m)}
  OBVIOUS
<1> QED
  BY <1>1 DEF Flow!vars, Running

\* A record becomes durable, or the run is fatal.
LEMMA RecordMaps ==
  ASSUME fatal \in BOOLEAN, NEW S, NEW C, \A c \in C : c[1] # "result",
         Journaled(({"result"} \X S) \cup C)
  PROVE  Flow!Record(S)
<1> DEFINE recs == ({"result"} \X S) \cup C
<1>1. PICK lost \in SUBSET recs :
         /\ journal' = journal \cup {r[2] : r \in {x \in recs \ lost : x[1] = "result"}}
         /\ fatal' = (fatal \/ lost # {})
  BY DEF Journaled
<1>2. \A x \in recs : x[1] = "result" => x[2] \in S
  OBVIOUS
<1>3. journal \subseteq journal' /\ journal' \subseteq journal \cup S
  BY <1>1, <1>2
<1>4. fatal' \in {fatal, TRUE}
  BY <1>1
<1>5. S \subseteq journal' \/ fatal'
  <2>1. CASE lost = {}
    <3>1. ASSUME NEW m \in S PROVE m \in journal'
      <4>1. <<"result", m>> \in recs \ lost /\ <<"result", m>>[1] = "result" /\ <<"result", m>>[2] = m
        BY <2>1
      <4> QED
        BY <4>1, <1>1
    <3> QED
      BY <3>1
  <2>2. CASE lost # {}
    BY <2>2, <1>1
  <2> QED
    BY <2>1, <2>2
<1> QED
  BY <1>3, <1>4, <1>5 DEF Flow!Record

\* A settlement, by its worker or by the loop itself.
LEMMA SettleMaps ==
  ASSUME FlowInv, NEW n \in Node, life[n] \in {"queued", "running"},
         life[n] = "queued" => ~paused /\ ~fatal,
         NEW st \in Terminal \ {"skipHalt"}, NEW x \in BOOLEAN, Settle(n, st, x),
         st = "skipDep" => \E s \in DataSources(n) : status[s] # "ok",
         \A m \in Node : Holds(m)' <=> Holds(m) /\ m # n,
         pc # "exit", UNCHANGED <<paused, runEnd>>
  PROVE  Flow!Settle(n, st)
<1>1. /\ GraphInv(life, edge, indeg) /\ Settled(life, status) /\ TypeOK
      /\ life \in [Node -> Lives]
      /\ status \in [Node -> Terminal \cup {"none"}] /\ fatal \in BOOLEAN
  BY DEF FlowInv, AfterInv, FailRunInv, RunInv, IInv, TypeOK, FailInv, GraphInv
<1>2. SettleOn(life, edge, indeg, n, st, x) /\ st \in Terminal
  BY DEF Settle
<1>3. runEnd = "none"
  BY DEF FlowInv, Flags
<1>4. /\ life'[n] = "done"
      /\ \A m \in Node : /\ life'[m] = "absent" <=> life[m] = "absent"
                         /\ life'[m] = "running" <=> life[m] = "running" /\ m # n
  BY <1>1, <1>2, SettleStep
<1>5. Flow!Open = Open(life) /\ n \in Flow!Open
  BY <1>1 DEF Flow!Open, Open, Settled
<1>6. Flow!Taken(n, st) = Cascade(life, edge, n, st)
  <2>1. CASE st \in {"failed", "halted"}
    <3>1. Flow!Downstream(n) = Doomed(life, edge, n)
      BY <2>1, DoomedMaps
    <3> QED
      BY <3>1, <2>1 DEF Flow!Taken, Flow!Stops, Cascade
  <2>2. CASE st \notin {"failed", "halted"}
    <3>1. {m \in Flow!Open : <<n, m>> \in Gate} = Open(life) \cap Members(n)
      BY <1>5, OrderFacts DEF Open
    <3> QED
      BY <3>1, <2>2 DEF Flow!Taken, Flow!Stops, Cascade
  <2> QED
    BY <2>1, <2>2
<1>7. Flow!Flavor(st) = Flavor(st)
  BY DEF Flow!Flavor, Flow!Stops, Flow!Skip, Flavor
<1> DEFINE D == Cascade(life, edge, n, st)
           C == IF st \in {"ok", "failed", "halted"} /\ (x \/ n \in stash) THEN {<<"cost", n>>} ELSE {}
<1>8. /\ status' = [m \in Node |-> IF m = n THEN st
                                   ELSE IF m \in {n} \cup D THEN Flavor(st) ELSE status[m]]
      /\ Journaled(({"result"} \X ({n} \cup D)) \cup C)
  BY <1>2 DEF SettleOn
<1> HIDE DEF D
<1>9. Flow!Record({n} \cup D)
  <2>1. \A c \in C : c[1] # "result"
    OBVIOUS
  <2> HIDE DEF C
  <2> QED
    BY <2>1, <1>1, <1>8, RecordMaps
<1>10. status' = [m \in Node |-> IF m = n THEN st ELSE IF m \in D THEN Flow!Flavor(st) ELSE status[m]]
  <2>1. \A m \in Node : (IF m \in {n} \cup D THEN Flavor(st) ELSE status[m])
                          = (IF m = n THEN Flavor(st) ELSE IF m \in D THEN Flavor(st) ELSE status[m])
    OBVIOUS
  <2> QED
    BY <2>1, <1>7, <1>8
<1>11. status'[n] = st
  BY <1>10
<1>12. n \in Running \/ (Flow!Ready(n) /\ ~Flow!Stopped)
  BY ReadyMaps DEF Running, Flow!Stopped
<1>13. st = "skipDep" => \E e \in Data : e[2] = n /\ status[e[1]] # "ok"
  BY DEF DataSources
<1>14. /\ {m \in Node : life'[m] # "absent"} = {m \in Node : life[m] # "absent"}
       /\ Running' = Running \ {n}
       /\ {m \in Node : Holds(m)'} = {m \in Node : Holds(m)} \ {n}
  BY <1>4 DEF Running
<1>15. \E S \in {Flow!Taken(n, st)} :
         /\ status' = [m \in Node |-> IF m = n THEN st ELSE IF m \in S THEN Flow!Flavor(st) ELSE status[m]]
         /\ Flow!Record({n} \cup S)
  BY <1>6, <1>9, <1>10 DEF D
<1> QED
  BY <1>3, <1>5, <1>11, <1>12, <1>13, <1>14, <1>15 DEF Flow!Settle

\* A worker's return without a result.
LEMMA PutBackMaps ==
  ASSUME FlowInv, NEW n \in Node, life[n] = "running", pc # "exit",
         \A m \in Node : /\ life'[m] = "absent" <=> life[m] = "absent"
                         /\ life'[m] = "running" <=> life[m] = "running" /\ m # n
                         /\ Holds(m)' <=> Holds(m) /\ m # n,
         paused' \in {paused, TRUE}, Flow!Record({}), UNCHANGED <<status, runEnd>>
  PROVE  Flow!PutBack(n)
<1>1. runEnd = "none"
  BY DEF FlowInv, Flags
<1>2. /\ {m \in Node : life'[m] # "absent"} = {m \in Node : life[m] # "absent"}
      /\ Running' = Running \ {n} /\ n \in Running
      /\ {m \in Node : Holds(m)'} = {m \in Node : Holds(m)} \ {n}
  BY DEF Running
<1> QED
  BY <1>1, <1>2 DEF Flow!PutBack

\* The start of a command for a node that is ready.
LEMMA AskMaps ==
  ASSUME FlowInv, NEW n \in Node, life[n] = "queued", pc # "exit", ~paused, ~fatal,
         life' = [life EXCEPT ![n] = "running"],
         \A m \in Node : Holds(m)' <=> Holds(m),
         UNCHANGED <<status, paused, fatal, journal, runEnd>>
  PROVE  Flow!Ask(n)
<1>1. runEnd = "none" /\ Flow!Ready(n) /\ ~Flow!Stopped
  BY ReadyMaps DEF FlowInv, Flags, Flow!Stopped
<1>2. life \in [Node -> Lives]
  BY DEF FlowInv, AfterInv, FailRunInv, RunInv, IInv, TypeOK
<1>3. /\ {m \in Node : life'[m] # "absent"} = {m \in Node : life[m] # "absent"}
      /\ Running' = Running \cup {n}
      /\ {m \in Node : Holds(m)'} = {m \in Node : Holds(m)}
  BY <1>2 DEF Running
<1> QED
  BY <1>1, <1>3 DEF Flow!Ask

\* A grant launches a box with everything it is fed.
LEMMA GrantMaps ==
  ASSUME FlowInv, Grant
  PROVE  \E n \in Node : Flow!Launch(n)
<1> DEFINE n == Least(Grantable)
<1>1. n \in Grantable
  <2>1. Grantable \subseteq Nat /\ Grantable # {}
    BY NodeAssumption DEF Grant, Grantable, SlotWait
  <2> QED
    BY <2>1, LeastIn
<1>2. n \in Node /\ life[n] = "slotwait"
  BY <1>1 DEF Grantable, SlotWait
<1>3. /\ pc = "grant" /\ life' = [life EXCEPT ![n] = "running"]
      /\ worker' = [worker EXCEPT ![n] = "admit"]
      /\ UNCHANGED <<msg, status, paused, fatal, journal, runEnd>>
  BY DEF Grant
<1> HIDE DEF n
<1>4. /\ life \in [Node -> Lives] /\ worker \in [Node -> {"none", "admit", "box"}]
      /\ DrainsUnpaused
  BY DEF FlowInv, AfterInv, FailRunInv, RunInv, IInv, TypeOK
<1>5. runEnd = "none" /\ Flow!Ready(n) /\ ~Flow!Stopped
  BY <1>2, <1>3, <1>4, ReadyMaps DEF FlowInv, Flags, DrainsUnpaused, Flow!Stopped
<1>6. \A e \in Data : e[2] = n => status[e[1]] = "ok"
  BY <1>2 DEF FlowInv, Fed, DataSources
<1>7. /\ {m \in Node : life'[m] # "absent"} = {m \in Node : life[m] # "absent"}
      /\ Running' = Running \cup {n}
      /\ {m \in Node : Holds(m)'} = {m \in Node : Holds(m)} \cup {n}
  BY <1>2, <1>3, <1>4 DEF Running, Holds
<1> QED
  BY <1>2, <1>3, <1>5, <1>6, <1>7 DEF Flow!Launch

\* applyExpansion brings exactly the items the data source asked for.
LEMMA ExpandMaps ==
  ASSUME FlowInv, NEW n \in Node, msg[n].ev = "expanded", msg[n].ok, FoldExpanded(n),
         pc # "exit", UNCHANGED runEnd
  PROVE  \E is \in SUBSET ItemsOf[n] : Flow!Expand(n, is)
<1>0. PICK is : is = msg[n].items
  OBVIOUS
<1> DEFINE new == SpliceNodes(is)
           ed  == edge \cup SpliceEdges(n, is, edge)
           ind == SpliceIndeg(ed)
           lf  == SpliceLife(new, ind)
           C   == IF n \in stash THEN {<<"cost", n>>} ELSE {}
<1>1. /\ GraphInv(life, edge, indeg) /\ Fresh(life) /\ TypeOK /\ Settled(life, status)
      /\ OwnItems /\ InFlight /\ fatal \in BOOLEAN
      /\ life \in [Node -> Lives] /\ worker \in [Node -> {"none", "admit", "box"}]
      /\ msg \in [Node -> Events] /\ status \in [Node -> Terminal \cup {"none"}]
  BY DEF FlowInv, AfterInv, FailRunInv, RunInv, IInv, TypeOK, FailInv, FlightInv
<1>2. /\ SettleOn(lf, ed, ind, n, "ok", FALSE) /\ Received(n) /\ UNCHANGED <<poolUsed, paused>>
  BY <1>0 DEF FoldExpanded
<1>3. is \subseteq {i \in Inst : InstGen[i] = n}
  BY <1>0, <1>1 DEF OwnItems
<1>4. worker[n] = "none" /\ life[n] = "running"
  BY <1>1 DEF InFlight, NoEvent
<1>5. /\ new = SpliceNodes(is) /\ ed = edge \cup SpliceEdges(n, is, edge)
      /\ ind = SpliceIndeg(ed) /\ lf = SpliceLife(new, ind)
  OBVIOUS
<1>6. new = UNION {Fills[i] : i \in is}
  BY <1>3 DEF Fills, SpliceNodes
<1> HIDE DEF new, ed, ind, lf
<1>7. /\ GraphInv(lf, ed, ind) /\ lf[n] = "running"
      /\ \A m \in Node : \/ m \notin new /\ lf[m] = life[m]
                         \/ m \in new /\ life[m] = "absent" /\ lf[m] \in {"pending", "queued"}
  BY <1>1, <1>3, <1>4, <1>5, SpliceGraph
<1>8. \A m \in Node : /\ life'[m] = "absent" <=> lf[m] = "absent"
                      /\ life'[m] = "running" <=> lf[m] = "running" /\ m # n
  <2>1. "ok" \in Terminal /\ FALSE \in BOOLEAN /\ lf[n] \notin {"absent", "pending", "done"}
    BY <1>7 DEF Terminal
  <2> QED
    BY <2>1, <1>1, <1>2, <1>7, SettleStep
<1>9. /\ status' = [m \in Node |-> IF m = n THEN "ok"
                                   ELSE IF m \in {n} \cup {} THEN Flavor("ok") ELSE status[m]]
      /\ Journaled(({"result"} \X ({n} \cup {})) \cup C)
  BY <1>2 DEF SettleOn, Cascade
<1>10. status' = [status EXCEPT ![n] = "ok"]
  BY <1>1, <1>9
<1>11. Flow!Record({n})
  <2>1. (\A c \in C : c[1] # "result") /\ {n} \cup {} = {n}
    OBVIOUS
  <2> HIDE DEF C
  <2> QED
    BY <2>1, <1>1, <1>9, RecordMaps
<1>12. is \in SUBSET ItemsOf[n] /\ new \subseteq Node
  BY <1>3 DEF ItemsOf, SpliceNodes, Below, new
<1>13. {m \in Node : life'[m] # "absent"} = {m \in Node : life[m] # "absent"} \cup new
  BY <1>7, <1>8, <1>12
<1>14. Running' = Running \ {n} /\ n \in Running
  BY <1>4, <1>7, <1>8 DEF Running
<1>15. \A m \in Node : Holds(m)' <=> Holds(m)
  <2>1. \A m \in Node : worker'[m] = worker[m] /\ msg'[m] = IF m = n THEN NoEvent ELSE msg[m]
    BY <1>1, <1>2 DEF Received
  <2> QED
    BY <2>1, <1>4 DEF Holds, NoEvent
<1>16. ~Holds(n)
  BY <1>4 DEF Holds
<1>17. {m \in Node : Holds(m)'} = {m \in Node : Holds(m)} /\ n \notin {m \in Node : Holds(m)}
  BY <1>15, <1>16
<1>18. runEnd = "none" /\ n \in Flow!Open
  BY <1>1, <1>4 DEF FlowInv, Flags, Flow!Open, Settled
<1>19. Flow!Expand(n, is)
  BY <1>2, <1>6, <1>10, <1>11, <1>13, <1>14, <1>17, <1>18 DEF Flow!Expand
<1> QED
  BY <1>12, <1>19

-----------------------------------------------------------------------------
(* The steps                                                               *)

\* A step is mapped, and keeps what the mapping needs.
MapsOK == (Flow!Next \/ UNCHANGED Flow!vars) /\ Fed' /\ Flags'

\* The facts about the run loop's state that the steps use.
LEMMA FlowFacts ==
  ASSUME FlowInv
  PROVE  /\ IInv /\ LoopInv /\ TypeOK /\ GraphInv(life, edge, indeg) /\ Settled(life, status)
         /\ InFlight /\ ParkedHasWaker /\ DrainsUnpaused
         /\ life \in [Node -> Lives] /\ worker \in [Node -> {"none", "admit", "box"}]
         /\ msg \in [Node -> Events] /\ status \in [Node -> Terminal \cup {"none"}]
         /\ fatal \in BOOLEAN /\ paused \in BOOLEAN
         /\ timer \in SUBSET Node /\ waitZero \in SUBSET Node
BY DEF FlowInv, AfterInv, FailRunInv, RunInv, IInv, TypeOK, FailInv, FlightInv, LoopInv

\* What a waiting node is fed stays ok.
LEMMA FedKept ==
  ASSUME FlowInv, [Next]_vars,
         \A m \in Node : life'[m] = "slotwait" =>
           life[m] = "slotwait" \/ \A s \in DataSources(m) : status[s] = "ok"
  PROVE  Fed'
<1>1. \A m \in Node : life[m] = "done" => status'[m] = status[m]
  BY FlowFacts, Inductive DEF StepOK
<1>2. \A s \in Node : status[s] = "ok" => life[s] = "done"
  BY FlowFacts DEF Settled
<1>3. \A m \in Node : DataSources(m) \subseteq Node
  BY ShapeAssumption, EdgeAssumption DEF DataSources
<1>4. ASSUME NEW m \in Node, life'[m] = "slotwait", NEW s \in DataSources(m)
      PROVE  status'[s] = "ok"
  <2>1. status[s] = "ok"
    BY <1>4 DEF FlowInv, Fed
  <2> QED
    BY <2>1, <1>1, <1>2, <1>3
<1> QED
  BY <1>4 DEF Fed, DataSources

\* Steps of the loop, of a worker or of the environment that the user does not
\* see, and those that only raise a flag.
LEMMA QuietMaps ==
  ASSUME FlowInv, [Next]_vars,
         \/ GrantsDone \/ DrainDone \/ IdleTick \/ RequestPause \/ Finished \/ UNCHANGED vars
         \/ PauseGate \/ Abort
  PROVE  MapsOK
<1>1. /\ life' = life /\ UNCHANGED <<status, worker, msg, journal, runEnd>>
      /\ pc' = "exit" <=> pc = "exit"
      /\ pc' = "grant" => ~fatal'
  BY DEF FlowInv, Flags, GrantsDone, DrainDone, IdleTick, RequestPause, Finished, vars,
         PauseGate, Abort, graphVars, flightVars
<1>2. Fed'
  BY <1>1, FedKept
<1>3. Flags'
  BY <1>1 DEF FlowInv, Flags
<1>4. \/ UNCHANGED <<paused, fatal>>
      \/ pc # "exit" /\ paused' = TRUE /\ fatal' = fatal
      \/ pc # "exit" /\ fatal' = TRUE /\ paused' = paused
  BY FlowFacts DEF GrantsDone, DrainDone, IdleTick, RequestPause, Finished, vars, PauseGate, Abort
<1>5. \A m \in Node : Holds(m)' <=> Holds(m)
  BY <1>1 DEF Holds
<1>6. Running' = Running /\ {m \in Node : Holds(m)'} = {m \in Node : Holds(m)}
  BY <1>1, <1>5 DEF Running
<1>7. CASE UNCHANGED <<paused, fatal>>
  BY <1>1, <1>2, <1>3, <1>5, <1>7, StutterMaps DEF MapsOK
<1>8. CASE pc # "exit" /\ paused' = TRUE /\ fatal' = fatal
  <2>1. Flow!Pause
    BY <1>1, <1>6, <1>8 DEF Flow!Pause, FlowInv, Flags
  <2> QED
    BY <2>1, <1>2, <1>3 DEF MapsOK, Flow!Next
<1>9. CASE pc # "exit" /\ fatal' = TRUE /\ paused' = paused
  <2>1. Flow!Abort
    BY <1>1, <1>6, <1>9 DEF Flow!Abort, FlowInv, Flags
  <2> QED
    BY <2>1, <1>2, <1>3 DEF MapsOK, Flow!Next
<1> QED
  BY <1>4, <1>7, <1>8, <1>9

\* run returns with no worker out, and Execute says how the run ended.
LEMMA ExitMaps ==
  ASSUME FlowInv, [Next]_vars, Exit
  PROVE  MapsOK
<1>1. /\ pc = "top" /\ pc' = "exit" /\ LoopEnds
      /\ life' = life /\ UNCHANGED <<status, worker, msg, journal, paused, fatal>>
      /\ runEnd' = IF fatal THEN "aborted"
                   ELSE IF paused /\ ~AllDone THEN "paused" ELSE "settled"
  BY DEF Exit, graphVars, flightVars
<1>2. Fed' /\ Flags'
  BY <1>1, FedKept DEF Flags
<1>3. Running = {}
  <2>1. IInv' /\ outstanding' = outstanding
    BY FlowFacts, Inductive DEF StepOK, Exit, flightVars
  <2>2. Cardinality(Running) = 0
    BY <2>1, <1>1, FlowFacts DEF IInv, FlightInv
  <2>3. IsFiniteSet(Running)
    BY NodeSets DEF Running
  <2> QED
    BY <2>2, <2>3, FS_EmptySet
<1>4. Flow!Open = {} <=> AllDone
  BY FlowFacts DEF Flow!Open, AllDone, Settled
<1>5. runEnd' = IF fatal THEN "aborted" ELSE IF Flow!Open = {} THEN "settled" ELSE "paused"
  BY <1>1, <1>4 DEF LoopEnds
<1>6. runEnd' = "paused" => paused
  BY <1>1
<1>7. Running' = Running /\ {m \in Node : Holds(m)'} = {m \in Node : Holds(m)}
  BY <1>1 DEF Running, Holds
<1>8. Flow!End
  BY <1>1, <1>3, <1>5, <1>6, <1>7 DEF Flow!End, FlowInv, Flags
<1> QED
  BY <1>2, <1>8 DEF MapsOK, Flow!Next

\* Inside a box's worker.
LEMMA WorkMaps ==
  ASSUME FlowInv, [Next]_vars, NEW n \in Node, WorkerStep(n)
  PROVE  MapsOK
<1>1. /\ life' = life /\ UNCHANGED <<pc, status, journal, paused, fatal, runEnd>>
      /\ worker[n] # "none"
      /\ \/ worker' = [worker EXCEPT ![n] = "box"] /\ msg' = msg
         \/ \E e : e.ev \in {"settled", "deferred"} /\ Send(n, e)
  BY DEF WorkerStep, Admit, BoxDone, graphVars
<1>2. Fed' /\ Flags'
  BY <1>1, FedKept DEF FlowInv, Flags
<1>3. \A m \in Node : Holds(m)' <=> Holds(m)
  BY <1>1, FlowFacts DEF Holds, Send
<1> QED
  BY <1>1, <1>2, <1>3, StutterMaps DEF MapsOK

\* An elapsed defer window.
LEMMA WakeMaps ==
  ASSUME FlowInv, [Next]_vars, NEW n \in Node, Wake(n)
  PROVE  MapsOK
<1>1. /\ life' = [life EXCEPT ![n] = "queued"] /\ life[n] = "deferred"
      /\ UNCHANGED <<status, worker, msg, journal, paused, fatal, runEnd>>
      /\ pc = "top" /\ pc' \in {"top", "gate"}
  BY FlowFacts DEF Wake, flightVars, ParkedHasWaker
<1>2. \A m \in Node : life'[m] = IF m = n THEN "queued" ELSE life[m]
  BY <1>1, FlowFacts
<1>3. Fed' /\ Flags'
  BY <1>1, <1>2, FedKept DEF FlowInv, Flags
<1>4. \A m \in Node : Holds(m)' <=> Holds(m)
  BY <1>1 DEF Holds
<1> QED
  BY <1>1, <1>2, <1>3, <1>4, StutterMaps DEF MapsOK

\* A grant.
LEMMA LaunchMaps ==
  ASSUME FlowInv, [Next]_vars, Grant
  PROVE  MapsOK
<1>1. /\ pc = "grant" /\ pc' = pc /\ fatal' = fatal /\ runEnd' = runEnd
      /\ life' = [life EXCEPT ![Least(Grantable)] = "running"]
  BY DEF Grant
<1>2. \A m \in Node : life'[m] = "slotwait" => life[m] = "slotwait"
  BY <1>1, FlowFacts
<1>3. Fed' /\ Flags'
  BY <1>1, <1>2, FedKept DEF FlowInv, Flags
<1> QED
  BY <1>3, GrantMaps DEF MapsOK, Flow!Next

\* A settlement that takes no worker.
LEMMA SettleHereMaps ==
  ASSUME FlowInv, [Next]_vars, NEW n \in Node, life[n] = "queued", pc = "ready", ~fatal,
         pc' = pc, UNCHANGED <<paused, runEnd>>,
         NEW st \in Terminal \ {"skipHalt"}, SettleHere(n, st),
         st = "skipDep" => \E s \in DataSources(n) : status[s] # "ok"
  PROVE  MapsOK
<1>1. Settle(n, st, FALSE) /\ UNCHANGED <<worker, msg>> /\ ~paused
  BY FlowFacts DEF SettleHere, flightVars, DrainsUnpaused
<1>2. \A m \in Node : Holds(m)' <=> Holds(m) /\ m # n
  <2>1. ~Holds(n)
    BY FlowFacts DEF InFlight, Holds, NoEvent
  <2> QED
    BY <2>1, <1>1 DEF Holds
<1>3. Flow!Settle(n, st)
  BY <1>1, <1>2, SettleMaps
<1>4. \A m \in Node : life'[m] = "slotwait" => life[m] = "slotwait"
  BY <1>1, FlowFacts, SettleStep DEF Settle
<1>5. Fed' /\ Flags'
  BY <1>4, FedKept DEF FlowInv, Flags
<1> QED
  BY <1>3, <1>5 DEF MapsOK, Flow!Next, Flow!Results, Terminal

\* A command is started for a queued node.
LEMMA StartMaps ==
  ASSUME FlowInv, [Next]_vars, NEW n \in Node, life[n] = "queued", pc = "ready", ~fatal,
         pc' = pc, UNCHANGED <<paused, runEnd>>, StartExpect(n) \/ StartExpansion(n)
  PROVE  MapsOK
<1>1. /\ life' = [life EXCEPT ![n] = "running"]
      /\ UNCHANGED <<status, worker, journal, fatal>>
  BY DEF StartExpect, StartExpansion
<1>2. \A m \in Node : msg'[m] = msg[m] \/ (m = n /\ msg'[m].ev \in {"expected", "expanded"})
  <2>1. CASE StartExpect(n)
    <3> DEFINE at == Iters[n][Least(NewIteration(n))]
    <3>1. PICK v \in Verdicts : msg' = [msg EXCEPT ![n] =
             [ev |-> "expected", loop |-> at[1], iter |-> at[2], verdict |-> v]]
      BY <2>1 DEF StartExpect
    <3> HIDE DEF at
    <3>2. msg'[n].ev = "expected" /\ \A m \in Node \ {n} : msg'[m] = msg[m]
      BY <3>1, FlowFacts
    <3> QED
      BY <3>2
  <2>2. CASE StartExpansion(n)
    <3>1. PICK items \in SUBSET Inst, ok \in BOOLEAN : msg' = [msg EXCEPT ![n] =
             [ev |-> "expanded", ok |-> ok, items |-> items]]
      BY <2>2 DEF StartExpansion
    <3>2. msg'[n].ev = "expanded" /\ \A m \in Node \ {n} : msg'[m] = msg[m]
      BY <3>1, FlowFacts
    <3> QED
      BY <3>2
  <2> QED
    BY <2>1, <2>2
<1>3. ~paused
  BY FlowFacts DEF DrainsUnpaused
<1>4. \A m \in Node : Holds(m)' <=> Holds(m)
  <2>1. ~Holds(n)
    BY FlowFacts DEF InFlight, Holds, NoEvent
  <2> QED
    BY <2>1, <1>1, <1>2, FlowFacts DEF Holds
<1>5. Flow!Ask(n)
  BY <1>1, <1>3, <1>4, AskMaps
<1>6. \A m \in Node : life'[m] = "slotwait" => life[m] = "slotwait"
  BY <1>1, FlowFacts
<1>7. Fed' /\ Flags'
  BY <1>1, <1>6, FedKept DEF FlowInv, Flags
<1> QED
  BY <1>5, <1>7 DEF MapsOK, Flow!Next

\* A node with everything it is fed goes to wait for its pools.
LEMMA SlotWaitMaps ==
  ASSUME FlowInv, [Next]_vars, NEW n \in Node, life[n] = "queued", pc = "ready", ~fatal,
         pc' = pc, UNCHANGED <<paused, runEnd>>,
         ~BadSource(n), ~SkippedSource(n),
         life' = [life EXCEPT ![n] = "slotwait"],
         UNCHANGED <<status, worker, msg, journal, fatal>>
  PROVE  MapsOK
<1>1. \A s \in DataSources(n) : status[s] = "ok"
  <2>1. DataSources(n) \subseteq Node
    BY ShapeAssumption, EdgeAssumption DEF DataSources
  <2>2. ASSUME NEW s \in DataSources(n)
        PROVE  /\ life[s] = "done"
               /\ status[s] \notin {"failed", "halted", "skipCond", "skipDep", "skipHalt"}
    BY <2>2 DEF BadSource, SkippedSource
  <2> QED
    BY <2>1, <2>2, FlowFacts DEF Settled, Terminal
<1>2. \A m \in Node : life'[m] = IF m = n THEN "slotwait" ELSE life[m]
  BY FlowFacts
<1>3. Fed' /\ Flags'
  BY <1>1, <1>2, FedKept DEF FlowInv, Flags
<1>4. \A m \in Node : Holds(m)' <=> Holds(m)
  BY DEF Holds
<1> QED
  BY <1>2, <1>3, <1>4, StutterMaps DEF MapsOK

\* dispatch.
LEMMA DispatchMaps ==
  ASSUME FlowInv, [Next]_vars, Dispatch
  PROVE  MapsOK
<1> DEFINE n == Least(Queued)
<1>1. n \in Node /\ life[n] = "queued"
  <2>1. Queued \subseteq Nat /\ Queued # {}
    BY NodeAssumption DEF Dispatch, Queued
  <2>2. n \in Queued
    BY <2>1, LeastIn
  <2> QED
    BY <2>2 DEF Queued
<1> HIDE DEF n
<1>2. /\ pc = "ready" /\ pc' = pc /\ ~fatal /\ UNCHANGED <<paused, runEnd>>
      /\ \/ DispatchCondition(n)
         \/ StartExpect(n)
         \/ DispatchByKind(n)
  BY DEF Dispatch, n
<1>3. ASSUME NEW st \in Terminal, SettleHere(n, st), st # "skipHalt",
             st = "skipDep" => \E s \in DataSources(n) : status[s] # "ok"
      PROVE  MapsOK
  BY <1>1, <1>2, <1>3, SettleHereMaps
<1>4. CASE DispatchCondition(n)
  BY <1>4, <1>3 DEF DispatchCondition, Terminal
<1>5. CASE StartExpect(n) \/ StartExpansion(n)
  BY <1>1, <1>2, <1>5, StartMaps
<1>6. CASE ResolveSelector(n)
  BY <1>6, <1>3 DEF ResolveSelector, Terminal
<1>7. CASE SettleSubEntry(n)
  BY <1>7, <1>3 DEF SettleSubEntry, Terminal
<1>8. CASE DispatchAgent(n)
  <2>1. CASE SettleHere(n, "failed") \/ SettleHere(n, "ok")
    BY <2>1, <1>3 DEF Terminal
  <2>2. CASE SkippedSource(n) /\ SettleHere(n, "skipDep")
    BY <2>2, <1>3 DEF SkippedSource, Terminal
  <2>3. CASE /\ ~BadSource(n) /\ ~SkippedSource(n)
             /\ life' = [life EXCEPT ![n] = "slotwait"]
             /\ UNCHANGED <<status, edge, indeg, flightVars, parkVars, checked, journal, fatal>>
    BY <2>3, <1>1, <1>2, SlotWaitMaps DEF flightVars
  <2> QED
    BY <2>1, <2>2, <2>3, <1>8 DEF DispatchAgent
<1> QED
  BY <1>2, <1>4, <1>5, <1>6, <1>7, <1>8 DEF DispatchByKind

\* The receive of a worker's event takes the box, if there was one, with it.
LEMMA ReceivedHolds ==
  ASSUME FlowInv, NEW n \in Node, msg[n].ev # "none", Received(n)
  PROVE  /\ life[n] = "running" /\ worker[n] = "none"
         /\ \A m \in Node : Holds(m)' <=> Holds(m) /\ m # n
         /\ msg[n].ev \in {"expanded", "expected"} => ~Holds(n)
<1>1. life[n] = "running" /\ worker[n] = "none"
  BY FlowFacts DEF InFlight, NoEvent
<1>2. \A m \in Node : worker'[m] = worker[m] /\ msg'[m] = IF m = n THEN NoEvent ELSE msg[m]
  BY FlowFacts DEF Received
<1> QED
  BY <1>1, <1>2 DEF Holds, NoEvent

\* A worker's event that settles its node.
LEMMA FoldSettleMaps ==
  ASSUME FlowInv, [Next]_vars, NEW n \in Node, msg[n].ev # "none", Received(n),
         pc # "exit", pc' \in {"top", "gate"}, UNCHANGED <<paused, runEnd>>,
         NEW st \in {"ok", "failed", "halted"}, NEW x \in BOOLEAN, Settle(n, st, x)
  PROVE  MapsOK
<1>1. life[n] = "running" /\ \A m \in Node : Holds(m)' <=> Holds(m) /\ m # n
  BY ReceivedHolds
<1>2. st \in Terminal \ {"skipHalt"} /\ st # "skipDep"
  BY DEF Terminal
<1>3. Flow!Settle(n, st)
  BY <1>1, <1>2, SettleMaps
<1>4. \A m \in Node : life'[m] = "slotwait" => life[m] = "slotwait"
  BY <1>1, <1>2, FlowFacts, SettleStep DEF Settle
<1>5. Fed' /\ Flags'
  BY <1>4, FedKept DEF FlowInv, Flags
<1> QED
  BY <1>2, <1>3, <1>5 DEF MapsOK, Flow!Next, Flow!Results, Terminal

\* A defer: parked, or woken at once.
LEMMA FoldDeferredMaps ==
  ASSUME FlowInv, [Next]_vars, NEW n \in Node, FoldDeferred(n),
         pc # "exit", pc' \in {"top", "gate"}, runEnd' = runEnd
  PROVE  MapsOK
<1>1. /\ msg[n].ev = "deferred" /\ Received(n) /\ UNCHANGED <<status, paused>>
      /\ Journaled({<<"defer", n>>})
  BY DEF FoldDeferred
<1>2. life[n] = "running" /\ \A m \in Node : Holds(m)' <=> Holds(m) /\ m # n
  BY <1>1, ReceivedHolds
<1> DEFINE parked == [life EXCEPT ![n] = "deferred"]
<1>3. \A m \in Node : parked[m] = IF m = n THEN "deferred" ELSE life[m]
  BY FlowFacts
<1>4. \A m \in Node : WakeParked(parked)[m] \in {parked[m], "queued"}
                      /\ (WakeParked(parked)[m] # parked[m] => parked[m] = "deferred")
  BY DEF WakeParked
<1>5. \/ life' = WakeParked(parked)
      \/ life' = [WakeParked(parked) EXCEPT ![n] = "queued"]
      \/ life' = parked
  BY DEF FoldDeferred
<1>6. DOMAIN WakeParked(parked) = Node
  BY DEF WakeParked
<1> HIDE DEF parked
<1>7. \A m \in Node : IF m = n THEN life'[m] \in {"deferred", "queued"}
                      ELSE life'[m] = life[m] \/ (life[m] = "deferred" /\ life'[m] = "queued")
  BY <1>3, <1>4, <1>5, <1>6
<1>8. \A m \in Node : /\ life'[m] = "absent" <=> life[m] = "absent"
                      /\ life'[m] = "running" <=> life[m] = "running" /\ m # n
                      /\ life'[m] = "slotwait" => life[m] = "slotwait"
  BY <1>2, <1>7
<1>9. Flow!Record({})
  <2> DEFINE C == {<<"defer", n>>}
  <2>1. (\A c \in C : c[1] # "result") /\ ({"result"} \X {}) \cup C = C
    OBVIOUS
  <2>2. Journaled(({"result"} \X {}) \cup C)
    BY <2>1, <1>1
  <2> HIDE DEF C
  <2> QED
    BY <2>1, <2>2, FlowFacts, RecordMaps
<1>10. Flow!PutBack(n)
  BY <1>1, <1>2, <1>8, <1>9, PutBackMaps
<1>11. Fed' /\ Flags'
  BY <1>8, FedKept DEF FlowInv, Flags
<1> QED
  BY <1>10, <1>11 DEF MapsOK, Flow!Next

\* The verdict of a loop's expect command.
LEMMA FoldExpectedMaps ==
  ASSUME FlowInv, [Next]_vars, NEW n \in Node, FoldExpected(n),
         pc # "exit", pc' \in {"top", "gate"}, runEnd' = runEnd
  PROVE  MapsOK
<1>1. /\ msg[n].ev = "expected" /\ Received(n)
      /\ \/ Settle(n, "failed", FALSE) /\ UNCHANGED paused
         \/ /\ \E to \in {"queued", "pending"} : life' = [life EXCEPT ![n] = to]
            /\ paused' \in {paused, TRUE} /\ UNCHANGED <<status, journal, fatal>>
  BY DEF FoldExpected
<1>2. CASE Settle(n, "failed", FALSE) /\ UNCHANGED paused
  BY <1>1, <1>2, FoldSettleMaps
<1>3. ASSUME NEW to \in {"queued", "pending"}, life' = [life EXCEPT ![n] = to],
             paused' \in {paused, TRUE}, UNCHANGED <<status, journal, fatal>>
      PROVE  MapsOK
  <2>1. life[n] = "running" /\ \A m \in Node : Holds(m)' <=> Holds(m) /\ m # n
    BY <1>1, ReceivedHolds
  <2>2. \A m \in Node : life'[m] = IF m = n THEN to ELSE life[m]
    BY <1>3, FlowFacts
  <2>3. Flow!Record({})
    BY <1>3 DEF Flow!Record
  <2>4. Flow!PutBack(n)
    BY <1>3, <2>1, <2>2, <2>3, PutBackMaps
  <2>5. Fed' /\ Flags'
    BY <1>3, <2>2, FedKept DEF FlowInv, Flags
  <2> QED
    BY <2>4, <2>5 DEF MapsOK, Flow!Next
<1> QED
  BY <1>1, <1>2, <1>3

\* The items of a data source, or its failure.
LEMMA ExpandedMaps ==
  ASSUME FlowInv, [Next]_vars, NEW n \in Node, FoldExpanded(n),
         pc # "exit", pc' \in {"top", "gate"}, runEnd' = runEnd
  PROVE  MapsOK
<1>1. msg[n].ev = "expanded" /\ Received(n) /\ paused' = paused
  BY DEF FoldExpanded
<1>2. CASE ~msg[n].ok
  <2>1. Settle(n, "failed", FALSE)
    BY <1>2 DEF FoldExpanded
  <2> QED
    BY <2>1, <1>1, FoldSettleMaps
<1>3. CASE msg[n].ok
  <2> DEFINE is  == msg[n].items
             new == SpliceNodes(is)
             ed  == edge \cup SpliceEdges(n, is, edge)
             ind == SpliceIndeg(ed)
             lf  == SpliceLife(new, ind)
  <2>1. /\ is \in SUBSET {i \in Inst : InstGen[i] = n}
        /\ GraphInv(life, edge, indeg) /\ Fresh(life) /\ TypeOK /\ life[n] = "running"
    BY <1>1, ReceivedHolds, FlowFacts
    DEF FlowInv, AfterInv, FailRunInv, RunInv, IInv, FlightInv, OwnItems
  <2>2. /\ new = SpliceNodes(is) /\ ed = edge \cup SpliceEdges(n, is, edge)
        /\ ind = SpliceIndeg(ed) /\ lf = SpliceLife(new, ind)
        /\ is \subseteq {i \in Inst : InstGen[i] = n}
        /\ SettleOn(lf, ed, ind, n, "ok", FALSE)
    BY <2>1, <1>3 DEF FoldExpanded
  <2>3. \E S \in SUBSET ItemsOf[n] : Flow!Expand(n, S)
    BY <1>1, <1>3, ExpandMaps
  <2> HIDE DEF is, new, ed, ind, lf
  <2>5. /\ GraphInv(lf, ed, ind) /\ lf[n] = "running"
        /\ \A m \in Node : lf[m] = life[m] \/ lf[m] \in {"pending", "queued"}
    BY <2>1, <2>2, SpliceGraph
  <2>6. \A m \in Node : life'[m] = "slotwait" => lf[m] = "slotwait"
    <3>1. "ok" \in Terminal /\ FALSE \in BOOLEAN /\ lf[n] \notin {"absent", "pending", "done"}
      BY <2>5 DEF Terminal
    <3>2. TypeOK /\ GraphInv(lf, ed, ind) /\ SettleOn(lf, ed, ind, n, "ok", FALSE)
      BY <2>1, <2>2, <2>5
    <3>3. \A m \in Node : life'[m] \in {"slotwait", "running"} => life'[m] = lf[m]
      BY <3>1, <3>2, SettleStep
    <3> QED
      BY <3>3
  <2>7. \A m \in Node : life'[m] = "slotwait" => life[m] = "slotwait"
    BY <2>5, <2>6
  <2>8. Fed' /\ Flags'
    BY <2>7, FedKept DEF FlowInv, Flags
  <2> QED
    BY <2>3, <2>8 DEF MapsOK, Flow!Next
<1> QED
  BY <1>2, <1>3

\* A receive.
LEMMA ReceiveMaps ==
  ASSUME FlowInv, [Next]_vars, NEW n \in Node, Receive(n)
  PROVE  MapsOK
<1>1. /\ pc # "exit" /\ pc' \in {"top", "gate"} /\ runEnd' = runEnd
      /\ FoldSettled(n) \/ FoldDeferred(n) \/ FoldExpanded(n) \/ FoldExpected(n)
  BY DEF Receive, Continue
<1>2. CASE FoldSettled(n)
  <2>1. msg[n].ev = "settled" /\ Received(n) /\ paused' = paused
        /\ Settle(n, msg[n].status, msg[n].executed)
    BY <1>2 DEF FoldSettled
  <2>2. msg[n].status \in {"ok", "failed", "halted"} /\ msg[n].executed \in BOOLEAN
    BY <2>1, FlowFacts, EventFields
  <2> QED
    BY <2>1, <2>2, <1>1, FoldSettleMaps
<1> QED
  BY <1>1, <1>2, FoldDeferredMaps, ExpandedMaps, FoldExpectedMaps

\* Every step of the run loop is a step of the workflow or none of its, and keeps
\* what says so of the next.
LEMMA FlowStep ==
  FlowInv /\ [Next]_vars => FlowInv' /\ [Flow!Next]_(Flow!vars)
<1> SUFFICES ASSUME FlowInv, [Next]_vars PROVE FlowInv' /\ [Flow!Next]_(Flow!vars)
  OBVIOUS
<1>1. MapsOK
  <2>1. CASE \E n \in Node : Receive(n) \/ Wake(n)
    BY <2>1, ReceiveMaps, WakeMaps
  <2>2. CASE \E n \in Node : WorkerStep(n)
    BY <2>2, WorkMaps
  <2> QED
    BY <2>1, <2>2, QuietMaps, LaunchMaps, DispatchMaps, ExitMaps DEF Next, LoopStep
<1>2. AfterInv'
  BY AfterStep DEF FlowInv
<1>3. RunInv /\ (Moves \/ Settles \/ Splices) /\ edge \subseteq Order
  BY FailRunStep DEF FlowInv, AfterInv, FailRunInv
<1>4. edge' \subseteq Order
  <2>1. CASE Moves
    BY <1>3, <2>1 DEF Moves
  <2>2. CASE Settles
    BY <1>3, <2>2 DEF Settles, Settle, SettleOn
  <2>3. CASE Splices
    <3>1. PICK n \in Node : \E is \in SUBSET {i \in Inst : InstGen[i] = n} : Spliced(n, is)
      BY <2>3 DEF Splices
    <3>2. PICK is \in SUBSET {i \in Inst : InstGen[i] = n} : Spliced(n, is)
      BY <3>1
    <3>3. edge' = edge \cup SpliceEdges(n, is, edge)
      BY <3>2 DEF Spliced, SettleOn
    <3>4. SpliceEdges(n, is, edge) \subseteq Order
      BY <3>2, <1>3, SpliceOrdered
    <3> QED
      BY <3>3, <3>4, <1>3
  <2> QED
    BY <1>3, <2>1, <2>2, <2>3
<1> QED
  BY <1>1, <1>2, <1>4 DEF MapsOK, FlowInv

\* The graph of the entry IR starts in the order it declares.
LEMMA FlowInit ==
  Init => FlowInv /\ Flow!Init
<1> SUFFICES ASSUME Init PROVE FlowInv /\ Flow!Init
  OBVIOUS
<1>1. AfterInv
  BY AfterInit
<1>2. edge \subseteq Order
  <2>1. 0 \in Roots /\ edge = AddLevel(0)
    BY DEF Init, Roots
  <2> QED
    BY <2>1, LevelOrdered
<1>3. \A m \in Node : life[m] = IF m \notin InitNodes THEN "absent"
                                ELSE IF InitIndeg[m] = 0 THEN "queued" ELSE "pending"
  BY DEF Init
<1>4. Fed /\ Flags
  BY <1>3 DEF Fed, Flags, Init
<1>5. {m \in Node : life[m] # "absent"} = Below(0)
  BY <1>3 DEF InitNodes, Below
<1>6. Running = {} /\ {m \in Node : Holds(m)} = {}
  BY <1>3 DEF Running, Holds, Init, NoEvent
<1> QED
  BY <1>1, <1>2, <1>4, <1>5, <1>6 DEF FlowInv, Flow!Init, Init

\* The run loop implements the workflow: for all its edges, counters, queues,
\* pools and splices, every run is one that the declared order allows.
THEOREM WorkflowCorrect == Spec => KeepsWorkflow
<1> QED
  BY FlowInit, FlowStep, PTL DEF Spec, KeepsWorkflow, Flow!Spec

=============================================================================
