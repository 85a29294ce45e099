------------------------------ MODULE ExecGraph ------------------------------
(***************************************************************************)
(* The flattened execution graph (pipeline/graph.go).  A workflow arrives  *)
(* as an IR: levels of nodes with declared edges and condition             *)
(* dependencies, sub-workflow nodes carrying a level of their own, generate*)
(* nodes carrying one level per item of their data source.  addLevel turns *)
(* a level, and every level inlined in it, into readiness edges.           *)
(*                                                                         *)
(* Node ids are numbers and `<' is the order of the id heaps.  A level is  *)
(* named by 0 (the entry IR), by the sub-workflow node that inlines it, or *)
(* by a generate instance.  Path is what the code spells as an id prefix:  *)
(* the levels around a node, outermost first.                              *)
(***************************************************************************)
EXTENDS Naturals, Sequences, FiniteSets

CONSTANTS
  Node,      \* every node of the entry IR and of every possible instance
  Inst,      \* the instances the data sources may ask for
  Kind,      \* node -> "agent", "selector", "sub" or "generate"
  Path,      \* node -> its levels: 0 or an instance, then sub-workflow nodes
  Decl,      \* declared edges (data and ordering), pairs within one level
  Data,      \* the declared edges that carry a payload field
  Cond,      \* condition dependencies, pairs within one level
  InstGen,   \* instance -> the generate node it belongs to
  InstDeps   \* pairs <<j, i>> of instances: item i lists item j in its deps

Subs   == {n \in Node : Kind[n] = "sub"}
Roots  == {0} \cup Inst
Levels == Roots \cup Subs

ASSUME NodeAssumption == Node \subseteq Nat \ {0} /\ IsFiniteSet(Node)

\* Ids are unique, and an instance belongs to a generate node.
ASSUME InstAssumption ==
  /\ 0 \notin Inst /\ Inst \cap Node = {}
  /\ InstGen \in [Inst -> {g \in Node : Kind[g] = "generate"}]

\* An id prefix starts at a root and grows by one sub-workflow per level.
ASSUME PathAssumption ==
  \A n \in Node :
    /\ Path[n] \in Seq(Levels) /\ Path[n] # <<>> /\ Path[n][1] \in Roots
    /\ \A k \in 2..Len(Path[n]) : /\ Path[n][k] \in Subs
                                  /\ Path[Path[n][k]] = SubSeq(Path[n], 1, k - 1)

\* Declared edges and condition dependencies stay within a level.
ASSUME EdgeAssumption ==
  \A e \in Decl \cup Cond : e \in Node \X Node /\ Path[e[1]] = Path[e[2]]

LevelOf(n) == Path[n][Len(Path[n])]
NodesOf(l) == {n \in Node : LevelOf(n) = l}

\* levelEdges: declared edges and condition deps of one level
LevelEdges(l) == {e \in Decl \cup Cond : LevelOf(e[1]) = l /\ LevelOf(e[2]) = l}

LevelSources(l) == {n \in NodesOf(l) : \A e \in LevelEdges(l) : e[2] # n}
LevelSinks(l)   == {n \in NodesOf(l) : \A e \in LevelEdges(l) : e[1] # n}

\* The ids addLevel adds for a level: its own and those of inlined levels.
Below(l) == {n \in Node : \E k \in DOMAIN Path[n] : Path[n][k] = l}

\* g.members of a sub-workflow entry
Members(n) == IF n \in Subs THEN Below(n) ELSE {}

\* Mutant of DeepSinks: the sinks of inlined levels are not looked into.
DeepSinksShallow(l) == LevelSinks(l) \ Subs

\* deepSinks: the sinks of a level, a sub-workflow replaced by its own sinks:
\* the nodes that are a sink of their level and so is every entry around them.
DeepSinks(l) == {n \in Below(l) \ Subs :
                   \A x \in Below(l) : (x = n \/ n \in Members(x)) => x \in LevelSinks(LevelOf(x))}

\* addLevel: an entry gates its inner sources; declared edges and condition
\* deps order directly; whoever is declared after an entry also waits on the
\* entry's deep sinks.  The pair map makes this a set.
AddLevel(l) ==
  LET ids == Below(l) IN
       {e \in Decl \cup Cond : e[1] \in ids}
  \cup {e \in ids \X ids : e[1] \in Subs /\ e[2] \in LevelSources(e[1])}
  \cup {e \in ids \X ids :
           \E s \in Subs \cap ids : <<s, e[2]>> \in Decl /\ e[1] \in DeepSinks(s)}

-----------------------------------------------------------------------------
(* What the scheduler adds when generate node g is expanded to the set is  *)
(* of instances (applyExpansion): the instances' own edges, every sink of  *)
(* a dep before every source of the item that lists it, and every sink     *)
(* before every current dependent of g.                                    *)

SpliceNodes(is) == UNION {Below(i) : i \in is}

\* Mutant of SpliceEdges: the dependents of g are not rewired.
SpliceEdgesUnwired(g, is, edges) ==
       (UNION {AddLevel(i) : i \in is})
  \cup (UNION {DeepSinks(p[1]) \X LevelSources(p[2]) : p \in InstDeps \cap (is \X is)})

SpliceEdges(g, is, edges) ==
       (UNION {AddLevel(i) : i \in is})
  \cup (UNION {DeepSinks(p[1]) \X LevelSources(p[2]) : p \in InstDeps \cap (is \X is)})
  \cup (UNION {DeepSinks(i) : i \in is}) \X {d \in Node : <<g, d>> \in edges}

\* The loader refuses a cycle of declared edges and condition dependencies
\* (passAcyclic), an expansion one of items (checkItemCycles): every set of nodes,
\* or of instances, has one that none of the others precedes.
ASSUME AcyclicAssumption ==
  /\ \A T \in SUBSET Node : T # {} => \E n \in T : \A p \in T : <<p, n>> \notin Decl \cup Cond
  /\ \A J \in SUBSET Inst : J # {} => \E i \in J : \A j \in J : <<j, i>> \notin InstDeps

\* A workflow has a step, data travels along declared edges, a condition never
\* reads a sub-workflow, which has no output, and an item lists items of its own
\* data source.
ASSUME ShapeAssumption ==
  /\ \A l \in Levels : NodesOf(l) # {}
  /\ Data \subseteq Decl
  /\ \A e \in Cond : e[1] \notin Subs
  /\ \A d \in InstDeps : d \in Inst \X Inst /\ InstGen[d[1]] = InstGen[d[2]]

\* The generate node a spliced node is tagged with (execNode.gen), 0 if none.
GenOf(n) == IF Path[n][1] \in Inst THEN InstGen[Path[n][1]] ELSE 0
=============================================================================
