--------------------------- MODULE SchedulerProofs ---------------------------
(***************************************************************************)
(* The run loop's safety properties, proved for every workflow, every set  *)
(* of bounds and every interleaving of the loop with its workers.          *)
(*                                                                         *)
(* GraphInv is the invariant of the graph.  It speaks of a graph <lf, ed,  *)
(* ind> rather than of the variables, because applyExpansion settles the   *)
(* generate node on the graph it has just spliced.                         *)
(***************************************************************************)
EXTENDS SchedulerProps, FiniteSetTheorems, WellFoundedInduction, TLAPS

-----------------------------------------------------------------------------
(* Levels and readiness edges                                              *)

\* The levels around a node are a sequence; only the first is a root.
LEMMA PathFacts ==
  ASSUME NEW n \in Node
  PROVE  /\ Len(Path[n]) \in Nat \ {0}
         /\ DOMAIN Path[n] = 1..Len(Path[n])
         /\ Path[n][1] \in Roots
         /\ \A k \in 2..Len(Path[n]) : Path[n][k] \in Subs
         /\ \A k \in DOMAIN Path[n] : Path[n][k] \in Subs => k \in 2..Len(Path[n])
<1>1. /\ Path[n] \in Seq(Levels) /\ Path[n] # <<>>
      /\ Path[n][1] \in Roots
      /\ \A k \in 2..Len(Path[n]) : Path[n][k] \in Subs
  BY PathAssumption
<1>2. Len(Path[n]) \in Nat \ {0} /\ DOMAIN Path[n] = 1..Len(Path[n])
  BY <1>1
<1>3. \A x \in Subs : x \notin Roots
  BY NodeAssumption, InstAssumption DEF Subs, Roots
<1> QED
  BY <1>1, <1>2, <1>3

\* A member's levels extend the levels of the entry by the entry itself.
LEMMA MemberPrefix ==
  ASSUME NEW s \in Subs, NEW n \in Members(s)
  PROVE  \E k \in 2..Len(Path[n]) : /\ Path[n][k] = s
                                    /\ Len(Path[s]) = k - 1
                                    /\ \A j \in 1..(k - 1) : Path[s][j] = Path[n][j]
<1>1. n \in Node /\ \E k \in DOMAIN Path[n] : Path[n][k] = s
  BY DEF Members, Below
<1>2. PICK k \in DOMAIN Path[n] : Path[n][k] = s
  BY <1>1
<1>3. k \in 2..Len(Path[n]) /\ Len(Path[n]) \in Nat
  BY <1>1, <1>2, PathFacts
<1>4. Path[s] = SubSeq(Path[n], 1, k - 1) /\ Path[n] \in Seq(Levels)
  BY <1>1, <1>2, <1>3, PathAssumption
<1>5. Len(Path[s]) = k - 1 /\ \A j \in 1..(k - 1) : Path[s][j] = Path[n][j]
  BY <1>3, <1>4
<1> QED
  BY <1>2, <1>3, <1>5

\* A member of a member is a member.
LEMMA MembersTrans ==
  ASSUME NEW s \in Subs, NEW a \in Members(s), NEW b \in Members(a)
  PROVE  b \in Members(s)
<1>1. a \in Subs /\ b \in Node
  BY DEF Members, Below
<1>2. PICK k \in 2..Len(Path[b]) : Path[b][k] = a /\ Len(Path[a]) = k - 1
                                   /\ \A j \in 1..(k - 1) : Path[a][j] = Path[b][j]
  BY <1>1, MemberPrefix
<1>3. PICK i \in 2..Len(Path[a]) : Path[a][i] = s
  BY MemberPrefix
<1>4. Len(Path[b]) \in Nat /\ DOMAIN Path[b] = 1..Len(Path[b])
  BY <1>1, PathFacts
<1>5. i \in DOMAIN Path[b] /\ Path[b][i] = s
  BY <1>2, <1>3, <1>4
<1> QED
  BY <1>1, <1>5 DEF Members, Below

\* Two entries around the same node are one inside the other.
LEMMA MembersChain ==
  ASSUME NEW s \in Subs, NEW t \in Subs, NEW b \in Members(s), b \in Members(t)
  PROVE  s = t \/ s \in Members(t) \/ t \in Members(s)
<1>1. b \in Node /\ s \in Node /\ t \in Node
  BY DEF Members, Below, Subs
<1>2. PICK k \in 2..Len(Path[b]) : Path[b][k] = s /\ Len(Path[s]) = k - 1
                                   /\ \A j \in 1..(k - 1) : Path[s][j] = Path[b][j]
  BY MemberPrefix
<1>3. PICK i \in 2..Len(Path[b]) : Path[b][i] = t /\ Len(Path[t]) = i - 1
                                   /\ \A j \in 1..(i - 1) : Path[t][j] = Path[b][j]
  BY MemberPrefix
<1>4. Len(Path[b]) \in Nat /\ DOMAIN Path[s] = 1..Len(Path[s]) /\ DOMAIN Path[t] = 1..Len(Path[t])
  BY <1>1, PathFacts
<1>5. CASE i = k
  BY <1>2, <1>3, <1>5
<1>6. CASE i < k
  <2>1. i \in DOMAIN Path[s] /\ Path[s][i] = t
    BY <1>2, <1>3, <1>4, <1>6
  <2> QED
    BY <2>1, <1>1 DEF Members, Below
<1>7. CASE k < i
  <2>1. k \in DOMAIN Path[t] /\ Path[t][k] = s
    BY <1>2, <1>3, <1>4, <1>7
  <2> QED
    BY <2>1, <1>1 DEF Members, Below
<1> QED
  BY <1>2, <1>3, <1>4, <1>5, <1>6, <1>7

\* A member stands under the same root as its entry.
LEMMA MembersRoot ==
  ASSUME NEW s \in Subs, NEW m \in Members(s)
  PROVE  Path[m][1] = Path[s][1]
<1>1. PICK k \in 2..Len(Path[m]) : Len(Path[s]) = k - 1
                                   /\ \A j \in 1..(k - 1) : Path[s][j] = Path[m][j]
  BY MemberPrefix
<1>2. Len(Path[m]) \in Nat
  BY PathFacts DEF Members, Below
<1> QED
  BY <1>1, <1>2

\* The innermost level of a node is a root, or the entry it is a member of.
LEMMA LevelFacts ==
  ASSUME NEW n \in Node
  PROVE  \/ LevelOf(n) \in Roots /\ \A s \in Subs : n \notin Members(s)
         \/ /\ LevelOf(n) \in Subs /\ n \in Members(LevelOf(n))
            /\ \A s \in Subs : n \in Members(s) => s = LevelOf(n) \/ LevelOf(n) \in Members(s)
<1>1. /\ Len(Path[n]) \in Nat \ {0} /\ DOMAIN Path[n] = 1..Len(Path[n])
      /\ Path[n][1] \in Roots
      /\ \A k \in 2..Len(Path[n]) : Path[n][k] \in Subs
      /\ \A k \in DOMAIN Path[n] : Path[n][k] \in Subs => k \in 2..Len(Path[n])
  BY PathFacts
<1>2. CASE Len(Path[n]) = 1
  <2>1. LevelOf(n) \in Roots
    BY <1>1, <1>2 DEF LevelOf
  <2>2. \A s \in Subs : n \notin Members(s)
    BY <1>1, <1>2 DEF Members, Below
  <2> QED
    BY <2>1, <2>2
<1>3. CASE Len(Path[n]) # 1
  <2>0. Len(Path[n]) \in 2..Len(Path[n])
    <3> DEFINE k == Len(Path[n])
    <3>1. k \in Nat /\ k # 0 /\ k # 1
      BY <1>1, <1>3
    <3> HIDE DEF k
    <3>2. k \in 2..k
      BY <3>1
    <3> QED
      BY <3>2 DEF k
  <2>1. LevelOf(n) \in Subs
    BY <1>1, <2>0 DEF LevelOf
  <2>2. n \in Members(LevelOf(n))
    BY <2>0, <2>1, <1>1 DEF Members, Below, LevelOf
  <2>3. ASSUME NEW s \in Subs, n \in Members(s), s # LevelOf(n)
        PROVE  LevelOf(n) \in Members(s)
    <3>1. PICK k \in 2..Len(Path[n]) : Path[n][k] = s
      BY <2>3, MemberPrefix
    <3>2. k < Len(Path[n])
      BY <3>1, <2>3, <1>1 DEF LevelOf
    <3>3. Path[LevelOf(n)] = SubSeq(Path[n], 1, Len(Path[n]) - 1) /\ Path[n] \in Seq(Levels)
      BY <1>1, <1>3, PathAssumption DEF LevelOf
    <3>4. k \in DOMAIN Path[LevelOf(n)] /\ Path[LevelOf(n)][k] = s
      BY <3>1, <3>2, <3>3, <1>1
    <3> QED
      BY <3>4, <2>1 DEF Members, Below, Subs
  <2> QED
    BY <2>1, <2>2, <2>3
<1> QED
  BY <1>2, <1>3

\* The nodes of an instance, or of the entry IR, are those under that root.
LEMMA RootBelow ==
  ASSUME NEW r \in Roots
  PROVE  Below(r) = {n \in Node : Path[n][1] = r}
<1>1. ASSUME NEW n \in Node, NEW k \in DOMAIN Path[n], Path[n][k] = r
      PROVE  Path[n][1] = r
  <2>1. r \notin Subs
    BY NodeAssumption, InstAssumption DEF Subs, Roots
  <2>2. k \notin 2..Len(Path[n])
    BY <2>1, <1>1, PathFacts
  <2>3. k = 1
    BY <2>2, <1>1, PathFacts
  <2> QED
    BY <2>3, <1>1
<1>2. \A n \in Node : 1 \in DOMAIN Path[n]
  BY PathFacts
<1> QED
  BY <1>1, <1>2 DEF Below

-----------------------------------------------------------------------------
\* A declared edge keeps to the members of any entry around it, and to a root.
LEMMA SameLevel ==
  ASSUME NEW e \in Decl \cup Cond
  PROVE  /\ e[1] \in Node /\ e[2] \in Node /\ e = <<e[1], e[2]>>
         /\ \A s \in Subs : e[1] \in Members(s) <=> e[2] \in Members(s)
         /\ Path[e[1]][1] = Path[e[2]][1]
<1>1. e \in Node \X Node /\ Path[e[1]] = Path[e[2]]
  BY EdgeAssumption
<1> QED
  BY <1>1 DEF Members, Below

\* addLevel adds edges between nodes of the level, and no edge into a member
\* of a sub-workflow from outside it except from its own entry.
LEMMA AddLevelInto ==
  ASSUME NEW r \in Roots, NEW e \in AddLevel(r)
  PROVE  /\ e[1] \in Below(r) /\ e[2] \in Below(r) /\ e = <<e[1], e[2]>>
         /\ \A s \in Subs : e[2] \in Members(s) => e[1] = s \/ e[1] \in Members(s)
<1>1. CASE e \in Decl \cup Cond /\ e[1] \in Below(r)
  <2>1. Below(r) = {n \in Node : Path[n][1] = r}
    BY RootBelow
  <2> QED
    BY <1>1, <2>1, SameLevel
<1>2. CASE e \in Below(r) \X Below(r) /\ e[1] \in Subs /\ e[2] \in LevelSources(e[1])
  <2>1. e[2] \in Node /\ LevelOf(e[2]) = e[1] /\ e[1] \in Subs
    BY <1>2 DEF LevelSources, NodesOf
  <2>2. \A x \in Subs : x \notin Roots
    BY NodeAssumption, InstAssumption DEF Subs, Roots
  <2>3. \A s \in Subs : e[2] \in Members(s) => e[1] = s \/ e[1] \in Members(s)
    BY <2>1, <2>2, LevelFacts
  <2> QED
    BY <1>2, <2>3
<1>3. CASE e \in Below(r) \X Below(r)
           /\ \E t \in Subs \cap Below(r) : <<t, e[2]>> \in Decl /\ e[1] \in DeepSinks(t)
  <2>1. PICK t \in Subs \cap Below(r) : <<t, e[2]>> \in Decl /\ e[1] \in DeepSinks(t)
    BY <1>3
  <2>2. e[1] \in Members(t)
    BY <2>1 DEF DeepSinks, Members
  <2>3. ASSUME NEW s \in Subs, e[2] \in Members(s) PROVE e[1] \in Members(s)
    <3>1. <<t, e[2]>>[1] \in Members(s)
      BY <2>1, <2>3, SameLevel
    <3> QED
      BY <3>1, <2>2, MembersTrans
  <2> QED
    BY <1>3, <2>3
<1> QED
  BY <1>1, <1>2, <1>3 DEF AddLevel

\* addLevel adds every declared edge into its nodes, and an entry edge into
\* every source of an inlined level.
LEMMA AddLevelWires ==
  ASSUME NEW r \in Roots, NEW m \in Below(r)
  PROVE  /\ \A e \in Decl \cup Cond : e[2] = m => e \in AddLevel(r)
         /\ \A s \in Subs : m \in LevelSources(s) => <<s, m>> \in AddLevel(r)
<1>1. Below(r) = {n \in Node : Path[n][1] = r}
  BY RootBelow
<1>2. ASSUME NEW e \in Decl \cup Cond, e[2] = m PROVE e \in AddLevel(r)
  BY <1>1, <1>2, SameLevel DEF AddLevel
<1>3. ASSUME NEW s \in Subs, m \in LevelSources(s) PROVE <<s, m>> \in AddLevel(r)
  <2>1. m \in Node /\ LevelOf(m) = s
    BY <1>3 DEF LevelSources, NodesOf
  <2>2. \A x \in Subs : x \notin Roots /\ x \in Node
    BY NodeAssumption, InstAssumption DEF Subs, Roots
  <2>3. m \in Members(s)
    BY <2>1, <2>2, LevelFacts
  <2>4. s \in Below(r)
    BY <2>2, <2>3, <1>1, MembersRoot
  <2> QED
    BY <2>4, <1>3 DEF AddLevel
<1> QED
  BY <1>2, <1>3

\* A node that is not a source of its level has a declared edge within it.
LEMMA NotASource ==
  ASSUME NEW m \in Node, m \notin LevelSources(LevelOf(m))
  PROVE  \E e \in Decl \cup Cond : e[2] = m
  BY DEF LevelSources, LevelEdges, NodesOf

-----------------------------------------------------------------------------
\* A non-empty collection of sets of nodes has a smallest one.
LEMMA SmallestSet ==
  ASSUME NEW F, IsFiniteSet(F), NEW C \in SUBSET SUBSET F, C # {}
  PROVE  \E A \in C : \A B \in C : B \subseteq A => B = A
<1>1. C \subseteq FiniteSubsetsOf(F)
  BY FS_Subset DEF FiniteSubsetsOf
<1>2. PICK A \in C : \A B \in C : ~(<<B, A>> \in StrictSubsetOrdering(F))
  BY <1>1, FS_StrictSubsetOrderingWellFounded, WFMin
<1> QED
  BY <1>2 DEF StrictSubsetOrdering

\* In a finite set whose subsets all have a first element under R, every non-empty
\* subset has a last one too.
LEMMA LastElement ==
  ASSUME NEW F, IsFiniteSet(F), NEW R,
         \A T \in SUBSET F : T # {} => \E n \in T : \A p \in T : <<p, n>> \notin R,
         NEW T \in SUBSET F, T # {}
  PROVE  \E n \in T : \A p \in T : <<n, p>> \notin R
<1> SUFFICES ASSUME \A n \in T : \E p \in T : <<n, p>> \in R PROVE FALSE
  OBVIOUS
<1> DEFINE C == {A \in SUBSET F : A # {} /\ \A n \in A : \E p \in A : <<n, p>> \in R}
<1>1. T \in C /\ C \in SUBSET SUBSET F
  OBVIOUS
<1>2. \E A \in C : \A B \in C : B \subseteq A => B = A
  <2> HIDE DEF C
  <2> QED
    BY <1>1, SmallestSet
<1>3. PICK A \in C : \A B \in C : B \subseteq A => B = A
  BY <1>2
<1>4. A \in SUBSET F /\ A # {} /\ \A n \in A : \E p \in A : <<n, p>> \in R
  BY <1>3
<1>5. PICK n \in A : \A p \in A : <<p, n>> \notin R
  BY <1>4
<1> HIDE DEF C
<1>6. A \ {n} # {}
  <2>1. PICK p \in A : <<n, p>> \in R
    BY <1>4
  <2>2. p # n
    BY <2>1, <1>5
  <2> QED
    BY <2>1, <2>2
<1>7. ASSUME NEW m \in A \ {n} PROVE \E p \in A \ {n} : <<m, p>> \in R
  BY <1>4, <1>5
<1>8. A \ {n} \in SUBSET F
  BY <1>4
<1>9. A \ {n} \in C
  <2> DEFINE B == A \ {n}
  <2>1. B \in SUBSET F /\ B # {} /\ \A m \in B : \E p \in B : <<m, p>> \in R
    BY <1>6, <1>7, <1>8
  <2> HIDE DEF B
  <2>2. B \in C
    BY <2>1 DEF C
  <2> QED
    BY <2>2 DEF B
<1> QED
  BY <1>3, <1>5, <1>9

\* An entry is not a member of itself.
LEMMA NotOwnMember ==
  ASSUME NEW s \in Subs
  PROVE  s \notin Members(s)
<1> SUFFICES ASSUME s \in Members(s) PROVE FALSE
  OBVIOUS
<1>1. PICK k \in 2..Len(Path[s]) : Len(Path[s]) = k - 1
  BY MemberPrefix
<1>2. Len(Path[s]) \in Nat
  BY PathFacts DEF Subs
<1> QED
  BY <1>1, <1>2

\* What lies under a level lies in it or is a member of an entry of it.
LEMMA BelowSplit ==
  ASSUME NEW l \in Levels, NEW m \in Below(l)
  PROVE  \/ LevelOf(m) = l
         \/ \E x \in Subs : LevelOf(x) = l /\ x \in Below(l) /\ m \in Members(x)
<1>1. m \in Node /\ \E k \in DOMAIN Path[m] : Path[m][k] = l
  BY DEF Below
<1>2. PICK k \in DOMAIN Path[m] : Path[m][k] = l
  BY <1>1
<1>3. Len(Path[m]) \in Nat \ {0} /\ DOMAIN Path[m] = 1..Len(Path[m]) /\ Path[m] \in Seq(Levels)
  BY <1>1, PathFacts, PathAssumption
<1>4. CASE k = Len(Path[m])
  BY <1>2, <1>4 DEF LevelOf
<1>5. CASE k # Len(Path[m])
  <2> DEFINE x == Path[m][k + 1]
  <2>1. k + 1 \in 2..Len(Path[m]) /\ k + 1 \in DOMAIN Path[m] /\ (k + 1) - 1 = k
    BY <1>2, <1>3, <1>5
  <2>2. x \in Subs /\ Path[x] = SubSeq(Path[m], 1, k)
    BY <2>1, <1>1, PathAssumption
  <2>3. x \in Node /\ m \in Members(x)
    BY <2>1, <2>2, <1>1 DEF Members, Below, Subs
  <2>4. Len(Path[x]) = k /\ Path[x][k] = l /\ k \in DOMAIN Path[x]
    BY <2>2, <1>2, <1>3
  <2> QED
    BY <2>2, <2>3, <2>4 DEF LevelOf, Below
<1> QED
  BY <1>4, <1>5

\* The graph of a level without cycles, and of everything inlined in it, has none:
\* every set of its nodes has one that none of the others precedes.
LEMMA AddLevelAcyclic ==
  ASSUME NEW r \in Roots, NEW T \in SUBSET Below(r), T # {}
  PROVE  \E n \in T : \A p \in T : <<p, n>> \notin AddLevel(r)
<1>1. r \notin Subs /\ r \in Levels /\ Below(r) = {n \in Node : Path[n][1] = r}
  BY RootBelow, NodeAssumption, InstAssumption DEF Subs, Roots, Levels
<1> DEFINE Lv == {r} \cup {s \in Subs : s \in Below(r) /\ s \notin T /\ T \cap Members(s) # {}}
           C  == {Below(l) : l \in Lv}
<1>2. PICK l \in Lv : \A k \in Lv : Below(k) \subseteq Below(l) => Below(k) = Below(l)
  <2>0. IsFiniteSet(Node) /\ r \in Lv
    BY NodeAssumption
  <2>1. C \in SUBSET SUBSET Node /\ C # {}
    <3>1. \A k \in Lv : Below(k) \in SUBSET Node
      BY DEF Below
    <3> HIDE DEF Lv
    <3> QED
      BY <2>0, <3>1
  <2>2. \E A \in C : \A B \in C : B \subseteq A => B = A
    <3> HIDE DEF C, Lv
    <3> QED
      BY <2>0, <2>1, SmallestSet
  <2>3. PICK A \in C : \A B \in C : B \subseteq A => B = A
    BY <2>2
  <2>4. PICK l \in Lv : A = Below(l)
    BY <2>3
  <2>5. \A k \in Lv : Below(k) \in C
    OBVIOUS
  <2> HIDE DEF C, Lv
  <2> QED
    BY <2>3, <2>4, <2>5
<1>3. l \in Levels /\ T \cap Below(l) # {} /\ (l \in Subs => l \notin T) /\ Below(l) \subseteq Below(r)
  <2>1. CASE l = r
    BY <2>1, <1>1
  <2>2. CASE l \in Subs /\ l \in Below(r) /\ l \notin T /\ T \cap Members(l) # {}
    BY <2>2, <1>1, MembersRoot DEF Members, Below, Levels
  <2> QED
    BY <2>1, <2>2
<1> DEFINE N == {x \in Below(r) : LevelOf(x) = l /\ (x \in T \/ T \cap Members(x) # {})}
<1>4. N # {}
  <2>1. PICK m \in T : m \in Below(l)
    BY <1>3
  <2>2. LevelOf(m) = l \/ \E x \in Subs : LevelOf(x) = l /\ x \in Below(l) /\ m \in Members(x)
    BY <2>1, <1>3, BelowSplit
  <2> QED
    BY <2>1, <2>2, <1>3
<1>5. PICK x \in N : \A p \in N : <<p, x>> \notin Decl \cup Cond
  BY <1>4, AcyclicAssumption DEF Below
<1>6. CASE x \in T
  <2>1. ASSUME NEW p \in T, <<p, x>> \in AddLevel(r) PROVE FALSE
    <3>1. CASE <<p, x>> \in Decl \cup Cond
      <4>1. Path[p] = Path[x]
        BY <3>1, EdgeAssumption
      <4> QED
        BY <4>1, <3>1, <1>5 DEF LevelOf
    <3>2. CASE p \in Subs /\ x \in LevelSources(p)
      <4>1. LevelOf(x) = p
        BY <3>2 DEF LevelSources, NodesOf
      <4> QED
        BY <4>1, <3>2, <1>3
    <3>3. CASE \E s \in Subs \cap Below(r) : <<s, x>> \in Decl /\ p \in DeepSinks(s)
      <4>1. PICK s \in Subs \cap Below(r) : <<s, x>> \in Decl /\ p \in DeepSinks(s)
        BY <3>3
      <4>2. Path[s] = Path[x] /\ p \in Members(s)
        BY <4>1, EdgeAssumption DEF DeepSinks, Members
      <4>3. s \in N
        BY <4>1, <4>2 DEF LevelOf
      <4> QED
        BY <4>1, <4>3, <1>5
    <3> QED
      BY <2>1, <3>1, <3>2, <3>3 DEF AddLevel
  <2> QED
    BY <2>1, <1>6
<1>7. CASE x \notin T
  <2>1. x \in Node /\ x \in Subs /\ x \in Lv /\ LevelOf(x) = l
    BY <1>7 DEF Members, Below
  <2>2. x \in Below(l)
    BY <2>1, PathFacts DEF Below, LevelOf
  <2>3. Below(x) \subseteq Below(l)
    <3>1. CASE l \in Subs
      BY <3>1, <2>1, <2>2, MembersTrans DEF Members
    <3>2. CASE l = r
      BY <3>2, <2>1, <2>2, <1>1, MembersRoot DEF Members, Below
    <3> QED
      BY <3>1, <3>2
  <2>4. x \notin Below(x)
    BY <2>1, NotOwnMember DEF Members
  <2> QED
    BY <2>1, <2>2, <2>3, <2>4, <1>2
<1> QED
  BY <1>6, <1>7

-----------------------------------------------------------------------------
(* The invariant of the graph                                              *)

\* indeg counts the predecessors that have not settled (IndegExact).
Counted(lf, ed, ind) ==
  \A d \in Node : ind[d] = Cardinality({p \in Node : <<p, d>> \in ed /\ lf[p] # "done"})

\* Nothing inside a sub-workflow is released before its entry settled.
Enclosed(lf) ==
  \A s \in Subs : \A m \in Members(s) : lf[m] \notin {"absent", "pending"} => lf[s] = "done"

\* Until its entry settled, edges into a sub-workflow start in it or at it.
Guarded(lf, ed) ==
  \A e \in ed : \A s \in Subs :
    e[2] \in Members(s) => e[1] = s \/ e[1] \in Members(s) \/ lf[s] = "done"

\* The nodes in the graph have their declared edges and entry edges.
Wired(lf, ed) ==
  \A m \in Node : lf[m] # "absent" =>
    /\ \A e \in Decl \cup Cond : e[2] = m => e \in ed
    /\ \A s \in Subs : m \in LevelSources(s) => <<s, m>> \in ed

\* The nodes under a root are added together.
Together(lf) ==
  \A m, k \in Node : Path[m][1] = Path[k][1] => (lf[m] = "absent" <=> lf[k] = "absent")

GraphInv(lf, ed, ind) ==
  /\ lf \in [Node -> Lives] /\ ed \in SUBSET (Node \X Node) /\ ind \in [Node -> Nat]
  /\ Counted(lf, ed, ind)
  /\ Enclosed(lf)
  /\ Guarded(lf, ed)
  /\ Wired(lf, ed)
  /\ Together(lf)

\* Instances are in the graph only after their generate node settled.
Fresh(lf) ==
  \A m \in Node : lf[m] # "absent" /\ Path[m][1] \in Inst => lf[InstGen[Path[m][1]]] = "done"

\* A node is running exactly while its worker, or the worker's event, is out.
InFlight ==
  \A n \in Node : /\ life[n] = "running" <=> worker[n] # "none" \/ msg[n] # NoEvent
                  /\ worker[n] = "none" \/ msg[n] = NoEvent

\* The items of an expansion are instances of the node that asked for them.
OwnItems ==
  \A n \in Node : msg[n].ev = "expanded" =>
    msg[n].items \subseteq {i \in Inst : InstGen[i] = n}

\* The passes of a drain are only entered unpaused.
DrainsUnpaused == pc \in {"grant", "ready"} => ~paused

\* The invariant of the workers, their events and the counters over them.
FlightInv ==
  /\ InFlight
  /\ OwnItems
  /\ outstanding = Cardinality(Running)
  /\ PoolsExact

\* The inductive invariant.
IInv ==
  /\ TypeOK
  /\ GraphInv(life, edge, indeg)
  /\ Fresh(life)
  /\ FlightInv
  /\ DrainsUnpaused
  /\ pc = "exit" => outstanding = 0

-----------------------------------------------------------------------------
\* The least element of a set of ids is one of its members.
LEMMA LeastIn ==
  ASSUME NEW S, S \subseteq Nat, S # {}
  PROVE  Least(S) \in S
<1>1. \E x \in S : \A y \in S : ~(<<y, x>> \in OpToRel(<, Nat))
  BY NatLessThanWellFounded, WFMin
<1>2. PICK x \in S : \A y \in S : ~(<<y, x>> \in OpToRel(<, Nat))
  BY <1>1
<1>3. ASSUME NEW y \in S PROVE x <= y
  <2>1. x \in Nat /\ y \in Nat
    OBVIOUS
  <2>2. ~(y < x)
    BY <1>2, <2>1 DEF OpToRel
  <2> QED
    BY <2>1, <2>2
<1> QED
  BY <1>3 DEF Least

\* Sets of nodes are finite and have a cardinality.
LEMMA NodeSets ==
  ASSUME NEW S, S \subseteq Node
  PROVE  IsFiniteSet(S) /\ Cardinality(S) \in Nat
  BY NodeAssumption, FS_Subset, FS_CardinalityType

\* Removing the part of a set that lies in S.
LEMMA NodeSetMinus ==
  ASSUME NEW A, A \subseteq Node, NEW B, B \subseteq A
  PROVE  Cardinality(A \ B) = Cardinality(A) - Cardinality(B)
<1>1. A \cap B = B
  OBVIOUS
<1>2. IsFiniteSet(A)
  BY NodeSets
<1> QED
  BY <1>1, <1>2, FS_Difference

\* The union of two disjoint sets of nodes.
LEMMA NodeSetUnion ==
  ASSUME NEW A, A \subseteq Node, NEW B, B \subseteq Node, A \cap B = {}
  PROVE  Cardinality(A \cup B) = Cardinality(A) + Cardinality(B)
<1>1. IsFiniteSet(A) /\ IsFiniteSet(B) /\ Cardinality(A) \in Nat /\ Cardinality(B) \in Nat
  BY NodeSets
<1>2. Cardinality(A \cup B) = Cardinality(A) + Cardinality(B) - Cardinality(A \cap B)
  BY <1>1, FS_Union
<1>3. Cardinality(A \cap B) = 0
  BY FS_EmptySet
<1> QED
  BY <1>1, <1>2, <1>3

\* One node more, one node less.
LEMMA NodeSetStep ==
  ASSUME NEW A, A \subseteq Node, NEW n \in Node
  PROVE  /\ n \notin A => Cardinality(A \cup {n}) = Cardinality(A) + 1
         /\ n \in A => Cardinality(A \ {n}) = Cardinality(A) - 1 /\ Cardinality(A) > 0
<1>1. IsFiniteSet(A) /\ Cardinality(A) \in Nat
  BY NodeSets
<1>2. n \notin A => Cardinality(A \cup {n}) = Cardinality(A) + 1
  BY <1>1, FS_AddElement
<1>3. n \in A => Cardinality(A \ {n}) = Cardinality(A) - 1
  BY <1>1, FS_RemoveElement
<1>4. n \in A => Cardinality(A) # 0
  BY <1>1, FS_EmptySet
<1> QED
  BY <1>1, <1>2, <1>3, <1>4

-----------------------------------------------------------------------------
\* propagate's closure: a set of open nodes, closed under Spreads, and the
\* least such set.
LEMMA DoomedFacts ==
  ASSUME NEW lf, NEW ed, NEW n \in Node
  PROVE  /\ Doomed(lf, ed, n) \subseteq Open(lf) \ {n}
         /\ \A a \in Doomed(lf, ed, n) \cup {n}, b \in Open(lf) \ {n} :
               Spreads(lf, ed, a, b) => b \in Doomed(lf, ed, n)
         /\ \A T \in SUBSET (Open(lf) \ {n}) :
              (\A a \in T \cup {n}, b \in Open(lf) \ {n} : Spreads(lf, ed, a, b) => b \in T)
                 => Doomed(lf, ed, n) \subseteq T
<1> DEFINE open == Open(lf) \ {n}
           next == [a \in open \cup {n} |-> {b \in open : Spreads(lf, ed, a, b)}]
           Closed(T) == \A a \in T \cup {n} : next[a] \subseteq T
           D == {m \in open : \A T \in SUBSET open : Closed(T) => m \in T}
<1>1. Doomed(lf, ed, n) = D
  BY DEF Doomed
<1>2. ASSUME NEW T \in SUBSET open
      PROVE  Closed(T) <=> \A a \in T \cup {n}, b \in open : Spreads(lf, ed, a, b) => b \in T
  OBVIOUS
<1>3. ASSUME NEW a \in D \cup {n}, NEW b \in open, Spreads(lf, ed, a, b)
      PROVE  b \in D
  <2>1. ASSUME NEW T \in SUBSET open, Closed(T) PROVE b \in T
    BY <2>1, <1>2, <1>3
  <2> QED
    BY <2>1
<1>4. ASSUME NEW T \in SUBSET open,
             \A a \in T \cup {n}, b \in open : Spreads(lf, ed, a, b) => b \in T
      PROVE  D \subseteq T
  BY <1>2, <1>4
<1> QED
  BY <1>1, <1>3, <1>4

\* What finish settles along with n: open nodes that were waiting (no worker
\* is ever cut off), and with a member of an open sub-workflow its entry.
LEMMA CascadeFacts ==
  ASSUME NEW lf, NEW ed, NEW ind, GraphInv(lf, ed, ind),
         NEW n \in Node, lf[n] \notin {"absent", "pending", "done"}, NEW st
  PROVE  /\ Cascade(lf, ed, n, st) \subseteq Open(lf)
         /\ \A m \in Cascade(lf, ed, n, st) \ {n} : lf[m] \in {"pending", "queued"}
         /\ \A m \in Cascade(lf, ed, n, st) : \A s \in Subs :
              m \in Members(s) => s \in Cascade(lf, ed, n, st) \cup {n} \/ lf[s] = "done"
<1> DEFINE C == Cascade(lf, ed, n, st)
           open == Open(lf) \ {n}
<1>1. Enclosed(lf) /\ Guarded(lf, ed) /\ Together(lf) /\ lf \in [Node -> Lives]
  BY DEF GraphInv
<1>2. \A a \in Node : Members(a) \subseteq Node /\ (Members(a) # {} => a \in Subs)
  BY DEF Members, Below
<1>3. \A a \in open \cup {n} : a \in Node /\ lf[a] # "done"
  BY DEF Open
<1>4. \A a \in open \cup {n}, b \in open : b \in Members(a) => lf[b] = "pending"
  BY <1>1, <1>2, <1>3 DEF Enclosed, Open
<1>5. ASSUME NEW a \in open \cup {n}, NEW b \in open, b \in Members(a),
             NEW s \in Subs, b \in Members(s)
      PROVE  \/ s = a \/ lf[s] = "done"
             \/ a \in Members(s)
             \/ s \in open /\ s \in Members(a)
             \/ s = n
  <2>1. a \in Subs /\ s \in Node /\ b \in Node
    BY <1>2, <1>3, <1>5 DEF Subs
  <2>2. s = a \/ s \in Members(a) \/ a \in Members(s)
    BY <2>1, <1>5, MembersChain
  <2>3. Path[s][1] = Path[b][1]
    BY <1>5, MembersRoot
  <2>4. lf[s] # "absent"
    BY <2>1, <2>3, <1>1, <1>5 DEF Together, Open
  <2>5. s \in open \/ s = n \/ lf[s] = "done"
    BY <2>1, <2>4, <1>1 DEF Open
  <2> QED
    BY <2>2, <2>5
<1>6. \A s \in Subs : n \in Members(s) => lf[s] = "done"
  BY <1>1 DEF Enclosed
<1>7. CASE st \in {"failed", "halted"}
  <2>1. C = Doomed(lf, ed, n)
    BY <1>7 DEF Cascade
  <2> HIDE DEF C
  <2>2. /\ C \subseteq open
        /\ \A a \in C \cup {n}, b \in open : Spreads(lf, ed, a, b) => b \in C
        /\ \A T \in SUBSET open :
             (\A a \in T \cup {n}, b \in open : Spreads(lf, ed, a, b) => b \in T) => C \subseteq T
    BY <2>1, DoomedFacts
  <2>3. C \subseteq Waiting(lf)
    <3> DEFINE T == open \cap Waiting(lf)
    <3>1. ASSUME NEW a \in T \cup {n}, NEW b \in open, Spreads(lf, ed, a, b)
          PROVE  b \in T
      BY <3>1, <1>3, <1>4 DEF Spreads, Waiting
    <3> QED
      BY <3>1, <2>2
  <2>4. \A m \in C : \A s \in Subs : m \in Members(s) => s \in C \cup {n} \/ lf[s] = "done"
    <3> DEFINE T == {m \in C : \A s \in Subs : m \in Members(s) => s \in C \cup {n} \/ lf[s] = "done"}
    <3>1. ASSUME NEW a \in T \cup {n}, NEW b \in open, Spreads(lf, ed, a, b),
                 NEW s \in Subs, b \in Members(s)
          PROVE  s \in C \cup {n} \/ lf[s] = "done"
      <4>1. a \in C \cup {n} /\ a \in open \cup {n}
        BY <2>2
      <4>2. a \in Members(s) => s \in C \cup {n} \/ lf[s] = "done"
        BY <1>6
      <4>3. CASE <<a, b>> \in ed
        <5>1. a = s \/ a \in Members(s) \/ lf[s] = "done"
          BY <4>3, <3>1, <1>1 DEF Guarded
        <5> QED
          BY <5>1, <4>1, <4>2
      <4>4. CASE b \in Members(a)
        <5>1. s = a \/ lf[s] = "done" \/ a \in Members(s)
              \/ (s \in open /\ s \in Members(a)) \/ s = n
          BY <4>1, <4>4, <3>1, <1>5
        <5>2. s \in open /\ s \in Members(a) => s \in C
          BY <4>1, <2>2 DEF Spreads
        <5> QED
          BY <5>1, <5>2, <4>1, <4>2
      <4> QED
        BY <4>3, <4>4, <3>1 DEF Spreads
    <3>2. ASSUME NEW a \in T \cup {n}, NEW b \in open, Spreads(lf, ed, a, b)
          PROVE  b \in T
      BY <3>1, <3>2, <2>2
    <3>3. T \in SUBSET open
      BY <2>2
    <3>4. C \subseteq T
      BY <3>2, <3>3, <2>2
    <3> QED
      BY <3>4
  <2> QED
    BY <2>2, <2>3, <2>4 DEF Waiting, C
<1>8. CASE st = "ok"
  BY <1>8 DEF Cascade
<1>9. CASE st \notin {"failed", "halted", "ok"}
  <2>1. C = Open(lf) \cap Members(n)
    BY <1>9 DEF Cascade
  <2>2. \A m \in C \ {n} : lf[m] = "pending"
    BY <2>1, <1>4
  <2>3. ASSUME NEW m \in C, NEW s \in Subs, m \in Members(s)
        PROVE  s \in C \cup {n} \/ lf[s] = "done"
    <3>1. CASE m = n
      BY <3>1, <2>3, <1>6
    <3>2. CASE m # n
      <4>1. s = n \/ lf[s] = "done" \/ n \in Members(s) \/ (s \in open /\ s \in Members(n))
        BY <3>2, <2>1, <2>3, <1>5
      <4> QED
        BY <4>1, <2>1, <1>6
    <3> QED
      BY <3>1, <3>2
  <2> QED
    BY <2>1, <2>2, <2>3
<1> QED
  BY <1>7, <1>8, <1>9

\* finish keeps the graph's invariant: in-degrees stay exact over the whole
\* cascade, and a node whose last predecessor settled may be released.
LEMMA SettleGraph ==
  ASSUME NEW lf, NEW ed, NEW ind, GraphInv(lf, ed, ind),
         NEW n \in Node, lf[n] \notin {"absent", "pending", "done"}, NEW st,
         NEW S, S = {n} \cup Cascade(lf, ed, n, st),
         NEW ind2, ind2 = DropIndeg(S, ed, ind),
         NEW lf2, lf2 = LifeAfter(S, lf, ed, ind2)
  PROVE  /\ GraphInv(lf2, ed, ind2)
         /\ S \subseteq Node
         /\ \A m \in Node : /\ lf2[m] = "done" <=> lf[m] = "done" \/ m \in S
                            /\ lf2[m] = "absent" <=> lf[m] = "absent"
                            /\ lf2[m] = "running" <=> lf[m] = "running" /\ m # n
                            /\ lf2[m] \in {"slotwait", "running"} => lf2[m] = lf[m]
                            /\ lf[m] = "done" => m \notin S
<1>1. /\ lf \in [Node -> Lives] /\ ed \in SUBSET (Node \X Node) /\ ind \in [Node -> Nat]
      /\ Counted(lf, ed, ind) /\ Enclosed(lf) /\ Guarded(lf, ed) /\ Wired(lf, ed) /\ Together(lf)
  BY DEF GraphInv
<1>2. /\ S \subseteq Open(lf) /\ n \in S
      /\ \A m \in S \ {n} : lf[m] \in {"pending", "queued"}
      /\ \A m \in S \ {n} : \A s \in Subs : m \in Members(s) => s \in S \/ lf[s] = "done"
  <2>1. n \in Open(lf)
    BY DEF Open
  <2> QED
    BY <2>1, CascadeFacts
<1>3. lf2 \in [Node -> Lives]
  BY <1>1 DEF LifeAfter, Lives
<1>4. S \subseteq Node /\ \A m \in S : lf[m] \notin {"absent", "done"}
  BY <1>2 DEF Open
<1>5. \A m \in Node : /\ lf2[m] = "done" <=> lf[m] = "done" \/ m \in S
                      /\ lf2[m] = "absent" <=> lf[m] = "absent"
                      /\ lf2[m] = "running" <=> lf[m] = "running" /\ m # n
                      /\ lf2[m] \in {"slotwait", "running"} => lf2[m] = lf[m]
                      /\ lf[m] = "done" => m \notin S
  BY <1>2, <1>4 DEF LifeAfter
<1>6. ASSUME NEW d \in Node
      PROVE  /\ ind2[d] \in Nat
             /\ ind2[d] = Cardinality({p \in Node : <<p, d>> \in ed /\ lf2[p] # "done"})
  <2> DEFINE A == {p \in Node : <<p, d>> \in ed /\ lf[p] # "done"}
             B == {p \in S : <<p, d>> \in ed}
  <2>1. B \subseteq A /\ A \subseteq Node
    BY <1>4
  <2>2. A \ B = {p \in Node : <<p, d>> \in ed /\ lf2[p] # "done"}
    BY <1>5
  <2>3. ind2[d] = ind[d] - Cardinality(B) /\ ind[d] = Cardinality(A)
    BY <1>1 DEF DropIndeg, Counted
  <2>4. Cardinality(A \ B) = Cardinality(A) - Cardinality(B)
    BY <2>1, NodeSetMinus
  <2>5. A \ B \subseteq Node
    BY <2>1
  <2>6. Cardinality(A \ B) \in Nat
    BY <2>5, NodeSets
  <2> QED
    BY <2>2, <2>3, <2>4, <2>6
<1>7. ind2 \in [Node -> Nat] /\ Counted(lf2, ed, ind2)
  <2>1. ind2 = [d \in Node |-> ind2[d]]
    BY DEF DropIndeg
  <2> QED
    BY <2>1, <1>6 DEF Counted
<1>8. ASSUME NEW s \in Subs, NEW m \in Members(s), lf2[m] \notin {"absent", "pending"}
      PROVE  lf2[s] = "done"
  <2>1. s \in Node /\ m \in Node
    BY DEF Subs, Members, Below
  <2>2. ASSUME NEW x \in Members(s), x \in S \/ lf[x] \notin {"absent", "pending"}
        PROVE  lf2[s] = "done"
    BY <2>2, <2>1, <1>1, <1>2, <1>5 DEF Enclosed
  <2>3. CASE m \in S \/ lf[m] # "pending"
    BY <2>1, <2>2, <2>3, <1>5, <1>8
  <2>4. CASE m \notin S /\ lf[m] = "pending"
    <3>1. ind2[m] = 0
      BY <2>1, <2>4, <1>8 DEF LifeAfter
    <3>2. \A p \in Node : <<p, m>> \in ed => lf2[p] = "done"
      <4> DEFINE P == {p \in Node : <<p, m>> \in ed /\ lf2[p] # "done"}
      <4>1. IsFiniteSet(P) /\ Cardinality(P) = 0
        BY <3>1, <2>1, <1>6, NodeSets
      <4>2. P = {}
        BY <4>1, FS_EmptySet
      <4> QED
        BY <4>2
    <3>3. \A x \in Members(s) : x \in Node /\ <<x, m>> \in ed => lf2[s] = "done"
      BY <2>2, <3>2, <1>5
    <3>4. CASE m \in LevelSources(LevelOf(m))
      <4>1. /\ LevelOf(m) \in Subs /\ LevelOf(m) \in Node
            /\ s = LevelOf(m) \/ LevelOf(m) \in Members(s)
        BY <2>1, LevelFacts DEF Subs
      <4>2. <<LevelOf(m), m>> \in ed
        BY <4>1, <3>4, <2>1, <2>4, <1>1 DEF Wired
      <4> QED
        BY <4>1, <4>2, <3>2, <3>3
    <3>5. CASE m \notin LevelSources(LevelOf(m))
      <4>1. PICK e \in Decl \cup Cond : e[2] = m
        BY <3>5, <2>1, NotASource
      <4>2. e \in ed
        BY <4>1, <2>1, <2>4, <1>1 DEF Wired
      <4>3. e[1] \in Node /\ e[1] \in Members(s) /\ e = <<e[1], m>>
        BY <4>1, SameLevel
      <4> QED
        BY <4>2, <4>3, <3>3
    <3> QED
      BY <3>4, <3>5
  <2> QED
    BY <2>3, <2>4
<1>9. Enclosed(lf2)
  BY <1>8 DEF Enclosed
<1>10. Guarded(lf2, ed)
  BY <1>1, <1>5 DEF Guarded, Subs
<1>11. Wired(lf2, ed)
  BY <1>1, <1>5 DEF Wired
<1>12. Together(lf2)
  BY <1>1, <1>5 DEF Together
<1> QED
  BY <1>1, <1>3, <1>4, <1>5, <1>7, <1>9, <1>10, <1>11, <1>12 DEF GraphInv

\* applyExpansion's splice keeps it too, before the generate node settles: the
\* instances are new, their edges and the rewired ones are counted once, and a
\* dependent of the generate node is behind every sink of every instance.
LEMMA SpliceGraph ==
  ASSUME GraphInv(life, edge, indeg), Fresh(life),
         NEW n \in Node, life[n] = "running",
         NEW is, is \subseteq {i \in Inst : InstGen[i] = n},
         NEW new, new = SpliceNodes(is),
         NEW ed, ed = edge \cup SpliceEdges(n, is, edge),
         NEW ind, ind = SpliceIndeg(ed),
         NEW lf, lf = SpliceLife(new, ind)
  PROVE  /\ GraphInv(lf, ed, ind)
         /\ lf[n] = "running"
         /\ \A m \in Node : \/ m \notin new /\ lf[m] = life[m]
                            \/ m \in new /\ life[m] = "absent" /\ lf[m] \in {"pending", "queued"}
         /\ \A m \in new : Path[m][1] \in Inst /\ InstGen[Path[m][1]] = n
<1>1. /\ life \in [Node -> Lives] /\ edge \in SUBSET (Node \X Node) /\ indeg \in [Node -> Nat]
      /\ Counted(life, edge, indeg) /\ Enclosed(life) /\ Guarded(life, edge)
      /\ Wired(life, edge) /\ Together(life)
  BY DEF GraphInv
<1>2. is \subseteq Roots /\ is \subseteq Inst
  BY DEF Roots
<1>3. new = {m \in Node : Path[m][1] \in is}
  BY <1>2, RootBelow DEF SpliceNodes
<1>4. \A m \in new : Path[m][1] \in Inst /\ InstGen[Path[m][1]] = n
  BY <1>3
<1>5. \A m \in new : life[m] = "absent"
  BY <1>3, <1>4 DEF Fresh
<1>6. \A m \in Node : \/ m \notin new /\ lf[m] = life[m]
                      \/ m \in new /\ life[m] = "absent" /\ lf[m] \in {"pending", "queued"}
  BY <1>5 DEF SpliceLife
<1>7. lf[n] = "running" /\ lf \in [Node -> Lives]
  <2>1. lf = [m \in Node |-> lf[m]]
    BY DEF SpliceLife
  <2>2. \A m \in Node : lf[m] \in Lives
    BY <1>1, <1>6 DEF Lives
  <2>3. lf[n] = "running"
    BY <1>6
  <2> QED
    BY <2>1, <2>2, <2>3
<1>8. is # {} => n \notin Subs
  BY InstAssumption DEF Subs
<1>9. ASSUME NEW e \in SpliceEdges(n, is, edge)
      PROVE  /\ e[1] \in new /\ e \in Node \X Node
             /\ \A s \in Subs : e[2] \in Members(s) => e[1] = s \/ e[1] \in Members(s) \/ life[s] = "done"
  <2>1. ASSUME NEW i \in is PROVE DeepSinks(i) \subseteq Below(i) /\ Below(i) \subseteq new /\ i \in Roots
    BY <1>2 DEF DeepSinks, SpliceNodes
  <2>2. new \subseteq Node
    BY <1>3
  <2>3. CASE \E i \in is : e \in AddLevel(i)
    <3>1. PICK i \in is : e \in AddLevel(i)
      BY <2>3
    <3>2. /\ e[1] \in Below(i) /\ e[2] \in Below(i) /\ e = <<e[1], e[2]>>
          /\ \A s \in Subs : e[2] \in Members(s) => e[1] = s \/ e[1] \in Members(s)
      BY <3>1, <2>1, AddLevelInto
    <3> QED
      BY <3>2, <2>1, <2>2
  <2>4. CASE \E p \in InstDeps \cap (is \X is) : e \in DeepSinks(p[1]) \X LevelSources(p[2])
    <3>1. PICK p \in InstDeps \cap (is \X is) : e \in DeepSinks(p[1]) \X LevelSources(p[2])
      BY <2>4
    <3>2. p[1] \in is /\ p[2] \in is /\ e[1] \in new /\ e[2] \in Node /\ LevelOf(e[2]) = p[2]
      BY <3>1, <2>1 DEF LevelSources, NodesOf
    <3>3. LevelOf(e[2]) \notin Subs
      BY <3>2, InstAssumption DEF Subs
    <3>4. \A s \in Subs : e[2] \notin Members(s)
      BY <3>2, <3>3, LevelFacts
    <3> QED
      BY <3>1, <3>2, <3>4, <2>2
  <2>5. CASE e \in (UNION {DeepSinks(i) : i \in is}) \X {d \in Node : <<n, d>> \in edge}
    <3>1. PICK i \in is : e[1] \in DeepSinks(i)
      BY <2>5
    <3>2. e[1] \in new /\ e \in Node \X Node /\ <<n, e[2]>> \in edge /\ n \notin Subs
      BY <3>1, <2>1, <2>2, <2>5, <1>8
    <3>3. ASSUME NEW s \in Subs, e[2] \in Members(s) PROVE life[s] = "done"
      <4>1. <<n, e[2]>>[1] = s \/ <<n, e[2]>>[1] \in Members(s) \/ life[s] = "done"
        BY <3>2, <3>3, <1>1 DEF Guarded
      <4>2. n \in Members(s) => life[s] = "done"
        BY <1>1 DEF Enclosed
      <4> QED
        BY <4>1, <4>2, <3>2
    <3> QED
      BY <3>2, <3>3
  <2>6. \/ \E i \in is : e \in AddLevel(i)
        \/ \E p \in InstDeps \cap (is \X is) : e \in DeepSinks(p[1]) \X LevelSources(p[2])
        \/ e \in (UNION {DeepSinks(i) : i \in is}) \X {d \in Node : <<n, d>> \in edge}
    <3> DEFINE X == UNION {AddLevel(i) : i \in is}
               Y == UNION {DeepSinks(p[1]) \X LevelSources(p[2]) : p \in InstDeps \cap (is \X is)}
               Z == (UNION {DeepSinks(i) : i \in is}) \X {d \in Node : <<n, d>> \in edge}
    <3>1. e \in X \/ e \in Y \/ e \in Z
      <4>1. SpliceEdges(n, is, edge) = X \cup Y \cup Z
        BY DEF SpliceEdges
      <4> HIDE DEF X, Y, Z
      <4> QED
        BY <4>1
    <3>2. e \in Y => \E p \in InstDeps \cap (is \X is) : e \in DeepSinks(p[1]) \X LevelSources(p[2])
      OBVIOUS
    <3>3. e \in X => \E i \in is : e \in AddLevel(i)
      OBVIOUS
    <3> QED
      BY <3>1, <3>2, <3>3
  <2> QED
    BY <2>3, <2>4, <2>5, <2>6
<1>10. ed \in SUBSET (Node \X Node)
  BY <1>1, <1>9
<1>11. ASSUME NEW d \in Node
       PROVE  /\ ind[d] \in Nat
              /\ ind[d] = Cardinality({p \in Node : <<p, d>> \in ed /\ lf[p] # "done"})
  <2> DEFINE A == {p \in Node : <<p, d>> \in edge /\ life[p] # "done"}
             B == {p \in Node : <<p, d>> \in ed \ edge}
  <2>1. A \subseteq Node /\ B \subseteq Node /\ A \cap B = {}
    OBVIOUS
  <2>2. A \cup B = {p \in Node : <<p, d>> \in ed /\ lf[p] # "done"}
    <3>1. \A p \in B : p \in new
      BY <1>9
    <3> QED
      BY <3>1, <1>6
  <2>3. ind[d] = indeg[d] + Cardinality(B) /\ indeg[d] = Cardinality(A)
    BY <1>1 DEF Counted, SpliceIndeg
  <2>4. Cardinality(A \cup B) = Cardinality(A) + Cardinality(B)
    BY <2>1, NodeSetUnion
  <2>5. Cardinality(A) \in Nat /\ Cardinality(B) \in Nat
    BY <2>1, NodeSets
  <2> HIDE DEF A, B
  <2>6. ind[d] \in Nat /\ ind[d] = Cardinality(A \cup B)
    BY <2>3, <2>4, <2>5
  <2> QED
    BY <2>2, <2>6
<1>12. ind \in [Node -> Nat] /\ Counted(lf, ed, ind)
  <2>1. ind = [d \in Node |-> ind[d]]
    BY DEF SpliceIndeg
  <2> QED
    BY <2>1, <1>11 DEF Counted
<1>13. Wired(lf, ed)
  <2>1. ASSUME NEW m \in Node, m \in new
        PROVE  /\ \A e \in Decl \cup Cond : e[2] = m => e \in ed
               /\ \A s \in Subs : m \in LevelSources(s) => <<s, m>> \in ed
    <3>1. PICK i \in is : m \in Below(i)
      BY <2>1 DEF SpliceNodes
    <3>2. AddLevel(i) \subseteq ed
      BY <3>1 DEF SpliceEdges
    <3> QED
      BY <3>1, <3>2, <1>2, AddLevelWires
  <2>2. ASSUME NEW m \in Node, m \notin new, lf[m] # "absent"
        PROVE  /\ \A e \in Decl \cup Cond : e[2] = m => e \in ed
               /\ \A s \in Subs : m \in LevelSources(s) => <<s, m>> \in ed
    BY <2>2, <1>1, <1>6 DEF Wired
  <2> QED
    BY <2>1, <2>2 DEF Wired
<1>14. ASSUME NEW s \in Subs, NEW m \in Members(s), lf[m] \notin {"absent", "pending"}
       PROVE  lf[s] = "done"
  <2>1. s \in Node /\ m \in Node /\ Path[m][1] = Path[s][1]
    BY MembersRoot DEF Subs, Members, Below
  <2>2. CASE m \notin new
    <3>1. lf[m] = life[m] /\ lf[s] = life[s]
      BY <2>1, <2>2, <1>3, <1>6
    <3> QED
      BY <3>1, <1>1, <1>14 DEF Enclosed
  <2>3. CASE m \in new
    <3>1. \A p \in Node : <<p, m>> \in ed => lf[p] = "done"
      <4> DEFINE P == {p \in Node : <<p, m>> \in ed /\ lf[p] # "done"}
      <4>1. ind[m] = 0
        BY <2>1, <2>3, <1>14 DEF SpliceLife
      <4>2. IsFiniteSet(P) /\ Cardinality(P) = 0
        BY <4>1, <2>1, <1>11, NodeSets
      <4>3. P = {}
        BY <4>2, FS_EmptySet
      <4> QED
        BY <4>3
    <3>2. ASSUME NEW p \in new PROVE <<p, m>> \notin ed
      BY <3>1, <1>3, <1>6
    <3>3. lf[m] # "absent"
      BY <1>14
    <3>4. CASE m \in LevelSources(LevelOf(m))
      <4>1. LevelOf(m) \in Subs /\ m \in Members(LevelOf(m)) /\ LevelOf(m) \in Node
        BY <2>1, LevelFacts DEF Subs
      <4>2. <<LevelOf(m), m>> \in ed
        BY <4>1, <3>3, <3>4, <2>1, <1>13 DEF Wired
      <4>3. LevelOf(m) \in new
        BY <4>1, <2>3, <1>3, MembersRoot
      <4> QED
        BY <4>2, <4>3, <3>2
    <3>5. CASE m \notin LevelSources(LevelOf(m))
      <4>1. PICK e \in Decl \cup Cond : e[2] = m
        BY <3>5, <2>1, NotASource
      <4>2. e \in ed
        BY <4>1, <3>3, <2>1, <1>13 DEF Wired
      <4>3. e[1] \in Node /\ Path[e[1]][1] = Path[m][1] /\ e = <<e[1], m>>
        BY <4>1, SameLevel
      <4>4. e[1] \in new
        BY <4>3, <2>3, <1>3
      <4> QED
        BY <4>2, <4>3, <4>4, <3>2
    <3> QED
      BY <3>4, <3>5
  <2> QED
    BY <2>2, <2>3
<1>15. Enclosed(lf)
  BY <1>14 DEF Enclosed
<1>16. Guarded(lf, ed)
  <2>1. \A s \in Subs : life[s] = "done" => lf[s] = "done"
    BY <1>6 DEF Subs
  <2> QED
    BY <2>1, <1>1, <1>9 DEF Guarded
<1>17. Together(lf)
  <2>1. \A m, k \in Node : Path[m][1] = Path[k][1] => (m \in new <=> k \in new)
    BY <1>3
  <2>2. \A m \in Node : lf[m] = "absent" <=> life[m] = "absent" /\ m \notin new
    BY <1>6
  <2> QED
    BY <2>1, <2>2, <1>1 DEF Together
<1> QED
  BY <1>4, <1>6, <1>7, <1>10, <1>12, <1>13, <1>15, <1>16, <1>17 DEF GraphInv

\* The graph of the entry IR has the invariant.
LEMMA InitGraph ==
  ASSUME Init
  PROVE  GraphInv(life, edge, indeg) /\ Fresh(life)
<1>1. /\ edge = AddLevel(0) /\ indeg = InitIndeg
      /\ life = [n \in Node |-> IF n \notin Below(0) THEN "absent"
                                ELSE IF InitIndeg[n] = 0 THEN "queued" ELSE "pending"]
  BY DEF Init, InitNodes
<1>2. 0 \in Roots /\ Below(0) = {n \in Node : Path[n][1] = 0}
  BY RootBelow DEF Roots
<1>3. \A m \in Node : \/ m \notin Below(0) /\ life[m] = "absent"
                      \/ m \in Below(0) /\ life[m] \in {"pending", "queued"}
  BY <1>1
<1>4. life \in [Node -> Lives]
  BY <1>1 DEF Lives
<1>5. ASSUME NEW e \in edge
      PROVE  /\ e \in Node \X Node
             /\ \A s \in Subs : e[2] \in Members(s) => e[1] = s \/ e[1] \in Members(s)
  <2>1. e[1] \in Below(0) /\ e[2] \in Below(0) /\ e = <<e[1], e[2]>>
    BY <1>1, <1>2, AddLevelInto
  <2> QED
    BY <2>1, <1>1, <1>2, AddLevelInto
<1>6. ASSUME NEW d \in Node
      PROVE  /\ indeg[d] \in Nat
             /\ indeg[d] = Cardinality({p \in Node : <<p, d>> \in edge /\ life[p] # "done"})
  <2> DEFINE P == {p \in Node : <<p, d>> \in AddLevel(0)}
  <2>1. indeg[d] = Cardinality(P)
    BY <1>1 DEF InitIndeg
  <2>2. P = {p \in Node : <<p, d>> \in edge /\ life[p] # "done"}
    BY <1>1, <1>3
  <2>3. Cardinality(P) \in Nat
    BY NodeSets
  <2> QED
    BY <2>1, <2>2, <2>3
<1>7. indeg \in [Node -> Nat] /\ Counted(life, edge, indeg)
  <2>1. indeg = [d \in Node |-> indeg[d]]
    BY <1>1 DEF InitIndeg
  <2> QED
    BY <2>1, <1>6 DEF Counted
<1>8. Wired(life, edge)
  BY <1>1, <1>2, <1>3, AddLevelWires DEF Wired
<1>9. ASSUME NEW s \in Subs, NEW m \in Members(s), life[m] \notin {"absent", "pending"}
      PROVE  FALSE
  <2>1. m \in Node /\ m \in Below(0) /\ life[m] # "absent"
    BY <1>3, <1>9 DEF Members, Below
  <2>2. \A p \in Node : <<p, m>> \notin edge
    <3> DEFINE P == {p \in Node : <<p, m>> \in edge /\ life[p] # "done"}
    <3>1. indeg[m] = 0
      BY <2>1, <1>1, <1>9
    <3>2. IsFiniteSet(P) /\ Cardinality(P) = 0
      BY <3>1, <2>1, <1>6, NodeSets
    <3>3. P = {}
      BY <3>2, FS_EmptySet
    <3> QED
      BY <3>3, <1>3
  <2>3. CASE m \in LevelSources(LevelOf(m))
    <3>1. LevelOf(m) \in Subs /\ LevelOf(m) \in Node
      BY <2>1, LevelFacts DEF Subs
    <3> QED
      BY <3>1, <2>1, <2>2, <2>3, <1>8 DEF Wired
  <2>4. CASE m \notin LevelSources(LevelOf(m))
    <3>1. PICK e \in Decl \cup Cond : e[2] = m
      BY <2>4, <2>1, NotASource
    <3>2. e[1] \in Node /\ e = <<e[1], m>>
      BY <3>1, SameLevel
    <3> QED
      BY <3>1, <3>2, <2>1, <2>2, <1>8 DEF Wired
  <2> QED
    BY <2>3, <2>4
<1>10. Enclosed(life)
  BY <1>9 DEF Enclosed
<1>11. Guarded(life, edge)
  BY <1>5 DEF Guarded
<1>12. Together(life)
  BY <1>2, <1>3 DEF Together
<1>13. Fresh(life)
  BY <1>2, <1>3, InstAssumption DEF Fresh
<1>14. edge \in SUBSET (Node \X Node)
  BY <1>5
<1> QED
  BY <1>4, <1>7, <1>8, <1>10, <1>11, <1>12, <1>13, <1>14 DEF GraphInv

\* Moving an open node between its open lives does not touch the graph.
LEMMA MoveGraph ==
  ASSUME NEW lf, NEW ed, NEW ind, GraphInv(lf, ed, ind), Fresh(lf),
         NEW lf2 \in [Node -> Lives],
         \A m \in Node : /\ lf2[m] = "done" <=> lf[m] = "done"
                         /\ lf2[m] = "absent" <=> lf[m] = "absent"
                         /\ lf[m] = "pending" => lf2[m] = "pending"
  PROVE  GraphInv(lf2, ed, ind) /\ Fresh(lf2)
<1>1. /\ lf \in [Node -> Lives] /\ ed \in SUBSET (Node \X Node) /\ ind \in [Node -> Nat]
      /\ Counted(lf, ed, ind) /\ Enclosed(lf) /\ Guarded(lf, ed) /\ Wired(lf, ed) /\ Together(lf)
  BY DEF GraphInv
<1>2. Counted(lf2, ed, ind)
  <2>1. \A d \in Node : {p \in Node : <<p, d>> \in ed /\ lf2[p] # "done"}
                          = {p \in Node : <<p, d>> \in ed /\ lf[p] # "done"}
    OBVIOUS
  <2> QED
    BY <2>1, <1>1 DEF Counted
<1>3. Enclosed(lf2)
  BY <1>1 DEF Enclosed, Members, Below, Subs
<1>4. Guarded(lf2, ed)
  BY <1>1 DEF Guarded, Subs
<1>5. Wired(lf2, ed) /\ Together(lf2)
  BY <1>1 DEF Wired, Together
<1>6. Fresh(lf2)
  BY InstAssumption DEF Fresh
<1> QED
  BY <1>1, <1>2, <1>3, <1>4, <1>5, <1>6 DEF GraphInv

-----------------------------------------------------------------------------
\* Settling n on a graph that has the invariant, as the variables see it.
LEMMA SettleStep ==
  ASSUME TypeOK, NEW lf, NEW ed, NEW ind, GraphInv(lf, ed, ind),
         NEW n \in Node, lf[n] \notin {"absent", "pending", "done"},
         NEW st \in Terminal, NEW executed \in BOOLEAN,
         SettleOn(lf, ed, ind, n, st, executed)
  PROVE  /\ GraphInv(life', edge', indeg')
         /\ status' \in [Node -> Terminal \cup {"none"}]
         /\ waitZero' \in SUBSET Node /\ stash' \in SUBSET Node
         /\ journal' \in SUBSET Node /\ fatal' \in BOOLEAN
         /\ life'[n] = "done"
         /\ \A m \in Node : /\ lf[m] = "done" => life'[m] = "done" /\ status'[m] = status[m]
                            /\ life'[m] = "absent" <=> lf[m] = "absent"
                            /\ life'[m] = "running" <=> lf[m] = "running" /\ m # n
                            /\ life'[m] \in {"slotwait", "running"} => life'[m] = lf[m]
<1> DEFINE S    == {n} \cup Cascade(lf, ed, n, st)
           ind2 == DropIndeg(S, ed, ind)
           cost == st \in {"ok", "failed", "halted"} /\ (executed \/ n \in stash)
           recs == ({"result"} \X S) \cup (IF cost THEN {<<"cost", n>>} ELSE {})
<1>1. /\ life' = LifeAfter(S, lf, ed, ind2) /\ edge' = ed /\ indeg' = ind2
      /\ status' = [m \in Node |-> IF m = n THEN st
                                   ELSE IF m \in S THEN Flavor(st) ELSE status[m]]
      /\ waitZero' = {} /\ stash' = IF cost THEN stash \ {n} ELSE stash
      /\ Journaled(recs)
  BY DEF SettleOn
<1>2. /\ GraphInv(life', ed, indeg')
      /\ S \subseteq Node /\ n \in S
      /\ \A m \in Node : /\ life'[m] = "done" <=> lf[m] = "done" \/ m \in S
                         /\ life'[m] = "absent" <=> lf[m] = "absent"
                         /\ life'[m] = "running" <=> lf[m] = "running" /\ m # n
                         /\ life'[m] \in {"slotwait", "running"} => life'[m] = lf[m]
                         /\ lf[m] = "done" => m \notin S
  <2> HIDE DEF ind2, S
  <2>1. S = {n} \cup Cascade(lf, ed, n, st) /\ ind2 = DropIndeg(S, ed, ind)
    BY DEF S, ind2
  <2> QED
    BY <1>1, <2>1, SettleGraph
<1>3. GraphInv(life', edge', indeg')
  BY <1>1, <1>2
<1> HIDE DEF S, ind2
<1>4. status' \in [Node -> Terminal \cup {"none"}]
      /\ \A m \in Node : lf[m] = "done" => status'[m] = status[m]
  <2>1. Flavor(st) \in Terminal
    BY DEF Flavor, Terminal
  <2> QED
    BY <2>1, <1>1, <1>2 DEF TypeOK
<1>5. journal' \in SUBSET Node /\ fatal' \in BOOLEAN
  <2>1. \A x \in recs : x[1] = "result" => x[2] \in Node
    BY <1>2
  <2> HIDE DEF recs
  <2> QED
    BY <2>1, <1>1 DEF Journaled, TypeOK
<1>6. waitZero' \in SUBSET Node /\ stash' \in SUBSET Node
  BY <1>1 DEF TypeOK
<1> QED
  BY <1>2, <1>3, <1>4, <1>5, <1>6

\* No worker starts or reports: the counters over them stay right.
LEMMA FlightSame ==
  ASSUME FlightInv, UNCHANGED flightVars,
         \A m \in Node : life'[m] = "running" <=> life[m] = "running"
  PROVE  FlightInv'
<1>1. Running' = Running
  BY DEF Running
<1> QED
  BY <1>1 DEF FlightInv, flightVars, InFlight, OwnItems, PoolsExact, Holds

\* A pool's bound is a number.
LEMMA BoundType ==
  ASSUME NEW p \in Pools
  PROVE  Bound(p) \in Nat
<1>1. p[1] \in {"slot", "gen", "lane"}
  BY DEF Pools
<1>2. CASE p[1] = "slot"
  BY <1>2, BoundAssumption DEF Bound
<1>3. CASE p[1] = "gen"
  BY <1>3, BoundAssumption DEF Bound, Pools
<1>4. CASE p[1] = "lane"
  BY <1>4, BoundAssumption DEF Bound, Pools, Lanes
<1> QED
  BY <1>1, <1>2, <1>3, <1>4


\* A grant launches one worker, which takes its pools within their bounds.
LEMMA FlightGrant ==
  ASSUME FlightInv, TypeOK, NEW n \in Grantable,
         TakePools(n), UNCHANGED msg,
         life' = [life EXCEPT ![n] = "running"],
         worker' = [worker EXCEPT ![n] = "admit"],
         outstanding' = outstanding + 1
  PROVE  FlightInv' /\ poolUsed' \in [Pools -> Nat] /\ outstanding' \in Nat
<1>1. n \in Node /\ life[n] = "slotwait" /\ \A p \in PoolsOf(n) : poolUsed[p] < Bound(p)
  BY DEF Grantable, SlotWait
<1>2. worker[n] = "none" /\ msg[n] = NoEvent /\ ~Holds(n)
  BY <1>1 DEF FlightInv, InFlight, Holds, NoEvent
<1>3. Running' = Running \cup {n} /\ n \notin Running
  BY <1>1 DEF Running, TypeOK
<1>4. outstanding' = Cardinality(Running') /\ outstanding' \in Nat
  <2>1. Running \subseteq Node
    BY DEF Running
  <2>2. Cardinality(Running \cup {n}) = Cardinality(Running) + 1
    BY <2>1, <1>1, <1>3, NodeSetStep
  <2> QED
    BY <2>2, <1>3 DEF FlightInv, TypeOK
<1>5. InFlight' /\ OwnItems'
  BY <1>1, <1>2 DEF FlightInv, InFlight, OwnItems, TypeOK
<1>6. \A m \in Node : Holds(m)' <=> Holds(m) \/ m = n
  BY <1>1, <1>2 DEF Holds, TypeOK
<1>7. ASSUME NEW p \in Pools
      PROVE  /\ poolUsed'[p] = Cardinality({m \in Node : Holds(m)' /\ p \in PoolsOf(m)})
             /\ poolUsed'[p] <= Bound(p)
             /\ poolUsed'[p] \in Nat
  <2> DEFINE H == {m \in Node : Holds(m) /\ p \in PoolsOf(m)}
             H2 == {m \in Node : Holds(m)' /\ p \in PoolsOf(m)}
  <2>1. poolUsed[p] = Cardinality(H) /\ poolUsed[p] <= Bound(p) /\ Bound(p) \in Nat
        /\ poolUsed[p] \in Nat
    BY BoundType DEF FlightInv, PoolsExact, TypeOK
  <2>2. CASE p \in PoolsOf(n)
    <3>1. H2 = H \cup {n} /\ n \notin H /\ H \subseteq Node
      BY <2>2, <1>1, <1>2, <1>6
    <3>2. Cardinality(H2) = Cardinality(H) + 1
      BY <3>1, <1>1, NodeSetStep
    <3>3. poolUsed'[p] = poolUsed[p] + 1 /\ poolUsed[p] < Bound(p)
      BY <2>2, <1>1 DEF TakePools
    <3> HIDE DEF H, H2
    <3>4. poolUsed'[p] = Cardinality(H2) /\ poolUsed'[p] <= Bound(p) /\ poolUsed'[p] \in Nat
      BY <3>2, <3>3, <2>1
    <3> QED
      BY <3>4 DEF H2
  <2>3. CASE p \notin PoolsOf(n)
    <3>1. H2 = H
      BY <2>3, <1>6
    <3>2. poolUsed'[p] = poolUsed[p]
      BY <2>3 DEF TakePools
    <3> QED
      BY <3>1, <3>2, <2>1
  <2> QED
    BY <2>2, <2>3
<1>8. PoolsExact'
  BY <1>7 DEF PoolsExact, PoolsOf
<1>9. poolUsed' \in [Pools -> Nat]
  <2>1. poolUsed' = [p \in Pools |-> poolUsed'[p]]
    BY DEF TakePools
  <2> QED
    BY <2>1, <1>7
<1> QED
  BY <1>4, <1>5, <1>8, <1>9 DEF FlightInv

\* Receiving an event ends one flight; a box's event gives its pools back.
LEMMA FlightReceive ==
  ASSUME FlightInv, TypeOK, NEW n \in Node, msg[n].ev # "none", Received(n),
         IF msg[n].ev \in {"settled", "deferred"} THEN ReleasePools(n) ELSE UNCHANGED poolUsed,
         \A m \in Node : life'[m] = "running" <=> life[m] = "running" /\ m # n
  PROVE  /\ FlightInv' /\ poolUsed' \in [Pools -> Nat] /\ outstanding' \in Nat
         /\ msg' \in [Node -> Events] /\ worker' = worker
<1>1. /\ msg' = [msg EXCEPT ![n] = NoEvent] /\ outstanding' = outstanding - 1 /\ worker' = worker
      /\ msg[n] # NoEvent /\ msg \in [Node -> Events]
  BY DEF Received, NoEvent, TypeOK
<1>2. life[n] = "running" /\ worker[n] = "none"
  BY <1>1 DEF FlightInv, InFlight
<1>3. Running' = Running \ {n} /\ n \in Running
  BY <1>2 DEF Running
<1>4. outstanding' = Cardinality(Running') /\ outstanding' \in Nat
  <2>1. Cardinality(Running) > 0 /\ Cardinality(Running') = Cardinality(Running) - 1
    BY <1>3, NodeSetStep DEF Running
  <2> QED
    BY <2>1, <1>1 DEF FlightInv, TypeOK
<1>5. msg' \in [Node -> Events]
  BY <1>1 DEF Events
<1>6. InFlight' /\ OwnItems'
  <2>1. \A m \in Node : msg'[m] = IF m = n THEN NoEvent ELSE msg[m]
    BY <1>1
  <2>2. NoEvent.ev # "expanded"
    BY DEF NoEvent
  <2>3. InFlight'
    BY <2>1, <1>1, <1>2 DEF FlightInv, InFlight
  <2>4. OwnItems'
    BY <2>1, <2>2 DEF FlightInv, OwnItems
  <2> QED
    BY <2>3, <2>4
<1>7. \A m \in Node : Holds(m)' <=> Holds(m) /\ m # n
  <2>1. NoEvent.ev = "none"
    BY DEF NoEvent
  <2> QED
    BY <2>1, <1>1, <1>2 DEF Holds
<1>8. ASSUME NEW p \in Pools
      PROVE  /\ poolUsed'[p] = Cardinality({m \in Node : Holds(m)' /\ p \in PoolsOf(m)})
             /\ poolUsed'[p] <= Bound(p)
             /\ poolUsed'[p] \in Nat
  <2> DEFINE H == {m \in Node : Holds(m) /\ p \in PoolsOf(m)}
             H2 == {m \in Node : Holds(m)' /\ p \in PoolsOf(m)}
  <2>1. poolUsed[p] = Cardinality(H) /\ poolUsed[p] <= Bound(p) /\ Bound(p) \in Nat
        /\ poolUsed[p] \in Nat
    BY BoundType DEF FlightInv, PoolsExact, TypeOK
  <2>2. Holds(n) <=> msg[n].ev \in {"settled", "deferred"}
    BY <1>2 DEF Holds
  <2>3. CASE p \in PoolsOf(n) /\ Holds(n)
    <3>1. H2 = H \ {n} /\ n \in H /\ H \subseteq Node
      BY <2>3, <1>7
    <3>2. Cardinality(H2) = Cardinality(H) - 1 /\ Cardinality(H) > 0
      BY <3>1, NodeSetStep
    <3>3. ReleasePools(n)
      BY <2>2, <2>3
    <3> HIDE DEF H, H2
    <3>4. poolUsed'[p] = poolUsed[p] - 1
      BY <3>2, <3>3, <2>1, <2>3 DEF ReleasePools
    <3>5. poolUsed'[p] = Cardinality(H2) /\ poolUsed'[p] <= Bound(p) /\ poolUsed'[p] \in Nat
      BY <3>2, <3>4, <2>1
    <3> QED
      BY <3>5 DEF H2
  <2>4. CASE ~(p \in PoolsOf(n) /\ Holds(n))
    <3>1. H2 = H
      BY <2>4, <1>7
    <3>2. poolUsed'[p] = poolUsed[p]
      BY <2>2, <2>4 DEF ReleasePools
    <3> QED
      BY <3>1, <3>2, <2>1
  <2> QED
    BY <2>3, <2>4
<1>9. PoolsExact'
  BY <1>8 DEF PoolsExact, PoolsOf
<1>10. poolUsed' \in [Pools -> Nat]
  <2>1. poolUsed' = [p \in Pools |-> poolUsed'[p]]
    BY DEF ReleasePools, TypeOK
  <2> QED
    BY <2>1, <1>8
<1> QED
  BY <1>1, <1>4, <1>5, <1>6, <1>9, <1>10 DEF FlightInv

\* An expect command or an expansion is a flight without pools.
LEMMA FlightStart ==
  ASSUME FlightInv, TypeOK, NEW n \in Node, life[n] # "running",
         NEW e \in Events, e.ev \in {"expanded", "expected"},
         e.ev = "expanded" => e.items \subseteq {i \in Inst : InstGen[i] = n},
         msg' = [msg EXCEPT ![n] = e], UNCHANGED <<worker, poolUsed>>,
         life' = [life EXCEPT ![n] = "running"],
         outstanding' = outstanding + 1
  PROVE  FlightInv' /\ outstanding' \in Nat /\ msg' \in [Node -> Events]
<1>1. worker[n] = "none" /\ msg[n] = NoEvent
  BY DEF FlightInv, InFlight
<1>2. Running' = Running \cup {n} /\ n \notin Running
  BY DEF Running, TypeOK
<1>3. outstanding' = Cardinality(Running') /\ outstanding' \in Nat
  <2>1. Running \subseteq Node
    BY DEF Running
  <2>2. Cardinality(Running \cup {n}) = Cardinality(Running) + 1
    BY <2>1, <1>2, NodeSetStep
  <2> QED
    BY <2>2, <1>2 DEF FlightInv, TypeOK
<1>4. msg \in [Node -> Events] /\ msg' \in [Node -> Events]
  BY DEF TypeOK
<1>5. e # NoEvent /\ NoEvent.ev = "none"
  BY DEF NoEvent
<1>6. \A m \in Node : msg'[m] = IF m = n THEN e ELSE msg[m]
  BY <1>4
<1>7. InFlight'
  BY <1>1, <1>5, <1>6 DEF FlightInv, InFlight, TypeOK
<1>8. OwnItems'
  BY <1>6 DEF FlightInv, OwnItems
<1>9. \A m \in Node : Holds(m)' <=> Holds(m)
  BY <1>1, <1>5, <1>6 DEF Holds
<1>10. PoolsExact'
  BY <1>9 DEF FlightInv, PoolsExact, PoolsOf
<1> QED
  BY <1>3, <1>4, <1>7, <1>8, <1>10 DEF FlightInv

\* A box worker that is admitted, or that sends its one event, stays in flight
\* and keeps its pools until the loop receives the event.
LEMMA FlightWork ==
  ASSUME FlightInv, TypeOK, NEW n \in Node, worker[n] # "none",
         NEW e \in Events, e.ev \in {"settled", "deferred"},
         \/ worker' = [worker EXCEPT ![n] = "box"] /\ UNCHANGED msg
         \/ Send(n, e),
         UNCHANGED <<life, poolUsed, outstanding>>
  PROVE  /\ FlightInv' /\ msg' \in [Node -> Events]
         /\ worker' \in [Node -> {"none", "admit", "box"}]
<1>1. msg \in [Node -> Events] /\ worker \in [Node -> {"none", "admit", "box"}]
  BY DEF TypeOK
<1>2. msg[n] = NoEvent /\ life[n] = "running"
  BY DEF FlightInv, InFlight
<1>3. e # NoEvent /\ NoEvent.ev = "none"
  BY DEF NoEvent
<1>4. \A m \in Node \ {n} : msg'[m] = msg[m] /\ worker'[m] = worker[m]
  BY <1>1 DEF Send
<1>5. (worker'[n] = "box" /\ msg'[n] = NoEvent) \/ (worker'[n] = "none" /\ msg'[n] = e)
  BY <1>1, <1>2 DEF Send
<1>6. msg' \in [Node -> Events] /\ worker' \in [Node -> {"none", "admit", "box"}]
  BY <1>1 DEF Send
<1>7. InFlight' /\ OwnItems'
  BY <1>2, <1>3, <1>4, <1>5 DEF FlightInv, InFlight, OwnItems
<1>8. \A m \in Node : Holds(m)' <=> Holds(m)
  BY <1>3, <1>4, <1>5 DEF Holds
<1>9. PoolsExact'
  BY <1>8 DEF FlightInv, PoolsExact, PoolsOf
<1>10. outstanding' = Cardinality(Running')
  BY DEF FlightInv, Running
<1> QED
  BY <1>6, <1>7, <1>9, <1>10 DEF FlightInv

-----------------------------------------------------------------------------
\* What an event of each kind carries.
LEMMA EventFields ==
  ASSUME NEW e \in Events
  PROVE  /\ e.ev \in {"none", "settled", "deferred", "expanded", "expected"}
         /\ e.ev = "settled" => e.status \in {"ok", "failed", "halted"} /\ e.executed \in BOOLEAN
         /\ e.ev = "deferred" => e.timed \in BOOLEAN /\ e.costs \in BOOLEAN
         /\ e.ev = "expanded" => e.ok \in BOOLEAN /\ e.items \in SUBSET Inst
         /\ e.ev = "expected" => e.loop \in Loops /\ e.iter \in Nat /\ e.verdict \in Verdicts
  BY DEF Events, NoEvent

\* A step keeps the invariant, leaves settled nodes alone, and launches
\* nothing once the pause is latched.
StepOK ==
  /\ IInv'
  /\ \A n \in Node : life[n] = "done" => life'[n] = "done" /\ status'[n] = status[n]
  /\ paused => \A n \in Node : life'[n] \in {"slotwait", "running"} => life[n] = life'[n]

\* Steps that touch neither the graph nor the workers.
LEMMA QuietStep ==
  ASSUME IInv, UNCHANGED <<graphVars, flightVars>>, TypeOK', DrainsUnpaused',
         pc' = "exit" => outstanding = 0
  PROVE  StepOK
<1>1. /\ life' = life /\ edge' = edge /\ indeg' = indeg /\ status' = status
      /\ outstanding' = outstanding
  BY DEF graphVars, flightVars
<1>2. GraphInv(life', edge', indeg') /\ Fresh(life')
  BY <1>1 DEF IInv
<1>3. FlightInv'
  BY <1>1, FlightSame DEF IInv
<1>4. IInv'
  BY <1>1, <1>2, <1>3 DEF IInv
<1> QED
  BY <1>1, <1>4 DEF StepOK

\* The pause gate latches before a pass, so no pass is entered paused.
LEMMA PauseGateOK ==
  ASSUME IInv, PauseGate
  PROVE  StepOK
<1>1. TypeOK'
  BY DEF IInv, TypeOK, PauseGate, graphVars, flightVars, parkVars
<1>2. DrainsUnpaused' /\ pc' # "exit"
  BY DEF PauseGate, DrainsUnpaused
<1> QED
  BY <1>1, <1>2, QuietStep DEF PauseGate

\* The ends of the two halves of a pass.
LEMMA PassOK ==
  ASSUME IInv, GrantsDone \/ DrainDone
  PROVE  StepOK
<1>1. TypeOK'
  BY DEF IInv, TypeOK, GrantsDone, DrainDone, graphVars, flightVars, parkVars
<1>2. DrainsUnpaused' /\ pc' # "exit"
  BY DEF IInv, GrantsDone, DrainDone, DrainsUnpaused
<1> QED
  BY <1>1, <1>2, QuietStep DEF GrantsDone, DrainDone

\* Cancelling, the idle tick and a pause request leave the graph alone.
LEMMA SelectOK ==
  ASSUME IInv, Abort \/ IdleTick \/ RequestPause
  PROVE  StepOK
<1>1. TypeOK'
  BY DEF IInv, TypeOK, Abort, IdleTick, RequestPause, graphVars, flightVars, parkVars
<1>2. DrainsUnpaused' /\ pc' # "exit"
  BY DEF IInv, Abort, IdleTick, RequestPause, DrainsUnpaused
<1> QED
  BY <1>1, <1>2, QuietStep DEF Abort, IdleTick, RequestPause

\* run returns only when no worker is out: all nodes done means none running.
LEMMA ExitOK ==
  ASSUME IInv, Exit
  PROVE  StepOK
<1>1. TypeOK'
  BY DEF IInv, TypeOK, Exit, graphVars, flightVars, parkVars
<1>2. DrainsUnpaused'
  BY DEF Exit, DrainsUnpaused
<1>3. outstanding = 0
  <2>1. CASE AllDone
    <3>1. Running = {}
      BY <2>1 DEF AllDone, Running
    <3> QED
      BY <3>1, FS_EmptySet DEF IInv, FlightInv
  <2>2. CASE ~AllDone
    BY <2>2 DEF Exit, LoopEnds, Drained
  <2> QED
    BY <2>1, <2>2
<1> QED
  BY <1>1, <1>2, <1>3, QuietStep DEF Exit

\* A step of nothing.
LEMMA StutterOK ==
  ASSUME IInv, UNCHANGED vars
  PROVE  StepOK
<1>1. TypeOK'
  BY DEF IInv, TypeOK, vars
<1>2. DrainsUnpaused' /\ (pc' = "exit" => outstanding = 0)
  BY DEF IInv, DrainsUnpaused, vars
<1>3. UNCHANGED <<graphVars, flightVars>>
  BY DEF vars, graphVars, flightVars
<1> QED
  BY <1>1, <1>2, <1>3, QuietStep

\* A grant launches a slot-waiting node, in an unpaused pass only.
LEMMA GrantOK ==
  ASSUME IInv, Grant
  PROVE  StepOK
<1> DEFINE n == Least(Grantable)
<1>1. n \in Grantable
  <2>1. Grantable \subseteq Nat /\ Grantable # {}
    BY NodeAssumption DEF Grant, Grantable, SlotWait
  <2> QED
    BY <2>1, LeastIn
<1>2. n \in Node /\ life[n] = "slotwait"
  BY <1>1 DEF Grantable, SlotWait
<1> HIDE DEF n
<1>3. /\ TakePools(n) /\ life' = [life EXCEPT ![n] = "running"]
      /\ worker' = [worker EXCEPT ![n] = "admit"] /\ outstanding' = outstanding + 1
      /\ msg' = msg /\ edge' = edge /\ indeg' = indeg /\ status' = status /\ pc = "grant" /\ pc' = pc
      /\ paused' = paused
  BY DEF Grant, n
<1>4. TypeOK /\ FlightInv /\ GraphInv(life, edge, indeg) /\ Fresh(life) /\ DrainsUnpaused
  BY DEF IInv
<1>5. FlightInv' /\ poolUsed' \in [Pools -> Nat] /\ outstanding' \in Nat
  BY <1>1, <1>3, <1>4, FlightGrant
<1>6. life' \in [Node -> Lives]
  BY <1>3, <1>4 DEF TypeOK, Lives
<1>7. GraphInv(life', edge', indeg') /\ Fresh(life')
  <2>1. \A m \in Node : /\ life'[m] = "done" <=> life[m] = "done"
                        /\ life'[m] = "absent" <=> life[m] = "absent"
                        /\ life[m] = "pending" => life'[m] = "pending"
    BY <1>2, <1>3, <1>4 DEF TypeOK
  <2> QED
    BY <2>1, <1>3, <1>4, <1>6, MoveGraph
<1>8. TypeOK'
  BY <1>4, <1>5, <1>6, <1>2 DEF TypeOK, Grant, parkVars, n
<1>9. IInv'
  BY <1>3, <1>4, <1>5, <1>7, <1>8 DEF IInv, DrainsUnpaused
<1> QED
  BY <1>2, <1>3, <1>4, <1>9 DEF StepOK, TypeOK, DrainsUnpaused

\* A queued node settled by the loop itself takes no worker with it.
LEMMA SettleHereOK ==
  ASSUME IInv, NEW n \in Node, life[n] = "queued", NEW st \in Terminal, SettleHere(n, st),
         pc' = pc, pc = "ready", progressed' \in BOOLEAN, UNCHANGED <<marker, paused, runEnd>>
  PROVE  StepOK
<1>1. TypeOK /\ FlightInv /\ GraphInv(life, edge, indeg) /\ Fresh(life) /\ DrainsUnpaused
  BY DEF IInv
<1>2. /\ SettleOn(life, edge, indeg, n, st, FALSE)
      /\ UNCHANGED <<known, flightVars, timer, deferrals, checked>>
  BY DEF SettleHere, Settle
<1>3. /\ GraphInv(life', edge', indeg')
      /\ status' \in [Node -> Terminal \cup {"none"}]
      /\ waitZero' \in SUBSET Node /\ stash' \in SUBSET Node
      /\ journal' \in SUBSET Node /\ fatal' \in BOOLEAN
      /\ life'[n] = "done"
      /\ \A m \in Node : /\ life[m] = "done" => life'[m] = "done" /\ status'[m] = status[m]
                         /\ life'[m] = "absent" <=> life[m] = "absent"
                         /\ life'[m] = "running" <=> life[m] = "running" /\ m # n
                         /\ life'[m] \in {"slotwait", "running"} => life'[m] = life[m]
  BY <1>1, <1>2, SettleStep
<1>4. FlightInv'
  <2>1. \A m \in Node : life'[m] = "running" <=> life[m] = "running"
    BY <1>3
  <2> QED
    BY <2>1, <1>1, <1>2, FlightSame
<1>5. Fresh(life')
  BY <1>1, <1>3, InstAssumption DEF Fresh
<1>6. TypeOK'
  BY <1>1, <1>2, <1>3 DEF TypeOK, GraphInv, flightVars
<1>7. DrainsUnpaused' /\ pc' # "exit"
  BY <1>1 DEF DrainsUnpaused
<1>8. IInv'
  BY <1>3, <1>4, <1>5, <1>6, <1>7 DEF IInv
<1> QED
  BY <1>3, <1>8 DEF StepOK

\* An expect command or an expansion is started for a queued node.
LEMMA StartOK ==
  ASSUME IInv, NEW n \in Node, life[n] = "queued", 
         (StartExpect(n) /\ NewIteration(n) # {}) \/ StartExpansion(n),
         pc' = pc, pc = "ready", progressed' \in BOOLEAN, UNCHANGED <<marker, paused, runEnd>>
  PROVE  StepOK
<1>1. TypeOK /\ FlightInv /\ GraphInv(life, edge, indeg) /\ Fresh(life) /\ DrainsUnpaused
  BY DEF IInv
<1>2. /\ life' = [life EXCEPT ![n] = "running"] /\ outstanding' = outstanding + 1
      /\ UNCHANGED <<status, edge, indeg, worker, poolUsed, parkVars, checked, journal, fatal>>
      /\ known' \in [Node -> {"nothing", "condition", "inputs"}]
  BY <1>1 DEF StartExpect, StartExpansion, TypeOK
<1>3. \E e \in Events : /\ e.ev \in {"expanded", "expected"}
                        /\ e.ev = "expanded" => e.items \subseteq {i \in Inst : InstGen[i] = n}
                        /\ msg' = [msg EXCEPT ![n] = e]
  <2>1. CASE StartExpect(n) /\ NewIteration(n) # {}
    <3> DEFINE k  == Least(NewIteration(n))
               at == Iters[n][k]
    <3>1. k \in DOMAIN Iters[n]
      <4>1. NewIteration(n) \subseteq DOMAIN Iters[n] /\ DOMAIN Iters[n] \subseteq Nat
        BY LoopAssumption DEF NewIteration
      <4>2. k \in NewIteration(n)
        BY <4>1, <2>1, LeastIn
      <4> QED
        BY <4>1, <4>2
    <3>2. at \in Loops \X Nat
      BY <3>1, LoopAssumption
    <3>3. PICK v \in Verdicts : msg' = [msg EXCEPT ![n] =
             [ev |-> "expected", loop |-> at[1], iter |-> at[2], verdict |-> v]]
      BY <2>1 DEF StartExpect
    <3> HIDE DEF at
    <3>4. [ev |-> "expected", loop |-> at[1], iter |-> at[2], verdict |-> v] \in Events
      BY <3>2 DEF Events
    <3> QED
      BY <3>3, <3>4
  <2>2. CASE StartExpansion(n)
    <3>1. PICK items \in SUBSET {i \in Inst : InstGen[i] = n}, ok \in BOOLEAN :
             msg' = [msg EXCEPT ![n] = [ev |-> "expanded", ok |-> ok, items |-> items]]
      BY <2>2 DEF StartExpansion
    <3>2. [ev |-> "expanded", ok |-> ok, items |-> items] \in Events
      BY <3>1 DEF Events
    <3> QED
      BY <3>1, <3>2
  <2> QED
    BY <2>1, <2>2
<1>4. FlightInv' /\ outstanding' \in Nat /\ msg' \in [Node -> Events]
  BY <1>1, <1>2, <1>3, FlightStart
<1>5. life' \in [Node -> Lives]
  BY <1>1, <1>2 DEF TypeOK, Lives
<1>6. GraphInv(life', edge', indeg') /\ Fresh(life')
  <2>1. \A m \in Node : /\ life'[m] = "done" <=> life[m] = "done"
                        /\ life'[m] = "absent" <=> life[m] = "absent"
                        /\ life[m] = "pending" => life'[m] = "pending"
    BY <1>1, <1>2 DEF TypeOK
  <2> QED
    BY <2>1, <1>1, <1>2, <1>5, MoveGraph
<1>7. TypeOK'
  BY <1>1, <1>2, <1>4, <1>5 DEF TypeOK, parkVars
<1>8. IInv'
  BY <1>1, <1>4, <1>6, <1>7 DEF IInv, DrainsUnpaused
<1> QED
  BY <1>1, <1>2, <1>8 DEF StepOK, TypeOK, DrainsUnpaused

\* A queued agent node goes to wait for its pools.
LEMMA SlotWaitOK ==
  ASSUME IInv, NEW n \in Node, life[n] = "queued",
         life' = [life EXCEPT ![n] = "slotwait"],
         known' = [known EXCEPT ![n] = "inputs"],
         UNCHANGED <<status, edge, indeg, flightVars, parkVars, checked, journal, fatal>>,
         pc' = pc, pc = "ready", progressed' \in BOOLEAN, UNCHANGED <<marker, paused, runEnd>>
  PROVE  StepOK
<1>1. TypeOK /\ FlightInv /\ GraphInv(life, edge, indeg) /\ Fresh(life) /\ DrainsUnpaused
  BY DEF IInv
<1>2. \A m \in Node : life'[m] = IF m = n THEN "slotwait" ELSE life[m]
  BY <1>1 DEF TypeOK
<1>3. FlightInv'
  <2>1. \A m \in Node : life'[m] = "running" <=> life[m] = "running"
    BY <1>2
  <2> QED
    BY <2>1, <1>1, FlightSame
<1>4. life' \in [Node -> Lives]
  BY <1>1 DEF TypeOK, Lives
<1>5. GraphInv(life', edge', indeg') /\ Fresh(life')
  <2>1. \A m \in Node : /\ life'[m] = "done" <=> life[m] = "done"
                        /\ life'[m] = "absent" <=> life[m] = "absent"
                        /\ life[m] = "pending" => life'[m] = "pending"
    BY <1>2
  <2> QED
    BY <2>1, <1>1, <1>4, MoveGraph
<1>6. TypeOK'
  BY <1>1, <1>4 DEF TypeOK, flightVars, parkVars
<1>7. IInv'
  BY <1>1, <1>3, <1>5, <1>6 DEF IInv, DrainsUnpaused
<1> QED
  BY <1>1, <1>2, <1>7 DEF StepOK, DrainsUnpaused

\* dispatch, whatever the node's kind.
LEMMA DispatchOK ==
  ASSUME IInv, Dispatch
  PROVE  StepOK
<1> DEFINE n == Least(Queued)
<1>1. n \in Queued
  <2>1. Queued \subseteq Nat /\ Queued # {}
    BY NodeAssumption DEF Dispatch, Queued
  <2> QED
    BY <2>1, LeastIn
<1>2. n \in Node /\ life[n] = "queued"
  BY <1>1 DEF Queued
<1> HIDE DEF n
<1>3. /\ pc = "ready" /\ pc' = pc /\ progressed' \in BOOLEAN /\ UNCHANGED <<marker, paused, runEnd>>
      /\ \/ DispatchCondition(n)
         \/ StartExpect(n) /\ NewIteration(n) # {}
         \/ DispatchByKind(n)
  BY DEF Dispatch, n
<1>4. \/ \E st \in Terminal : SettleHere(n, st)
      \/ (StartExpect(n) /\ NewIteration(n) # {}) \/ StartExpansion(n)
      \/ /\ life' = [life EXCEPT ![n] = "slotwait"]
         /\ known' = [known EXCEPT ![n] = "inputs"]
         /\ UNCHANGED <<status, edge, indeg, flightVars, parkVars, checked, journal, fatal>>
  <2>1. CASE DispatchCondition(n)
    BY <2>1 DEF DispatchCondition, Terminal
  <2>2. CASE DispatchByKind(n)
    <3>1. CASE ResolveSelector(n)
      BY <3>1 DEF ResolveSelector, Terminal
    <3>2. CASE SettleSubEntry(n)
      BY <3>2 DEF SettleSubEntry, Terminal
    <3>3. CASE DispatchAgent(n)
      BY <3>3 DEF DispatchAgent, Terminal
    <3> QED
      BY <2>2, <3>1, <3>2, <3>3 DEF DispatchByKind
  <2> QED
    BY <1>3, <2>1, <2>2
<1> QED
  BY <1>2, <1>3, <1>4, SettleHereOK, StartOK, SlotWaitOK

\* A worker's node is running when its event is folded.
LEMMA SenderRunning ==
  ASSUME IInv, NEW n \in Node, msg[n].ev # "none"
  PROVE  life[n] = "running" /\ msg[n] \in Events
<1>1. msg[n] # NoEvent
  BY DEF NoEvent
<1> QED
  BY <1>1 DEF IInv, FlightInv, InFlight, TypeOK

\* What every fold has in common.
LEMMA FoldOK ==
  ASSUME IInv, NEW n \in Node, msg[n].ev # "none", Received(n),
         IF msg[n].ev \in {"settled", "deferred"} THEN ReleasePools(n) ELSE UNCHANGED poolUsed,
         GraphInv(life', edge', indeg'), Fresh(life'),
         status' \in [Node -> Terminal \cup {"none"}],
         waitZero' \in SUBSET Node, stash' \in SUBSET Node, timer' \in SUBSET Node,
         journal' \in SUBSET Node, fatal' \in BOOLEAN, paused' \in BOOLEAN,
         checked' \in [Loops -> Nat],
         UNCHANGED <<known, deferrals, progressed, marker, runEnd>>,
         pc' \in {"top", "gate"},
         \A m \in Node : /\ life[m] = "done" => life'[m] = "done" /\ status'[m] = status[m]
                         /\ life'[m] = "running" <=> life[m] = "running" /\ m # n
                         /\ life'[m] \in {"slotwait", "running"} => life'[m] = life[m]
  PROVE  StepOK
<1>1. TypeOK /\ FlightInv
  BY DEF IInv
<1>2. /\ FlightInv' /\ poolUsed' \in [Pools -> Nat] /\ outstanding' \in Nat
      /\ msg' \in [Node -> Events] /\ worker' = worker
  BY <1>1, FlightReceive
<1>3. TypeOK'
  BY <1>1, <1>2 DEF TypeOK, GraphInv
<1>4. IInv'
  BY <1>2, <1>3 DEF IInv, DrainsUnpaused
<1> QED
  BY <1>4 DEF StepOK

\* A fold that settles the sender on the graph as it is.
LEMMA FoldSettleOK ==
  ASSUME IInv, NEW n \in Node, msg[n].ev # "none", Received(n),
         IF msg[n].ev \in {"settled", "deferred"} THEN ReleasePools(n) ELSE UNCHANGED poolUsed,
         NEW st \in Terminal, NEW executed \in BOOLEAN, Settle(n, st, executed),
         paused' \in BOOLEAN, checked' \in [Loops -> Nat],
         UNCHANGED <<known, timer, deferrals, progressed, marker, runEnd>>,
         pc' \in {"top", "gate"}
  PROVE  StepOK
<1>1. TypeOK /\ GraphInv(life, edge, indeg) /\ Fresh(life) /\ life[n] = "running"
  BY SenderRunning DEF IInv
<1>2. /\ GraphInv(life', edge', indeg')
      /\ status' \in [Node -> Terminal \cup {"none"}]
      /\ waitZero' \in SUBSET Node /\ stash' \in SUBSET Node
      /\ journal' \in SUBSET Node /\ fatal' \in BOOLEAN
      /\ \A m \in Node : /\ life[m] = "done" => life'[m] = "done" /\ status'[m] = status[m]
                         /\ life'[m] = "absent" <=> life[m] = "absent"
                         /\ life'[m] = "running" <=> life[m] = "running" /\ m # n
                         /\ life'[m] \in {"slotwait", "running"} => life'[m] = life[m]
  BY <1>1, SettleStep DEF Settle
<1>3. Fresh(life')
  BY <1>1, <1>2, InstAssumption DEF Fresh
<1>4. timer' \in SUBSET Node
  BY <1>1 DEF TypeOK
<1> QED
  BY <1>2, <1>3, <1>4, FoldOK

\* A fold that puts the sender back to an open life, and may release parked
\* nodes.
LEMMA FoldMoveOK ==
  ASSUME IInv, NEW n \in Node, msg[n].ev # "none", Received(n),
         IF msg[n].ev \in {"settled", "deferred"} THEN ReleasePools(n) ELSE UNCHANGED poolUsed,
         life' \in [Node -> Lives],
         life'[n] \in {"queued", "deferred", "pending"},
         \A m \in Node \ {n} : life'[m] = life[m] \/ (life[m] = "deferred" /\ life'[m] = "queued"),
         waitZero' \in SUBSET Node, stash' \in SUBSET Node, timer' \in SUBSET Node,
         journal' \in SUBSET Node, fatal' \in BOOLEAN, paused' \in BOOLEAN,
         checked' \in [Loops -> Nat],
         UNCHANGED <<status, edge, indeg, known, deferrals, progressed, marker, runEnd>>,
         pc' \in {"top", "gate"}
  PROVE  StepOK
<1>1. TypeOK /\ GraphInv(life, edge, indeg) /\ Fresh(life) /\ life[n] = "running"
  BY SenderRunning DEF IInv
<1>2. \A m \in Node : /\ life'[m] = "done" <=> life[m] = "done"
                      /\ life'[m] = "absent" <=> life[m] = "absent"
                      /\ life[m] = "pending" => life'[m] = "pending"
                      /\ life'[m] = "running" <=> life[m] = "running" /\ m # n
                      /\ life'[m] \in {"slotwait", "running"} => life'[m] = life[m]
  BY <1>1
<1>3. GraphInv(life', edge, indeg) /\ Fresh(life')
  BY <1>1, <1>2, MoveGraph
<1>4. GraphInv(life', edge', indeg') /\ status' \in [Node -> Terminal \cup {"none"}]
  BY <1>1, <1>3 DEF TypeOK
<1> QED
  BY <1>2, <1>3, <1>4, FoldOK

\* evDeferred: the node is parked, or requeued when nobody else is in flight.
LEMMA FoldDeferredOK ==
  ASSUME IInv, NEW n \in Node, FoldDeferred(n),
         UNCHANGED <<progressed, marker, runEnd>>, pc' \in {"top", "gate"}
  PROVE  StepOK
<1>1. msg[n].ev = "deferred" /\ Received(n) /\ ReleasePools(n) /\ TypeOK
  BY DEF FoldDeferred, IInv
<1>2. waitZero' \in SUBSET Node /\ stash' \in SUBSET Node /\ timer' \in SUBSET Node
  BY <1>1 DEF FoldDeferred, TypeOK
<1>3. journal' \in SUBSET Node /\ fatal' \in BOOLEAN
  BY <1>1 DEF FoldDeferred, Journaled, TypeOK
<1>4. /\ paused' \in BOOLEAN /\ checked' \in [Loops -> Nat]
      /\ UNCHANGED <<status, edge, indeg, known, deferrals>>
  BY <1>1 DEF FoldDeferred, TypeOK
<1> DEFINE parked == [life EXCEPT ![n] = "deferred"]
<1>5. \/ life' = parked
      \/ life' = WakeParked(parked)
      \/ life' = [WakeParked(parked) EXCEPT ![n] = "queued"]
  BY DEF FoldDeferred
<1>6. parked \in [Node -> Lives] /\ WakeParked(parked) \in [Node -> Lives]
  BY <1>1 DEF TypeOK, WakeParked, Lives
<1>7. /\ life' \in [Node -> Lives] /\ life'[n] \in {"queued", "deferred"}
      /\ \A m \in Node \ {n} : life'[m] = life[m] \/ (life[m] = "deferred" /\ life'[m] = "queued")
  <2>1. CASE life' = parked
    BY <2>1, <1>1, <1>6 DEF TypeOK
  <2>2. CASE life' = WakeParked(parked)
    BY <2>2, <1>1, <1>6 DEF TypeOK, WakeParked
  <2>3. CASE life' = [WakeParked(parked) EXCEPT ![n] = "queued"]
    <3>1. life' \in [Node -> Lives] /\ life'[n] = "queued"
      BY <2>3, <1>6 DEF Lives
    <3>2. \A m \in Node \ {n} : life'[m] = WakeParked(parked)[m]
      BY <2>3, <1>6
    <3> QED
      BY <3>1, <3>2, <1>1 DEF TypeOK, WakeParked
  <2> QED
    BY <1>5, <2>1, <2>2, <2>3
<1> QED
  BY <1>1, <1>2, <1>3, <1>4, <1>7, FoldMoveOK

\* evExpected: the node fails, is requeued, or stops the run over its limit.
LEMMA FoldExpectedOK ==
  ASSUME IInv, NEW n \in Node, FoldExpected(n),
         UNCHANGED <<progressed, marker, runEnd>>, pc' \in {"top", "gate"}
  PROVE  StepOK
<1>1. /\ msg[n].ev = "expected" /\ Received(n) /\ UNCHANGED <<poolUsed, known, timer, deferrals>>
      /\ TypeOK /\ msg[n].loop \in Loops /\ msg[n].iter \in Nat
  BY SenderRunning, EventFields DEF FoldExpected, IInv
<1>2. checked' \in [Loops -> Nat]
  BY <1>1 DEF FoldExpected, TypeOK
<1>3. CASE Settle(n, "failed", FALSE) /\ UNCHANGED paused
  <2>1. paused' \in BOOLEAN /\ "failed" \in Terminal
    BY <1>1, <1>3 DEF TypeOK, Terminal
  <2> QED
    BY <2>1, <1>1, <1>2, <1>3, FoldSettleOK
<1>4. CASE /\ life' = [life EXCEPT ![n] = "queued"] \/ life' = [life EXCEPT ![n] = "pending"]
           /\ paused' \in BOOLEAN
           /\ UNCHANGED <<status, edge, indeg, waitZero, stash, journal, fatal>>
  <2>1. /\ life' \in [Node -> Lives] /\ life'[n] \in {"queued", "pending"}
        /\ \A m \in Node \ {n} : life'[m] = life[m]
    BY <1>1, <1>4 DEF TypeOK, Lives
  <2>2. /\ waitZero' \in SUBSET Node /\ stash' \in SUBSET Node /\ timer' \in SUBSET Node
        /\ journal' \in SUBSET Node /\ fatal' \in BOOLEAN
    BY <1>1, <1>4 DEF TypeOK
  <2> QED
    BY <2>1, <2>2, <1>1, <1>2, <1>4, FoldMoveOK
<1>5. \/ Settle(n, "failed", FALSE) /\ UNCHANGED paused
      \/ /\ life' = [life EXCEPT ![n] = "queued"] \/ life' = [life EXCEPT ![n] = "pending"]
         /\ paused' \in BOOLEAN
         /\ UNCHANGED <<status, edge, indeg, waitZero, stash, journal, fatal>>
  <2>1. paused \in BOOLEAN
    BY <1>1 DEF TypeOK
  <2> QED
    BY <2>1 DEF FoldExpected
<1> QED
  BY <1>3, <1>4, <1>5

\* evExpanded: the instances are spliced, then the generate node settles.
LEMMA FoldExpandedOK ==
  ASSUME IInv, NEW n \in Node, FoldExpanded(n),
         UNCHANGED <<progressed, marker, runEnd>>, pc' \in {"top", "gate"}
  PROVE  StepOK
<1>1. /\ msg[n].ev = "expanded" /\ Received(n)
      /\ UNCHANGED <<known, poolUsed, timer, deferrals, checked, paused>>
      /\ TypeOK /\ msg[n].ok \in BOOLEAN /\ life[n] = "running"
      /\ GraphInv(life, edge, indeg) /\ Fresh(life) /\ OwnItems
  BY SenderRunning, EventFields DEF FoldExpanded, IInv, FlightInv
<1>2. /\ paused' \in BOOLEAN /\ checked' \in [Loops -> Nat] /\ timer' \in SUBSET Node
      /\ "failed" \in Terminal /\ "ok" \in Terminal
  BY <1>1 DEF TypeOK, Terminal
<1>3. CASE ~msg[n].ok
  <2>1. Settle(n, "failed", FALSE)
    BY <1>3 DEF FoldExpanded
  <2> QED
    BY <2>1, <1>1, <1>2, FoldSettleOK
<1>4. CASE msg[n].ok
  <2> DEFINE is  == msg[n].items
             new == SpliceNodes(is)
             ed  == edge \cup SpliceEdges(n, is, edge)
             ind == SpliceIndeg(ed)
             lf  == SpliceLife(new, ind)
  <2>1. SettleOn(lf, ed, ind, n, "ok", FALSE)
    BY <1>4 DEF FoldExpanded
  <2>2. is \subseteq {i \in Inst : InstGen[i] = n}
    BY <1>1 DEF OwnItems
  <2>3. /\ GraphInv(lf, ed, ind) /\ lf[n] = "running"
        /\ \A m \in Node : \/ m \notin new /\ lf[m] = life[m]
                           \/ m \in new /\ life[m] = "absent" /\ lf[m] \in {"pending", "queued"}
        /\ \A m \in new : Path[m][1] \in Inst /\ InstGen[Path[m][1]] = n
    <3>1. /\ new = SpliceNodes(is) /\ ed = edge \cup SpliceEdges(n, is, edge)
          /\ ind = SpliceIndeg(ed)
          /\ lf = SpliceLife(new, ind)
      OBVIOUS
    <3> HIDE DEF is, new, ed, ind, lf
    <3> QED
      BY <3>1, <2>2, <1>1, SpliceGraph
  <2> HIDE DEF is, new, ed, ind, lf
  <2>4. /\ GraphInv(life', edge', indeg')
        /\ status' \in [Node -> Terminal \cup {"none"}]
        /\ waitZero' \in SUBSET Node /\ stash' \in SUBSET Node
        /\ journal' \in SUBSET Node /\ fatal' \in BOOLEAN
        /\ life'[n] = "done"
        /\ \A m \in Node : /\ lf[m] = "done" => life'[m] = "done" /\ status'[m] = status[m]
                           /\ life'[m] = "absent" <=> lf[m] = "absent"
                           /\ life'[m] = "running" <=> lf[m] = "running" /\ m # n
                           /\ life'[m] \in {"slotwait", "running"} => life'[m] = lf[m]
    BY <2>1, <2>3, <1>1, <1>2, SettleStep
  <2>5. \A m \in Node : /\ life[m] = "done" => life'[m] = "done" /\ status'[m] = status[m]
                        /\ life'[m] = "running" <=> life[m] = "running" /\ m # n
                        /\ life'[m] \in {"slotwait", "running"} => life'[m] = life[m]
    BY <2>3, <2>4
  <2>6. ASSUME NEW m \in Node, life'[m] # "absent", Path[m][1] \in Inst
        PROVE  life'[InstGen[Path[m][1]]] = "done"
    <3>1. CASE m \in new
      BY <3>1, <2>3, <2>4
    <3>2. CASE m \notin new
      <4>1. life[InstGen[Path[m][1]]] = "done" /\ InstGen[Path[m][1]] \in Node
        BY <3>2, <2>3, <2>4, <2>6, <1>1, InstAssumption DEF Fresh
      <4> QED
        BY <4>1, <2>5
    <3> QED
      BY <3>1, <3>2
  <2>7. Fresh(life')
    BY <2>6 DEF Fresh
  <2> QED
    BY <2>4, <2>5, <2>7, <1>1, <1>2, FoldOK
<1> QED
  BY <1>3, <1>4

\* One receive of the select.
LEMMA ReceiveOK ==
  ASSUME IInv, NEW n \in Node, Receive(n)
  PROVE  StepOK
<1>1. pc' \in {"top", "gate"} /\ UNCHANGED <<progressed, marker, runEnd>>
  BY DEF Receive, Continue
<1>2. CASE FoldSettled(n)
  <2>1. /\ msg[n].ev = "settled" /\ Received(n) /\ ReleasePools(n)
        /\ Settle(n, msg[n].status, msg[n].executed)
        /\ UNCHANGED <<known, timer, deferrals, checked, paused>>
    BY <1>2 DEF FoldSettled
  <2>2. msg[n].status \in Terminal /\ msg[n].executed \in BOOLEAN
    BY <2>1, SenderRunning, EventFields DEF Terminal
  <2>3. paused' \in BOOLEAN /\ checked' \in [Loops -> Nat]
    BY <2>1 DEF IInv, TypeOK
  <2> QED
    BY <2>1, <2>2, <2>3, <1>1, FoldSettleOK
<1> QED
  BY <1>1, <1>2, FoldDeferredOK, FoldExpandedOK, FoldExpectedOK DEF Receive

\* The wake of a defer window: a node that is still deferred is requeued.
LEMMA WakeOK ==
  ASSUME IInv, NEW n \in Node, Wake(n)
  PROVE  StepOK
<1>1. TypeOK /\ FlightInv /\ GraphInv(life, edge, indeg) /\ Fresh(life)
  BY DEF IInv
<1>2. /\ pc' \in {"top", "gate"} /\ UNCHANGED <<status, edge, indeg, flightVars>>
      /\ life' = IF life[n] = "deferred" THEN [life EXCEPT ![n] = "queued"] ELSE life
  BY DEF Wake
<1>3. /\ life' \in [Node -> Lives]
      /\ \A m \in Node : life'[m] = life[m] \/ (life[m] = "deferred" /\ life'[m] = "queued")
  BY <1>1, <1>2 DEF TypeOK, Lives
<1>4. FlightInv'
  <2>1. \A m \in Node : life'[m] = "running" <=> life[m] = "running"
    BY <1>3
  <2> QED
    BY <2>1, <1>1, <1>2, FlightSame
<1>5. GraphInv(life', edge', indeg') /\ Fresh(life')
  <2>1. \A m \in Node : /\ life'[m] = "done" <=> life[m] = "done"
                        /\ life'[m] = "absent" <=> life[m] = "absent"
                        /\ life[m] = "pending" => life'[m] = "pending"
    BY <1>3
  <2> QED
    BY <2>1, <1>1, <1>2, <1>3, MoveGraph
<1>6. TypeOK'
  BY <1>1, <1>2, <1>3 DEF TypeOK, Wake, flightVars
<1>7. IInv'
  BY <1>2, <1>4, <1>5, <1>6 DEF IInv, DrainsUnpaused
<1> QED
  BY <1>2, <1>3, <1>7 DEF StepOK

\* A box worker moves, or sends its event.
LEMMA WorkerOK ==
  ASSUME IInv, NEW n \in Node, WorkerStep(n)
  PROVE  StepOK
<1>1. TypeOK /\ FlightInv /\ GraphInv(life, edge, indeg) /\ Fresh(life) /\ DrainsUnpaused
  BY DEF IInv
<1>2. /\ worker[n] # "none"
      /\ UNCHANGED <<pc, progressed, known, graphVars, poolUsed, outstanding, waitZero,
                     timer, stash, checked, marker, paused, journal, fatal, runEnd>>
  BY DEF WorkerStep, Admit, BoxDone
<1>3. deferrals' \in [Node -> 0..MaxDefer]
  BY <1>1, BoundAssumption DEF WorkerStep, Admit, BoxDone, TypeOK
<1>4. \E e \in Events : /\ e.ev \in {"settled", "deferred"}
                        /\ \/ worker' = [worker EXCEPT ![n] = "box"] /\ UNCHANGED msg
                           \/ Send(n, e)
  <2>1. /\ \A st \in {"ok", "failed", "halted"}, x \in BOOLEAN :
             [ev |-> "settled", status |-> st, executed |-> x] \in Events
        /\ \A t \in BOOLEAN, c \in BOOLEAN :
             [ev |-> "deferred", timed |-> t, costs |-> c] \in Events
    BY DEF Events
  <2>2. \/ worker' = [worker EXCEPT ![n] = "box"] /\ UNCHANGED msg
        \/ \E st \in {"ok", "failed", "halted"}, x \in BOOLEAN :
             Send(n, [ev |-> "settled", status |-> st, executed |-> x])
        \/ \E t \in BOOLEAN, c \in BOOLEAN :
             Send(n, [ev |-> "deferred", timed |-> t, costs |-> c])
    BY DEF WorkerStep, Admit, BoxDone
  <2>3. CASE worker' = [worker EXCEPT ![n] = "box"] /\ UNCHANGED msg
    <3>1. [ev |-> "settled", status |-> "ok", executed |-> TRUE] \in Events
      BY <2>1
    <3> QED
      BY <2>3, <3>1
  <2>4. CASE \E st \in {"ok", "failed", "halted"}, x \in BOOLEAN :
               Send(n, [ev |-> "settled", status |-> st, executed |-> x])
    BY <2>1, <2>4
  <2>5. CASE \E t \in BOOLEAN, c \in BOOLEAN :
               Send(n, [ev |-> "deferred", timed |-> t, costs |-> c])
    BY <2>1, <2>5
  <2> QED
    BY <2>2, <2>3, <2>4, <2>5
<1>5. /\ FlightInv' /\ msg' \in [Node -> Events]
      /\ worker' \in [Node -> {"none", "admit", "box"}]
  BY <1>1, <1>2, <1>4, FlightWork DEF graphVars
<1>6. TypeOK'
  BY <1>1, <1>2, <1>3, <1>5 DEF TypeOK, graphVars
<1>7. GraphInv(life', edge', indeg') /\ Fresh(life')
  BY <1>1, <1>2 DEF graphVars
<1>8. IInv'
  BY <1>1, <1>2, <1>5, <1>6, <1>7 DEF IInv, DrainsUnpaused
<1> QED
  BY <1>2, <1>8 DEF StepOK, graphVars

-----------------------------------------------------------------------------
\* Every step keeps the inductive invariant, leaves settled nodes alone and,
\* once paused, launches nothing.
THEOREM Inductive == IInv /\ [Next]_vars => StepOK
<1> SUFFICES ASSUME IInv, [Next]_vars PROVE StepOK
  OBVIOUS
<1>1. CASE LoopStep
  BY <1>1, PauseGateOK, GrantOK, PassOK, DispatchOK, ReceiveOK, WakeOK, SelectOK, ExitOK DEF LoopStep
<1>2. CASE Abort \/ RequestPause
  BY <1>2, SelectOK
<1>3. CASE Finished \/ UNCHANGED vars
  BY <1>3, StutterOK DEF Finished
<1>4. CASE \E n \in Node : WorkerStep(n)
  BY <1>4, WorkerOK
<1> QED
  BY <1>1, <1>2, <1>3, <1>4 DEF Next

\* The inductive invariant holds in the run's first state.
LEMMA InitIInv == Init => IInv
<1> SUFFICES ASSUME Init PROVE IInv
  OBVIOUS
<1>1. GraphInv(life, edge, indeg) /\ Fresh(life)
  BY InitGraph
<1>2. /\ worker = [n \in Node |-> "none"] /\ msg = [n \in Node |-> NoEvent]
      /\ outstanding = 0 /\ poolUsed = [p \in Pools |-> 0]
      /\ pc = "gate" /\ NoEvent.ev = "none"
  BY DEF Init, NoEvent
<1>3. \A n \in Node : life[n] # "running" /\ ~Holds(n)
  BY <1>2 DEF Init, Holds
<1>4. outstanding = Cardinality(Running)
  <2>1. Running = {}
    BY <1>3 DEF Running
  <2> QED
    BY <2>1, <1>2, FS_EmptySet
<1>5. InFlight /\ OwnItems
  BY <1>2, <1>3 DEF InFlight, OwnItems
<1>6. PoolsExact
  <2>1. \A p \in Pools : {n \in Node : Holds(n) /\ p \in PoolsOf(n)} = {}
    BY <1>3
  <2>2. \A p \in Pools : Bound(p) \in Nat /\ poolUsed[p] = 0
    BY <1>2, BoundType
  <2> QED
    BY <2>1, <2>2, FS_EmptySet DEF PoolsExact
<1>7. TypeOK
  <2>1. msg \in [Node -> Events]
    BY <1>2 DEF Events
  <2>2. life \in [Node -> Lives] /\ edge \in SUBSET (Node \X Node) /\ indeg \in [Node -> Nat]
    BY <1>1 DEF GraphInv
  <2>3. /\ status = [n \in Node |-> "none"] /\ known = [n \in Node |-> "nothing"]
        /\ deferrals = [n \in Node |-> 0] /\ checked = [l \in Loops |-> 0]
        /\ progressed = FALSE /\ waitZero = {} /\ timer = {} /\ stash = {} /\ journal = {}
        /\ marker = FALSE /\ paused = FALSE /\ fatal = FALSE /\ runEnd = "none"
    BY DEF Init
  <2>4. deferrals \in [Node -> 0..MaxDefer]
    BY <2>3, BoundAssumption
  <2> QED
    BY <2>1, <2>2, <2>3, <2>4, <1>2 DEF TypeOK
<1> QED
  BY <1>1, <1>2, <1>4, <1>5, <1>6, <1>7 DEF IInv, FlightInv, DrainsUnpaused

\* The inductive invariant is one.
THEOREM Invariance == Spec => []IInv
<1>1. IInv /\ [Next]_vars => IInv'
  BY Inductive DEF StepOK
<1> QED
  BY <1>1, InitIInv, PTL DEF Spec

\* Every variable keeps to its type: in particular no in-degree, pool count or
\* outstanding count of scheduler.go ever goes negative.
THEOREM TypeCorrect == Spec => []TypeOK
<1>1. IInv => TypeOK
  BY DEF IInv
<1> QED
  BY <1>1, Invariance, PTL

\* finish, edge and applyExpansion keep the in-degrees exact.
THEOREM IndegCorrect == Spec => []IndegExact
<1>1. IInv => IndegExact
  BY DEF IInv, GraphInv, Counted, IndegExact
<1> QED
  BY <1>1, Invariance, PTL

\* takeSlot and releaseSlot keep every pool's count exact and within its bound.
THEOREM PoolsCorrect == Spec => []PoolsExact
<1>1. IInv => PoolsExact
  BY DEF IInv, FlightInv
<1> QED
  BY <1>1, Invariance, PTL

\* `outstanding' counts the workers the loop still has to hear from, and run
\* returns to the executor with none of them left.
THEOREM OutstandingCorrect == Spec => []OutstandingExact
<1>1. IInv => OutstandingExact
  <2> SUFFICES ASSUME IInv PROVE OutstandingExact
    OBVIOUS
  <2>1. Running = {n \in Node : worker[n] # "none" \/ msg[n] # NoEvent}
    BY DEF IInv, FlightInv, InFlight, Running
  <2> QED
    BY <2>1 DEF IInv, FlightInv, OutstandingExact
<1> QED
  BY <1>1, Invariance, PTL

\* A settled node is settled for good.
THEOREM SettledCorrect == Spec => SettledForever
<1>1. IInv /\ [Next]_vars =>
        [\A n \in Node : life[n] = "done" => life'[n] = "done" /\ status'[n] = status[n]]_vars
  BY Inductive DEF StepOK
<1> QED
  BY <1>1, Invariance, PTL DEF Spec, SettledForever

\* After the pause is latched nothing is dispatched, granted or launched.
THEOREM PauseCorrect == Spec => PausedStartsNothing
<1>1. IInv /\ [Next]_vars =>
        [paused => \A n \in Node : life'[n] \in {"slotwait", "running"} => life[n] = life'[n]]_vars
  BY Inductive DEF StepOK
<1> QED
  BY <1>1, Invariance, PTL DEF Spec, PausedStartsNothing
-----------------------------------------------------------------------------
(* What the run loop promises beyond its counters, proved from IInv and    *)
(* two more invariants: Readiness of the graph, which makes a drained loop *)
(* with nothing in flight impossible, and LoopInv of the loop itself.      *)

\* A node was released and has not settled.
Busy == {"queued", "slotwait", "running", "deferred"}

\* Every predecessor of n settled.
PredsDone(lf, ed, n) == \A p \in Node : <<p, n>> \in ed => lf[p] = "done"

\* An edge joins nodes of the graph.
Present(lf, ed) == \A e \in ed : lf[e[1]] # "absent" /\ lf[e[2]] # "absent"

\* Only a node whose predecessors all settled is released.
Ready(lf, ed) == \A n \in Node : lf[n] \in Busy => PredsDone(lf, ed, n)

\* Every node whose predecessors all settled is released.
Waits(lf, ed) == \A n \in Node : lf[n] = "pending" => ~PredsDone(lf, ed, n)

\* Every set of nodes has one that none of the others precedes.
Acyclic(ed) == \A T \in SUBSET Node : T # {} => \E n \in T : \A p \in T : <<p, n>> \notin ed

Sound(lf, ed) == Present(lf, ed) /\ Ready(lf, ed) /\ Acyclic(ed)

\* The invariant of readiness; a node an expect verdict stopped over its limit
\* stays behind, and the run with it.
Readiness == Sound(life, edge) /\ (paused \/ Waits(life, edge))

-----------------------------------------------------------------------------
\* The in-degree of a node is zero when its predecessors settled.
LEMMA CountZero ==
  ASSUME NEW lf, NEW ed, NEW ind, Counted(lf, ed, ind), NEW d \in Node
  PROVE  ind[d] = 0 <=> PredsDone(lf, ed, d)
<1> DEFINE P == {p \in Node : <<p, d>> \in ed /\ lf[p] # "done"}
<1>1. ind[d] = Cardinality(P)
  BY DEF Counted
<1>2. IsFiniteSet(P)
  BY NodeSets
<1>3. Cardinality(P) = 0 <=> P = {}
  <2> HIDE DEF P
  <2> QED
    BY <1>2, FS_EmptySet
<1>4. P = {} <=> PredsDone(lf, ed, d)
  BY DEF PredsDone
<1> HIDE DEF P
<1> QED
  BY <1>1, <1>3, <1>4

\* finish releases the nodes whose last predecessor settled, and only those.
LEMMA SettleReady ==
  ASSUME NEW lf, NEW ed, NEW ind, GraphInv(lf, ed, ind), Sound(lf, ed),
         NEW n \in Node, lf[n] \notin {"absent", "pending", "done"}, NEW st,
         NEW S, S = {n} \cup Cascade(lf, ed, n, st),
         NEW ind2, ind2 = DropIndeg(S, ed, ind),
         NEW lf2, lf2 = LifeAfter(S, lf, ed, ind2)
  PROVE  Sound(lf2, ed) /\ (Waits(lf, ed) => Waits(lf2, ed))
<1>1. /\ GraphInv(lf2, ed, ind2)
      /\ S \subseteq Node
      /\ \A m \in Node : /\ lf2[m] = "done" <=> lf[m] = "done" \/ m \in S
                         /\ lf2[m] = "absent" <=> lf[m] = "absent"
  BY SettleGraph
<1>2. Counted(lf2, ed, ind2) /\ ed \in SUBSET (Node \X Node) /\ lf \in [Node -> Lives]
  BY <1>1 DEF GraphInv
<1>3. \A d \in Node : ind2[d] = 0 <=> PredsDone(lf2, ed, d)
  BY <1>2, CountZero
<1>4. Present(lf2, ed)
  BY <1>1, <1>2 DEF Present, Sound
<1>5. \A m \in Node : PredsDone(lf, ed, m) => PredsDone(lf2, ed, m)
  BY <1>1 DEF PredsDone
<1>6. ASSUME NEW m \in Node, lf2[m] \in Busy PROVE PredsDone(lf2, ed, m)
  <2>1. CASE m \notin S /\ lf[m] = "pending" /\ ind2[m] = 0
    BY <2>1, <1>3
  <2>2. CASE lf[m] \in Busy
    BY <2>2, <1>5 DEF Sound, Ready
  <2> QED
    BY <1>6, <2>1, <2>2 DEF LifeAfter, Busy
<1>7. ASSUME Waits(lf, ed), NEW m \in Node, lf2[m] = "pending", PredsDone(lf2, ed, m)
      PROVE  FALSE
  <2>1. m \notin S /\ lf[m] = "pending" /\ ind2[m] = 0
    BY <1>3, <1>7 DEF LifeAfter
  <2>2. PICK p \in Node : <<p, m>> \in ed /\ lf[p] # "done"
    BY <2>1, <1>7 DEF Waits, PredsDone
  <2>3. p \in S
    BY <2>2, <1>1, <1>7 DEF PredsDone
  <2> QED
    BY <2>1, <2>2, <2>3, <1>7 DEF LifeAfter
<1> QED
  BY <1>4, <1>6, <1>7 DEF Sound, Ready, Waits

\* The edges a splice adds: within an instance, from an item to one that lists
\* it, or from an instance to a dependent of its generate node.
LEMMA SpliceKinds ==
  ASSUME NEW g, NEW is, is \subseteq Inst, NEW ed, NEW e \in SpliceEdges(g, is, ed)
  PROVE  /\ e = <<e[1], e[2]>> /\ e[1] \in Node /\ e[2] \in Node
         /\ \/ \E i \in is : e \in AddLevel(i) /\ e[1] \in Below(i) /\ e[2] \in Below(i)
            \/ \E j, k \in is : /\ <<j, k>> \in InstDeps
                                /\ e[1] \in Below(j) /\ e[1] \in DeepSinks(j)
                                /\ e[2] \in Below(k) /\ e[2] \in LevelSources(k)
            \/ \E i \in is : e[1] \in Below(i) /\ e[1] \in DeepSinks(i) /\ <<g, e[2]>> \in ed
<1>1. \A i \in is : i \in Roots /\ DeepSinks(i) \subseteq Below(i) /\ Below(i) \subseteq Node
  BY DEF Roots, DeepSinks, Below
<1>2. CASE \E i \in is : e \in AddLevel(i)
  <2>1. PICK i \in is : e \in AddLevel(i)
    BY <1>2
  <2>2. e[1] \in Below(i) /\ e[2] \in Below(i) /\ e = <<e[1], e[2]>>
    BY <2>1, <1>1, AddLevelInto
  <2> QED
    BY <2>1, <2>2, <1>1
<1>3. CASE \E p \in InstDeps \cap (is \X is) : e \in DeepSinks(p[1]) \X LevelSources(p[2])
  <2>1. PICK p \in InstDeps \cap (is \X is) : e \in DeepSinks(p[1]) \X LevelSources(p[2])
    BY <1>3
  <2>2. p[1] \in is /\ p[2] \in is /\ <<p[1], p[2]>> \in InstDeps
    BY <2>1
  <2>3. e[2] \in Node /\ LevelOf(e[2]) = p[2]
    BY <2>1 DEF LevelSources, NodesOf
  <2>4. e[2] \in Below(p[2])
    BY <2>3, PathFacts DEF Below, LevelOf
  <2> QED
    BY <2>1, <2>2, <2>4, <1>1
<1>4. CASE e \in (UNION {DeepSinks(i) : i \in is}) \X {d \in Node : <<g, d>> \in ed}
  BY <1>4, <1>1
<1> QED
  BY <1>2, <1>3, <1>4 DEF SpliceEdges

\* The edges within and between the instances of an expansion have no cycle.
LEMMA SpliceAcyclic ==
  ASSUME NEW g, NEW is, is \subseteq Inst, NEW ed,
         NEW T, T \subseteq SpliceNodes(is), T # {},
         \A d \in T : <<g, d>> \notin ed
  PROVE  \E n \in T : \A p \in T : <<p, n>> \notin SpliceEdges(g, is, ed)
<1>1. \A i \in is : i \in Roots /\ Below(i) = {m \in Node : Path[m][1] = i}
  BY RootBelow DEF Roots
<1> DEFINE J == {i \in is : T \cap Below(i) # {}}
<1>2. J # {}
  BY DEF SpliceNodes
<1>3. PICK i \in J : \A j \in J : <<j, i>> \notin InstDeps
  <2>1. J \in SUBSET Inst
    OBVIOUS
  <2> QED
    BY <2>1, <1>2, AcyclicAssumption
<1>4. PICK n \in T \cap Below(i) : \A p \in T \cap Below(i) : <<p, n>> \notin AddLevel(i)
  <2>1. T \cap Below(i) \in SUBSET Below(i) /\ T \cap Below(i) # {} /\ i \in Roots
    BY <1>1, <1>3
  <2> QED
    BY <2>1, AddLevelAcyclic
<1>5. ASSUME NEW p \in T, <<p, n>> \in SpliceEdges(g, is, ed) PROVE FALSE
  <2> DEFINE e == <<p, n>>
  <2>1. e[1] = p /\ e[2] = n
    OBVIOUS
  <2>2. \/ \E k \in is : e \in AddLevel(k) /\ e[1] \in Below(k) /\ e[2] \in Below(k)
        \/ \E j, k \in is : <<j, k>> \in InstDeps /\ e[1] \in Below(j) /\ e[2] \in Below(k)
        \/ <<g, e[2]>> \in ed
    BY <1>5, SpliceKinds
  <2>3. CASE \E k \in is : e \in AddLevel(k) /\ p \in Below(k) /\ n \in Below(k)
    <3>1. PICK k \in is : e \in AddLevel(k) /\ p \in Below(k) /\ n \in Below(k)
      BY <2>3
    <3>2. k = i
      BY <3>1, <1>1, <1>4, <1>3
    <3> QED
      BY <3>1, <3>2, <1>4
  <2>4. CASE \E j, k \in is : <<j, k>> \in InstDeps /\ p \in Below(j) /\ n \in Below(k)
    <3>1. PICK j \in is, k \in is : <<j, k>> \in InstDeps /\ p \in Below(j) /\ n \in Below(k)
      BY <2>4
    <3>2. k = i
      BY <3>1, <1>1, <1>4, <1>3
    <3>3. j \in J
      BY <3>1
    <3> QED
      BY <3>1, <3>2, <3>3, <1>3
  <2> QED
    BY <2>1, <2>2, <2>3, <2>4
<1> QED
  BY <1>4, <1>5

\* applyExpansion's splice keeps readiness.
LEMMA SpliceReady ==
  ASSUME GraphInv(life, edge, indeg), Fresh(life), Sound(life, edge),
         NEW n \in Node, life[n] = "running",
         NEW is, is \subseteq {i \in Inst : InstGen[i] = n},
         NEW new, new = SpliceNodes(is),
         NEW ed, ed = edge \cup SpliceEdges(n, is, edge),
         NEW ind, ind = SpliceIndeg(ed),
         NEW lf, lf = SpliceLife(new, ind)
  PROVE  Sound(lf, ed) /\ (Waits(life, edge) => Waits(lf, ed))
<1>1. /\ GraphInv(lf, ed, ind)
      /\ \A m \in Node : \/ m \notin new /\ lf[m] = life[m]
                         \/ m \in new /\ life[m] = "absent" /\ lf[m] \in {"pending", "queued"}
  BY SpliceGraph
<1>2. Counted(lf, ed, ind) /\ edge \in SUBSET (Node \X Node)
  BY <1>1 DEF GraphInv
<1>3. new \subseteq Node /\ is \subseteq Inst
  BY DEF SpliceNodes, Below
<1>4. \A e \in edge : e[1] \in Node \ new /\ e[2] \in Node \ new
                      /\ life[e[1]] # "absent" /\ life[e[2]] # "absent"
  <2>1. edge \in SUBSET (Node \X Node)
    BY DEF GraphInv
  <2>2. \A e \in edge : life[e[1]] # "absent" /\ life[e[2]] # "absent"
    BY DEF Sound, Present
  <2>3. \A m \in new : life[m] = "absent"
    BY <1>1, <1>3
  <2> QED
    BY <2>1, <2>2, <2>3
<1>5. ASSUME NEW e \in SpliceEdges(n, is, edge)
      PROVE  e[1] \in new /\ e[2] \in Node /\ (e[2] \in new \/ <<n, e[2]>> \in edge)
  <2>1. /\ e[1] \in Node /\ e[2] \in Node
        /\ (\E i \in is : e[1] \in Below(i) /\ e[2] \in Below(i))
           \/ (\E j, k \in is : e[1] \in Below(j) /\ e[2] \in Below(k))
           \/ (\E i \in is : e[1] \in Below(i) /\ <<n, e[2]>> \in edge)
    BY <1>3, <1>5, SpliceKinds
  <2> QED
    BY <2>1 DEF SpliceNodes
<1>6. Present(lf, ed)
  <2>1. ASSUME NEW e \in ed PROVE lf[e[1]] # "absent" /\ lf[e[2]] # "absent"
    <3>1. CASE e \in edge
      BY <3>1, <1>1, <1>4
    <3>2. CASE e \in SpliceEdges(n, is, edge)
      <4>1. \A m \in new : lf[m] # "absent"
        BY <1>1, <1>3
      <4>2. CASE <<n, e[2]>> \in edge
        <5>1. e[2] \in Node \ new /\ life[e[2]] # "absent"
          BY <4>2, <1>4
        <5> QED
          BY <5>1, <4>1, <3>2, <1>1, <1>5
      <4> QED
        BY <4>1, <4>2, <3>2, <1>5
    <3> QED
      BY <3>1, <3>2
  <2> QED
    BY <2>1 DEF Present
<1>7. Ready(lf, ed)
  <2>1. ASSUME NEW m \in Node, lf[m] \in Busy PROVE PredsDone(lf, ed, m)
    <3>1. CASE m \in new
      <4>1. ind[m] = 0
        BY <3>1, <2>1 DEF SpliceLife, Busy
      <4> QED
        BY <4>1, <1>2, CountZero
    <3>2. CASE m \notin new
      <4>1. life[m] \in Busy
        BY <3>2, <2>1, <1>1
      <4>2. PredsDone(life, edge, m)
        BY <4>1 DEF Sound, Ready
      <4>3. <<n, m>> \notin edge
        BY <4>2 DEF PredsDone
      <4>4. ASSUME NEW p \in Node, <<p, m>> \in ed PROVE lf[p] = "done"
        <5>1. <<p, m>> \notin SpliceEdges(n, is, edge)
          BY <1>5, <3>2, <4>3
        <5>2. <<p, m>> \in edge /\ life[p] = "done"
          BY <5>1, <4>2, <4>4 DEF PredsDone
        <5> QED
          BY <5>2, <1>1
      <4> QED
        BY <4>4 DEF PredsDone
    <3> QED
      BY <3>1, <3>2
  <2> QED
    BY <2>1 DEF Ready
<1>8. Acyclic(ed)
  <2>1. ASSUME NEW T \in SUBSET Node, T # {} PROVE \E x \in T : \A p \in T : <<p, x>> \notin ed
    <3>1. CASE T \cap new # {}
      <4>1. \A d \in T \cap new : <<n, d>> \notin edge
        BY <1>4
      <4>2. PICK x \in T \cap new : \A p \in T \cap new : <<p, x>> \notin SpliceEdges(n, is, edge)
        BY <3>1, <4>1, <1>3, SpliceAcyclic
      <4>3. \A p \in T : <<p, x>> \notin edge
        BY <1>4, <4>2
      <4>4. \A p \in T : <<p, x>> \in SpliceEdges(n, is, edge) => p \in new
        BY <1>5
      <4> QED
        BY <4>2, <4>3, <4>4
    <3>2. CASE T \cap new = {}
      <4>1. PICK x \in T : \A p \in T : <<p, x>> \notin edge
        BY <2>1 DEF Sound, Acyclic
      <4>2. \A p \in T : <<p, x>> \notin SpliceEdges(n, is, edge)
        BY <1>5, <3>2
      <4> QED
        BY <4>1, <4>2
    <3> QED
      BY <3>1, <3>2
  <2> QED
    BY <2>1 DEF Acyclic
<1>9. ASSUME Waits(life, edge), NEW m \in Node, lf[m] = "pending" PROVE ~PredsDone(lf, ed, m)
  <2>1. CASE m \in new
    <3>1. ind[m] # 0
      BY <2>1, <1>9 DEF SpliceLife
    <3> QED
      BY <3>1, <1>2, CountZero
  <2>2. CASE m \notin new
    <3>1. PICK p \in Node : <<p, m>> \in edge /\ life[p] # "done"
      BY <2>2, <1>1, <1>9 DEF Waits, PredsDone
    <3>2. p \notin new
      BY <3>1, <1>4
    <3> QED
      BY <3>1, <3>2, <1>1 DEF PredsDone
  <2> QED
    BY <2>1, <2>2
<1> QED
  BY <1>6, <1>7, <1>8, <1>9 DEF Sound, Waits

-----------------------------------------------------------------------------
\* A drain that made no progress left nothing to grant, and the loop waits, if it
\* may still start work, with nothing ready and nothing to grant.
PassInv ==
  /\ pc = "ready" /\ ~progressed => Grantable = {}
  /\ pc = "top" /\ ~paused /\ ~fatal => Queued = {} /\ Grantable = {}

\* Short of a fatal append, exactly the settled nodes have a durable result.
JournalInv == ~fatal => journal = {n \in Node : life[n] = "done"}

\* The run-end status says how the run stopped.
ExitInv ==
  pc = "exit" => /\ runEnd # "aborted" => ~fatal
                 /\ runEnd = "settled" => AllDone
                 /\ runEnd = "paused" => paused /\ ~AllDone

\* The parking lot is only occupied while some node is on its way to settle.
LotInv ==
  waitZero # {} /\ ~paused => \E n \in Node : life[n] \in {"queued", "slotwait", "running"}

\* The invariant of the loop.
LoopInv == PassInv /\ JournalInv /\ ExitInv /\ LotInv /\ ParkedHasWaker /\ ExpectBeforeWork

-----------------------------------------------------------------------------
(* A step moves open nodes, settles a node on the graph as it is, or       *)
(* settles a generate node on the graph with its instances.                *)

Moves ==
  /\ UNCHANGED <<status, edge, indeg>>
  /\ \A m \in Node : /\ life'[m] = "done" <=> life[m] = "done"
                     /\ life'[m] = "absent" <=> life[m] = "absent"
                     /\ life[m] = "pending" => life'[m] = "pending"
                     /\ life'[m] = "pending" => life[m] = "pending" \/ paused'
                     /\ life'[m] \in Busy => life[m] \in Busy
  /\ paused => paused'

Settles ==
  \E n \in Node, st \in Terminal, x \in BOOLEAN :
    /\ life[n] \in {"queued", "running"} /\ Settle(n, st, x) /\ paused' = paused
    /\ st # "skipHalt"
    /\ st = "skipDep" => \E s \in DataSources(n) : status[s] # "ok"

Spliced(n, is) ==
  LET ed  == edge \cup SpliceEdges(n, is, edge)
      ind == SpliceIndeg(ed)
  IN  SettleOn(SpliceLife(SpliceNodes(is), ind), ed, ind, n, "ok", FALSE)

Splices ==
  \E n \in Node : \E is \in SUBSET {i \in Inst : InstGen[i] = n} :
    life[n] = "running" /\ Spliced(n, is) /\ paused' = paused

\* A step of the run loop keeps the loop's invariant and is of one of the kinds.
RunOK == LoopInv' /\ (Moves \/ Settles \/ Splices)

\* Steps that leave the graph, the pools and the parking lot alone.
LEMMA QuietRun ==
  ASSUME IInv, LoopInv, UNCHANGED <<graphVars, poolUsed, waitZero, timer, journal, checked>>,
         \A m \in Node : worker'[m] # "none" => worker[m] # "none",
         paused => paused', ~fatal' => ~fatal, PassInv', ExitInv'
  PROVE  RunOK
<1>1. /\ life' = life /\ status' = status /\ edge' = edge /\ indeg' = indeg
      /\ waitZero' = waitZero /\ timer' = timer /\ journal' = journal /\ checked' = checked
  BY DEF graphVars
<1>2. JournalInv' /\ LotInv' /\ ParkedHasWaker'
  BY <1>1 DEF LoopInv, JournalInv, LotInv, ParkedHasWaker
<1>3. ExpectBeforeWork'
  BY <1>1 DEF LoopInv, ExpectBeforeWork
<1>4. Moves
  BY <1>1 DEF Moves
<1> QED
  BY <1>2, <1>3, <1>4 DEF RunOK, LoopInv

\* The loop's own moves between its positions, and the requests of others.
LEMMA PositionsRun ==
  ASSUME IInv, LoopInv,
         PauseGate \/ GrantsDone \/ DrainDone \/ IdleTick \/ RequestPause \/ Abort
  PROVE  RunOK
<1>1. /\ UNCHANGED <<graphVars, flightVars, parkVars, journal, checked, runEnd>>
      /\ paused => paused'
      /\ ~fatal' => ~fatal
      /\ pc' # "exit"
  <2>1. ASSUME PauseGate PROVE paused => paused'
    BY <2>1, Zenon DEF PauseGate
  <2>2. ASSUME ~PauseGate PROVE paused => paused'
    BY <2>2 DEF GrantsDone, DrainDone, IdleTick, RequestPause, Abort
  <2>3. UNCHANGED <<graphVars, flightVars, parkVars, journal, checked, runEnd>> /\ pc' # "exit"
    BY DEF PauseGate, GrantsDone, DrainDone, IdleTick, RequestPause, Abort
  <2>4. ~fatal' => ~fatal
    BY DEF PauseGate, GrantsDone, DrainDone, IdleTick, RequestPause, Abort
  <2> QED
    BY <2>1, <2>2, <2>3, <2>4
<1>2. Queued' = Queued /\ Grantable' = Grantable
  BY <1>1 DEF Queued, Grantable, SlotWait, PoolsOf, graphVars, flightVars
<1>3. PassInv'
  <2>1. PassInv
    BY DEF LoopInv
  <2>2. CASE PauseGate
    BY <2>2 DEF PauseGate, PassInv
  <2>3. CASE GrantsDone
    BY <2>3, <1>2 DEF GrantsDone, PassInv
  <2>4. CASE DrainDone
    BY <2>1, <2>4, <1>2 DEF DrainDone, PassInv
  <2>5. CASE IdleTick
    BY <2>5 DEF IdleTick, PassInv
  <2>6. CASE RequestPause
    BY <2>1, <2>6, <1>2 DEF RequestPause, PassInv
  <2>7. CASE Abort
    BY <2>7 DEF Abort, PassInv
  <2> QED
    BY <2>2, <2>3, <2>4, <2>5, <2>6, <2>7 DEF PassInv
<1>4. ExitInv'
  BY <1>1 DEF ExitInv
<1> QED
  BY <1>1, <1>3, <1>4, QuietRun DEF flightVars, parkVars

\* run returns: Execute's status is derived from the state it returned in.
LEMMA ExitRun ==
  ASSUME IInv, LoopInv, Exit
  PROVE  RunOK
<1>1. /\ UNCHANGED <<graphVars, flightVars, parkVars, journal, checked, paused, fatal>>
      /\ pc' = "exit"
      /\ runEnd' = IF fatal THEN "aborted"
                   ELSE IF paused /\ ~AllDone THEN "paused" ELSE "settled"
      /\ LoopEnds
  BY DEF Exit
<1>2. ExitInv'
  <2>1. AllDone' <=> AllDone
    BY <1>1 DEF AllDone, graphVars
  <2>2. fatal' = fatal /\ paused' = paused
    BY <1>1
  <2> QED
    BY <1>1, <2>1, <2>2 DEF ExitInv, LoopEnds, AllDone
<1>3. PassInv'
  BY <1>1 DEF PassInv
<1> QED
  BY <1>1, <1>2, <1>3, QuietRun DEF flightVars, parkVars

\* A box worker works beside the loop.
LEMMA WorkerRun ==
  ASSUME IInv, LoopInv, NEW n \in Node, WorkerStep(n)
  PROVE  RunOK
<1>1. /\ UNCHANGED <<pc, progressed, graphVars, poolUsed, waitZero, timer, checked,
                     paused, journal, fatal, runEnd>>
      /\ worker[n] # "none"
      /\ \E w : worker' = [worker EXCEPT ![n] = w]
  BY DEF WorkerStep, Admit, BoxDone, Send
<1>2. Queued' = Queued /\ Grantable' = Grantable /\ (AllDone' <=> AllDone)
  BY <1>1 DEF Queued, Grantable, SlotWait, PoolsOf, AllDone, graphVars
<1>3. \A m \in Node : worker'[m] # "none" => worker[m] # "none"
  BY <1>1 DEF IInv, TypeOK
<1>4. PassInv' /\ ExitInv'
  BY <1>1, <1>2 DEF LoopInv, PassInv, ExitInv
<1> QED
  BY <1>1, <1>3, <1>4, QuietRun

\* A step of nothing.
LEMMA StutterRun ==
  ASSUME IInv, LoopInv, UNCHANGED vars
  PROVE  RunOK
<1>1. /\ UNCHANGED <<pc, progressed, graphVars, poolUsed, waitZero, timer, checked,
                     paused, journal, fatal, runEnd, worker>>
  BY DEF vars, graphVars
<1>2. Queued' = Queued /\ Grantable' = Grantable /\ (AllDone' <=> AllDone)
  BY <1>1 DEF Queued, Grantable, SlotWait, PoolsOf, AllDone, graphVars
<1>3. PassInv' /\ ExitInv'
  BY <1>1, <1>2 DEF LoopInv, PassInv, ExitInv
<1> QED
  BY <1>1, <1>3, QuietRun

\* Steps that move open nodes between their open lives.
LEMMA MoveRun ==
  ASSUME IInv, LoopInv, Moves, ~fatal' => ~fatal /\ journal' = journal, pc' # "exit",
         PassInv', LotInv', ParkedHasWaker', ExpectBeforeWork'
  PROVE  RunOK
<1>1. JournalInv'
  <2>1. \A m \in Node : life'[m] = "done" <=> life[m] = "done"
    BY DEF Moves
  <2> QED
    BY <2>1 DEF LoopInv, JournalInv
<1>2. ExitInv'
  BY DEF ExitInv
<1> QED
  BY <1>1, <1>2 DEF RunOK, LoopInv

\* A step that settles n empties the parking lot into the ready heap and makes
\* the results of everything it settled durable, or the run fatal.
LEMMA SettleRun ==
  ASSUME IInv, LoopInv, NEW lf, NEW ed, NEW ind, GraphInv(lf, ed, ind),
         NEW n \in Node, life[n] \in {"queued", "running"}, lf[n] = life[n],
         \A m \in Node : \/ lf[m] = life[m]
                         \/ life[m] = "absent" /\ lf[m] \in {"pending", "queued"},
         NEW st, NEW x, SettleOn(lf, ed, ind, n, st, x),
         UNCHANGED <<worker, timer>>,
         \A l \in Loops : checked'[l] >= checked[l],
         checked' \in [Loops -> Nat]
  PROVE  JournalInv' /\ LotInv' /\ ParkedHasWaker' /\ ExpectBeforeWork'
<1> DEFINE S == {n} \cup Cascade(lf, ed, n, st)
           cost == st \in {"ok", "failed", "halted"} /\ (x \/ n \in stash)
           recs == ({"result"} \X S) \cup (IF cost THEN {<<"cost", n>>} ELSE {})
<1>1. /\ life' = LifeAfter(S, lf, ed, DropIndeg(S, ed, ind)) /\ waitZero' = {} /\ Journaled(recs)
  BY DEF SettleOn
<1>2. /\ S \subseteq Node
      /\ \A m \in S \ {n} : lf[m] \in {"pending", "queued"}
  BY CascadeFacts DEF Open
<1>3. \A m \in Node : life'[m] = "done" <=> lf[m] = "done" \/ m \in S
  BY <1>1 DEF LifeAfter
<1>4. JournalInv'
  <2>1. ASSUME ~fatal' PROVE ~fatal /\ journal' = journal \cup S
    <3>1. PICK lost \in SUBSET recs :
             /\ journal' = journal \cup {r[2] : r \in {y \in recs \ lost : y[1] = "result"}}
             /\ fatal' = (fatal \/ lost # {})
      BY <1>1 DEF Journaled
    <3>2. ~fatal /\ lost = {}
      BY <3>1, <2>1
    <3>3. {r[2] : r \in {y \in recs : y[1] = "result"}} = S
      <4>1. {y \in recs : y[1] = "result"} = {"result"} \X S
        OBVIOUS
      <4> DEFINE R == {"result"} \X S
      <4>2. {r[2] : r \in R} = S
        <5>1. \A m \in S : <<"result", m>> \in R /\ <<"result", m>>[2] = m
          OBVIOUS
        <5>2. \A r \in R : r[2] \in S
          OBVIOUS
        <5> HIDE DEF R, S
        <5> QED
          BY <5>1, <5>2
      <4> QED
        BY <4>1, <4>2
    <3> HIDE DEF recs
    <3>4. recs \ lost = recs
      BY <3>2
    <3> QED
      BY <3>1, <3>2, <3>3, <3>4
  <2>2. {m \in Node : life'[m] = "done"} = {m \in Node : life[m] = "done"} \cup S
    BY <1>2, <1>3
  <2> HIDE DEF S
  <2> QED
    BY <2>1, <2>2 DEF LoopInv, JournalInv
<1>5. LotInv'
  BY <1>1 DEF LotInv
<1>6. ParkedHasWaker'
  <2>1. ParkedHasWaker
    BY DEF LoopInv
  <2>2. \A m \in Node : life'[m] = "deferred" <=> life[m] = "deferred" /\ m \notin waitZero
    BY <1>1, <1>2 DEF LifeAfter
  <2> QED
    BY <1>1, <2>1, <2>2 DEF ParkedHasWaker
<1>7. ExpectBeforeWork'
  <2>1. ASSUME NEW m \in Node, life'[m] = "slotwait" \/ worker'[m] # "none"
        PROVE  life[m] = "slotwait" \/ worker[m] # "none"
    BY <2>1, <1>1 DEF LifeAfter
  <2>2. \A m \in Node, k \in Nat : k \in DOMAIN Iters[m] => Iters[m][k][1] \in Loops /\ Iters[m][k][2] \in Nat
    BY LoopAssumption
  <2>3. \A m \in Node : DOMAIN Iters[m] \subseteq Nat
    BY LoopAssumption
  <2>4. \A l \in Loops : checked[l] \in Nat /\ checked'[l] \in Nat /\ checked'[l] >= checked[l]
    BY DEF IInv, TypeOK
  <2> QED
    BY <2>1, <2>2, <2>3, <2>4 DEF LoopInv, ExpectBeforeWork
<1> QED
  BY <1>4, <1>5, <1>6, <1>7

\* One grant of a pass.
LEMMA GrantRun ==
  ASSUME IInv, LoopInv, Grant
  PROVE  RunOK
<1> DEFINE n == Least(Grantable)
<1>1. n \in Node /\ life[n] = "slotwait"
  <2>1. Grantable \subseteq Nat /\ Grantable # {}
    BY NodeAssumption DEF Grant, Grantable, SlotWait
  <2>2. n \in Grantable
    BY <2>1, LeastIn
  <2> QED
    BY <2>2 DEF Grantable, SlotWait
<1>2. /\ life' = [life EXCEPT ![n] = "running"] /\ worker' = [worker EXCEPT ![n] = "admit"]
      /\ pc = "grant" /\ pc' = pc
      /\ UNCHANGED <<status, edge, indeg, waitZero, timer, checked, paused, journal, fatal>>
  BY DEF Grant, parkVars
<1> HIDE DEF n
<1>3. life \in [Node -> Lives] /\ worker \in [Node -> {"none", "admit", "box"}]
  BY DEF IInv, TypeOK
<1>4. Moves
  BY <1>1, <1>2, <1>3 DEF Moves, Busy
<1>5. PassInv' /\ LotInv'
  BY <1>1, <1>2, <1>3 DEF PassInv, LotInv
<1>6. ParkedHasWaker'
  BY <1>1, <1>2, <1>3 DEF LoopInv, ParkedHasWaker
<1>7. ExpectBeforeWork'
  BY <1>1, <1>2, <1>3 DEF LoopInv, ExpectBeforeWork
<1> QED
  BY <1>2, <1>4, <1>5, <1>6, <1>7, MoveRun

\* dispatch, whatever the node's kind.
LEMMA DispatchRun ==
  ASSUME IInv, LoopInv, Dispatch
  PROVE  RunOK
<1> DEFINE n == Least(Queued)
<1>1. n \in Node /\ life[n] = "queued"
  <2>1. Queued \subseteq Nat /\ Queued # {}
    BY NodeAssumption DEF Dispatch, Queued
  <2>2. n \in Queued
    BY <2>1, LeastIn
  <2> QED
    BY <2>2 DEF Queued
<1> HIDE DEF n
<1>2. /\ pc = "ready" /\ pc' = pc /\ progressed' = TRUE /\ UNCHANGED <<marker, paused, runEnd>>
      /\ \/ DispatchCondition(n)
         \/ StartExpect(n)
         \/ NewIteration(n) = {} /\ DispatchByKind(n)
  BY DEF Dispatch, n
<1>3. /\ life \in [Node -> Lives] /\ checked \in [Loops -> Nat] /\ GraphInv(life, edge, indeg)
  BY DEF IInv, TypeOK
<1>4. PassInv' /\ ExitInv'
  BY <1>2 DEF PassInv, ExitInv
<1>5. ASSUME NEW st \in Terminal, SettleHere(n, st), st # "skipHalt",
             st = "skipDep" => \E s \in DataSources(n) : status[s] # "ok"
      PROVE  RunOK
  <2>1. /\ SettleOn(life, edge, indeg, n, st, FALSE)
        /\ UNCHANGED <<worker, timer, checked>>
    BY <1>5 DEF SettleHere, Settle, flightVars
  <2>2. \A l \in Loops : checked'[l] >= checked[l] /\ checked[l] \in Nat
    BY <2>1, <1>3
  <2>3. JournalInv' /\ LotInv' /\ ParkedHasWaker' /\ ExpectBeforeWork'
    BY <2>1, <2>2, <1>1, <1>3, SettleRun
  <2>4. Settles
    BY <1>1, <1>2, <1>5 DEF Settles, SettleHere
  <2> QED
    BY <2>3, <2>4, <1>4 DEF RunOK, LoopInv
<1>6. ASSUME NEW to \in {"running", "slotwait"}, life' = [life EXCEPT ![n] = to],
             to = "slotwait" => NewIteration(n) = {},
             UNCHANGED <<status, edge, indeg, worker, waitZero, timer, checked, journal, fatal>>
      PROVE  RunOK
  <2>1. Moves
    BY <1>1, <1>2, <1>3, <1>6 DEF Moves, Busy
  <2>2. LotInv'
    BY <1>1, <1>3, <1>6 DEF LotInv
  <2>3. ParkedHasWaker'
    BY <1>1, <1>3, <1>6 DEF LoopInv, ParkedHasWaker
  <2>4. \A k \in DOMAIN Iters[n] : Iters[n][k][1] \in Loops /\ Iters[n][k][2] \in Nat
    BY <1>1, LoopAssumption
  <2>5. ASSUME to = "slotwait"
        PROVE  \A k \in DOMAIN Iters[n] : Iters[n][k][2] <= checked[Iters[n][k][1]]
    BY <2>4, <2>5, <1>3, <1>6 DEF NewIteration
  <2>6. ExpectBeforeWork'
    BY <2>5, <1>1, <1>3, <1>6 DEF LoopInv, ExpectBeforeWork
  <2> QED
    BY <2>1, <2>2, <2>3, <2>6, <1>2, <1>4, <1>6, MoveRun
<1>7. CASE DispatchCondition(n)
  BY <1>7, <1>5 DEF DispatchCondition, Terminal
<1>8. CASE StartExpect(n)
  BY <1>8, <1>6 DEF StartExpect, parkVars
<1>9. CASE NewIteration(n) = {} /\ Kind[n] = "generate" /\ StartExpansion(n)
  BY <1>9, <1>6 DEF StartExpansion, parkVars
<1>10. CASE NewIteration(n) = {} /\ ResolveSelector(n)
  BY <1>10, <1>5 DEF ResolveSelector, Terminal
<1>11. CASE NewIteration(n) = {} /\ SettleSubEntry(n)
  BY <1>11, <1>5 DEF SettleSubEntry, Terminal
<1>12. CASE NewIteration(n) = {} /\ DispatchAgent(n)
  <2>1. CASE SettleHere(n, "failed") \/ SettleHere(n, "ok")
    BY <2>1, <1>5 DEF Terminal
  <2>2. CASE SkippedSource(n) /\ SettleHere(n, "skipDep")
    BY <2>2, <1>5 DEF SkippedSource, Terminal
  <2>3. CASE /\ life' = [life EXCEPT ![n] = "slotwait"]
             /\ UNCHANGED <<status, edge, indeg, flightVars, parkVars, checked, journal, fatal>>
    BY <2>3, <1>12, <1>6 DEF flightVars, parkVars
  <2> QED
    BY <2>1, <2>2, <2>3, <1>12 DEF DispatchAgent
<1> QED
  BY <1>2, <1>7, <1>8, <1>9, <1>10, <1>11, <1>12 DEF DispatchByKind

\* A worker's event that settles its node.
LEMMA FoldSettleRun ==
  ASSUME IInv, LoopInv, NEW n \in Node, life[n] = "running", Received(n),
         NEW st \in {"ok", "failed", "halted"}, NEW x \in BOOLEAN, Settle(n, st, x),
         UNCHANGED <<timer, paused>>,
         \A l \in Loops : checked'[l] >= checked[l],
         checked' \in [Loops -> Nat], PassInv', ExitInv'
  PROVE  RunOK
<1>1. SettleOn(life, edge, indeg, n, st, x) /\ worker' = worker /\ st \in Terminal
  BY DEF Settle, Received, Terminal
<1>2. GraphInv(life, edge, indeg)
  BY DEF IInv
<1>3. JournalInv' /\ LotInv' /\ ParkedHasWaker' /\ ExpectBeforeWork'
  BY <1>1, <1>2, SettleRun
<1>4. Settles
  BY <1>1 DEF Settles
<1> QED
  BY <1>3, <1>4 DEF RunOK, LoopInv

\* evDeferred: whoever is parked finds another node in flight.
LEMMA FoldDeferredRun ==
  ASSUME IInv, LoopInv, NEW n \in Node, FoldDeferred(n), PassInv', pc' # "exit"
  PROVE  RunOK
<1>1. /\ life[n] = "running" /\ life \in [Node -> Lives]
      /\ waitZero \in SUBSET Node /\ timer \in SUBSET Node
      /\ UNCHANGED <<status, edge, indeg, checked, paused, worker>>
      /\ Journaled({<<"defer", n>>})
      /\ ParkedHasWaker
  BY SenderRunning DEF FoldDeferred, Received, IInv, TypeOK, LoopInv
<1>2. ~fatal' => ~fatal /\ journal' = journal
  <2> DEFINE recs == {<<"defer", n>>}
  <2>1. \A lost : {r[2] : r \in {y \in recs \ lost : y[1] = "result"}} = {}
    OBVIOUS
  <2>2. ~fatal' => ~fatal
    BY <1>1 DEF Journaled
  <2> HIDE DEF recs
  <2>3. journal' = journal
    BY <1>1, <2>1 DEF Journaled, recs
  <2> QED
    BY <2>2, <2>3
<1> DEFINE parked == [life EXCEPT ![n] = "deferred"]
<1>3. parked \in [Node -> Lives] /\ \A m \in Node : parked[m] = IF m = n THEN "deferred" ELSE life[m]
  BY <1>1 DEF Lives
<1>4. n \notin waitZero /\ n \notin timer
  BY <1>1 DEF ParkedHasWaker
<1>5. \A m \in Node : WakeParked(parked)[m] =
         IF m = n THEN "deferred"
         ELSE IF m \in waitZero /\ life[m] = "deferred" THEN "queued" ELSE life[m]
  BY <1>3, <1>4 DEF WakeParked
<1>6. \/ timer' = timer \cup {n} /\ life' = WakeParked(parked) /\ waitZero' = {}
      \/ timer' = timer /\ life' = [WakeParked(parked) EXCEPT ![n] = "queued"] /\ waitZero' = {}
      \/ timer' = timer /\ life' = parked /\ waitZero' = waitZero \cup {n} /\ ~LastInFlight
  BY DEF FoldDeferred
<1> HIDE DEF parked
<1>7. CASE timer' = timer \cup {n} /\ life' = WakeParked(parked) /\ waitZero' = {}
  <2>1. Moves
    BY <1>1, <1>5, <1>7 DEF Moves, Busy
  <2>2. LotInv' /\ ParkedHasWaker' /\ ExpectBeforeWork'
    BY <1>1, <1>4, <1>5, <1>7 DEF LoopInv, LotInv, ParkedHasWaker, ExpectBeforeWork
  <2> QED
    BY <2>1, <2>2, <1>2, MoveRun
<1>8. CASE timer' = timer /\ life' = [WakeParked(parked) EXCEPT ![n] = "queued"] /\ waitZero' = {}
  <2>0. WakeParked(parked) = [m \in Node |-> WakeParked(parked)[m]]
    BY DEF WakeParked
  <2>1. \A m \in Node : life'[m] = IF m = n THEN "queued" ELSE WakeParked(parked)[m]
    BY <2>0, <1>8
  <2>2. Moves
    BY <1>1, <1>5, <2>1 DEF Moves, Busy
  <2>3. LotInv' /\ ParkedHasWaker' /\ ExpectBeforeWork'
    BY <1>1, <1>4, <1>5, <1>8, <2>1 DEF LoopInv, LotInv, ParkedHasWaker, ExpectBeforeWork
  <2> QED
    BY <2>2, <2>3, <1>2, MoveRun
<1>9. CASE timer' = timer /\ life' = parked /\ waitZero' = waitZero \cup {n} /\ ~LastInFlight
  <2>1. Moves
    BY <1>1, <1>3, <1>9 DEF Moves, Busy
  <2>2. \E m \in Node \ {n} : life[m] = "running"
    <3>1. outstanding = Cardinality(Running) /\ Cardinality(Running) # 1 /\ n \in Running
      BY <1>1, <1>9 DEF LastInFlight, IInv, FlightInv, Running
    <3>2. Running # {n}
      BY <3>1, FS_Singleton
    <3> QED
      BY <3>1, <3>2 DEF Running
  <2>3. LotInv'
    BY <2>2, <1>3, <1>9 DEF LotInv
  <2>4. ParkedHasWaker' /\ ExpectBeforeWork'
    BY <1>1, <1>3, <1>4, <1>9 DEF LoopInv, ParkedHasWaker, ExpectBeforeWork
  <2> QED
    BY <2>1, <2>3, <2>4, <1>2, MoveRun
<1> QED
  BY <1>6, <1>7, <1>8, <1>9

\* evExpected: the command's answer moves the boundary up, never down.
LEMMA FoldExpectedRun ==
  ASSUME IInv, LoopInv, NEW n \in Node, FoldExpected(n), PassInv', pc' # "exit"
  PROVE  RunOK
<1>1. /\ life[n] = "running" /\ life \in [Node -> Lives]
      /\ msg[n].loop \in Loops /\ msg[n].iter \in Nat /\ checked \in [Loops -> Nat]
      /\ Received(n) /\ worker' = worker /\ timer' = timer
      /\ waitZero \in SUBSET Node
  BY SenderRunning, EventFields DEF FoldExpected, Received, IInv, TypeOK
<1>2. checked' \in [Loops -> Nat] /\ \A l \in Loops : checked'[l] >= checked[l]
  BY <1>1 DEF FoldExpected
<1>3. CASE Settle(n, "failed", FALSE) /\ UNCHANGED paused
  <2>1. ExitInv'
    BY DEF ExitInv
  <2> QED
    BY <2>1, <1>1, <1>2, <1>3, FoldSettleRun
<1>4. ASSUME NEW to \in {"queued", "pending"}, life' = [life EXCEPT ![n] = to],
             to = "queued" => paused' = paused, to = "pending" => paused',
             UNCHANGED <<status, edge, indeg, waitZero, stash, journal, fatal>>
      PROVE  RunOK
  <2>1. \A m \in Node : life'[m] = IF m = n THEN to ELSE life[m]
    BY <1>1, <1>4
  <2>2. paused => paused'
    BY <1>4
  <2>3. Moves
    BY <1>1, <1>4, <2>1, <2>2 DEF Moves, Busy
  <2>4. LotInv'
    <3>1. to = "queued" => life'[n] = "queued"
      BY <2>1
    <3> QED
      BY <3>1, <1>4 DEF LotInv
  <2>5. ParkedHasWaker'
    BY <1>1, <1>4, <2>1 DEF LoopInv, ParkedHasWaker
  <2>6. ExpectBeforeWork'
    <3>1. ASSUME NEW m \in Node, life'[m] = "slotwait" \/ worker'[m] # "none"
          PROVE  life[m] = "slotwait" \/ worker[m] # "none"
      BY <3>1, <2>1, <1>1, <1>4
    <3>2. \A m \in Node : \A k \in DOMAIN Iters[m] :
             Iters[m][k][1] \in Loops /\ Iters[m][k][2] \in Nat
      BY LoopAssumption
    <3>3. \A l \in Loops : checked[l] \in Nat /\ checked'[l] \in Nat /\ checked'[l] >= checked[l]
      BY <1>1, <1>2
    <3> QED
      BY <3>1, <3>2, <3>3 DEF LoopInv, ExpectBeforeWork
  <2> QED
    BY <2>3, <2>4, <2>5, <2>6, <1>4, MoveRun
<1>5. CASE life' = [life EXCEPT ![n] = "queued"]
           /\ UNCHANGED <<status, edge, indeg, waitZero, stash, journal, fatal, paused>>
  BY <1>5, <1>4
<1>6. CASE life' = [life EXCEPT ![n] = "pending"] /\ paused' = TRUE
           /\ UNCHANGED <<status, edge, indeg, waitZero, stash, journal, fatal>>
  BY <1>6, <1>4
<1> QED
  BY <1>3, <1>5, <1>6 DEF FoldExpected

\* evExpanded: a failure, or the splice and the generate node's settlement.
LEMMA FoldExpandedRun ==
  ASSUME IInv, LoopInv, NEW n \in Node, FoldExpanded(n), PassInv', pc' # "exit"
  PROVE  RunOK
<1>1. /\ life[n] = "running" /\ msg[n].ok \in BOOLEAN
      /\ msg[n].ev = "expanded" /\ Received(n)
      /\ UNCHANGED <<timer, checked, paused, worker>>
      /\ checked \in [Loops -> Nat]
      /\ GraphInv(life, edge, indeg) /\ Fresh(life) /\ OwnItems
  BY SenderRunning, EventFields DEF FoldExpanded, Received, IInv, TypeOK, FlightInv
<1>2. ExitInv'
  BY DEF ExitInv
<1>3. checked' \in [Loops -> Nat] /\ \A l \in Loops : checked'[l] >= checked[l]
  BY <1>1
<1>4. CASE ~msg[n].ok
  <2>1. Settle(n, "failed", FALSE)
    BY <1>4 DEF FoldExpanded
  <2> QED
    BY <2>1, <1>1, <1>2, <1>3, FoldSettleRun
<1>5. CASE msg[n].ok
  <2> DEFINE is  == msg[n].items
             new == SpliceNodes(is)
             ed  == edge \cup SpliceEdges(n, is, edge)
             ind == SpliceIndeg(ed)
             lf  == SpliceLife(new, ind)
  <2>1. SettleOn(lf, ed, ind, n, "ok", FALSE)
    BY <1>5 DEF FoldExpanded
  <2>2. is \subseteq {i \in Inst : InstGen[i] = n}
    BY <1>1 DEF OwnItems
  <2>3. Splices
    <3>1. Spliced(n, is)
      BY <2>1 DEF Spliced
    <3> HIDE DEF is
    <3> QED
      BY <3>1, <2>2, <1>1 DEF Splices
  <2>4. /\ GraphInv(lf, ed, ind) /\ lf[n] = "running"
        /\ \A m \in Node : \/ m \notin new /\ lf[m] = life[m]
                           \/ m \in new /\ life[m] = "absent" /\ lf[m] \in {"pending", "queued"}
    <3>1. /\ new = SpliceNodes(is) /\ ed = edge \cup SpliceEdges(n, is, edge)
          /\ ind = SpliceIndeg(ed)
          /\ lf = SpliceLife(new, ind)
      OBVIOUS
    <3> HIDE DEF is, new, ed, ind, lf
    <3> QED
      BY <3>1, <2>2, <1>1, SpliceGraph
  <2> HIDE DEF is, new, ed, ind, lf
  <2>5. JournalInv' /\ LotInv' /\ ParkedHasWaker' /\ ExpectBeforeWork'
    BY <2>1, <2>4, <1>1, <1>3, SettleRun
  <2> QED
    BY <2>3, <2>5, <1>2 DEF RunOK, LoopInv
<1> QED
  BY <1>1, <1>4, <1>5

\* One receive of the select.
LEMMA ReceiveRun ==
  ASSUME IInv, LoopInv, NEW n \in Node, Receive(n)
  PROVE  RunOK
<1>1. PassInv' /\ ExitInv' /\ pc' # "exit"
  BY DEF Receive, Continue, PassInv, ExitInv
<1>2. CASE FoldSettled(n)
  <2>1. /\ msg[n].ev = "settled" /\ Received(n)
        /\ Settle(n, msg[n].status, msg[n].executed)
        /\ UNCHANGED <<timer, checked, paused>>
    BY <1>2 DEF FoldSettled
  <2>2. /\ life[n] = "running" /\ msg[n].status \in {"ok", "failed", "halted"}
        /\ msg[n].executed \in BOOLEAN
    BY <2>1, SenderRunning, EventFields
  <2>3. checked' \in [Loops -> Nat] /\ \A l \in Loops : checked'[l] >= checked[l]
    BY <2>1 DEF IInv, TypeOK
  <2> QED
    BY <2>1, <2>2, <2>3, <1>1, FoldSettleRun
<1> QED
  BY <1>1, <1>2, FoldDeferredRun, FoldExpandedRun, FoldExpectedRun DEF Receive

\* The wake of a defer window.
LEMMA WakeRun ==
  ASSUME IInv, LoopInv, NEW n \in Node, Wake(n)
  PROVE  RunOK
<1>1. /\ n \in timer /\ timer' = timer \ {n} /\ life[n] = "deferred" /\ n \notin waitZero
      /\ life' = [life EXCEPT ![n] = "queued"] /\ life \in [Node -> Lives]
      /\ UNCHANGED <<status, edge, indeg, worker, waitZero, checked, paused, journal, fatal>>
  BY DEF Wake, flightVars, IInv, TypeOK, LoopInv, ParkedHasWaker
<1>2. PassInv' /\ pc' # "exit"
  BY DEF Wake, PassInv
<1>3. Moves
  BY <1>1 DEF Moves, Busy
<1>4. LotInv'
  BY <1>1 DEF LoopInv, LotInv
<1>5. ParkedHasWaker'
  BY <1>1 DEF LoopInv, ParkedHasWaker
<1>6. ExpectBeforeWork'
  BY <1>1 DEF LoopInv, ExpectBeforeWork
<1> QED
  BY <1>1, <1>2, <1>3, <1>4, <1>5, <1>6, MoveRun

\* Every step keeps the loop's invariant and is of one of the three kinds.
LEMMA StepRun ==
  ASSUME IInv, LoopInv, [Next]_vars
  PROVE  RunOK
<1>1. CASE LoopStep
  BY <1>1, PositionsRun, GrantRun, DispatchRun, ReceiveRun, WakeRun, ExitRun DEF LoopStep
<1>2. CASE Abort \/ RequestPause
  BY <1>2, PositionsRun
<1>3. CASE Finished \/ UNCHANGED vars
  BY <1>3, StutterRun DEF Finished
<1>4. CASE \E n \in Node : WorkerStep(n)
  BY <1>4, WorkerRun
<1> QED
  BY <1>1, <1>2, <1>3, <1>4 DEF Next

-----------------------------------------------------------------------------
\* Every kind of step keeps readiness.
LEMMA ReadinessStep ==
  ASSUME IInv, Readiness, paused \in BOOLEAN, Moves \/ Settles \/ Splices
  PROVE  Readiness'
<1>1. GraphInv(life, edge, indeg) /\ Fresh(life) /\ Sound(life, edge)
  BY DEF IInv, Readiness
<1>2. CASE Moves
  <2>1. \A m \in Node : PredsDone(life, edge, m) <=> PredsDone(life', edge', m)
    BY <1>2 DEF Moves, PredsDone
  <2>2. Present(life', edge')
    BY <1>1, <1>2 DEF Moves, Sound, Present, GraphInv
  <2>3. Ready(life', edge') /\ Acyclic(edge')
    BY <1>1, <1>2, <2>1 DEF Moves, Sound, Ready, Acyclic
  <2>4. paused' \/ Waits(life', edge')
    BY <1>2, <2>1 DEF Moves, Readiness, Waits
  <2> QED
    BY <2>2, <2>3, <2>4 DEF Readiness, Sound
<1>3. ASSUME NEW lf, NEW ed, NEW ind, GraphInv(lf, ed, ind), Sound(lf, ed),
             paused \/ Waits(lf, ed),
             NEW n \in Node, lf[n] \notin {"absent", "pending", "done"}, NEW st, NEW x,
             SettleOn(lf, ed, ind, n, st, x), paused' = paused
      PROVE  Readiness'
  <2> DEFINE S    == {n} \cup Cascade(lf, ed, n, st)
             ind2 == DropIndeg(S, ed, ind)
  <2>1. life' = LifeAfter(S, lf, ed, ind2) /\ edge' = ed
    BY <1>3 DEF SettleOn
  <2>2. S = {n} \cup Cascade(lf, ed, n, st) /\ ind2 = DropIndeg(S, ed, ind)
    OBVIOUS
  <2> HIDE DEF S, ind2
  <2>3. Sound(life', ed) /\ (Waits(lf, ed) => Waits(life', ed))
    BY <2>1, <2>2, <1>3, SettleReady
  <2> QED
    BY <2>1, <2>3, <1>3 DEF Readiness
<1>4. CASE Settles
  <2>1. PICK n \in Node, st \in Terminal, x \in BOOLEAN :
           life[n] \in {"queued", "running"} /\ Settle(n, st, x) /\ paused' = paused
    BY <1>4 DEF Settles
  <2> QED
    BY <2>1, <1>1, <1>3 DEF Settle, Readiness
<1>5. CASE Splices
  <2>1. PICK n \in Node : \E is \in SUBSET {i \in Inst : InstGen[i] = n} :
           life[n] = "running" /\ Spliced(n, is) /\ paused' = paused
    BY <1>5 DEF Splices
  <2>2. PICK is \in SUBSET {i \in Inst : InstGen[i] = n} :
           life[n] = "running" /\ Spliced(n, is) /\ paused' = paused
    BY <2>1
  <2> DEFINE new == SpliceNodes(is)
             ed  == edge \cup SpliceEdges(n, is, edge)
             ind == SpliceIndeg(ed)
             lf  == SpliceLife(new, ind)
  <2>3. SettleOn(lf, ed, ind, n, "ok", FALSE)
    BY <2>2 DEF Spliced
  <2>4. /\ new = SpliceNodes(is) /\ ed = edge \cup SpliceEdges(n, is, edge)
        /\ ind = SpliceIndeg(ed) /\ lf = SpliceLife(new, ind)
        /\ is \subseteq {i \in Inst : InstGen[i] = n}
    OBVIOUS
  <2> HIDE DEF new, ed, ind, lf
  <2>5. GraphInv(lf, ed, ind) /\ lf[n] = "running"
    BY <2>2, <2>4, <1>1, SpliceGraph
  <2>6. Sound(lf, ed) /\ (Waits(life, edge) => Waits(lf, ed))
    BY <2>2, <2>4, <1>1, SpliceReady
  <2> QED
    BY <2>2, <2>3, <2>5, <2>6, <1>3 DEF Readiness
<1> QED
  BY <1>2, <1>4, <1>5

\* newGraph: the nodes without a predecessor are ready, the others wait.
LEMMA InitReadiness ==
  ASSUME Init
  PROVE  Readiness /\ LoopInv
<1>1. /\ edge = AddLevel(0) /\ indeg = InitIndeg /\ GraphInv(life, edge, indeg)
      /\ life = [n \in Node |-> IF n \notin Below(0) THEN "absent"
                                ELSE IF InitIndeg[n] = 0 THEN "queued" ELSE "pending"]
  BY InitGraph DEF Init, InitNodes
<1>2. 0 \in Roots
  BY DEF Roots
<1>3. \A e \in edge : e[1] \in Below(0) /\ e[2] \in Below(0) /\ e = <<e[1], e[2]>>
  BY <1>1, <1>2, AddLevelInto
<1>4. \A m \in Node : \/ m \notin Below(0) /\ life[m] = "absent"
                      \/ m \in Below(0) /\ life[m] \in {"pending", "queued"}
  BY <1>1
<1>5. \A d \in Node : indeg[d] = 0 <=> PredsDone(life, edge, d)
  BY <1>1, CountZero DEF GraphInv
<1>6. Present(life, edge)
  <2>1. Below(0) \subseteq Node
    BY DEF Below
  <2> QED
    BY <2>1, <1>3, <1>4 DEF Present
<1>7. Ready(life, edge) /\ Waits(life, edge)
  BY <1>1, <1>5 DEF Ready, Waits, Busy
<1>8. Acyclic(edge)
  <2>1. ASSUME NEW T \in SUBSET Node, T # {} PROVE \E n \in T : \A p \in T : <<p, n>> \notin edge
    <3>1. CASE T \cap Below(0) = {}
      BY <3>1, <2>1, <1>3
    <3>2. CASE T \cap Below(0) # {}
      <4>1. T \cap Below(0) \in SUBSET Below(0)
        OBVIOUS
      <4>2. PICK n \in T \cap Below(0) : \A p \in T \cap Below(0) : <<p, n>> \notin AddLevel(0)
        BY <3>2, <4>1, <1>2, AddLevelAcyclic
      <4> QED
        BY <4>2, <1>1, <1>3
    <3> QED
      BY <3>1, <3>2
  <2> QED
    BY <2>1 DEF Acyclic
<1>9. Readiness
  BY <1>6, <1>7, <1>8 DEF Readiness, Sound
<1>10. /\ pc = "gate" /\ worker = [n \in Node |-> "none"] /\ waitZero = {} /\ timer = {}
       /\ journal = {} /\ \A m \in Node : life[m] \in {"absent", "pending", "queued"}
  BY <1>4 DEF Init
<1>11. LoopInv
  BY <1>10 DEF LoopInv, PassInv, JournalInv, ExitInv, LotInv, ParkedHasWaker, ExpectBeforeWork
<1> QED
  BY <1>9, <1>11

\* The invariants of the run loop taken together.
RunInv == IInv /\ Readiness /\ LoopInv

\* Every step keeps them, and settles nodes, moves them or splices some in.
LEMMA RunInvStep ==
  RunInv /\ [Next]_vars => RunInv' /\ (Moves \/ Settles \/ Splices)
<1> SUFFICES ASSUME RunInv, [Next]_vars PROVE RunInv' /\ (Moves \/ Settles \/ Splices)
  OBVIOUS
<1>1. RunOK
  BY StepRun DEF RunInv
<1>2. IInv'
  BY Inductive DEF StepOK, RunInv
<1>3. paused \in BOOLEAN
  BY DEF RunInv, IInv, TypeOK
<1> QED
  BY <1>1, <1>2, <1>3, ReadinessStep DEF RunInv, RunOK

\* The loop's invariants hold throughout every run.
THEOREM RunInvariance == Spec => []RunInv
<1>1. Init => RunInv
  BY InitIInv, InitReadiness DEF RunInv
<1>2. RunInv /\ [Next]_vars => RunInv'
  BY RunInvStep
<1> QED
  BY <1>1, <1>2, PTL DEF Spec

\* The run-end record: Execute writes `settled' only with every node of the graph
\* settled, and, short of an abort, the journal then holds a result of exactly the
\* settled nodes, so that resume re-enters where the run stopped.
THEOREM RunEndCorrect == Spec => []RunEndSound
<1>1. RunInv => RunEndSound
  BY DEF RunInv, LoopInv, ExitInv, JournalInv, RunEndSound
<1> QED
  BY <1>1, RunInvariance, PTL

\* drain stops at a fixed point: the loop never goes to wait with a node it could
\* still dispatch, or a node whose pools are free.
THEOREM DrainCorrect == Spec => []WorkConserving
<1>1. RunInv => WorkConserving
  BY DEF RunInv, LoopInv, PassInv, WorkConserving
<1> QED
  BY <1>1, RunInvariance, PTL

\* unexpectedIteration and applyExpected: no box of a loop iteration waits for a
\* slot or runs before the expect command was answered for that iteration.
THEOREM ExpectCorrect == Spec => []ExpectBeforeWork
<1>1. RunInv => ExpectBeforeWork
  BY DEF RunInv, LoopInv
<1> QED
  BY <1>1, RunInvariance, PTL

\* A drained, unpaused loop with nothing in flight and no timer has settled every
\* node: a node waiting for a pool finds a holder of it, a parked node another node
\* on its way, and a first open node has no open predecessor to wait for.
LEMMA DrainedIsDone ==
  ASSUME RunInv, pc = "top", ~paused, ~fatal, outstanding = 0, timer = {}
  PROVE  AllDone
<1>1. /\ TypeOK /\ InFlight /\ PoolsExact /\ outstanding = Cardinality(Running)
      /\ Sound(life, edge) /\ Waits(life, edge)
      /\ Queued = {} /\ Grantable = {} /\ LotInv /\ ParkedHasWaker
  BY DEF RunInv, IInv, FlightInv, Readiness, LoopInv, PassInv
<1>2. \A n \in Node : life[n] # "running"
  <2>1. IsFiniteSet(Running)
    BY NodeSets DEF Running
  <2>2. Running = {}
    BY <2>1, <1>1, FS_EmptySet
  <2> QED
    BY <2>2 DEF Running
<1>3. \A n \in Node : ~Holds(n)
  <2>1. NoEvent.ev = "none"
    BY DEF NoEvent
  <2> QED
    BY <2>1, <1>1, <1>2 DEF InFlight, Holds
<1>4. \A n \in Node : life[n] # "slotwait"
  <2>1. ASSUME NEW n \in Node, life[n] = "slotwait" PROVE FALSE
    <3>1. PICK p \in PoolsOf(n) : ~(poolUsed[p] < Bound(p))
      BY <2>1, <1>1 DEF Grantable, SlotWait
    <3>2. p \in Pools
      BY DEF PoolsOf
    <3>3. {m \in Node : Holds(m) /\ p \in PoolsOf(m)} = {}
      BY <1>3
    <3>4. poolUsed[p] = 0
      BY <3>2, <3>3, <1>1, FS_EmptySet DEF PoolsExact
    <3>5. Bound(p) \in Nat /\ Bound(p) > 0
      <4>1. Bound(p) \in Nat
        BY <3>2, BoundType
      <4>2. \/ p = <<"slot", 0>> /\ MaxPar > 0
            \/ \E g \in Node : p = <<"gen", g>> /\ GenMax[g] > 0
            \/ \E l \in DOMAIN LaneMax : p = <<"lane", l>> /\ LaneMax[l] > 0
        BY <3>2 DEF Pools, Lanes
      <4>3. CASE p = <<"slot", 0>> /\ MaxPar > 0
        <5>1. p[1] = "slot"
          BY <4>3
        <5>2. Bound(p) = MaxPar
          BY <5>1 DEF Bound
        <5> QED
          BY <5>2, <4>1, <4>3
      <4>4. CASE \E g \in Node : p = <<"gen", g>> /\ GenMax[g] > 0
        <5>1. PICK g \in Node : p = <<"gen", g>> /\ GenMax[g] > 0
          BY <4>4
        <5>2. p[1] = "gen" /\ p[2] = g
          BY <5>1
        <5>3. Bound(p) = GenMax[g]
          BY <5>2 DEF Bound
        <5> QED
          BY <5>1, <5>3, <4>1
      <4>5. CASE \E l \in DOMAIN LaneMax : p = <<"lane", l>> /\ LaneMax[l] > 0
        <5>1. PICK l \in DOMAIN LaneMax : p = <<"lane", l>> /\ LaneMax[l] > 0
          BY <4>5
        <5>2. p[1] = "lane" /\ p[2] = l
          BY <5>1
        <5>3. Bound(p) = LaneMax[l]
          BY <5>2 DEF Bound
        <5> QED
          BY <5>1, <5>3, <4>1
      <4> QED
        BY <4>1, <4>2, <4>3, <4>4, <4>5
    <3> QED
      BY <3>1, <3>4, <3>5
  <2> QED
    BY <2>1
<1>5. \A n \in Node : life[n] # "queued"
  BY <1>1 DEF Queued
<1>6. \A n \in Node : life[n] # "deferred"
  BY <1>1, <1>2, <1>4, <1>5 DEF LotInv, ParkedHasWaker
<1>7. \A n \in Node : life[n] \in {"absent", "pending", "done"}
  BY <1>1, <1>2, <1>4, <1>5, <1>6 DEF TypeOK, Lives
<1> DEFINE T == {n \in Node : life[n] = "pending"}
<1>8. CASE T # {}
  <2>1. PICK n \in T : \A p \in T : <<p, n>> \notin edge
    BY <1>1, <1>8 DEF Sound, Acyclic
  <2>2. PICK p \in Node : <<p, n>> \in edge /\ life[p] # "done"
    BY <2>1, <1>1 DEF Waits, PredsDone
  <2>3. life[p] # "absent"
    BY <2>2, <1>1 DEF Sound, Present
  <2> QED
    BY <2>1, <2>2, <2>3, <1>7
<1>9. CASE T = {}
  BY <1>9, <1>7 DEF AllDone
<1> QED
  BY <1>8, <1>9

\* run's select never blocks for good: while the loop has not ended a worker is
\* out or a timer armed, and every deferred node is parked or has its timer.
THEOREM StuckFree == Spec => []NeverStuck
<1>1. RunInv => NeverStuck
  <2> SUFFICES ASSUME RunInv PROVE NeverStuck
    OBVIOUS
  <2>1. ParkedHasWaker /\ outstanding \in Nat
    BY DEF RunInv, LoopInv, IInv, TypeOK
  <2>2. ASSUME pc = "top", ~LoopEnds, ~(outstanding > 0), timer = {} PROVE FALSE
    <3>1. outstanding = 0
      BY <2>1, <2>2
    <3>2. ~AllDone /\ ~fatal /\ ~paused
      BY <2>2, <3>1 DEF LoopEnds, Drained
    <3> QED
      BY <2>2, <3>1, <3>2, DrainedIsDone
  <2> QED
    BY <2>1, <2>2 DEF NeverStuck
<1> QED
  BY <1>1, RunInvariance, PTL
=============================================================================
