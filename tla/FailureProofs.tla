---------------------------- MODULE FailureProofs ----------------------------
(***************************************************************************)
(* The way a failure takes through the graph (propagate, settleSkip),      *)
(* proved from the run loop's invariants: everything downstream of a failed*)
(* or halted node is settled with it, and every skip has its cause.  From  *)
(* the same invariants, that what is declared after a sub-workflow or a    *)
(* fan-out starts after all of it.                                         *)
(***************************************************************************)
EXTENDS SchedulerProofs

-----------------------------------------------------------------------------
\* A set of numbers has a least one.
LEMMA LeastNumber ==
  ASSUME NEW B, B \subseteq Nat, B # {}
  PROVE  \E x \in B : \A y \in B : x <= y
<1>1. \E x \in B : \A y \in B : ~(<<y, x>> \in OpToRel(<, Nat))
  BY NatLessThanWellFounded, WFMin
<1>2. PICK x \in B : \A y \in B : ~(<<y, x>> \in OpToRel(<, Nat))
  BY <1>1
<1>3. ASSUME NEW y \in B PROVE x <= y
  <2>1. x \in Nat /\ y \in Nat
    OBVIOUS
  <2>2. ~(y < x)
    BY <1>2, <2>1 DEF OpToRel
  <2> QED
    BY <2>1, <2>2
<1> QED
  BY <1>3

\* A function on the numbers may be given by its first value and its steps.
LEMMA Iterated ==
  ASSUME NEW Z, NEW z0 \in Z, NEW step \in [Nat -> [Z -> Z]]
  PROVE  \E f \in [Nat -> Z] : f[0] = z0 /\ \A k \in Nat : f[k + 1] = step[k + 1][f[k]]
<1> DEFINE G(n) == {g \in [0..n -> Z] : g[0] = z0 /\ \A k \in 1..n : g[k] = step[k][g[k - 1]]}
<1>1. ASSUME NEW n \in Nat PROVE G(n) # {}
  <2> DEFINE B == {m \in Nat : G(m) = {}}
  <2>1. CASE B = {}
    BY <2>1
  <2>2. CASE B # {}
    <3>1. PICK m \in B : \A y \in B : m <= y
      <4>1. B \subseteq Nat
        OBVIOUS
      <4> HIDE DEF B
      <4> QED
        BY <2>2, <4>1, LeastNumber
    <3>2. m \in Nat /\ G(m) = {}
      BY <3>1
    <3>3. CASE m = 0
      <4> DEFINE g == [k \in 0..0 |-> z0]
      <4>1. g \in [0..0 -> Z] /\ g[0] = z0 /\ \A k \in 1..0 : g[k] = step[k][g[k - 1]]
        OBVIOUS
      <4> QED
        BY <4>1, <3>2, <3>3
    <3>4. CASE m # 0
      <4>1. m - 1 \in Nat /\ m - 1 \notin B /\ m - 1 \in 0..(m - 1)
        <5>1. m - 1 \in Nat /\ ~(m <= m - 1)
          BY <3>2, <3>4
        <5> HIDE DEF B
        <5> QED
          BY <5>1, <3>1
      <4>2. PICK g \in [0..(m - 1) -> Z] :
               g[0] = z0 /\ \A k \in 1..(m - 1) : g[k] = step[k][g[k - 1]]
        <5>1. G(m - 1) # {}
          BY <4>1
        <5> QED
          BY <5>1
      <4> DEFINE h == [k \in 0..m |-> IF k = m THEN step[m][g[m - 1]] ELSE g[k]]
      <4>3. step[m][g[m - 1]] \in Z
        BY <3>2, <4>1, <4>2
      <4>4. \A k \in 0..m : k # m => k \in 0..(m - 1)
        BY <3>2
      <4>5. h \in [0..m -> Z]
        BY <4>2, <4>3, <4>4
      <4>6. h[0] = z0
        BY <3>2, <3>4, <4>2
      <4>7. ASSUME NEW k \in 1..m PROVE h[k] = step[k][h[k - 1]]
        <5>1. k \in 0..m /\ k - 1 \in 0..m /\ k - 1 # m /\ h[k - 1] = g[k - 1]
          BY <3>2
        <5>2. CASE k = m
          BY <5>1, <5>2
        <5>3. CASE k # m
          <6>1. k \in 1..(m - 1)
            BY <3>2, <5>3
          <6> QED
            BY <5>1, <5>3, <6>1, <4>2
        <5> QED
          BY <5>2, <5>3
      <4> HIDE DEF h
      <4>8. h \in G(m)
        BY <4>5, <4>6, <4>7
      <4> QED
        BY <4>8, <3>2
    <3> QED
      BY <3>3, <3>4
  <2> QED
    BY <2>1, <2>2
<1>2. ASSUME NEW n \in Nat, NEW m \in Nat, NEW g \in G(n), NEW h \in G(m),
             NEW i \in (0..n) \cap (0..m)
      PROVE  g[i] = h[i]
  <2> DEFINE B == {k \in (0..n) \cap (0..m) : g[k] # h[k]}
  <2>1. CASE B # {}
    <3>1. PICK k \in B : \A y \in B : k <= y
      <4>1. B \subseteq Nat
        OBVIOUS
      <4> HIDE DEF B
      <4> QED
        BY <2>1, <4>1, LeastNumber
    <3>2. k \in Nat /\ k # 0
      BY <3>1
    <3>3. k \in 1..n /\ k \in 1..m /\ k - 1 \in (0..n) \cap (0..m) /\ k - 1 \notin B
      BY <3>1, <3>2
    <3>4. g[k - 1] = h[k - 1]
      BY <3>3
    <3>5. g[k] = step[k][g[k - 1]] /\ h[k] = step[k][h[k - 1]]
      BY <3>3
    <3> QED
      BY <3>1, <3>4, <3>5
  <2> QED
    BY <2>1
<1> DEFINE f == [n \in Nat |-> (CHOOSE g \in G(n) : TRUE)[n]]
<1>3. ASSUME NEW n \in Nat
      PROVE  \E g \in G(n) : f[n] = g[n] /\ g \in [0..n -> Z] /\ n \in 0..n
  <2> DEFINE c == CHOOSE g \in G(n) : TRUE
  <2>1. c \in G(n)
    <3> HIDE DEF G
    <3> QED
      BY <1>1
  <2>2. f[n] = c[n]
    <3> HIDE DEF G
    <3> QED
      OBVIOUS
  <2> HIDE DEF c, f
  <2>3. c \in [0..n -> Z] /\ n \in 0..n
    BY <2>1
  <2> HIDE DEF G
  <2> QED
    BY <2>1, <2>2, <2>3
<1>4. f \in [Nat -> Z]
  <2>1. \A n \in Nat : f[n] \in Z
    <3> HIDE DEF f, G
    <3> QED
      BY <1>3
  <2> QED
    BY <2>1
<1>5. f[0] = z0
  <2>1. PICK g \in G(0) : f[0] = g[0]
    BY <1>3
  <2> QED
    BY <2>1
<1>6. ASSUME NEW k \in Nat PROVE f[k + 1] = step[k + 1][f[k]]
  <2>1. PICK g \in G(k) : f[k] = g[k]
    BY <1>3
  <2>2. PICK h \in G(k + 1) : f[k + 1] = h[k + 1]
    <3>1. k + 1 \in Nat
      OBVIOUS
    <3> HIDE DEF f, G
    <3> QED
      BY <3>1, <1>3
  <2>3. k + 1 \in 1..(k + 1) /\ (k + 1) - 1 = k /\ k \in (0..k) \cap (0..(k + 1)) /\ k + 1 \in Nat
    OBVIOUS
  <2>4. h[k + 1] = step[k + 1][h[k]]
    BY <2>3
  <2>5. g[k] = h[k]
    BY <2>3, <1>2
  <2> QED
    BY <2>1, <2>2, <2>4, <2>5
<1> QED
  BY <1>4, <1>5, <1>6

\* What Closure computes, one intermediate node at a time.
LEMMA ClosureSteps ==
  ASSUME NEW r, r \in SUBSET (Node \X Node)
  PROVE  \E up \in [Nat -> SUBSET (Node \X Node)] :
           /\ up[0] = r
           /\ \A k \in Nat : up[k + 1] = up[k] \cup ({a \in Node : <<a, k + 1>> \in up[k]}
                                                      \X {b \in Node : <<k + 1, b>> \in up[k]})
           /\ Closure(r) = up[CHOOSE k \in Node : \A n \in Node : n <= k]
<1> DEFINE Rel == SUBSET (Node \X Node)
           via(k, s) == s \cup ({a \in Node : <<a, k>> \in s} \X {b \in Node : <<k, b>> \in s})
           F(u) == [k \in Nat |-> IF k = 0 THEN r ELSE UNION {via(k, s) : s \in {u[k - 1]}}]
           up == CHOOSE u : u = F(u)
           add == [k \in Nat |-> [s \in Rel |-> via(k, s)]]
<1>1. Closure(r) = up[CHOOSE k \in Node : \A n \in Node : n <= k]
  BY DEF Closure
<1>2. \A k \in Nat, s \in Rel : via(k, s) \in Rel
  OBVIOUS
<1>3. \A k, u : UNION {via(k, s) : s \in {u}} = via(k, u)
  <2> HIDE DEF via
  <2> QED
    OBVIOUS
<1> HIDE DEF via
<1>4. add \in [Nat -> [Rel -> Rel]]
  BY <1>2
<1>5. PICK f \in [Nat -> Rel] : f[0] = r /\ \A k \in Nat : f[k + 1] = add[k + 1][f[k]]
  <2> HIDE DEF add, Rel
  <2>1. r \in Rel
    BY DEF Rel
  <2> QED
    BY ONLY <1>4, <2>1, Iterated, SMTT(60)
<1>6. f = F(f)
  <2>1. ASSUME NEW k \in Nat
        PROVE  f[k] = IF k = 0 THEN r ELSE UNION {via(k, s) : s \in {f[k - 1]}}
    <3>1. CASE k = 0
      BY <3>1, <1>5
    <3>2. CASE k # 0
      <4>1. k - 1 \in Nat /\ (k - 1) + 1 = k
        BY <3>2
      <4>2. f[k] = add[k][f[k - 1]] /\ f[k - 1] \in Rel
        BY <4>1, <1>5
      <4>3. f[k] = via(k, f[k - 1])
        BY <4>2
      <4> QED
        BY <4>3, <3>2, <1>3
    <3> QED
      BY <3>1, <3>2
  <2> QED
    BY <2>1
<1> HIDE DEF F
<1>7. up = F(up)
  BY <1>6
<1> HIDE DEF up
<1>8. DOMAIN up = Nat /\ up[0] = r
  BY <1>7 DEF F
<1>9. ASSUME NEW k \in Nat PROVE up[k + 1] = via(k + 1, up[k])
  <2>1. k + 1 \in Nat /\ k + 1 # 0 /\ (k + 1) - 1 = k
    OBVIOUS
  <2>2. F(up)[k + 1] = UNION {via(k + 1, s) : s \in {up[k]}}
    BY <2>1 DEF F
  <2> QED
    BY <2>2, <1>3, <1>7
<1>10. ASSUME NEW k \in Nat PROVE up[k] \in Rel
  <2> DEFINE B == {m \in Nat : up[m] \notin Rel}
  <2>1. CASE B # {}
    <3>1. PICK m \in B : \A y \in B : m <= y
      <4>1. B \subseteq Nat
        OBVIOUS
      <4> HIDE DEF B
      <4> QED
        BY <2>1, <4>1, LeastNumber
    <3>2. m \in Nat /\ m # 0 /\ m - 1 \in Nat /\ (m - 1) + 1 = m
      BY <3>1, <1>8
    <3>3. m - 1 \notin B
      <4>1. ~(m <= m - 1)
        BY <3>2
      <4> HIDE DEF B
      <4> QED
        BY <4>1, <3>1
    <3>4. up[m - 1] \in Rel
      BY <3>2, <3>3
    <3>5. up[m] = via(m, up[m - 1])
      BY <3>2, <1>9
    <3> QED
      BY <3>1, <3>2, <3>4, <3>5, <1>2
  <2> QED
    BY <2>1
<1>11. up = [k \in Nat |-> up[k]]
  BY <1>7 DEF F
<1>12. up \in [Nat -> Rel]
  BY <1>10, <1>11
<1> QED
  BY <1>1, <1>8, <1>9, <1>12 DEF via

\* Closure is a transitive relation that holds r, and the least such.
LEMMA ClosureFacts ==
  ASSUME NEW r \in SUBSET (Node \X Node)
  PROVE  /\ Closure(r) \in SUBSET (Node \X Node)
         /\ r \subseteq Closure(r)
         /\ \A a, b, c \in Node :
              <<a, b>> \in Closure(r) /\ <<b, c>> \in Closure(r) => <<a, c>> \in Closure(r)
         /\ \A t \in SUBSET (Node \X Node) :
              /\ r \subseteq t
              /\ \A a, b, c \in Node : <<a, b>> \in t /\ <<b, c>> \in t => <<a, c>> \in t
              => Closure(r) \subseteq t
<1> DEFINE M == CHOOSE k \in Node : \A n \in Node : n <= k
<1>1. M \in Node /\ M \in Nat /\ \A n \in Node : n <= M
  <2> DEFINE R == {e \in Node \X Node : e[1] < e[2]}
  <2>1. ASSUME NEW T \in SUBSET Node, T # {} PROVE \E n \in T : \A p \in T : <<p, n>> \notin R
    <3>1. T \subseteq Nat
      BY NodeAssumption
    <3>2. PICK n \in T : \A p \in T : n <= p
      BY <2>1, <3>1, LeastNumber
    <3> QED
      BY <3>1, <3>2
  <2>2. Node # {} /\ IsFiniteSet(Node)
    BY NodeAssumption, ShapeAssumption DEF NodesOf, Levels, Roots
  <2>3. \E n \in Node : \A p \in Node : <<n, p>> \notin R
    <3> HIDE DEF R
    <3> QED
      BY <2>1, <2>2, LastElement
  <2>4. PICK n \in Node : \A p \in Node : <<n, p>> \notin R
    BY <2>3
  <2>5. \A p \in Node : ~(n < p)
    BY <2>4
  <2>6. n \in Nat /\ \A p \in Node : p \in Nat
    BY NodeAssumption
  <2>7. \A p \in Node : p <= n
    BY <2>5, <2>6
  <2> QED
    BY <2>6, <2>7
<1> HIDE DEF M
<1>2. PICK up \in [Nat -> SUBSET (Node \X Node)] :
        /\ up[0] = r
        /\ \A k \in Nat : up[k + 1] = up[k] \cup ({a \in Node : <<a, k + 1>> \in up[k]}
                                                   \X {b \in Node : <<k + 1, b>> \in up[k]})
        /\ Closure(r) = up[M]
  BY ClosureSteps DEF M
<1>3. ASSUME NEW B \in SUBSET Nat, 0 \notin B, \A k \in Nat : k \notin B => k + 1 \notin B
      PROVE  B = {}
  <2>1. CASE B # {}
    <3>1. PICK m \in B : \A y \in B : m <= y
      BY <2>1, LeastNumber
    <3>2. m \in Nat /\ m # 0 /\ m - 1 \in Nat /\ (m - 1) + 1 = m /\ ~(m <= m - 1)
      BY <3>1, <1>3
    <3>3. m - 1 \notin B
      BY <3>1, <3>2
    <3> QED
      BY <3>1, <3>2, <3>3, <1>3
  <2> QED
    BY <2>1
<1>4. r \subseteq up[M]
  <2> DEFINE B == {k \in Nat : ~(r \subseteq up[k])}
  <2>1. 0 \notin B /\ B \in SUBSET Nat
    BY <1>2
  <2>2. \A k \in Nat : k \notin B => k + 1 \notin B
    BY <1>2
  <2>3. B = {}
    <3> HIDE DEF B
    <3> QED
      BY <2>1, <2>2, <1>3
  <2> QED
    BY <2>3, <1>1
<1>5. ASSUME NEW t \in SUBSET (Node \X Node), r \subseteq t,
             \A a, b, c \in Node : <<a, b>> \in t /\ <<b, c>> \in t => <<a, c>> \in t
      PROVE  up[M] \subseteq t
  <2> DEFINE B == {k \in Nat : ~(up[k] \subseteq t)}
  <2>1. 0 \notin B /\ B \in SUBSET Nat
    BY <1>2, <1>5
  <2>2. ASSUME NEW k \in Nat, k \notin B PROVE k + 1 \notin B
    <3>1. up[k] \subseteq t /\ up[k] \in SUBSET (Node \X Node)
      BY <2>2, <1>2
    <3>2. ASSUME NEW e \in up[k + 1] PROVE e \in t
      <4>1. CASE e \in up[k]
        BY <4>1, <3>1
      <4>2. CASE e \in {a \in Node : <<a, k + 1>> \in up[k]} \X {b \in Node : <<k + 1, b>> \in up[k]}
        <5>1. PICK a \in Node, b \in Node :
                 e = <<a, b>> /\ <<a, k + 1>> \in up[k] /\ <<k + 1, b>> \in up[k]
          BY <4>2
        <5>2. k + 1 \in Node /\ <<a, k + 1>> \in t /\ <<k + 1, b>> \in t
          BY <5>1, <3>1
        <5> QED
          BY <5>1, <5>2, <1>5
      <4> QED
        BY <3>2, <4>1, <4>2, <1>2
    <3> QED
      BY <3>2
  <2>3. B = {}
    <3> HIDE DEF B
    <3> QED
      BY <2>1, <2>2, <1>3
  <2> QED
    BY <2>3, <1>1
<1>6. ASSUME NEW a \in Node, NEW b \in Node, NEW j \in Node,
             <<a, j>> \in up[M], <<j, b>> \in up[M]
      PROVE  <<a, b>> \in up[M]
  <2> DEFINE Ok(k) == \A x, y, i \in Node : i <= k /\ <<x, i>> \in up[k] /\ <<i, y>> \in up[k]
                                              => <<x, y>> \in up[k]
             B == {k \in Nat : ~Ok(k)}
  <2>1. Ok(0)
    BY NodeAssumption
  <2>2. ASSUME NEW k \in Nat, Ok(k) PROVE Ok(k + 1)
    <3> DEFINE s == up[k]
               q == k + 1
    <3>1. /\ s \in SUBSET (Node \X Node)
          /\ \A x, y \in Node : <<x, y>> \in up[q] <=>
                <<x, y>> \in s \/ (<<x, q>> \in s /\ <<q, y>> \in s)
      BY <1>2
    <3>2. ASSUME NEW x \in Node, NEW y \in Node, NEW i \in Node, i <= q,
                 <<x, i>> \in up[q], <<i, y>> \in up[q]
          PROVE  <<x, y>> \in up[q]
      <4>1. \A u, v \in Node : i <= k /\ <<u, i>> \in s /\ <<i, v>> \in s => <<u, v>> \in s
        BY <2>2
      <4>2. <<x, i>> \in s \/ (<<x, q>> \in s /\ <<q, i>> \in s)
        BY <3>1, <3>2
      <4>3. <<i, y>> \in s \/ (<<i, q>> \in s /\ <<q, y>> \in s)
        BY <3>1, <3>2
      <4>4. <<x, q>> \in s => q \in Node
        BY <3>1
      <4>5. i = q \/ i <= k
        BY <3>2, NodeAssumption
      <4> HIDE DEF s, q
      <4>6. CASE i = q
        BY <4>6, <4>2, <4>3, <3>1, <3>2
      <4>7. CASE i <= k
        BY <4>7, <4>1, <4>2, <4>3, <4>4, <3>1, <3>2
      <4> QED
        BY <4>5, <4>6, <4>7
    <3> QED
      BY <3>2
  <2>3. B = {}
    <3>1. 0 \notin B /\ B \in SUBSET Nat /\ \A k \in Nat : k \notin B => k + 1 \notin B
      <4> HIDE DEF Ok
      <4> QED
        BY <2>1, <2>2
    <3> HIDE DEF B
    <3> QED
      BY <3>1, <1>3
  <2>4. Ok(M)
    <3> HIDE DEF Ok
    <3> QED
      BY <2>3, <1>1
  <2> QED
    BY <2>4, <1>1, <1>6
<1> QED
  BY <1>1, <1>2, <1>4, <1>5, <1>6

\* Closure only grows with the relation.
LEMMA ClosureGrows ==
  ASSUME NEW r \in SUBSET (Node \X Node), NEW q \in SUBSET (Node \X Node), r \subseteq q
  PROVE  Closure(r) \subseteq Closure(q)
<1> DEFINE t == Closure(q)
<1>1. /\ t \in SUBSET (Node \X Node) /\ r \subseteq t
      /\ \A a, b, c \in Node : <<a, b>> \in t /\ <<b, c>> \in t => <<a, c>> \in t
  BY ClosureFacts
<1> HIDE DEF t
<1>2. Closure(r) \subseteq t
  BY <1>1, ClosureFacts
<1> QED
  BY <1>2 DEF t

-----------------------------------------------------------------------------
\* The statuses of the nodes that were skipped.
Skips == {"skipCond", "skipDep", "skipHalt"}

\* Everything from node n on downstream is skipped.
Stopped(stt, ed) ==
  {n \in Node : \E T \in SUBSET Node :
     /\ n \in T
     /\ \A a \in T : stt[a] \in Skips
     /\ \A a \in T, b \in Node : <<a, b>> \in ed => b \in T}

\* A node has a status once it settled.
Settled(lf, stt) == \A m \in Node : lf[m] = "done" <=> stt[m] # "none"

\* What follows a failed or halted node is stopped.
FailStop(stt, ed) ==
  \A e \in ed : stt[e[1]] \in {"failed", "halted"} => e[2] \in Stopped(stt, ed)

\* A node that settled ahead of a predecessor is stopped.
Overtaken(lf, ed, stt) ==
  \A e \in ed : lf[e[2]] = "done" /\ lf[e[1]] # "done" => e[2] \in Stopped(stt, ed)

\* A sub-workflow whose entry did not settle ok is skipped with it.
EntrySkips(lf, stt) ==
  \A s \in Subs : lf[s] = "done" /\ stt[s] # "ok" => \A m \in Members(s) : stt[m] \in Skips

FailInv(lf, ed, stt) ==
  Settled(lf, stt) /\ FailStop(stt, ed) /\ Overtaken(lf, ed, stt) /\ EntrySkips(lf, stt)

\* A node that is stopped was skipped, and all its successors are stopped.
LEMMA StoppedFacts ==
  ASSUME NEW stt, NEW ed, NEW a \in Stopped(stt, ed)
  PROVE  /\ a \in Node /\ stt[a] \in Skips
         /\ \A b \in Node : <<a, b>> \in ed => b \in Stopped(stt, ed)
<1>1. PICK T \in SUBSET Node : /\ a \in T
                               /\ \A x \in T : stt[x] \in Skips
                               /\ \A x \in T, b \in Node : <<x, b>> \in ed => b \in T
  BY DEF Stopped
<1>2. T \subseteq Stopped(stt, ed)
  BY <1>1 DEF Stopped
<1> QED
  BY <1>1, <1>2

\* Skipped nodes that keep their successors among themselves are stopped.
LEMMA StoppedHolds ==
  ASSUME NEW stt, NEW ed, NEW T \in SUBSET Node, \A a \in T : stt[a] \in Skips,
         \A a \in T, b \in Node : <<a, b>> \in ed => b \in T
  PROVE  T \subseteq Stopped(stt, ed)
BY DEF Stopped

\* finish and propagate keep what is known of failures.
LEMMA FailSettle ==
  ASSUME NEW lf, NEW ed, NEW ind, GraphInv(lf, ed, ind), Sound(lf, ed),
         FailInv(lf, ed, status), status \in [Node -> Terminal \cup {"none"}],
         NEW n \in Node, lf[n] \in {"queued", "running"}, NEW st \in Terminal, NEW x,
         SettleOn(lf, ed, ind, n, st, x)
  PROVE  FailInv(life', ed, status')
<1> DEFINE D == Cascade(lf, ed, n, st)
           S == {n} \cup D
           W == Stopped(status, ed)
<1>0. /\ lf \in [Node -> Lives] /\ ed \in SUBSET (Node \X Node)
      /\ Enclosed(lf) /\ Guarded(lf, ed) /\ Together(lf)
      /\ Present(lf, ed) /\ Ready(lf, ed) /\ Acyclic(ed)
      /\ Settled(lf, status) /\ FailStop(status, ed) /\ Overtaken(lf, ed, status)
      /\ EntrySkips(lf, status)
  BY DEF GraphInv, Sound, FailInv
<1>1. /\ life' = LifeAfter(S, lf, ed, DropIndeg(S, ed, ind))
      /\ status' = [m \in Node |-> IF m = n THEN st
                                   ELSE IF m \in S THEN Flavor(st) ELSE status[m]]
  BY DEF SettleOn
<1>2. /\ D \subseteq Node /\ S \subseteq Node /\ n \notin D
      /\ \A m \in D : lf[m] \in {"pending", "queued"}
  <2>1. D \subseteq Open(lf) /\ \A m \in D \ {n} : lf[m] \in {"pending", "queued"}
    BY CascadeFacts
  <2>2. n \notin D
    <3>1. n \notin Doomed(lf, ed, n)
      BY DoomedFacts
    <3>2. n \notin Members(n)
      BY NotOwnMember DEF Members
    <3> QED
      BY <3>1, <3>2 DEF Cascade
  <2> QED
    BY <2>1, <2>2 DEF Open
<1>3. \A m \in Node : life'[m] = "done" <=> lf[m] = "done" \/ m \in S
  BY <1>1, <1>2, <1>0 DEF LifeAfter
<1>4. st \in {"failed", "halted"} \cup Skips => Flavor(st) \in Skips
  BY DEF Flavor, Skips
<1>5. st = "ok" => D = {}
  BY DEF Cascade
<1>6. \A m \in D : status'[m] \in Skips
  BY <1>1, <1>2, <1>4, <1>5 DEF Terminal, Skips
<1>7. \A m \in Node : lf[m] = "done" => status'[m] = status[m] /\ m \notin S
  BY <1>1, <1>2
<1>8. Settled(life', status')
  <2>1. \A m \in S : status'[m] # "none"
    BY <1>1, <1>2, <1>6 DEF Skips, Terminal
  <2>2. \A m \in Node : m \notin S => status'[m] = status[m]
    BY <1>1
  <2> QED
    BY <2>1, <2>2, <1>3, <1>7, <1>0 DEF Settled
<1> HIDE DEF D, W
<1>9. \A a \in W : /\ a \in Node /\ status[a] \in Skips
                   /\ status'[a] \in Skips
                   /\ \A b \in Node : <<a, b>> \in ed => b \in W
  <2>1. \A a \in W : /\ a \in Node /\ status[a] \in Skips
                     /\ \A b \in Node : <<a, b>> \in ed => b \in W
    BY StoppedFacts DEF W
  <2>2. \A a \in W : lf[a] = "done"
    BY <2>1, <1>0 DEF Settled, Skips
  <2> QED
    BY <2>1, <2>2, <1>7
<1>10. W \subseteq Stopped(status', ed)
  BY <1>9, StoppedHolds
<1>11. \A p \in Node : <<p, n>> \in ed => lf[p] = "done"
  BY <1>0 DEF Ready, PredsDone, Busy
<1>12. ASSUME st \in {"failed", "halted"}
       PROVE  /\ D \subseteq Stopped(status', ed)
              /\ \A b \in Node : <<n, b>> \in ed => b \in Stopped(status', ed)
              /\ \A a \in S : \A m \in Members(a) : lf[m] \notin {"absent", "done"} => m \in D \cup {n}
  <2>1. D = Doomed(lf, ed, n)
    BY <1>12 DEF D, Cascade
  <2>2. \A a \in S, b \in Open(lf) \ {n} : Spreads(lf, ed, a, b) => b \in D
    BY <2>1, DoomedFacts
  <2>3. ASSUME NEW a \in S, NEW b \in Node, <<a, b>> \in ed PROVE b \in D \cup W
    <3>1. lf[a] \notin {"done", "absent"} /\ a \in Node
      BY <1>2
    <3>2. lf[b] \notin Busy
      BY <3>1, <2>3, <1>0 DEF Ready, PredsDone
    <3>3. b # n
      BY <3>2 DEF Busy
    <3>4. lf[b] # "absent"
      <4>1. <<a, b>>[2] = b
        OBVIOUS
      <4> QED
        BY <4>1, <2>3, <1>0 DEF Present
    <3>5. CASE lf[b] = "done"
      <4>1. <<a, b>>[2] = b /\ <<a, b>>[1] = a
        OBVIOUS
      <4> QED
        BY <4>1, <3>1, <3>5, <2>3, <1>0 DEF Overtaken, W
    <3>6. CASE lf[b] = "pending"
      <4>1. b \in Open(lf) \ {n} /\ Spreads(lf, ed, a, b)
        BY <3>3, <3>6, <2>3 DEF Open, Spreads, Waiting
      <4> QED
        BY <4>1, <2>2
    <3> QED
      BY <3>2, <3>4, <3>5, <3>6, <1>0 DEF Lives, Busy
  <2>4. D \cup W \subseteq Stopped(status', ed)
    <3>1. D \cup W \in SUBSET Node
      BY <1>2, <1>9
    <3>2. \A a \in D \cup W : status'[a] \in Skips
      BY <1>6, <1>9
    <3>3. \A a \in D \cup W, b \in Node : <<a, b>> \in ed => b \in D \cup W
      BY <2>3, <1>9
    <3> QED
      BY <3>1, <3>2, <3>3, StoppedHolds
  <2>5. \A a \in S : \A m \in Members(a) : lf[m] \notin {"absent", "done"} => m \in D \cup {n}
    <3>1. \A a : Members(a) \subseteq Node
      BY DEF Members, Below
    <3> QED
      BY <3>1, <2>2 DEF Open, Spreads
  <2> QED
    BY <2>3, <2>4, <2>5
<1>13. FailStop(status', ed)
  <2>1. ASSUME NEW e \in ed, status'[e[1]] \in {"failed", "halted"}
        PROVE  e[2] \in Stopped(status', ed)
    <3>1. e[1] \in Node /\ e[2] \in Node /\ e = <<e[1], e[2]>>
      BY <1>0
    <3>2. CASE e[1] = n
      BY <3>1, <3>2, <2>1, <1>1, <1>12
    <3>3. CASE e[1] # n
      <4>1. status'[e[1]] = status[e[1]]
        BY <3>1, <3>3, <2>1, <1>1, <1>6 DEF Skips
      <4>2. e[2] \in W
        BY <4>1, <2>1, <1>0 DEF FailStop, W
      <4> QED
        BY <4>2, <1>10
    <3> QED
      BY <3>2, <3>3
  <2> QED
    BY <2>1 DEF FailStop
<1>14. Overtaken(life', ed, status')
  <2>1. ASSUME NEW e \in ed, life'[e[2]] = "done", life'[e[1]] # "done"
        PROVE  e[2] \in Stopped(status', ed)
    <3>1. e[1] \in Node /\ e[2] \in Node /\ e = <<e[1], e[2]>>
      BY <1>0
    <3>2. lf[e[1]] # "done" /\ e[1] \notin S
      BY <3>1, <2>1, <1>3
    <3>3. CASE lf[e[2]] = "done"
      BY <3>2, <3>3, <1>0, <1>10 DEF Overtaken, W
    <3>4. CASE e[2] = n
      BY <3>1, <3>2, <3>4, <1>11
    <3>5. CASE e[2] \in D /\ st \in {"failed", "halted"}
      BY <3>5, <1>12
    <3>6. CASE e[2] \in D /\ st \notin {"failed", "halted"}
      <4>1. D = Open(lf) \cap Members(n)
        BY <3>6 DEF D, Cascade
      <4>2. n \in Subs /\ e[2] \in Members(n)
        BY <4>1, <3>6 DEF Members
      <4>3. e[1] = n \/ e[1] \in Members(n) \/ lf[n] = "done"
        BY <4>2, <1>0 DEF Guarded
      <4>4. e[1] \in Members(n) /\ lf[e[1]] # "absent"
        BY <4>3, <3>2, <1>0 DEF Present
      <4>5. e[1] \in D
        BY <4>1, <4>4, <3>1, <3>2 DEF Open
      <4> QED
        BY <4>5, <3>2
    <3> QED
      BY <3>1, <3>3, <3>4, <3>5, <3>6, <2>1, <1>3
  <2> QED
    BY <2>1 DEF Overtaken
<1>15. EntrySkips(life', status')
  <2>1. ASSUME NEW s \in Subs, life'[s] = "done", status'[s] # "ok", NEW m \in Members(s)
        PROVE  status'[m] \in Skips
    <3>1. s \in Node /\ m \in Node /\ Path[m][1] = Path[s][1]
      BY MembersRoot DEF Subs, Members, Below
    <3>2. CASE lf[s] = "done"
      <4>1. status[m] \in Skips
        BY <3>1, <3>2, <2>1, <1>0, <1>7 DEF EntrySkips
      <4>2. lf[m] = "done"
        BY <4>1, <3>1, <1>0 DEF Settled, Skips
      <4> QED
        BY <4>1, <4>2, <3>1, <1>7
    <3>3. CASE lf[s] # "done"
      <4>1. s \in S /\ lf[s] # "absent"
        BY <3>1, <3>3, <2>1, <1>2, <1>3
      <4>2. lf[m] = "pending"
        BY <4>1, <3>1, <3>3, <1>0 DEF Enclosed, Together
      <4>3. m # n
        BY <4>2
      <4>4. CASE st \in {"failed", "halted"}
        BY <4>1, <4>2, <4>3, <4>4, <1>6, <1>12
      <4>5. CASE st \notin {"failed", "halted"}
        <5>1. st # "ok"
          BY <4>1, <1>1, <1>5, <2>1, <3>1
        <5>2. D = Open(lf) \cap Members(n)
          BY <4>5, <5>1 DEF D, Cascade
        <5>3. m \in Members(n)
          <6>1. CASE s = n
            BY <6>1
          <6>2. CASE s # n
            <7>1. s \in Members(n) /\ n \in Subs
              BY <6>2, <4>1, <5>2 DEF Members
            <7> QED
              BY <7>1, MembersTrans
          <6> QED
            BY <6>1, <6>2
        <5> QED
          BY <5>2, <5>3, <4>2, <3>1, <1>6 DEF Open
      <4> QED
        BY <4>4, <4>5
    <3> QED
      BY <3>2, <3>3
  <2> QED
    BY <2>1 DEF EntrySkips
<1> QED
  BY <1>8, <1>13, <1>14, <1>15 DEF FailInv

\* applyExpansion's splice keeps it: the new edges start at nodes that have not
\* settled, and lead to such nodes or to what follows the generate node.
LEMMA FailSplice ==
  ASSUME GraphInv(life, edge, indeg), Fresh(life), FailInv(life, edge, status),
         NEW n \in Node, life[n] = "running",
         NEW is, is \subseteq {i \in Inst : InstGen[i] = n},
         NEW new, new = SpliceNodes(is),
         NEW ed, ed = edge \cup SpliceEdges(n, is, edge),
         NEW ind, ind = SpliceIndeg(ed),
         NEW lf, lf = SpliceLife(new, ind)
  PROVE  FailInv(lf, ed, status)
<1>1. /\ \A m \in Node : \/ m \notin new /\ lf[m] = life[m]
                         \/ m \in new /\ life[m] = "absent" /\ lf[m] \in {"pending", "queued"}
      /\ edge \in SUBSET (Node \X Node) /\ is \subseteq Inst
      /\ Settled(life, status) /\ FailStop(status, edge) /\ Overtaken(life, edge, status)
      /\ EntrySkips(life, status)
  BY SpliceGraph DEF GraphInv, FailInv
<1>2. \A m \in Node : lf[m] = "done" <=> life[m] = "done"
  BY <1>1
<1>3. ASSUME NEW e \in SpliceEdges(n, is, edge)
      PROVE  /\ e[1] \in new /\ e[1] \in Node /\ e[2] \in Node
             /\ e[2] \in new \/ <<n, e[2]>> \in edge
  <2>1. /\ e[1] \in Node /\ e[2] \in Node
        /\ \/ \E i \in is : e[1] \in Below(i) /\ e[2] \in Below(i)
           \/ \E j, k \in is : e[1] \in Below(j) /\ e[2] \in Below(k)
           \/ \E i \in is : e[1] \in Below(i) /\ <<n, e[2]>> \in edge
    BY <1>1, <1>3, SpliceKinds
  <2> QED
    BY <2>1 DEF SpliceNodes
<1>4. \A m \in Node : m \in new => status[m] = "none"
  BY <1>1 DEF Settled
<1>5. Stopped(status, edge) \subseteq Stopped(status, ed)
  <2> DEFINE W == Stopped(status, edge)
  <2>1. \A a \in W : /\ a \in Node /\ status[a] \in Skips
                     /\ \A b \in Node : <<a, b>> \in edge => b \in W
    BY StoppedFacts
  <2> HIDE DEF W
  <2>2. ASSUME NEW a \in W, NEW b \in Node, <<a, b>> \in ed PROVE b \in W
    <3>1. CASE <<a, b>> \in edge
      BY <3>1, <2>1
    <3>2. CASE <<a, b>> \in SpliceEdges(n, is, edge)
      <4>1. a \in new
        BY <3>2, <1>3
      <4> QED
        BY <4>1, <2>1, <1>4 DEF Skips
    <3> QED
      BY <2>2, <3>1, <3>2
  <2>3. W \in SUBSET Node
    BY <2>1
  <2>4. W \subseteq Stopped(status, ed)
    BY <2>1, <2>2, <2>3, StoppedHolds
  <2> QED
    BY <2>4 DEF W
<1>6. Settled(lf, status) /\ EntrySkips(lf, status)
  BY <1>1, <1>2 DEF Settled, EntrySkips, Subs
<1>7. FailStop(status, ed)
  <2>1. ASSUME NEW e \in ed, status[e[1]] \in {"failed", "halted"} PROVE e \in edge
    BY <2>1, <1>3, <1>4
  <2> QED
    BY <2>1, <1>1, <1>5 DEF FailStop
<1>8. Overtaken(lf, ed, status)
  <2>1. ASSUME NEW e \in ed, lf[e[2]] = "done", lf[e[1]] # "done"
        PROVE  e[2] \in Stopped(status, edge)
    <3>1. CASE e \in edge
      BY <3>1, <2>1, <1>1, <1>2 DEF Overtaken
    <3>2. CASE e \in SpliceEdges(n, is, edge)
      <4>1. e[2] \in Node /\ life[e[2]] = "done" /\ <<n, e[2]>> \in edge
        BY <3>2, <2>1, <1>1, <1>2, <1>3
      <4>2. <<n, e[2]>>[1] = n /\ <<n, e[2]>>[2] = e[2]
        OBVIOUS
      <4> QED
        BY <4>1, <4>2, <1>1 DEF Overtaken
    <3> QED
      BY <2>1, <3>1, <3>2
  <2> QED
    BY <2>1, <1>5 DEF Overtaken
<1> QED
  BY <1>6, <1>7, <1>8 DEF FailInv

\* What a step of the loop does to the graph it settles a node on.
LEMMA StepKinds ==
  ASSUME RunInv, Moves \/ Settles \/ Splices
  PROVE  \/ Moves
         \/ Settles
         \/ \E n \in Node : \E is \in SUBSET {i \in Inst : InstGen[i] = n} :
              LET ed  == edge \cup SpliceEdges(n, is, edge)
                  ind == SpliceIndeg(ed)
                  lf  == SpliceLife(SpliceNodes(is), ind)
              IN  /\ life[n] = "running" /\ lf[n] = "running"
                  /\ GraphInv(lf, ed, ind) /\ Sound(lf, ed)
                  /\ SettleOn(lf, ed, ind, n, "ok", FALSE)
<1>1. CASE Splices
  <2>1. PICK n \in Node : \E is \in SUBSET {i \in Inst : InstGen[i] = n} :
           life[n] = "running" /\ Spliced(n, is)
    BY <1>1 DEF Splices
  <2>2. PICK is \in SUBSET {i \in Inst : InstGen[i] = n} :
           life[n] = "running" /\ Spliced(n, is)
    BY <2>1
  <2> DEFINE new == SpliceNodes(is)
             ed  == edge \cup SpliceEdges(n, is, edge)
             ind == SpliceIndeg(ed)
             lf  == SpliceLife(new, ind)
  <2>3. SettleOn(lf, ed, ind, n, "ok", FALSE)
    BY <2>2 DEF Spliced
  <2>4. GraphInv(lf, ed, ind) /\ lf[n] = "running" /\ Sound(lf, ed)
    <3>1. /\ new = SpliceNodes(is) /\ ed = edge \cup SpliceEdges(n, is, edge)
          /\ ind = SpliceIndeg(ed) /\ lf = SpliceLife(new, ind)
          /\ is \subseteq {i \in Inst : InstGen[i] = n}
      OBVIOUS
    <3>2. GraphInv(life, edge, indeg) /\ Fresh(life) /\ Sound(life, edge)
      BY DEF RunInv, IInv, Readiness
    <3> HIDE DEF new, ed, ind, lf
    <3> QED
      BY <2>2, <3>1, <3>2, SpliceGraph, SpliceReady
  <2> QED
    BY <2>2, <2>3, <2>4
<1> QED
  BY <1>1

\* Every step keeps what is known of failures.
LEMMA FailStep ==
  ASSUME RunInv, FailInv(life, edge, status), Moves \/ Settles \/ Splices
  PROVE  FailInv(life', edge', status')
<1>1. /\ GraphInv(life, edge, indeg) /\ Fresh(life) /\ Sound(life, edge)
      /\ status \in [Node -> Terminal \cup {"none"}]
  BY DEF RunInv, IInv, TypeOK, Readiness
<1>2. CASE Moves
  <2>1. /\ status' = status /\ edge' = edge
        /\ \A m \in Node : life'[m] = "done" <=> life[m] = "done"
    BY <1>2 DEF Moves
  <2>2. edge \in SUBSET (Node \X Node)
    BY <1>1 DEF GraphInv
  <2> QED
    BY <2>1, <2>2 DEF FailInv, Settled, Overtaken, EntrySkips, Subs
<1>3. CASE Settles
  <2>1. PICK n \in Node, st \in Terminal, x \in BOOLEAN :
           life[n] \in {"queued", "running"} /\ SettleOn(life, edge, indeg, n, st, x)
    BY <1>3 DEF Settles, Settle
  <2>2. edge' = edge
    BY <2>1 DEF SettleOn
  <2> QED
    BY <2>1, <2>2, <1>1, FailSettle
<1>4. CASE \E n \in Node : \E is \in SUBSET {i \in Inst : InstGen[i] = n} :
             LET ed  == edge \cup SpliceEdges(n, is, edge)
                 ind == SpliceIndeg(ed)
                 lf  == SpliceLife(SpliceNodes(is), ind)
             IN  /\ life[n] = "running" /\ lf[n] = "running"
                 /\ GraphInv(lf, ed, ind) /\ Sound(lf, ed)
                 /\ SettleOn(lf, ed, ind, n, "ok", FALSE)
  <2>1. PICK n \in Node : \E is \in SUBSET {i \in Inst : InstGen[i] = n} :
             LET ed  == edge \cup SpliceEdges(n, is, edge)
                 ind == SpliceIndeg(ed)
                 lf  == SpliceLife(SpliceNodes(is), ind)
             IN  /\ life[n] = "running" /\ lf[n] = "running"
                 /\ GraphInv(lf, ed, ind) /\ Sound(lf, ed)
                 /\ SettleOn(lf, ed, ind, n, "ok", FALSE)
    BY <1>4
  <2>2. PICK is \in SUBSET {i \in Inst : InstGen[i] = n} :
             LET ed  == edge \cup SpliceEdges(n, is, edge)
                 ind == SpliceIndeg(ed)
                 lf  == SpliceLife(SpliceNodes(is), ind)
             IN  /\ life[n] = "running" /\ lf[n] = "running"
                 /\ GraphInv(lf, ed, ind) /\ Sound(lf, ed)
                 /\ SettleOn(lf, ed, ind, n, "ok", FALSE)
    BY <2>1
  <2> DEFINE new == SpliceNodes(is)
             ed  == edge \cup SpliceEdges(n, is, edge)
             ind == SpliceIndeg(ed)
             lf  == SpliceLife(new, ind)
  <2>3. /\ new = SpliceNodes(is) /\ ed = edge \cup SpliceEdges(n, is, edge)
        /\ ind = SpliceIndeg(ed) /\ lf = SpliceLife(new, ind)
        /\ is \subseteq {i \in Inst : InstGen[i] = n}
        /\ life[n] = "running" /\ lf[n] = "running"
        /\ GraphInv(lf, ed, ind) /\ Sound(lf, ed)
        /\ SettleOn(lf, ed, ind, n, "ok", FALSE)
    BY <2>2
  <2> HIDE DEF new, ed, ind, lf
  <2>4. FailInv(lf, ed, status)
    BY <2>3, <1>1, FailSplice
  <2>5. edge' = ed
    BY <2>3 DEF SettleOn
  <2>6. "ok" \in Terminal
    BY DEF Terminal
  <2> QED
    BY <2>3, <2>4, <2>5, <2>6, <1>1, FailSettle
<1> QED
  BY <1>2, <1>3, <1>4, StepKinds

-----------------------------------------------------------------------------
\* An edge of the graph leads to every member of an entry, one after the other.
LEMMA MembersReached ==
  ASSUME NEW lf, NEW ed, NEW ind, GraphInv(lf, ed, ind), Acyclic(ed),
         NEW s \in Subs, lf[s] # "absent", NEW m \in Members(s)
  PROVE  <<s, m>> \in Closure(ed)
<1> DEFINE t == Closure(ed)
           B == {k \in Members(s) : <<s, k>> \notin t}
<1>1. /\ ed \in SUBSET (Node \X Node) /\ Wired(lf, ed) /\ Together(lf)
      /\ s \in Node /\ Members(s) \subseteq Node
  BY DEF GraphInv, Subs, Members, Below
<1>2. /\ ed \subseteq t
      /\ \A a, b, c \in Node : <<a, b>> \in t /\ <<b, c>> \in t => <<a, c>> \in t
  BY <1>1, ClosureFacts
<1>3. \A k \in Members(s) : lf[k] # "absent"
  BY <1>1, MembersRoot DEF Together
<1>4. CASE B # {}
  <2> HIDE DEF t
  <2>1. PICK k \in B : \A p \in B : <<p, k>> \notin ed
    <3>1. B \in SUBSET Node
      BY <1>1
    <3> HIDE DEF B
    <3> QED
      BY <3>1, <1>4 DEF Acyclic
  <2>2. k \in Members(s) /\ k \in Node /\ <<s, k>> \notin t /\ s \in Subs
    BY <2>1, <1>1
  <2>3. CASE k \in LevelSources(LevelOf(k))
    <3>1. LevelOf(k) \in Subs /\ (s = LevelOf(k) \/ LevelOf(k) \in Members(s))
      BY <2>2, LevelFacts
    <3>2. <<LevelOf(k), k>> \in ed
      BY <3>1, <2>2, <2>3, <1>1, <1>3 DEF Wired
    <3>3. LevelOf(k) \in Members(s)
      BY <3>1, <3>2, <2>2, <1>2
    <3>4. <<s, LevelOf(k)>> \in t
      BY <3>2, <3>3, <2>1
    <3> QED
      BY <3>2, <3>3, <3>4, <2>2, <1>1, <1>2
  <2>4. CASE k \notin LevelSources(LevelOf(k))
    <3>1. PICK e \in Decl \cup Cond : e[2] = k
      BY <2>2, <2>4, NotASource
    <3>2. e = <<e[1], k>> /\ e[1] \in Members(s)
      BY <3>1, <2>2, SameLevel
    <3>3. <<e[1], k>> \in ed
      BY <3>1, <3>2, <2>2, <1>1, <1>3 DEF Wired
    <3>4. <<s, e[1]>> \in t
      BY <3>2, <3>3, <2>1
    <3> QED
      BY <3>2, <3>3, <3>4, <2>2, <1>1, <1>2
  <2> QED
    BY <2>3, <2>4
<1> QED
  BY <1>4

\* Whatever follows a failed or halted node, however far, is stopped.
LEMMA DownstreamStops ==
  ASSUME NEW lf, NEW ed \in SUBSET (Node \X Node), NEW stt, FailInv(lf, ed, stt),
         NEW u \in Node, NEW d \in Node, <<u, d>> \in Closure(ed), stt[u] \in {"failed", "halted"}
  PROVE  d \in Stopped(stt, ed)
<1> DEFINE W == Stopped(stt, ed)
           t == {e \in Node \X Node :
                   stt[e[1]] \in {"failed", "halted"} \/ e[1] \in W => e[2] \in W}
<1>1. \A a \in W : \A b \in Node : <<a, b>> \in ed => b \in W
  BY StoppedFacts
<1>2. \A e \in ed : stt[e[1]] \in {"failed", "halted"} => e[2] \in W
  BY DEF FailInv, FailStop
<1> HIDE DEF W
<1>3. ed \subseteq t
  <2>1. ASSUME NEW e \in ed PROVE e \in t
    <3>1. e = <<e[1], e[2]>> /\ e[1] \in Node /\ e[2] \in Node
      OBVIOUS
    <3> QED
      BY <3>1, <1>1, <1>2
  <2> QED
    BY <2>1
<1>4. \A a, b, c \in Node : <<a, b>> \in t /\ <<b, c>> \in t => <<a, c>> \in t
  OBVIOUS
<1>5. t \in SUBSET (Node \X Node)
  OBVIOUS
<1>6. Closure(ed) \subseteq t
  <2> HIDE DEF t
  <2> QED
    BY <1>3, <1>4, <1>5, ClosureFacts
<1>7. <<u, d>> \in t
  BY <1>6
<1> QED
  BY <1>7 DEF W

\* What caused a skip is upstream of it.
Causes(stt, ed) ==
  \A n \in Node :
    /\ stt[n] = "skipHalt" => \E u \in Node : <<u, n>> \in Closure(ed) /\ stt[u] = "halted"
    /\ stt[n] = "skipDep" =>
         \E u \in Node : <<u, n>> \in Closure(ed) /\ stt[u] \in {"failed", "skipCond"}

\* Everything that a failure of n takes with it is downstream of n.
LEMMA DoomedReached ==
  ASSUME NEW lf, NEW ed, NEW ind, GraphInv(lf, ed, ind), Sound(lf, ed),
         NEW n \in Node, lf[n] # "absent", NEW m \in Doomed(lf, ed, n)
  PROVE  <<n, m>> \in Closure(ed)
<1> DEFINE t == Closure(ed)
           T == {k \in Open(lf) \ {n} : <<n, k>> \in t}
<1>1. ed \in SUBSET (Node \X Node) /\ Acyclic(ed)
  BY DEF GraphInv, Sound
<1>2. /\ ed \subseteq t
      /\ \A a, b, c \in Node : <<a, b>> \in t /\ <<b, c>> \in t => <<a, c>> \in t
  BY <1>1, ClosureFacts
<1>3. \A s \in Node : lf[s] # "absent" => \A k \in Members(s) : <<s, k>> \in t
  <2>1. ASSUME NEW s \in Node, lf[s] # "absent", NEW k \in Members(s) PROVE <<s, k>> \in t
    <3>1. s \in Subs
      BY <2>1 DEF Members
    <3> QED
      BY <2>1, <3>1, <1>1, MembersReached
  <2> QED
    BY <2>1
<1> HIDE DEF t
<1>4. ASSUME NEW a \in T \cup {n}, NEW b \in Open(lf) \ {n}, Spreads(lf, ed, a, b)
      PROVE  b \in T
  <2>1. a \in Node /\ b \in Node /\ lf[a] # "absent"
    BY DEF Open
  <2>2. <<a, b>> \in t
    BY <2>1, <1>2, <1>3, <1>4 DEF Spreads
  <2>3. a = n \/ <<n, a>> \in t
    OBVIOUS
  <2> QED
    BY <2>1, <2>2, <2>3, <1>2
<1>5. T \in SUBSET (Open(lf) \ {n})
  OBVIOUS
<1>6. Doomed(lf, ed, n) \subseteq T
  <2> HIDE DEF T
  <2> QED
    BY <1>4, <1>5, DoomedFacts
<1> QED
  BY <1>6 DEF t

\* settleSkip names the cause it passes on.
LEMMA CauseSettle ==
  ASSUME NEW lf, NEW ed, NEW ind, GraphInv(lf, ed, ind), Sound(lf, ed),
         FailInv(lf, ed, status), Causes(status, ed),
         status \in [Node -> Terminal \cup {"none"}],
         NEW n \in Node, lf[n] \in {"queued", "running"}, NEW st \in Terminal \ {"skipHalt"}, NEW x,
         st = "skipDep" => \E s \in DataSources(n) : status[s] # "ok",
         SettleOn(lf, ed, ind, n, st, x)
  PROVE  Causes(status', ed)
<1> DEFINE D == Cascade(lf, ed, n, st)
           t == Closure(ed)
<1>1. /\ ed \in SUBSET (Node \X Node) /\ lf \in [Node -> Lives]
      /\ Ready(lf, ed) /\ Wired(lf, ed) /\ Acyclic(ed)
      /\ Settled(lf, status)
  BY DEF GraphInv, Sound, FailInv
<1>2. /\ ed \subseteq t
      /\ \A a, b, c \in Node : <<a, b>> \in t /\ <<b, c>> \in t => <<a, c>> \in t
  BY <1>1, ClosureFacts
<1>3. status' = [m \in Node |-> IF m = n THEN st
                                ELSE IF m \in {n} \cup D THEN Flavor(st) ELSE status[m]]
  BY DEF SettleOn
<1>4. \A m \in D : m \in Node /\ lf[m] # "done" /\ m # n /\ <<n, m>> \in t
  <2>1. n \notin Doomed(lf, ed, n) /\ Doomed(lf, ed, n) \subseteq Open(lf)
    BY DoomedFacts
  <2>2. \A m \in Doomed(lf, ed, n) : <<n, m>> \in t
    BY DoomedReached
  <2>3. \A m \in Members(n) : <<n, m>> \in t /\ m # n
    <3>1. ASSUME NEW m \in Members(n) PROVE <<n, m>> \in t /\ m # n
      <4>1. n \in Subs
        BY <3>1 DEF Members
      <4> QED
        BY <4>1, <3>1, <1>1, MembersReached, NotOwnMember
    <3> QED
      BY <3>1
  <2>4. D \subseteq Doomed(lf, ed, n) \cup (Open(lf) \cap Members(n))
    BY DEF Cascade
  <2> HIDE DEF D, t
  <2> QED
    BY <2>1, <2>2, <2>3, <2>4 DEF Open
<1>5. st = "ok" => D = {}
  BY DEF Cascade
<1> HIDE DEF D
<1>6. \A u \in Node : status[u] # "none" => status'[u] = status[u]
  <2>1. \A u \in Node : status[u] # "none" => lf[u] = "done"
    BY <1>1 DEF Settled
  <2> QED
    BY <2>1, <1>3, <1>4
<1>7. ASSUME st = "skipDep"
      PROVE  \E u \in Node : <<u, n>> \in t /\ status[u] \in {"failed", "skipCond"}
  <2>1. PICK s \in DataSources(n) : status[s] # "ok"
    BY <1>7
  <2>2. <<s, n>> \in Decl /\ s \in Node
    <3>1. PICK d \in Data : d[2] = n /\ d[1] = s
      BY <2>1 DEF DataSources
    <3>2. d \in Decl \cup Cond
      BY <3>1, ShapeAssumption
    <3> QED
      BY <3>1, <3>2, SameLevel, ShapeAssumption
  <2>3. <<s, n>> \in ed
    <3>1. <<s, n>>[2] = n
      OBVIOUS
    <3> QED
      BY <3>1, <2>2, <1>1 DEF Wired
  <2>4. lf[s] = "done"
    BY <2>2, <2>3, <1>1 DEF Ready, PredsDone, Busy
  <2>5. <<s, n>> \in t
    BY <2>3, <1>2
  <2>6. ASSUME NEW u \in Node, <<u, n>> \in t, status[u] \in {"failed", "halted"} PROVE FALSE
    <3>1. n \in Stopped(status, ed)
      BY <2>6, <1>1, DownstreamStops
    <3>2. status[n] \in Skips
      BY <3>1, StoppedFacts
    <3> QED
      BY <3>2, <1>1 DEF Settled, Skips
  <2>7. status[s] \in {"skipCond", "skipDep", "skipHalt"}
    BY <2>1, <2>2, <2>4, <2>5, <2>6, <1>1 DEF Settled, Terminal
  <2>8. CASE status[s] = "skipHalt"
    <3>1. PICK u \in Node : <<u, s>> \in t /\ status[u] = "halted"
      BY <2>2, <2>8 DEF Causes
    <3> HIDE DEF t
    <3> QED
      BY <3>1, <2>2, <2>5, <2>6, <1>2
  <2>9. CASE status[s] = "skipDep"
    <3>1. PICK u \in Node : <<u, s>> \in t /\ status[u] \in {"failed", "skipCond"}
      BY <2>2, <2>9 DEF Causes
    <3> HIDE DEF t
    <3> QED
      BY <3>1, <2>2, <2>5, <1>2
  <2> HIDE DEF t
  <2> QED
    BY <2>2, <2>5, <2>7, <2>8, <2>9
<1>8. ASSUME NEW m \in Node, status'[m] = "skipHalt"
      PROVE  \E u \in Node : <<u, m>> \in t /\ status'[u] = "halted"
  <2>1. CASE m \in D
    <3>1. Flavor(st) = "skipHalt"
      BY <2>1, <1>3, <1>4, <1>8
    <3>2. st = "halted"
      BY <3>1 DEF Flavor
    <3> QED
      BY <2>1, <3>2, <1>3, <1>4
  <2>2. CASE m \notin D
    <3>1. status[m] = "skipHalt"
      BY <2>2, <1>3, <1>8
    <3>2. PICK u \in Node : <<u, m>> \in t /\ status[u] = "halted"
      BY <3>1 DEF Causes
    <3> QED
      BY <3>2, <1>6
  <2> QED
    BY <2>1, <2>2
<1>9. ASSUME NEW m \in Node, status'[m] = "skipDep"
      PROVE  \E u \in Node : <<u, m>> \in t /\ status'[u] \in {"failed", "skipCond"}
  <2>1. CASE m \in D /\ st = "failed"
    BY <2>1, <1>3, <1>4
  <2>2. CASE (m \in D \/ m = n) /\ st = "skipDep"
    <3>1. PICK u \in Node : <<u, n>> \in t /\ status[u] \in {"failed", "skipCond"}
      BY <2>2, <1>7
    <3>2. <<u, m>> \in t
      <4> HIDE DEF t
      <4> QED
        BY <3>1, <2>2, <1>2, <1>4
    <3> QED
      BY <3>1, <3>2, <1>6
  <2>3. CASE m \notin D /\ m # n
    <3>1. status[m] = "skipDep"
      BY <2>3, <1>3, <1>9
    <3>2. PICK u \in Node : <<u, m>> \in t /\ status[u] \in {"failed", "skipCond"}
      BY <3>1 DEF Causes
    <3> QED
      BY <3>2, <1>6
  <2>4. m \in D => st \in {"failed", "skipDep"}
    <3>1. m \in D => Flavor(st) = "skipDep"
      BY <1>3, <1>4, <1>9
    <3> QED
      BY <3>1 DEF Flavor
  <2>5. m = n => st = "skipDep"
    BY <1>3, <1>9
  <2> QED
    BY <2>1, <2>2, <2>3, <2>4, <2>5
<1> QED
  BY <1>8, <1>9 DEF Causes

\* Every step keeps the causes.
LEMMA CauseStep ==
  ASSUME RunInv, FailInv(life, edge, status), Causes(status, edge), Moves \/ Settles \/ Splices
  PROVE  Causes(status', edge')
<1>1. /\ GraphInv(life, edge, indeg) /\ Fresh(life) /\ Sound(life, edge)
      /\ status \in [Node -> Terminal \cup {"none"}] /\ edge \in SUBSET (Node \X Node)
  BY DEF RunInv, IInv, TypeOK, Readiness
<1>2. CASE Moves
  <2>1. status' = status /\ edge' = edge
    BY <1>2 DEF Moves
  <2> QED
    BY <2>1 DEF Causes
<1>3. CASE Settles
  <2>1. PICK n \in Node, st \in Terminal, x \in BOOLEAN :
           /\ life[n] \in {"queued", "running"} /\ SettleOn(life, edge, indeg, n, st, x)
           /\ st # "skipHalt"
           /\ st = "skipDep" => \E s \in DataSources(n) : status[s] # "ok"
    BY <1>3 DEF Settles, Settle
  <2>2. edge' = edge /\ st \in Terminal \ {"skipHalt"}
    BY <2>1 DEF SettleOn
  <2> QED
    BY <2>1, <2>2, <1>1, CauseSettle
<1>4. CASE \E n \in Node : \E is \in SUBSET {i \in Inst : InstGen[i] = n} :
             LET ed  == edge \cup SpliceEdges(n, is, edge)
                 ind == SpliceIndeg(ed)
                 lf  == SpliceLife(SpliceNodes(is), ind)
             IN  /\ life[n] = "running" /\ lf[n] = "running"
                 /\ GraphInv(lf, ed, ind) /\ Sound(lf, ed)
                 /\ SettleOn(lf, ed, ind, n, "ok", FALSE)
  <2>1. PICK n \in Node : \E is \in SUBSET {i \in Inst : InstGen[i] = n} :
             LET ed  == edge \cup SpliceEdges(n, is, edge)
                 ind == SpliceIndeg(ed)
                 lf  == SpliceLife(SpliceNodes(is), ind)
             IN  /\ life[n] = "running" /\ lf[n] = "running"
                 /\ GraphInv(lf, ed, ind) /\ Sound(lf, ed)
                 /\ SettleOn(lf, ed, ind, n, "ok", FALSE)
    BY <1>4
  <2>2. PICK is \in SUBSET {i \in Inst : InstGen[i] = n} :
             LET ed  == edge \cup SpliceEdges(n, is, edge)
                 ind == SpliceIndeg(ed)
                 lf  == SpliceLife(SpliceNodes(is), ind)
             IN  /\ life[n] = "running" /\ lf[n] = "running"
                 /\ GraphInv(lf, ed, ind) /\ Sound(lf, ed)
                 /\ SettleOn(lf, ed, ind, n, "ok", FALSE)
    BY <2>1
  <2> DEFINE new == SpliceNodes(is)
             ed  == edge \cup SpliceEdges(n, is, edge)
             ind == SpliceIndeg(ed)
             lf  == SpliceLife(new, ind)
  <2>3. /\ new = SpliceNodes(is) /\ ed = edge \cup SpliceEdges(n, is, edge)
        /\ ind = SpliceIndeg(ed) /\ lf = SpliceLife(new, ind)
        /\ is \subseteq {i \in Inst : InstGen[i] = n}
        /\ life[n] = "running" /\ lf[n] = "running"
        /\ GraphInv(lf, ed, ind) /\ Sound(lf, ed)
        /\ SettleOn(lf, ed, ind, n, "ok", FALSE)
    BY <2>2
  <2> HIDE DEF new, ed, ind, lf
  <2>4. FailInv(lf, ed, status)
    BY <2>3, <1>1, FailSplice
  <2>5. Causes(status, ed)
    <3>1. ed \in SUBSET (Node \X Node) /\ edge \subseteq ed
      BY <2>3 DEF GraphInv
    <3>2. Closure(edge) \subseteq Closure(ed)
      BY <3>1, <1>1, ClosureGrows
    <3> QED
      BY <3>2 DEF Causes
  <2>6. edge' = ed
    BY <2>3 DEF SettleOn
  <2>7. "ok" \in Terminal \ {"skipHalt"}
    BY DEF Terminal
  <2> QED
    BY <2>3, <2>4, <2>5, <2>6, <2>7, <1>1, CauseSettle
<1> QED
  BY <1>2, <1>3, <1>4, StepKinds

\* The invariants of the run loop with the ones of failures.
FailRunInv == RunInv /\ FailInv(life, edge, status) /\ Causes(status, edge)

\* Every step keeps them, and settles nodes, moves them or splices some in.
LEMMA FailRunStep ==
  FailRunInv /\ [Next]_vars => FailRunInv' /\ (Moves \/ Settles \/ Splices)
<1> SUFFICES ASSUME FailRunInv, [Next]_vars PROVE FailRunInv' /\ (Moves \/ Settles \/ Splices)
  OBVIOUS
<1>1. RunInv' /\ (Moves \/ Settles \/ Splices)
  BY RunInvStep DEF FailRunInv
<1> QED
  BY <1>1, FailStep, CauseStep DEF FailRunInv

\* A graph that has just been built satisfies them.
LEMMA FailRunInit == Init => FailRunInv
<1> SUFFICES ASSUME Init PROVE FailRunInv
  OBVIOUS
<1>1. RunInv
  BY InitIInv, InitReadiness DEF RunInv
<1>2. /\ status = [n \in Node |-> "none"]
      /\ \A m \in Node : life[m] \in {"absent", "queued", "pending"}
      /\ edge \in SUBSET (Node \X Node)
  BY <1>1 DEF Init, RunInv, IInv, TypeOK
<1>3. FailInv(life, edge, status)
  BY <1>2 DEF FailInv, Settled, FailStop, Overtaken, EntrySkips, Subs
<1>4. Causes(status, edge)
  BY <1>2 DEF Causes
<1> QED
  BY <1>1, <1>3, <1>4 DEF FailRunInv

\* They hold throughout every run.
THEOREM FailureInvariance == Spec => []FailRunInv
<1>1. FailRunInv /\ [Next]_vars => FailRunInv'
  BY FailRunStep
<1> QED
  BY <1>1, FailRunInit, PTL DEF Spec

\* propagate and settleSkip: whatever is downstream of a failed or halted node,
\* through edges added later as well, is settled with it and never released, and
\* every skip names its cause: a halt is never passed on as a failure, nor a failure
\* as a halt.
THEOREM FailureCorrect == Spec => []FailureStops
<1>1. FailRunInv => FailureStops
  <2> SUFFICES ASSUME FailRunInv PROVE FailureStops
    OBVIOUS
  <2>1. /\ edge \in SUBSET (Node \X Node) /\ Closure(edge) \in SUBSET (Node \X Node)
        /\ FailInv(life, edge, status) /\ Causes(status, edge)
    BY ClosureFacts DEF FailRunInv, RunInv, IInv, TypeOK
  <2>2. ASSUME NEW u \in Upstream, status[u[1]] \in {"failed", "halted"}
        PROVE  life[u[2]] = "done" /\ ~Released(u[2])
    <3>1. u[1] \in Node /\ u[2] \in Node /\ <<u[1], u[2]>> \in Closure(edge)
      BY <2>1 DEF Upstream
    <3>2. u[2] \in Stopped(status, edge)
      BY <3>1, <2>1, <2>2, DownstreamStops
    <3>3. status[u[2]] \in Skips
      BY <3>2, StoppedFacts
    <3> QED
      BY <3>1, <3>3, <2>1 DEF FailInv, Settled, Skips, Released
  <2>3. SkipNamesItsCause
    <3>1. ASSUME NEW n \in Node, status[n] = "skipHalt"
          PROVE  \E u \in Upstream : u[2] = n /\ status[u[1]] \in {"halted"}
      <4>1. PICK u \in Node : <<u, n>> \in Closure(edge) /\ status[u] = "halted"
        BY <3>1, <2>1 DEF Causes
      <4>2. <<u, n>> \in Upstream /\ <<u, n>>[1] = u /\ <<u, n>>[2] = n
        BY <4>1 DEF Upstream
      <4> QED
        BY <4>1, <4>2
    <3>2. ASSUME NEW n \in Node, status[n] = "skipDep"
          PROVE  \E u \in Upstream : u[2] = n /\ status[u[1]] \in {"failed", "skipCond"}
      <4>1. PICK u \in Node : <<u, n>> \in Closure(edge) /\ status[u] \in {"failed", "skipCond"}
        BY <3>2, <2>1 DEF Causes
      <4>2. <<u, n>> \in Upstream /\ <<u, n>>[1] = u /\ <<u, n>>[2] = n
        BY <4>1 DEF Upstream
      <4> QED
        BY <4>1, <4>2
    <3> QED
      BY <3>1, <3>2 DEF SkipNamesItsCause
  <2> QED
    BY <2>2, <2>3 DEF FailureStops
<1> QED
  BY <1>1, FailureInvariance, PTL

-----------------------------------------------------------------------------
(* The ways through a level and everything inlined in it.                  *)

\* Every level has a source.
LEMMA LevelStarts ==
  ASSUME NEW l \in Levels
  PROVE  LevelSources(l) # {}
<1>1. NodesOf(l) \in SUBSET Node /\ NodesOf(l) # {}
  BY ShapeAssumption DEF NodesOf
<1>2. PICK n \in NodesOf(l) : \A p \in NodesOf(l) : <<p, n>> \notin Decl \cup Cond
  BY <1>1, AcyclicAssumption
<1>3. ASSUME NEW e \in LevelEdges(l), e[2] = n PROVE FALSE
  <2>1. e \in Decl \cup Cond /\ LevelOf(e[1]) = l
    BY <1>3 DEF LevelEdges
  <2>2. e = <<e[1], n>> /\ e[1] \in NodesOf(l)
    BY <2>1, <1>3, SameLevel DEF NodesOf
  <2> QED
    BY <2>1, <2>2, <1>2
<1> QED
  BY <1>2, <1>3 DEF LevelSources

\* A node under a level has an edge to another one under it, or is one of its deep
\* sinks.
LEMMA DeepSinkOrOn ==
  ASSUME NEW r \in Roots, NEW l \in Subs \cup {r}, NEW k \in Below(l), k \in Below(r)
  PROVE  k \in DeepSinks(l) \/ \E z \in Below(l) : <<k, z>> \in AddLevel(r)
<1>1. /\ k \in Node /\ Below(l) \subseteq Node /\ Path[k][1] = r
      /\ l \in Levels
      /\ \A s \in Subs : s \in Node /\ Members(s) = Below(s) /\ s \in Levels /\ Below(s) \subseteq Node
  BY RootBelow DEF Below, Subs, Members, Levels, Roots
\* whatever stands with a node under the level is under it
<1>2. ASSUME NEW x \in Below(l), NEW z \in Node, x \in Subs /\ z \in Members(x)
      PROVE  z \in Below(l)
  <2>1. CASE l = r
    BY <2>1, <1>1, <1>2, RootBelow, MembersRoot
  <2>2. CASE l \in Subs
    <3>1. x \in Members(l)
      BY <2>2, <1>1
    <3>2. z \in Members(l)
      BY <2>2, <3>1, <1>2, MembersTrans
    <3> QED
      BY <3>2, <2>2, <1>1
  <2> QED
    BY <2>1, <2>2
<1>3. ASSUME NEW e \in Decl \cup Cond, e[1] \in Below(l)
      PROVE  e[2] \in Below(l)
  <2>1. CASE l = r
    BY <2>1, <1>1, <1>3, RootBelow, SameLevel
  <2>2. CASE l \in Subs
    BY <2>2, <1>1, <1>3, SameLevel
  <2> QED
    BY <2>1, <2>2
\* an edge within the level's root
<1>4. ASSUME NEW x \in Node, x = k \/ (x \in Subs /\ k \in Members(x))
      PROVE  x \in Below(r)
  BY <1>4, <1>1, RootBelow, MembersRoot
<1>5. CASE k \in Subs
  <2>1. PICK z \in LevelSources(k) : TRUE
    BY <1>5, <1>1, LevelStarts
  <2>2. z \in Members(k) /\ z \in Node
    <3>1. z \in Node /\ LevelOf(z) = k
      BY <2>1 DEF LevelSources, NodesOf
    <3>2. z \in Below(k)
      BY <3>1, PathFacts DEF Below, LevelOf
    <3> QED
      BY <3>1, <3>2, <1>1, <1>5
  <2>3. z \in Below(r)
    BY <2>2, <1>1, <1>5, RootBelow, MembersRoot
  <2>4. <<k, z>> \in AddLevel(r)
    BY <2>1, <2>3, <1>5, AddLevelWires
  <2> QED
    BY <2>2, <2>4, <1>2, <1>5
<1>6. CASE k \notin Subs /\ k \notin DeepSinks(l)
  <2> DEFINE C == {x \in Below(l) : (x = k \/ k \in Members(x)) /\ x \notin LevelSinks(LevelOf(x))}
  <2>1. C # {} /\ C \subseteq Node
    BY <1>6, <1>1 DEF DeepSinks
  <2>2. CASE k \in C
    <3>1. PICK e \in LevelEdges(LevelOf(k)) : e[1] = k
      BY <2>2, <1>1 DEF LevelSinks, NodesOf
    <3>2. e \in Decl \cup Cond /\ e = <<k, e[2]>>
      BY <3>1, SameLevel DEF LevelEdges
    <3>3. e \in AddLevel(r)
      BY <3>1, <3>2 DEF AddLevel
    <3> QED
      BY <3>1, <3>2, <3>3, <1>3
  <2>3. CASE k \notin C
    <3> DEFINE M == {Members(x) : x \in C}
    <3>1. \A x \in C : x \in Subs /\ k \in Members(x) /\ x \in Below(l) /\ x \in Node
      <4>1. ASSUME NEW x \in C PROVE x \in Subs /\ k \in Members(x) /\ x \in Below(l) /\ x \in Node
        <5>1. k \in Members(x)
          BY <2>3
        <5> QED
          BY <5>1, <2>1 DEF Members
      <4> QED
        BY <4>1
    <3>2. M \in SUBSET SUBSET Node /\ M # {}
      <4>1. \A x \in C : Members(x) \subseteq Node
        BY DEF Members, Below
      <4> HIDE DEF C
      <4> QED
        BY <4>1, <2>1
    <3>3. PICK A \in M : \A B \in M : B \subseteq A => B = A
      <4> HIDE DEF M
      <4> QED
        BY <3>2, SmallestSet, NodeAssumption
    <3>4. PICK x \in C : A = Members(x)
      BY <3>3
    <3>5. x \in Subs /\ k \in Members(x) /\ x \in Below(l) /\ x \in Node /\ x \in Below(r)
      BY <3>1, <1>4
    <3>6. PICK e \in LevelEdges(LevelOf(x)) : e[1] = x
      BY <3>5 DEF LevelSinks, NodesOf
    <3>7. e \in Decl /\ e = <<x, e[2]>> /\ e[2] \in Node
      <4>1. e \in Decl \cup Cond
        BY <3>6 DEF LevelEdges
      <4> QED
        BY <4>1, <3>5, <3>6, SameLevel, ShapeAssumption
    <3>8. k \in DeepSinks(x)
      <4>1. k \in Below(x) \ Subs
        BY <3>5, <1>1, <1>6
      <4>2. ASSUME NEW q \in Below(x), q = k \/ k \in Members(q)
            PROVE  q \in LevelSinks(LevelOf(q))
        <5>1. q \in Members(x) /\ q \in Node
          BY <3>5, <1>1
        <5>2. q \in Below(l)
          BY <5>1, <3>5, <1>2
        <5>3. CASE q \in C
          <6>1. q \in Subs /\ Members(q) \in M
            BY <5>3, <3>1
          <6>2. Members(q) \subseteq Members(x)
            BY <6>1, <5>1, <3>5, MembersTrans
          <6>3. Members(q) = Members(x)
            BY <6>1, <6>2, <3>3, <3>4
          <6> QED
            BY <6>1, <6>3, <5>1, NotOwnMember
        <5> QED
          BY <5>2, <5>3, <4>2
      <4> QED
        BY <4>1, <4>2 DEF DeepSinks
    <3>9. e[2] \in Below(l) /\ e[2] \in Below(r)
      <4>1. e[2] \in Below(l)
        BY <3>5, <3>7, <1>3
      <4>2. Path[e[2]][1] = Path[x][1]
        BY <3>7, SameLevel
      <4> QED
        BY <4>1, <4>2, <3>5, <3>7, RootBelow
    <3>10. <<k, e[2]>> \in AddLevel(r)
      <4>1. k \in Below(r) /\ x \in Subs \cap Below(r) /\ <<x, e[2]>> \in Decl
        BY <3>5, <3>7
      <4> QED
        BY <4>1, <3>8, <3>9 DEF AddLevel
    <3> QED
      BY <3>9, <3>10
  <2> QED
    BY <2>2, <2>3
<1> QED
  BY <1>5, <1>6

\* addLevel's edges lead from every node under a level to where they lead from its
\* deep sinks.
LEMMA LeadsOn ==
  ASSUME NEW r \in Roots, NEW l \in Subs \cup {r}, Below(l) \subseteq Below(r),
         NEW Y \in SUBSET Node,
         \A k \in DeepSinks(l) : k \in Y \/ \E y \in Y : <<k, y>> \in AddLevel(r),
         NEW k \in Below(l)
  PROVE  k \in Y \/ \E y \in Y : <<k, y>> \in Closure(AddLevel(r))
<1> DEFINE c == Closure(AddLevel(r))
           T == {n \in Below(l) : n \notin Y /\ \A y \in Y : <<n, y>> \notin c}
<1>1. AddLevel(r) \in SUBSET (Node \X Node) /\ Below(r) \in SUBSET Node /\ IsFiniteSet(Below(r))
  <2>1. Below(r) \subseteq Node
    BY DEF Below
  <2>2. \A e \in AddLevel(r) : e \in Node \X Node
    BY <2>1, AddLevelInto
  <2> QED
    BY <2>1, <2>2, NodeSets
<1>2. /\ AddLevel(r) \subseteq c
      /\ \A a, b, d \in Node : <<a, b>> \in c /\ <<b, d>> \in c => <<a, d>> \in c
  BY <1>1, ClosureFacts
<1> HIDE DEF c
<1>3. CASE T # {}
  <2>1. T \in SUBSET Below(r)
    OBVIOUS
  <2>2. PICK n \in T : \A p \in T : <<n, p>> \notin AddLevel(r)
    <3> HIDE DEF T
    <3>1. \A S \in SUBSET Below(r) : S # {} => \E m \in S : \A p \in S : <<p, m>> \notin AddLevel(r)
      BY AddLevelAcyclic
    <3> QED
      BY <1>1, <1>3, <2>1, <3>1, LastElement
  <2>3. n \in Below(l) /\ n \in Below(r) /\ n \in Node
    BY <1>1, <2>2
  <2>4. n \notin DeepSinks(l)
    <3>1. CASE n \in DeepSinks(l)
      <4>1. PICK y \in Y : <<n, y>> \in AddLevel(r)
        BY <2>2, <3>1
      <4> QED
        BY <4>1, <1>2, <2>2
    <3> QED
      BY <3>1
  <2>5. PICK z \in Below(l) : <<n, z>> \in AddLevel(r)
    BY <2>3, <2>4, DeepSinkOrOn
  <2>6. z \notin T /\ z \in Node /\ <<n, z>> \in c
    BY <2>2, <2>5, <1>1, <1>2
  <2>7. CASE z \in Y
    BY <2>2, <2>6, <2>7
  <2>8. CASE z \notin Y
    <3>1. PICK y \in Y : <<z, y>> \in c
      BY <2>5, <2>6, <2>8
    <3>2. <<n, y>> \in c
      BY <3>1, <2>3, <2>6, <1>2
    <3> QED
      BY <3>1, <3>2, <2>2
  <2> QED
    BY <2>7, <2>8
<1> QED
  BY <1>3 DEF c

\* They lead from every node under a root to a deep sink of the root.
LEMMA SinksReached ==
  ASSUME NEW r \in Roots, NEW k \in Below(r)
  PROVE  k \in DeepSinks(r) \/ \E d \in DeepSinks(r) : <<k, d>> \in Closure(AddLevel(r))
<1>1. DeepSinks(r) \in SUBSET Node
  BY DEF DeepSinks, Below
<1> QED
  BY <1>1, LeadsOn

\* They lead from every member of an entry to whatever is declared after the entry.
LEMMA MemberPasses ==
  ASSUME NEW r \in Roots, NEW x \in Subs, x \in Below(r), NEW k \in Members(x),
         NEW y, <<x, y>> \in Decl
  PROVE  <<k, y>> \in Closure(AddLevel(r))
<1>1. /\ y \in Node /\ Path[y][1] = Path[x][1] /\ x \in Node /\ Path[x][1] = r
      /\ y \notin Members(x)
  <2>1. <<x, y>> \in Decl \cup Cond
    OBVIOUS
  <2>2. y \in Node /\ Path[y][1] = Path[x][1] /\ (x \in Members(x) <=> y \in Members(x))
    BY <2>1, SameLevel
  <2> QED
    BY <2>2, RootBelow, NotOwnMember DEF Subs
<1>2. y \in Below(r) /\ Below(x) \subseteq Below(r) /\ Members(x) = Below(x)
  <2>1. \A m \in Members(x) : m \in Node /\ Path[m][1] = r
    BY <1>1, MembersRoot DEF Members, Below
  <2> QED
    BY <1>1, <2>1, RootBelow DEF Members
<1>3. ASSUME NEW d \in DeepSinks(x) PROVE <<d, y>> \in AddLevel(r)
  <2>1. d \in Below(r)
    BY <1>2 DEF DeepSinks
  <2> QED
    BY <2>1, <1>2 DEF AddLevel
<1>4. k \in {y} \/ \E z \in {y} : <<k, z>> \in Closure(AddLevel(r))
  <2>1. {y} \in SUBSET Node
    BY <1>1
  <2> QED
    BY <2>1, <1>2, <1>3, LeadsOn
<1>5. k # y
  BY <1>1
<1> QED
  BY <1>4, <1>5

-----------------------------------------------------------------------------
(* The order of a level and of everything inlined in it.                   *)

\* addLevel's edges lead from an entry to each of its members.
LEMMA EntryReaches ==
  ASSUME NEW r \in Roots, NEW s \in Subs, s \in Below(r), NEW m \in Members(s)
  PROVE  <<s, m>> \in Closure(AddLevel(r))
<1> DEFINE c == Closure(AddLevel(r))
           T == {k \in Members(s) : <<s, k>> \notin c}
<1>1. /\ AddLevel(r) \in SUBSET (Node \X Node) /\ s \in Node /\ Path[s][1] = r
      /\ \A k \in Members(s) : k \in Node /\ k \in Below(r)
  <2>1. \A e \in AddLevel(r) : e \in Node \X Node
    BY AddLevelInto DEF Below
  <2>2. s \in Node /\ Path[s][1] = r
    BY RootBelow
  <2>3. \A k \in Members(s) : k \in Node /\ Path[k][1] = r
    BY <2>2, MembersRoot DEF Members, Below
  <2> QED
    BY <2>1, <2>2, <2>3, RootBelow
<1>2. /\ AddLevel(r) \subseteq c
      /\ \A a, b, d \in Node : <<a, b>> \in c /\ <<b, d>> \in c => <<a, d>> \in c
  BY <1>1, ClosureFacts
<1> HIDE DEF c
<1>3. CASE T # {}
  <2>1. T \in SUBSET Below(r)
    BY <1>1
  <2>2. PICK k \in T : \A p \in T : <<p, k>> \notin AddLevel(r)
    <3> HIDE DEF T
    <3> QED
      BY <1>3, <2>1, AddLevelAcyclic
  <2>3. k \in Members(s) /\ k \in Node /\ k \in Below(r) /\ <<s, k>> \notin c
    BY <2>2, <1>1
  <2>4. \A p \in Members(s) : <<p, k>> \notin AddLevel(r)
    BY <2>2, <2>3, <1>1, <1>2
  <2>5. CASE k \in LevelSources(LevelOf(k))
    <3>1. LevelOf(k) \in Subs /\ (s = LevelOf(k) \/ LevelOf(k) \in Members(s))
      BY <2>3, LevelFacts
    <3>2. <<LevelOf(k), k>> \in AddLevel(r)
      BY <3>1, <2>3, <2>5, AddLevelWires
    <3> QED
      BY <3>1, <3>2, <2>3, <2>4, <1>2
  <2>6. CASE k \notin LevelSources(LevelOf(k))
    <3>1. PICK e \in Decl \cup Cond : e[2] = k
      BY <2>3, <2>6, NotASource
    <3>2. e = <<e[1], k>> /\ e[1] \in Members(s)
      BY <3>1, <2>3, SameLevel
    <3>3. e \in AddLevel(r)
      BY <3>1, <2>3, AddLevelWires
    <3> QED
      BY <3>2, <3>3, <2>4
  <2> QED
    BY <2>5, <2>6
<1> QED
  BY <1>3 DEF c

\* What is declared before what, within the levels.
DeclaredBefore == Closure(Decl \cup Cond)

\* A node and what is inlined in it.
With(x) == {x} \cup Members(x)

\* What is declared in an order stands at one level, inside the same entries.
LEMMA DeclaredFacts ==
  /\ DeclaredBefore \in SUBSET (Node \X Node) /\ Decl \cup Cond \subseteq DeclaredBefore
  /\ \A x, y, z \in Node :
       <<x, y>> \in DeclaredBefore /\ <<y, z>> \in DeclaredBefore => <<x, z>> \in DeclaredBefore
  /\ \A x, y \in Node : <<x, y>> \in DeclaredBefore =>
       \A s \in Subs : x \in Members(s) <=> y \in Members(s)
<1> DEFINE t == {p \in Node \X Node : \A s \in Subs : p[1] \in Members(s) <=> p[2] \in Members(s)}
<1>1. Decl \cup Cond \in SUBSET (Node \X Node) /\ Decl \cup Cond \subseteq t
  <2>1. \A e \in Decl \cup Cond : e \in Node \X Node /\ e \in t
    BY SameLevel
  <2> QED
    BY <2>1
<1>2. \A a, b, c \in Node : <<a, b>> \in t /\ <<b, c>> \in t => <<a, c>> \in t
  OBVIOUS
<1>3. DeclaredBefore \subseteq t
  <2>1. t \in SUBSET (Node \X Node)
    OBVIOUS
  <2> HIDE DEF t
  <2> QED
    BY <1>1, <1>2, <2>1, ClosureFacts DEF DeclaredBefore
<1>4. \A x, y \in Node : <<x, y>> \in DeclaredBefore =>
        \A s \in Subs : x \in Members(s) <=> y \in Members(s)
  BY <1>3
<1> QED
  BY <1>1, <1>4, ClosureFacts DEF DeclaredBefore

\* The flattened order holds nothing else: a is around b, or both are around or at
\* nodes of one level that are declared in that order.
LEMMA OrderMeans ==
  ASSUME NEW r \in Roots, NEW a \in Node, NEW b \in Node, <<a, b>> \in Closure(AddLevel(r))
  PROVE  \/ b \in Members(a)
         \/ \E x, y \in Node : <<x, y>> \in DeclaredBefore /\ a \in With(x) /\ b \in With(y)
<1> DEFINE ok(p, q) == \/ q \in Members(p)
                       \/ \E x, y \in Node : <<x, y>> \in DeclaredBefore /\ p \in With(x) /\ q \in With(y)
           t == {e \in Node \X Node : ok(e[1], e[2])}
<1>1. AddLevel(r) \subseteq t /\ AddLevel(r) \in SUBSET (Node \X Node)
  <2>1. ASSUME NEW e \in AddLevel(r) PROVE e \in Node \X Node /\ ok(e[1], e[2])
    <3>1. e = <<e[1], e[2]>> /\ e[1] \in Node /\ e[2] \in Node
      BY AddLevelInto DEF Below
    <3>2. CASE e \in Decl \cup Cond
      BY <3>1, <3>2, DeclaredFacts DEF With
    <3>3. CASE e[1] \in Subs /\ e[2] \in LevelSources(e[1])
      <4>1. LevelOf(e[2]) = e[1]
        BY <3>3 DEF LevelSources, NodesOf
      <4>2. e[2] \in Members(e[1])
        BY <3>1, <3>3, <4>1, PathFacts DEF Members, Below, LevelOf
      <4> QED
        BY <3>1, <4>2
    <3>4. CASE \E s \in Subs : <<s, e[2]>> \in Decl /\ e[1] \in DeepSinks(s)
      <4>1. PICK s \in Subs : <<s, e[2]>> \in Decl /\ e[1] \in DeepSinks(s)
        BY <3>4
      <4>2. e[1] \in Members(s) /\ s \in Node
        BY <4>1 DEF DeepSinks, Members, Subs
      <4>3. <<s, e[2]>> \in DeclaredBefore
        BY <4>1, DeclaredFacts
      <4> QED
        BY <3>1, <4>2, <4>3 DEF With
    <3> QED
      BY <3>2, <3>3, <3>4 DEF AddLevel
  <2> HIDE DEF ok
  <2> QED
    BY <2>1
<1>2. ASSUME NEW p \in Node, NEW q \in Node, NEW z \in Node, ok(p, q), ok(q, z) PROVE ok(p, z)
  <2>0. \A n, x \in Node : n \in Members(x) => x \in Subs
    BY DEF Members
  <2>1. CASE q \in Members(p) /\ z \in Members(q)
    BY <2>0, <2>1, MembersTrans
  <2>2. CASE q \in Members(p) /\ z \notin Members(q)
    <3>1. PICK x \in Node, y \in Node : <<x, y>> \in DeclaredBefore /\ q \in With(x) /\ z \in With(y)
      BY <1>2, <2>2
    <3>2. x = p \/ x \in Members(p) \/ p \in Members(x)
      BY <3>1, <2>0, <2>2, MembersChain DEF With
    <3>3. CASE x \in Members(p)
      <4>1. y \in Members(p)
        BY <3>1, <3>3, <2>0, DeclaredFacts
      <4>2. z \in Members(p)
        BY <4>1, <3>1, <2>0, MembersTrans DEF With
      <4> QED
        BY <4>2
    <3>4. CASE x \notin Members(p)
      BY <3>1, <3>2, <3>4 DEF With
    <3> QED
      BY <3>3, <3>4
  <2>3. CASE q \notin Members(p) /\ z \in Members(q)
    <3>1. PICK x \in Node, y \in Node : <<x, y>> \in DeclaredBefore /\ p \in With(x) /\ q \in With(y)
      BY <1>2, <2>3
    <3>2. z \in With(y)
      BY <3>1, <2>0, <2>3, MembersTrans DEF With
    <3> QED
      BY <3>1, <3>2
  <2>4. CASE q \notin Members(p) /\ z \notin Members(q)
    <3>1. PICK x \in Node, y \in Node : <<x, y>> \in DeclaredBefore /\ p \in With(x) /\ q \in With(y)
      BY <1>2, <2>4
    <3>2. PICK u \in Node, v \in Node : <<u, v>> \in DeclaredBefore /\ q \in With(u) /\ z \in With(v)
      BY <1>2, <2>4
    <3>3. y = u \/ y \in Members(u) \/ u \in Members(y)
      BY <3>1, <3>2, <2>0, MembersChain DEF With
    <3>4. CASE y = u
      BY <3>1, <3>2, <3>4, DeclaredFacts
    <3>5. CASE y \in Members(u)
      <4>1. x \in Members(u)
        BY <3>1, <3>5, <2>0, DeclaredFacts
      <4>2. p \in With(u)
        BY <4>1, <3>1, <2>0, MembersTrans DEF With
      <4> QED
        BY <4>2, <3>2
    <3>6. CASE u \in Members(y)
      <4>1. v \in Members(y)
        BY <3>2, <3>6, <2>0, DeclaredFacts
      <4>2. z \in With(y)
        BY <4>1, <3>2, <2>0, MembersTrans DEF With
      <4> QED
        BY <4>2, <3>1
    <3> QED
      BY <3>3, <3>4, <3>5, <3>6
  <2> QED
    BY <2>1, <2>2, <2>3, <2>4
<1> HIDE DEF ok
<1>3. Closure(AddLevel(r)) \subseteq t
  <2>1. t \in SUBSET (Node \X Node)
    OBVIOUS
  <2>2. \A p, q, z \in Node : <<p, q>> \in t /\ <<q, z>> \in t => <<p, z>> \in t
    BY <1>2
  <2> HIDE DEF t
  <2> QED
    BY <1>1, <2>1, <2>2, ClosureFacts
<1>4. ok(a, b)
  BY <1>3
<1> QED
  BY <1>4 DEF ok

\* addLevel orders what the IR declares and only that, at every depth: an entry is
\* before all its members, these are before whatever is declared after the entry,
\* and whoever else is before somebody is so by a declaration at one level.
THEOREM LevelOrder ==
  \A r \in Roots :
    /\ \A s \in Subs \cap Below(r) : \A m \in Members(s) :
         /\ <<s, m>> \in Closure(AddLevel(r))
         /\ \A e \in Decl : e[1] = s => <<m, e[2]>> \in Closure(AddLevel(r))
    /\ \A o \in Closure(AddLevel(r)) :
         \/ o[2] \in Members(o[1])
         \/ \E x, y \in Node :
              <<x, y>> \in DeclaredBefore /\ o[1] \in With(x) /\ o[2] \in With(y)
<1> SUFFICES ASSUME NEW r \in Roots
             PROVE  /\ \A s \in Subs \cap Below(r) : \A m \in Members(s) :
                         /\ <<s, m>> \in Closure(AddLevel(r))
                         /\ \A e \in Decl : e[1] = s => <<m, e[2]>> \in Closure(AddLevel(r))
                    /\ \A o \in Closure(AddLevel(r)) :
                         \/ o[2] \in Members(o[1])
                         \/ \E x, y \in Node :
                              <<x, y>> \in DeclaredBefore /\ o[1] \in With(x) /\ o[2] \in With(y)
  OBVIOUS
<1>1. ASSUME NEW s \in Subs \cap Below(r), NEW m \in Members(s)
      PROVE  /\ <<s, m>> \in Closure(AddLevel(r))
             /\ \A e \in Decl : e[1] = s => <<m, e[2]>> \in Closure(AddLevel(r))
  <2>1. ASSUME NEW e \in Decl, e[1] = s PROVE <<m, e[2]>> \in Closure(AddLevel(r))
    <3>1. e = <<s, e[2]>>
      BY <2>1, SameLevel
    <3> QED
      BY <3>1, MemberPasses
  <2> QED
    BY <2>1, EntryReaches
<1>2. ASSUME NEW o \in Closure(AddLevel(r))
      PROVE  \/ o[2] \in Members(o[1])
             \/ \E x, y \in Node :
                  <<x, y>> \in DeclaredBefore /\ o[1] \in With(x) /\ o[2] \in With(y)
  <2>1. AddLevel(r) \in SUBSET (Node \X Node)
    <3>1. \A e \in AddLevel(r) : e \in Node \X Node
      BY AddLevelInto DEF Below
    <3> QED
      BY <3>1
  <2>2. o[1] \in Node /\ o[2] \in Node /\ <<o[1], o[2]>> \in Closure(AddLevel(r))
    BY <2>1, ClosureFacts
  <2> QED
    BY <2>2, OrderMeans
<1> QED
  BY <1>1, <1>2

-----------------------------------------------------------------------------
(* The order of a run, whatever was spliced in.                            *)

\* What generates Inside, as a relation of its own.
HoldsDirectly ==
  {p \in Node \X Node : \/ p[2] \in Members(p[1])
                        \/ p[2] \in SpliceNodes({i \in Inst : InstGen[i] = p[1]})}

\* A node is directly inside the entry it is a member of, and the generate node
\* whose instance it belongs to.
LEMMA HoldsFacts ==
  /\ HoldsDirectly \in SUBSET (Node \X Node) /\ Inside = Closure(HoldsDirectly)
  /\ \A c, m \in Node : <<c, m>> \in HoldsDirectly <=>
       m \in Members(c) \/ (Path[m][1] \in Inst /\ c = InstGen[Path[m][1]])
<1>1. ASSUME NEW c \in Node, NEW m \in Node
      PROVE  m \in SpliceNodes({i \in Inst : InstGen[i] = c})
               <=> Path[m][1] \in Inst /\ c = InstGen[Path[m][1]]
  <2>1. \A i \in Inst : m \in Below(i) <=> Path[m][1] = i
    BY RootBelow DEF Roots
  <2> QED
    BY <2>1 DEF SpliceNodes
<1>2. \A c, m \in Node : <<c, m>> \in HoldsDirectly <=>
        \/ m \in Members(c)
        \/ m \in SpliceNodes({i \in Inst : InstGen[i] = c})
  BY DEF HoldsDirectly
<1> QED
  BY <1>1, <1>2 DEF HoldsDirectly, Inside

\* Inside is transitive, and whoever is inside a node is its member, or under an
\* instance of it or of a generate node inside it.
LEMMA InsideFacts ==
  /\ Inside \in SUBSET (Node \X Node)
  /\ \A a, b, c \in Node : <<a, b>> \in Inside /\ <<b, c>> \in Inside => <<a, c>> \in Inside
  /\ \A c, m \in Node : <<c, m>> \in Inside =>
       \/ c \in Subs /\ m \in Members(c)
       \/ /\ Path[m][1] \in Inst
          /\ c = InstGen[Path[m][1]] \/ <<c, InstGen[Path[m][1]]>> \in Inside
<1> DEFINE ok(c, m) == \/ c \in Subs /\ m \in Members(c)
                       \/ /\ Path[m][1] \in Inst
                          /\ c = InstGen[Path[m][1]] \/ <<c, InstGen[Path[m][1]]>> \in Inside
           t == {p \in Inside : ok(p[1], p[2])}
<1>1. /\ Inside \in SUBSET (Node \X Node)
      /\ HoldsDirectly \subseteq Inside
      /\ \A a, b, c \in Node : <<a, b>> \in Inside /\ <<b, c>> \in Inside => <<a, c>> \in Inside
      /\ \A u \in SUBSET (Node \X Node) :
           /\ HoldsDirectly \subseteq u
           /\ \A a, b, c \in Node : <<a, b>> \in u /\ <<b, c>> \in u => <<a, c>> \in u
           => Inside \subseteq u
  BY HoldsFacts, ClosureFacts
<1>2. t \in SUBSET (Node \X Node)
  BY <1>1
<1>3. HoldsDirectly \subseteq t
  <2>1. ASSUME NEW p \in HoldsDirectly PROVE p \in t
    <3>1. p[1] \in Node /\ p[2] \in Node /\ p = <<p[1], p[2]>> /\ p \in Inside
      BY <1>1, HoldsFacts
    <3>2. p[2] \in Members(p[1]) \/ (Path[p[2]][1] \in Inst /\ p[1] = InstGen[Path[p[2]][1]])
      BY <3>1, HoldsFacts
    <3> QED
      BY <3>1, <3>2 DEF Members
  <2> QED
    BY <2>1
<1>4. ASSUME NEW a \in Node, NEW b \in Node, NEW c \in Node, <<a, b>> \in t, <<b, c>> \in t
      PROVE  <<a, c>> \in t
  <2>1. <<a, b>> \in Inside /\ <<b, c>> \in Inside /\ ok(a, b) /\ ok(b, c)
    BY <1>4
  <2>2. <<a, c>> \in Inside
    BY <2>1, <1>1
  <2>3. ok(a, c)
    <3>1. CASE b \in Subs /\ c \in Members(b)
      <4>1. Path[c][1] = Path[b][1]
        BY <3>1, MembersRoot
      <4>2. a \in Subs /\ b \in Members(a) => c \in Members(a)
        BY <3>1, MembersTrans
      <4> QED
        BY <2>1, <4>1, <4>2
    <3>2. CASE Path[c][1] \in Inst /\ b = InstGen[Path[c][1]]
      BY <2>1, <3>2
    <3>3. CASE Path[c][1] \in Inst /\ <<b, InstGen[Path[c][1]]>> \in Inside
      <4>1. InstGen[Path[c][1]] \in Node
        BY <3>3, <1>1
      <4>2. <<a, InstGen[Path[c][1]]>> \in Inside
        BY <2>1, <3>3, <4>1, <1>1
      <4> QED
        BY <3>3, <4>2
    <3> QED
      BY <2>1, <3>1, <3>2, <3>3
  <2> QED
    BY <2>2, <2>3
<1> HIDE DEF ok
<1>5. Inside \subseteq t
  <2> HIDE DEF t
  <2> QED
    BY <1>1, <1>2, <1>3, <1>4
<1>6. \A c, m \in Node : <<c, m>> \in Inside => ok(c, m)
  BY <1>5
<1> QED
  BY <1>1, <1>6 DEF ok

\* In a graph whose instances are fresh, nothing is there before what it is inside.
LEMMA InsidePresent ==
  ASSUME NEW lf, Together(lf), Fresh(lf), lf \in [Node -> Lives],
         NEW c \in Node, NEW m \in Node, <<c, m>> \in Inside, lf[m] # "absent"
  PROVE  lf[c] # "absent"
<1> DEFINE t == {p \in Node \X Node : lf[p[2]] # "absent" => lf[p[1]] # "absent"}
<1>1. HoldsDirectly \subseteq t
  <2>1. ASSUME NEW p \in HoldsDirectly PROVE p \in t
    <3>1. p[1] \in Node /\ p[2] \in Node /\ p = <<p[1], p[2]>>
      BY HoldsFacts
    <3>2. p[2] \in Members(p[1]) \/ (Path[p[2]][1] \in Inst /\ p[1] = InstGen[Path[p[2]][1]])
      BY <3>1, HoldsFacts
    <3>3. CASE p[2] \in Members(p[1])
      <4>1. p[1] \in Subs
        BY <3>3 DEF Members
      <4>2. Path[p[2]][1] = Path[p[1]][1]
        BY <3>3, <4>1, MembersRoot
      <4> QED
        BY <3>1, <4>2 DEF Together
    <3>4. CASE Path[p[2]][1] \in Inst /\ p[1] = InstGen[Path[p[2]][1]]
      BY <3>1, <3>4 DEF Fresh
    <3> QED
      BY <3>2, <3>3, <3>4
  <2> QED
    BY <2>1
<1>2. \A a, b, d \in Node : <<a, b>> \in t /\ <<b, d>> \in t => <<a, d>> \in t
  OBVIOUS
<1>3. Inside \subseteq t
  <2>1. t \in SUBSET (Node \X Node)
    OBVIOUS
  <2> HIDE DEF t
  <2> QED
    BY <1>1, <1>2, <2>1, HoldsFacts, ClosureFacts
<1> QED
  BY <1>3

\* Once a node that belongs to an instance is there, its generate node has settled.
LEMMA ItemPresent ==
  ASSUME NEW lf, Together(lf), Fresh(lf), lf \in [Node -> Lives],
         NEW i \in Inst, NEW m \in InsideInst(i), lf[m] # "absent"
  PROVE  /\ m \in Node
         /\ lf[InstGen[i]] = "done"
         /\ \E c \in Below(i) : (c = m \/ <<c, m>> \in Inside) /\ lf[c] # "absent"
<1>1. PICK c \in Below(i) : c = m \/ <<c, m>> \in Inside
  <2>1. CASE m \in Below(i)
    BY <2>1
  <2>2. CASE m \notin Below(i)
    <3>1. PICK p \in Inside : p[1] \in Below(i) /\ p[2] = m
      BY <2>2 DEF InsideInst
    <3>2. p = <<p[1], m>>
      BY <3>1, InsideFacts
    <3> QED
      BY <3>1, <3>2
  <2> QED
    BY <2>1, <2>2
<1>2. c \in Node /\ m \in Node /\ Path[c][1] = i
  <2>1. c \in Node /\ Path[c][1] = i
    BY RootBelow DEF Below, Roots
  <2> QED
    BY <2>1, <1>1, InsideFacts
<1>3. lf[c] # "absent"
  BY <1>1, <1>2, InsidePresent
<1> QED
  BY <1>1, <1>2, <1>3 DEF Fresh

\* A way through a graph begins with one of its edges.
LEMMA FirstStep ==
  ASSUME NEW ed \in SUBSET (Node \X Node), NEW a \in Node, NEW b \in Node,
         <<a, b>> \in Closure(ed)
  PROVE  \E z \in Node : <<a, z>> \in ed /\ (z = b \/ <<z, b>> \in Closure(ed))
<1> DEFINE c == Closure(ed)
           t == {p \in Node \X Node :
                   \E z \in Node : <<p[1], z>> \in ed /\ (z = p[2] \/ <<z, p[2]>> \in c)}
<1>1. /\ ed \subseteq c
      /\ \A x, y, z \in Node : <<x, y>> \in c /\ <<y, z>> \in c => <<x, z>> \in c
      /\ \A u \in SUBSET (Node \X Node) :
           /\ ed \subseteq u
           /\ \A x, y, z \in Node : <<x, y>> \in u /\ <<y, z>> \in u => <<x, z>> \in u
           => c \subseteq u
  BY ClosureFacts
<1> HIDE DEF c
<1>2. ed \subseteq t
  OBVIOUS
<1>3. t \cap c \in SUBSET (Node \X Node) /\ ed \subseteq t \cap c
  BY <1>1, <1>2
<1>4. ASSUME NEW x \in Node, NEW y \in Node, NEW z \in Node,
             <<x, y>> \in t \cap c, <<y, z>> \in t \cap c
      PROVE  <<x, z>> \in t \cap c
  <2>1. PICK w \in Node : <<x, w>> \in ed /\ (w = y \/ <<w, y>> \in c)
    BY <1>4
  <2>2. <<w, z>> \in c
    BY <1>1, <1>4, <2>1
  <2>3. <<x, z>> \in c
    BY <1>1, <1>4
  <2> QED
    BY <2>1, <2>2, <2>3
<1>5. c \subseteq t \cap c
  <2> HIDE DEF t
  <2> QED
    BY <1>1, <1>3, <1>4
<1> QED
  BY <1>5 DEF c

\* Node y is declared after something that m is inside, or is a source of an item
\* that lists the item m belongs to.
Follows(m, y) ==
  \/ \E x \in Node : <<x, m>> \in Inside /\ <<x, y>> \in Decl \cup Cond
  \/ \E d \in InstDeps : m \in InsideInst(d[1]) /\ y \in LevelSources(d[2])

\* The graph leads from a node to whatever follows it.
Linked(lf, ed) ==
  \A m, y \in Node :
    Follows(m, y) /\ lf[m] # "absent" /\ lf[y] # "absent" => <<m, y>> \in Closure(ed)

\* Instances are there only when their generate node ended ok.
Expanded(lf, stt) ==
  \A m \in Node : lf[m] # "absent" /\ Path[m][1] \in Inst => stt[InstGen[Path[m][1]]] = "ok"

\* A source of an instance is one of its nodes, under its root.
LEMMA SourceUnder ==
  ASSUME NEW r \in Roots, NEW y \in LevelSources(r)
  PROVE  y \in Node /\ y \in Below(r) /\ Path[y][1] = r
<1>1. y \in Node /\ LevelOf(y) = r
  BY DEF LevelSources, NodesOf
<1>2. y \in Below(r)
  BY <1>1, PathFacts DEF Below, LevelOf
<1> QED
  BY <1>1, <1>2, RootBelow

\* applyExpansion keeps it: the new nodes lead to the sinks of their instance, and
\* these to whatever the generate node led to and to the items that list theirs.
LEMMA LinkedSplice ==
  ASSUME GraphInv(life, edge, indeg), Fresh(life), Linked(life, edge),
         NEW n \in Node, life[n] = "running",
         NEW is, is \subseteq {i \in Inst : InstGen[i] = n},
         NEW new, new = SpliceNodes(is),
         NEW ed, ed = edge \cup SpliceEdges(n, is, edge),
         NEW ind, ind = SpliceIndeg(ed),
         NEW lf, lf = SpliceLife(new, ind)
  PROVE  Linked(lf, ed)
<1> DEFINE c == Closure(ed)
<1>1. /\ GraphInv(lf, ed, ind)
      /\ \A m \in Node : \/ m \notin new /\ lf[m] = life[m]
                         \/ m \in new /\ life[m] = "absent" /\ lf[m] \in {"pending", "queued"}
      /\ \A m \in new : Path[m][1] \in Inst /\ InstGen[Path[m][1]] = n
  BY SpliceGraph
<1>2. /\ edge \in SUBSET (Node \X Node) /\ ed \in SUBSET (Node \X Node)
      /\ Wired(life, edge) /\ Together(life) /\ Together(lf)
      /\ life \in [Node -> Lives] /\ lf \in [Node -> Lives]
  BY <1>1 DEF GraphInv
<1>3. /\ ed \subseteq c /\ Closure(edge) \subseteq c /\ edge \subseteq Closure(edge)
      /\ \A a, b, d \in Node : <<a, b>> \in c /\ <<b, d>> \in c => <<a, d>> \in c
  BY <1>2, ClosureFacts, ClosureGrows
<1>4. ASSUME NEW i \in is
      PROVE  /\ i \in Inst /\ i \in Roots /\ InstGen[i] = n
             /\ Below(i) = {m \in Node : Path[m][1] = i}
             /\ Closure(AddLevel(i)) \subseteq c
  <2>1. i \in Inst /\ i \in Roots /\ InstGen[i] = n
    BY DEF Roots
  <2>2. AddLevel(i) \subseteq ed
    BY DEF SpliceEdges
  <2>3. AddLevel(i) \in SUBSET (Node \X Node)
    BY <2>2, <1>2
  <2>4. Closure(AddLevel(i)) \subseteq c
    BY <2>2, <2>3, <1>2, ClosureGrows
  <2> QED
    BY <2>1, <2>4, RootBelow
<1>5. new \subseteq Node /\ \A m \in Node : m \in new <=> Path[m][1] \in is
  BY <1>4 DEF SpliceNodes
<1> HIDE DEF c
\* what the generate node led to, the new nodes lead to
<1>6. ASSUME NEW m \in new, NEW y \in Node, <<n, y>> \in Closure(edge)
      PROVE  <<m, y>> \in c
  <2>1. PICK z \in Node : <<n, z>> \in edge /\ (z = y \/ <<z, y>> \in Closure(edge))
    BY <1>6, <1>2, FirstStep
  <2>2. PICK i \in is : m \in Below(i)
    BY <1>4, <1>5
  <2>3. \A d \in DeepSinks(i) : <<d, z>> \in ed
    BY <2>1 DEF SpliceEdges
  <2>4. m \in DeepSinks(i) \/ \E d \in DeepSinks(i) : <<m, d>> \in Closure(AddLevel(i))
    BY <2>2, <1>4, SinksReached
  <2>5. DeepSinks(i) \subseteq Node
    BY DEF DeepSinks, Below
  <2>6. <<m, z>> \in c
    BY <2>3, <2>4, <2>5, <1>3, <1>4, <1>5
  <2> QED
    BY <2>1, <2>6, <1>3, <1>5
<1>7. ASSUME NEW m \in Node, NEW y \in Node, lf[m] # "absent", lf[y] # "absent",
             NEW x \in Node, <<x, m>> \in Inside, <<x, y>> \in Decl \cup Cond
      PROVE  <<m, y>> \in c
  <2>1. Path[x][1] = Path[y][1] /\ <<x, y>> \in Decl \cup Cond
    BY <1>7, SameLevel
  <2>2. life[x] # "absent" => life[y] # "absent" /\ <<x, y>> \in edge
    BY <2>1, <1>7, <1>2 DEF Together, Wired
  <2>3. CASE life[m] # "absent"
    <3>1. life[x] # "absent"
      BY <2>3, <1>7, <1>2, InsidePresent
    <3>2. Follows(m, y)
      BY <1>7 DEF Follows
    <3> QED
      BY <3>1, <3>2, <2>2, <2>3, <1>3 DEF Linked
  <2>4. CASE life[m] = "absent"
    <3>1. m \in new /\ Path[m][1] \in is /\ InstGen[Path[m][1]] = n
      BY <2>4, <1>7, <1>1, <1>5
    <3>2. CASE x \in Subs /\ m \in Members(x)
      <4>1. Path[x][1] = Path[m][1]
        BY <3>2, MembersRoot
      <4>2. <<x, y>> \in Decl
        BY <3>2, <1>7, ShapeAssumption
      <4>3. <<m, y>> \in Closure(AddLevel(Path[m][1]))
        BY <4>1, <4>2, <3>1, <3>2, <1>4, <1>7, MemberPasses
      <4> QED
        BY <4>3, <3>1, <1>4
    <3>3. CASE x = n
      BY <3>1, <3>3, <2>2, <1>3, <1>6
    <3>4. CASE <<x, n>> \in Inside
      <4>1. life[x] # "absent"
        BY <3>4, <1>2, InsidePresent
      <4>2. Follows(n, y)
        BY <3>4, <1>7 DEF Follows
      <4>3. <<n, y>> \in Closure(edge)
        BY <4>1, <4>2, <2>2 DEF Linked
      <4> QED
        BY <4>3, <3>1, <1>6
    <3> QED
      BY <3>1, <3>2, <3>3, <3>4, <1>7, InsideFacts
  <2> QED
    BY <2>3, <2>4
<1>8. ASSUME NEW m \in Node, NEW y \in Node, lf[m] # "absent", lf[y] # "absent",
             NEW d \in InstDeps, m \in InsideInst(d[1]), y \in LevelSources(d[2])
      PROVE  <<m, y>> \in c
  <2>1. /\ d[1] \in Inst /\ d[2] \in Inst /\ InstGen[d[1]] = InstGen[d[2]] /\ d = <<d[1], d[2]>>
        /\ InstGen[d[1]] \in Node
    BY ShapeAssumption, InstAssumption
  <2>2. Path[y][1] = d[2] /\ y \in Below(d[2])
    BY <2>1, <1>8, SourceUnder DEF Roots
  <2>3. ASSUME NEW k \in InsideInst(d[1]), life[k] # "absent" PROVE life[InstGen[d[1]]] = "done"
    BY <2>1, <2>3, <1>2, ItemPresent
  <2>4. ASSUME NEW k \in Node, k \in InsideInst(d[1]), life[k] # "absent"
        PROVE  <<k, y>> \in Closure(edge)
    <3>1. life[y] # "absent"
      <4>1. InstGen[d[2]] # n
        BY <2>1, <2>3, <2>4
      <4> QED
        BY <4>1, <2>2, <1>1, <1>8
    <3>2. Follows(k, y)
      BY <2>4, <1>8 DEF Follows
    <3> QED
      BY <3>1, <3>2, <2>4 DEF Linked
  <2>5. CASE life[m] # "absent"
    BY <2>4, <2>5, <1>3, <1>8
  <2>6. CASE life[m] = "absent"
    <3>1. m \in new /\ Path[m][1] \in is /\ InstGen[Path[m][1]] = n
      BY <2>6, <1>8, <1>1, <1>5
    <3>2. CASE n \in InsideInst(d[1])
      <4>1. <<n, y>> \in Closure(edge)
        BY <3>2, <2>4
      <4> QED
        BY <4>1, <3>1, <1>6
    <3>3. CASE m \in Below(d[1])
      <4>1. Path[m][1] = d[1]
        BY <3>3, <2>1, RootBelow DEF Roots
      <4>2. d[1] \in is /\ InstGen[d[2]] = n
        BY <4>1, <3>1, <2>1
      <4>3. y \in new /\ d[2] \in is
        <5>1. life[y] = "absent"
          BY <4>2, <2>1, <2>2 DEF Fresh
        <5> QED
          BY <5>1, <2>2, <1>1, <1>5, <1>8
      <4>4. \A k \in DeepSinks(d[1]) : <<k, y>> \in ed
        <5>1. d \in InstDeps \cap (is \X is)
          BY <4>2, <4>3, <2>1
        <5> QED
          BY <5>1, <1>8 DEF SpliceEdges
      <4>5. m \in DeepSinks(d[1]) \/ \E k \in DeepSinks(d[1]) : <<m, k>> \in Closure(AddLevel(d[1]))
        BY <3>3, <4>2, <1>4, SinksReached
      <4>6. DeepSinks(d[1]) \subseteq Node
        BY DEF DeepSinks, Below
      <4> QED
        BY <4>2, <4>4, <4>5, <4>6, <1>3, <1>4
    <3>4. CASE m \notin Below(d[1])
      <4>1. PICK p \in Inside : p[1] \in Below(d[1]) /\ p[2] = m
        BY <3>4, <1>8 DEF InsideInst
      <4>2. p = <<p[1], m>> /\ p[1] \in Node /\ Path[p[1]][1] = d[1]
        BY <4>1, <2>1, InsideFacts, RootBelow DEF Roots
      <4>3. CASE p[1] \in Subs /\ m \in Members(p[1])
        <5>1. Path[m][1] = d[1]
          BY <4>2, <4>3, MembersRoot
        <5> QED
          BY <5>1, <3>4, <2>1, RootBelow DEF Roots
      <4>4. CASE p[1] = n
        BY <4>1, <4>4, <3>2 DEF InsideInst
      <4>5. CASE <<p[1], n>> \in Inside
        <5>1. n \in InsideInst(d[1])
          BY <4>1, <4>5 DEF InsideInst
        <5> QED
          BY <5>1, <3>2
      <4> QED
        BY <4>1, <4>2, <4>3, <4>4, <4>5, <3>1, InsideFacts
    <3> QED
      BY <3>3, <3>4
  <2> QED
    BY <2>5, <2>6
<1> QED
  BY <1>7, <1>8 DEF Linked, Follows, c

\* A node that was released or settled, and is not part of a cascade: everything
\* before it has taken place.
Clear(lf, ed, stt, b) == lf[b] \notin {"absent", "pending"} /\ b \notin Stopped(stt, ed)

\* Everything upstream of such a node has settled, and is such a node.
LEMMA ClearUpstream ==
  ASSUME NEW lf, NEW ed \in SUBSET (Node \X Node), NEW stt, FailInv(lf, ed, stt), Ready(lf, ed),
         lf \in [Node -> Lives],
         NEW p \in Node, NEW b \in Node, <<p, b>> \in Closure(ed), Clear(lf, ed, stt, b)
  PROVE  lf[p] = "done" /\ Clear(lf, ed, stt, p)
<1> DEFINE t == {e \in Node \X Node :
                   Clear(lf, ed, stt, e[2]) => lf[e[1]] = "done" /\ Clear(lf, ed, stt, e[1])}
<1>1. ed \subseteq t
  <2>1. ASSUME NEW e \in ed, Clear(lf, ed, stt, e[2])
        PROVE  lf[e[1]] = "done" /\ Clear(lf, ed, stt, e[1])
    <3>1. e[1] \in Node /\ e[2] \in Node /\ e = <<e[1], e[2]>>
      OBVIOUS
    <3>2. lf[e[1]] = "done"
      <4>1. CASE lf[e[2]] = "done"
        BY <2>1, <4>1 DEF FailInv, Overtaken, Clear
      <4>2. CASE lf[e[2]] # "done"
        <5>1. lf[e[2]] \in Busy
          BY <2>1, <3>1, <4>2 DEF Clear, Busy, Lives
        <5> QED
          BY <5>1, <3>1 DEF Ready, PredsDone
      <4> QED
        BY <4>1, <4>2
    <3>3. e[1] \notin Stopped(stt, ed)
      BY <2>1, <3>1, StoppedFacts DEF Clear
    <3> QED
      BY <3>2, <3>3 DEF Clear
  <2> QED
    BY <2>1
<1>2. \A a, c, d \in Node : <<a, c>> \in t /\ <<c, d>> \in t => <<a, d>> \in t
  OBVIOUS
<1>3. Closure(ed) \subseteq t
  <2>1. t \in SUBSET (Node \X Node)
    OBVIOUS
  <2> HIDE DEF t
  <2> QED
    BY <1>1, <1>2, <2>1, ClosureFacts
<1> QED
  BY <1>3

\* The invariant of what comes after.
AfterInv == FailRunInv /\ Linked(life, edge) /\ Expanded(life, status)

\* Every step keeps it: only splices add nodes and edges.
LEMMA AfterStep ==
  AfterInv /\ [Next]_vars => AfterInv'
<1> SUFFICES ASSUME AfterInv, [Next]_vars PROVE AfterInv'
  OBVIOUS
<1>1. /\ FailRunInv' /\ (Moves \/ Settles \/ Splices)
      /\ RunInv /\ TypeOK /\ GraphInv(life, edge, indeg) /\ Fresh(life)
      /\ Settled(life, status) /\ Linked(life, edge) /\ Expanded(life, status)
      /\ life \in [Node -> Lives] /\ status \in [Node -> Terminal \cup {"none"}]
  BY FailRunStep DEF AfterInv, FailRunInv, RunInv, IInv, FailInv, TypeOK
<1>2. ASSUME edge' = edge, \A m \in Node : life'[m] = "absent" <=> life[m] = "absent"
      PROVE  Linked(life', edge')
  BY <1>1, <1>2 DEF Linked
\* an ok stays
<1>3. ASSUME \A m \in Node : life[m] = "done" => status'[m] = status[m],
             \A m \in Node : life'[m] = "absent" <=> life[m] = "absent"
      PROVE  Expanded(life', status')
  <2>1. \A m \in Node : status[m] = "ok" => life[m] = "done"
    BY <1>1 DEF Settled
  <2>2. \A i \in Inst : InstGen[i] \in Node
    BY InstAssumption
  <2> QED
    BY <2>1, <2>2, <1>1, <1>3 DEF Expanded
<1>4. CASE Moves
  BY <1>2, <1>3, <1>4, <1>1 DEF Moves, AfterInv
<1>5. CASE Settles
  <2>1. PICK n \in Node, st \in Terminal, x \in BOOLEAN :
           life[n] \in {"queued", "running"} /\ Settle(n, st, x)
    BY <1>5 DEF Settles
  <2>2. SettleOn(life, edge, indeg, n, st, x) /\ life[n] \notin {"absent", "pending", "done"}
    BY <2>1 DEF Settle
  <2>3. \A m \in Node : /\ life[m] = "done" => status'[m] = status[m]
                        /\ life'[m] = "absent" <=> life[m] = "absent"
    BY <2>2, <1>1, SettleStep
  <2>4. edge' = edge
    BY <2>2 DEF SettleOn
  <2> QED
    BY <2>3, <2>4, <1>1, <1>2, <1>3 DEF AfterInv
<1>6. ASSUME NEW n \in Node, NEW is \in SUBSET {i \in Inst : InstGen[i] = n},
             LET ed  == edge \cup SpliceEdges(n, is, edge)
                 ind == SpliceIndeg(ed)
                 lf  == SpliceLife(SpliceNodes(is), ind)
             IN  /\ life[n] = "running" /\ lf[n] = "running"
                 /\ GraphInv(lf, ed, ind) /\ Sound(lf, ed)
                 /\ SettleOn(lf, ed, ind, n, "ok", FALSE)
      PROVE  AfterInv'
  <2> DEFINE new == SpliceNodes(is)
             ed  == edge \cup SpliceEdges(n, is, edge)
             ind == SpliceIndeg(ed)
             lf  == SpliceLife(new, ind)
  <2>1. /\ new = SpliceNodes(is) /\ ed = edge \cup SpliceEdges(n, is, edge)
        /\ ind = SpliceIndeg(ed) /\ lf = SpliceLife(new, ind)
        /\ is \subseteq {i \in Inst : InstGen[i] = n}
        /\ life[n] = "running" /\ lf[n] = "running"
        /\ GraphInv(lf, ed, ind)
        /\ SettleOn(lf, ed, ind, n, "ok", FALSE)
    BY <1>6
  <2> HIDE DEF new, ed, ind, lf
  <2>2. /\ \A m \in Node : \/ m \notin new /\ lf[m] = life[m]
                           \/ m \in new /\ life[m] = "absent" /\ lf[m] \in {"pending", "queued"}
        /\ \A m \in new : Path[m][1] \in Inst /\ InstGen[Path[m][1]] = n
    BY <2>1, <1>1, SpliceGraph
  <2>3. Linked(lf, ed)
    BY <2>1, <1>1, LinkedSplice
  <2>4. \A m \in Node : /\ lf[m] = "done" => status'[m] = status[m]
                        /\ life'[m] = "absent" <=> lf[m] = "absent"
    <3>1. "ok" \in Terminal /\ FALSE \in BOOLEAN
      BY DEF Terminal
    <3>2. /\ TypeOK /\ GraphInv(lf, ed, ind) /\ lf[n] \notin {"absent", "pending", "done"}
          /\ SettleOn(lf, ed, ind, n, "ok", FALSE)
      BY <2>1, <1>1
    <3>3. \A m \in Node : /\ lf[m] = "done" => life'[m] = "done" /\ status'[m] = status[m]
                          /\ life'[m] = "absent" <=> lf[m] = "absent"
      BY <3>1, <3>2, SettleStep
    <3> QED
      BY <3>3
  <2>5. edge' = ed /\ status'[n] = "ok"
    BY <2>1 DEF SettleOn
  <2>6. Linked(life', edge')
    BY <2>3, <2>4, <2>5 DEF Linked
  <2>7. Expanded(life', status')
    <3>1. ASSUME NEW m \in Node, life'[m] # "absent", Path[m][1] \in Inst
          PROVE  status'[InstGen[Path[m][1]]] = "ok"
      <4>1. lf[m] # "absent" /\ InstGen[Path[m][1]] \in Node
        BY <2>4, <3>1, InstAssumption
      <4>2. CASE m \in new
        BY <4>2, <2>2, <2>5
      <4>3. CASE m \notin new
        <5>1. status[InstGen[Path[m][1]]] = "ok"
          BY <4>1, <4>3, <3>1, <2>2, <1>1 DEF Expanded
        <5>2. life[InstGen[Path[m][1]]] = "done"
          BY <5>1, <4>1, <1>1 DEF Settled
        <5>3. lf[InstGen[Path[m][1]]] = "done"
          BY <5>2, <4>1, <2>2
        <5> QED
          BY <5>1, <5>3, <4>1, <2>4
      <4> QED
        BY <4>2, <4>3
    <3> QED
      BY <3>1 DEF Expanded
  <2> QED
    BY <2>6, <2>7, <1>1 DEF AfterInv
<1> QED
  BY <1>1, <1>4, <1>5, <1>6, StepKinds

\* The graph of the entry IR leads from a member to what follows its entry.
LEMMA AfterInit == Init => AfterInv
<1> SUFFICES ASSUME Init PROVE AfterInv
  OBVIOUS
<1>1. FailRunInv /\ edge = AddLevel(0) /\ 0 \in Roots
  BY FailRunInit DEF Init, Roots
<1>2. \A m \in Node : life[m] # "absent" => m \in Below(0) /\ Path[m][1] = 0 /\ Path[m][1] \notin Inst
  <2>1. \A m \in Node : life[m] # "absent" => m \in Below(0)
    BY DEF Init, InitNodes
  <2> QED
    BY <2>1, <1>1, RootBelow, InstAssumption
<1>3. Expanded(life, status)
  BY <1>2 DEF Expanded
<1>4. ASSUME NEW m \in Node, NEW y \in Node, life[m] # "absent", life[y] # "absent", Follows(m, y)
      PROVE  <<m, y>> \in Closure(edge)
  <2>1. CASE \E x \in Node : <<x, m>> \in Inside /\ <<x, y>> \in Decl \cup Cond
    <3>1. PICK x \in Node : <<x, m>> \in Inside /\ <<x, y>> \in Decl \cup Cond
      BY <2>1
    <3>2. x \in Subs /\ m \in Members(x) /\ <<x, y>> \in Decl
      BY <3>1, <1>2, <1>4, InsideFacts, ShapeAssumption
    <3>3. x \in Below(0)
      BY <3>2, <1>1, <1>2, <1>4, MembersRoot, RootBelow
    <3> QED
      BY <3>1, <3>2, <3>3, <1>1, MemberPasses
  <2>2. CASE \E d \in InstDeps : m \in InsideInst(d[1]) /\ y \in LevelSources(d[2])
    <3>1. PICK d \in InstDeps : y \in LevelSources(d[2])
      BY <2>2
    <3>2. d[2] \in Inst
      BY ShapeAssumption
    <3>3. Path[y][1] = d[2]
      BY <3>1, <3>2, SourceUnder DEF Roots
    <3> QED
      BY <3>2, <3>3, <1>2, <1>4
  <2> QED
    BY <1>4, <2>1, <2>2 DEF Follows
<1> QED
  BY <1>1, <1>3, <1>4 DEF AfterInv, Linked

\* They hold throughout every run.
THEOREM AfterInvariance == Spec => []AfterInv
<1> QED
  BY AfterStep, AfterInit, PTL DEF Spec

\* What is clear is inside nothing that is not.
LEMMA ClearOutside ==
  ASSUME AfterInv, NEW x \in Node, NEW b \in Node, <<x, b>> \in Inside, Clear(life, edge, status, b)
  PROVE  Clear(life, edge, status, x)
<1> DEFINE F(k) == Clear(life, edge, status, k)
           t == {p \in Node \X Node : F(p[2]) => F(p[1])}
<1>1. /\ GraphInv(life, edge, indeg) /\ Acyclic(edge) /\ Ready(life, edge)
      /\ Together(life) /\ Fresh(life)
      /\ FailInv(life, edge, status) /\ Settled(life, status) /\ Expanded(life, status)
      /\ edge \in SUBSET (Node \X Node) /\ life \in [Node -> Lives]
  BY DEF AfterInv, FailRunInv, RunInv, IInv, Readiness, Sound, FailInv, GraphInv
<1>2. ASSUME NEW p \in HoldsDirectly, F(p[2]) PROVE F(p[1])
  <2>1. p[1] \in Node /\ p[2] \in Node /\ p = <<p[1], p[2]>>
    BY HoldsFacts
  <2>2. p[2] \in Members(p[1]) \/ (Path[p[2]][1] \in Inst /\ p[1] = InstGen[Path[p[2]][1]])
    BY <2>1, HoldsFacts
  <2>3. life[p[2]] # "absent"
    BY <1>2 DEF Clear
  <2>4. CASE p[2] \in Members(p[1])
    <3>1. p[1] \in Subs
      BY <2>4 DEF Members
    <3>2. life[p[1]] # "absent"
      BY <3>1, <2>1, <2>3, <2>4, <1>1, MembersRoot DEF Together
    <3>3. <<p[1], p[2]>> \in Closure(edge)
      BY <3>1, <3>2, <2>4, <1>1, MembersReached
    <3> QED
      BY <3>3, <2>1, <1>1, <1>2, ClearUpstream
  <2>5. CASE Path[p[2]][1] \in Inst /\ p[1] = InstGen[Path[p[2]][1]]
    <3>1. status[p[1]] = "ok"
      BY <2>1, <2>3, <2>5, <1>1 DEF Expanded
    <3>2. life[p[1]] = "done"
      BY <3>1, <2>1, <1>1 DEF Settled
    <3>3. p[1] \notin Stopped(status, edge)
      BY <3>1, StoppedFacts DEF Skips
    <3> QED
      BY <3>2, <3>3 DEF Clear
  <2> QED
    BY <2>2, <2>4, <2>5
<1> HIDE DEF F
<1>3. HoldsDirectly \subseteq t
  BY <1>2, HoldsFacts
<1>4. \A a, c, d \in Node : <<a, c>> \in t /\ <<c, d>> \in t => <<a, d>> \in t
  OBVIOUS
<1>5. Inside \subseteq t
  <2>1. t \in SUBSET (Node \X Node)
    OBVIOUS
  <2> HIDE DEF t
  <2> QED
    BY <1>3, <1>4, <2>1, HoldsFacts, ClosureFacts
<1>6. F(b) => F(x)
  BY <1>5
<1> QED
  BY <1>6 DEF F

\* If anything of an instance is clear, one of the instance's sources is.
LEMMA SourceClear ==
  ASSUME AfterInv, NEW i \in Inst, NEW b \in InsideInst(i), Clear(life, edge, status, b)
  PROVE  \E y \in LevelSources(i) : Clear(life, edge, status, y)
<1> DEFINE F(k) == Clear(life, edge, status, k)
           T == {k \in Below(i) : F(k)}
<1>1. /\ GraphInv(life, edge, indeg) /\ Acyclic(edge) /\ Ready(life, edge)
      /\ Together(life) /\ Fresh(life) /\ Wired(life, edge)
      /\ FailInv(life, edge, status)
      /\ edge \in SUBSET (Node \X Node) /\ life \in [Node -> Lives]
  BY DEF AfterInv, FailRunInv, RunInv, IInv, Readiness, Sound, GraphInv
<1>2. i \in Roots /\ Below(i) = {m \in Node : Path[m][1] = i}
  BY RootBelow DEF Roots
<1>3. ASSUME NEW k \in T, NEW p \in Node, <<p, k>> \in edge PROVE F(p)
  <2>1. <<p, k>> \in Closure(edge) /\ k \in Node
    BY <1>1, <1>2, <1>3, ClosureFacts
  <2> QED
    BY <2>1, <1>1, ClearUpstream
<1>4. \A k \in T : life[k] # "absent"
  BY DEF Clear
<1>5. T # {} /\ T \in SUBSET Node
  <2>1. T \in SUBSET Node
    BY <1>2
  <2>2. CASE b \in Below(i)
    BY <2>1, <2>2
  <2>3. CASE b \notin Below(i)
    <3>1. PICK p \in Inside : p[1] \in Below(i) /\ p[2] = b
      BY <2>3 DEF InsideInst
    <3>2. p = <<p[1], b>> /\ p[1] \in Node /\ b \in Node
      BY <3>1, InsideFacts
    <3>3. F(p[1])
      BY <3>1, <3>2, ClearOutside
    <3> QED
      BY <2>1, <3>1, <3>3
  <2> QED
    BY <2>2, <2>3
<1> HIDE DEF F
<1>6. PICK k \in T : \A p \in T : <<p, k>> \notin edge
  <2> HIDE DEF T
  <2> QED
    BY <1>1, <1>5 DEF Acyclic
<1>7. k \in Node /\ k \in Below(i) /\ F(k) /\ life[k] # "absent" /\ Path[k][1] = i
  BY <1>2, <1>4, <1>6
<1>8. \A p \in Node : <<p, k>> \in edge => Path[p][1] # i
  BY <1>2, <1>3, <1>6
<1>9. k \in LevelSources(LevelOf(k))
  <2>1. CASE k \notin LevelSources(LevelOf(k))
    <3>1. PICK e \in Decl \cup Cond : e[2] = k
      BY <1>7, <2>1, NotASource
    <3>2. e = <<e[1], k>> /\ e[1] \in Node /\ Path[e[1]][1] = i
      BY <3>1, <1>7, SameLevel
    <3>3. e \in edge
      BY <3>1, <1>1, <1>7 DEF Wired
    <3> QED
      BY <3>2, <3>3, <1>8
  <2> QED
    BY <2>1
<1>10. LevelOf(k) \in Roots
  <2>1. CASE LevelOf(k) \in Subs /\ k \in Members(LevelOf(k))
    <3>1. <<LevelOf(k), k>> \in edge
      BY <2>1, <1>1, <1>7, <1>9 DEF Wired
    <3>2. Path[LevelOf(k)][1] = i
      BY <2>1, <1>7, MembersRoot
    <3> QED
      BY <3>1, <3>2, <2>1, <1>8 DEF Subs
  <2> QED
    BY <2>1, <1>7, LevelFacts
<1>11. LevelOf(k) = i
  <2>1. LevelOf(k) \notin Subs
    BY <1>10, NodeAssumption, InstAssumption DEF Roots, Subs
  <2>2. Len(Path[k]) \notin 2..Len(Path[k])
    BY <2>1, <1>7, PathFacts DEF LevelOf
  <2>3. Len(Path[k]) = 1
    <3> DEFINE len == Len(Path[k])
    <3>1. len \in Nat \ {0} /\ len \notin 2..len
      BY <2>2, <1>7, PathFacts
    <3> HIDE DEF len
    <3>2. len = 1
      BY <3>1
    <3> QED
      BY <3>2 DEF len
  <2> QED
    BY <2>3, <1>7 DEF LevelOf
<1> QED
  BY <1>7, <1>9, <1>11 DEF F

\* edge, deepSinks and applyExpansion: what is declared after a sub-workflow or a
\* fan-out, and an item that lists another, is released only when everything inside
\* has settled, whatever was spliced in since; nothing inside a sub-workflow is,
\* unless its entry ended ok.
THEOREM AfterCorrect == Spec => []AfterMeansAfterAll
<1>1. AfterInv => AfterMeansAfterAll
  <2> SUFFICES ASSUME AfterInv PROVE AfterMeansAfterAll
    OBVIOUS
  <2> DEFINE F(k) == Clear(life, edge, status, k)
  <2>1. /\ GraphInv(life, edge, indeg) /\ Acyclic(edge) /\ Ready(life, edge)
        /\ Together(life) /\ Fresh(life) /\ Enclosed(life)
        /\ FailInv(life, edge, status) /\ Linked(life, edge)
        /\ Settled(life, status) /\ EntrySkips(life, status)
        /\ edge \in SUBSET (Node \X Node) /\ life \in [Node -> Lives]
    BY DEF AfterInv, FailRunInv, RunInv, IInv, Readiness, Sound, GraphInv, FailInv
  <2>2. ASSUME NEW b \in Node, Released(b) PROVE F(b)
    <3>1. status[b] \notin Skips
      BY <2>1, <2>2 DEF Released, Settled, Skips
    <3>2. life[b] \notin {"absent", "pending"}
      BY <2>1, <2>2 DEF Released, Settled
    <3> QED
      BY <3>1, <3>2, StoppedFacts DEF Clear
  <2>3. ASSUME NEW p \in Node, NEW b \in Node, <<p, b>> \in Closure(edge), F(b)
        PROVE  life[p] = "done" /\ F(p)
    BY <2>1, <2>3, ClearUpstream
  <2>4. ASSUME NEW e \in Decl, NEW p \in Inside, e[1] = p[1], Released(e[2])
        PROVE  life[p[2]] \in {"absent", "done"}
    <3>1. /\ e[1] \in Node /\ e[2] \in Node /\ e = <<e[1], e[2]>>
          /\ p[2] \in Node /\ p = <<e[1], p[2]>>
      BY <2>4, SameLevel, InsideFacts
    <3>2. Follows(p[2], e[2])
      BY <3>1, <2>4 DEF Follows
    <3>3. F(e[2]) /\ life[e[2]] # "absent"
      BY <3>1, <2>2, <2>4 DEF Clear
    <3>4. life[p[2]] # "absent" => <<p[2], e[2]>> \in Closure(edge)
      BY <3>1, <3>2, <3>3, <2>1 DEF Linked
    <3> QED
      BY <3>1, <3>3, <3>4, <2>3
  <2>5. ASSUME NEW d \in InstDeps, NEW b \in InsideInst(d[2]), Released(b),
               NEW m \in InsideInst(d[1])
        PROVE  life[m] \in {"absent", "done"}
    <3>1. d[1] \in Inst /\ d[2] \in Inst
      BY ShapeAssumption
    <3>2. \A i \in Inst : InsideInst(i) \subseteq Node
      BY InsideFacts DEF InsideInst, Below
    <3>3. F(b) /\ m \in Node
      BY <3>1, <3>2, <2>2, <2>5
    <3>4. PICK y \in LevelSources(d[2]) : F(y)
      BY <3>1, <3>3, SourceClear
    <3>5. y \in Node /\ life[y] # "absent"
      BY <3>4 DEF Clear, LevelSources, NodesOf
    <3>6. Follows(m, y)
      BY <3>4 DEF Follows
    <3>7. life[m] # "absent" => <<m, y>> \in Closure(edge)
      BY <3>3, <3>5, <3>6, <2>1 DEF Linked
    <3> QED
      BY <3>3, <3>4, <3>5, <3>7, <2>3
  <2>6. ASSUME NEW s \in Subs, NEW m \in Members(s), Released(m) PROVE status[s] = "ok"
    <3>1. m \in Node /\ s \in Node
      BY DEF Members, Below, Subs
    <3>2. life[m] \notin {"absent", "pending"} /\ status[m] \notin Skips
      BY <3>1, <2>1, <2>6 DEF Released, Settled, Skips
    <3>3. life[s] # "absent"
      BY <3>1, <3>2, <2>1, MembersRoot DEF Together
    <3>4. <<s, m>> \in Closure(edge)
      BY <3>3, <2>1, MembersReached
    <3>5. life[s] = "done"
      BY <3>1, <3>4, <2>2, <2>3, <2>6
    <3> QED
      BY <3>2, <3>5, <2>1 DEF EntrySkips
  <2> QED
    BY <2>4, <2>5, <2>6 DEF AfterMeansAfterAll
<1> QED
  BY <1>1, AfterInvariance, PTL
=============================================================================
