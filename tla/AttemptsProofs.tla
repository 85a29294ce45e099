--------------------------- MODULE AttemptsProofs ---------------------------
(***************************************************************************)
(* Proofs about module Attempts: the numbering of attempts across          *)
(* dispatches and resumes, the ledger as the sum of the boxes in flight,   *)
(* and the budget that bounds all executions of a run.                     *)
(***************************************************************************)
EXTENDS Attempts, FiniteSetTheorems, NaturalsInduction, WellFoundedInduction, TLAPS

-----------------------------------------------------------------------------
(* Sums over a finite set                                                  *)

\* The summand that the fold picks, and its step on the subsets of S.
Pick(s) == CHOOSE x \in s : TRUE
Adds(f, h, s) == IF s = {} THEN 0 ELSE f[Pick(s)] + h[s \ {Pick(s)}]
Total(f, h, S) == \A s \in SUBSET S : h[s] = Adds(f, h, s)

\* Every non-empty set of naturals has a least member.
LEMMA Least ==
  ASSUME NEW N \in SUBSET Nat, N # {}
  PROVE  \E m \in N : \A k \in N : m <= k
<1>1. PICK m \in N : \A k \in N : ~(k < m)
  <2>1. PICK m \in N : \A k \in N : <<k, m>> \notin OpToRel(<, Nat)
    BY NatLessThanWellFounded, WFMin
  <2> QED
    BY <2>1 DEF OpToRel
<1> QED
  BY <1>1

\* Taking the picked member away.
LEMMA PickLess ==
  ASSUME NEW s, IsFiniteSet(s), s # {}
  PROVE  /\ Pick(s) \in s /\ IsFiniteSet(s \ {Pick(s)})
         /\ Cardinality(s) \in Nat /\ Cardinality(s \ {Pick(s)}) = Cardinality(s) - 1
BY FS_RemoveElement, FS_CardinalityType DEF Pick

\* The partial sums of a finite set exist.
LEMMA TotalsExist ==
  ASSUME NEW S, IsFiniteSet(S), NEW f, \A x \in S : f[x] \in Int
  PROVE  \E h \in [SUBSET S -> Int] : Total(f, h, S)
<1> DEFINE Q(k) == \E h \in [SUBSET S -> Int] :
                     \A s \in SUBSET S : Cardinality(s) <= k => h[s] = Adds(f, h, s)
           N == {k \in Nat : ~Q(k)}
<1>1. \A s \in SUBSET S : IsFiniteSet(s) /\ Cardinality(s) \in Nat
  BY FS_Subset, FS_CardinalityType
<1>2. Q(0)
  <2> DEFINE h == [s \in SUBSET S |-> 0]
  <2>1. \A s \in SUBSET S : Cardinality(s) <= 0 => s = {}
    BY <1>1, FS_EmptySet
  <2>2. h \in [SUBSET S -> Int] /\ \A s \in SUBSET S : Cardinality(s) <= 0 => h[s] = Adds(f, h, s)
    BY <2>1 DEF Adds
  <2> HIDE DEF h
  <2> QED
    BY <2>2
<1>3. ASSUME NEW k \in Nat, Q(k) PROVE Q(k + 1)
  <2>1. PICK h \in [SUBSET S -> Int] :
          \A s \in SUBSET S : Cardinality(s) <= k => h[s] = Adds(f, h, s)
    BY <1>3
  <2> DEFINE g == [s \in SUBSET S |-> Adds(f, h, s)]
  <2>2. \A s \in SUBSET S : s # {} => Pick(s) \in S /\ s \ {Pick(s)} \in SUBSET S
    BY DEF Pick
  <2>3. g \in [SUBSET S -> Int]
    BY <2>2 DEF Adds
  <2>4. ASSUME NEW s \in SUBSET S, Cardinality(s) <= k + 1 PROVE g[s] = Adds(f, g, s)
    <3>1. CASE s = {}
      BY <3>1 DEF Adds
    <3>2. CASE s # {}
      <4> DEFINE t == s \ {Pick(s)}
      <4>1. t \in SUBSET S /\ Cardinality(t) <= k
        BY <1>1, <2>2, <2>4, <3>2, PickLess
      <4>2. g[t] = h[t]
        BY <2>1, <4>1
      <4> QED
        BY <2>4, <3>2, <4>1, <4>2 DEF Adds
    <3> QED
      BY <3>1, <3>2
  <2> HIDE DEF g
  <2> QED
    BY <2>3, <2>4
<1>4. N = {}
  <2> SUFFICES ASSUME N # {} PROVE FALSE
    OBVIOUS
  <2> HIDE DEF Q
  <2>1. PICK m \in N : \A k \in N : m <= k
    <3>1. N \in SUBSET Nat
      OBVIOUS
    <3> HIDE DEF N
    <3> QED
      BY <3>1, Least
  <2>2. m # 0 /\ m \in Nat
    BY <1>2
  <2>3. Q(m - 1)
    BY <2>1, <2>2
  <2> QED
    BY <1>3, <2>2, <2>3
<1>5. Q(Cardinality(S))
  BY <1>1, <1>4
<1>6. PICK h \in [SUBSET S -> Int] :
        \A s \in SUBSET S : Cardinality(s) <= Cardinality(S) => h[s] = Adds(f, h, s)
  BY <1>5
<1>7. \A s \in SUBSET S : Cardinality(s) <= Cardinality(S)
  BY FS_Subset
<1> QED
  BY <1>6, <1>7 DEF Total

\* They are unique, over a subset as well.
LEMMA TotalsAgree ==
  ASSUME NEW S, IsFiniteSet(S), NEW T \in SUBSET S, NEW f, NEW e,
         \A x \in T : f[x] = e[x], NEW h, Total(f, h, S), NEW g, Total(e, g, T)
  PROVE  \A s \in SUBSET T : h[s] = g[s]
<1> DEFINE B == {s \in SUBSET T : h[s] # g[s]}
           N == {Cardinality(s) : s \in B}
<1>1. \A s \in SUBSET T : IsFiniteSet(s) /\ Cardinality(s) \in Nat
  BY FS_Subset, FS_CardinalityType
<1> SUFFICES ASSUME B # {} PROVE FALSE
  OBVIOUS
<1>2. PICK m \in N : \A k \in N : m <= k
  <2>1. N \in SUBSET Nat /\ N # {}
    BY <1>1
  <2> HIDE DEF N
  <2> QED
    BY <2>1, Least
<1>3. PICK s \in B : m = Cardinality(s)
  BY <1>2
<1>4. s # {}
  BY <1>3 DEF Total, Adds
<1> DEFINE t == s \ {Pick(s)}
<1>5. t \in SUBSET T /\ Cardinality(t) < m /\ Pick(s) \in T
  BY <1>1, <1>3, <1>4, PickLess
<1>6. h[t] = g[t]
  BY <1>1, <1>2, <1>5
<1>7. h[s] = f[Pick(s)] + h[t] /\ g[s] = e[Pick(s)] + g[t]
  BY <1>3, <1>4 DEF Total, Adds
<1> QED
  BY <1>3, <1>5, <1>6, <1>7

\* A sum is the last of them.
LEMMA SumIsTotal ==
  ASSUME NEW S, IsFiniteSet(S), NEW f, \A x \in S : f[x] \in Int
  PROVE  \E h \in [SUBSET S -> Int] : Total(f, h, S) /\ SumFunctionOnSet(f, S) = h[S]
<1> DEFINE F(h) == [s \in SUBSET S |-> Adds(f, h, s)]
           it == CHOOSE h : h = F(h)
<1>1. SumFunctionOnSet(f, S) = it[S]
  BY DEF SumFunctionOnSet, FoldFunctionOnSet, MapThenFoldSet, Adds, Pick
<1>2. PICK h \in [SUBSET S -> Int] : Total(f, h, S)
  BY TotalsExist
<1>3. h = F(h)
  BY <1>2 DEF Total
<1>4. it = F(it)
  <2> HIDE DEF F
  <2> QED
    BY <1>3
<1> HIDE DEF it
<1>5. Total(f, it, S)
  BY <1>4 DEF Total
<1>6. it[S] = h[S]
  BY <1>2, <1>5, TotalsAgree
<1> QED
  BY <1>1, <1>2, <1>6

\* The sum over nothing.
LEMMA SumOfNone == ASSUME NEW f PROVE SumFunctionOnSet(f, {}) = 0
<1>1. PICK h : Total(f, h, {}) /\ SumFunctionOnSet(f, {}) = h[{}]
  BY SumIsTotal, FS_EmptySet
<1> QED
  BY <1>1 DEF Total, Adds

\* A sum may begin with any summand, not just the one that is picked.
LEMMA SumTakesAny ==
  ASSUME NEW S, IsFiniteSet(S), NEW f, \A y \in S : f[y] \in Int, NEW x \in S
  PROVE  /\ SumFunctionOnSet(f, S) \in Int
         /\ SumFunctionOnSet(f, S) = f[x] + SumFunctionOnSet(f, S \ {x})
<1>1. PICK h \in [SUBSET S -> Int] : Total(f, h, S) /\ SumFunctionOnSet(f, S) = h[S]
  BY SumIsTotal
<1>2. SumFunctionOnSet(f, S \ {x}) = h[S \ {x}]
  <2>1. IsFiniteSet(S \ {x})
    BY FS_RemoveElement
  <2>2. PICK g : Total(f, g, S \ {x}) /\ SumFunctionOnSet(f, S \ {x}) = g[S \ {x}]
    BY <2>1, SumIsTotal
  <2> QED
    BY <1>1, <2>2, TotalsAgree
<1> DEFINE B == {s \in SUBSET S : \E y \in s : h[s] # f[y] + h[s \ {y}]}
           N == {Cardinality(s) : s \in B}
<1>3. \A s \in SUBSET S : IsFiniteSet(s) /\ Cardinality(s) \in Nat
  BY FS_Subset, FS_CardinalityType
<1>4. B = {}
  <2> SUFFICES ASSUME B # {} PROVE FALSE
    OBVIOUS
  <2>1. PICK m \in N : \A k \in N : m <= k
    <3>1. N \in SUBSET Nat /\ N # {}
      BY <1>3
    <3> HIDE DEF N
    <3> QED
      BY <3>1, Least
  <2>2. PICK s \in B : m = Cardinality(s)
    BY <2>1
  <2>8. PICK y \in s : h[s] # f[y] + h[s \ {y}]
    BY <2>2
  <2> DEFINE p == Pick(s)
  <2>3. /\ p \in s /\ p \in S /\ s \in SUBSET S /\ y \in S
        /\ s \ {p} \in SUBSET S /\ Cardinality(s \ {p}) < m
        /\ h[s] = f[p] + h[s \ {p}]
    <3>1. s # {} /\ s \in SUBSET S
      BY <2>2
    <3>2. /\ p \in s /\ Cardinality(s) \in Nat /\ Cardinality(s \ {p}) = Cardinality(s) - 1
      BY <1>3, <3>1, PickLess
    <3>3. h[s] = Adds(f, h, s)
      BY <1>1, <3>1 DEF Total
    <3> QED
      BY <2>2, <3>1, <3>2, <3>3 DEF Adds
  <2> HIDE DEF p
  <2>4. p # y
    BY <2>8, <2>3
  <2>5. s \ {y} \in SUBSET S /\ Cardinality(s \ {y}) < m
    BY <1>3, <2>2, <2>3, FS_RemoveElement
  <2>9. ASSUME NEW t \in SUBSET S, Cardinality(t) < m, NEW z \in t
        PROVE  h[t] = f[z] + h[t \ {z}]
    <3>1. t \in B => Cardinality(t) \in N
      OBVIOUS
    <3>2. t \notin B
      BY <1>3, <2>1, <2>2, <2>9, <3>1
    <3> QED
      BY <3>2
  <2>6. h[s \ {p}] = f[y] + h[(s \ {p}) \ {y}]
    BY <2>3, <2>4, <2>9
  <2>7. h[s \ {y}] = f[p] + h[(s \ {y}) \ {p}]
    BY <2>3, <2>4, <2>5, <2>9
  <2>10. (s \ {p}) \ {y} = (s \ {y}) \ {p} /\ (s \ {y}) \ {p} \in SUBSET S
    BY <2>3
  <2>11. h[(s \ {y}) \ {p}] \in Int /\ f[p] \in Int /\ f[y] \in Int
    BY <2>3, <2>10
  <2>12. h[s] = f[p] + (f[y] + h[(s \ {y}) \ {p}])
    BY <2>3, <2>6, <2>10
  <2> QED
    BY <2>7, <2>8, <2>11, <2>12
<1>5. h[S] = f[x] + h[S \ {x}]
  BY <1>4
<1> QED
  BY <1>1, <1>2, <1>5

\* Equal summands have equal sums.
LEMMA SumSame ==
  ASSUME NEW S, IsFiniteSet(S), NEW f, NEW g, \A x \in S : f[x] \in Int /\ g[x] = f[x]
  PROVE  SumFunctionOnSet(g, S) = SumFunctionOnSet(f, S)
<1>1. PICK h : Total(f, h, S) /\ SumFunctionOnSet(f, S) = h[S]
  BY SumIsTotal
<1>2. PICK e : Total(g, e, S) /\ SumFunctionOnSet(g, S) = e[S]
  BY SumIsTotal
<1> QED
  BY <1>1, <1>2, TotalsAgree

\* A summand that changes changes the sum by as much.
LEMMA SumChanges ==
  ASSUME NEW S, IsFiniteSet(S), NEW x \in S, NEW f, NEW g,
         \A y \in S : f[y] \in Int /\ g[y] \in Int,
         \A y \in S \ {x} : g[y] = f[y]
  PROVE  /\ SumFunctionOnSet(f, S) \in Int
         /\ SumFunctionOnSet(g, S) = SumFunctionOnSet(f, S) - f[x] + g[x]
<1>1. IsFiniteSet(S \ {x})
  BY FS_RemoveElement
<1>2. /\ SumFunctionOnSet(f, S) \in Int
      /\ SumFunctionOnSet(f, S) = f[x] + SumFunctionOnSet(f, S \ {x})
  BY SumTakesAny
<1>3. /\ SumFunctionOnSet(g, S) \in Int
      /\ SumFunctionOnSet(g, S) = g[x] + SumFunctionOnSet(g, S \ {x})
  BY SumTakesAny
<1>4. SumFunctionOnSet(g, S \ {x}) = SumFunctionOnSet(f, S \ {x})
  BY <1>1, SumSame
<1>5. SumFunctionOnSet(f, S \ {x}) \in Int
  <2>1. CASE S \ {x} = {}
    BY <2>1, SumOfNone
  <2>2. CASE S \ {x} # {}
    BY <1>1, <2>2, SumTakesAny
  <2> QED
    BY <2>1, <2>2
<1> QED
  BY <1>2, <1>3, <1>4, <1>5

\* A sum of naturals is one, and is no less than any of them; it is zero only of
\* zeros.
LEMMA SumCovers ==
  ASSUME NEW S, IsFiniteSet(S), NEW f, \A x \in S : f[x] \in Nat
  PROVE  /\ SumFunctionOnSet(f, S) \in Nat
         /\ \A x \in S : f[x] <= SumFunctionOnSet(f, S)
         /\ (\A x \in S : f[x] = 0) => SumFunctionOnSet(f, S) = 0
<1> DEFINE Good(s) == /\ SumFunctionOnSet(f, s) \in Nat
                      /\ (\A x \in s : f[x] = 0) => SumFunctionOnSet(f, s) = 0
           B == {s \in SUBSET S : ~Good(s)}
           N == {Cardinality(s) : s \in B}
<1>1. \A s \in SUBSET S : IsFiniteSet(s) /\ Cardinality(s) \in Nat
  BY FS_Subset, FS_CardinalityType
<1>2. B = {}
  <2> SUFFICES ASSUME B # {} PROVE FALSE
    OBVIOUS
  <2>1. N \in SUBSET Nat /\ N # {}
    BY <1>1
  <2>2. PICK m \in N : \A k \in N : m <= k
    <3> HIDE DEF N
    <3> QED
      BY <2>1, Least
  <2>3. PICK s \in B : m = Cardinality(s)
    BY <2>2
  <2>4. s # {}
    BY <2>3, SumOfNone
  <2>5. PICK x \in s : TRUE
    BY <2>4
  <2>6. s \ {x} \in SUBSET S /\ Cardinality(s \ {x}) < m
    BY <1>1, <2>3, FS_RemoveElement
  <2>7. s \ {x} \in B => Cardinality(s \ {x}) \in N
    OBVIOUS
  <2>8. Good(s \ {x})
    BY <1>1, <2>1, <2>2, <2>3, <2>6, <2>7
  <2>9. SumFunctionOnSet(f, s) = f[x] + SumFunctionOnSet(f, s \ {x})
    <3>1. IsFiniteSet(s) /\ \A y \in s : f[y] \in Int
      BY <1>1, <2>3
    <3> QED
      BY <3>1, SumTakesAny
  <2>10. f[x] \in Nat
    BY <2>3
  <2>11. Good(s)
    BY <2>8, <2>9, <2>10
  <2> QED
    BY <2>3, <2>11
<1>3. Good(S)
  BY <1>2
<1>4. ASSUME NEW x \in S PROVE f[x] <= SumFunctionOnSet(f, S)
  <2>1. Good(S \ {x})
    BY <1>2
  <2>2. SumFunctionOnSet(f, S) = f[x] + SumFunctionOnSet(f, S \ {x})
    BY SumTakesAny
  <2> QED
    BY <2>1, <2>2
<1> QED
  BY <1>3, <1>4

-----------------------------------------------------------------------------
(* The invariants                                                          *)

Amounts == [Units -> 0..MaxInt]
EstType == [units : SUBSET Units, amount : 0..MaxInt]
Whys == {"none", "saturated", "contended", "rate-limit"}
WorkerType == [at : Ats, attempt : Nat, base : Nat, retry : Nat, est : EstType, need : Nat,
               failures : Nat, costs : Amounts,
               why : Whys]
RecordType == [status : Settled \cup {"none"}, attempt : Nat, attempts : Seq(Nat)]

LedgerTyped ==
  /\ AdmitterTypeOK /\ bounds \in [Nodes -> SUBSET Int]
  /\ total \in [Units -> Nat] /\ journaled \in Amounts

LoopTyped ==
  /\ life \in [Nodes -> Settled \cup {"ready", "running", "parked", "timed"}]
  /\ used \in [Nodes -> Nat] /\ count \in [Nodes -> Nat] /\ execs \in 1..MaxExecs
  /\ \A n \in Nodes : w[n].at # "idle" <=> life[n] = "running"
  /\ w \in [Nodes -> WorkerType]
  /\ history \in [Nodes -> Seq(Nat \ {0})] /\ annotations \in [Nodes -> Seq(Whys)]
  /\ stash \in [Nodes -> Amounts] /\ results \in [Nodes -> [BOOLEAN -> RecordType]]
  /\ debris \in [Nodes -> Nat] /\ canceled \in BOOLEAN

\* The numbers of a dispatch: what earlier ones consumed, a failure behind every
\* attempt but the first, and debris only until the cleanup that follows.
Numbered ==
  \A n \in Nodes :
    /\ used[n] <= Retry[n] /\ Len(history[n]) = used[n]
    /\ w[n].at = "idle" => w[n] = Idle
    /\ w[n].at # "idle" => /\ w[n].base = used[n] /\ w[n].retry = Retry[n] - used[n]
                           /\ w[n].attempt = w[n].failures + 1
                           /\ w[n].failures <= w[n].retry
    /\ debris[n] # 0 => w[n].at \in {"clean", "clean-defer"}

\* A box that is about to run or running holds what was estimated for it, and
\* nobody else holds anything.
Holding ==
  /\ ReservationsAreBoxes
  /\ \A n \in inflight : w[n].at = "head" => w[n].attempt = 1
  /\ \A n \in Nodes : held[n] = IF n \in inflight THEN Held(w[n].est) ELSE None

\* The claims of the exact tier are what the box may use.
Covered ==
  \A n \in Nodes :
    Tier[n] = "exact" /\ UnitsOf[n] \cap DOMAIN Limit # {}
                      /\ (w[n].at = "decide" \/ n \in inflight) =>
      /\ w[n].est.units = UnitsOf[n]
      /\ w[n].need = w[n].est.amount /\ bounds[n] = {w[n].est.amount}

\* What a step has used and the journal does not have yet.
Owed(n, u) == IF life[n] \in Settled THEN 0 ELSE stash[n][u] + w[n].costs[u]
OwedAll(u) == SumFunctionOnSet([n \in Nodes |-> Owed(n, u)], Nodes)

\* Nothing that was used is lost between the box, the loop and the journal.
Paid ==
  \A u \in ExactUnits :
    /\ total[u] = spent[u] /\ spent[u] + reserved[u] <= Limit[u]
    /\ total[u] = journaled[u] + OwedAll(u)

\* No estimate wraps and no limit is the largest amount there is.
Sized ==
  /\ \A t \in Tokens : t + MaxOutput <= MaxInt
  /\ \A u \in DOMAIN Limit : Limit[u] < MaxInt

-----------------------------------------------------------------------------
(* Types                                                                   *)

\* Sums that saturate keep to their width.
LEMMA SatType ==
  ASSUME NEW f \in Amounts, NEW g \in Amounts
  PROVE  satPlus(f, g) \in Amounts
BY MeterAssumption DEF satPlus, satAdd, Amounts

\* Nothing is an amount.
LEMMA NoneType == None \in Amounts
BY MeterAssumption DEF None, Amounts

\* A worker between dispatches is a worker.
LEMMA IdleType == Idle \in WorkerType
BY NoneType, MeterAssumption DEF Idle, WorkerType, EstType, Claim, Ats, Whys

\* What a meter claims is within its width, and counted it is no less than zero.
LEMMA EstimateType ==
  ASSUME NEW n \in Nodes, NEW e \in Estimates(n), e.verdict = "claim"
  PROVE  /\ Counted(e.claim) \in EstType /\ e.need \in Nat
         /\ e.claim.amount \in -MaxInt-1..MaxInt
         /\ e.claim.amount \in Int
         /\ Tier[n] = "exact" => \E t \in Tokens : /\ e.claim = Claim(UnitsOf[n], Bound(t))
                                                   /\ e.need = t + MaxOutput
<1>1. UnitsOf[n] \in SUBSET Units /\ Tier[n] \in {"none", "exact", "reported", "probe"}
  BY MeterAssumption
<1>2. \A t \in Tokens : t + MaxOutput \in Nat /\ Bound(t) \in -MaxInt-1..MaxInt
  BY MeterAssumption DEF Bound, Wrap
<1>3. CASE Tier[n] = "exact"
  <2>1. PICK t \in Tokens : e = [verdict |-> "claim", claim |-> Claim(UnitsOf[n], Bound(t)),
                                 need |-> t + MaxOutput]
    BY <1>3 DEF Estimates
  <2> QED
    BY <1>1, <1>2, <2>1, MeterAssumption DEF Claim, Counted, EstType
<1>4. CASE Tier[n] # "exact"
  <2>1. PICK us \in SUBSET Units : e = [verdict |-> "claim", claim |-> Claim(us, 0), need |-> 0]
    BY <1>1, <1>4 DEF Estimates
  <2> QED
    BY <1>4, <2>1, MeterAssumption DEF Claim, Counted, EstType
<1> QED
  BY <1>3, <1>4

\* What an attempt costs is within its width.
LEMMA CostType ==
  ASSUME LedgerTyped, NEW n \in Nodes, NEW st, NEW usage \in Usages \cup {-1}
  PROVE  Cost(n, st, usage) \in Amounts
<1>1. Actual(n, st, usage) \in Int /\ Actual(n, st, usage) <= MaxInt
  <2>1. bounds[n] # {} => (CHOOSE b \in bounds[n] : TRUE) \in bounds[n]
    OBVIOUS
  <2>2. bounds[n] \subseteq -MaxInt-1..MaxInt
    BY DEF LedgerTyped, AdmitterTypeOK
  <2>3. usage \in Int /\ usage <= MaxInt /\ MaxInt \in Nat
    BY MeterAssumption
  <2>4. Tier[n] \in {"none", "exact", "reported", "probe"}
    BY MeterAssumption
  <2> DEFINE b == CHOOSE b \in bounds[n] : TRUE
  <2>5. bounds[n] # {} => b \in Int /\ b <= MaxInt
    BY <2>1, <2>2, <2>3
  <2> HIDE DEF b
  <2>6. Actual(n, st, usage) \in {usage, 0} \/ (bounds[n] # {} /\ Actual(n, st, usage) = b)
    BY <2>4 DEF Actual, b
  <2> QED
    BY <2>3, <2>5, <2>6
<1> QED
  BY <1>1, MeterAssumption DEF Cost, Amounts

\* Settling keeps the ledger's types.
LEMMA SettleType ==
  ASSUME LedgerTyped, NEW n \in Nodes, NEW cost \in Amounts, Settle(n, cost)
  PROVE  AdmitterTypeOK' /\ (bounds \in [Nodes -> SUBSET Int])'
<1>1. spent' \in Amounts
  BY SatType DEF LedgerTyped, AdmitterTypeOK, Settle, Amounts
<1>2. reserved' \in Amounts
  BY MeterAssumption DEF LedgerTyped, AdmitterTypeOK, Settle, Amounts, Released
<1>3. held' \in [Nodes -> Amounts]
  BY NoneType DEF LedgerTyped, AdmitterTypeOK, Settle, Amounts
<1>4. /\ bounds' \in [Nodes -> SUBSET Int] 
      /\ \A m \in Nodes : bounds'[m] \in {bounds[m], {}}
  BY DEF LedgerTyped, Settle
<1>5. inflight' \subseteq Nodes
  BY DEF LedgerTyped, AdmitterTypeOK, Settle
<1>6. Cardinality({}) = 0
  BY FS_EmptySet
<1>7. \A m \in Nodes : bounds'[m] \subseteq -MaxInt-1..MaxInt /\ Cardinality(bounds'[m]) <= 1
  <2> SUFFICES ASSUME NEW m \in Nodes
               PROVE  bounds'[m] \subseteq -MaxInt-1..MaxInt /\ Cardinality(bounds'[m]) <= 1
    OBVIOUS
  <2>1. bounds[m] \subseteq -MaxInt-1..MaxInt /\ Cardinality(bounds[m]) <= 1
    BY DEF LedgerTyped, AdmitterTypeOK
  <2>2. bounds'[m] = bounds[m] \/ bounds'[m] = {}
    BY <1>4
  <2>3. CASE bounds'[m] = bounds[m]
    BY <2>1, <2>3
  <2>4. CASE bounds'[m] = {}
    BY <1>6, <2>4
  <2> QED
    BY <2>2, <2>3, <2>4
<1>8. /\ spent' \in [Units -> 0..MaxInt] /\ reserved' \in [Units -> 0..MaxInt]
      /\ held' \in [Nodes -> [Units -> 0..MaxInt]]
  BY <1>1, <1>2, <1>3 DEF Amounts
<1> QED
  BY <1>4, <1>5, <1>7, <1>8 DEF AdmitterTypeOK

\* A bound of the exact meter is within its width.
LEMMA BoundType ==
  ASSUME LedgerTyped, NEW n \in Nodes,
         \/ ReleaseEstimate(n) \/ UNCHANGED bounds
         \/ \E claim : claim.amount \in -MaxInt-1..MaxInt /\ RecordBound(n, claim)
  PROVE  /\ bounds' \in [Nodes -> SUBSET Int]
         /\ \A m \in Nodes : bounds'[m] \subseteq -MaxInt-1..MaxInt /\ Cardinality(bounds'[m]) <= 1
         /\ \A m \in Nodes \ {n} : bounds'[m] = bounds[m]
<1>1. MaxInt \in Nat /\ bounds \in [Nodes -> SUBSET Int]
  BY MeterAssumption DEF LedgerTyped
<1>2. \A m \in Nodes : bounds[m] \subseteq -MaxInt-1..MaxInt /\ Cardinality(bounds[m]) <= 1
  BY DEF LedgerTyped, AdmitterTypeOK
<1> DEFINE Sets == {{}, bounds[n]} \cup {{b} : b \in -MaxInt-1..MaxInt}
<1>3. PICK s \in Sets : bounds' = [bounds EXCEPT ![n] = s]
  <2>1. CASE ReleaseEstimate(n)
    BY <2>1 DEF ReleaseEstimate
  <2>2. CASE UNCHANGED bounds
    BY <1>1, <2>2
  <2>3. ASSUME NEW claim, claim.amount \in -MaxInt-1..MaxInt, RecordBound(n, claim)
        PROVE  \E s \in Sets : bounds' = [bounds EXCEPT ![n] = s]
    <3>1. CASE Tier[n] = "exact"
      BY <2>3, <3>1 DEF RecordBound
    <3>2. CASE Tier[n] # "exact"
      BY <2>2, <2>3, <3>2 DEF RecordBound
    <3> QED
      BY <3>1, <3>2
  <2> QED
    BY <2>1, <2>2, <2>3
<1>4. s \subseteq -MaxInt-1..MaxInt /\ Cardinality(s) <= 1 /\ s \in SUBSET Int
  <2>1. CASE s = {}
    BY <2>1, FS_EmptySet
  <2>2. CASE s = bounds[n]
    BY <1>1, <1>2, <2>2
  <2>3. CASE \E b \in -MaxInt-1..MaxInt : s = {b}
    <3>1. PICK b \in -MaxInt-1..MaxInt : s = {b}
      BY <2>3
    <3>2. b \in Int
      BY <1>1
    <3>3. Cardinality({b}) = 1
      BY FS_Singleton
    <3>4. Cardinality(s) <= 1
      BY <3>1, <3>3
    <3> QED
      BY <3>1, <3>2, <3>4
  <2> QED
    BY <1>3, <2>1, <2>2, <2>3
<1> QED
  BY <1>1, <1>2, <1>3, <1>4

\* Reserving keeps the ledger's types.
LEMMA ReserveType ==
  ASSUME LedgerTyped, NEW n \in Nodes, NEW est \in EstType, Reserve(n, est)
  PROVE  AdmitterTypeOK' /\ (bounds \in [Nodes -> SUBSET Int])'
<1>1. CASE Tier[n] = "none"
  BY <1>1 DEF Reserve, LedgerTyped, AdmitterTypeOK, ledger
<1>2. CASE Tier[n] # "none"
  <2>1. Held(est) \in Amounts
    BY MeterAssumption DEF EstType, Held, Amounts
  <2>2. reserved \in Amounts /\ held \in [Nodes -> Amounts] /\ Released(held[n]) \in Amounts
    BY MeterAssumption DEF LedgerTyped, AdmitterTypeOK, Amounts, Released
  <2>3. reserved' \in Amounts
    BY <1>2, <2>1, <2>2, SatType DEF Reserve
  <2>4. held' \in [Nodes -> Amounts] /\ inflight' \subseteq Nodes
    BY <1>2, <2>1, <2>2 DEF Reserve, LedgerTyped, AdmitterTypeOK
  <2>5. UNCHANGED <<spent, bounds>>
    BY <1>2 DEF Reserve
  <2> QED
    BY <2>3, <2>4, <2>5 DEF LedgerTyped, AdmitterTypeOK, Amounts
<1> QED
  BY <1>1, <1>2

\* The ledger keeps its types under every step.
LEMMA LedgerTypeStep ==
  LedgerTyped /\ LoopTyped /\ [Next]_vars => LedgerTyped'
<1> SUFFICES ASSUME LedgerTyped, LoopTyped, [Next]_vars PROVE LedgerTyped'
  OBVIOUS
<1>1. CASE UNCHANGED <<ledger, total, journaled>>
  BY <1>1 DEF LedgerTyped, AdmitterTypeOK, ledger
<1>2. ASSUME NEW n \in Nodes, Estimate(n) PROVE LedgerTyped'
  <2>1. UNCHANGED <<spent, reserved, inflight, held, total, journaled>>
    BY <1>2 DEF Estimate, ghost, disk
  <2>2. \/ ReleaseEstimate(n) \/ UNCHANGED bounds
        \/ \E claim : claim.amount \in -MaxInt-1..MaxInt /\ RecordBound(n, claim)
    <3>1. PICK e \in Estimates(n) :
            \/ ReleaseEstimate(n) \/ UNCHANGED bounds
            \/ e.verdict = "claim" /\ RecordBound(n, e.claim)
      BY <1>2 DEF Estimate
    <3> QED
      BY <3>1, EstimateType
  <2>3. /\ bounds' \in [Nodes -> SUBSET Int]
        /\ \A m \in Nodes : bounds'[m] \subseteq -MaxInt-1..MaxInt /\ Cardinality(bounds'[m]) <= 1
    BY <2>2, BoundType
  <2> QED
    BY <2>1, <2>3 DEF LedgerTyped, AdmitterTypeOK
<1>3. ASSUME NEW n \in Nodes, Decide(n) PROVE LedgerTyped'
  <2>1. UNCHANGED <<total, journaled>>
    BY <1>3 DEF Decide, ghost, disk
  <2>2. CASE ReleaseEstimate(n) /\ UNCHANGED <<spent, reserved, inflight, held>>
    <3>1. /\ bounds' \in [Nodes -> SUBSET Int]
          /\ \A m \in Nodes : bounds'[m] \subseteq -MaxInt-1..MaxInt /\ Cardinality(bounds'[m]) <= 1
      BY <2>2, BoundType
    <3> QED
      BY <2>1, <2>2, <3>1 DEF LedgerTyped, AdmitterTypeOK
  <2>3. CASE Reserve(n, w[n].est)
    <3>1. w[n].est \in EstType
      BY DEF LoopTyped, WorkerType
    <3> QED
      BY <2>1, <2>3, <3>1, ReserveType DEF LedgerTyped
  <2> QED
    BY <1>3, <2>2, <2>3 DEF Decide
<1>4. ASSUME NEW n \in Nodes, LoopHead(n) PROVE LedgerTyped'
  <2>1. UNCHANGED <<total, journaled>>
    BY <1>4 DEF LoopHead, ghost, disk
  <2>2. CASE UNCHANGED ledger
    BY <1>1, <2>1, <2>2
  <2>3. CASE Settle(n, Cost(n, "failed", -1))
    <3>1. Cost(n, "failed", -1) \in Amounts
      BY CostType
    <3> QED
      BY <2>1, <2>3, <3>1, SettleType DEF LedgerTyped
  <2> QED
    BY <1>4, <2>2, <2>3 DEF LoopHead
<1>5. ASSUME NEW n \in Nodes, NEW st \in Outcomes, NEW usage \in Usages \cup {-1},
             FinishBox(n, st, usage)
      PROVE  LedgerTyped'
  <2> DEFINE cost == Cost(n, IF st = "rate-limit" THEN "failed" ELSE st, usage)
  <2>1. /\ Settle(n, cost) /\ total' = [u \in Units |-> total[u] + cost[u]]
        /\ journaled' = journaled
    BY <1>5 DEF FinishBox, disk
  <2>2. cost \in Amounts
    BY CostType
  <2> HIDE DEF cost
  <2>3. total' \in [Units -> Nat]
    BY <2>1, <2>2, MeterAssumption DEF LedgerTyped, Amounts
  <2> QED
    BY <2>1, <2>2, <2>3, SettleType DEF LedgerTyped
<1>6. ASSUME NEW n \in Nodes, FoldSettled(n) PROVE LedgerTyped'
  <2>1. /\ UNCHANGED <<ledger, total>>
        /\ journaled' = satPlus(journaled, satPlus(stash[n], w[n].costs))
    BY <1>6 DEF FoldSettled
  <2>2. journaled' \in Amounts
    BY <2>1, SatType DEF LedgerTyped, LoopTyped, WorkerType
  <2> QED
    BY <2>1, <2>2 DEF LedgerTyped, AdmitterTypeOK, ledger
<1>7. CASE Resume
  <2>1. UNCHANGED <<total, journaled>> /\ FoldSpent(journaled)
    BY <1>7 DEF Resume, ghost
  <2>2. spent' \in Amounts /\ reserved' \in Amounts /\ held' \in [Nodes -> Amounts]
    BY <2>1, NoneType, SatType DEF FoldSpent, LedgerTyped
  <2>3. inflight' \subseteq Nodes /\ bounds' = [n \in Nodes |-> {}]
    BY <2>1 DEF FoldSpent
  <2>4. Cardinality({}) = 0
    BY FS_EmptySet
  <2>5. \A m \in Nodes : bounds'[m] \subseteq -MaxInt-1..MaxInt /\ Cardinality(bounds'[m]) <= 1
    BY <2>3, <2>4
  <2> QED
    BY <2>1, <2>2, <2>3, <2>5 DEF LedgerTyped, AdmitterTypeOK, Amounts
<1>8. ASSUME NEW n \in Nodes,
             \/ Launch(n) \/ StartBox(n) \/ Cleanup(n) \/ CleanupAfterDefer(n)
             \/ FoldDeferred(n) \/ Wake(n)
      PROVE  LedgerTyped'
  <2>1. UNCHANGED <<ledger, total, journaled>>
    BY <1>8 DEF Launch, StartBox, Cleanup, CleanupAfterDefer, FoldDeferred, Wake, ghost, disk
  <2> QED
    BY <1>1, <2>1
<1>9. CASE Cancel \/ Over \/ UNCHANGED vars
  <2>1. UNCHANGED <<ledger, total, journaled>>
    BY <1>9 DEF Cancel, Over, vars, ghost, disk
  <2> QED
    BY <1>1, <2>1
<1> QED
  BY <1>2, <1>3, <1>4, <1>5, <1>6, <1>7, <1>8, <1>9 DEF Next, Step

\* A worker moves on within its dispatch, and the loop knows nothing of it.
LEMMA MovesType ==
  ASSUME LoopTyped, NEW n \in Nodes, NEW r \in WorkerType, w' = [w EXCEPT ![n] = r],
         r.at # "idle", w[n].at # "idle", UNCHANGED <<sched, results, execs>>,
         count' \in [Nodes -> Nat], debris' \in [Nodes -> Nat], canceled' \in BOOLEAN
  PROVE  LoopTyped'
<1>1. w' \in [Nodes -> WorkerType]
  BY DEF LoopTyped
<1>2. \A m \in Nodes : w'[m].at # "idle" <=> life'[m] = "running"
  BY DEF LoopTyped, sched
<1> QED
  BY <1>1, <1>2 DEF LoopTyped, sched

\* Waking the parked keeps the loop's types.
LEMMA WokenType ==
  ASSUME NEW f \in [Nodes -> Settled \cup {"ready", "running", "parked", "timed"}]
  PROVE  /\ Woken(f) \in [Nodes -> Settled \cup {"ready", "running", "parked", "timed"}]
         /\ \A m \in Nodes : Woken(f)[m] = IF f[m] = "parked" THEN "ready" ELSE f[m]
BY DEF Woken

\* The failures of a dispatch as a sequence.
LEMMA FailuresType ==
  ASSUME LoopTyped, NEW n \in Nodes
  PROVE  Failures(n) \in Seq(Nat \ {0}) /\ Len(Failures(n)) = w[n].failures
<1>1. PICK k \in Nat : k = w[n].failures
  BY DEF LoopTyped, WorkerType
<1>2. [i \in 1..k |-> i] \in Seq(Nat \ {0}) /\ Len([i \in 1..k |-> i]) = k
  OBVIOUS
<1> QED
  BY <1>1, <1>2 DEF Failures

\* The trailing annotations of a sequence are counted.
LEMMA TrailingType == ASSUME NEW s \in Seq(Nat) PROVE Trailing(s) \in Nat
<1>1. IsFiniteSet(DOMAIN s)
  BY FS_Interval
<1>2. IsFiniteSet({i \in DOMAIN s : \A j \in i..Len(s) : s[j] = 0})
  BY <1>1, FS_Subset
<1> QED
  BY <1>2, FS_CardinalityType DEF Trailing

\* One of three numbers is the largest.
LEMMA LargestOfThree ==
  ASSUME NEW i \in Nat, NEW j \in Nat, NEW S \in SUBSET {0, i, j}, 0 \in S
  PROVE  S \subseteq Nat /\ \E x \in S : \A y \in S : x >= y
<1>1. S \subseteq Nat
  OBVIOUS
<1>2. CASE i \in S /\ (j \notin S \/ i >= j)
  BY <1>2
<1>3. CASE j \in S /\ (i \notin S \/ j >= i)
  BY <1>3
<1>4. CASE i \notin S /\ j \notin S
  BY <1>4
<1> QED
  BY <1>1, <1>2, <1>3, <1>4

\* What restoreDeferCounts restores is a number.
LEMMA RestoredType == ASSUME LoopTyped, NEW n \in Nodes PROVE Restored(n) \in Nat
<1> DEFINE T(x) == Trailing(results[n][x].attempts)
           S == {0} \cup {T(x) : x \in {y \in BOOLEAN : results[n][y].status = "failed"}}
<1>1. T(TRUE) \in Nat /\ T(FALSE) \in Nat
  BY TrailingType DEF LoopTyped, RecordType
<1> HIDE DEF T
<1>2. S \subseteq {0, T(TRUE), T(FALSE)} /\ 0 \in S
  OBVIOUS
<1>3. S \subseteq Nat /\ \E x \in S : \A y \in S : x >= y
  <2> HIDE DEF S
  <2> QED
    BY <1>1, <1>2, LargestOfThree
<1>4. Restored(n) = CHOOSE x \in S : \A y \in S : x >= y
  BY DEF Restored, Max, T
<1> HIDE DEF S
<1> QED
  BY <1>3, <1>4

\* The loop keeps its types under every step.
LEMMA LoopTypeStep ==
  LedgerTyped /\ LoopTyped /\ Numbered /\ [Next]_vars => LoopTyped'
<1> SUFFICES ASSUME LedgerTyped, LoopTyped, Numbered, [Next]_vars PROVE LoopTyped'
  OBVIOUS
<1> DEFINE Lives == Settled \cup {"ready", "running", "parked", "timed"}
<1>0. \A n \in Nodes : w[n] \in WorkerType
  BY DEF LoopTyped
<1>1. ASSUME NEW n \in Nodes, Launch(n) PROVE LoopTyped'
  <2> DEFINE left == IF Retry[n] > used[n] THEN Retry[n] - used[n] ELSE 0
             r == [Idle EXCEPT !.at = "estimate", !.attempt = 1, !.base = used[n], !.retry = left]
  <2>1. r \in WorkerType /\ r.at = "estimate"
    <3>1. left \in Nat /\ used[n] \in Nat
      BY AttemptAssumption DEF LoopTyped
    <3> HIDE DEF left
    <3> QED
      BY <3>1, IdleType DEF WorkerType, Ats, Whys
  <2> HIDE DEF r
  <2>2. w' = [w EXCEPT ![n] = r] /\ life' = [life EXCEPT ![n] = "running"]
    BY <1>1 DEF Launch, r
  <2>3. w' \in [Nodes -> WorkerType]
    BY <2>1, <2>2 DEF LoopTyped
  <2>4. \A m \in Nodes : w'[m].at # "idle" <=> life'[m] = "running"
    BY <2>1, <2>2 DEF LoopTyped
  <2>5. life' \in [Nodes -> Lives]
    BY <2>2 DEF LoopTyped
  <2>6. UNCHANGED <<used, history, annotations, stash, count, canceled, results, execs, debris>>
    BY <1>1 DEF Launch, disk, ghost
  <2> QED
    BY <2>3, <2>4, <2>5, <2>6 DEF LoopTyped
<1>2. ASSUME NEW n \in Nodes, NEW l \in Ats \ {"idle"}, w[n].at # "idle", Goto(n, l),
             UNCHANGED <<sched, count, canceled, results, execs>>,
             debris' \in [Nodes -> Nat]
      PROVE  LoopTyped'
  <2>1. [w[n] EXCEPT !.at = l] \in WorkerType
    BY <1>0 DEF WorkerType
  <2>2. w' = [w EXCEPT ![n] = [w[n] EXCEPT !.at = l]] /\ [w[n] EXCEPT !.at = l].at = l
    BY <1>0, <1>2 DEF Goto, WorkerType
  <2>3. count' \in [Nodes -> Nat] /\ canceled' \in BOOLEAN
    BY <1>2 DEF LoopTyped
  <2> HIDE DEF Goto
  <2> QED
    BY <1>2, <2>1, <2>2, <2>3, MovesType
<1>3. ASSUME NEW n \in Nodes, Estimate(n) PROVE LoopTyped'
  <2>1. /\ w[n].at = "estimate" /\ UNCHANGED <<sched, count, canceled, results, execs, debris>>
        /\ debris' \in [Nodes -> Nat]
    BY <1>3 DEF Estimate, disk, ghost, LoopTyped
  <2>2. PICK e \in Estimates(n) :
          \/ Goto(n, "refused")
          \/ w' = [w EXCEPT ![n].at = "decide", ![n].est = Claim({}, 0), ![n].need = 0]
          \/ w' = [w EXCEPT ![n].at = "defer", ![n].why = "saturated"]
          \/ e.verdict = "claim"
             /\ w' = [w EXCEPT ![n].at = "decide", ![n].est = Counted(e.claim), ![n].need = e.need]
    BY <1>3 DEF Estimate, Goto
  <2>3. CASE Goto(n, "refused")
    BY <1>2, <2>1, <2>3 DEF Ats
  <2>4. ASSUME NEW x \in EstType, NEW k \in Nat,
               w' = [w EXCEPT ![n].at = "decide", ![n].est = x, ![n].need = k]
        PROVE  LoopTyped'
    <3> DEFINE r == [w[n] EXCEPT !.at = "decide", !.est = x, !.need = k]
    <3>1. r \in WorkerType /\ r.at = "decide"
      BY <1>0 DEF WorkerType, Ats, Whys
    <3>2. w' = [w EXCEPT ![n] = r]
      BY <2>4
    <3> HIDE DEF r
    <3> QED
      BY <2>1, <3>1, <3>2, MovesType DEF LoopTyped
  <2>5. CASE w' = [w EXCEPT ![n].at = "defer", ![n].why = "saturated"]
    <3> DEFINE r == [w[n] EXCEPT !.at = "defer", !.why = "saturated"]
    <3>1. r \in WorkerType /\ r.at = "defer"
      BY <1>0 DEF WorkerType, Ats, Whys
    <3>2. w' = [w EXCEPT ![n] = r]
      BY <2>5
    <3> HIDE DEF r
    <3> QED
      BY <2>1, <3>1, <3>2, MovesType DEF LoopTyped
  <2>6. Claim({}, 0) \in EstType
    BY MeterAssumption DEF Claim, EstType
  <2> QED
    BY <2>2, <2>3, <2>4, <2>5, <2>6, EstimateType
<1>4. ASSUME NEW n \in Nodes, Decide(n) PROVE LoopTyped'
  <2>1. /\ w[n].at = "decide" /\ UNCHANGED <<sched, count, canceled, results, execs, debris>>
        /\ debris' \in [Nodes -> Nat]
    BY <1>4 DEF Decide, disk, ghost, LoopTyped
  <2>2. \/ Goto(n, "refused") \/ Goto(n, Admitted(n))
        \/ w' = [w EXCEPT ![n].at = "defer", ![n].why = "contended"]
    BY <1>4 DEF Decide
  <2>3. CASE w' = [w EXCEPT ![n].at = "defer", ![n].why = "contended"]
    <3> DEFINE r == [w[n] EXCEPT !.at = "defer", !.why = "contended"]
    <3>1. r \in WorkerType /\ r.at = "defer"
      BY <1>0 DEF WorkerType, Ats, Whys
    <3>2. w' = [w EXCEPT ![n] = r]
      BY <2>3
    <3> HIDE DEF r
    <3> QED
      BY <2>1, <3>1, <3>2, MovesType DEF LoopTyped
  <2> QED
    BY <1>2, <2>1, <2>2, <2>3 DEF Ats, Admitted
<1>5. ASSUME NEW n \in Nodes, LoopHead(n) \/ StartBox(n) PROVE LoopTyped'
  <2>1. /\ w[n].at # "idle" /\ UNCHANGED <<sched, count, canceled, results, execs, debris>>
        /\ debris' \in [Nodes -> Nat]
    BY <1>5 DEF LoopHead, StartBox, disk, ghost, LoopTyped
  <2>2. \E l \in {"canceled", "box", "estimate", "running"} : Goto(n, l)
    BY <1>5 DEF LoopHead, StartBox
  <2> QED
    BY <1>2, <2>1, <2>2 DEF Ats
<1>6. ASSUME NEW n \in Nodes, NEW st \in Outcomes, NEW usage \in Usages \cup {-1},
             FinishBox(n, st, usage)
      PROVE  LoopTyped'
  <2> DEFINE cost == Cost(n, IF st = "rate-limit" THEN "failed" ELSE st, usage)
             converted == st = "rate-limit" /\ Classifies(n)
             at == IF converted THEN "clean-defer"
                   ELSE IF st \in {"ok", "halted"} THEN st ELSE "clean"
             why == IF converted THEN "rate-limit" ELSE w[n].why
             r == [w[n] EXCEPT !.costs = satPlus(w[n].costs, cost), !.at = at, !.why = why]
  <2>1. /\ w[n].at = "running" /\ UNCHANGED <<sched, canceled, results, execs>>
        /\ w' = [w EXCEPT ![n] = r]
        /\ count' = IF converted THEN [count EXCEPT ![n] = @ + 1] ELSE count
        /\ debris' = [debris EXCEPT ![n] = IF st \in {"ok", "halted"} THEN 0
                                           ELSE w[n].base + w[n].attempt]
    BY <1>6 DEF FinishBox, disk
  <2>2. satPlus(w[n].costs, cost) \in Amounts
    BY <1>0, CostType, SatType DEF WorkerType
  <2>3. at \in Ats \ {"idle"}
    BY AttemptAssumption DEF Ats
  <2>4. why \in Whys
    BY <1>0 DEF WorkerType, Whys
  <2> HIDE DEF cost, converted, at, why
  <2>5. r \in WorkerType /\ r.at = at
    BY <1>0, <2>2, <2>3, <2>4 DEF WorkerType
  <2>7. count' \in [Nodes -> Nat] /\ canceled' \in BOOLEAN
    BY <2>1 DEF LoopTyped
  <2>8. w[n].base + w[n].attempt \in Nat
    BY <1>0 DEF WorkerType
  <2>6. debris' \in [Nodes -> Nat]
    BY <2>1, <2>8 DEF LoopTyped
  <2> HIDE DEF r
  <2> QED
    BY <2>1, <2>3, <2>5, <2>6, <2>7, MovesType
<1>7. ASSUME NEW n \in Nodes, Cleanup(n) \/ CleanupAfterDefer(n) PROVE LoopTyped'
  <2>1. /\ w[n].at # "idle" /\ UNCHANGED <<sched, count, canceled, results, execs>>
        /\ debris' = [debris EXCEPT ![n] = 0]
    BY <1>7 DEF Cleanup, CleanupAfterDefer, disk
  <2>4. debris' \in [Nodes -> Nat]
    BY <2>1 DEF LoopTyped
  <2>2. CASE w' = [w EXCEPT ![n].at = "head", ![n].attempt = @ + 1, ![n].failures = @ + 1]
    <3> DEFINE i == w[n].attempt + 1
               j == w[n].failures + 1
               r == [w[n] EXCEPT !.at = "head", !.attempt = i, !.failures = j]
    <3>2. w' = [w EXCEPT ![n] = r]
      BY <2>2
    <3>0. i \in Nat /\ j \in Nat
      BY <1>0 DEF WorkerType
    <3> HIDE DEF i, j
    <3>1. r \in WorkerType /\ r.at = "head"
      BY <1>0, <3>0 DEF WorkerType, Ats, Whys
    <3> HIDE DEF r
    <3> QED
      BY <2>1, <2>4, <3>1, <3>2, MovesType DEF LoopTyped
  <2>3. \/ Goto(n, "failed") \/ Goto(n, "defer")
        \/ w' = [w EXCEPT ![n].at = "head", ![n].attempt = @ + 1, ![n].failures = @ + 1]
    BY <1>7 DEF Cleanup, CleanupAfterDefer, Goto
  <2> QED
    BY <1>2, <2>1, <2>2, <2>3, <2>4 DEF Ats
<1>8. ASSUME NEW n \in Nodes, FoldDeferred(n) PROVE LoopTyped'
  <2>1. /\ w' = [w EXCEPT ![n] = Idle] /\ w[n].at = "defer"
        /\ UNCHANGED <<count, canceled, results, execs, debris>>
    BY <1>8 DEF FoldDeferred, disk, ghost
  <2>2. used' \in [Nodes -> Nat]
    BY <1>0, <1>8 DEF FoldDeferred, LoopTyped, WorkerType
  <2>7. annotations' \in [Nodes -> Seq(Whys)]
    <3>1. annotations' = [annotations EXCEPT ![n] = Append(annotations[n], w[n].why)]
      BY <1>8 DEF FoldDeferred
    <3>2. w[n].why \in Whys /\ annotations[n] \in Seq(Whys)
      BY <1>0 DEF LoopTyped, WorkerType
    <3> QED
      BY <3>1, <3>2 DEF LoopTyped
  <2>3. history' \in [Nodes -> Seq(Nat \ {0})]
    <3>1. history' = [history EXCEPT ![n] = history[n] \o Failures(n)]
      BY <1>8 DEF FoldDeferred
    <3>2. history[n] \o Failures(n) \in Seq(Nat \ {0})
      BY FailuresType DEF LoopTyped
    <3> QED
      BY <3>1, <3>2 DEF LoopTyped
  <2>4. stash' \in [Nodes -> Amounts]
    <3>1. stash' = [stash EXCEPT ![n] = satPlus(stash[n], w[n].costs)]
      BY <1>8 DEF FoldDeferred
    <3>2. satPlus(stash[n], w[n].costs) \in Amounts
      BY <1>0, SatType DEF LoopTyped, WorkerType
    <3> QED
      BY <3>1, <3>2 DEF LoopTyped
  <2>5. /\ life' \in [Nodes -> Lives]
        /\ \A m \in Nodes : life'[m] = "running" <=> (m # n /\ life[m] = "running")
    <3> DEFINE f(l) == [life EXCEPT ![n] = l]
    <3>1. PICK l \in {"timed", "parked"} : life' = Woken(f(l)) \/ life' = f(l)
      BY <1>8 DEF FoldDeferred
    <3>2. f(l) \in [Nodes -> Lives]
      BY DEF LoopTyped
    <3>3. \A m \in Nodes : f(l)[m] = "running" <=> (m # n /\ life[m] = "running")
      BY DEF LoopTyped
    <3> HIDE DEF f
    <3>4. CASE life' = f(l)
      BY <3>2, <3>3, <3>4
    <3>5. CASE life' = Woken(f(l))
      BY <3>2, <3>3, <3>5, WokenType
    <3> QED
      BY <3>1, <3>4, <3>5
  <2>6. /\ w' \in [Nodes -> WorkerType]
        /\ \A m \in Nodes : w'[m].at # "idle" <=> life'[m] = "running"
    BY <2>1, <2>5, IdleType DEF LoopTyped, Idle
  <2> QED
    BY <2>1, <2>2, <2>3, <2>4, <2>5, <2>6, <2>7 DEF LoopTyped
<1>9. ASSUME NEW n \in Nodes, FoldSettled(n) PROVE LoopTyped'
  <2>1. /\ w' = [w EXCEPT ![n] = Idle]
        /\ UNCHANGED <<used, history, annotations, stash, canceled, execs, debris>>
        /\ life' = Woken([life EXCEPT ![n] = Status(n)])
    BY <1>9 DEF FoldSettled
  <2>2. count' \in [Nodes -> Nat]
    BY <1>9 DEF FoldSettled, LoopTyped
  <2>3. results' \in [Nodes -> [BOOLEAN -> RecordType]]
    <3> DEFINE s == history[n] \o Failures(n) \o [i \in 1..Len(annotations[n]) |-> 0]
               r == [status |-> Status(n), attempt |-> w[n].attempt + used[n], attempts |-> s]
    <3>1. history[n] \in Seq(Nat) /\ Failures(n) \in Seq(Nat)
      BY FailuresType DEF LoopTyped
    <3>2. [i \in 1..Len(annotations[n]) |-> 0] \in Seq(Nat)
      BY DEF LoopTyped
    <3>3. s \in Seq(Nat)
      BY <3>1, <3>2
    <3>4. r \in RecordType
      <4>1. w[n].attempt + used[n] \in Nat
        BY <1>0 DEF WorkerType, LoopTyped
      <4>2. Status(n) \in Settled
        BY DEF Status, Settled
      <4> HIDE DEF s
      <4> QED
        BY <3>3, <4>1, <4>2 DEF RecordType
    <3>5. results' = [results EXCEPT ![n][Executed(n)] = r] /\ Executed(n) \in BOOLEAN
      BY <1>9 DEF FoldSettled, Executed
    <3> HIDE DEF r
    <3> QED
      BY <3>4, <3>5 DEF LoopTyped
  <2>4. /\ life' \in [Nodes -> Lives]
        /\ \A m \in Nodes : life'[m] = "running" <=> (m # n /\ life[m] = "running")
    <3> DEFINE f == [life EXCEPT ![n] = Status(n)]
    <3>1. f \in [Nodes -> Lives]
      BY DEF LoopTyped, Status, Settled
    <3>2. \A m \in Nodes : f[m] = "running" <=> (m # n /\ life[m] = "running")
      BY DEF LoopTyped, Status
    <3>3. life' = Woken(f)
      BY <2>1
    <3> HIDE DEF f
    <3> QED
      BY <3>1, <3>2, <3>3, WokenType
  <2>5. /\ w' \in [Nodes -> WorkerType]
        /\ \A m \in Nodes : w'[m].at # "idle" <=> life'[m] = "running"
    BY <2>1, <2>4, IdleType DEF LoopTyped, Idle
  <2> QED
    BY <2>1, <2>2, <2>3, <2>4, <2>5 DEF LoopTyped
<1>10. ASSUME NEW n \in Nodes, Wake(n) PROVE LoopTyped'
  BY <1>10 DEF Wake, LoopTyped, disk, ghost
<1>11. CASE Cancel
  BY <1>11 DEF Cancel, LoopTyped, disk, ghost, sched
<1>12. CASE Resume
  <2>1. count' \in [Nodes -> Nat]
    BY <1>12, RestoredType DEF Resume
  <2>2. used' \in [Nodes -> Nat] /\ canceled' \in BOOLEAN
    BY <1>12 DEF Resume
  <2>8. history' \in [Nodes -> Seq(Nat \ {0})]
    BY <1>12 DEF Resume
  <2>9. annotations' \in [Nodes -> Seq(Whys)]
    BY <1>12 DEF Resume
  <2>3. stash' \in [Nodes -> Amounts]
    BY <1>12, NoneType DEF Resume
  <2>4. life' \in [Nodes -> Lives] /\ \A n \in Nodes : life'[n] # "running"
    BY <1>12 DEF Resume, Settled
  <2>5. \A n \in Nodes : w[n].at = "idle"
    BY <1>12 DEF Resume, Ended, Outstanding
  <2>6. execs' \in 1..MaxExecs
    BY <1>12, AttemptAssumption DEF Resume, LoopTyped
  <2>7. UNCHANGED <<w, results, debris>>
    BY <1>12 DEF Resume, ghost
  <2> QED
    BY <2>1, <2>2, <2>3, <2>4, <2>5, <2>6, <2>7, <2>8, <2>9 DEF LoopTyped
<1>13. CASE Over \/ UNCHANGED vars
  BY <1>13 DEF Over, vars, LoopTyped, sched, disk, ghost
<1> QED
  BY <1>1, <1>3, <1>4, <1>5, <1>6, <1>7, <1>8, <1>9, <1>10, <1>11, <1>12, <1>13 DEF Next, Step

-----------------------------------------------------------------------------
(* Attempts and their numbers                                              *)

\* What Numbered says of one step.
NumberedAt(n) ==
  /\ used[n] <= Retry[n] /\ Len(history[n]) = used[n]
  /\ w[n].at = "idle" => w[n] = Idle
  /\ w[n].at # "idle" => /\ w[n].base = used[n] /\ w[n].retry = Retry[n] - used[n]
                         /\ w[n].attempt = w[n].failures + 1
                         /\ w[n].failures <= w[n].retry
  /\ debris[n] # 0 => w[n].at \in {"clean", "clean-defer"}

\* A step that is left alone stays numbered.
LEMMA LeftAlone ==
  ASSUME Numbered, NEW n \in Nodes, w'[n] = w[n], used'[n] = used[n],
         history'[n] = history[n], debris'[n] = debris[n]
  PROVE  NumberedAt(n)'
BY DEF Numbered, NumberedAt

\* Whatever a worker does, its numbers keep adding up.
LEMMA NumberedStep ==
  LoopTyped /\ Numbered /\ [Next]_vars => Numbered'
<1> SUFFICES ASSUME LoopTyped, Numbered, [Next]_vars PROVE Numbered'
  OBVIOUS
<1>0. ASSUME NEW n \in Nodes
      PROVE  /\ NumberedAt(n) /\ w[n] \in WorkerType /\ used[n] \in Nat /\ Retry[n] \in Nat
             /\ debris[n] \in Nat /\ history[n] \in Seq(Nat \ {0})
  BY AttemptAssumption DEF Numbered, NumberedAt, LoopTyped
<1>1. ASSUME UNCHANGED <<w, used, history, debris>> PROVE Numbered'
  BY <1>1 DEF Numbered
<1>2. ASSUME NEW n \in Nodes, NumberedAt(n)',
             \E r : w' = [w EXCEPT ![n] = r],
             used' = [used EXCEPT ![n] = used'[n]],
             history' = [history EXCEPT ![n] = history'[n]],
             debris' = [debris EXCEPT ![n] = debris'[n]]
      PROVE  Numbered'
  <2>1. ASSUME NEW m \in Nodes, m # n PROVE NumberedAt(m)'
    <3>1. /\ w'[m] = w[m] /\ used'[m] = used[m] /\ history'[m] = history[m]
          /\ debris'[m] = debris[m]
      BY <1>2, <2>1 DEF LoopTyped
    <3> QED
      BY <3>1, LeftAlone
  <2>2. \A m \in Nodes : NumberedAt(m)'
    BY <1>2, <2>1
  <2> QED
    BY <2>2 DEF Numbered, NumberedAt
<1>3. ASSUME NEW n \in Nodes, w[n].at \notin {"idle", "clean", "clean-defer"}, UNCHANGED <<used, history, debris>>,
             NEW r \in WorkerType, w' = [w EXCEPT ![n] = r],
             r.at # "idle", r.attempt = w[n].attempt, r.base = w[n].base,
             r.retry = w[n].retry, r.failures = w[n].failures
      PROVE  Numbered'
  <2>1. w'[n] = r
    BY <1>3 DEF LoopTyped
  <2>2. NumberedAt(n)'
    BY <1>0, <1>3, <2>1 DEF NumberedAt
  <2> QED
    BY <1>2, <1>3, <2>2 DEF LoopTyped
<1>4. ASSUME NEW n \in Nodes, Launch(n) PROVE Numbered'
  <2>1. /\ w' = [w EXCEPT ![n] = [Idle EXCEPT !.at = "estimate", !.attempt = 1,
                     !.base = used[n],
                     !.retry = IF Retry[n] > used[n] THEN Retry[n] - used[n] ELSE 0]]
        /\ UNCHANGED <<used, history, debris>> /\ life[n] = "ready"
    BY <1>4 DEF Launch, ghost
  <2>2. w[n].at = "idle"
    BY <2>1 DEF LoopTyped
  <2>3. /\ w'[n].at = "estimate" /\ w'[n].attempt = 1 /\ w'[n].failures = 0
        /\ w'[n].base = used[n] /\ w'[n].retry = Retry[n] - used[n]
    <3>1. (IF Retry[n] > used[n] THEN Retry[n] - used[n] ELSE 0) = Retry[n] - used[n]
      BY <1>0 DEF NumberedAt
    <3> QED
      BY <2>1, <3>1 DEF LoopTyped, Idle
  <2>4. NumberedAt(n)'
    BY <1>0, <2>1, <2>2, <2>3 DEF NumberedAt
  <2> QED
    BY <1>2, <2>1, <2>4 DEF LoopTyped
<1>5. ASSUME NEW n \in Nodes, NEW l \in Ats \ {"idle"},
             w[n].at \notin {"idle", "clean", "clean-defer"}, Goto(n, l),
             UNCHANGED <<used, history, debris>>
      PROVE  Numbered'
  <2> DEFINE r == [w[n] EXCEPT !.at = l]
  <2>1. /\ r \in WorkerType /\ r.at = l /\ r.attempt = w[n].attempt /\ r.base = w[n].base
        /\ r.retry = w[n].retry /\ r.failures = w[n].failures
    BY <1>0 DEF WorkerType
  <2>2. w' = [w EXCEPT ![n] = r]
    BY <1>5 DEF Goto
  <2> HIDE DEF r
  <2> QED
    BY <1>3, <1>5, <2>1, <2>2
<1>6. ASSUME NEW n \in Nodes, Estimate(n) PROVE Numbered'
  <2>1. /\ w[n].at = "estimate" /\ UNCHANGED <<used, history, debris>>
    BY <1>6 DEF Estimate, sched, ghost
  <2>2. PICK e \in Estimates(n) :
          \/ Goto(n, "refused")
          \/ w' = [w EXCEPT ![n].at = "decide", ![n].est = Claim({}, 0), ![n].need = 0]
          \/ w' = [w EXCEPT ![n].at = "defer", ![n].why = "saturated"]
          \/ e.verdict = "claim"
             /\ w' = [w EXCEPT ![n].at = "decide", ![n].est = Counted(e.claim), ![n].need = e.need]
    BY <1>6 DEF Estimate, Goto
  <2>3. CASE Goto(n, "refused")
    BY <1>5, <2>1, <2>3 DEF Ats
  <2>4. ASSUME NEW x \in EstType, NEW k \in Nat,
               w' = [w EXCEPT ![n].at = "decide", ![n].est = x, ![n].need = k]
        PROVE  Numbered'
    <3> DEFINE r == [w[n] EXCEPT !.at = "decide", !.est = x, !.need = k]
    <3>1. /\ r \in WorkerType /\ r.at = "decide" /\ r.attempt = w[n].attempt
          /\ r.base = w[n].base /\ r.retry = w[n].retry /\ r.failures = w[n].failures
      BY <1>0 DEF WorkerType, Ats
    <3>2. w' = [w EXCEPT ![n] = r]
      BY <2>4
    <3> HIDE DEF r
    <3> QED
      BY <1>3, <2>1, <3>1, <3>2
  <2>5. CASE w' = [w EXCEPT ![n].at = "defer", ![n].why = "saturated"]
    <3> DEFINE r == [w[n] EXCEPT !.at = "defer", !.why = "saturated"]
    <3>1. /\ r \in WorkerType /\ r.at = "defer" /\ r.attempt = w[n].attempt
          /\ r.base = w[n].base /\ r.retry = w[n].retry /\ r.failures = w[n].failures
      BY <1>0 DEF WorkerType, Ats, Whys
    <3>2. w' = [w EXCEPT ![n] = r]
      BY <2>5
    <3> HIDE DEF r
    <3> QED
      BY <1>3, <2>1, <3>1, <3>2
  <2>6. Claim({}, 0) \in EstType
    BY MeterAssumption DEF Claim, EstType
  <2> QED
    BY <2>2, <2>3, <2>4, <2>5, <2>6, EstimateType
<1>7. ASSUME NEW n \in Nodes, Decide(n) PROVE Numbered'
  <2>1. w[n].at = "decide" /\ UNCHANGED <<used, history, debris>>
    BY <1>7 DEF Decide, sched, ghost
  <2>2. \/ Goto(n, "refused") \/ Goto(n, Admitted(n))
        \/ w' = [w EXCEPT ![n].at = "defer", ![n].why = "contended"]
    BY <1>7 DEF Decide
  <2>3. CASE w' = [w EXCEPT ![n].at = "defer", ![n].why = "contended"]
    <3> DEFINE r == [w[n] EXCEPT !.at = "defer", !.why = "contended"]
    <3>1. /\ r \in WorkerType /\ r.at = "defer" /\ r.attempt = w[n].attempt
          /\ r.base = w[n].base /\ r.retry = w[n].retry /\ r.failures = w[n].failures
      BY <1>0 DEF WorkerType, Ats, Whys
    <3>2. w' = [w EXCEPT ![n] = r]
      BY <2>3
    <3> HIDE DEF r
    <3> QED
      BY <1>3, <2>1, <3>1, <3>2
  <2> QED
    BY <1>5, <2>1, <2>2, <2>3 DEF Ats, Admitted
<1>8. ASSUME NEW n \in Nodes, LoopHead(n) \/ StartBox(n) PROVE Numbered'
  <2>1. w[n].at \in {"head", "box"} /\ UNCHANGED <<used, history, debris>>
    BY <1>8 DEF LoopHead, StartBox, sched, ghost
  <2>2. \E l \in {"canceled", "box", "estimate", "running"} : Goto(n, l)
    BY <1>8 DEF LoopHead, StartBox
  <2> QED
    BY <1>5, <2>1, <2>2 DEF Ats
<1>9. ASSUME NEW n \in Nodes, NEW st \in Outcomes, NEW usage \in Usages \cup {-1},
             FinishBox(n, st, usage)
      PROVE  Numbered'
  <2> DEFINE cost == Cost(n, IF st = "rate-limit" THEN "failed" ELSE st, usage)
             converted == st = "rate-limit" /\ Classifies(n)
             at == IF converted THEN "clean-defer"
                   ELSE IF st \in {"ok", "halted"} THEN st ELSE "clean"
             why == IF converted THEN "rate-limit" ELSE w[n].why
             sum == satPlus(w[n].costs, cost)
             r == [w[n] EXCEPT !.costs = sum, !.at = at, !.why = why]
  <2>1. /\ w[n].at = "running" /\ UNCHANGED <<used, history>>
        /\ w' = [w EXCEPT ![n] = r]
        /\ debris' = [debris EXCEPT ![n] = IF st \in {"ok", "halted"} THEN 0
                                           ELSE w[n].base + w[n].attempt]
    BY <1>9 DEF FinishBox, sched
  <2>2. at # "idle" /\ (st \notin {"ok", "halted"} => at \in {"clean", "clean-defer"})
    BY AttemptAssumption
  <2> HIDE DEF cost, converted, at, why, sum
  <2>3. /\ r.at = at /\ r.attempt = w[n].attempt /\ r.base = w[n].base
        /\ r.retry = w[n].retry /\ r.failures = w[n].failures
    BY <1>0 DEF WorkerType
  <2> HIDE DEF r
  <2>4. w'[n] = r /\ debris'[n] = IF st \in {"ok", "halted"} THEN 0 ELSE w[n].base + w[n].attempt
    BY <2>1 DEF LoopTyped
  <2>5. NumberedAt(n)'
    BY <1>0, <2>1, <2>2, <2>3, <2>4 DEF NumberedAt
  <2> QED
    BY <1>2, <2>1, <2>5 DEF LoopTyped
<1>10. ASSUME NEW n \in Nodes, Cleanup(n) \/ CleanupAfterDefer(n) PROVE Numbered'
  <2>1. /\ w[n].at \in {"clean", "clean-defer"} /\ UNCHANGED <<used, history>>
        /\ debris' = [debris EXCEPT ![n] = 0]
    BY <1>10 DEF Cleanup, CleanupAfterDefer, sched
  <2>2. debris'[n] = 0
    BY <2>1 DEF LoopTyped
  <2>3. \/ \E l \in {"failed", "defer"} : Goto(n, l)
        \/ /\ w[n].attempt # 1 + w[n].retry
           /\ w' = [w EXCEPT ![n].at = "head", ![n].attempt = @ + 1, ![n].failures = @ + 1]
    BY <1>10 DEF Cleanup, CleanupAfterDefer, Goto
  <2>4. ASSUME NEW l \in {"failed", "defer"}, Goto(n, l) PROVE Numbered'
    <3> DEFINE r == [w[n] EXCEPT !.at = l]
    <3>1. /\ r.at = l /\ r.attempt = w[n].attempt /\ r.base = w[n].base
          /\ r.retry = w[n].retry /\ r.failures = w[n].failures
      BY <1>0 DEF WorkerType
    <3>2. w' = [w EXCEPT ![n] = r]
      BY <2>4 DEF Goto
    <3> HIDE DEF r
    <3>3. w'[n] = r
      BY <3>2 DEF LoopTyped
    <3>4. NumberedAt(n)'
      BY <1>0, <2>1, <2>2, <3>1, <3>3 DEF NumberedAt
    <3> QED
      BY <1>2, <2>1, <3>2, <3>4 DEF LoopTyped
  <2>5. ASSUME w[n].attempt # 1 + w[n].retry,
               w' = [w EXCEPT ![n].at = "head", ![n].attempt = @ + 1, ![n].failures = @ + 1]
        PROVE  Numbered'
    <3> DEFINE i == w[n].attempt + 1
               j == w[n].failures + 1
               r == [w[n] EXCEPT !.at = "head", !.attempt = i, !.failures = j]
    <3>1. /\ r.at = "head" /\ r.attempt = i /\ r.base = w[n].base
          /\ r.retry = w[n].retry /\ r.failures = j
      BY <1>0 DEF WorkerType
    <3>2. w' = [w EXCEPT ![n] = r]
      BY <2>5
    <3>3. /\ w[n].attempt \in Nat /\ w[n].failures \in Nat /\ w[n].retry \in Nat
      BY <1>0 DEF WorkerType
    <3> HIDE DEF r
    <3>4. w'[n] = r
      BY <3>2 DEF LoopTyped
    <3>6. /\ w[n].base = used[n] /\ w[n].retry = Retry[n] - used[n]
          /\ i = j + 1 /\ j <= w[n].retry
      BY <1>0, <2>1, <2>5, <3>3 DEF NumberedAt
    <3> HIDE DEF i, j
    <3>5. NumberedAt(n)'
      BY <1>0, <2>1, <2>2, <3>1, <3>4, <3>6 DEF NumberedAt
    <3> QED
      BY <1>2, <2>1, <3>2, <3>5 DEF LoopTyped
  <2> QED
    BY <2>3, <2>4, <2>5
<1>11. ASSUME NEW n \in Nodes, FoldDeferred(n) PROVE Numbered'
  <2>1. /\ w[n].at = "defer" /\ w' = [w EXCEPT ![n] = Idle] /\ UNCHANGED debris
        /\ used' = [used EXCEPT ![n] = used[n] + w[n].failures]
        /\ history' = [history EXCEPT ![n] = history[n] \o Failures(n)]
    BY <1>11 DEF FoldDeferred, ghost
  <2>2. /\ w'[n] = Idle /\ used'[n] = used[n] + w[n].failures
        /\ history'[n] = history[n] \o Failures(n)
    BY <2>1 DEF LoopTyped
  <2>3. Len(history'[n]) = used[n] + w[n].failures
    <3>1. /\ history[n] \in Seq(Nat \ {0}) /\ Len(history[n]) = used[n]
          /\ Failures(n) \in Seq(Nat \ {0}) /\ Len(Failures(n)) = w[n].failures
      BY <1>0, FailuresType DEF NumberedAt
    <3>2. \A f, g \in Seq(Nat \ {0}) : Len(f \o g) = Len(f) + Len(g)
      OBVIOUS
    <3> QED
      BY <2>2, <3>1, <3>2
  <2>4. w[n].failures \in Nat /\ w[n].retry \in Nat
    BY <1>0 DEF WorkerType
  <2>5. NumberedAt(n)'
    BY <1>0, <2>1, <2>2, <2>3, <2>4 DEF NumberedAt, Idle
  <2> QED
    BY <1>2, <2>1, <2>5 DEF LoopTyped
<1>12. ASSUME NEW n \in Nodes, FoldSettled(n) PROVE Numbered'
  <2>1. /\ w' = [w EXCEPT ![n] = Idle] /\ UNCHANGED <<used, history, debris>>
        /\ w[n].at \notin {"idle", "clean", "clean-defer"}
    BY <1>12 DEF FoldSettled
  <2>2. w'[n] = Idle
    BY <2>1 DEF LoopTyped
  <2>3. NumberedAt(n)'
    BY <1>0, <2>1, <2>2 DEF NumberedAt, Idle
  <2> QED
    BY <1>2, <2>1, <2>3 DEF LoopTyped
<1>13. CASE Resume
  <2>1. /\ used' = [n \in Nodes |-> 0] /\ history' = [n \in Nodes |-> <<>>]
        /\ UNCHANGED <<w, debris>> /\ \A n \in Nodes : w[n].at = "idle"
    BY <1>13 DEF Resume, Ended, Outstanding, ghost
  <2>2. ASSUME NEW n \in Nodes PROVE NumberedAt(n)'
    BY <1>0, <2>1 DEF NumberedAt
  <2> QED
    BY <2>2 DEF Numbered, NumberedAt
<1>14. ASSUME NEW n \in Nodes, Wake(n) PROVE Numbered'
  BY <1>1, <1>14 DEF Wake, ghost
<1>15. CASE Cancel \/ Over \/ UNCHANGED vars
  BY <1>1, <1>15 DEF Cancel, Over, vars, sched, ghost
<1> QED
  BY <1>4, <1>6, <1>7, <1>8, <1>9, <1>10, <1>11, <1>12, <1>13, <1>14, <1>15 DEF Next, Step

\* A settled record counts its attempts: one more than the failures it lists.
LEMMA AddsUp ==
  ASSUME NEW h \in Seq(Nat \ {0}), NEW f \in Seq(Nat \ {0}), NEW k \in Nat
  PROVE  LET s == h \o f \o [i \in 1..k |-> 0]
         IN  Cardinality({i \in DOMAIN s : s[i] # 0}) = Len(h) + Len(f)
<1> DEFINE z == [i \in 1..k |-> 0]
           s == h \o f \o z
           l == Len(h) + Len(f)
<1>1. z \in Seq(Nat) /\ Len(z) = k
  OBVIOUS
<1>2. /\ h \o f \in Seq(Nat \ {0}) /\ Len(h \o f) = l /\ l \in Nat
      /\ \A i \in 1..l : (h \o f)[i] \in Nat \ {0}
  OBVIOUS
<1>3. \A i \in 1..k : z[i] = 0
  OBVIOUS
<1>4. DOMAIN s = 1..(l + k)
  BY <1>1, <1>2
<1> DEFINE hf == h \o f
<1> HIDE DEF z, hf, l
<1>5. /\ \A i \in 1..l : (hf \o z)[i] # 0
      /\ \A i \in (l + 1)..(l + k) : (hf \o z)[i] = 0
  BY <1>1, <1>2, <1>3 DEF hf
<1>6. s = hf \o z
  BY DEF hf
<1>7. {i \in DOMAIN s : s[i] # 0} = 1..l
  <2> HIDE DEF s
  <2> QED
    BY <1>2, <1>4, <1>5, <1>6
<1>8. Cardinality(1..l) = l
  BY <1>2, FS_Interval
<1> QED
  BY <1>7, <1>8 DEF l, z

\* Only evSettled writes records, and with the numbers of all its dispatches.
LEMMA AddUpStep ==
  LoopTyped /\ Numbered /\ AttemptsAddUp /\ [Next]_vars => AttemptsAddUp'
<1> SUFFICES ASSUME LoopTyped, Numbered, AttemptsAddUp, [Next]_vars PROVE AttemptsAddUp'
  OBVIOUS
<1>1. CASE UNCHANGED results
  BY <1>1 DEF AttemptsAddUp
<1>2. ASSUME NEW n \in Nodes, FoldSettled(n) PROVE AttemptsAddUp'
  <2> DEFINE s == history[n] \o Failures(n) \o [i \in 1..Len(annotations[n]) |-> 0]
             r == [status |-> Status(n), attempt |-> w[n].attempt + used[n], attempts |-> s]
  <2>1. results' = [results EXCEPT ![n][Executed(n)] = r] /\ Executed(n) \in BOOLEAN
    BY <1>2 DEF FoldSettled, Executed
  <2>2. r.attempt = 1 + Cardinality({i \in DOMAIN r.attempts : r.attempts[i] # 0})
    <3>1. /\ history[n] \in Seq(Nat \ {0}) /\ Len(history[n]) = used[n]
          /\ Failures(n) \in Seq(Nat \ {0}) /\ Len(Failures(n)) = w[n].failures
          /\ Len(annotations[n]) \in Nat
      BY FailuresType DEF LoopTyped, Numbered
    <3>2. w[n].attempt = w[n].failures + 1 /\ w[n].failures \in Nat /\ used[n] \in Nat
      BY <1>2 DEF FoldSettled, LoopTyped, Numbered, WorkerType
    <3>3. Cardinality({i \in DOMAIN s : s[i] # 0}) = used[n] + w[n].failures
      BY <3>1, AddsUp
    <3>4. r.attempt = w[n].attempt + used[n] /\ r.attempts = s
      OBVIOUS
    <3> HIDE DEF s, r
    <3> QED
      BY <3>2, <3>3, <3>4
  <2>3. ASSUME NEW m \in Nodes, NEW x \in BOOLEAN
        PROVE  results'[m][x] = results[m][x] \/ results'[m][x] = r
    <3> HIDE DEF r
    <3> QED
      BY <2>1 DEF LoopTyped
  <2> DEFINE Tally(c) == c.attempt = 1 + Cardinality({i \in DOMAIN c.attempts : c.attempts[i] # 0})
  <2>4. \A m \in Nodes, x \in BOOLEAN : results[m][x].status # "none" => Tally(results[m][x])
    BY DEF AttemptsAddUp
  <2>5. Tally(r)
    BY <2>2
  <2> HIDE DEF r
  <2>6. ASSUME NEW m \in Nodes, NEW x \in BOOLEAN, results'[m][x].status # "none"
        PROVE  Tally(results'[m][x])
    <3> HIDE DEF Tally
    <3> QED
      BY <2>3, <2>4, <2>5, <2>6
  <2> QED
    BY <2>6 DEF AttemptsAddUp
<1>3. ASSUME NEW n \in Nodes, Step(n) \/ Wake(n), ~FoldSettled(n) PROVE UNCHANGED results
  BY <1>3 DEF Step, Wake, Launch, Estimate, Decide, LoopHead, StartBox, FinishBox, Cleanup,
              CleanupAfterDefer, FoldDeferred, disk
<1>4. CASE Cancel \/ Resume \/ Over \/ UNCHANGED vars
  BY <1>1, <1>4 DEF Cancel, Resume, Over, vars, disk
<1> QED
  BY <1>1, <1>2, <1>3, <1>4 DEF Next

\* The invariant of the numbers.
NumberInv == LedgerTyped /\ LoopTyped /\ Numbered /\ AttemptsAddUp

\* A run begins with it.
LEMMA NumberInit == Init => NumberInv
<1> SUFFICES ASSUME Init PROVE NumberInv
  OBVIOUS
<1>1. LedgerTyped
  <2>1. None \in Amounts /\ Cardinality({}) = 0
    BY NoneType, FS_EmptySet
  <2>2. /\ spent \in Amounts /\ reserved \in Amounts /\ held \in [Nodes -> Amounts]
        /\ journaled \in Amounts /\ inflight = {}
    BY <2>1 DEF Init, AdmitterInit
  <2>3. /\ bounds \in [Nodes -> SUBSET Int]
        /\ \A n \in Nodes : bounds[n] \subseteq -MaxInt-1..MaxInt /\ Cardinality(bounds[n]) <= 1
    BY <2>1 DEF Init, AdmitterInit
  <2>4. total \in [Units -> Nat]
    BY DEF Init, None
  <2> QED
    BY <2>2, <2>3, <2>4 DEF LedgerTyped, AdmitterTypeOK, Amounts
<1>2. LoopTyped
  <2>1. w \in [Nodes -> WorkerType] /\ stash \in [Nodes -> Amounts]
    BY IdleType, NoneType DEF Init
  <2>2. life \in [Nodes -> {"ready"}] /\ used \in [Nodes -> Nat] /\ count \in [Nodes -> Nat]
    BY DEF Init
  <2>3. debris \in [Nodes -> Nat] /\ canceled \in BOOLEAN
    BY DEF Init
  <2>8. execs \in 1..MaxExecs
    BY AttemptAssumption DEF Init
  <2>4. history \in [Nodes -> Seq(Nat \ {0})]
    BY DEF Init
  <2>5. annotations \in [Nodes -> Seq(Whys)]
    BY DEF Init
  <2>6. results \in [Nodes -> [BOOLEAN -> RecordType]]
    <3>1. NoRecord \in RecordType
      BY DEF NoRecord, RecordType
    <3> QED
      BY <3>1 DEF Init
  <2>7. \A n \in Nodes : w[n].at = "idle" /\ life[n] # "running"
    BY DEF Init, Idle
  <2> QED
    BY <2>1, <2>2, <2>3, <2>4, <2>5, <2>6, <2>7, <2>8 DEF LoopTyped
<1>3. Numbered
  BY AttemptAssumption DEF Init, Numbered, Idle
<1>4. AttemptsAddUp
  BY DEF Init, AttemptsAddUp, NoRecord
<1> QED
  BY <1>1, <1>2, <1>3, <1>4 DEF NumberInv

\* Types and numbers hold throughout every run and all its executions.
THEOREM NumberInvariance == Spec => []NumberInv
<1>1. NumberInv /\ [Next]_vars => NumberInv'
  BY LedgerTypeStep, LoopTypeStep, NumberedStep, AddUpStep DEF NumberInv
<1> QED
  BY <1>1, NumberInit, PTL DEF Spec

\* RunStep, launch and cleanupAfterDefer: however often a step fails, is deferred
\* in between, and is resumed, its attempts are numbered within the retry budget,
\* a record tells exactly the failures before it, and a box starts on a clean slate.
THEOREM FreshCorrect == Spec => []FreshAttempts
<1>1. NumberInv => FreshAttempts
  <2> SUFFICES ASSUME NumberInv PROVE FreshAttempts
    OBVIOUS
  <2>1. AttemptsBounded
    <3> SUFFICES ASSUME NEW n \in Nodes, w[n].at \in {"box", "running"}
                 PROVE  w[n].base + w[n].attempt <= 1 + Retry[n]
      BY DEF AttemptsBounded
    <3>1. /\ w[n].base = used[n] /\ w[n].retry = Retry[n] - used[n]
          /\ w[n].attempt = w[n].failures + 1 /\ w[n].failures <= w[n].retry
      BY DEF NumberInv, Numbered
    <3>2. w[n].failures \in Nat /\ used[n] \in Nat /\ Retry[n] \in Nat
      BY AttemptAssumption DEF NumberInv, LoopTyped, WorkerType
    <3> QED
      BY <3>1, <3>2
  <2>2. CleanSlate
    BY DEF NumberInv, LoopTyped, Numbered, CleanSlate, Settled
  <2> QED
    BY <2>1, <2>2 DEF NumberInv, FreshAttempts
<1> QED
  BY <1>1, NumberInvariance, PTL

-----------------------------------------------------------------------------
(* The ledger                                                              *)

\* Small units: those whose sums never saturate.
Small == {u \in DOMAIN Limit : Limit[u] < MaxInt}
HeldOf(h, u) == [n \in Nodes |-> h[n][u]]

\* What is held of a unit can be summed.
LEMMA HeldType ==
  ASSUME LedgerTyped, NEW u \in DOMAIN Limit
  PROVE  /\ u \in Units /\ \A n \in Nodes : HeldOf(held, u)[n] = held[n][u] /\ held[n][u] \in Nat
         /\ IsFiniteSet(inflight) /\ inflight \subseteq Nodes
         /\ reserved[u] \in 0..MaxInt /\ spent[u] \in 0..MaxInt
         /\ Limit[u] \in 0..MaxInt /\ MaxInt \in Nat
<1>1. u \in Units /\ Limit[u] \in 0..MaxInt /\ MaxInt \in Nat /\ IsFiniteSet(Nodes)
  BY MeterAssumption
<1>2. \A n \in Nodes : held[n][u] \in 0..MaxInt
  BY <1>1 DEF LedgerTyped, AdmitterTypeOK
<1>3. inflight \subseteq Nodes /\ reserved[u] \in 0..MaxInt /\ spent[u] \in 0..MaxInt
  BY <1>1 DEF LedgerTyped, AdmitterTypeOK
<1>4. IsFiniteSet(inflight)
  BY <1>1, <1>3, FS_Subset
<1> QED
  BY <1>1, <1>2, <1>3, <1>4 DEF HeldOf

\* Settle gives back exactly what was held: release's floor never bites.
LEMMA SettleExact ==
  ASSUME LedgerTyped, Holding, LedgerExact, NEW n \in Nodes, NEW cost, Settle(n, cost)
  PROVE  /\ LedgerExact'
         /\ \A u \in Small : reserved'[u] = reserved[u] - held[n][u] /\ held[n][u] <= reserved[u]
<1> SUFFICES ASSUME NEW u \in DOMAIN Limit, Limit[u] < MaxInt
             PROVE  /\ reserved'[u] = SumFunctionOnSet(HeldOf(held', u), inflight')
                    /\ reserved'[u] = reserved[u] - held[n][u] /\ held[n][u] <= reserved[u]
  BY DEF LedgerExact, Small, HeldOf
<1>1. /\ u \in Units /\ IsFiniteSet(inflight) /\ inflight \subseteq Nodes
      /\ \A m \in Nodes : HeldOf(held, u)[m] = held[m][u] /\ held[m][u] \in Nat
      /\ reserved[u] \in Nat
  BY HeldType
<1>2. reserved[u] = SumFunctionOnSet(HeldOf(held, u), inflight)
  BY DEF LedgerExact, HeldOf
<1>3. /\ inflight' = inflight \ {n} /\ held' = [held EXCEPT ![n] = None]
      /\ reserved' = IF n \in inflight THEN Released(held[n]) ELSE reserved
  BY DEF Settle
<1>4. \A m \in inflight \ {n} : HeldOf(held', u)[m] = HeldOf(held, u)[m]
  BY <1>1, <1>3 DEF HeldOf, LedgerTyped, AdmitterTypeOK
<1>5. IsFiniteSet(inflight \ {n})
  BY <1>1, FS_RemoveElement
<1>6. SumFunctionOnSet(HeldOf(held', u), inflight') = SumFunctionOnSet(HeldOf(held, u), inflight \ {n})
  <2>1. \A m \in inflight \ {n} : HeldOf(held, u)[m] \in Int
    BY <1>1
  <2> QED
    BY <1>3, <1>4, <1>5, <2>1, SumSame
<1>7. CASE n \in inflight
  <2>1. reserved[u] = held[n][u] + SumFunctionOnSet(HeldOf(held, u), inflight \ {n})
    <3>1. \A m \in inflight : HeldOf(held, u)[m] \in Int
      BY <1>1
    <3> QED
      BY <1>1, <1>2, <1>7, <3>1, SumTakesAny
  <2>2. held[n][u] <= reserved[u]
    <3>1. \A m \in inflight : HeldOf(held, u)[m] \in Nat
      BY <1>1
    <3> QED
      BY <1>1, <1>2, <1>7, <3>1, SumCovers
  <2>3. reserved'[u] = reserved[u] - held[n][u]
    BY <1>1, <1>3, <1>7, <2>2 DEF Released
  <2>4. SumFunctionOnSet(HeldOf(held, u), inflight \ {n}) \in Nat
    <3>1. \A m \in inflight \ {n} : HeldOf(held, u)[m] \in Nat
      BY <1>1
    <3> QED
      BY <1>5, <3>1, SumCovers
  <2> QED
    BY <1>1, <1>6, <2>1, <2>2, <2>3, <2>4
<1>8. CASE n \notin inflight
  <2>1. inflight \ {n} = inflight /\ reserved' = reserved
    BY <1>3, <1>8
  <2>2. held[n][u] = 0
    BY <1>1, <1>8 DEF Holding, None
  <2>3. SumFunctionOnSet(HeldOf(held', u), inflight') = reserved[u]
    <3>1. SumFunctionOnSet(HeldOf(held, u), inflight \ {n}) = reserved[u]
      BY <1>2, <2>1
    <3> QED
      BY <1>6, <3>1
  <2>4. reserved'[u] = reserved[u] /\ reserved[u] - held[n][u] = reserved[u]
    BY <1>1, <2>1, <2>2
  <2> QED
    BY <1>1, <2>2, <2>3, <2>4
<1> QED
  BY <1>7, <1>8

\* Reserve adds exactly what is held: Admit saw that nothing saturates.
LEMMA ReserveExact ==
  ASSUME LedgerTyped, LedgerExact, NEW n \in Nodes, n \notin inflight, Tier[n] # "none",
         NEW est \in EstType, ~Contends(est), Reserve(n, est)
  PROVE  /\ LedgerExact'
         /\ \A u \in Small : /\ reserved'[u] = reserved[u] + Held(est)[u]
                             /\ u \in est.units => spent[u] + reserved'[u] <= Limit[u]
<1> SUFFICES ASSUME NEW u \in DOMAIN Limit, Limit[u] < MaxInt
             PROVE  /\ reserved'[u] = SumFunctionOnSet(HeldOf(held', u), inflight')
                    /\ reserved'[u] = reserved[u] + Held(est)[u]
                    /\ u \in est.units => spent[u] + reserved'[u] <= Limit[u]
  BY DEF LedgerExact, Small, HeldOf
<1>1. /\ u \in Units /\ IsFiniteSet(inflight) /\ inflight \subseteq Nodes
      /\ \A m \in Nodes : HeldOf(held, u)[m] = held[m][u] /\ held[m][u] \in Nat
      /\ reserved[u] \in 0..MaxInt /\ spent[u] \in 0..MaxInt
      /\ Limit[u] \in 0..MaxInt /\ MaxInt \in Nat
  BY HeldType
<1>2. reserved[u] = SumFunctionOnSet(HeldOf(held, u), inflight)
  BY DEF LedgerExact, HeldOf
<1>3. /\ inflight' = inflight \cup {n} /\ held' = [held EXCEPT ![n] = Held(est)]
      /\ reserved' = satPlus(reserved, Held(est))
  BY DEF Reserve
<1>4. est.amount \in 0..MaxInt /\ Held(est)[u] = IF u \in est.units THEN est.amount ELSE 0
  BY <1>1 DEF EstType, Held
<1>5. reserved'[u] = satAdd(reserved[u], Held(est)[u])
  BY <1>1, <1>3 DEF satPlus
<1>6. ASSUME u \in est.units PROVE spent[u] + reserved[u] + est.amount <= Limit[u]
  <2>1. u \in Budgeted(est)
    BY <1>6 DEF Budgeted
  <2>2. ~(satAdd(satAdd(spent[u], reserved[u]), est.amount) > Limit[u])
    BY <2>1 DEF Contends
  <2> QED
    BY <1>1, <1>4, <2>2 DEF satAdd
<1>7. /\ reserved'[u] = reserved[u] + Held(est)[u] /\ Held(est)[u] \in Nat
      /\ u \in est.units => spent[u] + reserved'[u] <= Limit[u]
  <2>1. CASE u \in est.units
    BY <1>1, <1>4, <1>5, <1>6, <2>1 DEF satAdd
  <2>2. CASE u \notin est.units
    BY <1>1, <1>4, <1>5, <2>2 DEF satAdd
  <2> QED
    BY <2>1, <2>2
<1>8. /\ HeldOf(held', u)[n] = Held(est)[u]
      /\ \A m \in inflight : HeldOf(held', u)[m] = HeldOf(held, u)[m]
  BY <1>1, <1>3 DEF HeldOf, LedgerTyped, AdmitterTypeOK
<1>9. SumFunctionOnSet(HeldOf(held', u), inflight')
        = Held(est)[u] + SumFunctionOnSet(HeldOf(held', u), inflight)
  <2>1. /\ IsFiniteSet(inflight') /\ n \in inflight' /\ inflight' \ {n} = inflight
    BY <1>1, <1>3, FS_AddElement
  <2>2. ASSUME NEW m \in inflight' PROVE HeldOf(held', u)[m] \in Int
    <3>1. CASE m = n
      BY <1>7, <1>8, <3>1
    <3>2. CASE m \in inflight
      BY <1>1, <1>8, <3>2
    <3> QED
      BY <1>3, <3>1, <3>2
  <2>3. SumFunctionOnSet(HeldOf(held', u), inflight')
          = HeldOf(held', u)[n] + SumFunctionOnSet(HeldOf(held', u), inflight' \ {n})
    BY <2>1, <2>2, SumTakesAny
  <2> QED
    BY <1>8, <2>1, <2>3
<1>10. SumFunctionOnSet(HeldOf(held', u), inflight) = reserved[u]
  <2>1. \A m \in inflight : HeldOf(held, u)[m] \in Int
    BY <1>1
  <2> QED
    BY <1>1, <1>2, <1>8, <2>1, SumSame
<1> QED
  BY <1>1, <1>7, <1>9, <1>10

\* A worker that is not about to run a box, or only moves, leaves the ledger as it is.
LEMMA LedgerKept ==
  ASSUME LedgerTyped, LoopTyped, Holding, LedgerExact, NEW n \in Nodes,
         UNCHANGED <<reserved, inflight, held>>, NEW r, w' = [w EXCEPT ![n] = r],
         n \in inflight => /\ r.est = w[n].est
                          /\ r.at \in {"box", "running"}
  PROVE  Holding' /\ LedgerExact'
<1>1. w'[n] = r /\ \A m \in Nodes \ {n} : w'[m] = w[m]
  BY DEF LoopTyped
<1>2. inflight \subseteq Nodes
  BY DEF LedgerTyped, AdmitterTypeOK
<1>3. ReservationsAreBoxes'
  BY <1>1, <1>2 DEF Holding, ReservationsAreBoxes
<1>4. \A m \in inflight' : w'[m].at = "head" => w'[m].attempt = 1
  BY <1>1, <1>2 DEF Holding
<1>5. \A m \in Nodes : held'[m] = IF m \in inflight' THEN Held(w'[m].est) ELSE None
  BY <1>1, <1>2 DEF Holding
<1> QED
  BY <1>3, <1>4, <1>5 DEF Holding, LedgerExact

\* Settling leaves the others' boxes with what they hold.
LEMMA SettleHolds ==
  ASSUME LedgerTyped, LoopTyped, Holding, LedgerExact, NEW n \in Nodes, NEW cost,
         Settle(n, cost), NEW r, w' = [w EXCEPT ![n] = r]
  PROVE  Holding' /\ LedgerExact'
<1>1. w'[n] = r /\ \A m \in Nodes \ {n} : w'[m] = w[m]
  BY DEF LoopTyped
<1>2. inflight' = inflight \ {n} /\ inflight \subseteq Nodes
  BY DEF LedgerTyped, AdmitterTypeOK, Settle
<1>3. held' = [held EXCEPT ![n] = None] /\ held \in [Nodes -> Amounts]
  BY DEF LedgerTyped, AdmitterTypeOK, Settle, Amounts
<1>4. ReservationsAreBoxes'
  BY <1>1, <1>2 DEF Holding, ReservationsAreBoxes
<1>5. \A m \in inflight' : w'[m].at = "head" => w'[m].attempt = 1
  BY <1>1, <1>2 DEF Holding
<1>6. \A m \in Nodes : held'[m] = IF m \in inflight' THEN Held(w'[m].est) ELSE None
  BY <1>1, <1>2, <1>3 DEF Holding
<1> QED
  BY <1>4, <1>5, <1>6, SettleExact DEF Holding

\* On every path out of a dispatch the ledger stays the sum of the boxes in flight.
LEMMA LedgerStep ==
  LedgerTyped /\ LoopTyped /\ Holding /\ LedgerExact /\ [Next]_vars => Holding' /\ LedgerExact'
<1> SUFFICES ASSUME LedgerTyped, LoopTyped, Holding, LedgerExact, [Next]_vars
             PROVE  Holding' /\ LedgerExact'
  OBVIOUS
<1>0. \A n \in Nodes : w[n] \in WorkerType
  BY DEF LoopTyped
<1>1. CASE UNCHANGED <<reserved, inflight, held, w>>
  BY <1>1 DEF Holding, ReservationsAreBoxes, LedgerExact
<1>2. ASSUME NEW n \in Nodes, w[n].at \notin {"head", "box", "running"},
             UNCHANGED <<reserved, inflight, held>>, NEW r, w' = [w EXCEPT ![n] = r]
      PROVE  Holding' /\ LedgerExact'
  <2>1. n \notin inflight
    BY <1>2 DEF Holding, ReservationsAreBoxes
  <2> QED
    BY <1>2, <2>1, LedgerKept
<1>3. ASSUME NEW n \in Nodes, Launch(n) PROVE Holding' /\ LedgerExact'
  <2>1. /\ UNCHANGED ledger /\ life[n] = "ready"
        /\ w' = [w EXCEPT ![n] = [Idle EXCEPT !.at = "estimate", !.attempt = 1, !.base = used[n],
                     !.retry = IF Retry[n] > used[n] THEN Retry[n] - used[n] ELSE 0]]
    BY <1>3 DEF Launch
  <2>2. w[n].at = "idle" /\ UNCHANGED <<reserved, inflight, held>>
    BY <2>1 DEF LoopTyped, ledger
  <2> QED
    BY <1>2, <2>1, <2>2
<1>4. ASSUME NEW n \in Nodes, Estimate(n) PROVE Holding' /\ LedgerExact'
  <2>1. w[n].at = "estimate" /\ UNCHANGED <<reserved, inflight, held>>
    BY <1>4 DEF Estimate
  <2>2. PICK e \in Estimates(n) :
          \/ w' = [w EXCEPT ![n].at = "refused"]
          \/ w' = [w EXCEPT ![n].at = "decide", ![n].est = Claim({}, 0), ![n].need = 0]
          \/ w' = [w EXCEPT ![n].at = "defer", ![n].why = "saturated"]
          \/ w' = [w EXCEPT ![n].at = "decide", ![n].est = Counted(e.claim), ![n].need = e.need]
    BY <1>4 DEF Estimate
  <2>3. CASE w' = [w EXCEPT ![n].at = "refused"]
    <3>1. w' = [w EXCEPT ![n] = [w[n] EXCEPT !.at = "refused"]]
      BY <2>3
    <3> QED
      BY <1>2, <2>1, <3>1
  <2>4. CASE w' = [w EXCEPT ![n].at = "decide", ![n].est = Claim({}, 0), ![n].need = 0]
    <3>1. w' = [w EXCEPT ![n] = [w[n] EXCEPT !.at = "decide", !.est = Claim({}, 0), !.need = 0]]
      BY <2>4
    <3> QED
      BY <1>2, <2>1, <3>1
  <2>5. CASE w' = [w EXCEPT ![n].at = "defer", ![n].why = "saturated"]
    <3>1. w' = [w EXCEPT ![n] = [w[n] EXCEPT !.at = "defer", !.why = "saturated"]]
      BY <2>5
    <3> QED
      BY <1>2, <2>1, <3>1
  <2>6. CASE w' = [w EXCEPT ![n].at = "decide", ![n].est = Counted(e.claim), ![n].need = e.need]
    <3>1. w' = [w EXCEPT ![n] = [w[n] EXCEPT !.at = "decide", !.est = Counted(e.claim),
                                             !.need = e.need]]
      BY <2>6
    <3> QED
      BY <1>2, <2>1, <3>1
  <2> QED
    BY <2>2, <2>3, <2>4, <2>5, <2>6
<1>5. ASSUME NEW n \in Nodes, Decide(n) PROVE Holding' /\ LedgerExact'
  <2>1. w[n].at = "decide"
    BY <1>5 DEF Decide
  <2>2. CASE Goto(n, "refused") /\ UNCHANGED <<reserved, inflight, held>>
    <3>1. w' = [w EXCEPT ![n] = [w[n] EXCEPT !.at = "refused"]]
      BY <2>2 DEF Goto
    <3> QED
      BY <1>2, <2>1, <2>2, <3>1
  <2>3. CASE /\ w' = [w EXCEPT ![n].at = "defer", ![n].why = "contended"]
             /\ UNCHANGED <<reserved, inflight, held>>
    <3>1. w' = [w EXCEPT ![n] = [w[n] EXCEPT !.at = "defer", !.why = "contended"]]
      BY <2>3
    <3> QED
      BY <1>2, <2>1, <2>3, <3>1
  <2>4. CASE Goto(n, Admitted(n)) /\ Reserve(n, w[n].est) /\ ~Contends(w[n].est)
    <3> DEFINE r == [w[n] EXCEPT !.at = Admitted(n)]
    <3>1. w' = [w EXCEPT ![n] = r]
      BY <2>4 DEF Goto
    <3>2. CASE Tier[n] = "none"
      <4>1. UNCHANGED <<reserved, inflight, held>>
        BY <2>4, <3>2 DEF Reserve, ledger
      <4> QED
        BY <1>2, <2>1, <3>1, <4>1
    <3>3. CASE Tier[n] # "none"
      <4>1. n \notin inflight /\ w[n].est \in EstType
        BY <1>0, <2>1 DEF Holding, ReservationsAreBoxes, WorkerType
      <4>2. LedgerExact'
        BY <2>4, <3>3, <4>1, ReserveExact
      <4>3. /\ inflight' = inflight \cup {n} /\ inflight \subseteq Nodes
            /\ held' = [held EXCEPT ![n] = Held(w[n].est)] /\ held \in [Nodes -> Amounts]
        BY <2>4, <3>3 DEF Reserve, LedgerTyped, AdmitterTypeOK, Amounts
      <4>4. /\ r.est = w[n].est /\ r.at \in {"head", "box"}
            /\ r.at = "head" => r.attempt = 1
        BY <1>0 DEF WorkerType, Admitted
      <4> HIDE DEF r
      <4>5. w'[n] = r /\ \A m \in Nodes \ {n} : w'[m] = w[m]
        BY <3>1 DEF LoopTyped
      <4>6. ReservationsAreBoxes'
        BY <4>3, <4>4, <4>5 DEF Holding, ReservationsAreBoxes
      <4>7. \A m \in inflight' : w'[m].at = "head" => w'[m].attempt = 1
        BY <4>3, <4>4, <4>5 DEF Holding
      <4>8. \A m \in Nodes : held'[m] = IF m \in inflight' THEN Held(w'[m].est) ELSE None
        BY <4>3, <4>4, <4>5 DEF Holding
      <4> QED
        BY <4>2, <4>6, <4>7, <4>8 DEF Holding
    <3> QED
      BY <3>2, <3>3
  <2> QED
    BY <1>5, <2>2, <2>3, <2>4 DEF Decide
<1>6. ASSUME NEW n \in Nodes, LoopHead(n) PROVE Holding' /\ LedgerExact'
  <2>1. CASE canceled
    <3>1. /\ Settle(n, Cost(n, "failed", -1))
          /\ w' = [w EXCEPT ![n] = [w[n] EXCEPT !.at = "canceled"]]
      BY <1>6, <2>1 DEF LoopHead, Goto
    <3> QED
      BY <3>1, SettleHolds
  <2>2. CASE ~canceled
    <3> DEFINE l == IF w[n].attempt = 1 THEN "box" ELSE "estimate"
               r == [w[n] EXCEPT !.at = l]
    <3>1. /\ UNCHANGED <<reserved, inflight, held>> /\ w' = [w EXCEPT ![n] = r]
          /\ w[n].at = "head"
      BY <1>6, <2>2 DEF LoopHead, Goto, ledger
    <3>2. r.est = w[n].est /\ r.at = l
      BY <1>0 DEF WorkerType
    <3>3. n \in inflight => l = "box"
      BY <3>1 DEF Holding
    <3> HIDE DEF r, l
    <3> QED
      BY <3>1, <3>2, <3>3, LedgerKept
  <2> QED
    BY <2>1, <2>2
<1>7. ASSUME NEW n \in Nodes, StartBox(n) PROVE Holding' /\ LedgerExact'
  <2> DEFINE r == [w[n] EXCEPT !.at = "running"]
  <2>1. UNCHANGED <<reserved, inflight, held>> /\ w' = [w EXCEPT ![n] = r]
    BY <1>7 DEF StartBox, Goto, ledger
  <2>2. r.est = w[n].est /\ r.at = "running"
    BY <1>0 DEF WorkerType
  <2> HIDE DEF r
  <2> QED
    BY <2>1, <2>2, LedgerKept
<1>8. ASSUME NEW n \in Nodes, NEW st \in Outcomes, NEW usage \in Usages \cup {-1},
             FinishBox(n, st, usage)
      PROVE  Holding' /\ LedgerExact'
  <2> DEFINE cost == Cost(n, IF st = "rate-limit" THEN "failed" ELSE st, usage)
             converted == st = "rate-limit" /\ Classifies(n)
  <2>1. Settle(n, cost)
    BY <1>8 DEF FinishBox
  <2>2. PICK r : w' = [w EXCEPT ![n] = r]
    <3>1. w' = [w EXCEPT ![n] =
                  [w[n] EXCEPT !.costs = satPlus(w[n].costs, cost),
                               !.at = IF converted THEN "clean-defer"
                                      ELSE IF st \in {"ok", "halted"} THEN st ELSE "clean",
                               !.why = IF converted THEN "rate-limit" ELSE w[n].why]]
      BY <1>8 DEF FinishBox
    <3> QED
      BY <3>1
  <2> HIDE DEF cost
  <2> QED
    BY <2>1, <2>2, SettleHolds
<1>9. ASSUME NEW n \in Nodes, Cleanup(n) \/ CleanupAfterDefer(n) PROVE Holding' /\ LedgerExact'
  <2>1. w[n].at \in {"clean", "clean-defer"} /\ UNCHANGED <<reserved, inflight, held>>
    BY <1>9 DEF Cleanup, CleanupAfterDefer, ledger
  <2>2. \E r : w' = [w EXCEPT ![n] = r]
    <3>1. \/ w' = [w EXCEPT ![n] = [w[n] EXCEPT !.at = "failed"]]
          \/ w' = [w EXCEPT ![n] = [w[n] EXCEPT !.at = "defer"]]
          \/ w' = [w EXCEPT ![n] = [w[n] EXCEPT !.at = "head", !.attempt = w[n].attempt + 1,
                                                !.failures = w[n].failures + 1]]
      BY <1>9 DEF Cleanup, CleanupAfterDefer, Goto
    <3> QED
      BY <3>1
  <2> QED
    BY <1>2, <2>1, <2>2
<1>10. ASSUME NEW n \in Nodes, FoldDeferred(n) \/ FoldSettled(n) PROVE Holding' /\ LedgerExact'
  <2>1. /\ w[n].at \notin {"head", "box", "running"} /\ UNCHANGED <<reserved, inflight, held>>
        /\ w' = [w EXCEPT ![n] = Idle]
    BY <1>10 DEF FoldDeferred, FoldSettled, ledger
  <2> QED
    BY <1>2, <2>1
<1>11. CASE Resume
  <2>1. /\ inflight' = {} /\ held' = [n \in Nodes |-> None] /\ reserved' = None
    BY <1>11 DEF Resume, FoldSpent
  <2>2. Holding'
    BY <2>1 DEF Holding, ReservationsAreBoxes
  <2>3. \A u \in DOMAIN Limit : reserved'[u] = SumFunctionOnSet([n \in Nodes |-> held'[n][u]], inflight')
    BY <2>1, SumOfNone, MeterAssumption DEF None
  <2> QED
    BY <2>2, <2>3 DEF LedgerExact
<1>12. ASSUME NEW n \in Nodes, Wake(n) PROVE Holding' /\ LedgerExact'
  BY <1>1, <1>12 DEF Wake, ledger
<1>13. CASE Cancel \/ Over \/ UNCHANGED vars
  BY <1>1, <1>13 DEF Cancel, Over, vars, ledger
<1> QED
  BY <1>3, <1>4, <1>5, <1>6, <1>7, <1>8, <1>9, <1>10, <1>11, <1>12, <1>13 DEF Next, Step

\* The invariant of the ledger.
LedgerInv == NumberInv /\ Holding /\ LedgerExact

\* It holds at the start.
LEMMA LedgerInit == Init => LedgerInv
<1> SUFFICES ASSUME Init PROVE Holding /\ LedgerExact
  BY NumberInit DEF LedgerInv
<1>1. inflight = {} /\ held = [n \in Nodes |-> None] /\ reserved = None
  BY DEF Init, AdmitterInit
<1>2. \A u \in DOMAIN Limit : reserved[u] = SumFunctionOnSet([n \in Nodes |-> held[n][u]], inflight)
  BY <1>1, SumOfNone, MeterAssumption DEF None
<1> QED
  BY <1>1, <1>2 DEF Holding, ReservationsAreBoxes, LedgerExact

\* Every step keeps it.
LEMMA LedgerNext == LedgerInv /\ [Next]_vars => LedgerInv'
BY LedgerTypeStep, LoopTypeStep, NumberedStep, AddUpStep, LedgerStep DEF LedgerInv, NumberInv

\* It holds throughout every run and all its executions.
THEOREM LedgerInvariance == Spec => []LedgerInv
BY LedgerInit, LedgerNext, PTL DEF Spec

\* Admit, Settle and boxWorker: in every unit whose budget is below the largest
\* amount, what is reserved is the sum of what the boxes in flight hold, and every
\* reservation belongs to a box that is about to run or running, whatever tiers,
\* retries, defers, cancellations and resumes there were.
THEOREM LedgerCorrect == Spec => []LedgerIsBoxes
<1>1. LedgerInv => LedgerIsBoxes
  <2> SUFFICES ASSUME LedgerInv PROVE LedgerIsBoxes
    OBVIOUS
  <2>1. TypeOK
    BY DEF LedgerInv, NumberInv, LedgerTyped, LoopTyped, WorkerType, TypeOK
  <2> QED
    BY <2>1 DEF LedgerInv, Holding, LedgerIsBoxes
<1> QED
  BY <1>1, LedgerInvariance, PTL

-----------------------------------------------------------------------------
(* The budget                                                              *)

\* What one worker's claim must be, for Covered
CoveredAt(n) ==
  Tier[n] = "exact" /\ UnitsOf[n] \cap DOMAIN Limit # {} /\ (w[n].at = "decide" \/ n \in inflight) =>
    /\ w[n].est.units = UnitsOf[n]
    /\ w[n].need = w[n].est.amount /\ bounds[n] = {w[n].est.amount}

\* A worker whose claim, bound and reservation stay is still covered, unless it
\* comes to decide.
LEMMA CoverKept ==
  ASSUME LoopTyped, Covered, NEW n \in Nodes, NEW r, w' = [w EXCEPT ![n] = r],
         \A m \in Nodes : (m \in inflight') => (m \in inflight),
         \A m \in Nodes \ {n} : bounds'[m] = bounds[m],
         \/ n \notin inflight' /\ r.at # "decide"
         \/ r.est = w[n].est /\ r.need = w[n].need /\ bounds'[n] = bounds[n]
            /\ (r.at = "decide" => w[n].at = "decide")
  PROVE  Covered'
<1>1. w'[n] = r /\ \A m \in Nodes \ {n} : w'[m] = w[m]
  BY DEF LoopTyped
<1>2. \A m \in Nodes : CoveredAt(m)
  BY DEF Covered, CoveredAt
<1>3. \A m \in Nodes : CoveredAt(m)'
  BY <1>1, <1>2 DEF CoveredAt
<1> QED
  BY <1>3 DEF Covered, CoveredAt

\* Every claim the exact tier decides on, or has reserved, is what its box may use.
LEMMA CoveredStep ==
  ASSUME Sized
  PROVE  LedgerTyped /\ LoopTyped /\ Holding /\ Covered /\ [Next]_vars => Covered'
<1> SUFFICES ASSUME LedgerTyped, LoopTyped, Holding, Covered, [Next]_vars
             PROVE  Covered'
  OBVIOUS
<1>0. \A n \in Nodes : w[n] \in WorkerType
  BY DEF LoopTyped
<1>1. CASE UNCHANGED <<ledger, w>>
  BY <1>1 DEF Covered, ledger
<1>2. ASSUME NEW n \in Nodes, UNCHANGED ledger, NEW r, w' = [w EXCEPT ![n] = r],
             r.at # "decide", n \in inflight => r.est = w[n].est /\ r.need = w[n].need
      PROVE  Covered'
  BY <1>2, CoverKept DEF ledger
<1>3. ASSUME NEW n \in Nodes, Launch(n) PROVE Covered'
  <2> DEFINE r == [Idle EXCEPT !.at = "estimate", !.attempt = 1, !.base = used[n],
                     !.retry = IF Retry[n] > used[n] THEN Retry[n] - used[n] ELSE 0]
  <2>1. /\ UNCHANGED ledger /\ life[n] = "ready" /\ w' = [w EXCEPT ![n] = r]
    BY <1>3 DEF Launch
  <2>2. n \notin inflight
    BY <2>1 DEF LoopTyped, Holding, ReservationsAreBoxes
  <2>3. r.at # "decide"
    BY DEF Idle
  <2> HIDE DEF r
  <2> QED
    BY <1>2, <2>1, <2>2, <2>3
<1>4. ASSUME NEW n \in Nodes, Estimate(n) PROVE Covered'
  <2>1. n \notin inflight /\ UNCHANGED <<reserved, inflight, held>>
    BY <1>4 DEF Estimate, Holding, ReservationsAreBoxes
  <2>2. bounds \in [Nodes -> SUBSET Int]
    BY DEF LedgerTyped
  <2>3. PICK e \in Estimates(n) :
          \/ w' = [w EXCEPT ![n].at = "refused"] /\ ReleaseEstimate(n)
          \/ /\ e.verdict = "error" /\ ~Participates(n)
             /\ w' = [w EXCEPT ![n].at = "decide", ![n].est = Claim({}, 0), ![n].need = 0]
             /\ UNCHANGED bounds
          \/ w' = [w EXCEPT ![n].at = "defer", ![n].why = "saturated"] /\ ReleaseEstimate(n)
          \/ /\ e.verdict = "claim" /\ RecordBound(n, e.claim)
             /\ w' = [w EXCEPT ![n].at = "decide", ![n].est = Counted(e.claim), ![n].need = e.need]
    BY <1>4 DEF Estimate
  <2>4. CASE w' = [w EXCEPT ![n].at = "refused"] /\ ReleaseEstimate(n)
    <3>1. w' = [w EXCEPT ![n] = [w[n] EXCEPT !.at = "refused"]]
      BY <2>4
    <3>2. \A m \in Nodes \ {n} : bounds'[m] = bounds[m]
      BY <2>2, <2>4 DEF ReleaseEstimate
    <3>3. [w[n] EXCEPT !.at = "refused"].at = "refused"
      BY <1>0 DEF WorkerType
    <3> QED
      BY <2>1, <3>1, <3>2, <3>3, CoverKept
  <2>5. CASE w' = [w EXCEPT ![n].at = "defer", ![n].why = "saturated"] /\ ReleaseEstimate(n)
    <3>1. w' = [w EXCEPT ![n] = [w[n] EXCEPT !.at = "defer", !.why = "saturated"]]
      BY <2>5
    <3>2. \A m \in Nodes \ {n} : bounds'[m] = bounds[m]
      BY <2>2, <2>5 DEF ReleaseEstimate
    <3>3. [w[n] EXCEPT !.at = "defer", !.why = "saturated"].at = "defer"
      BY <1>0 DEF WorkerType
    <3> QED
      BY <2>1, <3>1, <3>2, <3>3, CoverKept
  <2>6. ASSUME \A m \in Nodes \ {n} : w'[m] = w[m] /\ bounds'[m] = bounds[m], CoveredAt(n)'
        PROVE  Covered'
    <3>1. \A m \in Nodes \ {n} : CoveredAt(m)
      BY DEF Covered, CoveredAt
    <3>2. \A m \in Nodes \ {n} : CoveredAt(m)'
      BY <2>1, <2>6, <3>1 DEF CoveredAt
    <3> QED
      BY <2>6, <3>2 DEF Covered, CoveredAt
  <2>7. CASE /\ ~Participates(n) /\ UNCHANGED bounds
             /\ w' = [w EXCEPT ![n].at = "decide", ![n].est = Claim({}, 0), ![n].need = 0]
    <3>1. CoveredAt(n)'
      BY <2>7 DEF CoveredAt, Participates
    <3> QED
      BY <2>6, <2>7, <3>1 DEF LoopTyped
  <2>8. CASE /\ e.verdict = "claim" /\ RecordBound(n, e.claim)
             /\ w' = [w EXCEPT ![n].at = "decide", ![n].est = Counted(e.claim), ![n].need = e.need]
    <3>1. \A m \in Nodes \ {n} : w'[m] = w[m] /\ bounds'[m] = bounds[m]
      BY <2>2, <2>8 DEF LoopTyped, RecordBound
    <3>2. w'[n].est = Counted(e.claim) /\ w'[n].need = e.need
      BY <1>0, <2>8 DEF LoopTyped, WorkerType
    <3>3. ASSUME Tier[n] = "exact" PROVE CoveredAt(n)'
      <4>1. PICK t \in Tokens : e.claim = Claim(UnitsOf[n], Bound(t)) /\ e.need = t + MaxOutput
        BY <2>8, <3>3, EstimateType
      <4>2. t + MaxOutput <= MaxInt /\ t + MaxOutput \in Nat /\ MaxInt \in Nat
        BY MeterAssumption DEF Sized
      <4>3. Bound(t) = t + MaxOutput
        BY <4>2 DEF Bound, Wrap
      <4>4. e.claim.units = UnitsOf[n] /\ e.claim.amount = t + MaxOutput
        BY <4>1, <4>3 DEF Claim
      <4>5. Counted(e.claim) = e.claim
        BY <4>2, <4>4 DEF Counted
      <4>6. bounds'[n] = {e.claim.amount}
        BY <2>2, <2>8, <3>3 DEF RecordBound
      <4> QED
        BY <3>2, <4>1, <4>4, <4>5, <4>6 DEF CoveredAt
    <3> QED
      BY <2>6, <3>1, <3>3 DEF CoveredAt
  <2> QED
    BY <2>3, <2>4, <2>5, <2>7, <2>8
<1>5. ASSUME NEW n \in Nodes, Decide(n) PROVE Covered'
  <2>1. w[n].at = "decide" /\ n \notin inflight /\ bounds \in [Nodes -> SUBSET Int]
    BY <1>5 DEF Decide, LedgerTyped, Holding, ReservationsAreBoxes
  <2>2. CASE /\ ReleaseEstimate(n) /\ UNCHANGED <<spent, reserved, inflight, held>>
             /\ \/ w' = [w EXCEPT ![n].at = "defer", ![n].why = "contended"]
                \/ Goto(n, "refused")
    <3>1. PICK r : /\ w' = [w EXCEPT ![n] = r] /\ r.at \in {"defer", "refused"}
      <4>1. CASE w' = [w EXCEPT ![n].at = "defer", ![n].why = "contended"]
        <5> DEFINE r == [w[n] EXCEPT !.at = "defer", !.why = "contended"]
        <5>1. w' = [w EXCEPT ![n] = r] /\ r.at = "defer"
          BY <1>0, <4>1 DEF WorkerType
        <5> QED
          BY <5>1
      <4>2. CASE Goto(n, "refused")
        <5> DEFINE r == [w[n] EXCEPT !.at = "refused"]
        <5>1. w' = [w EXCEPT ![n] = r] /\ r.at = "refused"
          BY <1>0, <4>2 DEF WorkerType, Goto
        <5> QED
          BY <5>1
      <4> QED
        BY <2>2, <4>1, <4>2
    <3>2. \A m \in Nodes \ {n} : bounds'[m] = bounds[m]
      BY <2>1, <2>2 DEF ReleaseEstimate
    <3> QED
      BY <2>1, <2>2, <3>1, <3>2, CoverKept
  <2>3. CASE Goto(n, Admitted(n)) /\ Reserve(n, w[n].est)
    <3> DEFINE r == [w[n] EXCEPT !.at = Admitted(n)]
    <3>1. w' = [w EXCEPT ![n] = r] /\ r.est = w[n].est /\ r.need = w[n].need
      BY <1>0, <2>3 DEF Goto, WorkerType
    <3>2. r.at # "decide"
      BY <1>0 DEF WorkerType, Admitted
    <3> HIDE DEF r
    <3>3. UNCHANGED bounds /\ \A m \in Nodes \ {n} : (m \in inflight') => (m \in inflight)
      BY <2>3 DEF Reserve, ledger
    <3>4. w'[n] = r /\ \A m \in Nodes \ {n} : w'[m] = w[m]
      BY <3>1 DEF LoopTyped
    <3>5. \A m \in Nodes : CoveredAt(m)
      BY DEF Covered, CoveredAt
    <3>6. \A m \in Nodes \ {n} : CoveredAt(m)'
      BY <3>3, <3>4, <3>5 DEF CoveredAt
    <3>7. CoveredAt(n)'
      BY <2>1, <3>1, <3>2, <3>3, <3>4, <3>5 DEF CoveredAt
    <3> QED
      BY <3>6, <3>7 DEF Covered, CoveredAt
  <2> QED
    BY <1>5, <2>2, <2>3 DEF Decide
<1>6. ASSUME NEW n \in Nodes, NEW cost, Settle(n, cost), NEW r, w' = [w EXCEPT ![n] = r],
             r.at # "decide"
      PROVE  Covered'
  <2>1. inflight' = inflight \ {n}
    BY <1>6 DEF Settle
  <2>2. \A m \in Nodes \ {n} : bounds'[m] = bounds[m]
    BY <1>6 DEF Settle, LedgerTyped
  <2> QED
    BY <1>6, <2>1, <2>2, CoverKept
<1>7. ASSUME NEW n \in Nodes, LoopHead(n) PROVE Covered'
  <2>1. ASSUME NEW l, Goto(n, l)
        PROVE  \E r : w' = [w EXCEPT ![n] = r] /\ r.at = l /\ r.est = w[n].est /\ r.need = w[n].need
    <3> DEFINE r == [w[n] EXCEPT !.at = l]
    <3>1. w' = [w EXCEPT ![n] = r] /\ r.at = l /\ r.est = w[n].est /\ r.need = w[n].need
      BY <1>0, <2>1 DEF Goto, WorkerType
    <3> QED
      BY <3>1
  <2>2. CASE canceled
    <3>1. Settle(n, Cost(n, "failed", -1)) /\ Goto(n, "canceled")
      BY <1>7, <2>2 DEF LoopHead
    <3>2. PICK r : w' = [w EXCEPT ![n] = r] /\ r.at = "canceled"
      BY <2>1, <3>1
    <3> QED
      BY <1>6, <3>1, <3>2
  <2>3. CASE ~canceled
    <3>1. PICK l \in {"box", "estimate"} : Goto(n, l) /\ UNCHANGED ledger
      BY <1>7, <2>3 DEF LoopHead
    <3>2. PICK r : /\ w' = [w EXCEPT ![n] = r] /\ r.at = l
                   /\ r.est = w[n].est /\ r.need = w[n].need
      BY <2>1, <3>1
    <3> QED
      BY <1>2, <3>1, <3>2
  <2> QED
    BY <2>2, <2>3
<1>8. ASSUME NEW n \in Nodes, StartBox(n) PROVE Covered'
  <2> DEFINE r == [w[n] EXCEPT !.at = "running"]
  <2>1. UNCHANGED ledger /\ w' = [w EXCEPT ![n] = r]
    BY <1>8 DEF StartBox, Goto
  <2>2. r.at = "running" /\ r.est = w[n].est /\ r.need = w[n].need
    BY <1>0 DEF WorkerType
  <2> HIDE DEF r
  <2> QED
    BY <1>2, <2>1, <2>2
<1>9. ASSUME NEW n \in Nodes, NEW st \in Outcomes, NEW usage \in Usages \cup {-1},
             FinishBox(n, st, usage)
      PROVE  Covered'
  <2> DEFINE cost == Cost(n, IF st = "rate-limit" THEN "failed" ELSE st, usage)
             converted == st = "rate-limit" /\ Classifies(n)
             l == IF converted THEN "clean-defer" ELSE IF st \in {"ok", "halted"} THEN st ELSE "clean"
             r == [w[n] EXCEPT !.costs = satPlus(w[n].costs, cost), !.at = l,
                               !.why = IF converted THEN "rate-limit" ELSE w[n].why]
  <2>1. Settle(n, cost) /\ w' = [w EXCEPT ![n] = r]
    BY <1>9 DEF FinishBox
  <2>2. r.at = l /\ l # "decide"
    BY <1>0 DEF WorkerType
  <2> HIDE DEF r, cost
  <2> QED
    BY <1>6, <2>1, <2>2
<1>10. ASSUME NEW n \in Nodes, Cleanup(n) \/ CleanupAfterDefer(n) PROVE Covered'
  <2>1. w[n].at \in {"clean", "clean-defer"} /\ UNCHANGED ledger
    BY <1>10 DEF Cleanup, CleanupAfterDefer
  <2>2. n \notin inflight
    BY <2>1 DEF Holding, ReservationsAreBoxes
  <2>3. PICK r : w' = [w EXCEPT ![n] = r] /\ r.at \in {"failed", "defer", "head"}
    <3>1. CASE w' = [w EXCEPT ![n].at = "failed"]
      <4> DEFINE r == [w[n] EXCEPT !.at = "failed"]
      <4>1. w' = [w EXCEPT ![n] = r] /\ r.at = "failed"
        BY <1>0, <3>1 DEF WorkerType
      <4> QED
        BY <4>1
    <3>2. CASE w' = [w EXCEPT ![n].at = "defer"]
      <4> DEFINE r == [w[n] EXCEPT !.at = "defer"]
      <4>1. w' = [w EXCEPT ![n] = r] /\ r.at = "defer"
        BY <1>0, <3>2 DEF WorkerType
      <4> QED
        BY <4>1
    <3>3. CASE w' = [w EXCEPT ![n].at = "head", ![n].attempt = @ + 1, ![n].failures = @ + 1]
      <4> DEFINE r == [w[n] EXCEPT !.at = "head", !.attempt = w[n].attempt + 1,
                                   !.failures = w[n].failures + 1]
      <4>1. w' = [w EXCEPT ![n] = r] /\ r.at = "head"
        BY <1>0, <3>3 DEF WorkerType
      <4> QED
        BY <4>1
    <3> QED
      BY <1>10, <3>1, <3>2, <3>3 DEF Cleanup, CleanupAfterDefer, Goto
  <2> QED
    BY <1>2, <2>1, <2>2, <2>3
<1>11. ASSUME NEW n \in Nodes, FoldDeferred(n) \/ FoldSettled(n) PROVE Covered'
  <2>1. /\ w[n].at \notin {"head", "box", "running"} /\ UNCHANGED ledger
        /\ w' = [w EXCEPT ![n] = Idle]
    BY <1>11 DEF FoldDeferred, FoldSettled
  <2>2. n \notin inflight /\ Idle.at # "decide"
    BY <2>1 DEF Holding, ReservationsAreBoxes, Idle
  <2> HIDE DEF Idle
  <2> QED
    BY <1>2, <2>1, <2>2
<1>12. CASE Resume
  <2>1. inflight' = {} /\ UNCHANGED w /\ \A n \in Nodes : w[n].at = "idle"
    BY <1>12 DEF Resume, FoldSpent, Ended, Outstanding
  <2> QED
    BY <2>1 DEF Covered
<1>13. ASSUME NEW n \in Nodes, Wake(n) PROVE Covered'
  BY <1>1, <1>13 DEF Wake
<1>14. CASE Cancel \/ Over \/ UNCHANGED vars
  BY <1>1, <1>14 DEF Cancel, Over, vars
<1> QED
  BY <1>3, <1>4, <1>5, <1>7, <1>8, <1>9, <1>10, <1>11, <1>12, <1>13, <1>14 DEF Next, Step

\* What the steps owe
OwedOf(u) == [n \in Nodes |-> Owed(n, u)]

\* A sum below the largest amount does not saturate.
LEMMA SatExact ==
  ASSUME NEW x \in Nat, NEW y \in Nat, x + y <= MaxInt
  PROVE  satAdd(x, y) = x + y
BY MeterAssumption DEF satAdd

\* What is settled comes out of what was reserved.
LEMMA Moved ==
  ASSUME NEW s \in Nat, NEW r \in Nat, NEW h \in Nat, NEW c \in Nat, NEW l \in Nat,
         s + r <= l, c <= h, h <= r
  PROVE  (s + c) + (r - h) <= l /\ s + c <= l
OBVIOUS

\* What is owed of a unit can be summed, and each step owes no more than all of them.
LEMMA OwedType ==
  ASSUME LedgerTyped, LoopTyped, Paid, Sized, NEW u \in ExactUnits
  PROVE  /\ u \in Units /\ u \in DOMAIN Limit /\ Limit[u] < MaxInt /\ Limit[u] \in Nat
         /\ MaxInt \in Nat /\ IsFiniteSet(Nodes)
         /\ \A n \in Nodes : /\ OwedOf(u)[n] = Owed(n, u) /\ Owed(n, u) \in Nat
                             /\ Owed(n, u) <= OwedAll(u)
                             /\ stash[n][u] \in Nat /\ w[n].costs[u] \in Nat
                             /\ held[n][u] \in Nat
         /\ OwedAll(u) = SumFunctionOnSet(OwedOf(u), Nodes)
         /\ OwedAll(u) \in Nat /\ journaled[u] \in Nat /\ spent[u] \in Nat
         /\ reserved[u] \in Nat /\ total[u] = spent[u]
         /\ spent[u] + reserved[u] <= Limit[u] /\ total[u] = journaled[u] + OwedAll(u)
<1>1. /\ u \in Units /\ u \in DOMAIN Limit /\ Limit[u] < MaxInt /\ Limit[u] \in Nat
      /\ MaxInt \in Nat /\ IsFiniteSet(Nodes)
  BY MeterAssumption DEF ExactUnits, Sized
<1>2. ASSUME NEW n \in Nodes
      PROVE  /\ OwedOf(u)[n] = Owed(n, u) /\ Owed(n, u) \in Nat
             /\ stash[n][u] \in Nat /\ w[n].costs[u] \in Nat
  <2>1. stash[n][u] \in Nat /\ w[n].costs[u] \in Nat
    <3>1. stash[n] \in Amounts /\ w[n].costs \in Amounts
      BY DEF LoopTyped, WorkerType
    <3> QED
      BY <1>1, <3>1 DEF Amounts
  <2> QED
    BY <2>1 DEF OwedOf, Owed
<1>3. OwedAll(u) = SumFunctionOnSet(OwedOf(u), Nodes)
  BY DEF OwedAll, OwedOf
<1>4. OwedAll(u) \in Nat /\ \A n \in Nodes : OwedOf(u)[n] <= OwedAll(u)
  <2>1. \A n \in Nodes : OwedOf(u)[n] \in Nat
    BY <1>2
  <2> QED
    BY <1>1, <1>3, <2>1, SumCovers
<1>5. /\ journaled[u] \in Nat /\ spent[u] \in Nat /\ reserved[u] \in Nat
      /\ \A n \in Nodes : held[n][u] \in Nat
  BY <1>1 DEF LedgerTyped, AdmitterTypeOK, Amounts
<1> QED
  BY <1>1, <1>2, <1>3, <1>4, <1>5 DEF Paid

\* When one step's debt changes, so does the sum, by as much.
LEMMA OwedChanges ==
  ASSUME LedgerTyped, LoopTyped, Paid, Sized, NEW u \in ExactUnits, NEW n \in Nodes,
         Owed(n, u)' \in Nat, \A m \in Nodes \ {n} : Owed(m, u)' = Owed(m, u)
  PROVE  OwedAll(u)' = OwedAll(u) - Owed(n, u) + Owed(n, u)'
<1> DEFINE g == [m \in Nodes |-> Owed(m, u)']
<1>1. OwedAll(u)' = SumFunctionOnSet(g, Nodes)
  BY DEF OwedAll
<1>2. \A m \in Nodes : g[m] = Owed(m, u)'
  OBVIOUS
<1> HIDE DEF g
<1>3. IsFiniteSet(Nodes) /\ \A m \in Nodes : OwedOf(u)[m] = Owed(m, u) /\ Owed(m, u) \in Int
  BY OwedType
<1>4. \A m \in Nodes : OwedOf(u)[m] \in Int /\ g[m] \in Int
  BY <1>2, <1>3
<1>5. \A m \in Nodes \ {n} : g[m] = OwedOf(u)[m]
  BY <1>2, <1>3
<1>6. SumFunctionOnSet(g, Nodes) = SumFunctionOnSet(OwedOf(u), Nodes) - OwedOf(u)[n] + g[n]
  BY <1>3, <1>4, <1>5, SumChanges
<1>7. OwedAll(u) = SumFunctionOnSet(OwedOf(u), Nodes)
  BY OwedType
<1> QED
  BY <1>1, <1>2, <1>3, <1>6, <1>7

\* A step that neither uses nor journals anything, nor reserves more, changes nothing.
LEMMA PaidKept ==
  ASSUME LedgerTyped, LoopTyped, Paid, Sized,
         UNCHANGED <<total, journaled>>, \A u \in ExactUnits : spent'[u] = spent[u],
         \A u \in ExactUnits : spent'[u] + reserved'[u] <= Limit[u],
         \A u \in ExactUnits, m \in Nodes : Owed(m, u)' = Owed(m, u)
  PROVE  Paid'
<1> SUFFICES ASSUME NEW u \in ExactUnits
             PROVE  /\ total'[u] = spent'[u] /\ spent'[u] + reserved'[u] <= Limit[u]
                    /\ total'[u] = journaled'[u] + OwedAll(u)'
  BY DEF Paid
<1>1. [m \in Nodes |-> Owed(m, u)'] = [m \in Nodes |-> Owed(m, u)]
  OBVIOUS
<1>2. OwedAll(u)' = OwedAll(u)
  BY <1>1 DEF OwedAll
<1> QED
  BY <1>2 DEF Paid

\* What a worker that moves has settled stays owed.
LEMMA MoveOwes ==
  ASSUME LoopTyped, NEW n \in Nodes, NEW r, w' = [w EXCEPT ![n] = r], r.costs = w[n].costs,
         UNCHANGED <<life, stash>>
  PROVE  \A u : \A m \in Nodes : Owed(m, u)' = Owed(m, u)
<1>1. w'[n] = r /\ \A m \in Nodes \ {n} : w'[m] = w[m]
  BY DEF LoopTyped
<1> QED
  BY <1>1 DEF Owed

\* A box that ends has used no more than it held: budget moves from reserved to
\* spent, and what it used is owed to the journal.
LEMMA FinishPaid ==
  ASSUME LedgerTyped, LoopTyped, Holding, LedgerExact, Covered, Paid, Sized,
         NEW n \in Nodes, NEW st \in Outcomes, NEW usage \in Usages \cup {-1},
         FinishBox(n, st, usage)
  PROVE  Paid'
<1> DEFINE cost == Cost(n, IF st = "rate-limit" THEN "failed" ELSE st, usage)
           converted == st = "rate-limit" /\ Classifies(n)
           l == IF converted THEN "clean-defer" ELSE IF st \in {"ok", "halted"} THEN st ELSE "clean"
           r == [w[n] EXCEPT !.costs = satPlus(w[n].costs, cost), !.at = l,
                             !.why = IF converted THEN "rate-limit" ELSE w[n].why]
<1>1. /\ w[n].at = "running" /\ (Tier[n] = "exact" => usage <= w[n].need)
      /\ Settle(n, cost) /\ w' = [w EXCEPT ![n] = r]
      /\ total' = [u \in Units |-> total[u] + cost[u]]
      /\ UNCHANGED <<life, stash, journaled>>
  BY DEF FinishBox, sched, disk
<1>2. r.costs = satPlus(w[n].costs, cost)
  BY DEF LoopTyped, WorkerType
<1>3. ASSUME NEW u \in ExactUnits PROVE cost[u] \in Nat /\ cost[u] <= held[n][u]
  <2> DEFINE s == IF st = "rate-limit" THEN "failed" ELSE st
             amt == Actual(n, s, usage)
  <2>1. /\ u \in Units /\ u \in DOMAIN Limit /\ held[n][u] \in Nat
        /\ u \in UnitsOf[n] => Tier[n] = "exact"
    BY OwedType DEF ExactUnits
  <2>2. cost[u] = IF n \in inflight /\ u \in UnitsOf[n] /\ amt > 0 THEN amt ELSE 0
    BY <2>1 DEF Cost
  <2>3. CASE n \in inflight /\ u \in UnitsOf[n]
    <3>1. /\ w[n].est.units = UnitsOf[n] /\ w[n].need = w[n].est.amount
          /\ bounds[n] = {w[n].est.amount} /\ Tier[n] = "exact"
      BY <2>1, <2>3 DEF Covered
    <3>2. w[n].est.amount \in Nat
      <4>1. w[n] \in WorkerType /\ MaxInt \in Nat
        BY MeterAssumption DEF LoopTyped
      <4> QED
        BY <4>1 DEF WorkerType, EstType
    <3>3. held[n] = Held(w[n].est)
      BY <2>3 DEF Holding
    <3>4. held[n][u] = w[n].est.amount
      BY <2>1, <2>3, <3>1, <3>3 DEF Held
    <3>5. usage \in Int /\ usage <= w[n].need
      BY <1>1, <3>1, MeterAssumption
    <3>6. amt = usage \/ amt = w[n].est.amount \/ amt = 0
      BY <3>1 DEF Actual
    <3>7. amt \in Int /\ amt <= w[n].est.amount
      BY <3>1, <3>2, <3>5, <3>6
    <3> HIDE DEF amt, cost
    <3> QED
      BY <2>2, <2>3, <3>2, <3>4, <3>7
  <2>4. CASE ~(n \in inflight /\ u \in UnitsOf[n])
    <3> HIDE DEF amt, cost
    <3> QED
      BY <2>1, <2>2, <2>4
  <2> QED
    BY <2>3, <2>4
<1> HIDE DEF cost, r, l, converted
<1>4. \A u \in Small : reserved'[u] = reserved[u] - held[n][u] /\ held[n][u] <= reserved[u]
  BY <1>1, SettleExact
<1> SUFFICES ASSUME NEW u \in ExactUnits
             PROVE  /\ total'[u] = spent'[u] /\ spent'[u] + reserved'[u] <= Limit[u]
                    /\ total'[u] = journaled'[u] + OwedAll(u)'
  BY DEF Paid
<1>5. /\ u \in Units /\ u \in Small /\ Limit[u] < MaxInt /\ Limit[u] \in Nat /\ MaxInt \in Nat
      /\ spent[u] \in Nat /\ reserved[u] \in Nat /\ journaled[u] \in Nat /\ OwedAll(u) \in Nat
      /\ held[n][u] \in Nat /\ stash[n][u] \in Nat /\ w[n].costs[u] \in Nat
      /\ Owed(n, u) <= OwedAll(u) /\ total[u] = spent[u]
      /\ spent[u] + reserved[u] <= Limit[u] /\ total[u] = journaled[u] + OwedAll(u)
  BY OwedType DEF Small
<1>6. cost[u] \in Nat /\ cost[u] <= held[n][u]
  BY <1>3
<1>7. reserved'[u] = reserved[u] - held[n][u] /\ held[n][u] <= reserved[u]
  BY <1>4, <1>5
<1>8. spent'[u] = spent[u] + cost[u]
  <2>1. spent'[u] = satAdd(spent[u], cost[u])
    BY <1>1, <1>5 DEF Settle, satPlus
  <2>2. spent[u] + cost[u] <= MaxInt
    <3> DEFINE sp == spent[u]  rs == reserved[u]  hd == held[n][u]  cs == cost[u]  lm == Limit[u]
    <3>0. /\ sp \in Nat /\ rs \in Nat /\ hd \in Nat /\ cs \in Nat /\ lm \in Nat
          /\ sp + rs <= lm /\ cs <= hd /\ hd <= rs
      BY <1>5, <1>6, <1>7
    <3>1. spent[u] + cost[u] <= Limit[u]
      <4> HIDE DEF sp, rs, hd, cs, lm
      <4>1. sp + cs <= lm
        BY <3>0, Moved
      <4> QED
        BY <4>1 DEF sp, cs, lm
    <3> QED
      BY <1>5, <1>6, <3>1
  <2> QED
    BY <1>5, <1>6, <2>1, <2>2, SatExact
<1>9. total'[u] = total[u] + cost[u]
  BY <1>1, <1>5
<1>10. life[n] \notin Settled
  BY <1>1 DEF LoopTyped, Settled
<1>11. Owed(n, u) = stash[n][u] + w[n].costs[u]
  BY <1>10 DEF Owed
<1>12. w'[n] = r /\ \A m \in Nodes \ {n} : w'[m] = w[m]
  BY <1>1 DEF LoopTyped
<1>13. Owed(n, u)' = Owed(n, u) + cost[u] /\ Owed(n, u)' \in Nat
  <2>1. w'[n].costs[u] = satAdd(w[n].costs[u], cost[u])
    BY <1>2, <1>5, <1>12 DEF satPlus
  <2>2. w[n].costs[u] + cost[u] < MaxInt
    BY <1>5, <1>6, <1>7, <1>11
  <2>3. w'[n].costs[u] = w[n].costs[u] + cost[u]
    BY <1>5, <1>6, <2>1, <2>2 DEF satAdd
  <2>4. Owed(n, u)' = stash[n][u] + w'[n].costs[u]
    BY <1>1, <1>10 DEF Owed
  <2> QED
    BY <1>5, <1>6, <1>11, <2>3, <2>4
<1>14. \A m \in Nodes \ {n} : Owed(m, u)' = Owed(m, u)
  BY <1>1, <1>12 DEF Owed
<1>15. OwedAll(u)' = OwedAll(u) - Owed(n, u) + Owed(n, u)'
  BY <1>13, <1>14, OwedChanges
<1>16. Owed(n, u) \in Nat
  BY <1>5, <1>11
<1>17. total'[u] = journaled'[u] + OwedAll(u)'
  BY <1>1, <1>5, <1>6, <1>9, <1>13, <1>15, <1>16
<1>18. spent'[u] + reserved'[u] <= Limit[u]
  <2> DEFINE sp == spent[u]  rs == reserved[u]  hd == held[n][u]  cs == cost[u]  lm == Limit[u]
  <2>0. /\ sp \in Nat /\ rs \in Nat /\ hd \in Nat /\ cs \in Nat /\ lm \in Nat
        /\ sp + rs <= lm /\ cs <= hd /\ hd <= rs
    BY <1>5, <1>6, <1>7
  <2>1. (spent[u] + cost[u]) + (reserved[u] - held[n][u]) <= Limit[u]
    <3> HIDE DEF sp, rs, hd, cs, lm
    <3>1. (sp + cs) + (rs - hd) <= lm
      BY <2>0, Moved
    <3> QED
      BY <3>1 DEF sp, rs, hd, cs, lm
  <2> QED
    BY <1>7, <1>8, <2>1
<1> QED
  BY <1>5, <1>8, <1>9, <1>17, <1>18

\* A defer keeps what is owed: the dispatch's costs go to the step's own.
LEMMA DeferOwes ==
  ASSUME LedgerTyped, LoopTyped, Paid, Sized, NEW n \in Nodes, FoldDeferred(n),
         NEW u \in ExactUnits, NEW m \in Nodes
  PROVE  Owed(m, u)' = Owed(m, u)
<1>1. /\ w[n].at = "defer" /\ w' = [w EXCEPT ![n] = Idle]
      /\ stash' = [stash EXCEPT ![n] = satPlus(stash[n], w[n].costs)]
  BY DEF FoldDeferred
<1>2. /\ w'[n] = Idle /\ \A k \in Nodes \ {n} : w'[k] = w[k] /\ stash'[k] = stash[k]
      /\ stash'[n] = satPlus(stash[n], w[n].costs)
  BY <1>1 DEF LoopTyped
<1>3. /\ life[n] \notin Settled
      /\ \A k \in Nodes : life'[k] \in Settled <=> life[k] \in Settled
  <2> DEFINE f == [life EXCEPT ![n] = "timed"]
             g == [life EXCEPT ![n] = "parked"]
  <2>1. life[n] = "running" /\ life \in [Nodes -> Settled \cup {"ready", "running", "parked", "timed"}]
    BY <1>1 DEF LoopTyped
  <2>2. life' \in {Woken(f), Woken(g), g}
    BY DEF FoldDeferred
  <2>3. \A k \in Nodes : /\ f[k] = IF k = n THEN "timed" ELSE life[k]
                         /\ g[k] = IF k = n THEN "parked" ELSE life[k]
    BY <2>1
  <2> HIDE DEF f, g
  <2>4. \A k \in Nodes : /\ Woken(f)[k] = IF f[k] = "parked" THEN "ready" ELSE f[k]
                         /\ Woken(g)[k] = IF g[k] = "parked" THEN "ready" ELSE g[k]
    BY DEF Woken
  <2> QED
    BY <2>1, <2>2, <2>3, <2>4 DEF Settled
<1>4. CASE m # n
  BY <1>2, <1>3, <1>4 DEF Owed
<1>5. CASE m = n
  <2>1. /\ u \in Units /\ stash[n][u] \in Nat /\ w[n].costs[u] \in Nat /\ MaxInt \in Nat
        /\ Owed(n, u) <= OwedAll(u) /\ OwedAll(u) \in Nat /\ journaled[u] \in Nat
        /\ spent[u] \in Nat /\ reserved[u] \in Nat /\ total[u] = spent[u]
        /\ spent[u] + reserved[u] <= Limit[u] /\ total[u] = journaled[u] + OwedAll(u)
        /\ Limit[u] \in Nat /\ Limit[u] < MaxInt
    BY OwedType
  <2>2. Owed(n, u) = stash[n][u] + w[n].costs[u]
    BY <1>3 DEF Owed
  <2>3. stash'[n][u] = satAdd(stash[n][u], w[n].costs[u])
    BY <1>2, <2>1 DEF satPlus
  <2>4. stash'[n][u] = Owed(n, u)
    BY <2>1, <2>2, <2>3 DEF satAdd
  <2>5. w'[n].costs[u] = 0
    BY <1>2, <2>1 DEF Idle, None
  <2>6. Owed(n, u)' = stash'[n][u] + w'[n].costs[u]
    BY <1>3 DEF Owed
  <2> QED
    BY <1>5, <2>1, <2>2, <2>4, <2>5, <2>6
<1> QED
  BY <1>4, <1>5

\* A settlement journals all that its step owes.
LEMMA SettledPaid ==
  ASSUME LedgerTyped, LoopTyped, Paid, Sized, NEW n \in Nodes, FoldSettled(n)
  PROVE  Paid'
<1> SUFFICES ASSUME NEW u \in ExactUnits
             PROVE  /\ total'[u] = spent'[u] /\ spent'[u] + reserved'[u] <= Limit[u]
                    /\ total'[u] = journaled'[u] + OwedAll(u)'
  BY DEF Paid
<1>1. /\ w[n].at \in {"ok", "halted", "failed", "refused", "canceled"}
      /\ w' = [w EXCEPT ![n] = Idle] /\ UNCHANGED <<stash, total, spent, reserved>>
      /\ journaled' = satPlus(journaled, satPlus(stash[n], w[n].costs))
      /\ life' = Woken([life EXCEPT ![n] = Status(n)])
  BY DEF FoldSettled, ledger
<1>2. w'[n] = Idle /\ \A k \in Nodes \ {n} : w'[k] = w[k]
  BY <1>1 DEF LoopTyped
<1>3. /\ life[n] \notin Settled /\ life'[n] \in Settled
      /\ \A k \in Nodes \ {n} : life'[k] \in Settled <=> life[k] \in Settled
  <2> DEFINE f == [life EXCEPT ![n] = Status(n)]
  <2>1. /\ life[n] = "running"
        /\ life \in [Nodes -> Settled \cup {"ready", "running", "parked", "timed"}]
    BY <1>1 DEF LoopTyped
  <2>2. Status(n) \in Settled
    BY DEF Status, Settled
  <2>3. \A k \in Nodes : f[k] = IF k = n THEN Status(n) ELSE life[k]
    BY <2>1
  <2> HIDE DEF f
  <2>4. \A k \in Nodes : life'[k] = IF f[k] = "parked" THEN "ready" ELSE f[k]
    BY <1>1 DEF Woken, f
  <2> QED
    BY <2>1, <2>2, <2>3, <2>4 DEF Settled
<1>4. /\ u \in Units /\ stash[n][u] \in Nat /\ w[n].costs[u] \in Nat /\ MaxInt \in Nat
      /\ Owed(n, u) <= OwedAll(u) /\ OwedAll(u) \in Nat /\ journaled[u] \in Nat
      /\ spent[u] \in Nat /\ reserved[u] \in Nat /\ total[u] = spent[u]
      /\ spent[u] + reserved[u] <= Limit[u] /\ total[u] = journaled[u] + OwedAll(u)
      /\ Limit[u] \in Nat /\ Limit[u] < MaxInt
  BY OwedType
<1>5. Owed(n, u) = stash[n][u] + w[n].costs[u] /\ Owed(n, u) \in Nat
  BY <1>3, <1>4 DEF Owed
<1>6. journaled'[u] = journaled[u] + Owed(n, u)
  <2>1. journaled'[u] = satAdd(journaled[u], satAdd(stash[n][u], w[n].costs[u]))
    BY <1>1, <1>4 DEF satPlus
  <2> QED
    BY <1>4, <1>5, <2>1 DEF satAdd
<1>7. Owed(n, u)' = 0
  BY <1>3 DEF Owed
<1>8. ASSUME NEW m \in Nodes \ {n} PROVE Owed(m, u)' = Owed(m, u)
  <2>1. w'[m] = w[m] /\ stash'[m] = stash[m] /\ (life'[m] \in Settled <=> life[m] \in Settled)
    BY <1>1, <1>2, <1>3
  <2> QED
    BY <2>1 DEF Owed
<1>9. OwedAll(u)' = OwedAll(u) - Owed(n, u) + Owed(n, u)'
  BY <1>7, <1>8, OwedChanges
<1> QED
  BY <1>1, <1>4, <1>5, <1>6, <1>7, <1>9

\* An execution that nobody cancelled ends with everything journaled, so the next
\* one starts its ledger from all that was used.
LEMMA ResumePaid ==
  ASSUME LedgerTyped, LoopTyped, Numbered, Paid, Sized, ~canceled, Resume
  PROVE  Paid'
<1> SUFFICES ASSUME NEW u \in ExactUnits
             PROVE  /\ total'[u] = spent'[u] /\ spent'[u] + reserved'[u] <= Limit[u]
                    /\ total'[u] = journaled'[u] + OwedAll(u)'
  BY DEF Paid
<1>1. /\ \A n \in Nodes : life[n] \in Settled /\ w[n].at = "idle"
      /\ stash' = [n \in Nodes |-> None] /\ UNCHANGED <<w, journaled, total>>
      /\ spent' = satPlus(None, journaled) /\ reserved' = None
  BY DEF Resume, Ended, Outstanding, FoldSpent, ghost
<1>2. /\ u \in Units /\ MaxInt \in Nat /\ IsFiniteSet(Nodes)
      /\ OwedAll(u) = SumFunctionOnSet(OwedOf(u), Nodes)
      /\ OwedAll(u) \in Nat /\ journaled[u] \in Nat
      /\ spent[u] \in Nat /\ reserved[u] \in Nat /\ total[u] = spent[u]
      /\ spent[u] + reserved[u] <= Limit[u] /\ total[u] = journaled[u] + OwedAll(u)
      /\ Limit[u] \in Nat /\ Limit[u] < MaxInt
      /\ \A n \in Nodes : OwedOf(u)[n] = Owed(n, u)
  BY OwedType
<1>3. \A n \in Nodes : Owed(n, u) = 0
  BY <1>1 DEF Owed
<1>4. OwedAll(u) = 0
  <2>1. \A n \in Nodes : OwedOf(u)[n] \in Nat /\ OwedOf(u)[n] = 0
    BY <1>2, <1>3
  <2> QED
    BY <1>2, <2>1, SumCovers
<1>5. spent'[u] = journaled[u] /\ reserved'[u] = 0
  <2>1. spent'[u] = satAdd(0, journaled[u])
    BY <1>1, <1>2 DEF satPlus, None
  <2> QED
    BY <1>1, <1>2, <1>4, <2>1 DEF satAdd, None
<1>6. OwedAll(u)' = 0
  <2> DEFINE g == [n \in Nodes |-> Owed(n, u)']
  <2>1. \A n \in Nodes : Owed(n, u)' = 0
    <3>1. \A n \in Nodes : stash'[n][u] = 0 /\ w'[n].costs[u] = 0
      BY <1>1, <1>2 DEF Numbered, Idle, None
    <3> QED
      BY <3>1 DEF Owed
  <2>2. \A n \in Nodes : g[n] \in Nat /\ g[n] = 0
    BY <2>1
  <2>3. OwedAll(u)' = SumFunctionOnSet(g, Nodes)
    BY DEF OwedAll
  <2> HIDE DEF g
  <2> QED
    BY <1>2, <2>2, <2>3, SumCovers
<1> QED
  BY <1>1, <1>2, <1>4, <1>5, <1>6

\* No step loses a cost, and none lets the boxes use more than the budget.
LEMMA PaidStep ==
  ASSUME Sized, Cancels => MaxExecs = 1
  PROVE  LedgerInv /\ Covered /\ Paid /\ (canceled => Cancels) /\ [Next]_vars => Paid'
<1> SUFFICES ASSUME LedgerInv, Covered, Paid, canceled => Cancels, [Next]_vars PROVE Paid'
  OBVIOUS
<1>0. /\ LedgerTyped /\ LoopTyped /\ Numbered /\ Holding /\ LedgerExact
      /\ \A n \in Nodes : w[n] \in WorkerType
  BY DEF LedgerInv, NumberInv, LoopTyped
<1>1. ASSUME UNCHANGED <<total, spent, reserved, journaled>>,
             \A u \in ExactUnits, m \in Nodes : Owed(m, u)' = Owed(m, u)
      PROVE  Paid'
  <2>1. \A u \in ExactUnits : spent'[u] + reserved'[u] <= Limit[u]
    BY <1>1 DEF Paid
  <2> QED
    BY <1>0, <1>1, <2>1, PaidKept
<1>2. CASE UNCHANGED <<total, spent, reserved, journaled, life, stash, w>>
  BY <1>1, <1>2 DEF Owed
<1>3. ASSUME NEW n \in Nodes, UNCHANGED <<total, spent, reserved, journaled, life, stash>>,
             NEW r, w' = [w EXCEPT ![n] = r], r.costs = w[n].costs
      PROVE  Paid'
  <2>1. \A u : \A m \in Nodes : Owed(m, u)' = Owed(m, u)
    BY <1>0, <1>3, MoveOwes
  <2> QED
    BY <1>1, <1>3, <2>1
<1>4. ASSUME NEW n \in Nodes, Launch(n) PROVE Paid'
  <2>1. /\ UNCHANGED <<total, spent, reserved, journaled, stash>> /\ life[n] = "ready"
        /\ life' = [life EXCEPT ![n] = "running"]
        /\ w' = [w EXCEPT ![n] = [Idle EXCEPT !.at = "estimate", !.attempt = 1, !.base = used[n],
                     !.retry = IF Retry[n] > used[n] THEN Retry[n] - used[n] ELSE 0]]
    BY <1>4 DEF Launch, ledger, disk, ghost
  <2>2. /\ w'[n].costs = None /\ \A m \in Nodes \ {n} : w'[m] = w[m] /\ life'[m] = life[m]
        /\ life'[n] = "running"
    BY <1>0, <2>1 DEF LoopTyped, Idle
  <2>3. w[n].costs = None
    <3>1. w[n].at = "idle"
      BY <1>0, <2>1 DEF LoopTyped
    <3>2. w[n] = Idle
      BY <1>0, <3>1 DEF Numbered
    <3> QED
      BY <3>2 DEF Idle
  <2>4. \A u : \A m \in Nodes : Owed(m, u)' = Owed(m, u)
    BY <2>1, <2>2, <2>3 DEF Owed, Settled
  <2> QED
    BY <1>1, <2>1, <2>4
<1>5. ASSUME NEW n \in Nodes, Estimate(n) PROVE Paid'
  <2>1. UNCHANGED <<total, spent, reserved, journaled, life, stash>>
    BY <1>5 DEF Estimate, sched, disk, ghost
  <2>2. PICK e \in Estimates(n) :
          \/ w' = [w EXCEPT ![n].at = "refused"]
          \/ w' = [w EXCEPT ![n].at = "decide", ![n].est = Claim({}, 0), ![n].need = 0]
          \/ w' = [w EXCEPT ![n].at = "defer", ![n].why = "saturated"]
          \/ w' = [w EXCEPT ![n].at = "decide", ![n].est = Counted(e.claim), ![n].need = e.need]
    BY <1>5 DEF Estimate
  <2>3. \E r : w' = [w EXCEPT ![n] = r] /\ r.costs = w[n].costs
    <3>1. CASE w' = [w EXCEPT ![n].at = "refused"]
      <4> DEFINE r == [w[n] EXCEPT !.at = "refused"]
      <4>1. w' = [w EXCEPT ![n] = r] /\ r.costs = w[n].costs
        BY <1>0, <3>1 DEF WorkerType
      <4> QED
        BY <4>1
    <3>2. CASE w' = [w EXCEPT ![n].at = "decide", ![n].est = Claim({}, 0), ![n].need = 0]
      <4> DEFINE r == [w[n] EXCEPT !.at = "decide", !.est = Claim({}, 0), !.need = 0]
      <4>1. w' = [w EXCEPT ![n] = r] /\ r.costs = w[n].costs
        BY <1>0, <3>2 DEF WorkerType
      <4> QED
        BY <4>1
    <3>3. CASE w' = [w EXCEPT ![n].at = "defer", ![n].why = "saturated"]
      <4> DEFINE r == [w[n] EXCEPT !.at = "defer", !.why = "saturated"]
      <4>1. w' = [w EXCEPT ![n] = r] /\ r.costs = w[n].costs
        BY <1>0, <3>3 DEF WorkerType
      <4> QED
        BY <4>1
    <3>4. CASE w' = [w EXCEPT ![n].at = "decide", ![n].est = Counted(e.claim), ![n].need = e.need]
      <4> DEFINE r == [w[n] EXCEPT !.at = "decide", !.est = Counted(e.claim), !.need = e.need]
      <4>1. w' = [w EXCEPT ![n] = r] /\ r.costs = w[n].costs
        BY <1>0, <3>4 DEF WorkerType
      <4> QED
        BY <4>1
    <3> QED
      BY <2>2, <3>1, <3>2, <3>3, <3>4
  <2> QED
    BY <1>3, <2>1, <2>3
<1>6. ASSUME NEW n \in Nodes, NEW l, Goto(n, l)
      PROVE  \E r : w' = [w EXCEPT ![n] = r] /\ r.costs = w[n].costs
  <2> DEFINE r == [w[n] EXCEPT !.at = l]
  <2>1. w' = [w EXCEPT ![n] = r] /\ r.costs = w[n].costs
    BY <1>0, <1>6 DEF WorkerType, Goto
  <2> QED
    BY <2>1
<1>7. ASSUME NEW n \in Nodes, Decide(n) PROVE Paid'
  <2>1. w[n].at = "decide" /\ UNCHANGED <<total, journaled, life, stash>>
    BY <1>7 DEF Decide, sched, disk, ghost
  <2>2. CASE Goto(n, "refused") /\ UNCHANGED <<spent, reserved, inflight, held>>
    BY <1>3, <1>6, <2>1, <2>2
  <2>3. CASE /\ w' = [w EXCEPT ![n].at = "defer", ![n].why = "contended"]
             /\ UNCHANGED <<spent, reserved, inflight, held>>
    <3> DEFINE r == [w[n] EXCEPT !.at = "defer", !.why = "contended"]
    <3>1. w' = [w EXCEPT ![n] = r] /\ r.costs = w[n].costs
      BY <1>0, <2>3 DEF WorkerType
    <3> HIDE DEF r
    <3> QED
      BY <1>3, <2>1, <2>3, <3>1
  <2>4. CASE Goto(n, Admitted(n)) /\ Reserve(n, w[n].est) /\ ~Contends(w[n].est)
    <3>1. CASE Tier[n] = "none"
      <4>1. UNCHANGED <<spent, reserved>>
        BY <2>4, <3>1 DEF Reserve, ledger
      <4>2. PICK r : w' = [w EXCEPT ![n] = r] /\ r.costs = w[n].costs
        BY <1>6, <2>4
      <4> QED
        BY <1>3, <2>1, <4>1, <4>2
    <3>2. CASE Tier[n] # "none"
      <4>1. n \notin inflight /\ w[n].est \in EstType
        BY <1>0, <2>1 DEF Holding, ReservationsAreBoxes, WorkerType
      <4>2. \A u \in Small : /\ reserved'[u] = reserved[u] + Held(w[n].est)[u]
                             /\ u \in w[n].est.units => spent[u] + reserved'[u] <= Limit[u]
        BY <1>0, <2>4, <3>2, <4>1, ReserveExact
      <4>3. UNCHANGED spent
        BY <2>4, <3>2 DEF Reserve
      <4>4. ASSUME NEW u \in ExactUnits PROVE spent'[u] + reserved'[u] <= Limit[u]
        <5>1. /\ u \in Units /\ u \in Small /\ reserved[u] \in Nat
              /\ spent[u] + reserved[u] <= Limit[u]
          BY <1>0, OwedType DEF Small
        <5>2. CASE u \in w[n].est.units
          BY <4>2, <4>3, <5>1, <5>2
        <5>3. CASE u \notin w[n].est.units
          <6>1. Held(w[n].est)[u] = 0
            BY <5>1, <5>3 DEF Held
          <6>2. reserved'[u] = reserved[u]
            BY <4>2, <5>1, <6>1
          <6> QED
            BY <4>3, <5>1, <6>2
        <5> QED
          BY <5>2, <5>3
      <4>5. \E r : w' = [w EXCEPT ![n] = r] /\ r.costs = w[n].costs
        BY <1>6, <2>4
      <4>6. \A u : \A m \in Nodes : Owed(m, u)' = Owed(m, u)
        BY <1>0, <2>1, <4>5, MoveOwes
      <4>7. UNCHANGED <<total, spent, journaled>>
        BY <2>1, <4>3
      <4> QED
        BY <1>0, <4>4, <4>6, <4>7, PaidKept
    <3> QED
      BY <3>1, <3>2
  <2> QED
    BY <1>7, <2>2, <2>3, <2>4 DEF Decide
<1>8. ASSUME NEW n \in Nodes, LoopHead(n) PROVE Paid'
  <2>1. PICK l : Goto(n, l) /\ UNCHANGED <<total, journaled, life, stash>>
    BY <1>8 DEF LoopHead, sched, disk, ghost
  <2>2. PICK r : w' = [w EXCEPT ![n] = r] /\ r.costs = w[n].costs
    BY <1>6, <2>1
  <2>3. CASE canceled
    <3> DEFINE cost == Cost(n, "failed", -1)
    <3>1. Settle(n, cost)
      BY <1>8, <2>3 DEF LoopHead
    <3>2. ASSUME NEW u \in ExactUnits PROVE u \in Units /\ cost[u] = 0
      <4>1. u \in Units /\ (u \in UnitsOf[n] => Tier[n] = "exact")
        BY MeterAssumption DEF ExactUnits
      <4>2. Tier[n] = "exact" => Actual(n, "failed", -1) = 0
        BY DEF Actual
      <4> QED
        BY <4>1, <4>2 DEF Cost
    <3> HIDE DEF cost
    <3>3. \A u \in Small : reserved'[u] = reserved[u] - held[n][u] /\ held[n][u] <= reserved[u]
      BY <1>0, <3>1, SettleExact
    <3>4. ASSUME NEW u \in ExactUnits
          PROVE  spent'[u] = spent[u] /\ spent'[u] + reserved'[u] <= Limit[u]
      <4>1. /\ u \in Units /\ u \in Small /\ spent[u] \in Nat /\ reserved[u] \in Nat
            /\ held[n][u] \in Nat /\ MaxInt \in Nat /\ Limit[u] \in Nat /\ Limit[u] < MaxInt
            /\ spent[u] + reserved[u] <= Limit[u]
        BY <1>0, OwedType DEF Small
      <4>2. spent'[u] = satAdd(spent[u], 0)
        BY <3>1, <3>2, <4>1 DEF Settle, satPlus
      <4>3. spent'[u] = spent[u]
        BY <4>1, <4>2, SatExact
      <4>4. reserved'[u] = reserved[u] - held[n][u]
        BY <3>3, <4>1
      <4> QED
        BY <4>1, <4>3, <4>4
    <3>5. \A u : \A m \in Nodes : Owed(m, u)' = Owed(m, u)
      BY <1>0, <2>1, <2>2, MoveOwes
    <3> QED
      BY <1>0, <2>1, <3>4, <3>5, PaidKept
  <2>4. CASE ~canceled
    <3>1. UNCHANGED <<spent, reserved>>
      BY <1>8, <2>4 DEF LoopHead, ledger
    <3> QED
      BY <1>3, <2>1, <2>2, <3>1
  <2> QED
    BY <2>3, <2>4
<1>9. ASSUME NEW n \in Nodes, StartBox(n) PROVE Paid'
  <2>1. /\ Goto(n, "running")
        /\ UNCHANGED <<total, spent, reserved, journaled, life, stash>>
    BY <1>9 DEF StartBox, ledger, sched, disk, ghost
  <2>2. PICK r : w' = [w EXCEPT ![n] = r] /\ r.costs = w[n].costs
    BY <1>6, <2>1
  <2> QED
    BY <1>3, <2>1, <2>2
<1>10. ASSUME NEW n \in Nodes, NEW st \in Outcomes, NEW usage \in Usages \cup {-1},
              FinishBox(n, st, usage)
       PROVE  Paid'
  BY <1>0, <1>10, FinishPaid
<1>11. ASSUME NEW n \in Nodes, Cleanup(n) \/ CleanupAfterDefer(n) PROVE Paid'
  <2>1. UNCHANGED <<total, spent, reserved, journaled, life, stash>>
    BY <1>11 DEF Cleanup, CleanupAfterDefer, ledger, sched, disk
  <2>2. \E r : w' = [w EXCEPT ![n] = r] /\ r.costs = w[n].costs
    <3>1. CASE \E l : Goto(n, l)
      BY <1>6, <3>1
    <3>2. CASE w' = [w EXCEPT ![n].at = "head", ![n].attempt = @ + 1, ![n].failures = @ + 1]
      <4> DEFINE r == [w[n] EXCEPT !.at = "head", !.attempt = w[n].attempt + 1,
                                   !.failures = w[n].failures + 1]
      <4>1. w' = [w EXCEPT ![n] = r] /\ r.costs = w[n].costs
        BY <1>0, <3>2 DEF WorkerType
      <4> QED
        BY <4>1
    <3> QED
      BY <1>11, <3>1, <3>2 DEF Cleanup, CleanupAfterDefer, Goto
  <2> QED
    BY <1>3, <2>1, <2>2
<1>12. ASSUME NEW n \in Nodes, FoldDeferred(n) PROVE Paid'
  <2>1. UNCHANGED <<total, spent, reserved, journaled>>
    BY <1>12 DEF FoldDeferred, ledger, disk, ghost
  <2>2. \A u \in ExactUnits, m \in Nodes : Owed(m, u)' = Owed(m, u)
    BY <1>0, <1>12, DeferOwes
  <2> QED
    BY <1>1, <2>1, <2>2
<1>13. ASSUME NEW n \in Nodes, FoldSettled(n) PROVE Paid'
  BY <1>0, <1>13, SettledPaid
<1>14. CASE Resume
  <2>1. execs \in 1..MaxExecs /\ execs < MaxExecs
    BY <1>0, <1>14 DEF LoopTyped, Resume
  <2>2. ~canceled
    BY <2>1
  <2> QED
    BY <1>0, <1>14, <2>2, ResumePaid
<1>15. ASSUME NEW n \in Nodes, Wake(n) PROVE Paid'
  <2>1. /\ life[n] = "timed" /\ life' = [life EXCEPT ![n] = "ready"]
        /\ UNCHANGED <<total, spent, reserved, journaled, stash, w>>
    BY <1>15 DEF Wake, ledger, disk, ghost
  <2>2. \A m \in Nodes : life'[m] \in Settled <=> life[m] \in Settled
    BY <1>0, <2>1 DEF LoopTyped, Settled
  <2>3. \A u : \A m \in Nodes : Owed(m, u)' = Owed(m, u)
    BY <2>1, <2>2 DEF Owed
  <2> QED
    BY <1>1, <2>1, <2>3
<1>16. CASE Cancel \/ Over \/ UNCHANGED vars
  BY <1>2, <1>16 DEF Cancel, Over, vars, ledger, sched, disk, ghost
<1> QED
  BY <1>4, <1>5, <1>7, <1>8, <1>9, <1>10, <1>11, <1>12, <1>13, <1>14, <1>15, <1>16 DEF Next, Step

\* The invariant of the budget.
BudgetInv == LedgerInv /\ (canceled => Cancels) /\ Covered /\ Paid

\* Admit, Settle, evSettled and FoldSpent: a budget that only exact tiers draw on
\* bounds what all boxes of all executions use, with what the boxes in flight may
\* still use.  A run that may be cancelled has one execution here: what a cancelled
\* step owed is not journaled, so the next one would not know of it; and no
\* estimate overflows.
THEOREM BudgetCorrect ==
  ASSUME Sized, Cancels => MaxExecs = 1
  PROVE  Spec => []BudgetHeld
<1>1. Init => BudgetInv
  <2> SUFFICES ASSUME Init PROVE (canceled => Cancels) /\ Covered /\ Paid
    BY LedgerInit DEF BudgetInv
  <2>1. /\ ~canceled /\ inflight = {} /\ \A n \in Nodes : w[n].at = "idle"
    BY DEF Init, AdmitterInit, Idle
  <2>2. Covered
    BY <2>1 DEF Covered
  <2>3. ASSUME NEW u \in ExactUnits
        PROVE  /\ total[u] = spent[u] /\ spent[u] + reserved[u] <= Limit[u]
               /\ total[u] = journaled[u] + OwedAll(u)
    <3>1. u \in Units /\ Limit[u] \in Nat /\ IsFiniteSet(Nodes)
      BY MeterAssumption DEF ExactUnits
    <3>2. total[u] = 0 /\ spent[u] = 0 /\ reserved[u] = 0 /\ journaled[u] = 0
      BY <3>1 DEF Init, AdmitterInit, None
    <3>3. \A n \in Nodes : Owed(n, u) = 0
      BY <3>1 DEF Init, Owed, Idle, None, Settled
    <3>4. OwedAll(u) = 0
      <4> DEFINE g == [n \in Nodes |-> Owed(n, u)]
      <4>1. \A n \in Nodes : g[n] \in Nat /\ g[n] = 0
        BY <3>3
      <4>2. OwedAll(u) = SumFunctionOnSet(g, Nodes)
        BY DEF OwedAll
      <4> HIDE DEF g
      <4> QED
        BY <3>1, <4>1, <4>2, SumCovers
    <3> QED
      BY <3>1, <3>2, <3>4
  <2> QED
    BY <2>1, <2>2, <2>3 DEF Paid
<1>2. BudgetInv /\ [Next]_vars => BudgetInv'
  <2> SUFFICES ASSUME BudgetInv, [Next]_vars PROVE BudgetInv'
    OBVIOUS
  <2>1. LedgerInv'
    BY LedgerNext DEF BudgetInv
  <2>2. Covered' /\ Paid'
    BY CoveredStep, PaidStep DEF BudgetInv, LedgerInv, NumberInv
  <2>3. canceled' => Cancels
    <3>1. CASE Resume
      BY <3>1 DEF Resume
    <3>2. CASE Cancel
      BY <3>2 DEF Cancel
    <3>3. CASE ~Resume /\ ~Cancel
      <4>1. UNCHANGED canceled
        <5>1. ASSUME NEW n \in Nodes, Step(n) \/ Wake(n) PROVE UNCHANGED canceled
          BY <5>1 DEF Step, Launch, Estimate, Decide, LoopHead, StartBox, FinishBox, Cleanup,
             CleanupAfterDefer, FoldDeferred, FoldSettled, Wake
        <5>2. CASE Over \/ UNCHANGED vars
          BY <5>2 DEF Over, vars
        <5> QED
          BY <3>3, <5>1, <5>2 DEF Next
      <4> QED
        BY <4>1 DEF BudgetInv
    <3> QED
      BY <3>1, <3>2, <3>3
  <2> QED
    BY <2>1, <2>2, <2>3 DEF BudgetInv
<1>3. BudgetInv => BudgetHeld
  <2> SUFFICES ASSUME BudgetInv, NEW u \in ExactUnits PROVE total[u] + reserved[u] <= Limit[u]
    BY DEF BudgetHeld
  <2> QED
    BY DEF BudgetInv, Paid
<1> QED
  BY <1>1, <1>2, <1>3, PTL DEF Spec
=============================================================================
