------------------------------ MODULE Admitter ------------------------------
(***************************************************************************)
(* The budget ledger of a run (metering/admit.go) over the fidelity tiers  *)
(* (metering/tiers.go).  Every endpoint class has one meter, so a step is  *)
(* known by the tier and the units of its class.                           *)
(*                                                                         *)
(* Admit has two parts: the estimate, gathered outside the mutex because   *)
(* it runs a user command, and the decision, one critical section.  Settle *)
(* is one critical section.  Amounts are int64 in the code: MaxInt is the  *)
(* largest of them.                                                        *)
(***************************************************************************)
EXTENDS Integers, FiniteSets, FiniteSetsExt

CONSTANTS
  Nodes,       \* steps that run in boxes
  Units,       \* cost units
  Tier,        \* step -> "none", "exact", "reported" or "probe"
  UnitsOf,     \* step -> the units its meter reports
  Limit,       \* the declared budgets: a function on some of the units
  MaxOutput,   \* the exact tier's max_output
  Tokens,      \* what the tokenizer may answer
  Usages,      \* amounts a usage sidecar may claim
  MaxInt

ASSUME MeterAssumption ==
  /\ IsFiniteSet(Nodes)
  /\ MaxInt \in Nat /\ MaxOutput \in 0..MaxInt /\ Tokens \subseteq 0..MaxInt
  /\ Usages \subseteq 0..MaxInt
  /\ Tier \in [Nodes -> {"none", "exact", "reported", "probe"}]
  /\ UnitsOf \in [Nodes -> SUBSET Units]
  /\ \A n \in Nodes : /\ Tier[n] \in {"none", "probe"} => UnitsOf[n] = {}
                      /\ Tier[n] = "exact" => Cardinality(UnitsOf[n]) = 1
                      /\ Tier[n] = "reported" => UnitsOf[n] # {}
  /\ DOMAIN Limit \subseteq Units
  /\ \A u \in DOMAIN Limit : Limit[u] \in 0..MaxInt

VARIABLES
  spent,       \* unit -> settled actuals
  reserved,    \* unit -> in-flight estimates
  inflight,    \* steps with a reservation
  held,        \* step -> unit -> what it reserved
  bounds       \* step -> the exact meter's recorded bound: {} or {b}

ledger == <<spent, reserved, inflight, held, bounds>>

None == [u \in Units |-> 0]

AdmitterTypeOK ==
  /\ spent \in [Units -> 0..MaxInt] /\ reserved \in [Units -> 0..MaxInt]
  /\ inflight \subseteq Nodes
  /\ held \in [Nodes -> [Units -> 0..MaxInt]]
  /\ \A n \in Nodes : bounds[n] \subseteq -MaxInt-1..MaxInt /\ Cardinality(bounds[n]) <= 1

AdmitterInit ==
  /\ spent = None /\ reserved = None
  /\ inflight = {} /\ held = [n \in Nodes |-> None]
  /\ bounds = [n \in Nodes |-> {}]

-----------------------------------------------------------------------------
(* Arithmetic                                                              *)

satAdd(a, b) == IF a > MaxInt - b THEN MaxInt ELSE a + b
satPlus(f, g) == [u \in Units |-> satAdd(f[u], g[u])]

\* int64 addition of two non-negative amounts
Wrap(x) == IF x > MaxInt THEN x - 2 * (MaxInt + 1) ELSE x

-----------------------------------------------------------------------------
(* The tiers                                                               *)

\* Meter.Estimate: the claim, unit by unit, the saturation hint, an error.
\* need is what the box may really use, for the properties.
Claim(units, amount) == [units |-> units, amount |-> amount]

Bound(t) == Wrap(t + MaxOutput)

Estimates(n) ==
  CASE Tier[n] = "exact" ->
         {[verdict |-> "error"]}
         \cup {[verdict |-> "claim", claim |-> Claim(UnitsOf[n], Bound(t)),
                need |-> t + MaxOutput] : t \in Tokens}
    [] Tier[n] = "reported" ->
         {[verdict |-> "claim", claim |-> Claim(UnitsOf[n], 0), need |-> 0]}
    [] Tier[n] = "probe" ->
         {[verdict |-> "saturated"],
          [verdict |-> "claim", claim |-> Claim({}, 0), need |-> 0]}
    [] Tier[n] = "none" ->
         {[verdict |-> "claim", claim |-> Claim({}, 0), need |-> 0]}

\* Meter.Actual of a settled attempt.  usage is -1 when no sidecar was left
\* (or, for the exact tier, no field of it is mapped).
Actual(n, status, usage) ==
  CASE Tier[n] = "exact" ->
         IF usage >= 0 THEN usage
         ELSE IF status \in {"ok", "halted"} /\ bounds[n] # {}
              THEN CHOOSE b \in bounds[n] : TRUE
              ELSE 0
    [] Tier[n] = "reported" -> IF usage >= 0 THEN usage ELSE 0
    [] OTHER -> 0

-----------------------------------------------------------------------------
(* Admit                                                                   *)

Participates(n) == UnitsOf[n] \cap DOMAIN Limit # {}

\* What Admit sums: negative amounts are dropped, their unit with them.
Counted(claim) == IF claim.amount < 0 THEN Claim({}, 0) ELSE claim

Budgeted(est) == est.units \cap DOMAIN Limit

\* Estimate records the exact meter's bound; releaseEstimates drops it.
RecordBound(n, claim) ==
  bounds' = IF Tier[n] = "exact" THEN [bounds EXCEPT ![n] = {claim.amount}] ELSE bounds
ReleaseEstimate(n) == bounds' = [bounds EXCEPT ![n] = {}]

Rejects(est) == \E u \in Budgeted(est) : satAdd(spent[u], est.amount) > Limit[u]

\* Mutant of Contends: what the boxes in flight reserved is not looked at.
ContendsAlone(est) == \E u \in Budgeted(est) : satAdd(spent[u], est.amount) > Limit[u]

Contends(est) ==
  \E u \in Budgeted(est) : satAdd(satAdd(spent[u], reserved[u]), est.amount) > Limit[u]

\* release, clamped at zero
Released(h) == [u \in Units |-> IF reserved[u] < h[u] THEN 0 ELSE reserved[u] - h[u]]

Held(est) == [u \in Units |-> IF u \in est.units THEN est.amount ELSE 0]

\* A class without meters is admitted at once and reserves nothing.
Reserve(n, est) ==
  IF Tier[n] = "none" THEN UNCHANGED ledger ELSE
  /\ reserved' = LET base == IF n \in inflight THEN Released(held[n]) ELSE reserved
                 IN  satPlus(base, Held(est))
  /\ inflight' = inflight \cup {n}
  /\ held' = [held EXCEPT ![n] = Held(est)]
  /\ UNCHANGED <<spent, bounds>>

-----------------------------------------------------------------------------
(* Settle and FoldSpent                                                    *)

\* The actuals of an attempt, clamped at zero
Cost(n, status, usage) ==
  LET amt == Actual(n, status, usage)
  IN  [u \in Units |-> IF n \in inflight /\ u \in UnitsOf[n] /\ amt > 0 THEN amt ELSE 0]

\* Nothing happens for a step without a reservation.
Settle(n, cost) ==
  /\ spent' = satPlus(spent, cost)
  /\ reserved' = IF n \in inflight THEN Released(held[n]) ELSE reserved
  /\ bounds' = IF n \in inflight THEN [bounds EXCEPT ![n] = {}] ELSE bounds
  /\ inflight' = inflight \ {n}
  /\ held' = [held EXCEPT ![n] = None]

\* A new execution's ledger: NewAdmitter, then the journaled costs
FoldSpent(costs) ==
  /\ spent' = satPlus(None, costs)
  /\ reserved' = None /\ inflight' = {}
  /\ held' = [n \in Nodes |-> None]
  /\ bounds' = [n \in Nodes |-> {}]

-----------------------------------------------------------------------------
(* Properties of the ledger                                                *)

\* Admit/Settle: what is reserved is the sum of what the boxes in flight hold,
\* in every unit with a budget below MaxInt: neither the saturating sum nor the
\* floor of release ever bites.
LedgerExact ==
  \A u \in DOMAIN Limit :
    Limit[u] < MaxInt => reserved[u] = SumFunctionOnSet([n \in Nodes |-> held[n][u]], inflight)
=============================================================================
