----------------------------- MODULE MCAttempts -----------------------------
(***************************************************************************)
(* Instances of Attempts: steps of every tier under small budgets.         *)
(***************************************************************************)
EXTENDS Attempts, TLC

CONSTANTS a, b, c, d, e, tokens, cents, secs

RetryA     == [n \in Nodes |-> IF n = a THEN 1 ELSE 0]
NoRetry    == [n \in Nodes |-> 0]

AllExact   == [n \in Nodes |-> "exact"]
Mixed      == (a :> "exact" @@ b :> "reported" @@ c :> "probe" @@ d :> "exact"
               @@ e :> "none")
OfTokens   == [n \in Nodes |-> {tokens}]
MixedUnits == (a :> {tokens} @@ b :> {tokens, cents} @@ c :> {} @@ d :> {secs}
               @@ e :> {})

Budget3    == (tokens :> 3)
Budget4    == (tokens :> 4)
Budgets    == (tokens :> 3 @@ cents :> 2)
=============================================================================
