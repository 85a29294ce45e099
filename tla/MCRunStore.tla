----------------------------- MODULE MCRunStore -----------------------------
(***************************************************************************)
(* Instances of RunStore: which tools are around, how appends fail, whether*)
(* processes die.  Executions and steps are interchangeable.               *)
(***************************************************************************)
EXTENDS RunStore, FiniteSets, TLC

Sym == Permutations(Execs) \cup Permutations(Steps)
=============================================================================
