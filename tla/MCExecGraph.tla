---------------------------- MODULE MCExecGraph ----------------------------
(***************************************************************************)
(* addLevel checked against what the order of a workflow is declared to    *)
(* mean, for every IR of up to N nodes: every way to nest sub-workflows    *)
(* and every acyclic choice of declared edges and condition dependencies.  *)
(* An IR is a state; nothing ever changes it.  Nodes are numbered so that  *)
(* a sub-workflow comes before its members and an edge goes upwards, which *)
(* loses no graph up to renaming.  A workflow has at least one step        *)
(* (config/validate.go) and a condition never reads a sub-workflow, which  *)
(* has no output fields (passConditions in config/wiring.go).              *)
(***************************************************************************)
EXTENDS Naturals, Sequences, FiniteSets

CONSTANT N

VARIABLES kind, level, decl, cond
vars == <<kind, level, decl, cond>>

PathTo[n \in 1..N] ==
  IF level[n] = 0 THEN <<0>> ELSE Append(PathTo[level[n]], level[n])

G == INSTANCE ExecGraph WITH
       Node <- 1..N, Inst <- {}, Kind <- kind, Path <- PathTo, Decl <- decl,
       Data <- {}, Cond <- cond, InstGen <- <<>>, InstDeps <- {}

SameLevel == {p \in (1..N) \X (1..N) : p[1] < p[2] /\ level[p[1]] = level[p[2]]}

Init ==
  /\ kind \in [1..N -> {"agent", "sub"}]
  /\ level \in {f \in [1..N -> 0..N] :
                  \A n \in 1..N : f[n] = 0 \/ (f[n] < n /\ kind[f[n]] = "sub")}
  /\ \A s \in 1..N : kind[s] = "sub" => \E n \in 1..N : level[n] = s
  /\ decl \in SUBSET SameLevel
  /\ cond \in SUBSET {p \in SameLevel \ decl : kind[p[1]] # "sub"}

Next == UNCHANGED vars

Spec == Init /\ [][Next]_vars

Edges == G!AddLevel(0)

\* What precedes a node in the flattened graph.
Before[n \in 1..N] ==
  LET ps == {p \in 1..N : <<p, n>> \in Edges} IN ps \cup UNION {Before[p] : p \in ps}

\* What precedes x within its own level, by declared edges and condition deps.
LevelBefore[x \in 1..N] ==
  LET ps == {p \in 1..N : <<p, x>> \in decl \cup cond}
  IN  ps \cup UNION {LevelBefore[p] : p \in ps}

\* deepSinks as the code writes it, recursively.
DeepSinksRec[l \in 0..N] ==
  LET sinks == G!LevelSinks(l)
  IN  (sinks \ G!Subs) \cup UNION {DeepSinksRec[s] : s \in sinks \cap G!Subs}

-----------------------------------------------------------------------------
\* The sinks a dependent of a sub-workflow waits for, found by descending
\* through the sinks of each level (deepSinks), are the nodes nothing inside
\* the sub-workflow is ordered after, at any nesting.
DeepSinksDescend == \A s \in G!Subs : G!DeepSinks(s) = DeepSinksRec[s]

\* "Nothing inside runs before the entry has settled": an entry precedes every
\* member at any depth; "after the sub-workflow means after every inner node":
\* every member precedes whoever is declared after the entry, and so do the
\* members of everything inlined in it (addLevel's structural wiring).
EntryBracketsMembers ==
  \A s \in G!Subs : \A m \in G!Members(s) :
    /\ s \in Before[m]
    /\ \A e \in decl : e[1] = s => m \in Before[e[2]]

\* addLevel orders nothing else: if a precedes b then a holds b inside it, or
\* two enclosing nodes of one level are ordered there.  In particular the
\* flattened graph of an acyclic IR is acyclic, so Kahn's walk settles it all.
NoOrderInvented ==
  LET Enclosed(x) == {x} \cup G!Members(x) IN
  \A b \in 1..N : \A a \in Before[b] :
    \/ b \in G!Members(a)
    \/ \E y \in 1..N : \E x \in LevelBefore[y] : a \in Enclosed(x) /\ b \in Enclosed(y)

\* The flattened graph orders what the IR declares, and only that: entries and
\* sinks bracket their sub-workflows at any depth (addLevel, deepSinks).
OrdersAsDeclared == EntryBracketsMembers /\ NoOrderInvented /\ DeepSinksDescend
=============================================================================
