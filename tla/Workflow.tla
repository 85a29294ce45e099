------------------------------ MODULE Workflow ------------------------------
(***************************************************************************)
(* What running a workflow means to the one who wrote it, in terms of what *)
(* the IR declares: nodes, what is inside what, and what comes after what. *)
(* There is no graph of edges, no counter, queue, pool, worker or timer    *)
(* here; Scheduler implements this module (KeepsWorkflow of SchedulerProps *)
(* gives the mapping).                                                     *)
(***************************************************************************)
CONSTANTS
  Node,     \* every node of the workflow and of every instance it may ask for
  First,    \* the nodes the workflow starts with
  ItemsOf,  \* generate node -> the items its data source may ask for
  Brings,   \* item -> the nodes it brings
  Gate,     \* <<s, m>>: m is a member of the sub-workflow entered through s
  Order,    \* <<a, b>>: the workflow has a come before b
  Feeds     \* <<s, n>>: an output of s is an input of n

VARIABLES
  there,    \* the nodes that exist so far
  result,   \* node -> its result, "none" while it has none
  busy,     \* nodes a worker is out for
  boxed,    \* ... whose worker is a box
  paused, aborting,
  recorded, \* the nodes whose result is durable
  over      \* how the run ended, "none" before

vars == <<there, result, busy, boxed, paused, aborting, recorded, over>>

Stops == {"failed", "halted"}
Skip  == [failed |-> "skipDep", halted |-> "skipHalt"]

Open    == {n \in there : result[n] = "none"}
Stopped == paused \/ aborting

\* Everything before n has a result that lets it go on, and every entry around
\* it let it in.
Ready(n) ==
  /\ n \in Open \ busy
  /\ \A p \in there : <<p, n>> \in Order => result[p] \notin Stops \cup {"none"}
  /\ \A s \in there : <<s, n>> \in Gate => result[s] = "ok"

\* What a failure of n takes with it: the least set of open nodes that holds
\* everything after n and after any of its own.
Downstream(n) ==
  LET rest == Open \ {n}
      Closed(T) == \A o \in Order : o[1] \in T \cup {n} /\ o[2] \in rest => o[2] \in T
  IN  {m \in rest : \A T \in SUBSET rest : Closed(T) => m \in T}

\* The nodes that get a result with n, and which.
Taken(n, r) == CASE r \in Stops -> Downstream(n)
                 [] r = "ok"    -> {}
                 [] OTHER       -> {m \in Open : <<n, m>> \in Gate}

Flavor(r) == IF r \in Stops THEN Skip[r] ELSE r

\* A result that does not become durable aborts the run.
Record(S) ==
  /\ recorded \subseteq recorded' /\ recorded' \subseteq recorded \cup S
  /\ aborting' \in {aborting, TRUE}
  /\ S \subseteq recorded' \/ aborting'

-----------------------------------------------------------------------------
\* A box for n, with every output it is fed.
Launch(n) ==
  /\ over = "none" /\ ~Stopped /\ Ready(n)
  /\ \A e \in Feeds : e[2] = n => result[e[1]] = "ok"
  /\ busy' = busy \cup {n} /\ boxed' = boxed \cup {n}
  /\ UNCHANGED <<there, result, paused, aborting, recorded, over>>

\* A command for n: its data source, or whether its loop goes on.
Ask(n) ==
  /\ over = "none" /\ ~Stopped /\ Ready(n)
  /\ busy' = busy \cup {n}
  /\ UNCHANGED <<there, result, boxed, paused, aborting, recorded, over>>

\* The worker of n comes back without a result; the run may pause over it.
PutBack(n) ==
  /\ over = "none" /\ n \in busy
  /\ busy' = busy \ {n} /\ boxed' = boxed \ {n}
  /\ paused' \in {paused, TRUE}
  /\ Record({})
  /\ UNCHANGED <<there, result, over>>

\* n gets the result r, from its worker or, once ready, without one.  It is
\* skipped over its inputs only when one of them has no output.  (That n gets r
\* is said first to spare TLC the rest.)
Settle(n, r) ==
  /\ over = "none" /\ n \in Open /\ result'[n] = r
  /\ n \in busy \/ (Ready(n) /\ ~Stopped)
  /\ r = "skipDep" => \E e \in Feeds : e[2] = n /\ result[e[1]] # "ok"
  /\ \E S \in {Taken(n, r)} :
       /\ result' = [m \in Node |-> IF m = n THEN r ELSE IF m \in S THEN Flavor(r) ELSE result[m]]
       /\ Record({n} \cup S)
  /\ busy' = busy \ {n} /\ boxed' = boxed \ {n}
  /\ UNCHANGED <<there, paused, over>>

\* The items a data source asked for join the run, and its node is ok.
Expand(g, is) ==
  /\ over = "none" /\ g \in Open /\ g \in busy \ boxed
  /\ there' = there \cup UNION {Brings[i] : i \in is}
  /\ result' = [result EXCEPT ![g] = "ok"]
  /\ busy' = busy \ {g}
  /\ Record({g})
  /\ UNCHANGED <<boxed, paused, over>>

Pause ==
  /\ over = "none" /\ paused' = TRUE
  /\ UNCHANGED <<there, result, busy, boxed, aborting, recorded, over>>

Abort ==
  /\ over = "none" /\ aborting' = TRUE
  /\ UNCHANGED <<there, result, busy, boxed, paused, recorded, over>>

\* Nobody is left behind, and the run says how it ended.
End ==
  /\ over = "none" /\ busy = {}
  /\ over' = IF aborting THEN "aborted" ELSE IF Open = {} THEN "settled" ELSE "paused"
  /\ over' = "paused" => paused
  /\ UNCHANGED <<there, result, busy, boxed, paused, aborting, recorded>>

-----------------------------------------------------------------------------
Results == {"ok", "failed", "halted", "skipCond", "skipDep"}

Init ==
  /\ there = First
  /\ result = [n \in Node |-> "none"]
  /\ busy = {} /\ boxed = {} /\ recorded = {}
  /\ paused = FALSE /\ aborting = FALSE
  /\ over = "none"

Next ==
  \/ \E n \in Node : Launch(n) \/ Ask(n) \/ PutBack(n) \/ \E r \in Results : Settle(n, r)
  \/ \E g \in Node : \E is \in SUBSET ItemsOf[g] : Expand(g, is)
  \/ Pause \/ Abort \/ End

Spec == Init /\ [][Next]_vars
=============================================================================
