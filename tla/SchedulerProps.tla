--------------------------- MODULE SchedulerProps ---------------------------
(***************************************************************************)
(* What the run loop promises: readiness, bounds, propagation, splices,    *)
(* pausing, the run-end record, and that a run ends.                       *)
(***************************************************************************)
EXTENDS Scheduler

\* Every variable ranges over what the code can hold there.
TypeOK ==
  /\ pc \in {"gate", "grant", "ready", "top", "exit"}
  /\ progressed \in BOOLEAN
  /\ life \in [Node -> Lives]
  /\ status \in [Node -> Terminal \cup {"none"}]
  /\ known \in [Node -> {"nothing", "condition", "inputs"}]
  /\ edge \in SUBSET (Node \X Node)
  /\ indeg \in [Node -> Nat]
  /\ poolUsed \in [Pools -> Nat]
  /\ outstanding \in Nat
  /\ worker \in [Node -> {"none", "admit", "box"}]
  /\ msg \in [Node -> Events]
  /\ waitZero \in SUBSET Node /\ timer \in SUBSET Node /\ stash \in SUBSET Node
  /\ deferrals \in [Node -> 0..MaxDefer]
  /\ checked \in [Loops -> Nat]
  /\ marker \in BOOLEAN /\ paused \in BOOLEAN /\ fatal \in BOOLEAN
  /\ journal \in SUBSET Node
  /\ runEnd \in {"none", "aborted", "paused", "settled"}

\* A node that was released: dispatched, in flight, parked or settled by itself.
Released(n) == \/ life[n] \in {"queued", "slotwait", "running", "deferred"}
               \/ status[n] \in {"ok", "failed", "halted"}

\* The transitive closure of r, one intermediate node at a time.  (The singleton
\* makes TLC evaluate upto[k - 1] once.)
Closure(r) ==
  LET via(k, s) == s \cup ({a \in Node : <<a, k>> \in s} \X {b \in Node : <<k, b>> \in s})
      upto[k \in Nat] == IF k = 0 THEN r ELSE UNION {via(k, s) : s \in {upto[k - 1]}}
  IN  upto[CHOOSE k \in Node : \A n \in Node : n <= k]

\* <<a, n>>: node a is upstream of node n.
Upstream == Closure(edge)

-----------------------------------------------------------------------------
\* The in-degree counters of graph.go, kept by increments in edge and
\* decrements in finish, count exactly the predecessors that have not settled,
\* across splices and cascades: no dependent is released early or forgotten.
IndegExact ==
  \A d \in Node : indeg[d] = Cardinality({p \in Node : <<p, d>> \in edge /\ life[p] # "done"})

\* The slot, generate-pool and lane counters count the boxes in flight and
\* stay within --max-parallel, max_parallel and lanes: nothing leaks over
\* defers, failures or the abort path.
PoolsExact ==
  \A p \in Pools :
    /\ poolUsed[p] = Cardinality({n \in Node : Holds(n) /\ p \in PoolsOf(n)})
    /\ poolUsed[p] <= Bound(p)

\* `outstanding' is the number of worker goroutines whose event the loop still
\* has to receive, so when run returns none is left behind.
OutstandingExact ==
  /\ outstanding = Cardinality(Running)
  /\ Running = {n \in Node : worker[n] # "none" \/ msg[n] # NoEvent}
  /\ pc = "exit" => outstanding = 0

\* A triage stop never reads as a failure cascade: skipped-halt has a halted
\* node upstream, and skipped-dependency has a failed or a condition-skipped one.
SkipNamesItsCause ==
  \A n \in Node : \A c \in {<<"skipHalt", {"halted"}>>, <<"skipDep", {"failed", "skipCond"}>>} :
    status[n] = c[1] => \E u \in Upstream : u[2] = n /\ status[u[1]] \in c[2]

\* Fail-stop per chain: a node downstream of a failed or halted node is never
\* released, is settled as soon as that node is, and names the right cause
\* (propagate, settleSkip).
FailureStops ==
  /\ \A u \in Upstream : status[u[1]] \in {"failed", "halted"}
                          => life[u[2]] = "done" /\ ~Released(u[2])
  /\ SkipNamesItsCause

\* <<x, m>>: node m structurally belongs to the sub-workflow or generate node x.
Inside ==
  Closure({p \in Node \X Node : \/ p[2] \in Members(p[1])
                                \/ p[2] \in SpliceNodes({i \in Inst : InstGen[i] = p[1]})})

\* Everything that structurally belongs to an instance.
InsideInst(i) == Below(i) \cup {p[2] : p \in {q \in Inside : q[1] \in Below(i)}}

\* "After the sub-workflow" and "after the fan-out" mean after every inner
\* node: whoever is declared after x is released only when all of it settled,
\* an item only when all of the items it lists settled, and nothing inside a
\* sub-workflow before its entry settled ok.
AfterMeansAfterAll ==
  /\ \A e \in Decl, p \in Inside :
       e[1] = p[1] /\ Released(e[2]) => life[p[2]] \in {"absent", "done"}
  /\ \A d \in InstDeps : \A b \in InsideInst(d[2]) :
       Released(b) => \A m \in InsideInst(d[1]) : life[m] \in {"absent", "done"}
  /\ \A s \in Subs : \A m \in Members(s) : Released(m) => status[s] = "ok"

\* A deferred node always has exactly one way back: the parking lot, which
\* settlements empty, or its own timer.
ParkedHasWaker ==
  \A n \in Node : /\ life[n] = "deferred" <=> n \in waitZero \cup timer
                  /\ ~(n \in waitZero /\ n \in timer)

\* The loop never blocks in its select with nothing that could wake it: a
\* worker is out or a timer is armed (the evSettled/evDeferred race), and every
\* deferred node has its way back.
NeverStuck ==
  /\ pc = "top" /\ ~LoopEnds => outstanding > 0 \/ timer # {}
  /\ ParkedHasWaker

\* drain is a fixed point: when the loop goes to wait, no ready node is left
\* undispatched and no slot-waiting node could still be granted its pools, so
\* a full lane never blocks an unrelated launch.
WorkConserving ==
  pc = "top" /\ ~paused /\ ~fatal /\ ~marker => Queued = {} /\ Grantable = {}

\* Whatever ended the run short of an abort, exactly the settled nodes have a
\* durable result: resume re-enters where the run stopped; `settled' is only
\* written when every node of the graph, spliced ones included, settled.
RunEndSound ==
  pc = "exit" =>
    /\ runEnd # "aborted" =>
         journal = {n \in Node : life[n] = "done"}
    /\ runEnd = "settled" => AllDone
    /\ runEnd = "paused" => paused /\ ~AllDone

\* No box of a loop iteration is launched before the loop's expect command was
\* answered for that iteration.
ExpectBeforeWork ==
  \A n \in Node : life[n] = "slotwait" \/ worker[n] # "none" =>
    \A k \in DOMAIN Iters[n] : Iters[n][k][2] <= checked[Iters[n][k][1]]

-----------------------------------------------------------------------------
\* Once the pause is latched nothing new is dispatched, granted or launched,
\* whatever the in-flight workers still report.
PausedStartsNothing ==
  [][paused => \A n \in Node :
        life'[n] \in {"slotwait", "running"} => life[n] = life'[n]]_vars

\* A settled node is settled for good: no late event, wake, splice or cascade
\* reopens it or rewrites its status.
SettledForever ==
  [][\A n \in Node : life[n] = "done" => life'[n] = "done" /\ status'[n] = status[n]]_vars

\* Every run ends: no defer, pool, pause or cascade keeps the loop waiting.
RunEnds == <>(pc = "exit")

-----------------------------------------------------------------------------
\* The nodes a node or an item stands for: itself and all that is inside it.
Within(x) == IF x \in Inst THEN InsideInst(x) ELSE {x} \cup {m \in Node : <<x, m>> \in Inside}

\* <<a, b>>: a comes before b, by what the IR says of them or of what they are
\* inside of: an entry comes before its members, and all of what is declared
\* after something after all of that.
Gate  == {p \in Node \X Node : p[2] \in Members(p[1])}
Order == Gate \cup UNION {Within(e[1]) \X Within(e[2]) : e \in Decl \cup Cond \cup InstDeps}

\* A run as the one who wrote the workflow sees it.
Fills   == [i \in Inst |-> Below(i)]
ItemsOf == [g \in Node |-> {i \in Inst : InstGen[i] = g}]
Flow == INSTANCE Workflow WITH
          First    <- Below(0),
          Brings   <- Fills,
          Feeds    <- Data,
          there    <- {n \in Node : life[n] # "absent"},
          result   <- status,
          busy     <- Running,
          boxed    <- {n \in Node : Holds(n)},
          aborting <- fatal,
          recorded <- journal,
          over     <- runEnd

\* The run loop runs the workflow as it is declared: for all its edges, counters,
\* cascades and splices, a node is launched, asked about or settled only when
\* everything declared before it let it go on, a failure takes exactly what is
\* declared after it, at once, a result is durable or the run aborts, and nothing
\* happens after the end.
KeepsWorkflow == Flow!Spec

-----------------------------------------------------------------------------
\* spec/pipeline/arch_scheduler.md: "a paused run ends without it and resume
\* re-runs it - no record, no loss".  Costs that attempts before a defer have
\* already settled are then in the journal when the run ends paused.
PausedLosesNoCosts == runEnd = "paused" => stash = {}

\* applyExpected: "the boundary is recorded so the command does not run again
\* for it": at most one expect command per loop and iteration is in flight.
ExpectOncePerBoundary ==
  \A n, m \in Node :
    /\ n # m
    /\ msg[n].ev = "expected" /\ msg[m].ev = "expected"
    => <<msg[n].loop, msg[n].iter>> # <<msg[m].loop, msg[m].iter>>

\* docs/configuration.md: "max_parallel: at most 4 instances at once".  An
\* instance runs while a box of any node inside it, nested fan-outs included,
\* is in flight; every node is tagged with its innermost generate only.
MaxParallelInstances ==
  \A g \in {h \in DOMAIN GenMax : GenMax[h] > 0} :
    Cardinality({i \in Inst :
      /\ InstGen[i] = g
      /\ \E n \in InsideInst(i) : Holds(n)}) <= GenMax[g]
=============================================================================
