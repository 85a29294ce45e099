------------------------------- MODULE Views --------------------------------
(***************************************************************************)
(* What an operator is shown of a run: the report, derived from the        *)
(* journal and the graph with every unrolled loop folded back              *)
(* (pipeline/report.go, pipeline/rollup.go), and the progress stream       *)
(* (pipeline/progress.go), which folds the same loops from the scheduler's *)
(* events alone.                                                           *)
(*                                                                         *)
(* After the front end has fixed a graph and what every node comes to, the *)
(* run settles it node by node.  Each state is a point the process can     *)
(* crash at, and the report of the journal so far is a function of it.     *)
(* Names are ordered as strings by their place in NameOrder.               *)
(***************************************************************************)
EXTENDS FrontEnd, FiniteSets

CONSTANTS
  Watched,     \* the configurations whose runs are followed step by step
  NameOrder    \* the names of workflows and steps, sorted

VARIABLES
  journal,   \* the nodes with a result record
  running,   \* the agents whose box has started
  sink       \* TextSink: the iterations with a started node, the loops whose
             \* convergence line is out, the pending ranges and the lines said

viewVars == <<journal, running, sink>>
allVars == <<vars, viewVars>>

NoSink == [started |-> {}, settled |-> {}, pending |-> << >>, said |-> {}]

Preds(id) == {e[1] : e \in {f \in AllEdges(ir) : f[2] = id}}

-----------------------------------------------------------------------------
(* The id grammar. *)

\* IterationOf: the positions of id, after its first n, that are iterations.
IterationsIn(id, n) == {k \in (n + 1)..Len(id) : id[k][2] > 0}
LoopAt(id, k) == Append(SubSeq(id, 1, k - 1), <<id[k][1], 0>>)
InstanceAt(loop, i) == Append(Front(loop), <<Last(loop)[1], i>>)

\* loopOf: the outermost loop below scope, as a set of at most one pair.
LoopOf(id, scope) ==
  LET K == IterationsIn(id, Len(scope))
  IN  {<<LoopAt(id, k), id[k][2]>> : k \in {j \in K : \A l \in K : j <= l}}

LoopBound(loop) ==
  LET caps == {id[Len(loop)][2] : id \in {x \in Ids(ir) : /\ Len(x) >= Len(loop)
                                                         /\ LoopAt(x, Len(loop)) = loop}}
  IN  CHOOSE c \in caps \cup {0} : \A d \in caps : d <= c

Rank(x) == CHOOSE k \in DOMAIN NameOrder : NameOrder[k] = x
Less(p, q) ==
  LET d == {k \in 1..Len(p) : k > Len(q) \/ p[k] # q[k]}
      k == CHOOSE j \in d : \A i \in d : j <= i
  IN  IF d = {} THEN Len(p) < Len(q)
      ELSE /\ k <= Len(q)
           /\ \/ Rank(p[k][1]) < Rank(q[k][1])
              \/ p[k][1] = q[k][1] /\ p[k][2] < q[k][2]

-----------------------------------------------------------------------------
(* The report. *)

ReadingEdges ==
  {<<e.from, e.to>> : e \in ir.edges} \cup UNION {{<<d, n.id>> : d \in CondDeps(n.when)} : n \in ir.nodes}

\* topoOrder: of the nodes whose predecessors are out, the least comes next.
RECURSIVE TopoFrom(_)
TopoFrom(order) ==
  LET left == Ids(ir) \ Range(order)
      blocked == {e[2] : e \in {f \in ReadingEdges : f[1] \in left}}
      ready == left \ blocked
      least == CHOOSE x \in ready : \A y \in ready \ {x} : Less(x, y)
  IN  IF ready = {} THEN order ELSE TopoFrom(Append(order, least))
TopoOrder == TopoFrom(<< >>)

\* lineFromRecord: the states the journal tells apart.  A node dead after a halt is
\* not told from one dead after a failure; both read as not reached.
Terminal(n) ==
  IF out[n.id].st = "ok" THEN "ok"
  ELSE IF out[n.id].st = "fail" THEN "failed"
  ELSE IF out[n.id].st = "halt" THEN "halted"
  ELSE IF out[n.id].st = "dead" THEN "skipped-dependency"
  ELSE IF n.kind = "selector" \/ (n.when # {} /\ Evaluate(n.when, out, params) = "false") THEN "skipped-condition"
  ELSE "skipped-dependency"

\* Report: every node of the graph has a line.
StepLine(id) == IF id \in journal THEN Terminal(NodeOf(ir, id)) ELSE "absent"
Executed(status) == status \in {"ok", "failed", "halted"}

\* selectorLoops: the loop of a selector is its candidates' innermost.
Selectors == {n.id : n \in {m \in ir.nodes : m.kind = "selector"}}
SelectorLoop(id) ==
  LET c == NodeOf(ir, id).cands[1]
      K == IterationsIn(c, 0)
  IN  LoopAt(c, CHOOSE k \in K : \A j \in K : j <= k)

\* Mutant: the oldest executed candidate.
ChoseOldest(id) ==
  LET n == NodeOf(ir, id)
      ok == {k \in DOMAIN n.cands : StepLine(n.cands[k]) = "ok"}
  IN  IF StepLine(id) # "ok" THEN {} ELSE {n.cands[CHOOSE k \in ok : \A j \in ok : j <= k]}

\* chooseCandidate
Chose(id) ==
  LET n == NodeOf(ir, id)
      ok == {k \in DOMAIN n.cands : StepLine(n.cands[k]) = "ok"}
  IN  IF StepLine(id) # "ok" THEN {} ELSE {n.cands[CHOOSE k \in ok : \A j \in ok : k <= j]}

\* The selector failed with ReasonLoopExhausted.
LoopExhausted(id) ==
  StepLine(id) = "failed" /\ Evaluate(NodeOf(ir, id).exhausted, out, params) = "true"

Span(I) == IF I = {} THEN <<0, 0>>
           ELSE <<CHOOSE i \in I : \A j \in I : i <= j, CHOOSE i \in I : \A j \in I : j <= i>>

\* Mutant: an iteration takes its status from its own lines only.
IterationStatusOfLines(lines, loops) ==
  LET all == {StepLine(id) : id \in lines}
  IN  IF "failed" \in all THEN "failed" ELSE IF "halted" \in all THEN "halted" ELSE "ok"

IterationStatus(lines, loops) ==
  LET all == {StepLine(id) : id \in lines} \cup {l.status : l \in loops}
  IN  IF "failed" \in all THEN "failed" ELSE IF "halted" \in all THEN "halted" ELSE "ok"

IdleIterationKind(lines, loops) ==
  IF \/ \E id \in lines : StepLine(id) = "skipped-dependency"
     \/ \E l \in loops : l.notReached # <<0, 0>> THEN "not-reached"
  ELSE IF \/ \E id \in lines : StepLine(id) = "absent"
          \/ \E l \in loops : l.absent # <<0, 0>> THEN "absent"
  ELSE "unused"

\* A selector belongs to the scope its loop lives in: one of a nested loop rides into
\* the iteration it is in.
RidesIn(id, scope) == \E o \in LoopOf(id, scope) : o[1] # SelectorLoop(id)

\* Of several selectors of a loop the last in reading order is kept.
KeptSelector(S, order) ==
  {id \in S : \A x \in S : \E k, l \in DOMAIN order : order[k] = x /\ order[l] = id /\ k <= l}

LoopStatus(exhausted, iterations, ran, notReached, absent) ==
  IF exhausted \/ (\E it \in iterations : it.status = "failed") THEN "failed"
  ELSE IF \E it \in iterations : it.status = "halted" THEN "halted"
  ELSE IF ran = 0 /\ notReached # <<0, 0>> THEN "not-reached"
  ELSE IF ran = 0 /\ absent # <<0, 0>> THEN "absent"
  ELSE "ok"

\* rollupLoops: the lines S under scope, as plain lines and folded loops.
RECURSIVE Rollup(_, _, _)
Rollup(S, scope, order) ==
  LET own == {id \in S \cap Selectors : ~RidesIn(id, scope)}
      inside == {id \in S \ own : LoopOf(id, scope) # {}}
      place == [id \in inside |-> CHOOSE o \in LoopOf(id, scope) : TRUE]
      found == {place[id][1] : id \in inside} \cup {SelectorLoop(id) : id \in own}
      fold(loop) ==
        LET indices == {place[id][2] : id \in {x \in inside : place[x][1] = loop}}
            at == [i \in indices |->
                     Rollup({id \in inside : place[id] = <<loop, i>>}, InstanceAt(loop, i), order)]
            ran == {i \in indices : \/ \E id \in at[i].plain : Executed(StepLine(id))
                                    \/ \E l \in at[i].loops : l.ran > 0}
            idle(kind) == {i \in indices \ ran : IdleIterationKind(at[i].plain, at[i].loops) = kind}
            kept == KeptSelector({id \in own : SelectorLoop(id) = loop}, order)
            exhausted == \E id \in kept : LoopExhausted(id)
            iterations == {[index |-> i, status |-> IterationStatus(at[i].plain, at[i].loops),
                            steps |-> at[i].plain, loops |-> at[i].loops] : i \in ran}
        IN  [loop |-> loop, bound |-> LoopBound(loop), ran |-> Cardinality(ran),
             status |-> LoopStatus(exhausted, iterations, Cardinality(ran),
                                   Span(idle("not-reached")), Span(idle("absent"))),
             chose |-> UNION {Chose(id) : id \in kept}, exhausted |-> exhausted,
             iterations |-> iterations, notReached |-> Span(idle("not-reached")),
             absent |-> Span(idle("absent"))]
  IN  [plain |-> (S \ own) \ inside, loops |-> {fold(l) : l \in found}]

Report == Rollup(Ids(ir), <<<<"main", 0>>>>, TopoOrder)

-----------------------------------------------------------------------------
(* The progress stream. *)

\* Mutant: the outermost loop, whether its iteration is live or not.
OutermostLoop(id) ==
  LET K == IterationsIn(id, 0)
  IN  {LoopAt(id, k) : k \in {j \in K : \A l \in K : j <= l}}

\* outermostIdle: the outermost loop whose iteration never started a node, if any.
OutermostIdle(id) ==
  LET K == {k \in IterationsIn(id, 0) : SubSeq(id, 1, k) \notin sink.started}
  IN  {LoopAt(id, k) : k \in {j \in K : \A l \in K : j <= l}}

\* noteStart
NoteStart(id) == sink.started \cup {SubSeq(id, 1, k) : k \in IterationsIn(id, 0)}

\* maxIter: the highest iteration of loop with a started node.
MaxIter(loop) == Span({x[Len(x)][2] : x \in {y \in sink.started : LoopAt(y, Len(y)) = loop}})[2]

Word(loop, n) == [loop |-> loop, after |-> n, of |-> LoopBound(loop)]

\* settledLines, for nodes settled together: a condition skip in an idle iteration
\* says once that its loop converged, a dependency skip widens the loop's range.
SettledLines(S) ==
  LET idle(status) == {id \in S : Terminal(NodeOf(ir, id)) = status /\ OutermostIdle(id) # {}}
      loopsOf(X) == UNION {OutermostIdle(id) : id \in X}
      converged == loopsOf(idle("skipped-condition")) \ sink.settled
      missed == [l \in loopsOf(idle("skipped-dependency")) |->
                   {id[Len(l)][2] : id \in {x \in idle("skipped-dependency") : l \in OutermostIdle(x)}}]
      before(l) == IF l \in DOMAIN sink.pending THEN {sink.pending[l][1], sink.pending[l][2]} ELSE {}
  IN  [sink EXCEPT
         !.settled = @ \cup converged,
         !.said = @ \cup {Word(l, MaxIter(l)) : l \in converged},
         !.pending = [l \in DOMAIN missed |-> Span(missed[l] \cup before(l))] @@ @]

-----------------------------------------------------------------------------
(* The run, as its journal and its events show it. *)

Watching == stage = "done" /\ cfg \in Watched

\* A box starts, unless the node settles without one.
Launched(n) == n.kind = "agent" /\ out[n.id].st \in {"ok", "fail", "halt"}
Started(n) ==
  /\ Watching
  /\ Launched(n) /\ n.id \notin running /\ Preds(n.id) \subseteq journal
  /\ running' = running \cup {n.id}
  /\ sink' = [sink EXCEPT !.started = NoteStart(n.id)]
  /\ UNCHANGED <<vars, journal>>

\* A failure takes everything after it along.
RECURSIVE Doomed(_)
Doomed(S) ==
  LET T == S \cup {x \in Ids(ir) : out[x].st = "dead" /\ Preds(x) \cap S # {}}
  IN  IF T = S THEN S ELSE Doomed(T)

Settles(n) ==
  LET together == IF out[n.id].bad THEN Doomed({n.id}) \ journal ELSE {n.id} IN
  /\ Watching
  /\ n.id \notin journal /\ Preds(n.id) \subseteq journal /\ out[n.id].st # "dead"
  /\ Launched(n) => n.id \in running
  /\ journal' = journal \cup together
  /\ sink' = SettledLines(together)
  /\ UNCHANGED <<vars, running>>

ViewInit == Init /\ journal = {} /\ running = {} /\ sink = NoSink

ViewNext ==
  \/ Next /\ UNCHANGED viewVars
  \/ \E n \in ir.nodes : Started(n) \/ Settles(n)

ViewSpec == ViewInit /\ [][ViewNext]_allVars

-----------------------------------------------------------------------------
(* Properties *)

Over == Watching /\ Ids(ir) \subseteq journal

\* Every folded loop, at any depth.
RECURSIVE Folded(_)
Folded(loops) ==
  loops \cup UNION {UNION {Folded(it.loops) : it \in l.iterations} : l \in loops}

BodyOf(loop, S) == {id \in S : Len(id) >= Len(loop) /\ LoopAt(id, Len(loop)) = loop /\ id[Len(loop)][2] > 0}

\* The report reads in an order the run could have had: every node once, after
\* whatever it takes data from, is ordered after or is conditioned on (topoOrder).
ReadsInOrder ==
  Watching /\ journal = {} =>
    LET order == TopoOrder IN
    /\ Range(order) = Ids(ir) /\ Len(order) = Cardinality(Ids(ir))
    /\ \A n \in ir.nodes : \A d \in CondDeps(n.when) \cup {e.from : e \in {f \in ir.edges : f.to = n.id}} :
         \E i, j \in DOMAIN order : order[i] = d /\ order[j] = n.id /\ i < j

\* At every crash point, no failure or halt disappears into a fold: a folded loop
\* with one in it, however deep, reads failed, or halted when nothing failed; and
\* one that reads not reached or absent has executed nothing (rollupLoops).
\* What is shown is in an order the run could have had.
FailureSurfaces ==
  /\ ReadsInOrder
  /\ Watching =>
    \A l \in Folded(Report.loops) :
      LET seen == {StepLine(id) : id \in BodyOf(l.loop, Ids(ir))} IN
      /\ "failed" \in seen => l.status = "failed"
      /\ "halted" \in seen /\ "failed" \notin seen => l.status \in {"halted", "failed"}
      /\ l.status \in {"not-reached", "absent"} => \A s \in seen : ~Executed(s)

TopLoops == {s \in StepsIn(Head(Root)) : IsLoop(s)}
SelectorsOf(loop) == {id \in Selectors : SelectorLoop(id) = loop}

\* The report of a finished run folds each loop back into what the loop means: it
\* ran as many iterations as were reached, adopted the newest that executed, and is
\* exhausted exactly when the final one left until unmet.  For loops with one
\* selector; KeepsExhaustion is the claim for all.
RollupMeans ==
  Over /\ StoppedAgents = {} /\ Exhausted(Root) = (Status("fail") # {}) =>
    \A s \in TopLoops : \A l \in {r \in Report.loops : r.loop = Child(Head(Root).prefix, s.id)} :
      Cardinality(SelectorsOf(l.loop)) = 1 =>
        LET busy == {i \in 1..s.max : Meaning(Inside(Root, s, i)) # {}}
            final == Inside(Root, s, s.max)
        IN  /\ l.bound = s.max
            /\ ~(\E i \in 1..s.max : Exhausted(Inside(Root, s, i))) =>
                 /\ l.ran = Cardinality(busy)
                 /\ l.exhausted <=> Reached(final) /\ GoesOn(final, s.until)
            /\ \A c \in l.chose : \A i \in busy : Runs(Inside(Root, s, i), Home(Inside(Root, s, i), Last(c)[1]).step) => i <= c[Len(l.loop)][2]

\* The steps of the loop have no guards and read nothing from outside it.
SelfContained(s) ==
  \A k \in DOMAIN s.body :
    /\ s.body[k].when = {} /\ s.body[k].after = {}
    /\ \A w \in StepRefs(s.body[k]) : w.name \in BodyIds(s)

\* The two ways of folding agree: at the end of a run the stream has said "settled
\* after n of cap" (or "not needed", n = 0) of a loop exactly when the report shows
\* iterations that were not needed, with the same n and cap, and the same range of
\* iterations not reached.
ProgressAgrees ==
  Over =>
    \A s \in TopLoops : SelfContained(s) =>
      \A l \in {r \in Report.loops : r.loop = Child(Head(Root).prefix, s.id)} :
        /\ {w \in sink.said : w.loop = l.loop} =
             IF l.ran < l.bound /\ l.notReached = <<0, 0>> THEN {Word(l.loop, l.ran)} ELSE {}
        /\ (IF l.loop \in DOMAIN sink.pending THEN sink.pending[l.loop] ELSE <<0, 0>>) = l.notReached

\* "Exhausted marks the loop-exhaustion failure: every iteration ran and the until
\* condition never held" (pipeline/rollup.go:24), of every loop.  Violated with two
\* selectors when the one read last belongs to a step the final iteration skipped.
KeepsExhaustion ==
  Over /\ StoppedAgents = {} =>
    \A l \in Report.loops : (\E id \in SelectorsOf(l.loop) : LoopExhausted(id)) => l.exhausted

\* "one 'settled after n of cap' line when a loop converges" (pipeline/progress.go:15):
\* a loop said to be settled or not needed runs no further iteration.  Violated when a
\* guarded step settles before another of its iteration starts.
SaidOnceSettled ==
  Watching =>
    \A w \in sink.said : \A id \in BodyOf(w.loop, running) : id[Len(w.loop)][2] <= w.after
=============================================================================
