------------------------------- MODULE Desugar ------------------------------
(***************************************************************************)
(* The compiler from workflows to the executed graph (config/desugar.go):  *)
(* loops unrolled into gated iterations, references turned into edges,     *)
(* post-loop selectors created on demand, sub-workflows inlined.           *)
(*                                                                         *)
(* A node id is a path of segments <<name, iteration>>, iteration 0 for a  *)
(* plain segment.  A condition is a conjunction of boolean step fields and *)
(* params, its CEL text is left out.  The builder a graph accumulates in   *)
(* is threaded through the operators as b.                                 *)
(***************************************************************************)
EXTENDS Naturals, Sequences, SequencesExt

CONSTANT MaxUnrolledNodes   \* maxUnrolledNodes, 10000 in the code

None == "none"   \* no value: an undeclared default, an unset param, a missing field

Child(prefix, x) == Append(prefix, <<x, 0>>)
InstancePrefix(prefix, loop, i) == Append(prefix, <<loop, i>>)
Under(id, prefix) == IsStrictPrefix(prefix, id)

NoGraph == [nodes |-> {}, edges |-> {}, loops |-> {}, errs |-> {}, count |-> 0]

IsLoop(s) == s.kind = "loop"
BodyIds(s) == {s.body[k].id : k \in {j \in DOMAIN s.body : ~IsLoop(s.body[j])}}

-----------------------------------------------------------------------------
(* Validate: the rules for a step list. *)

RECURSIVE AllSteps(_)
AllSteps(steps) ==
  LET here == {<<k>> : k \in DOMAIN steps}
  IN  here \cup UNION {{<<k>> \o p : p \in AllSteps(steps[k].body)} : k \in DOMAIN steps}

RECURSIVE StepAt(_, _)
StepAt(steps, p) == IF Len(p) = 1 THEN steps[p[1]] ELSE StepAt(steps[p[1]].body, Tail(p))

\* One set of seen ids is threaded through every nesting level.
DistinctIds(steps) ==
  \A p, q \in AllSteps(steps) : p # q => StepAt(steps, p).id # StepAt(steps, q).id

RECURSIVE CheckSteps(_, _, _)
CheckSteps(cfg, steps, enclosing) ==
  LET scope == enclosing \cup {steps[k].id : k \in DOMAIN steps}
  IN  \A k \in DOMAIN steps :
        LET s == steps[k] IN
        /\ s.after \subseteq scope \ {s.id}
        /\ s.kind \in {"agent"} => s.use \in DOMAIN cfg.templates
        /\ s.kind \in {"sub", "generate"} => s.use \in DOMAIN cfg.workflows
        /\ \A w \in s.with : w.kind = "item" => s.kind = "generate"
        /\ IsLoop(s) =>
             /\ s.max >= 1 /\ s.until # {} /\ s.body # << >> /\ s.with = {}
             /\ CheckSteps(cfg, s.body, scope)

CheckWorkflow(cfg, wf) ==
  LET steps == cfg.workflows[wf].steps
  IN  steps # << >> /\ DistinctIds(steps) /\ CheckSteps(cfg, steps, {})

RECURSIVE Uses(_, _)
Uses(cfg, steps) ==
  UNION {IF IsLoop(steps[k]) THEN Uses(cfg, steps[k].body)
         ELSE IF steps[k].kind = "sub" THEN {steps[k].use} ELSE {} : k \in DOMAIN steps}

\* Generate references are not followed: their target expands at run time.
RECURSIVE RefCycle(_, _, _)
RefCycle(cfg, wf, stack) ==
  \/ wf \in stack
  \/ \E u \in Uses(cfg, cfg.workflows[wf].steps) : RefCycle(cfg, u, stack \cup {wf})

-----------------------------------------------------------------------------
(* Name resolution.  lvls is the chain of scopes, innermost first. *)

Level(prefix, steps) == [prefix |-> prefix, steps |-> steps]
StepsIn(l) == {l.steps[k] : k \in DOMAIN l.steps}

\* Innermost out: a plain step, else the selector of a loop whose body it is in.
RECURSIVE ResolveStep(_, _)
ResolveStep(lvls, x) ==
  IF lvls = << >> THEN [id |-> << >>, sels |-> {}, errs |-> {"unknown-step"}]
  ELSE LET l == Head(lvls)
           named == {s \in StepsIn(l) : s.id = x}
           homes == {s \in StepsIn(l) : IsLoop(s) /\ x \in BodyIds(s)}
       IN  IF \E s \in named : ~IsLoop(s) THEN
                  [id |-> Child(l.prefix, x), sels |-> {}, errs |-> {}]
           ELSE IF \E s \in named : IsLoop(s) THEN
                  [id |-> << >>, sels |-> {}, errs |-> {"loop-step"}]
           ELSE IF named = {} /\ homes # {} THEN
                  [id |-> Child(l.prefix, x), errs |-> {},
                   sels |-> {[prefix |-> l.prefix, loop |-> CHOOSE s \in homes : TRUE, step |-> x]}]
           ELSE ResolveStep(Tail(lvls), x)

\* Depending on a loop is depending on its last iteration's direct body steps.
RECURSIVE ResolveDependsOn(_, _)
ResolveDependsOn(lvls, x) ==
  IF lvls = << >> THEN {}
  ELSE LET l == Head(lvls)
           named == {s \in StepsIn(l) : s.id = x}
       IN  IF \E s \in named : ~IsLoop(s) THEN {Child(l.prefix, x)}
           ELSE IF \E s \in named : IsLoop(s) THEN
                  LET s == CHOOSE s \in named : IsLoop(s)
                  IN  {Child(InstancePrefix(l.prefix, x, s.max), y) : y \in BodyIds(s)}
           ELSE ResolveDependsOn(Tail(lvls), x)

Err(b, e) == [b EXCEPT !.errs = @ \cup e]
AddEdges(b, E) == [b EXCEPT !.edges = @ \cup E]
AddNode(b, n) == [b EXCEPT !.nodes = @ \cup {n}, !.count = @ + 1]
Made(b) == {n.id : n \in b.nodes}

Edge(from, fport, to, tport) == [from |-> from, fport |-> fport, to |-> to, tport |-> tport]
IsOrdering(e) == e.fport = "" /\ e.tport = ""

\* until over the steps of iteration i, negated: the gate of iteration i + 1.
UntilReads(s) == UNION {e.reads : e \in s.until}
Gate(prefix, s, i) ==
  {[neg |-> TRUE, params |-> e.params,
    reads |-> {<<Child(InstancePrefix(prefix, s.id, i), r[1]), r[2]>> : r \in e.reads}]
     : e \in s.until}

\* Mutant: candidates oldest first.
CandidatesOldestFirst(v) ==
  [k \in 1..v.loop.max |-> Child(InstancePrefix(v.prefix, v.loop.id, k), v.step)]

Candidates(v) ==
  [k \in 1..v.loop.max |->
     Child(InstancePrefix(v.prefix, v.loop.id, v.loop.max + 1 - k), v.step)]

\* Created once; the exhaustion rule reads the final iteration.
EnsureSelector(b, v) ==
  LET id == Child(v.prefix, v.step)
      node == [id |-> id, kind |-> "selector", use |-> "", binds |-> {}, when |-> {},
               cands |-> Candidates(v), exhausted |-> Gate(v.prefix, v.loop, v.loop.max),
               sub |-> NoGraph]
  IN  IF id \in Made(b) THEN b
      ELSE AddEdges(AddNode(b, node), {Edge(c, "", id, "") : c \in Range(node.cands)})

RECURSIVE EnsureSelectors(_, _)
EnsureSelectors(b, V) ==
  IF V = {} THEN b
  ELSE LET v == CHOOSE v \in V : TRUE IN EnsureSelectors(EnsureSelector(b, v), V \ {v})

\* The graph after resolving the step names X, and the piece an expression becomes.
Touch(b, lvls, X) ==
  LET R == {ResolveStep(lvls, x) : x \in X}
  IN  EnsureSelectors(Err(b, UNION {r.errs : r \in R}), UNION {r.sels : r \in R})
Piece(lvls, e) ==
  [neg |-> FALSE, params |-> e.params,
   reads |-> {<<ResolveStep(lvls, r[1]).id, r[2]>> : r \in e.reads}]
ReadSteps(E) == UNION {{r[1] : r \in e.reads} : e \in E}

-----------------------------------------------------------------------------
(* Emission *)

\* A target workflow's defaults are baked into the scope it is entered with.
ScopeDefaults(cfg, s) ==
  IF s.kind \notin {"sub", "generate"} THEN {}
  ELSE LET decl == cfg.workflows[s.use].params
       IN  {[slot |-> p, kind |-> "literal", name |-> decl[p].default, field |-> decl[p].type]
              : p \in {q \in DOMAIN decl : decl[q].default # None /\ \A w \in s.with : w.slot # q}}

StepRefs(s) == {w \in s.with : w.kind = "step"}

\* Mutant: the gate counts down from the cap.
IterationGatesFromCap(prefix, s, i, gates) ==
  IF i = 1 THEN gates ELSE gates \cup Gate(prefix, s, s.max + 1 - i)

IterationGates(prefix, s, i, gates) ==
  IF i = 1 THEN gates ELSE gates \cup Gate(prefix, s, i - 1)

RECURSIVE CountSteps(_)
CountSteps(steps) ==
  IF steps = << >> THEN 0
  ELSE LET s == Head(steps)
       IN  (IF IsLoop(s) THEN CountSteps(s.body) * s.max ELSE 1) + CountSteps(Tail(steps))

RECURSIVE EmitSteps(_, _, _, _, _)
RECURSIVE UnrollFrom(_, _, _, _, _, _, _)

\* emitAgent, emitSub and emitGenerate.
EmitNode(cfg, b, s, lvls, gates, sub) ==
  LET id == Child(Head(lvls).prefix, s.id)
      b1 == Touch(b, lvls, {w.name : w \in StepRefs(s)} \cup ReadSteps(s.when))
      data == {Edge(ResolveStep(lvls, w.name).id, w.field, id, w.slot) : w \in StepRefs(s)}
      order == UNION {{Edge(f, "", id, "") : f \in ResolveDependsOn(lvls, x)} : x \in s.after}
      node == [id |-> id, kind |-> s.kind, use |-> s.use,
               binds |-> (s.with \ StepRefs(s)) \cup ScopeDefaults(cfg, s),
               when |-> gates \cup {Piece(lvls, e) : e \in s.when},
               cands |-> << >>, exhausted |-> {}, sub |-> sub]
  IN  AddNode(AddEdges(b1, data \cup order), node)

\* Every node of iteration i - 1 orders every node of iteration i.
UnrollFrom(cfg, b, s, lvls, gates, i, prev) ==
  IF i > s.max THEN b
  ELSE LET prefix == Head(lvls).prefix
           inst == InstancePrefix(prefix, s.id, i)
           b1 == EmitSteps(cfg, b, s.body, <<Level(inst, s.body)>> \o lvls,
                           IterationGates(prefix, s, i, gates))
           cur == {n.id : n \in {m \in b1.nodes \ b.nodes : Under(m.id, inst)}}
           b2 == AddEdges(b1, {Edge(p, "", c, "") : p \in prev, c \in cur})
       IN  UnrollFrom(cfg, b2, s, lvls, gates, i + 1, cur)

\* The loop step's own depends_on is not read.
UnrollLoop(cfg, b, s, lvls, gates) ==
  LET prefix == Head(lvls).prefix
      untilSteps == {r[1] : r \in UntilReads(s)}
      own == {Piece(lvls, e) : e \in s.when}
      b0 == IF s.expect
              THEN [b EXCEPT !.loops = @ \cup {[id |-> Child(prefix, s.id), max |-> s.max]}] ELSE b
      b1 == UnrollFrom(cfg, Touch(b0, lvls, ReadSteps(s.when)), s, lvls, gates \cup own, 1, {})
  IN  IF b.count + CountSteps(s.body) * s.max > MaxUnrolledNodes THEN Err(b, {"ceiling"})
      ELSE IF ~(untilSteps \subseteq BodyIds(s)) THEN Err(b, {"until-outside-body"})
      ELSE EnsureSelectors(b1, {[prefix |-> prefix, loop |-> s, step |-> x] : x \in untilSteps})

RECURSIVE EmitWorkflow(_, _, _, _)
EmitWorkflow(cfg, wf, scope, count) ==
  LET steps == cfg.workflows[wf].steps
  IN  EmitSteps(cfg, [NoGraph EXCEPT !.count = count], steps, <<Level(scope, steps)>>, {})

\* Inlined sub-workflows share the node count and the errors.
EmitStep(cfg, b, s, lvls, gates) ==
  CASE IsLoop(s) -> UnrollLoop(cfg, b, s, lvls, gates)
    [] s.kind = "sub" ->
         LET sub == EmitWorkflow(cfg, s.use, Child(Head(lvls).prefix, s.id), b.count)
         IN  EmitNode(cfg, Err([b EXCEPT !.count = sub.count], sub.errs), s, lvls, gates, sub)
    [] OTHER -> EmitNode(cfg, b, s, lvls, gates, NoGraph)

EmitSteps(cfg, b, steps, lvls, gates) ==
  IF steps = << >> THEN b
  ELSE EmitSteps(cfg, EmitStep(cfg, b, Head(steps), lvls, gates), Tail(steps), lvls, gates)

Compile(cfg, wf) ==
  IF RefCycle(cfg, wf, {}) THEN Err(NoGraph, {"workflow-cycle"})
  ELSE EmitWorkflow(cfg, wf, <<<<wf, 0>>>>, 0)

-----------------------------------------------------------------------------
(* The resume key: the graph of the workflow with every cap forced to 1. *)

RECURSIVE CapSteps(_, _)
CapSteps(steps, n) ==
  [k \in DOMAIN steps |->
     IF IsLoop(steps[k])
       THEN [steps[k] EXCEPT !.max = n, !.body = CapSteps(steps[k].body, n)] ELSE steps[k]]

CapFree(cfg, wf) ==
  Compile([cfg EXCEPT !.workflows =
             [w \in DOMAIN @ |-> [@[w] EXCEPT !.steps = CapSteps(@, 1)]]], wf)
=============================================================================
