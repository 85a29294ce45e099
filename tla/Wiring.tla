------------------------------- MODULE Wiring -------------------------------
(***************************************************************************)
(* CheckWiring, the gate between a compiled graph and a run                *)
(* (config/wiring.go, config/condcheck.go), and what the executor then     *)
(* does with the graph: params, conditions, selectors and input slots      *)
(* (config/params.go, pipeline/cond.go, values.go, the gates of            *)
(* scheduler.go, and the launch checks of agent/containerspec.go).         *)
(*                                                                         *)
(* A declaration is [type, enum, required, default]; a value is the text   *)
(* of a scalar, its type that of the declaration it was checked against.   *)
(***************************************************************************)
EXTENDS Desugar, FiniteSets

Ids(g) == {n.id : n \in g.nodes}
NodeOf(g, id) == CHOOSE n \in g.nodes : n.id = id

-----------------------------------------------------------------------------
(* CheckWiring *)

NoFields == [f \in {} |-> None]

\* A selector proxies its newest candidate.
Outputs(cfg, g, n) ==
  LET m == IF n.kind = "selector" THEN NodeOf(g, n.cands[1]) ELSE n
  IN  IF m.kind = "agent" THEN cfg.templates[m.use].output ELSE NoFields

Inputs(cfg, n) ==
  CASE n.kind = "agent" -> cfg.templates[n.use].inputs
    [] n.kind \in {"sub", "generate"} -> cfg.workflows[n.use].params
    [] OTHER -> NoFields

RECURSIVE Flat(_)
Flat(g) == g.nodes \cup UNION {Flat(n.sub) : n \in g.nodes}

PassFlatIDs(g) == \A m, n \in Flat(g) : m.id = n.id => m = n

DataEdges(g) == {e \in g.edges : ~IsOrdering(e)}

PassResolution(cfg, g) ==
  \A e \in g.edges :
    /\ {e.from, e.to} \subseteq Ids(g)
    /\ ~IsOrdering(e) => /\ e.fport \in DOMAIN Outputs(cfg, g, NodeOf(g, e.from))
                         /\ e.tport \in DOMAIN Inputs(cfg, NodeOf(g, e.to))

\* Every slot is bound at most once; a required one without a default, exactly once.
PassSlots(cfg, g) ==
  \A n \in g.nodes :
    LET slots == Inputs(cfg, n)
        sources(slot) == Cardinality({e \in DataEdges(g) : e.to = n.id /\ e.tport = slot})
                           + Cardinality({w \in n.binds : w.slot = slot})
    IN  /\ {w.slot : w \in n.binds} \subseteq DOMAIN slots
        /\ \A slot \in DOMAIN slots :
             /\ sources(slot) <= 1
             /\ slots[slot].required /\ slots[slot].default = None => sources(slot) = 1

\* No conversions; an enum source narrows, a plain one does not fit an enum slot.
TypeSatisfies(src, dst) ==
  /\ src.type = dst.type
  /\ dst.enum # {} => src.enum # {} /\ src.enum \subseteq dst.enum

BindingFits(params, w, dst) ==
  CASE w.kind = "param" -> w.name \in DOMAIN params /\ TypeSatisfies(params[w.name], dst)
    [] w.kind = "literal" -> w.field = dst.type /\ (dst.enum # {} => w.name \in dst.enum)
    [] w.kind = "item" -> /\ w.name = "id" => dst.type = "string"
                          /\ w.name = "deps" => dst.type = "object"

PassTypes(cfg, wf, g) ==
  /\ \A e \in DataEdges(g) :
       TypeSatisfies(Outputs(cfg, g, NodeOf(g, e.from))[e.fport],
                     Inputs(cfg, NodeOf(g, e.to))[e.tport])
  /\ \A n \in g.nodes : \A w \in n.binds :
       BindingFits(cfg.workflows[wf].params, w, Inputs(cfg, n)[w.slot])

CondDeps(P) == UNION {{r[1] : r \in p.reads} : p \in P}
CondDepEdges(g) ==
  UNION {{<<d, n.id>> : d \in CondDeps(n.when \cup n.exhausted)} : n \in g.nodes}
AllEdges(g) == {<<e.from, e.to>> : e \in g.edges} \cup CondDepEdges(g)

\* Kahn's algorithm: what cannot be scheduled.
RECURSIVE Leftover(_, _)
Leftover(N, E) ==
  LET free == {n \in N : ~\E e \in E : e[2] = n /\ e[1] \in N}
  IN  IF free = {} THEN N ELSE Leftover(N \ free, E)

\* Mutant: condition references are not taken for edges.
PassAcyclicEdges(g) == Leftover(Ids(g), {<<e.from, e.to>> : e \in g.edges}) = {}

PassAcyclic(g) == Leftover(Ids(g), AllEdges(g)) = {}

Descendants(g, id) ==
  LET RECURSIVE Reach(_)
      Reach(S) == LET T == S \cup {e.to : e \in {f \in g.edges : f.from \in S}}
                  IN  IF T = S THEN S ELSE Reach(T)
  IN  Reach({e.to : e \in {f \in g.edges : f.from = id}})

\* A param a condition reads must be there whenever the condition is evaluated.
Guaranteed(params) == {p \in DOMAIN params : params[p].required \/ params[p].default # None}

PassConditions(cfg, wf, g) ==
  \A n \in g.nodes : \A p \in n.when \cup n.exhausted :
    /\ CondDeps({p}) \subseteq Ids(g) \ Descendants(g, n.id)
    /\ \A r \in p.reads : r[2] \in DOMAIN Outputs(cfg, g, NodeOf(g, r[1]))
    /\ p.params \subseteq Guaranteed(cfg.workflows[wf].params)

\* Later passes report only what the earlier ones let through.
RECURSIVE CheckGraph(_, _, _)
CheckGraph(cfg, wf, g) ==
  /\ PassResolution(cfg, g)
  /\ PassSlots(cfg, g)
  /\ PassTypes(cfg, wf, g)
  /\ PassAcyclic(g)
  /\ PassConditions(cfg, wf, g)
  /\ \A n \in g.nodes : n.kind = "sub" => CheckGraph(cfg, n.use, n.sub)

CheckWiring(cfg, wf, g) == PassFlatIDs(g) /\ CheckGraph(cfg, wf, g)

-----------------------------------------------------------------------------
(* The run.  An outcome is [st, val, inputs, bad]. *)

\* The values a declaration admits.
Admits(d) ==
  IF d.enum # {} THEN d.enum
  ELSE IF d.type = "bool" THEN {"true", "false"}
  ELSE IF d.type = "int" THEN {"1"}
  ELSE {"u", "v", ""}

\* coerceParam and the defaults; None where the run starts without the param.
CheckParams(decl, supplied) ==
  [p \in DOMAIN decl |-> IF supplied[p] # None THEN supplied[p] ELSE decl[p].default]
ParamsAccepted(decl, supplied) ==
  \A p \in DOMAIN decl :
    IF supplied[p] # None THEN supplied[p] \in Admits(decl[p])
    ELSE decl[p].required => decl[p].default # None

Settled(st, val, inputs) ==
  [st |-> st, val |-> val, inputs |-> inputs, bad |-> st \in {"fail", "halt", "dead"}]

\* What a field or a param gives a conjunction; "error" where there is none.
Term(values, name) ==
  IF name \notin DOMAIN values \/ values[name] = None THEN "error"
  ELSE IF values[name] = "true" THEN "true" ELSE "false"

\* CEL's &&, whose operands commute: one that is false absorbs an error of another.
Conjunction(T) ==
  IF "false" \in T THEN "false" ELSE IF "error" \in T THEN "error" ELSE "true"

Negated(v) == CASE v = "true" -> "false" [] v = "false" -> "true" [] OTHER -> "error"

\* A skipped dependency makes a condition false without evaluating it.
Evaluate(P, st, env) ==
  LET body(p) == Conjunction({Term(st[r[1]].val, r[2]) : r \in p.reads}
                               \cup {Term(env, x) : x \in p.params})
  IN  IF \E d \in CondDeps(P) : st[d].st = "skip" THEN "false"
      ELSE Conjunction({IF p.neg THEN Negated(body(p)) ELSE body(p) : p \in P})

\* The newest executed candidate, unless the loop is exhausted.
ResolveSelector(n, st, env) ==
  LET ok == {k \in DOMAIN n.cands : st[n.cands[k]].st = "ok"}
      newest == CHOOSE k \in ok : \A j \in ok : k <= j
      exhausted == IF 1 \in ok THEN Evaluate(n.exhausted, st, env) ELSE "false"
  IN  IF exhausted # "false" THEN Settled("fail", NoFields, NoFields)
      ELSE IF ok = {} THEN Settled("skip", NoFields, NoFields)
      ELSE Settled("ok", st[n.cands[newest]].val, NoFields)

\* Bindings, then data edges, then the slot's declared default.  The scope of a
\* sub-workflow gets no default here: the compiler baked those of unbound params.
SlotValue(g, n, slot, decl, st, env) ==
  LET edges == {e \in DataEdges(g) : e.to = n.id /\ e.tport = slot}
      binds == {w \in n.binds : w.slot = slot}
      e == CHOOSE e \in edges : TRUE
      w == CHOOSE w \in binds : TRUE
      bound == IF edges # {} THEN st[e.from].val[e.fport]
               ELSE IF binds = {} THEN None
               ELSE IF w.kind = "literal" THEN w.name
               ELSE IF w.kind = "param" THEN env[w.name] ELSE "u"
  IN  IF bound = None /\ n.kind = "agent" THEN decl.default ELSE bound

ResolveInputs(cfg, g, n, st, env) ==
  [slot \in DOMAIN Inputs(cfg, n) |-> SlotValue(g, n, slot, Inputs(cfg, n)[slot], st, env)]

DataFrom(g, n) == {e \in DataEdges(g) : e.to = n.id}
MissingField(g, n, st) == \E e \in DataFrom(g, n) : st[e.from].val[e.fport] = None

\* BuildContainerSpec: a required input that is absent or empty fails the launch.
Launches(cfg, n, inputs) ==
  \A slot \in DOMAIN inputs : Inputs(cfg, n)[slot].required => inputs[slot] \notin {None, ""}

\* The answer of an agent that failed or halted says so instead of giving fields.
Stops(answer) == "stop" \in DOMAIN answer

\* A failure anywhere before a node dooms it; a skipped source skips it.
Outcome(cfg, g, n, st, env, world) ==
  LET preds == {e[1] : e \in {f \in AllEdges(g) : f[2] = n.id}}
      cond == IF n.when = {} THEN "true" ELSE Evaluate(n.when, st, env)
      inputs == ResolveInputs(cfg, g, n, st, env)
      unusable == MissingField(g, n, st) \/ (n.kind = "agent" /\ ~Launches(cfg, n, inputs))
  IN  IF \E p \in preds : st[p].bad THEN Settled("dead", NoFields, NoFields)
      ELSE IF cond = "error" THEN Settled("fail", NoFields, NoFields)
      ELSE IF cond = "false" THEN Settled("skip", NoFields, NoFields)
      ELSE IF n.kind = "selector" THEN ResolveSelector(n, st, env)
      ELSE IF \E e \in DataFrom(g, n) : st[e.from].st = "skip" THEN Settled("skip", NoFields, NoFields)
      ELSE IF unusable THEN Settled("fail", NoFields, NoFields)
      ELSE IF n.kind = "agent" /\ Stops(world[n.id]) THEN Settled(world[n.id].stop, NoFields, inputs)
      ELSE IF n.kind = "agent" THEN Settled("ok", world[n.id], inputs)
      ELSE Settled("ok", NoFields, inputs)

\* The entry of a sub-workflow binds its scope, then its members run; a failure
\* among them is a failure for whatever follows.
RECURSIVE RunGraph(_, _, _, _, _)
RunGraph(cfg, g, st, env, world) ==
  LET ready == {n \in g.nodes : /\ n.id \notin DOMAIN st
                                /\ \A e \in AllEdges(g) : e[2] = n.id => e[1] \in DOMAIN st}
      mine == [id \in {n.id : n \in ready} |-> Outcome(cfg, g, NodeOf(g, id), st, env, world)]
      entered == {n \in ready : n.kind = "sub" /\ mine[n.id].st = "ok"}
      inner == [id \in {n.id : n \in entered} |->
                  RunGraph(cfg, NodeOf(g, id).sub, NoFields, mine[id].inputs, world)]
      members == [m \in UNION {DOMAIN inner[id] : id \in DOMAIN inner} |->
                    inner[CHOOSE id \in DOMAIN inner : m \in DOMAIN inner[id]][m]]
      broken == {id \in DOMAIN inner : \E m \in DOMAIN inner[id] : inner[id][m].bad}
      entries == [id \in DOMAIN mine |-> [mine[id] EXCEPT !.bad = @ \/ id \in broken]]
  IN  IF ready = {} THEN st ELSE RunGraph(cfg, g, members @@ entries @@ st, env, world)
=============================================================================
