------------------------------ MODULE FrontEnd ------------------------------
(***************************************************************************)
(* From a configuration to a run: validate, compile, check the wiring,     *)
(* check the supplied params, execute (runEntry of config/cli.go).  One    *)
(* behaviour is one configuration with one set of params and one answer of *)
(* every agent.                                                            *)
(*                                                                         *)
(* LoopMeaning is the meaning the unrolled graph must keep: run the body,  *)
(* stop when until holds or cannot be read, read the last iteration after. *)
(***************************************************************************)
EXTENDS Wiring

CONSTANTS
  Configs,   \* the configurations to try; each runs its workflow "main"
  Fragile    \* those in which one agent may also fail or halt

VARIABLES cfg, stage, ir, params, world, out

vars == <<cfg, stage, ir, params, world, out>>

Stages == {"loaded", "valid", "compiled", "accepted", "done", "rejected"}

Init ==
  /\ cfg \in Configs
  /\ stage = "loaded"
  /\ ir = NoGraph
  /\ params = NoFields /\ world = NoFields /\ out = NoFields

Validate ==
  /\ stage = "loaded"
  /\ stage' = IF \A wf \in DOMAIN cfg.workflows : CheckWorkflow(cfg, wf) THEN "valid" ELSE "rejected"
  /\ UNCHANGED <<cfg, ir, params, world, out>>

\* Everything reachable from the entry, by reuse and by fan-out.
RECURSIVE Targets(_, _)
Targets(steps, wfs) ==
  LET named == {steps[k].use : k \in {j \in DOMAIN steps : steps[j].kind \in {"sub", "generate"}}}
      loops == {steps[k].body : k \in {j \in DOMAIN steps : IsLoop(steps[j])}}
  IN  (named \ wfs)
        \cup UNION {Targets(cfg.workflows[w].steps, wfs \cup named) : w \in named \ wfs}
        \cup UNION {Targets(body, wfs \cup named) : body \in loops}
ReachableWorkflows == {"main"} \cup Targets(cfg.workflows["main"].steps, {"main"})

Desugar ==
  /\ stage = "valid"
  /\ IF \A wf \in ReachableWorkflows : Compile(cfg, wf).errs = {}
       THEN ir' = Compile(cfg, "main") /\ stage' = "compiled"
       ELSE stage' = "rejected" /\ UNCHANGED ir
  /\ UNCHANGED <<cfg, params, world, out>>

Check ==
  /\ stage = "compiled"
  /\ stage' = IF \A wf \in ReachableWorkflows : CheckWiring(cfg, wf, Compile(cfg, wf))
                THEN "accepted" ELSE "rejected"
  /\ UNCHANGED <<cfg, ir, params, world, out>>

Answers(n) ==
  LET f == cfg.templates[n.use].output
  IN  {v \in [DOMAIN f -> UNION {Admits(f[x]) \cup {None} : x \in DOMAIN f}] :
         \A x \in DOMAIN f : v[x] \in Admits(f[x]) \cup (IF f[x].required THEN {} ELSE {None})}

Agents == {n \in Flat(ir) : n.kind = "agent"}
Answered ==
  {w \in [{n.id : n \in Agents} -> UNION {Answers(n) : n \in Agents}] :
     \A n \in Agents : w[n.id] \in Answers(n)}

Interrupted ==
  {[w EXCEPT ![n.id] = [stop |-> s]] : w \in Answered, n \in Agents, s \in {"fail", "halt"}}
Worlds == IF cfg \in Fragile THEN Answered \cup Interrupted ELSE Answered

Supplies(decl) == [DOMAIN decl -> UNION {Admits(decl[p]) : p \in DOMAIN decl} \cup {None}]

Execute ==
  /\ stage = "accepted"
  /\ \E supplied \in Supplies(cfg.workflows["main"].params) :
       LET decl == cfg.workflows["main"].params IN
       IF ParamsAccepted(decl, supplied)
         THEN \E w \in Worlds :
                /\ world' = w
                /\ params' = CheckParams(decl, supplied)
                /\ out' = RunGraph(cfg, ir, NoFields, CheckParams(decl, supplied), w)
                /\ stage' = "done"
         ELSE stage' = "rejected" /\ UNCHANGED <<params, world, out>>
  /\ UNCHANGED <<cfg, ir>>

Next == Validate \/ Desugar \/ Check \/ Execute

Spec == Init /\ [][Next]_vars

-----------------------------------------------------------------------------
(* LoopMeaning: a frame is a scope, with the loop and iteration it is of. *)

Frame(prefix, steps, loop, i) == [prefix |-> prefix, steps |-> steps, loop |-> loop, i |-> i]
Root == <<Frame(<<<<"main", 0>>>>, cfg.workflows["main"].steps, {}, 0)>>
Inside(fs, s, i) ==
  <<Frame(InstancePrefix(Head(fs).prefix, s.id, i), s.body, {s}, i)>> \o fs

RECURSIVE Reached(_)
RECURSIVE Runs(_, _)
RECURSIVE Sees(_, _)

\* The frame in which name x is declared, the loop it is behind, and the step.
RECURSIVE Home(_, _)
Home(fs, x) ==
  LET named == {s \in StepsIn(Head(fs)) : s.id = x}
      homes == {s \in StepsIn(Head(fs)) : IsLoop(s) /\ x \in BodyIds(s)}
  IN  IF named # {} THEN [fs |-> fs, loop |-> {}, step |-> CHOOSE s \in named : TRUE]
      ELSE IF homes # {} THEN
             LET l == CHOOSE s \in homes : TRUE
             IN  [fs |-> fs, loop |-> {l}, step |-> CHOOSE s \in {l.body[k] : k \in DOMAIN l.body} : s.id = x]
      ELSE Home(Tail(fs), x)

\* What reading step x gives: its fields, or nothing.
Sees(fs, x) ==
  LET h == Home(fs, x) IN
  IF h.loop = {}
    THEN IF Runs(h.fs, h.step) THEN {world[Child(Head(h.fs).prefix, x)]} ELSE {}
    ELSE LET l == CHOOSE l \in h.loop : TRUE
             ran == {i \in 1..l.max : Runs(Inside(h.fs, l, i), h.step)}
             last == CHOOSE i \in ran : \A j \in ran : j <= i
         IN  IF ran = {} THEN {} ELSE {world[Child(Head(Inside(h.fs, l, last)).prefix, x)]}

Readable(fs, E) == \A e \in E : \A r \in e.reads : Sees(fs, r[1]) # {}
Holds(fs, E) == \A e \in E : \A r \in e.reads : \A v \in Sees(fs, r[1]) : v[r[2]] = "true"

GoesOn(fs, until) == Readable(fs, until) /\ ~Holds(fs, until)

Reached(fs) ==
  LET f == Head(fs) IN
  IF f.loop = {} THEN TRUE
  ELSE LET l == CHOOSE l \in f.loop : TRUE
           previous == Inside(Tail(fs), l, f.i - 1)
       IN  IF f.i = 1 THEN /\ Reached(Tail(fs))
                           /\ Readable(Tail(fs), l.when) /\ Holds(Tail(fs), l.when)
           ELSE Reached(previous) /\ GoesOn(previous, l.until)

Runs(fs, s) ==
  /\ Reached(fs)
  /\ Readable(fs, s.when) /\ Holds(fs, s.when)
  /\ \A w \in StepRefs(s) : Sees(fs, w.name) # {}

RECURSIVE Meaning(_)
Meaning(fs) ==
  {Child(Head(fs).prefix, s.id) : s \in {t \in StepsIn(Head(fs)) : t.kind = "agent" /\ Runs(fs, t)}}
    \cup UNION {UNION {Meaning(Inside(fs, l, i)) : i \in 1..l.max}
                  : l \in {t \in StepsIn(Head(fs)) : IsLoop(t)}}

RECURSIVE Exhausted(_)
Exhausted(fs) ==
  \E l \in {t \in StepsIn(Head(fs)) : IsLoop(t)} :
    \/ \E i \in 1..l.max : Exhausted(Inside(fs, l, i))
    \/ LET final == Inside(fs, l, l.max)
       IN  Reached(final) /\ UntilReads(l) # {} /\ GoesOn(final, l.until)

-----------------------------------------------------------------------------
(* Properties *)

Status(st) == {id \in DOMAIN out : out[id].st = st}
AgentIds == {n.id : n \in Agents}
Looping == DOMAIN cfg.workflows = {"main"} /\ cfg.workflows["main"].params = NoFields
StoppedAgents == {id \in DOMAIN world : Stops(world[id])}

\* The state is well formed: every agent of an executed graph has an answer.
TypeOK ==
  /\ stage \in Stages
  /\ stage = "done" => AgentIds \subseteq DOMAIN world
  /\ \A id \in DOMAIN out : out[id].st \in {"ok", "skip", "fail", "halt", "dead"}

\* A validated workflow compiles to a graph without duplicate ids, at any
\* nesting: the graph loader would abort the run on one.
UniqueIds == stage \in {"compiled", "accepted", "done"} => PassFlatIDs(ir)

\* The unrolled graph runs exactly the iterations the loop stands for, whatever
\* the agents answer; a failure can only cut the run short, and a loop fails the
\* run exactly when it is exhausted.
KeepsLoopMeaning ==
  stage = "done" /\ Looping /\ StoppedAgents = {} =>
    /\ Status("ok") \cap AgentIds \subseteq Meaning(Root)
    /\ Status("fail") = {} => Status("ok") \cap AgentIds = Meaning(Root)
    /\ Exhausted(Root) <=> Status("fail") # {}

\* In an accepted graph everything settles: nothing waits on itself, through
\* data, order or a condition.
EverythingSettles ==
  stage = "done" =>
    /\ Ids(ir) \subseteq DOMAIN out
    /\ \A n \in Flat(ir) : n.id \in Status("ok") => Ids(n.sub) \subseteq DOMAIN out

\* A value that reaches an input slot is one the slot's declaration admits.
WellTyped ==
  \A n \in Flat(ir) : n.id \in Status("ok") /\ n.kind = "agent" =>
    \A slot \in DOMAIN out[n.id].inputs :
      out[n.id].inputs[slot] \in Admits(Inputs(cfg, n)[slot]) \cup {None}

\* Values that are bound are there and not empty: no optional output field and no
\* optional param without default is threaded on.
Total ==
  /\ \A wf \in DOMAIN cfg.workflows : \A p \in DOMAIN cfg.workflows[wf].params :
       p \in Guaranteed(cfg.workflows[wf].params)
  /\ \A t \in DOMAIN cfg.templates : \A f \in DOMAIN cfg.templates[t].output :
       cfg.templates[t].output[f].required
  /\ \A p \in DOMAIN params : params[p] # ""
  /\ \A id \in DOMAIN world : \A f \in DOMAIN world[id] : world[id][f] # ""
LoopSelectors == {n.id : n \in {m \in Flat(ir) : m.kind = "selector"}}

\* What validation accepts runs: the graph has no duplicate ids, everything in it
\* settles, slots get values they admit, and where every value threaded is there a
\* run fails only by exhausting a loop or when an agent does.
AcceptedRuns ==
  /\ TypeOK /\ UniqueIds /\ EverythingSettles /\ WellTyped
  /\ stage = "done" /\ Total => Status("fail") \subseteq LoopSelectors \cup StoppedAgents

\* "wiring, type, and cycle errors surface at `faber validate`, never mid-run"
\* (spec/proposals/2026-07-08-faber-engine.md:22).
NeverMidRun == stage = "done" => Status("fail") \subseteq LoopSelectors \cup StoppedAgents

\* A condition only reads params whose "presence at evaluation is guaranteed"
\* (config/wiring.go:518).
ConditionParamsPresent ==
  stage = "done" =>
    \A n \in Flat(ir) : n.kind = "sub" /\ n.id \in Status("ok") =>
      \A m \in n.sub.nodes : \A p \in m.when : \A x \in p.params :
        out[n.id].inputs[x] # None

Raised(c) ==
  [c EXCEPT !.workflows = [w \in DOMAIN @ |-> [@[w] EXCEPT !.steps = CapSteps(@, 3)]]]

\* A raised cap keeps every journaled iteration valid: the nodes the journal has
\* results of are there with the same condition and the same inputs.
RaisedCapKeeps ==
  stage = "accepted" /\ (\A n \in Flat(ir) : n.kind = "selector" => Len(n.cands) <= 3) =>
    LET raised == Compile(Raised(cfg), "main")
        feeds(g, id) == {e \in DataEdges(g) : e.to = id}
    IN  \A n \in ir.nodes : n.kind = "agent" =>
          /\ n \in raised.nodes
          /\ feeds(ir, n.id) = feeds(raised, n.id)

\* "anything else that differs ... a guard ... still changes it" (config/ir.go:378):
\* two configurations with the same resume key have the same loop guards.
KeyTellsGuards ==
  stage = "accepted" =>
    \A c \in Configs :
      (\A wf \in DOMAIN c.workflows : CheckWorkflow(c, wf)) /\ CapFree(c, "main") = CapFree(cfg, "main")
        => Compile(c, "main") = ir \/ Compile(Raised(c), "main") = Compile(Raised(cfg), "main")

\* The nodes that come before id in the graph.
RECURSIVE Before(_)
Before(S) ==
  LET T == S \cup {e[1] : e \in {f \in AllEdges(ir) : f[2] \in S}}
  IN  IF T = S THEN S ELSE Before(T)

\* "Depending on a loop step orders after every final-iteration body node"
\* (config/desugar.go:520).
AfterLoopIsAfterAll ==
  stage = "accepted" =>
    \A b, l \in StepsIn(Head(Root)) : ~IsLoop(b) /\ IsLoop(l) /\ l.id \in b.after =>
      \A n \in ir.nodes : Under(n.id, InstancePrefix(Head(Root).prefix, l.id, l.max)) =>
        n.id \in Before({Child(Head(Root).prefix, b.id)})
=============================================================================
