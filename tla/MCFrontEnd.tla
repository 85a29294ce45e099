----------------------------- MODULE MCFrontEnd -----------------------------
(***************************************************************************)
(* Configurations for FrontEnd, in three families: loops, nested loops and *)
(* typed data flow through params, outputs and sub-workflow scopes; and    *)
(* those whose runs Views follows, where one agent may fail or halt.       *)
(***************************************************************************)
EXTENDS Views

Plain(type, enum, required, default) ==
  [type |-> type, enum |-> enum, required |-> required, default |-> default]
Bool == Plain("bool", {}, TRUE, None)
OptionalBool == Plain("bool", {}, FALSE, None)

Step(id, kind, use) ==
  [id |-> id, kind |-> kind, use |-> use, with |-> {}, when |-> {}, after |-> {},
   max |-> 0, until |-> {}, body |-> << >>, expect |-> FALSE]
Agent(id) == Step(id, "agent", "t")
Loop(id, max, until, body) ==
  [Step(id, "loop", "") EXCEPT !.max = max, !.until = until, !.body = body]

Reads(x) == {[reads |-> {<<x, "f">>}, params |-> {}]}
Reading(s, x) ==
  [s EXCEPT !.with = {[slot |-> "i", kind |-> "step", name |-> x, field |-> "f"]}]
When(s, x) == [s EXCEPT !.when = Reads(x)]
Ways(s, x) == {s, Reading(s, x), When(s, x)}

OneFlag == [inputs |-> [i \in {"i"} |-> OptionalBool], output |-> [f \in {"f"} |-> Bool]]
Main(steps) ==
  [workflows |-> [w \in {"main"} |-> [params |-> NoFields, steps |-> steps]],
   templates |-> [t \in {"t"} |-> OneFlag]]

\* One loop between two steps: what the body, the guards and the steps around it
\* read, including forward and circular references and a reference to the loop.
Loops ==
  {Main(<<a, loop, b>>) :
     a \in {Agent("a"), Reading(Agent("a"), "x"), When(Agent("a"), "b")},
     loop \in UNION {{Loop("L", m, u, <<Agent("x"), y>>), When(Loop("L", m, u, <<Agent("x"), y>>), "a")}
                       : m \in 1..2, u \in {Reads("x"), Reads("y")},
                         y \in Ways(Agent("y"), "x") \cup {When(Agent("y"), "a")}},
     b \in Ways(Agent("b"), "x") \cup {Reading(Agent("b"), "L"),
                                       [Agent("b") EXCEPT !.after = {"L"}]}}
  \cup {Main(<<Loop("L", 2, Reads("x"), <<Agent("x")>>), Agent("x")>>),
        Main(<<Loop("L", 3, Reads("x"), <<Agent("x"), Reading(Agent("y"), "x")>>), When(Agent("b"), "y")>>),
        Main(<<Loop("L", 2, Reads("b"), <<Agent("x")>>), Agent("b")>>),
        Main(<<Loop("L", 9, Reads("x"), <<Agent("x"), Agent("y")>>)>>)}

\* A loop in a loop.
Nested ==
  {Main(<<Loop("L", 2, Reads("x"), <<Agent("x"), inner, y>>), b>>) :
     inner \in {Loop("M", 2, Reads("m"), <<m>>) : m \in Ways(Agent("m"), "x")}
                 \cup {When(Loop("M", 2, Reads("m"), <<Agent("m")>>), "x")},
     y \in {Agent("y"), When(Agent("y"), "m")},
     b \in {[Agent("b") EXCEPT !.after = {"L"}], Reading(Agent("b"), "x")}}

\* One value on its way to one slot, directly or through a sub-workflow's scope.
Decls ==
  {Plain(t, e, r, d) : t \in {"string"}, e \in {{}, {"u"}, {"u", "v"}}, r \in BOOLEAN, d \in {None, "u"}}
    \cup {Plain("bool", {}, r, None) : r \in BOOLEAN}
Bind(s, kind, name, field) ==
  [s EXCEPT !.with = {[slot |-> "i", kind |-> kind, name |-> name, field |-> field]}]
Consumers(id) ==
  {Step(id, "agent", "sink")}
    \cup {Bind(Step(id, "agent", "sink"), k[1], k[2], k[3]) :
            k \in {<<"literal", "u", "string">>, <<"param", "p", "">>, <<"step", "a", "f">>}}
Typed ==
  {[workflows |-> [w \in {"main"} |-> [params |-> [p \in {"p"} |-> q], steps |-> <<Agent("a"), b>>]],
    templates |-> [t \in {"t", "sink"} |->
                     IF t = "t" THEN [inputs |-> NoFields, output |-> [f \in {"f"} |-> o]]
                     ELSE [inputs |-> [i \in {"i"} |-> d], output |-> NoFields]]] :
     q \in Decls, o \in {d \in Decls : d.default = None}, d \in Decls, b \in Consumers("b")}

Gated(x) == [x EXCEPT !.when = {[reads |-> {}, params |-> {"i"}]}]
Scoped ==
  {[workflows |-> [w \in {"main", "sub"} |->
                     IF w = "main"
                       THEN [params |-> [p \in {"p"} |-> q], steps |-> <<Agent("a"), s>>]
                       ELSE [params |-> [i \in {"i"} |-> d],
                             steps |-> <<Gated(Agent("x")), Bind(Agent("y"), "param", "i", "")>>]],
    templates |-> [t \in {"t"} |-> OneFlag]] :
     q \in {Plain("bool", {}, r, e) : r \in BOOLEAN, e \in {None, "true"}},
     d \in {Plain("bool", {}, r, e) : r \in BOOLEAN, e \in {None, "true"}},
     s \in {Step("s", "sub", "sub")}
             \cup {Bind(Step("s", "sub", "sub"), k[1], k[2], k[3]) :
                     k \in {<<"literal", "true", "bool">>, <<"param", "p", "">>, <<"step", "a", "f">>}}
             \cup {Bind(Step("s", "generate", "sub"), "item", f, "") : f \in {"id", "done"}}}

\* Runs to follow; a silent step's output is read by nobody.
Silent(id) == Step(id, "agent", "mute")
Follow(steps) ==
  [workflows |-> [w \in {"main"} |-> [params |-> NoFields, steps |-> steps]],
   templates |-> [t \in {"t", "mute"} |->
                    IF t = "t" THEN OneFlag ELSE [OneFlag EXCEPT !.output = NoFields]]]
After(s, x) == [s EXCEPT !.after = {x}]

Followed ==
  {Follow(<<Loop("L", 2, Reads("x"), <<Agent("x"), y>>), After(Silent("b"), "L")>>) :
     y \in Ways(Silent("y"), "x")}
  \cup {Follow(<<Loop("L", 2, Reads("x"), <<Agent("x"), Reading(Silent("y"), "x")>>), b>>) :
          b \in {Reading(Silent("b"), "x"), When(Silent("b"), "x")}}
  \cup {Follow(<<Agent("a"), When(Loop("L", 2, Reads("x"), <<Agent("x")>>), "a"), Reading(Silent("b"), "x")>>),
        Follow(<<Agent("a"), Loop("L", 2, Reads("x"), <<When(Agent("x"), "a")>>), Reading(Silent("b"), "x")>>),
        Follow(<<Loop("L", 2, Reads("x"), <<Agent("x"), Loop("M", 2, Reads("m"), <<Reading(Agent("m"), "x")>>)>>)>>),
        Follow(<<Agent("a"), Loop("L", 2, Reads("x"), <<Agent("x"), When(Silent("y"), "a")>>)>>),
        Follow(<<Loop("L", 2, Reads("x"), <<Agent("x"), When(Agent("y"), "x")>>),
                 When(Reading(Silent("b"), "x"), "y")>>)}

Names == <<"L", "M", "a", "b", "m", "main", "x", "y">>

MCConfigs == Loops \cup Nested \cup Typed \cup Scoped \cup Followed
NestedConfigs == Nested
ScopedConfigs == Scoped
TypedConfigs == Typed

\* Loops that only their guard tells apart.
GuardConfigs ==
  {[workflows |-> [w \in {"main"} |->
                     [params |-> [p \in {"p", "q"} |-> Plain("bool", {}, TRUE, None)],
                      steps |-> <<Loop("L", 2, {[reads |-> {}, params |-> {g}]}, <<Agent("x")>>)>>]],
    templates |-> [t \in {"t"} |-> OneFlag]] : g \in {"p", "q"}}
=============================================================================
