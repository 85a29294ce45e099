----------------------------- MODULE MCScheduler -----------------------------
(* Small workflows for TLC.  Each is given by its IR.                      *)
EXTENDS SchedulerProps

Agents(S)  == [n \in S |-> "agent"]
AtRoot(S)  == [n \in S |-> <<0>>]
NoLane(S)  == [n \in S |-> 0]
NoIters(S) == [n \in S |-> <<>>]
None       == <<>>
Nothing    == {}

\* faults: 3 runs after 1, 2 beside them; pausing, cancelling, lost appends
FaultsNode  == 1..3
FaultsKind  == Agents(1..3)
FaultsPath  == AtRoot(1..3)
FaultsDecl  == {<<1, 3>>}
FaultsLane  == NoLane(1..3)
FaultsIters == NoIters(1..3)

\* nested: sub-workflow 2 (after 1, fed by it) holds 3 and, after 3, the
\* sub-workflow 4 holding 5; 6 runs after 2 and reads 7.  1 and 7 are iteration
\* 1 of a loop, 6 is iteration 2, and selector 8 adopts 6 or 7
NestedNode  == 1..8
NestedKind  == [n \in 1..8 |-> IF n \in {2, 4} THEN "sub"
                               ELSE IF n = 8 THEN "selector" ELSE "agent"]
NestedPath  == <<<<0>>, <<0>>, <<0, 2>>, <<0, 2>>, <<0, 2, 4>>, <<0>>, <<0>>, <<0>>>>
NestedDecl  == {<<1, 2>>, <<3, 4>>, <<2, 6>>, <<7, 6>>}
NestedData  == {<<1, 2>>, <<7, 6>>}
NestedCond  == {<<6, 8>>, <<7, 8>>}
NestedWhen  == {1, 4}
NestedCands == [n \in {8} |-> <<6, 7>>]
NestedIters == [n \in 1..8 |-> CASE n \in {1, 7} -> <<<<1, 1>>>>
                                 [] n = 6 -> <<<<1, 2>>>> [] OTHER -> <<>>]
NestedLoops == {1}
NestedLane  == NoLane(1..8)
NestedSeed  == {1, 3}

\* fan-out: generate 1 with instances 10 (2), 11 (generate 3 with instance 12
\* holding 4) and 13 (5), item 13 listing item 11; 6 runs after the fan-out;
\* 7 runs beside it and shares a lane with 6
FanNode  == 1..7
FanInst  == 10..13
FanKind  == [n \in 1..7 |-> IF n \in {1, 3} THEN "generate" ELSE "agent"]
FanPath  == <<<<0>>, <<10>>, <<11>>, <<12>>, <<13>>, <<0>>, <<0>>>>
FanDecl  == {<<1, 6>>}
FanGen   == [i \in 10..13 |-> IF i = 12 THEN 3 ELSE 1]
FanDeps  == {<<11, 13>>}
FanMax   == [n \in {1, 3} |-> IF n = 1 THEN 1 ELSE 0]
FanLane  == [n \in 1..7 |-> IF n \in {6, 7} THEN 1 ELSE 0]
FanLanes == <<1>>
FanIters == NoIters(1..7)
==============================================================================
