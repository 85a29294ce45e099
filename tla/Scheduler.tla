------------------------------ MODULE Scheduler ------------------------------
(***************************************************************************)
(* The run loop of pipeline/scheduler.go: one goroutine owns the graph and *)
(* folds worker events into it; workers (boxes, generate expansions, expect*)
(* commands) and timers only hand it messages over an unbuffered channel.  *)
(*                                                                         *)
(* pc is the loop's position: "gate", "grant" and "ready" are the parts of *)
(* a drain pass, "top" is the head of run's loop and its select, "exit" is *)
(* after run returned and the executor appended the run-end record.        *)
(*                                                                         *)
(* Payloads, conditions and command outputs are abstracted to the verdicts *)
(* the loop tells apart, chosen nondeterministically.  The heaps `ready'   *)
(* and `slotQ' are the sets of queued and slot-waiting nodes: an entry     *)
(* whose node moved on is dropped when popped.                             *)
(***************************************************************************)
EXTENDS ExecGraph

CONSTANTS
  MaxPar,       \* --max-parallel, 0 is unlimited
  GenMax,       \* generate node -> max_parallel of its instances, 0 unlimited
  LaneOf,       \* node -> its template's lane, 0 if none
  LaneMax,      \* lane -> declared bound
  When,         \* nodes with a `when' condition
  Cands,        \* selector -> its candidate nodes
  Iters,        \* node -> sequence of <<loop, iteration>>, outermost first,
                \*         the loops of its id that declare `expect'
  Loops,        \* those loops
  Seeded,       \* agent nodes for which the resumed journal may hold an ok record
  MaxDefer,     \* bound: timed defers of one node (metering's DeferPolicy.Max)
  AppendFails,  \* whether journal appends may fail
  Cancels,      \* whether the context may be cancelled
  Pauses,       \* whether the operator may write the pause marker
  CmdFails      \* whether conditions, inputs and commands may fail

ASSUME BoundAssumption ==
  /\ MaxPar \in Nat /\ MaxDefer \in Nat
  /\ \A g \in Node : Kind[g] = "generate" => GenMax[g] \in Nat
  /\ \A l \in DOMAIN LaneMax : LaneMax[l] \in Nat

ASSUME LoopAssumption == \A n \in Node : Iters[n] \in Seq(Loops \X Nat)

VARIABLES
  pc, progressed,   \* the loop's position; drain's local `progressed'
  known,            \* what an earlier dispatch of the node already decided
  life, status,     \* execNode.life ("absent": not spliced yet) and .status
  edge, indeg,      \* graph.succ/pair as a set of pairs, and graph.indeg
  poolUsed,         \* slotsUsed and the used counts of generate pools and lanes
  outstanding,      \* workers whose event the loop still owes a receive
  worker, msg,      \* box worker's progress; the event a worker is sending
  waitZero, timer,  \* zero-until parked nodes; nodes with an armed wake timer
  deferrals,        \* timed defers so far, per node
  stash,            \* nodes whose execNode.costs is not empty
  checked,          \* loop -> highest iteration whose expect command was folded
  marker, paused,   \* the pause file; the latch
  journal,          \* nodes with a durable result record of this execution
  fatal, runEnd     \* scheduler.fatal # nil; the run-end status

graphVars == <<life, status, edge, indeg>>
flightVars == <<outstanding, worker, msg, poolUsed>>
parkVars  == <<waitZero, timer, deferrals, stash>>
vars == <<pc, progressed, known, life, status, edge, indeg, poolUsed, outstanding,
          worker, msg, waitZero, timer, deferrals, stash, checked, marker,
          paused, journal, fatal, runEnd>>

Lives    == {"absent", "pending", "queued", "slotwait", "running", "deferred", "done"}
Terminal == {"ok", "failed", "halted", "skipCond", "skipDep", "skipHalt"}
Verdicts == {"error", "within", "over"}

NoEvent == [ev |-> "none"]
Events  ==
       {NoEvent}
  \cup [ev : {"settled"}, status : {"ok", "failed", "halted"}, executed : BOOLEAN]
  \cup [ev : {"deferred"}, timed : BOOLEAN, costs : BOOLEAN]
  \cup [ev : {"expanded"}, ok : BOOLEAN, items : SUBSET Inst]
  \cup [ev : {"expected"}, loop : Loops, iter : Nat, verdict : Verdicts]

Queued   == {n \in Node : life[n] = "queued"}
SlotWait == {n \in Node : life[n] = "slotwait"}
Running  == {n \in Node : life[n] = "running"}
AllDone  == \A n \in Node : life[n] \in {"absent", "done"}

\* The head of an id heap.
Least(S) == CHOOSE n \in S : \A m \in S : n <= m

-----------------------------------------------------------------------------
(* Pools.  A pool exists when its bound is positive.                       *)

Lanes == {l \in DOMAIN LaneMax : LaneMax[l] > 0}
Pools == (IF MaxPar > 0 THEN {<<"slot", 0>>} ELSE {})
         \cup {<<"gen", g>> : g \in {h \in Node : Kind[h] = "generate" /\ GenMax[h] > 0}}
         \cup {<<"lane", l>> : l \in Lanes}

Bound(p) == CASE p[1] = "slot" -> MaxPar
              [] p[1] = "gen"  -> GenMax[p[2]]
              [] p[1] = "lane" -> LaneMax[p[2]]

PoolsOf(n) == Pools \cap {<<"slot", 0>>, <<"gen", GenOf(n)>>, <<"lane", LaneOf[n]>>}

\* Mutant of Grantable: the generate pool is not consulted.
GrantableIgnoringGen ==
  {n \in SlotWait : \A p \in PoolsOf(n) : p[1] = "gen" \/ poolUsed[p] < Bound(p)}

\* holdReason is empty: the global slot, the generate pool and the lane are free
Grantable == {n \in SlotWait : \A p \in PoolsOf(n) : poolUsed[p] < Bound(p)}

TakePools(n) == poolUsed' = [p \in Pools |->
                   IF p \in PoolsOf(n) THEN poolUsed[p] + 1 ELSE poolUsed[p]]

ReleasePools(n) == poolUsed' = [p \in Pools |->
                   IF p \in PoolsOf(n) /\ poolUsed[p] > 0 THEN poolUsed[p] - 1
                                                          ELSE poolUsed[p]]

\* Nodes whose worker took the pools (expect and expansion workers do not).
Holds(n) == \/ worker[n] # "none"
            \/ msg[n].ev \in {"settled", "deferred"}

-----------------------------------------------------------------------------
(* Settlement: settleResult, settleSkip, finish and propagate.  The        *)
(* operators take the graph they work on, because applyExpansion settles   *)
(* the generate node on the graph it has just spliced.                     *)

Open(lf)    == {m \in Node : lf[m] \notin {"absent", "done"}}
Waiting(lf) == {m \in Node : lf[m] \in {"pending", "queued"}}

\* One step of a failure's way through the graph: to a waiting dependent, or
\* from a sub-workflow entry to the members it takes with it.
Spreads(lf, ed, a, b) ==
  \/ <<a, b>> \in ed /\ b \in Waiting(lf)
  \/ b \in Members(a)

\* Mutant of Doomed: only direct dependents are skipped.
DoomedDirectly(lf, ed, root) == {m \in Open(lf) \ {root} : Spreads(lf, ed, root, m)}

\* propagate: the least set of open nodes that a failure of root spreads to.
Doomed(lf, ed, root) ==
  LET open    == Open(lf) \ {root}
      next    == [a \in open \cup {root} |-> {b \in open : Spreads(lf, ed, a, b)}]
      Closed(T) == \A a \in T \cup {root} : next[a] \subseteq T
  IN  {m \in open : \A T \in SUBSET open : Closed(T) => m \in T}

\* The nodes finish settles together with n.
Cascade(lf, ed, n, st) ==
  CASE st \in {"failed", "halted"} -> Doomed(lf, ed, n)
    [] st = "ok"                   -> {}
    [] OTHER                       -> Open(lf) \cap Members(n)

\* The skip flavor of the cascade: failures and dependency skips as
\* skipped-dependency, halts as skipped-halt, conditions as conditions.
Flavor(st) == CASE st = "failed" -> "skipDep"
                [] st = "halted" -> "skipHalt"
                [] OTHER         -> st

\* Mutant of Journaled: a failed append is only logged.
JournaledBestEffort(recs) ==
  \E lost \in (IF AppendFails THEN SUBSET recs ELSE {{}}) :
    /\ journal' = journal \cup {r[2] : r \in {x \in recs \ lost : x[1] = "result"}}
    /\ fatal' = fatal

\* Journal.Append*: a record becomes durable or its error makes the run
\* fatal.  Of the records only which nodes have a result is kept.
Journaled(recs) ==
  \E lost \in (IF AppendFails THEN SUBSET recs ELSE {{}}) :
    /\ journal' = journal \cup {r[2] : r \in {x \in recs \ lost : x[1] = "result"}}
    /\ fatal' = (fatal \/ lost # {})

\* Mutant of DropIndeg: one decrement for a whole cascade.
DropIndegOnce(S, ed, ind) ==
  [d \in Node |-> IF \E p \in S : <<p, d>> \in ed THEN ind[d] - 1 ELSE ind[d]]

\* Readiness after the nodes of S finished: in-degrees drop by one for every
\* finished predecessor, pending nodes that reach zero and parked zero-until
\* nodes are pushed.
DropIndeg(S, ed, ind) ==
  [d \in Node |-> ind[d] - Cardinality({p \in S : <<p, d>> \in ed})]

LifeAfter(S, lf, ed, ind) ==
  [m \in Node |->
     IF m \in S THEN "done"
     ELSE IF \/ lf[m] = "pending" /\ ind[m] = 0 /\ \E p \in S : <<p, m>> \in ed
             \/ lf[m] = "deferred" /\ m \in waitZero
          THEN "queued" ELSE lf[m]]

SettleOn(lf, ed, ind, n, st, executed) ==
  \E S \in {{n} \cup Cascade(lf, ed, n, st)} :  \* a LET that TLC evaluates once
  LET ind2 == DropIndeg(S, ed, ind)
      cost == st \in {"ok", "failed", "halted"} /\ (executed \/ n \in stash)
  IN
  /\ life' = LifeAfter(S, lf, ed, ind2)
  /\ status' = [m \in Node |-> IF m = n THEN st
                               ELSE IF m \in S THEN Flavor(st) ELSE status[m]]
  /\ edge' = ed
  /\ indeg' = ind2
  /\ waitZero' = {}
  /\ stash' = IF cost THEN stash \ {n} ELSE stash
  /\ Journaled(({"result"} \X S) \cup (IF cost THEN {<<"cost", n>>} ELSE {}))

Settle(n, st, executed) == SettleOn(life, edge, indeg, n, st, executed)

-----------------------------------------------------------------------------
(* drain                                                                   *)

\* Mutant of PauseGate: only the pass that first sees the marker stops.
PauseGateUnlatched ==
  /\ pc = "gate"
  /\ paused' = (paused \/ (~fatal /\ marker))
  /\ pc' = IF fatal \/ (paused' /\ ~paused) THEN "top" ELSE "grant"
  /\ progressed' = FALSE
  /\ UNCHANGED <<known, graphVars, flightVars, parkVars, checked, marker, journal, fatal, runEnd>>

\* pauseGate, at the head of every drain pass
PauseGate ==
  /\ pc = "gate"
  /\ paused' = (paused \/ (~fatal /\ marker))
  /\ pc' = IF fatal \/ paused' THEN "top" ELSE "grant"
  /\ progressed' = FALSE
  /\ UNCHANGED <<known, graphVars, flightVars, parkVars, checked, marker, journal, fatal, runEnd>>

\* One grant of the pass over slotQ and the launch of the box worker.  Pools
\* are only taken during a pass, so a node held once stays held in it, and the
\* next to launch is the least grantable one.
Grant ==
  /\ pc = "grant" /\ Grantable # {}
  /\ LET n == Least(Grantable) IN
       /\ TakePools(n)
       /\ life' = [life EXCEPT ![n] = "running"]
       /\ worker' = [worker EXCEPT ![n] = "admit"]
  /\ outstanding' = outstanding + 1
  /\ progressed' = TRUE
  /\ UNCHANGED <<pc, known, status, edge, indeg, msg, parkVars, checked, marker,
                 paused, journal, fatal, runEnd>>

GrantsDone ==
  /\ pc = "grant" /\ Grantable = {}
  /\ pc' = "ready"
  /\ UNCHANGED <<progressed, known, graphVars, flightVars, parkVars, checked,
                 marker, paused, journal, fatal, runEnd>>

\* Mutant of DrainDone: a single pass instead of a fixed point.
DrainDoneOnePass ==
  /\ pc = "ready" /\ (fatal \/ Queued = {})
  /\ pc' = "top"
  /\ UNCHANGED <<progressed, known, graphVars, flightVars, parkVars, checked,
                 marker, paused, journal, fatal, runEnd>>

DrainDone ==
  /\ pc = "ready" /\ (fatal \/ Queued = {})
  /\ pc' = IF progressed THEN "gate" ELSE "top"
  /\ UNCHANGED <<progressed, known, graphVars, flightVars, parkVars, checked,
                 marker, paused, journal, fatal, runEnd>>

-----------------------------------------------------------------------------
(* dispatch, for the least ready node                                      *)

DataSources(n) == {e[1] : e \in {d \in Data : d[2] = n}}
BadSource(n) == \E s \in DataSources(n) :
                   life[s] # "done" \/ status[s] \in {"failed", "halted"}
SkippedSource(n) == \E s \in DataSources(n) :
                   status[s] \in {"skipCond", "skipDep", "skipHalt"}

\* A cheap settlement: no worker, no pools.
SettleHere(n, st) ==
  /\ Settle(n, st, FALSE)
  /\ UNCHANGED <<known, flightVars, timer, deferrals, checked>>

\* evaluated once, a condition keeps its value: it reads settled results
DispatchCondition(n) ==
  /\ n \in When /\ known[n] = "nothing"
  /\ \/ CmdFails /\ SettleHere(n, "failed")
     \/ SettleHere(n, "skipCond")

\* Mutant of NewIteration: the boundary is off by one.
NewIterationLate(n) ==
  {k \in DOMAIN Iters[n] : Iters[n][k][2] > checked[Iters[n][k][1]] + 1}

\* unexpectedIteration: the outermost loop whose iteration n is first to enter
NewIteration(n) ==
  {k \in DOMAIN Iters[n] : Iters[n][k][2] > checked[Iters[n][k][1]]}

\* startExpect; the answer the command will give is chosen here, the loop
\* learns it when it receives the event
StartExpect(n) ==
  /\ LET at == Iters[n][Least(NewIteration(n))] IN
       \E v \in (IF CmdFails THEN Verdicts ELSE Verdicts \ {"error"}) :
         msg' = [msg EXCEPT ![n] = [ev |-> "expected", loop |-> at[1],
                                    iter |-> at[2], verdict |-> v]]
  /\ life' = [life EXCEPT ![n] = "running"]
  /\ outstanding' = outstanding + 1
  /\ known' = [known EXCEPT ![n] = "condition"]
  /\ UNCHANGED <<status, edge, indeg, worker, poolUsed, parkVars, checked, journal, fatal>>

\* startExpansion; likewise for the items of the data source
StartExpansion(n) ==
  /\ \E items \in SUBSET {i \in Inst : InstGen[i] = n},
        ok \in (IF CmdFails THEN BOOLEAN ELSE {TRUE}) :
       msg' = [msg EXCEPT ![n] = [ev |-> "expanded", ok |-> ok, items |-> items]]
  /\ life' = [life EXCEPT ![n] = "running"]
  /\ outstanding' = outstanding + 1
  /\ UNCHANGED <<known, status, edge, indeg, worker, poolUsed, parkVars, checked, journal, fatal>>

ResolveSelector(n) ==
  LET cs == Cands[n]
      Ok(c) == status[c] = "ok"
  IN
  \/ Ok(cs[1]) /\ SettleHere(n, "failed")            \* exhausted
  \/ (\E k \in DOMAIN cs : Ok(cs[k])) /\ SettleHere(n, "ok")
  \/ (\A k \in DOMAIN cs : ~Ok(cs[k])) /\ SettleHere(n, "skipCond")

SettleSubEntry(n) ==
  \/ (CmdFails \/ \E s \in DataSources(n) : life[s] # "done") /\ SettleHere(n, "failed")
  \/ /\ \E s \in DataSources(n) : status[s] # "ok"
     /\ SettleHere(n, "skipDep")
  \/ /\ \A s \in DataSources(n) : life[s] = "done" /\ status[s] = "ok"
     /\ SettleHere(n, "ok")

\* resolve inputs, look the key up in the prior journal, wait for a slot
DispatchAgent(n) ==
  \/ (CmdFails \/ BadSource(n)) /\ SettleHere(n, "failed")
  \/ SkippedSource(n) /\ SettleHere(n, "skipDep")
  \/ /\ ~BadSource(n) /\ ~SkippedSource(n)
     /\ \/ /\ n \in Seeded /\ known[n] # "inputs"
           /\ SettleHere(n, "ok")
        \/ /\ life' = [life EXCEPT ![n] = "slotwait"]
           /\ known' = [known EXCEPT ![n] = "inputs"]
           /\ UNCHANGED <<status, edge, indeg, flightVars, parkVars, checked, journal, fatal>>

DispatchByKind(n) ==
  \/ Kind[n] = "selector" /\ ResolveSelector(n)
  \/ Kind[n] = "sub"      /\ SettleSubEntry(n)
  \/ Kind[n] = "generate" /\ StartExpansion(n)
  \/ Kind[n] = "agent"    /\ DispatchAgent(n)

Dispatch ==
  /\ pc = "ready" /\ ~fatal /\ Queued # {}
  /\ LET n == Least(Queued) IN
       \/ DispatchCondition(n)
       \/ IF NewIteration(n) # {} THEN StartExpect(n) ELSE DispatchByKind(n)
  /\ progressed' = TRUE
  /\ UNCHANGED <<pc, marker, paused, runEnd>>

-----------------------------------------------------------------------------
(* Box workers.  worker[n] = "admit": before the meter's decision; "box":  *)
(* admitted, attempts running, the reservation held.  Whatever the attempts*)
(* did reaches the loop as one event (module Attempts models the inside).  *)

\* Mutant of Contended: deferred to the next settlement with nobody in flight.
ContendedAlways(n) == worker[n] # "none"

\* The meter answers a zero-until defer only when another step's reservation
\* is what the estimate does not fit alongside.
Contended(n) == \E m \in Node \ {n} : worker[m] = "box"

Send(n, e) == /\ worker' = [worker EXCEPT ![n] = "none"]
              /\ msg' = [msg EXCEPT ![n] = e]

Admit(n) ==
  /\ worker[n] = "admit"
  /\ \/ /\ worker' = [worker EXCEPT ![n] = "box"]
        /\ UNCHANGED <<msg, deferrals>>
     \/ /\ Send(n, [ev |-> "settled", status |-> "failed", executed |-> FALSE])
        /\ UNCHANGED deferrals
     \/ /\ Contended(n)
        /\ Send(n, [ev |-> "deferred", timed |-> FALSE, costs |-> FALSE])
        /\ UNCHANGED deferrals
     \/ /\ deferrals[n] < MaxDefer
        /\ Send(n, [ev |-> "deferred", timed |-> TRUE, costs |-> FALSE])
        /\ deferrals' = [deferrals EXCEPT ![n] = @ + 1]
  /\ UNCHANGED <<pc, progressed, known, graphVars, poolUsed, outstanding, waitZero,
                 timer, stash, checked, marker, paused, journal, fatal, runEnd>>

BoxDone(n) ==
  /\ worker[n] = "box"
  /\ \/ /\ \E st \in {"ok", "failed", "halted"} :
             Send(n, [ev |-> "settled", status |-> st, executed |-> TRUE])
        /\ UNCHANGED deferrals
     \/ /\ Contended(n)                          \* a retry's re-admission
        /\ Send(n, [ev |-> "deferred", timed |-> FALSE, costs |-> TRUE])
        /\ UNCHANGED deferrals
     \/ /\ deferrals[n] < MaxDefer               \* a rate limit
        /\ Send(n, [ev |-> "deferred", timed |-> TRUE, costs |-> TRUE])
        /\ deferrals' = [deferrals EXCEPT ![n] = @ + 1]
  /\ UNCHANGED <<pc, progressed, known, graphVars, poolUsed, outstanding, waitZero,
                 timer, stash, checked, marker, paused, journal, fatal, runEnd>>

-----------------------------------------------------------------------------
(* run: the head of the loop, its exits and its select                     *)

Drained  == outstanding = 0
\* Mutant of LoopEnds: a pause does not wait for the workers.
LoopEndsUndrained == AllDone \/ (fatal /\ Drained) \/ paused

LoopEnds == AllDone \/ ((fatal \/ paused) /\ Drained)

\* received folds the event of n: outstanding--, and the pools go back
Received(n) == /\ msg' = [msg EXCEPT ![n] = NoEvent]
               /\ outstanding' = outstanding - 1
               /\ UNCHANGED worker

\* After a fold the loop drains, unless the fold made the run fatal.
Continue == pc' = IF fatal' THEN "top" ELSE "gate"

FoldSettled(n) ==
  /\ msg[n].ev = "settled"
  /\ Received(n) /\ ReleasePools(n)
  /\ Settle(n, msg[n].status, msg[n].executed)
  /\ UNCHANGED <<known, timer, deferrals, checked, paused>>

\* wakeParked on a graph with life lf
WakeParked(lf) == [m \in Node |-> IF m \in waitZero /\ lf[m] = "deferred"
                                  THEN "queued" ELSE lf[m]]

\* Mutant of LastInFlight: the race of evSettled with evDeferred is missed.
LastInFlightIgnored == FALSE

\* The event being folded is the only one in flight, so no settlement will
\* come to empty the parking lot.
LastInFlight == outstanding = 1

FoldDeferred(n) ==
  /\ msg[n].ev = "deferred"
  /\ Received(n) /\ ReleasePools(n)
  /\ stash' = IF msg[n].costs THEN stash \cup {n} ELSE stash
  /\ LET parked == [life EXCEPT ![n] = "deferred"] IN
       IF msg[n].timed
       THEN /\ timer' = timer \cup {n}
            /\ life' = WakeParked(parked)
            /\ waitZero' = {}
       ELSE /\ timer' = timer
            /\ IF LastInFlight
               THEN /\ life' = [WakeParked(parked) EXCEPT ![n] = "queued"]
                    /\ waitZero' = {}
               ELSE /\ life' = parked
                    /\ waitZero' = waitZero \cup {n}
  /\ Journaled({<<"defer", n>>})
  /\ UNCHANGED <<known, status, edge, indeg, deferrals, checked, paused>>

SpliceLife(new, ind) ==
  [m \in Node |-> IF m \notin new THEN life[m]
                  ELSE IF ind[m] = 0 THEN "queued" ELSE "pending"]

\* edge counts a predecessor once, however often the pair is added.
SpliceIndeg(ed) == [d \in Node |-> indeg[d] + Cardinality({p \in Node : <<p, d>> \in ed \ edge})]

\* applyExpansion: a failed command or splice fails the node; otherwise the
\* instances are spliced and then the generate node settles ok
FoldExpanded(n) ==
  /\ msg[n].ev = "expanded"
  /\ Received(n)
  /\ IF ~msg[n].ok THEN Settle(n, "failed", FALSE)
     ELSE LET new   == SpliceNodes(msg[n].items)
              ed    == edge \cup SpliceEdges(n, msg[n].items, edge)
              ind   == SpliceIndeg(ed)
          IN SettleOn(SpliceLife(new, ind), ed, ind, n, "ok", FALSE)
  /\ UNCHANGED <<known, poolUsed, timer, deferrals, checked, paused>>

FoldExpected(n) ==
  /\ msg[n].ev = "expected"
  /\ Received(n)
  /\ LET l == msg[n].loop IN
       checked' = [checked EXCEPT ![l] = IF msg[n].iter > @ THEN msg[n].iter ELSE @]
  /\ \/ /\ msg[n].verdict = "error"
        /\ Settle(n, "failed", FALSE)
        /\ UNCHANGED paused
     \/ /\ msg[n].verdict = "within"
        /\ life' = [life EXCEPT ![n] = "queued"]
        /\ UNCHANGED <<status, edge, indeg, waitZero, stash, journal, fatal, paused>>
     \/ /\ msg[n].verdict = "over"
        /\ life' = [life EXCEPT ![n] = "pending"]
        /\ paused' = TRUE
        /\ UNCHANGED <<status, edge, indeg, waitZero, stash, journal, fatal>>
  /\ UNCHANGED <<known, poolUsed, timer, deferrals>>

\* One receive of run's select, a worker's event. step drops an event whose node
\* is terminal already; no cascade settles a node with a worker out (InFlight of
\* SchedulerProofs), so that early return never has anything to drop.
Receive(n) ==
  /\ pc = "top" /\ ~LoopEnds
  /\ FoldSettled(n) \/ FoldDeferred(n) \/ FoldExpanded(n) \/ FoldExpected(n)
  /\ Continue
  /\ UNCHANGED <<progressed, marker, runEnd>>

\* ... or the wake of an elapsed defer window
Wake(n) ==
  /\ pc = "top" /\ ~LoopEnds
  /\ n \in timer
  /\ timer' = timer \ {n}
  /\ life' = IF life[n] = "deferred" THEN [life EXCEPT ![n] = "queued"] ELSE life
  /\ pc' = IF fatal THEN "top" ELSE "gate"
  /\ UNCHANGED <<progressed, known, status, edge, indeg, flightVars, waitZero,
                 deferrals, stash, checked, marker, paused, journal, fatal, runEnd>>

\* ... or the cancelled context
Abort ==
  /\ Cancels
  /\ pc = "top" /\ ~LoopEnds /\ ~fatal
  /\ fatal' = TRUE
  /\ UNCHANGED <<pc, progressed, known, graphVars, flightVars, parkVars, checked,
                 marker, paused, journal, runEnd>>

\* ... or the idle tick; one that finds no marker changes nothing
IdleTick ==
  /\ pc = "top" /\ ~LoopEnds /\ ~fatal /\ ~paused /\ marker
  /\ pc' = "gate"
  /\ UNCHANGED <<progressed, known, graphVars, flightVars, parkVars, checked,
                 marker, paused, journal, fatal, runEnd>>

\* run returns; Execute derives and appends the run-end status
Exit ==
  /\ pc = "top" /\ LoopEnds
  /\ pc' = "exit"
  /\ runEnd' = IF fatal THEN "aborted"
               ELSE IF paused /\ ~AllDone THEN "paused" ELSE "settled"
  /\ UNCHANGED <<progressed, known, graphVars, flightVars, parkVars, checked,
                 marker, paused, journal, fatal>>

\* RequestPause: another process writes the marker of a live run
RequestPause ==
  /\ Pauses /\ ~marker /\ pc # "exit"
  /\ marker' = TRUE
  /\ UNCHANGED <<pc, progressed, known, graphVars, flightVars, parkVars, checked,
                 paused, journal, fatal, runEnd>>

Finished == pc = "exit" /\ UNCHANGED vars

-----------------------------------------------------------------------------
InitNodes == Below(0)
InitIndeg == [d \in Node |-> Cardinality({p \in Node : <<p, d>> \in AddLevel(0)})]

Init ==
  /\ pc = "gate" /\ progressed = FALSE
  /\ edge = AddLevel(0)
  /\ indeg = InitIndeg
  /\ life = [n \in Node |-> IF n \notin InitNodes THEN "absent"
                            ELSE IF InitIndeg[n] = 0 THEN "queued" ELSE "pending"]
  /\ status = [n \in Node |-> "none"]
  /\ known = [n \in Node |-> "nothing"]
  /\ poolUsed = [p \in Pools |-> 0]
  /\ outstanding = 0
  /\ worker = [n \in Node |-> "none"]
  /\ msg = [n \in Node |-> NoEvent]
  /\ waitZero = {} /\ timer = {} /\ stash = {}
  /\ deferrals = [n \in Node |-> 0]
  /\ checked = [l \in Loops |-> 0]
  /\ marker = FALSE /\ paused = FALSE
  /\ journal = {} /\ fatal = FALSE /\ runEnd = "none"

LoopStep == \/ PauseGate \/ Grant \/ GrantsDone \/ Dispatch \/ DrainDone
            \/ (\E n \in Node : Receive(n) \/ Wake(n))
            \/ IdleTick \/ Exit

WorkerStep(n) == Admit(n) \/ BoxDone(n)

Next == LoopStep \/ Abort \/ RequestPause \/ Finished \/ \E n \in Node : WorkerStep(n)

Spec == Init /\ [][Next]_vars

\* The loop goroutine and every worker goroutine keep running; boxes end and
\* windows elapse.  Cancelling and pausing are the environment's choice.
FairSpec == Spec /\ WF_vars(LoopStep) /\ \A n \in Node : WF_vars(WorkerStep(n))
=============================================================================
