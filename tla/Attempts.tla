------------------------------ MODULE Attempts ------------------------------
(***************************************************************************)
(* The box workers of the scheduler (boxWorker, cleanupAfterDefer), the    *)
(* retry loop they drive (failure/policy.go RunStep), the rate-limit floor *)
(* (metering/defer.go) and the ledger they share (module Admitter), over   *)
(* the executions of one run.                                              *)
(*                                                                         *)
(* The run loop around them is module Scheduler's.  Here it is reduced to  *)
(* what it does to the workers: it launches a ready step, folds a defer or *)
(* a settlement, and wakes the deferred steps.                             *)
(***************************************************************************)
EXTENDS Admitter, Sequences

CONSTANTS
  Retry,        \* step -> re-runs allowed after the first failure
  MaxDefers,    \* DeferPolicy.Max
  Cancels,      \* whether the run's context may be cancelled
  Outcomes,     \* how a box may end: "ok", "halted", "failed", "rate-limit"
  MaxExecs,     \* how many executions the run may have
  MaxSaturated  \* how often a probe may report saturation to a step

ASSUME AttemptAssumption ==
  /\ Retry \in [Nodes -> Nat] /\ MaxDefers \in Nat \ {0}
  /\ Cancels \in BOOLEAN /\ MaxExecs \in Nat \ {0} /\ MaxSaturated \in Nat
  /\ Outcomes \subseteq {"ok", "halted", "failed", "rate-limit"}

VARIABLES
  life,         \* step -> what the loop knows of it
  used,         \* step -> n.used, the attempts earlier dispatches consumed
  history,      \* step -> n.history, as attempt numbers
  annotations,  \* step -> n.annotations, why it was deferred
  stash,        \* step -> n.costs, settled by earlier dispatches
  w,            \* step -> its worker
  count,        \* step -> RateLimitDefer.state
  canceled,     \* the run's context
  results,      \* step, whether a box ran -> the last such record in the journal
  journaled,    \* unit -> the cost records in the journal
  execs,        \* executions so far
  debris,       \* step -> the attempt whose side effects are not cleaned, or 0
  hook,         \* step -> the last cleanup: the attempt it follows, the one it was shown
  streak,       \* step -> rate-limit defers since its last decisive settlement
  total         \* unit -> what boxes have used in all executions

sched == <<life, used, history, annotations, stash>>
disk  == <<results, journaled, execs>>
ghost == <<debris, hook, streak, total>>
vars  == <<ledger, sched, w, count, canceled, disk, ghost>>

Settled == {"ok", "failed", "halted"}
NoRecord == [status |-> "none", attempt |-> 0, attempts |-> <<>>]
Idle == [at |-> "idle", attempt |-> 0, base |-> 0, retry |-> 0,
         est |-> Claim({}, 0), need |-> 0, failures |-> 0, costs |-> None, why |-> "none"]

Init ==
  /\ AdmitterInit
  /\ life = [n \in Nodes |-> "ready"]
  /\ used = [n \in Nodes |-> 0] /\ history = [n \in Nodes |-> <<>>]
  /\ annotations = [n \in Nodes |-> <<>>] /\ stash = [n \in Nodes |-> None]
  /\ w = [n \in Nodes |-> Idle] /\ count = [n \in Nodes |-> 0]
  /\ canceled = FALSE
  /\ results = [n \in Nodes |-> [x \in BOOLEAN |-> NoRecord]] /\ journaled = None /\ execs = 1
  /\ debris = [n \in Nodes |-> 0] /\ hook = [n \in Nodes |-> <<0, 0>>]
  /\ streak = [n \in Nodes |-> 0] /\ total = None

Goto(n, l) == w' = [w EXCEPT ![n].at = l]

Outstanding == {n \in Nodes : w[n].at # "idle"}

-----------------------------------------------------------------------------
(* Admission, before the first attempt and before every retry              *)

Launch(n) ==
  /\ life[n] = "ready" /\ ~canceled
  /\ life' = [life EXCEPT ![n] = "running"]
  /\ w' = [w EXCEPT ![n] = [Idle EXCEPT !.at = "estimate", !.attempt = 1, !.base = used[n],
                              !.retry = IF Retry[n] > used[n] THEN Retry[n] - used[n] ELSE 0]]
  /\ UNCHANGED <<ledger, used, history, annotations, stash, count, canceled, disk, ghost>>

\* An admitted first attempt goes to the head of RunStep's loop, which a retry
\* has behind it.
Admitted(n) == IF w[n].attempt = 1 THEN "head" ELSE "box"

\* Admit's first half
Estimate(n) ==
  /\ w[n].at = "estimate"
  /\ \E e \in Estimates(n) :
       \/ /\ e.verdict = "error" /\ Participates(n)
          /\ w' = [w EXCEPT ![n].at = "refused"]
          /\ ReleaseEstimate(n)
       \/ /\ e.verdict = "error" /\ ~Participates(n)
          /\ w' = [w EXCEPT ![n].at = "decide", ![n].est = Claim({}, 0), ![n].need = 0]
          /\ UNCHANGED bounds
       \/ /\ e.verdict = "saturated" /\ Len(annotations[n]) < MaxSaturated
          /\ w' = [w EXCEPT ![n].at = "defer", ![n].why = "saturated"]
          /\ ReleaseEstimate(n)
       \/ /\ e.verdict = "claim"
          /\ w' = [w EXCEPT ![n].at = "decide", ![n].est = Counted(e.claim), ![n].need = e.need]
          /\ RecordBound(n, e.claim)
  /\ UNCHANGED <<spent, reserved, inflight, held, sched, count, canceled, disk, ghost>>

\* Its critical section
Decide(n) ==
  /\ w[n].at = "decide"
  /\ \/ /\ Rejects(w[n].est)
        /\ Goto(n, "refused")
        /\ ReleaseEstimate(n) /\ UNCHANGED <<spent, reserved, inflight, held>>
     \/ /\ ~Rejects(w[n].est) /\ Contends(w[n].est)
        /\ w' = [w EXCEPT ![n].at = "defer", ![n].why = "contended"]
        /\ ReleaseEstimate(n) /\ UNCHANGED <<spent, reserved, inflight, held>>
     \/ /\ ~Rejects(w[n].est) /\ ~Contends(w[n].est)
        /\ Goto(n, Admitted(n))
        /\ Reserve(n, w[n].est)
  /\ UNCHANGED <<sched, count, canceled, disk, ghost>>

-----------------------------------------------------------------------------
(* RunStep                                                                 *)

\* Mutant of LoopHead: a cancelled step keeps its reservation.
LoopHeadKeeping(n) ==
  /\ w[n].at = "head"
  /\ Goto(n, IF canceled THEN "canceled" ELSE IF w[n].attempt = 1 THEN "box" ELSE "estimate")
  /\ UNCHANGED <<ledger, sched, count, canceled, disk, ghost>>

\* The head of the loop.  boxWorker settles what a cancelled step reserved.
LoopHead(n) ==
  /\ w[n].at = "head"
  /\ IF canceled
       THEN Goto(n, "canceled") /\ Settle(n, Cost(n, "failed", -1))
       ELSE /\ Goto(n, IF w[n].attempt = 1 THEN "box" ELSE "estimate")
            /\ UNCHANGED ledger
  /\ UNCHANGED <<sched, count, canceled, disk, ghost>>

\* RunAttempt starts the box of attempt base + attempt.
StartBox(n) ==
  /\ w[n].at = "box"
  /\ Goto(n, "running")
  /\ UNCHANGED <<ledger, sched, count, canceled, disk, ghost>>

Classifies(n) == count[n] + 1 <= MaxDefers

\* RunAttempt returns: Settle, then Classify, then RunStep's verdict.  A box
\* that did not launch has failed.  An exactly metered box uses no more than
\* its prompt and its configured output.
FinishBox(n, st, usage) ==
  /\ w[n].at = "running"
  /\ Tier[n] = "exact" => usage <= w[n].need
  /\ LET cost == Cost(n, IF st = "rate-limit" THEN "failed" ELSE st, usage)
         converted == st = "rate-limit" /\ Classifies(n)
     IN  /\ Settle(n, cost)
         /\ total' = [u \in Units |-> total[u] + cost[u]]
         /\ w' = [w EXCEPT ![n].costs = satPlus(@, cost),
                           ![n].at = IF converted THEN "clean-defer"
                                     ELSE IF st \in {"ok", "halted"} THEN st ELSE "clean",
                           ![n].why = IF converted THEN "rate-limit" ELSE @]
         /\ count' = IF converted THEN [count EXCEPT ![n] = @ + 1] ELSE count
         /\ streak' = IF converted THEN [streak EXCEPT ![n] = @ + 1] ELSE streak
         /\ debris' = [debris EXCEPT ![n] = IF st \in {"ok", "halted"} THEN 0
                                            ELSE w[n].base + w[n].attempt]
  /\ UNCHANGED <<sched, canceled, disk, hook>>

\* Mutant of Cleanup: the loop does not count its attempts.
CleanupUncounted(n) ==
  /\ w[n].at = "clean"
  /\ hook' = [hook EXCEPT ![n] = <<w[n].base + w[n].attempt, w[n].attempt>>]
  /\ debris' = [debris EXCEPT ![n] = 0]
  /\ w' = IF w[n].retry = 0 THEN [w EXCEPT ![n].at = "failed"]
                            ELSE [w EXCEPT ![n].at = "head"]
  /\ UNCHANGED <<ledger, sched, count, canceled, disk, streak, total>>

\* Policy.cleanup after a failed attempt, and what the loop does next
Cleanup(n) ==
  /\ w[n].at = "clean"
  /\ hook' = [hook EXCEPT ![n] = <<w[n].base + w[n].attempt, w[n].attempt>>]
  /\ debris' = [debris EXCEPT ![n] = 0]
  /\ w' = IF w[n].attempt = 1 + w[n].retry
            THEN [w EXCEPT ![n].at = "failed"]
            ELSE [w EXCEPT ![n].at = "head", ![n].attempt = @ + 1, ![n].failures = @ + 1]
  /\ UNCHANGED <<ledger, sched, count, canceled, disk, streak, total>>

\* Mutant of CleanupAfterDefer: a converted failure is not cleaned up after.
CleanupAfterDeferOmitted(n) ==
  /\ w[n].at = "clean-defer"
  /\ Goto(n, "defer")
  /\ UNCHANGED <<ledger, sched, count, canceled, disk, ghost>>

CleanupAfterDefer(n) ==
  /\ w[n].at = "clean-defer"
  /\ hook' = [hook EXCEPT ![n] = <<w[n].base + w[n].attempt, w[n].base + w[n].attempt>>]
  /\ debris' = [debris EXCEPT ![n] = 0]
  /\ Goto(n, "defer")
  /\ UNCHANGED <<ledger, sched, count, canceled, disk, streak, total>>

-----------------------------------------------------------------------------
(* What the loop folds                                                     *)

Woken(f) == [m \in Nodes |-> IF f[m] = "parked" THEN "ready" ELSE f[m]]

\* The failures of this dispatch as RunStep numbers them
Failures(n) == [i \in 1..w[n].failures |-> i]

\* evDeferred.  A step that waits for headroom is parked until a settlement or
\* a timed defer, or woken at once when nothing is in flight.
FoldDeferred(n) ==
  /\ w[n].at = "defer"
  /\ used' = [used EXCEPT ![n] = @ + w[n].failures]
  /\ history' = [history EXCEPT ![n] = @ \o Failures(n)]
  /\ annotations' = [annotations EXCEPT ![n] = Append(@, w[n].why)]
  /\ stash' = [stash EXCEPT ![n] = satPlus(@, w[n].costs)]
  /\ life' = IF w[n].why # "contended" THEN Woken([life EXCEPT ![n] = "timed"])
             ELSE IF Outstanding = {n} THEN Woken([life EXCEPT ![n] = "parked"])
             ELSE [life EXCEPT ![n] = "parked"]
  /\ w' = [w EXCEPT ![n] = Idle]
  /\ UNCHANGED <<ledger, count, canceled, disk, ghost>>

Status(n) == IF w[n].at \in {"ok", "halted"} THEN w[n].at ELSE "failed"

\* A refused first attempt is the one settlement without a box; its record has
\* no input hash.
Executed(n) == ~(w[n].at = "refused" /\ w[n].attempt = 1)

\* evSettled: the merged record, the costs of all dispatches, the wake
FoldSettled(n) ==
  /\ w[n].at \in {"ok", "halted", "failed", "refused", "canceled"}
  /\ results' = [results EXCEPT ![n][Executed(n)] =
                   [status |-> Status(n), attempt |-> w[n].attempt + used[n],
                    attempts |-> history[n] \o Failures(n)
                                 \o [i \in 1..Len(annotations[n]) |-> 0]]]
  /\ journaled' = satPlus(journaled, satPlus(stash[n], w[n].costs))
  /\ life' = Woken([life EXCEPT ![n] = Status(n)])
  /\ count' = IF Status(n) # "failed" THEN [count EXCEPT ![n] = 0] ELSE count
  /\ streak' = IF Status(n) # "failed" THEN [streak EXCEPT ![n] = 0] ELSE streak
  /\ w' = [w EXCEPT ![n] = Idle]
  /\ UNCHANGED <<ledger, used, history, annotations, stash, canceled, execs, debris, hook,
                 total>>

\* The timer of a timed defer
Wake(n) ==
  /\ life[n] = "timed" /\ ~canceled
  /\ life' = [life EXCEPT ![n] = "ready"]
  /\ UNCHANGED <<ledger, used, history, annotations, stash, w, count, canceled, disk, ghost>>

Cancel ==
  /\ Cancels /\ ~canceled
  /\ canceled' = TRUE
  /\ UNCHANGED <<ledger, sched, w, count, disk, ghost>>

-----------------------------------------------------------------------------
(* Another execution of the run                                            *)

\* The annotations a record ends with
Trailing(s) == Cardinality({i \in DOMAIN s : \A j \in i..Len(s) : s[j] = 0})

\* restoreDeferCounts, over the failed records under either hash
Restored(n) ==
  Max({0} \cup {Trailing(results[n][x].attempts) :
                  x \in {y \in BOOLEAN : results[n][y].status = "failed"}})

\* Every step settled, or the workers of a cancelled run are gone.
Ended == /\ Outstanding = {}
         /\ canceled \/ \A n \in Nodes : life[n] \in Settled

\* openRun: ok results are adopted, the rest runs again, the ledger starts
\* from the cost records.
Resume ==
  /\ Ended /\ \E n \in Nodes : life[n] # "ok"
  /\ execs < MaxExecs
  /\ execs' = execs + 1
  /\ canceled' = FALSE
  /\ FoldSpent(journaled)
  /\ life' = [n \in Nodes |-> IF life[n] = "ok" THEN "ok" ELSE "ready"]
  /\ used' = [n \in Nodes |-> 0] /\ history' = [n \in Nodes |-> <<>>]
  /\ annotations' = [n \in Nodes |-> <<>>] /\ stash' = [n \in Nodes |-> None]
  /\ count' = [n \in Nodes |-> Restored(n)]
  /\ UNCHANGED <<w, results, journaled, ghost>>

\* The run has stopped.
Over == Ended /\ UNCHANGED vars

Step(n) ==
  \/ Launch(n) \/ Estimate(n) \/ Decide(n) \/ LoopHead(n) \/ StartBox(n)
  \/ \E st \in Outcomes, usage \in Usages \cup {-1} : FinishBox(n, st, usage)
  \/ Cleanup(n) \/ CleanupAfterDefer(n) \/ FoldDeferred(n) \/ FoldSettled(n)

Next ==
  \/ \E n \in Nodes : Step(n) \/ Wake(n)
  \/ Cancel \/ Resume \/ Over

Spec == Init /\ [][Next]_vars

\* Workers are goroutines that make progress, boxes and commands end, the loop
\* receives, timers fire.
Fairness == \A n \in Nodes : WF_vars(Step(n)) /\ WF_vars(Wake(n))
FairSpec == Spec /\ Fairness

-----------------------------------------------------------------------------
(* Properties                                                              *)

Ats == {"idle", "estimate", "decide", "head", "box", "running", "clean", "clean-defer",
        "defer", "refused", "canceled", "ok", "halted", "failed"}

\* Every variable keeps to its type.
TypeOK ==
  /\ AdmitterTypeOK
  /\ life \in [Nodes -> Settled \cup {"ready", "running", "parked", "timed"}]
  /\ used \in [Nodes -> Nat] /\ count \in [Nodes -> Nat] /\ execs \in 1..MaxExecs
  /\ \A n \in Nodes : /\ w[n].at \in Ats /\ w[n].attempt \in Nat /\ w[n].base \in Nat
                      /\ w[n].at # "idle" <=> life[n] = "running"

\* boxWorker: "every reservation settles".  A reservation belongs to a box that
\* is about to run or running, on every path out of a dispatch: failure, halt,
\* conversion, refusal of a retry, cancellation.
ReservationsAreBoxes ==
  \A n \in inflight : w[n].at \in {"head", "box", "running"}

ExactUnits == {u \in DOMAIN Limit : \A n \in Nodes : u \in UnitsOf[n] => Tier[n] = "exact"}

\* A declared budget bounds the whole run: in a unit that only exact tiers
\* report, what boxes have used in all executions, with what the boxes in
\* flight may use, stays within the limit.
BudgetHeld == \A u \in ExactUnits : total[u] + reserved[u] <= Limit[u]

\* launch: retry minus used.  A step's attempts are numbered within its retry
\* budget however often it was deferred in between.
AttemptsBounded ==
  \A n \in Nodes : w[n].at \in {"box", "running"} => w[n].base + w[n].attempt <= 1 + Retry[n]

\* step, evSettled: a result's attempt number is one more than the failures it
\* records, over all its dispatches.
AttemptsAddUp ==
  \A n \in Nodes, x \in BOOLEAN : results[n][x].status # "none" =>
    results[n][x].attempt =
      1 + Cardinality({i \in DOMAIN results[n][x].attempts : results[n][x].attempts[i] # 0})

\* RunStep and cleanupAfterDefer: the clean-slate guarantee.  A box never starts
\* over what a failed attempt left behind, and a settled step leaves nothing.
CleanSlate ==
  \A n \in Nodes : w[n].at = "box" \/ life[n] \in Settled => debris[n] = 0

\* Across failures, retries, defers and resumes an attempt is what its number says:
\* within the retry budget, after exactly the failures that are recorded, on a
\* clean slate (RunStep, launch, cleanupAfterDefer).
FreshAttempts == AttemptsBounded /\ AttemptsAddUp /\ CleanSlate

\* The ledger is the boxes: what is reserved is what boxes that are about to run or
\* running hold, in every tier and under cancellation (Admit, Settle, boxWorker).
LedgerIsBoxes == TypeOK /\ LedgerExact /\ ReservationsAreBoxes

\* Restore: "the bound only ever loosens, never wrongly trips".  The floor never
\* counts a rate limit that did not happen.
RestoredCountHonest == \A n \in Nodes : count[n] <= streak[n]

\* hooks.go: the cleanup hook is shown the result directory of the attempt it
\* follows.
HookSeesItsAttempt == \A n \in Nodes : hook[n][1] = hook[n][2]

\* exactMeter: "a hard bound that cannot be computed must not silently admit".
\* A budgeted box in flight has reserved what it may use.
BoundCovers ==
  \A n \in Nodes : w[n].at \in {"box", "running"} =>
    \A u \in UnitsOf[n] \cap DOMAIN Limit : held[n][u] >= w[n].need

\* The scheduler's one re-queue mechanism: waiting for headroom, for a reset or
\* for a retry, every step settles unless the run is cancelled.
StepsSettle == \A n \in Nodes : <>(life[n] \in Settled \/ canceled)
=============================================================================
