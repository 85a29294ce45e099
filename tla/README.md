# faber in TLA+

Models of faber: the compiler of a workflow and the graph it emits, the run loop
that executes it, the workers, the budget and the box attempts under it, the
sequencer inside a box, the run directory and the host that several faber
processes share, and what an operator is shown of a run. TLC checks small
instances; TLAPS proves that the run loop implements a workflow as it is declared, and
the invariants of the loop and its failure cascade, of attempts, ledger and budget, of the run directory, the box on both sides and the
host, for every value of their parameters. Paths below are relative to `src/`. `PROJECT.json` maps every definition to the lines it models,
and lists runs, mutants, hazards and theorems.

## 1. The system

faber runs a workflow of agent steps, each in a container (a *box*). A workflow
file is compiled to an IR (levels of nodes, edges, conditions); the executor
flattens it to a graph; one scheduler goroutine walks the graph and starts
workers; every outcome is journaled, so that a run which paused, failed or died
can be resumed.

| Component | State it keeps | Operations | What is hard | What makes it correct |
|---|---|---|---|---|
| config (`config/`) | none | load, validate, desugar, wire, check params | a compiler: unrolled loops, gates, selectors, scopes | the graph means what the workflow says; what is accepted runs |
| execution graph (`pipeline/graph.go`) | nodes, successor edges, in-degrees, members of sub-workflows | `addLevel`, `edge`, `deepSinks` | edges are added while the graph is being walked | the order is the declared one, at every depth |
| scheduler (`pipeline/scheduler.go`, `values.go`) | life and status of nodes, ready and slot heaps, pools, parking lot, timers, pause latch, fatal error | `run`, `drain`, `dispatch*`, `step`, `settle*`, `propagate`, `applyExpansion`, `applyExpected` | workers report over one unbuffered channel in any order; a pause, a cancellation or a failed append may come at any point | nothing is lost, stuck, or started out of turn; the run ends |
| executor (`pipeline/executor.go`) | the open run | open or resume, run, derive the run-end record | the end is derived after the loop from what the loop left | the end record tells the truth |
| generate (`pipeline/generate.go`) | none | read items, validate, build instances | the graph grows under nodes that already wait | a dependent of the generate waits for every instance |
| failure policy (`failure/policy.go`, `hooks.go`) | attempt history of one dispatch | `RunStep`, cleanup | a dispatch may end between any two attempts | bounded attempts, a clean slate for each |
| rate-limit floor (`metering/defer.go`) | consecutive rate limits per node | `Classify`, `Reset`, `Restore` | converts failures into defers, across restarts | a step cannot defer for ever |
| metering (`metering/admit.go`, `tiers.go`) | spent, reserved, reservations, exact bounds | `Admit`, `Settle`, `FoldSpent` | estimates outside the mutex, every path must settle, int64 edges | reservations are exactly the boxes in flight |
| run store (`failure/`) | journal file, lock file, pause marker | begin, resume, append, repair, replay, pause, audit, prune | several processes, each system call interleaves; deaths; a lock file that is itself unlinked | one appender, nothing committed is lost |
| box attempt (`pipeline/boxrun.go`, `infra/run.go`, `security/set.go`) | attempt directory, container, undo stack | scrub, prepare, run, extract, tear down | directories and container names are reused after a restart | an attempt adopts its own record only and leaves nothing behind |
| identity (`security/identity.go`, `signqueue.go`, `sshagent.go`) | one agent per role, a proxy per attempt, one sign queue | `roleAgentFor`, serve, sign, tear down, `Close` | agents shared by concurrent attempts | no agent adrift, one signature at a time |
| box entrypoint (`agent/box`, `agent/contract`) | the files of a box | eleven phases, halt, fail-stop, the record | the programs in it write what they like | ok is earned, a halt stops, a record on every path |
| result extraction (`agent/extract.go`) | none | read, validate, adapt | anything may lie in the result directory | always one valid result, never a better verdict than the box's |
| image builder (`infra/image.go`, `inputs.go`) | per-tag build locks, the daemon's images, a cache of the box binary | tag, build, load | inputs change between two reads | an image is the content its tag names |
| upgrade and installer (`config/cmd_upgrade.go`, `config/install.sh`) | two binaries and their backups | guard, stage, swap, restore, roll back | renames fail; other processes read the pair | the pair stays matched |
| report, progress (`pipeline/report.go`, `rollup.go`, `progress.go`) | read models of a journal and of events | fold | of a run that may have died anywhere | a failure is never folded away |
| terminal UI (`tui/`) | a read model of a journal | fold, draw | not modelled | |

Interaction. The scheduler goroutine owns all graph state. A worker goroutine
(box, expansion, expect command) takes a dispatch, talks to the admitter, the
retry policy, the rate-limit floor and the box runner, and hands back exactly
one event. Timers hand back a wake. The journal is written by the scheduler
goroutine, except start, cleanup and defer records that workers write. Other
processes touch a run only through files: `faber pause` writes a marker the loop
polls, `faber resume` and `faber runs prune` contend for `run.lock`, `faber
upgrade` audits the runs before it renames the binaries, and `faber build` and a
run's preflight read the same project files and the same box binary.

## 2. Modules

| Module | Models | Extends |
|---|---|---|
| `Desugar` | `config/desugar.go`, `ir.go`: steps to levels of nodes, loops unrolled, gates, selectors, the cap-free key. Pure. | |
| `Wiring` | `config/wiring.go`, `validate.go`: references, types, conditions, scopes, and what a slot gets at run time. Pure. | `Desugar` |
| `FrontEnd` | a configuration on its way to a run, with the reference `LoopMeaning` | `Wiring` |
| `Views` | the run settled node by node, and the report and progress stream of each state | `FrontEnd` |
| `Workflow` | abstract: what running a workflow means by what the IR declares; no edges, counters, queues, pools or workers | |
| `ExecGraph` | `pipeline/graph.go`: levels, readiness edges, deep sinks, and the edges a splice adds. Pure. | |
| `Scheduler`, `SchedulerProps` | the run loop, its workers' events, pools, parking, pausing, aborting, the run-end record; its properties | `ExecGraph` |
| `Admitter` | the ledger and the four tiers, as operators and actions on the ledger's variables | |
| `Attempts` | box workers, `RunStep`, the rate-limit floor, resume's rebuilding of counters and ledger | `Admitter` |
| `RunLog` | abstract: what a run's journal promises its readers; no locks, files, processes or crashes | |
| `RunStore` | one run directory and the processes that share it, a step per system call | |
| `RoleAgents` | agents, proxies, connections and the sign queue | |
| `BoxAttempt` | `RunAttempt` from the scrub to the return, over two processes that reuse the directories | `RoleAgents` |
| `BoxContract` | abstract: what a box promises its host | |
| `BoxPhases` | the sequencer in a box | |
| `BoxResult` | what the host makes of the result directory; refines `BoxContract` | `BoxPhases` |
| `Installed` | the binaries and the audited runs that the next two share | |
| `Upgrade` | the guard and the installer's renames | `Installed` |
| `ImageBuild` | tags, builds, the daemon, and the runs that fix their images | `Installed` |
| `Host` | upgrades, builds and runs on one host | `Upgrade`, `ImageBuild` |
| `MC*` | instances for TLC | |
| `SchedulerProofs`, `FailureProofs`, `WorkflowProofs` | theorems on `Scheduler`, each module on top of the one before | `SchedulerProps` |
| `AttemptsProofs`, `RunStoreProofs`, `BoxAttemptProofs`, `BoxProofs`, `HostProofs` | theorems on `Attempts`, `RunStore`, `BoxAttempt`, `BoxResult`, `Host` | the module they are about |

The composition follows the code. `Host` composes two components on shared
files; `BoxAttempt` runs on `RoleAgents`; `BoxResult` composes the two sides of
the result directory; `Views` consumes what `FrontEnd` compiled; `Attempts` runs
on `Admitter`. `Scheduler` and `Attempts` see the same workers from two sides:
the loop with the worker's verdict chosen freely, the worker with the loop
reduced to launching, folding and waking.

### State and code

*Scheduler*: `life`, `status`, `edge`, `indeg` are `execNode.life/.status` and
the graph's maps; `absent` is a node of an instance that is not spliced in yet.
The heaps are the sets of queued and slot-waiting nodes: an entry whose node
moved on is dropped when popped, and `Least` is the heap's order. `pc` splits a
`drain` into the pause gate, the grant pass and the ready pass. `worker` and
`msg` are a box worker's progress and the event it is blocked on sending:
`Receive` picks any sender, which is the unbuffered channel. `marker` is the
pause file, `paused` the latch. The metering verdict is here a choice between
admit, contend (a zero-until defer), refuse and a timed defer; `Contended`
restricts the zero-until defer to a moment when somebody holds a reservation,
which is what `Admit` computes and what `ReservationsAreBoxes` of `Attempts`
backs up.

*Workflow* is `Scheduler` seen through `Flow` of `SchedulerProps`: who is there, who is
out (`Running`) and with a box (`Holds`), the results, what is durable, how it ended.
`Order` is read off the declarations alone: an entry is before its members, and all of
what is declared after something is after all that is inside that something, the
instances of a generate included. Its actions say when a node may be launched, asked
about or given a result, and that what a failure takes with it goes in that same step.

*Attempts*: `life` is what the loop knows of a step; `w[n]` is its worker with
the attempt number within the dispatch and `base`, the attempts earlier
dispatches consumed. `debris`, `hook`, `streak` and `total` are history
variables for the properties only.

*RunStore*: `lockIno` is the inode the path `run.lock` names, `fd[p]` the inode
process `p` opened, `held[p]` whether its flock is on it. `lines` are the
terminated lines of the journal and `tail` says that a fragment follows. `mem[e]`
is what an execution remembers. `RunLog` is this module seen through `Log`: the writer is the
execution that owns the journal, the steps it is through with are those its memory has as
settled, and it is closing once its last append is behind it. The pause marker carries two facts the file does
not (whom the request found live, who had cleared by then), for the properties
only.

*RoleAgents*, *BoxAttempt*: `mu` is the binding's mutex, `roles` its cache,
`procs` the ssh-agents alive, `conn[b]` the box's connection through its proxy,
`queue` the holder of the sign queue. `life` is the faber process: the directory
(`dir`), the record (`rec`), the transcript (`sess`) and the container (`cont`)
are known by the life that made them, because a bind mount follows a directory
and not its path. `Faults` names the environment faults an instance admits: a
container that a kill does not reach (`kill`), an output log that cannot be
opened (`openlog`), a sessions directory that cannot be read (`readdir`), a box
that goes on writing after it was given up (`straggler`).

*BoxPhases*: `opt` is the environment contract, `at` the phase, `err` what
`failStop` was called with; `halt`, `output`, `doc` and `sidecar` are files that
hooks and the agent write as they like; `bundle`, `declared` and `skip` are what
the sequencer remembers; `record` is `result.json`. *BoxResult* adds `file`, the
directory as the host finds it (the record of this or of an older image, or
whatever the programs of a box in `Writers` left when there is no record), and
`result`, what `RunAttempt` returns.

*FrontEnd*: `stage` moves through `runEntry`'s order of checks; `ir` is the
compiled graph, `params` what the user supplied, `world` what every agent
answers and `out` the status and output of every node. `LoopMeaning` says
independently of the unrolling what a loop is: run the body, stop when `until`
holds or cannot be read, read the last iteration afterwards. *Views*: `journal`
are the nodes with a result record, `running` those whose box has started, `sink`
is `TextSink`. Each state is a point the process can die at, and the report is a
function of it.

*Host*: `live` and `bak` are the two tools' files, `up[u]` an upgrade with its
stage and plan, one rename a step; a staging that fails may leave files, under the
pid of a process that is gone. `reader[p]` is a build or a run reading its
inputs file by file, `cache` the builder's memo of the box binary keyed by what
`stat` said, `daemon` the loaded images, `header[p]` the inputs a run's journal
records, `memo` its tags, `boxes` what its boxes started from.

**What is abstracted.** Payloads, templates, inputs and command output are the
verdicts the code branches on, chosen freely. CEL conditions are conjunctions of
boolean fields and params, or the negation of one; as in CEL, an operand that is
false absorbs the error of one that is missing. A hash is the value of what it folds. Records of the
journal are kept by kind; cleanup and defer records are left out. Time is left
out: a timer fires at any moment after it is armed. Logging, wording and argument
lists are left out. On the host, a release is known by its size and modification
time (two differ), a template has one hook, packages and pin are fixed, and
download and verification of a release are one outcome. In `Views` an agent that
cannot run because something before it failed and one stopped by a halt are told
apart only by that cause. `BoxResult` leaves usage and cost capture out.

## 3. What is checked

| Run | Instance | Properties |
|---|---|---|
| `exec_graph` | every IR of five nodes: each placed at the top level or in a sub-workflow, every acyclic declaration | `OrdersAsDeclared`: an entry brackets its members, no order is invented, `deepSinks` agrees with its recursive definition |
| `faults` | three agents with pauses, cancellation, lost appends, failing inputs, every defer | `OutstandingExact`, `NeverStuck` (with: a parked node has somebody to wake it), `RunEndSound`, `PausedStartsNothing`, `RunEnds` |
| `nested` | sub-workflows two deep, a loop of two iterations with its expect command and a selector over them, conditions, resumed results, failures anywhere | `IndegExact`, `FailureStops` (with: a skip names its cause), `ExpectBeforeWork` |
| `fan_out` | a generate with three instances, one listing another that holds a nested generate, `max_parallel` 1; one node after it and one beside it share a lane of 1; two slots | `PoolsExact`, `WorkConserving`, `KeepsWorkflow` (refines `Workflow`), `RunEnds` |
| `locks` | three executions, a pauser and a prune, deaths anywhere | `SingleAppender`, `LiveJournalKept`, `PauseIsCurrent`, `LivePauseKept` |
| `journal` | two executions of two steps, deaths, appends that write nothing or fail to sync | `AuditHonest`, `OkIsFinal`, `Replayable`, `KeepsLog` (refines `RunLog`) |
| `budget` | two exactly metered steps under one budget, one retry, rate limits, two executions | `BudgetHeld`, `FreshAttempts` (bounded, numbered across defers, never over the debris of another), `StepsSettle` |
| `tiers` | a step of every tier, two budgets, cancellation | `LedgerIsBoxes` (types, the sums are exact, reservations are the boxes in flight) |
| `box_attempt` | two attempts of one role, of two, or of an unpinned role beside none; cancellation, a crash, a second process; a kill that does not reach its container, an output log that cannot be opened | `AgentsSafe` (no agent adrift, every served proxy backed, pinned keys only, one signature at a time), `AttemptsApart` (own record, transcripts kept, no proxy left), `CancelEnds` |
| `box_phases` | every set of hooks behind a local remote or none; boxes with a prelude over every remote, host-key policy, agent and secret; one box whose programs leave a `result.json` | `OkIsEarned` (with: the agent starts behind its gates), `HaltStops`, `AlwaysAResult` (with: the box's verdict is kept), `KeepsContract` (refines `BoxContract`) |
| `front_end` | several thousand configurations: one loop between two steps, a loop in a loop, one typed value through params, outputs and scopes, and a family followed step by step in which an agent may fail or halt | `KeepsLoopMeaning`, `AcceptedRuns` (unique ids, everything settles, slots get values they admit, failures only by exhaustion), `RaisedCapKeeps`, `FailureSurfaces` (with: lines are in reading order), `RollupMeans`, `ProgressAgrees` |
| `host` | three upgrades, rollbacks or checks whose second rename may fail, two builds, an edit, a run that dies, or ends (paused, failed, done), and is resumed | `PairKept` (an upgrade is atomic, a rollback undoes exactly the last one or refuses), `ImagesKept` (a build returns what it read, a run has one image per template over all its executions) |

Every property of a run has a mutant in `PROJECT.json`: a definition changed the
way a plausible bug would change the code, under which TLC finds the property
violated. The mutated forms stand before the definitions they replace.

### Disagreements

While modelling, the code was found to do otherwise than a comment or a document
of the repository says. Each is a property of the named module that TLC
violates within seconds; these are kept apart from the runs above.

With a configuration of their own (`tlc -config X.cfg M`):

| Configuration (module), property | What happens, and what the repository says |
|---|---|
| `MCNestedFanOut.cfg` (`MCScheduler`), `MaxParallelInstances` | Boxes of a nested generate do not take the outer generate's pool (`pipeline/scheduler.go:1047`), so more instances than `max_parallel` run. `docs/configuration.md:72`: "at most 4 instances at once". |
| `MCPrunePaused.cfg` (`MCRunStore`), `PausedKept` | A prune acts on an audit older than its lock (`failure/runs.go:99`) and deletes a run that was resumed and paused in between. `runs.go:62`: "keeps paused runs". |
| `MCTornAppend.cfg` (`MCRunStore`), `Replayable` | A short write (`failure/journal.go:335`) followed by another append makes a terminated malformed line. `journal.go:410`: "termination proves the write completed". |
| `MCHookDir.cfg` (`MCAttempts`), `HookSeesItsAttempt` | After a failed attempt and a defer, attempt numbers restart and the cleanup hook is shown another attempt's directory (`pipeline/scheduler.go:803`). `failure/hooks.go:26`: "the failed attempt's result directory". |
| `MCUpgradePair.cfg` (`MCHost`), `PairCoupled` | When the first rename of the box's swap fails, `restore` finds no backup and `set -e` ends the script before faber is restored, or it finds an earlier upgrade's backup and moves that in (`config/install.sh:318`). `install.sh:284`: the pair "is never left mismatched". |
| `MCTeardown.cfg` (`MCBoxAttempt`), `TeardownEnds` | Closing a proxy waits for its connections, one of which may wait for a signature nobody gives; the bound is on a context the wait does not look at. `security/set.go:14`: "teardown cannot hang forever". |
| `MCStraggler.cfg` (`MCBoxAttempt`), `TranscriptsKept` | A box of a dead process that is still running captures its transcript after `preserveSessions` looked and before the scrub. `pipeline/boxrun.go:136`: "preserve any captured session transcript first". |
| `MCOpenLog.cfg` (`MCBoxAttempt`), `NothingLeft` | An attempt that cannot open its output log returns without tearing its bindings down (`pipeline/boxrun.go:213`), as every other path does; the proxies it leaves are excepted in `AgentsSafe` and `AttemptsApart`. |
| `MCHaltSkip.cfg` (`MCBoxPhases`), `SkipConfessed` | A prelude that skips the agent and then halts leaves a record without the skip (`agent/box/halt.go:56`). `agent/contract/record.go:79`: "honesty metadata beside any status". |

By a change to a listed configuration (the property replaces its properties):

| Configuration and change, property | What happens, and what the repository says |
|---|---|
| `MCFaults.cfg` with `AppendFails` and `Cancels` FALSE; `PausedLosesNoCosts` | The costs of a converted attempt are kept in `execNode.costs` (`pipeline/scheduler.go:922`) and journaled only when the node settles; a pause while it waits drops them. `spec/pipeline/arch_scheduler.md:102`: "no record, no loss". |
| `MCNested.cfg`; `ExpectOncePerBoundary` | `checked` is read at dispatch (`scheduler.go:424`) and raised when the command has answered (`:985`): two nodes that enter one iteration in one drain both run it. `scheduler.go:978`: "the boundary is recorded so the command does not run again for it". |
| `MCPrunePaused.cfg` with `Tools = {pauser}`; `PauseSurvives` | A pause accepted between a resume's flock (`failure/recover.go:50`) and its `ClearPause` (`:61`) disappears. `failure/pause.go:12`: the request "survives races and process boundaries". |
| `MCTornAppend.cfg` with two executions, `Crashes = TRUE`, no append faults; `EndMeansEnded` | `Load` keeps the last run-end record of the file (`failure/journal.go:521`), an earlier execution's when the last one died. `journal.go:374`: "nil when the last execution of this run never finished". |
| `MCHookDir.cfg` with nodes `{a, b}`, `Tokens = {1}`, `NoRetry`, `MaxExecs = 2`; `RestoredCountHonest` | `restoreDeferCounts` (`pipeline/executor.go:622`) counts annotations that budget contention left too. `metering/defer.go:171`: "the bound only ever loosens, never wrongly trips". |
| `MCHookDir.cfg` with `Tokens = {0, 4}`, `Usages = {}`, `NoRetry`, outcome `ok`; `BoundCovers` | The exact tier's sum wraps (`metering/tiers.go:98`), `Admit` drops the negative amount with its unit, and the step runs without a reservation. `metering/admit.go:189`: "a negative or overflowing estimate must never widen a budget". |
| `MCBoxAttempt.cfg` with `Faults = {}`; `AgentsNotShared` | Attempts of one role share its agent. `security/identity.go:68`: "Concurrent steps never share an agent, even under the same identity". |
| `MCFrontEnd.cfg` with `Configs <- TypedConfigs`; `NeverMidRun` | A step that reads an optional output fails at its launch when the producer left it out, even where its own slot is optional or defaulted. `spec/proposals/2026-07-08-faber-engine.md:22`: errors surface "at `faber validate`, never mid-run". |
| `MCFrontEnd.cfg` with `ScopedConfigs`; `ConditionParamsPresent` | A param of a sub-workflow, required or defaulted, may be bound to an optional one of its caller and be absent when a condition reads it. `config/wiring.go:519`: "its presence at evaluation is guaranteed". |
| `MCFrontEnd.cfg` with `GuardConfigs`; `KeyTellsGuards` | With every cap forced to 1 an unrolled loop has no guard left, so loops that differ in `until` share a key. `config/ir.go:378`: "a guard, an edge — still changes it". |
| `MCFrontEnd.cfg` with `NestedConfigs`; `AfterLoopIsAfterAll` | Depending on a loop orders after its final iteration's own steps, and not after the nodes of a loop nested in it. `config/desugar.go:520`: "after every final-iteration body node". |
| `MCFrontEnd.cfg` with `Configs <- Followed`; `KeepsExhaustion` | A loop with two selectors is reported by the one read last, which need not be the exhausted one. `pipeline/rollup.go:24`: "Exhausted marks the loop-exhaustion failure". |
| `MCFrontEnd.cfg` with `Configs <- Followed`; `SaidOnceSettled` | A guarded step that settles before another of its iteration starts makes the stream say that the loop converged. `pipeline/progress.go:17`: "when a loop converges". |
| `MCUpgradePair.cfg` with `MovesThatFail = {"rollback"}`, or with `Ups = {"u", "v"}` and none; `PairCoupled` | A rollback whose second rename fails stays half done; two upgrades interleave. `config/install.sh:154`: "the pair is never left half-restored". |
| `MCUpgradePair.cfg` with `SPECIFICATION KilledSpec` and `MovesThatFail = {}`; `PairCoupled` | An upgrade is killed between its renames. `install.sh:284` as above. |
| `MCUpgradePair.cfg` with `CheckPlans`; `CheckChangesNothing` (a property) | `--check --rollback` rolls back. `config/cmd_upgrade.go:186`: "report the latest release and change nothing". |
| `MCUpgradePair.cfg` with `MovesThatFail = {}`, `MaxBuilds = 1`; `NeverUnderRun` (a property) | A run opens its journal between the guard and the swap. `config/cmd_upgrade.go:203`: "faber is never swapped out from under a live or unfinished run". |
| `MCHost.cfg` with `TwoTemplates`, `RollbackPlans`; `BoxIsOnDisk` | The binary is swapped between the stat and the read and rolled back later: the cache then gives the new bytes for the old file. `infra/inputs.go:145`: "cached by the file's size and modification time". |
| `MCHost.cfg` with `Legs = {"absent", "empty"}`; `ReturnsItsImage` | An empty skills tree and none at all have one tag and different images. `infra/image.go:116`: "the hash covers exactly the inputs that determine image content". |

A loop step's own `depends_on` is accepted and not read (`config/desugar.go`):
`Desugar` does the same.

### Bounds

Scheduler workflows are of three to eight nodes: each instance is built so that
its hazards happen (two holders and a waiter for every pool, a cascade that
crosses two levels, a splice under a waiting dependent, an item that lists
another, two nodes entering one iteration). The three scheduler instances divide
the work: `faults` has every way for a run to be disturbed on a graph that is
nearly flat, `nested` and `fan_out` have the shapes, undisturbed but for failing
steps and commands. `MaxDefer` bounds the timed defers of a node, as
`DeferPolicy.Max` does; it is 1 in `faults`, where defers meet pauses and
cancellation, and 0 in the other two, where budget contention still parks nodes.

Three executions are what it takes for one process to hold an old lock inode, one
a new one and one to append, and in `locks` every box that ends is ok
(`Verdicts`), since a lock does not depend on results; two executions with two
steps, failing too, are what it takes for a replayed journal to mix results of
both. In `Attempts` amounts are small and `MaxInt` is one more than the limit, so
that sums do saturate; `MaxSaturated` bounds how often a probe reports saturation
(it could do so for ever) and `MaxExecs` the executions.

Two restrictions of `Attempts` are deliberate. An exactly metered box is assumed
to use no more than its prompt and configured output (`FinishBox`), which is what
the tier is for. And `budget` is run without cancellation: costs that a deferred,
unsettled step has stashed are lost when a run stops (`PausedLosesNoCosts`), and
they would be missing from the resumed ledger.

In `box_attempt`, two attempts contend for an agent, for the mutex and for the
queue, and `MaxLives` 2 gives each directory one earlier owner. In `box_phases`
there is no bound: a box has finitely many states, and the instance only leaves
out combinations of options that no phase reads together. `front_end` compiles
loops of up to three iterations (and one beyond `MaxUnrolledNodes`, 16 here, which
must be rejected), two in nested loops; `RaisedCapKeeps` compares with one more.
`Views` follows ten of these configurations, chosen for their shapes: what
guards, reads and follows a loop, a loop in a loop, a loop that is itself skipped. In `host`, three
upgrades are what it takes to upgrade, roll back and find an older backup;
the failing renames are those after a backup was made (`MovesThatFail`), since
the others are the disagreement above.

Deadlock is checked in the scheduler's and the workers' runs, where the end of a
run is an action of its own. It is off where the model's processes end: in
`RunStore`, `BoxAttempt`, `BoxPhases`, `FrontEnd` and `Host`.

### Fairness

`Scheduler!FairSpec` has weak fairness of the loop goroutine and of every worker:
goroutines are scheduled, boxes are bounded by their own timeouts, and timers
fire. Nothing is assumed of cancellation or pause requests. `Attempts!FairSpec`
has weak fairness of every worker and of every wake, which is the loop receiving
and the timer or settlement that `NeverStuck` shows to be there. `RunEnds` is
checked twice: in `faults` with pauses, cancellation and timers, in `fan_out`
with splices and bounded pools. `BoxAttempt!Spec` has weak fairness of the
attempt's goroutine, of the connections of a container that is gone (the kernel
closes them) and of `Close`; nothing of a running box, which may never end; and
of an agent's answer, which is somebody touching a token. Without the last,
`UnattendedSpec`, a teardown may wait for ever.

## 4. What is proved

The theorems hold for every value of the constants under the named assumptions.
Of the workflow: `NodeAssumption` (finitely many numbered nodes),
`InstAssumption`, `PathAssumption`, `EdgeAssumption` (ids are prefixes, edges
stay within a level: what the compiler emits), `AcyclicAssumption` (what
`passAcyclic`, `config/wiring.go:414`, and `checkItemCycles` refuse),
`ShapeAssumption` (no empty level, `config/validate.go:586`; conditions read
agents only; an item lists items of its own source), `BoundAssumption` and
`LoopAssumption` (bounds and iterations are naturals). Of the ledger and its
workers: `MeterAssumption` (finitely many steps, amounts within int64) and
`AttemptAssumption`. Of the store: `ProcAssumption` (processes and absent values
are distinct) and `VerdictAssumption` (a box ends ok or failed). Of the box:
`OptionsAssumption` (its options are ones that `ParseEnv` and `validate` leave)
and `WritersAssumption`; of its host, `RoleAgentsAssumption`. Of the installation:
`ReleasesAssumption`, `UpgradeAssumption`, `ImageAssumption` and
`TemplatesAssumption`. TLC evaluates each on the runs.

A theorem that needs more says so in its statement; each of these hypotheses is
there because a disagreement of section 3 shows the statement false without it.

**`SchedulerProofs`** begins with lemmas on ids and levels (paths are prefixes,
membership is transitive, a member's root is below its entry's) and on the edges
of `AddLevel`: they stay below the level's root and enter a sub-workflow only from
its entry or from inside (`AddLevelInto`), every declared edge and an edge from
an entry to each source of its level is among them (`AddLevelWires`), and a node
that is no source of its level has a declared predecessor (`NotASource`).

Its theorems are `TypeCorrect`, `IndegCorrect`, `PoolsCorrect`,
`OutstandingCorrect`, `SettledCorrect`, `PauseCorrect`. The in-degrees being
exact is not inductive: a cascade settles the members of a failed sub-workflow
at once, and that their successors are decremented rightly depends on nobody
outside having an edge into them, and on none of them being in flight. The
inductive invariant `IInv` therefore has

- `GraphInv`: types, `Counted` (the in-degrees), `Enclosed` (nothing inside a
  sub-workflow is released before its entry settled), `Guarded` (until then,
  edges into it come from inside it), `Wired` (nodes in the graph have their
  declared edges), `Together` (a root's nodes are added at once). It is stated of
  an arbitrary graph, since `applyExpansion` settles the generate node on the
  graph it has just spliced;
- `Fresh`: instances are there only after their generate node settled, so a
  splice finds its nodes absent;
- `FlightInv`: a node is running exactly while its worker or its event is out,
  expansions name the asking node's own instances, the counters are exact;
- `DrainsUnpaused`, and no worker is left at the exit.

`Inductive` proves that every action keeps all of it, leaves settled nodes alone
and launches nothing once paused.

Its second half has `RunInvariance`, `StuckFree`, `DrainCorrect`,
`RunEndCorrect` and `ExpectCorrect`. That the loop never waits for nothing takes a
graph on which there always is something to wait for. `RunInv` adds to `IInv`

- `Readiness`: edges join nodes that are there (`Present`), a released node's
  predecessors have settled (`Ready`), one whose predecessors have settled is
  released unless the run is paused (`Waits`), and every set of nodes has one that
  no other precedes (`Acyclic`). The last is assumed of what is declared and has to
  be proved of the graph: through the edges a sub-workflow's boundary makes, and
  through every splice, which adds edges between nodes that wait already;
- `LoopInv`: what a drain leaves (`PassInv`), the journal as the settled nodes
  (`JournalInv`), how the run stopped (`ExitInv`), somebody on the way to settle
  whenever the parking lot is occupied (`LotInv`, from which a parked node has a
  waker), and `ExpectBeforeWork`.

Every step is shown to be one of three kinds (`StepKinds`): it moves open nodes, it
settles a node on the graph as it is, or it settles a generate node on the graph
with its instances. What is proved of graphs afterwards is proved of the kinds.

**`FailureProofs`**: `FailureCorrect`, `LevelOrder`, `AfterCorrect`. The first
states `FailureStops` of every step. What is skipped is skipped by a cascade that
the code runs once, at the failure, while later splices still add nodes downstream
of it; and a cascade may run over nodes whose other predecessors still run.
`FailInv` names the greatest set from which everything downstream is skipped
(`Stopped`) and says that whatever follows a failed or halted node is in it
(`FailStop`), that whoever settled ahead of a predecessor is (`Overtaken`), that
the members of an entry that did not end ok are (`EntrySkips`), and that a status
means settled (`Settled`); `Causes` goes the other way, from a skip to what caused
it. `FailureStops` itself is said with a transitive closure, computed in the
module as a recursive function on rounds: `ClosureSteps` and `ClosureFacts` show
that it is the least transitive relation above the edges, through its finitely
many rounds.

`AfterCorrect` states `AfterMeansAfterAll` from the same invariants. Nothing in the
code says "after the fan-out" as such: `addLevel` gives a sub-workflow's dependents
edges from its deep sinks, and each splice gives the sinks of its instances edges to
whatever its generate node then leads to. `LevelOrder` proves what `addLevel` achieves
for every nesting: an entry is before its members, these before whatever is declared
after the entry, and nothing else is ordered that no declaration orders (the two halves
of `OrdersAsDeclared` that need no recursion). `Linked` is the invariant over splices:
the graph leads from every node that is there to whatever follows what it is inside
(`Follows`); with `Expanded`, that instances are there only behind a generate that
ended ok. Whoever is released or settled outside a cascade is `Clear`, and so is
everything upstream of it (`ClearUpstream`) and around it (`ClearOutside`).

**`WorkflowProofs`**: `WorkflowCorrect`, that the run loop implements `Workflow`. What
the loop goes by are edges, which splices add, in-degrees and a cascade that walks from
waiting node to waiting node; the abstract run knows what was declared and nothing else.
`LevelOrdered` and `SpliceOrdered` show that no edge orders what is not declared in
order. The converse does not hold: no edge leads to an instance from what its generate
node came after, which had settled by the splice. `OrderMeets` is what holds instead:
of two nodes that are there and declared in order, either the graph leads from the one
to the other, or the one has settled and let go on what is after it. From it, a node the
loop releases is ready by the declarations (`ReadyMaps`), and the cascade takes exactly
what is declared after a failure, no less, because nothing after a node that has not
settled is released (`DoomedMaps`). The mapping's own invariant `FlowInv` adds to that of `AfterCorrect` that
the edges are in the declared order and that a node which waits for its pools has its
inputs (`Fed`). Then every action is mapped, the loop's inner steps to stuttering. Not
in `Workflow`, and so left to the theorems before: pools, retries and defers, and that
the run ends. `KeepsWorkflow`
has of `AfterMeansAfterAll` what the user sees of it, and stands for it in the run.

**`AttemptsProofs`**: `FreshCorrect`, `LedgerCorrect`,
`BudgetCorrect`. `NumberInv` has the types and `Numbered`: each dispatch continues
the numbers where earlier ones left off, and debris lies there only until the
cleanup that follows. `LedgerInv` adds `Holding`, which is who holds what at each
point of a dispatch, and states the ledger as the sum of it. `BudgetInv` adds
`Covered` (what an exactly metered box holds is what it may use) and `Paid`: what
was used is in the ledger's `spent`, in the journal or owed by a step that has not
settled (`Owed`). The sums are folds over the steps; how one step's change changes
the sum is proved from the partial sums being unique and from the least set on
which two would differ (`Total`), as the library's induction on finite sets is out
of reach. `BudgetCorrect` assumes `Sized` (no estimate wraps; without it
`BoundCovers` fails) and that a cancelled run is not resumed (else
`PausedLosesNoCosts` fails, and what was lost is missing from the next execution's
ledger).

**`RunStoreProofs`**: `StoreTypeCorrect`, `SingleAppenderCorrect`,
`LiveJournalCorrect`, `PauseIsCurrentCorrect`, `LivePauseCorrect`,
`CommittedCorrect`, `ReplayCorrect`, `OkFinalCorrect`, `AuditCorrect`, and `LogCorrect`:
the journal implements `RunLog`. A flock is
on an inode, so exclusion holds only among processes at the same one. The
invariant's core is `SameInode`: as long as there is a journal, or one is about to
be created, everybody at the lock is at the inode the path names. It needs
`Flocked` (who holds a lock is known by its position), `BeginsOnce` (no prune sees
a run before it has a journal) and `Journaled` (a prune that unlinks has removed
the journal first: the order in `PruneRuns` is what makes it safe). `RepairKnows`
says that what `repairTornTail` read still holds when it truncates; with it the
journal is append-only. `ReplayCorrect` adds `Whole` and assumes that no append is
torn in a process that lives on; `MCTornAppend.cfg` shows that the assumption is
needed. `OkFinalCorrect` does without it: `AdoptInv` says that, from the replay on, an
execution either has adopted every ok line of the journal or is about to
(`Recalls`), and that nothing is dispatched before the scheduler runs (`Unspent`);
a torn line is never read as a result. `AuditCorrect` needs the assumption again,
as a torn result before a settled end would hide a box. It goes by `Honest`: a
journal that has its end either says paused or aborted, or has the result of every
step's last box, which an execution can say because what it takes for settled is
in the journal unless an append failed (`Replied`). `LogCorrect` is where these meet,
under the same assumption: a reader may take the directory, with its inodes,
probes, repairs and deaths, for a log that one execution at a time adds to, where no
box starts after a success, each writer gives a step one result and a cost only after
it, a run-end record is true and its writer's last, and only a log nobody writes is
deleted. The writer is whoever owns the journal, and what it is through with is in its
memory alone; `LogInv` adds `Owing` (a cost still to be written is of a settled step) to
what `AuditCorrect` needs, and every system call maps to one step of the log or none. `KeepsLog`
contains `CommittedKept` and stands for it in the run; TLC also finds it kept on the
instance of `locks`, where prunes delete the log.

**`BoxAttemptProofs`**: `AgentsCorrect`, `RecordsCorrect`, `AttemptsCorrect`, for any
number of attempts, roles and successive processes. `AgentInv` ties four owners of
one agent together: the mutex, the cache of the binding (`RolesInv`), the proxy of
each attempt by its position (`StageInv`, `BackedInv`), and who signs
(`SignerHolds`). `DirInv` dates directories and containers by the life that made
them, so that this life's record can only be from this life's box. Both hold under
every fault. `SessionInv`, that no transcript is lost, is proved without the
faults of `Unheard`: a straggling box (the disagreement `TranscriptsKept`) and a
directory that cannot be listed, whose transcripts nobody can save.

**`BoxProofs`**: `BoxTypeCorrect`, `HaltCorrect`, `OkCorrect`, `ResultCorrect`,
and `ContractRefined`: the sequencer with its host implements `BoxContract`, the
record's status and the end being the mapping. That a halt stops the box and that
an ok is earned speak of the record, which is written at the end, from what
earlier phases left. The inductive invariant adds, for the time between,
`RanInv` (which programs have run by each phase), `RecordInv` (there is no record
before the sequencer comes to write one), `GateInv` (the gates before the agent
were passed) and `BundleInv` (what the loaded bundle says of skipping and of the
declared branch). `ResultInv` adds that there is a result only once the box is
over. The host's side is proved for every file: `AlwaysAResult` does not depend on
who wrote it.

**`HostProofs`**: `HostInvariance`, `ImagesCorrect`, `PairCorrect`. `ImageInv`: what the
daemon has under a tag is the tag's content (`Held`), what a reader has gathered
file by file was each on disk at some time (`Gathered`), journals and memos name
inputs of every template passed so far (`Recorded`), and what a build returned is
still loaded (`Returned`). `ImagesCorrect` excludes that both an absent and an empty
skills tree occur, the disagreement `ReturnsItsImage`. `PairInv` follows one
upgrade through its renames (`Informed`, `Moved`) and says where the two files and
their backups are between upgrades (`Rested`); its hypothesis `OneUpgrade` (one at a
time, and only the rename that moves a new file in may fail) is what the
disagreements `PairCoupled` need broken.

**Only model-checked**: liveness (`RunEnds`, `StepsSettle`, `CancelEnds`);
of `OrdersAsDeclared`, that `deepSinks` agrees with its definition by recursion
over the levels, which would need induction over data; everything of `Desugar`,
`Wiring`, `FrontEnd` and `Views` (`KeepsLoopMeaning`, `AcceptedRuns`,
`RaisedCapKeeps`, `FailureSurfaces`, `RollupMeans`, `ProgressAgrees`), whose
definitions are recursive operators over nested steps, in modules no theorem may
use.

## 5. What is not modelled, and the plan

Not modelled, with the reasons at the components in `PROJECT.json`:

- the terminal UI: a read model drawn by layout code, whose fold repeats the
  report's;
- the preflight check command, re-entry and copy: one process at a time, file
  system and terminal I/O;
- credentials and registry, metering configuration, and the parsing and layout
  parts of configuration, contract and container arguments: string work and I/O;
- the network, remote and runtime bindings: they only contribute arguments;
- how long a defer lasts (`metering/defer.go:111`: reset epoch, horizon, backoff),
  as time is left out; reading and validating the items of a data source;
- a death between a result record and its cost record
  (`pipeline/scheduler.go:1204`): `RunStore` has both appends and no amounts.

Planned: an abstract specification of the resumed runs of a workflow that `Scheduler`
and `RunStore` are together shown to implement (each implements one of its own now),
and one of the workers that `Scheduler` and `Attempts` see from two sides.
