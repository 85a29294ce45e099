------------------------------ MODULE RunStore ------------------------------
(***************************************************************************)
(* One run directory of the journal store (package failure) and the faber  *)
(* processes that share it: executions (`faber run', `faber resume'), a    *)
(* pause request (`faber pause') and a prune (`faber runs prune').  The    *)
(* directory holds journal.jsonl, run.lock and the pause marker.           *)
(*                                                                         *)
(* A system call is one step, so the processes interleave between calls.   *)
(* A lock file is an inode: the flock is on the inode a process opened, and*)
(* the path may name another one by the time it is taken.  A process may   *)
(* die at any point; the kernel then drops its flock, and an append it was *)
(* in the middle of leaves an unterminated tail.                           *)
(*                                                                         *)
(* A step stands for a journal key (step id and input hash).  Records are  *)
(* kept by kind; cleanup and defer records do not bear on these properties.*)
(***************************************************************************)
EXTENDS Integers, Sequences

CONSTANTS
  Execs,          \* executions: each is one process and one command
  Pauser, Pruner, \* the two tools; each runs its command again and again
  Tools,          \* those of the two that are used
  Steps,          \* the workflow's journal keys
  NoProc, NoStep, \* absent values
  Verdicts,       \* how a box may end: "ok", "failed"
  AppendFaults,   \* how an append may fail: "nothing", "torn", "unsynced"
  Crashes         \* whether processes may die

ASSUME ProcAssumption ==
  /\ Pauser \notin Execs /\ Pruner \notin Execs /\ Pauser # Pruner
  /\ NoProc \notin Execs \cup {Pauser, Pruner}
  /\ NoStep \notin Steps
  /\ Tools \subseteq {Pauser, Pruner}

ASSUME VerdictAssumption == Verdicts \subseteq {"ok", "failed"}

VARIABLES
  dir, begun,       \* the run directory exists; its id was minted
  lockIno, nextIno, \* the inode run.lock names (0: no file); inodes so far
  linked,           \* journal.jsonl exists
  lines, tail,      \* its terminated lines; whether a fragment follows
  marker,           \* the pause file
  pc, fd, held,     \* per process: position, open lock inode, flock taken
  mem,              \* execution: what the process remembers, see Blank
  saw,              \* the process a pause request found holding the lock
  all, sweep        \* prune: its --all flag; what RemoveAll has still to unlink

fileVars  == <<linked, lines, tail>>
storeVars == <<dir, begun, lockIno, nextIno, linked, lines, tail, marker>>
lockVars  == <<fd, held>>
toolVars  == <<saw, all, sweep>>
vars == <<dir, begun, lockIno, nextIno, linked, lines, tail, marker, pc, fd, held,
          mem, saw, all, sweep>>

Procs    == Execs \cup {Pauser, Pruner}
Statuses == {"settled", "paused", "aborted"}
Record   ==
       {<<"header">>, <<"bad">>}
  \cup ({"start", "ok", "failed", "cost"} \X Steps)
  \cup ({"end"} \X Statuses)

\* An execution's memory: its command, the ok keys of RunSeed.Prior, the steps'
\* progress, the length repairTornTail found (-1 for a clean tail), the step
\* whose cost record is still to append, scheduler.paused, scheduler.fatal # nil.
Memory == [mode : {"begin", "resume"}, prior : SUBSET Steps,
           task : [Steps -> {"todo", "sent", "boxed", "done"}], keep : Int,
           owes : Steps \cup {NoStep}, latched : BOOLEAN, fatal : BOOLEAN]
Blank  == [mode |-> "begin", prior |-> {}, task |-> [s \in Steps |-> "todo"],
           keep |-> -1, owes |-> NoStep, latched |-> FALSE, fatal |-> FALSE]

\* The marker carries two facts the file does not: the process the request
\* found live, and the executions that had cleared the marker by then.
NoMarker == [on |-> FALSE, saw |-> NoProc, under |-> {}]

ExecPCs == {"new", "open", "take", "clear", "create", "header", "load", "repair",
            "reopen", "setup", "run", "close", "gone"}
ToolPCs == {"new", "probe", "drop", "write", "read", "open", "take", "journal",
            "sweep", "release"}

\* Executions that hold a lock and have cleared the marker.
Cleared == {e \in Execs : pc[e] \in {"create", "header", "load", "repair", "reopen",
                                     "setup", "run", "close"}}
\* Executions that found (or made) the journal and mean to append to it.
Owners == {e \in Execs : pc[e] \in {"header", "repair", "reopen", "setup", "run", "close"}}

Init ==
  /\ dir = FALSE /\ begun = FALSE
  /\ lockIno = 0 /\ nextIno = 1
  /\ linked = FALSE /\ lines = <<>> /\ tail = FALSE
  /\ marker = NoMarker
  /\ pc = [p \in Procs |-> "new"]
  /\ fd = [p \in Procs |-> 0] /\ held = [p \in Procs |-> FALSE]
  /\ mem = [e \in Execs |-> Blank]
  /\ saw = NoProc /\ all = FALSE /\ sweep = {}

Goto(p, l) == pc' = [pc EXCEPT ![p] = l]

-----------------------------------------------------------------------------
(* run.lock                                                                *)

\* Mutant of Busy: executions take a shared lock.
BusyShared(p) == \E q \in Procs \ {p} :
                   held[q] /\ fd[q] = fd[p] /\ ~(p \in Execs /\ q \in Execs)

\* Another process has a flock on the inode that p opened.
Busy(p) == \E q \in Procs \ {p} : held[q] /\ fd[q] = fd[p]

\* close of the lock file, by Release or by the end of the process
Release(p) ==
  /\ fd' = [fd EXCEPT ![p] = 0]
  /\ held' = [held EXCEPT ![p] = FALSE]
  /\ UNCHANGED lockIno

\* A process gives up, ends or dies: its lock and its memory are gone.
Quit(p) ==
  /\ Goto(p, IF p \in Execs THEN "gone" ELSE "new")
  /\ Release(p)
  /\ mem' = IF p \in Execs THEN [mem EXCEPT ![p] = Blank] ELSE mem
  /\ all' = (all /\ p # Pruner)
  /\ sweep' = IF p = Pruner THEN {} ELSE sweep
  /\ saw' = IF p = Pauser THEN NoProc ELSE saw
  /\ UNCHANGED <<dir, begun, nextIno, linked, lines, marker>>

Refuse(p) == Quit(p) /\ UNCHANGED tail

\* AcquireRunLock's open: O_CREATE makes the file, never the directory
LockOpen(p) ==
  /\ pc[p] = "open"
  /\ \/ ~dir /\ Refuse(p)
     \/ /\ dir
        /\ lockIno' = IF lockIno = 0 THEN nextIno ELSE lockIno
        /\ nextIno' = IF lockIno = 0 THEN nextIno + 1 ELSE nextIno
        /\ fd' = [fd EXCEPT ![p] = lockIno']
        /\ Goto(p, "take")
        /\ UNCHANGED <<dir, begun, fileVars, marker, held, mem, toolVars>>

\* AcquireRunLock's flock, without blocking
LockTake(p) ==
  /\ pc[p] = "take"
  /\ \/ Busy(p) /\ Refuse(p)
     \/ /\ ~Busy(p)
        /\ held' = [held EXCEPT ![p] = TRUE]
        /\ Goto(p, IF p = Pruner THEN "journal" ELSE "clear")
        /\ UNCHANGED <<storeVars, fd, mem, toolVars>>

-----------------------------------------------------------------------------
(* Journal.append: one write of a whole line, then a sync.                 *)

\* The write completed.  On top of a fragment it terminates a malformed line.
Wrote(rec) ==
  /\ lines' = Append(lines, IF tail THEN <<"bad">> ELSE rec)
  /\ tail' = FALSE

\* err is append's error
AppendLine(rec, err) ==
  \/ ~err /\ Wrote(rec)
  \/ err /\ "nothing" \in AppendFaults /\ UNCHANGED <<lines, tail>>
  \/ err /\ "torn" \in AppendFaults /\ tail' = TRUE /\ UNCHANGED lines
  \/ err /\ "unsynced" \in AppendFaults /\ Wrote(rec)

-----------------------------------------------------------------------------
(* Opening a run                                                           *)

\* Store.Begin's MkdirAll.  NewRunID mints the id, so a run begins once.
Begin(e) ==
  /\ pc[e] = "new" /\ ~begun
  /\ begun' = TRUE /\ dir' = TRUE
  /\ Goto(e, "open")
  /\ UNCHANGED <<lockIno, nextIno, fileVars, marker, lockVars, mem, toolVars>>

\* `faber resume' of this run
Resume(e) ==
  /\ pc[e] = "new" /\ begun
  /\ mem' = [mem EXCEPT ![e].mode = "resume"]
  /\ Goto(e, "open")
  /\ UNCHANGED <<storeVars, lockVars, toolVars>>

\* Mutant of ClearPause: Resume does not clear.
ClearPauseOnBegin(e) ==
  /\ pc[e] = "clear"
  /\ marker' = IF mem[e].mode = "begin" THEN NoMarker ELSE marker
  /\ Goto(e, IF mem[e].mode = "begin" THEN "create" ELSE "load")
  /\ UNCHANGED <<dir, begun, lockIno, nextIno, fileVars, lockVars, mem, toolVars>>

\* Mutant of ClearPause: the marker goes before the lock is taken.
ClearPauseUnlocked(e) ==
  /\ pc[e] \in {"take", "clear"}
  /\ marker' = NoMarker
  /\ IF pc[e] = "take" THEN UNCHANGED pc
     ELSE Goto(e, IF mem[e].mode = "begin" THEN "create" ELSE "load")
  /\ UNCHANGED <<dir, begun, lockIno, nextIno, fileVars, lockVars, mem, toolVars>>

ClearPause(e) ==
  /\ pc[e] = "clear"
  /\ marker' = NoMarker
  /\ Goto(e, IF mem[e].mode = "begin" THEN "create" ELSE "load")
  /\ UNCHANGED <<dir, begun, lockIno, nextIno, fileVars, lockVars, mem, toolVars>>

\* Begin's O_EXCL create
CreateJournal(e) ==
  /\ pc[e] = "create"
  /\ \/ (linked \/ ~dir) /\ Refuse(e)
     \/ /\ ~linked /\ dir
        /\ linked' = TRUE /\ lines' = <<>> /\ tail' = FALSE
        /\ Goto(e, "header")
        /\ UNCHANGED <<dir, begun, lockIno, nextIno, marker, lockVars, mem, toolVars>>

AppendHeader(e) ==
  /\ pc[e] = "header"
  /\ \E err \in BOOLEAN :
       /\ AppendLine(<<"header">>, err)
       /\ Goto(e, IF err THEN "close" ELSE "setup")
  /\ UNCHANGED <<dir, begun, lockIno, nextIno, linked, marker, lockVars, mem, toolVars>>

\* Load accepts the journal: a torn tail is dropped, a terminated malformed
\* line or a missing header is an error.
Loads ==
  /\ linked
  /\ lines # <<>> /\ lines[1] = <<"header">>
  /\ \A i \in DOMAIN lines : lines[i] # <<"bad">>

\* The last result of s, in journal order, decides.
ResultsOf(s) == {i \in DOMAIN lines : lines[i] \in {<<"ok", s>>, <<"failed", s>>}}

\* Mutant of OkKeys: the last line is taken for a torn one.
OkKeysButLast == {s \in Steps : \E i \in ResultsOf(s) \ {Len(lines)} :
             lines[i] = <<"ok", s>> /\ \A j \in ResultsOf(s) : j <= i}

OkKeys == {s \in Steps : \E i \in ResultsOf(s) :
             lines[i] = <<"ok", s>> /\ \A j \in ResultsOf(s) : j <= i}

\* ResumeWith's Load and its drift guards, which may always refuse
LoadPrior(e) ==
  /\ pc[e] = "load"
  /\ \/ Refuse(e)
     \/ /\ Loads
        /\ mem' = [mem EXCEPT ![e].prior = OkKeys]
        /\ Goto(e, "repair")
        /\ UNCHANGED <<storeVars, lockVars, toolVars>>

\* reopenLocked's stat and the read half of repairTornTail
RepairRead(e) ==
  /\ pc[e] = "repair"
  /\ \/ ~linked /\ Refuse(e)
     \/ /\ linked
        /\ mem' = [mem EXCEPT ![e].keep = IF tail THEN Len(lines) ELSE -1]
        /\ Goto(e, "reopen")
        /\ UNCHANGED <<storeVars, lockVars, toolVars>>

\* Mutant of Reopen: the last newline is cut off with the fragment.
ReopenCutting(e) ==
  /\ pc[e] = "reopen"
  /\ IF mem[e].keep < 1 THEN UNCHANGED <<lines, tail>>
     ELSE lines' = SubSeq(lines, 1, mem[e].keep - 1) /\ tail' = TRUE
  /\ Goto(e, "setup")
  /\ UNCHANGED <<dir, begun, lockIno, nextIno, linked, marker, lockVars, mem, toolVars>>

\* Mutant of Reopen: the torn tail stays.
ReopenUnrepaired(e) ==
  /\ pc[e] = "reopen"
  /\ Goto(e, "setup")
  /\ UNCHANGED <<storeVars, lockVars, mem, toolVars>>

\* Its truncate, and OpenJournal's open, which creates a missing file
Reopen(e) ==
  /\ pc[e] = "reopen"
  /\ IF ~linked THEN linked' = dir /\ lines' = <<>> /\ tail' = FALSE
     ELSE /\ linked' = linked
          /\ IF mem[e].keep < 0 THEN UNCHANGED <<lines, tail>>
             ELSE lines' = SubSeq(lines, 1, mem[e].keep) /\ tail' = FALSE
  /\ Goto(e, "setup")
  /\ UNCHANGED <<dir, begun, lockIno, nextIno, marker, lockVars, mem, toolVars>>

\* openRun's image drift closes a resumed journal as it is; a failure between
\* openRun and the scheduler ends the execution as aborted.
Setup(e) ==
  /\ pc[e] = "setup"
  /\ \/ mem[e].mode = "resume" /\ Goto(e, "close") /\ UNCHANGED <<lines, tail>>
     \/ \E err \in BOOLEAN : AppendLine(<<"end", "aborted">>, err) /\ Goto(e, "close")
     \/ Goto(e, "run") /\ UNCHANGED <<lines, tail>>
  /\ UNCHANGED <<dir, begun, lockIno, nextIno, linked, marker, lockVars, mem, toolVars>>

-----------------------------------------------------------------------------
(* The execution: the scheduler (module Scheduler) as the journal sees it. *)

InFlight(e) == {s \in Steps : mem[e].task[s] \in {"sent", "boxed"}}

\* The scheduler appends and remembers; nothing else of the store changes.
appendFrame == <<dir, begun, lockIno, nextIno, linked, marker, pc, lockVars, toolVars>>

\* The scheduler's append error is fatal to the run.
Fails(m, err) == [m EXCEPT !.fatal = @ \/ err]

\* pauseGate's probe of the marker
ProbePause(e) ==
  /\ pc[e] = "run" /\ ~mem[e].fatal /\ marker.on /\ ~mem[e].latched
  /\ mem' = [mem EXCEPT ![e].latched = TRUE]
  /\ UNCHANGED <<lines, tail, appendFrame>>

MayDispatch(e, s) ==
  /\ pc[e] = "run" /\ ~mem[e].fatal /\ ~mem[e].latched
  /\ mem[e].owes = NoStep /\ mem[e].task[s] = "todo"

\* RunSeed.Lookup finds an ok record: it is adopted and journaled again
Hit(e, s) ==
  /\ MayDispatch(e, s) /\ s \in mem[e].prior
  /\ \E err \in BOOLEAN :
       /\ AppendLine(<<"ok", s>>, err)
       /\ mem' = [mem EXCEPT ![e] = Fails([@ EXCEPT !.task[s] = "done"], err)]
  /\ UNCHANGED appendFrame

Launch(e, s) ==
  /\ MayDispatch(e, s) /\ s \notin mem[e].prior
  /\ mem' = [mem EXCEPT ![e].task[s] = "sent"]
  /\ UNCHANGED <<lines, tail, appendFrame>>

\* The worker's start record, whose append error is only logged
StartBox(e, s) ==
  /\ pc[e] = "run" /\ mem[e].task[s] = "sent"
  /\ mem' = [mem EXCEPT ![e].task[s] = "boxed"]
  /\ \E err \in BOOLEAN : AppendLine(<<"start", s>>, err)
  /\ UNCHANGED appendFrame

\* settleResult: the result record, then (AppendCost) the cost of a box.  A
\* worker that never started a box settles as failed.
AppendResult(e, s, st) ==
  /\ pc[e] = "run" /\ mem[e].owes = NoStep
  /\ mem[e].task[s] = "boxed" \/ (mem[e].task[s] = "sent" /\ st = "failed")
  /\ \E err \in BOOLEAN :
       /\ AppendLine(<<st, s>>, err)
       /\ mem' = [mem EXCEPT ![e] = Fails([@ EXCEPT
                    !.task[s] = "done",
                    !.owes = IF mem[e].task[s] = "boxed" THEN s ELSE NoStep], err)]
  /\ UNCHANGED appendFrame

AppendCost(e) ==
  /\ pc[e] = "run" /\ mem[e].owes # NoStep
  /\ \E err \in BOOLEAN :
       /\ AppendLine(<<"cost", mem[e].owes>>, err)
       /\ mem' = [mem EXCEPT ![e] = Fails([@ EXCEPT !.owes = NoStep], err)]
  /\ UNCHANGED appendFrame

\* A cancelled context
Cancel(e) ==
  /\ pc[e] = "run" /\ ~mem[e].fatal
  /\ mem' = [mem EXCEPT ![e].fatal = TRUE]
  /\ UNCHANGED <<lines, tail, appendFrame>>

AllSettled(e) == \A s \in Steps : mem[e].task[s] = "done"

EndStatus(e) == IF mem[e].fatal THEN "aborted"
                ELSE IF mem[e].latched /\ ~AllSettled(e) THEN "paused" ELSE "settled"

\* scheduler.run returned; the run-end record is best effort
EndRun(e) ==
  /\ pc[e] = "run" /\ mem[e].owes = NoStep
  /\ AllSettled(e) \/ ((mem[e].latched \/ mem[e].fatal) /\ InFlight(e) = {})
  /\ \E err \in BOOLEAN : AppendLine(<<"end", EndStatus(e)>>, err)
  /\ Goto(e, "close")
  /\ UNCHANGED <<dir, begun, lockIno, nextIno, linked, marker, lockVars, mem, toolVars>>

\* Journal.Close, and with it the lock
Close(e) == pc[e] = "close" /\ Refuse(e)

\* A process dies.  An append it was in may be torn.
Crash(p) ==
  /\ Crashes /\ pc[p] \notin {"new", "gone"}
  /\ Quit(p)
  /\ \/ UNCHANGED tail
     \/ pc[p] \in {"header", "setup", "run"} /\ tail' = TRUE

-----------------------------------------------------------------------------
(* RunLive: the probe really takes the lock for a moment.                  *)

ProbeOpen(p, next, absent) ==
  /\ fd' = [fd EXCEPT ![p] = lockIno]
  /\ Goto(p, IF lockIno = 0 THEN absent ELSE next)
  /\ UNCHANGED held

\* RequestPause's stat of the journal and RunLive's open
PauseStat ==
  /\ Pauser \in Tools /\ pc[Pauser] = "new" /\ linked
  /\ ProbeOpen(Pauser, "probe", "new")
  /\ UNCHANGED <<storeVars, mem, toolVars>>

\* auditRun's open of the journal and RunLive's open, with the flag of this prune
PruneAudit ==
  /\ Pruner \in Tools /\ pc[Pruner] = "new" /\ linked
  /\ ProbeOpen(Pruner, "probe", "read")
  /\ all' \in BOOLEAN
  /\ UNCHANGED <<storeVars, mem, saw, sweep>>

\* The lock was free, and is for the length of the probe the prober's.
ProbeTake(p) ==
  /\ p \in Tools /\ pc[p] = "probe" /\ ~Busy(p)
  /\ held' = [held EXCEPT ![p] = TRUE]
  /\ Goto(p, "drop")
  /\ UNCHANGED <<storeVars, fd, mem, toolVars>>

\* Not live: the pause is refused, the prune goes on to read the journal.
ProbeDrop(p) ==
  /\ p \in Tools /\ pc[p] = "drop"
  /\ Release(p)
  /\ Goto(p, IF p = Pauser THEN "new" ELSE "read")
  /\ UNCHANGED <<dir, begun, nextIno, fileVars, marker, mem, toolVars>>

\* Live: the pause goes on to write the marker, the prune skips the run.
ProbeLive(p) ==
  /\ p \in Tools /\ pc[p] = "probe" /\ Busy(p)
  /\ \/ p = Pruner /\ Refuse(p)
     \/ /\ p = Pauser
        /\ Release(p)
        /\ saw' \in {q \in Procs \ {p} : held[q] /\ fd[q] = fd[p]}
        /\ Goto(p, "write")
        /\ UNCHANGED <<dir, begun, nextIno, fileVars, marker, mem, all, sweep>>

\* RequestPause's WriteFile
WriteMarker ==
  /\ pc[Pauser] = "write"
  /\ marker' = IF ~dir THEN marker
               ELSE [on |-> TRUE, saw |-> saw, under |-> Cleared]
  /\ saw' = NoProc
  /\ Goto(Pauser, "new")
  /\ UNCHANGED <<dir, begun, lockIno, nextIno, fileVars, lockVars, mem, all, sweep>>

-----------------------------------------------------------------------------
(* auditRun's verdict and PruneRuns                                        *)

\* Mutant of Complete: any run-end record will do.
CompleteOnce == \E i \in DOMAIN lines : lines[i][1] = "end"

\* The last terminated line is a run-end record.
Complete == lines # <<>> /\ lines[Len(lines)][1] = "end"

Prunable == \/ all
            \/ Complete /\ lines[Len(lines)] # <<"end", "paused">>

PruneDecide ==
  /\ pc[Pruner] = "read"
  /\ \/ ~Prunable /\ Refuse(Pruner)
     \/ /\ Prunable /\ Goto(Pruner, "open")
        /\ UNCHANGED <<storeVars, lockVars, mem, toolVars>>

\* Mutant of PruneJournal: RemoveAll takes the journal with the rest.
PruneJournalLater ==
  /\ pc[Pruner] = "journal"
  /\ sweep' = {"journal", "lock", "marker"}
  /\ Goto(Pruner, "sweep")
  /\ UNCHANGED <<storeVars, lockVars, mem, saw, all>>

\* The journal dies first, under the lock.
PruneJournal ==
  /\ pc[Pruner] = "journal"
  /\ linked' = FALSE /\ lines' = <<>> /\ tail' = FALSE
  /\ sweep' = {"journal", "lock", "marker"}
  /\ Goto(Pruner, "sweep")
  /\ UNCHANGED <<dir, begun, lockIno, nextIno, marker, lockVars, mem, saw, all>>

\* RemoveAll unlinks the entries in no particular order.
PruneUnlink(x) ==
  /\ pc[Pruner] = "sweep" /\ x \in sweep
  /\ sweep' = sweep \ {x}
  /\ lockIno' = IF x = "lock" THEN 0 ELSE lockIno
  /\ marker' = IF x = "marker" THEN NoMarker ELSE marker
  /\ linked' = (linked /\ x # "journal")
  /\ UNCHANGED <<dir, begun, nextIno, lines, tail, pc, lockVars, mem, saw, all>>

\* Its rmdir fails on an entry that appeared meanwhile; the lock goes last.
PruneRmdir ==
  /\ pc[Pruner] = "sweep" /\ sweep = {}
  /\ dir' = (lockIno # 0 \/ marker.on \/ linked)
  /\ Goto(Pruner, "release")
  /\ UNCHANGED <<begun, lockIno, nextIno, linked, lines, tail, marker, lockVars, mem,
                 toolVars>>

PruneRelease ==
  pc[Pruner] = "release" /\ Refuse(Pruner)

-----------------------------------------------------------------------------
Work(e) ==
  \/ ProbePause(e)
  \/ \E s \in Steps : Hit(e, s) \/ Launch(e, s) \/ StartBox(e, s)
  \/ \E s \in Steps, st \in Verdicts : AppendResult(e, s, st)
  \/ AppendCost(e)
  \/ Cancel(e)
  \/ EndRun(e)

OpenRun(e) ==
  \/ Begin(e)
  \/ Resume(e)
  \/ ClearPause(e)
  \/ CreateJournal(e)
  \/ AppendHeader(e)
  \/ LoadPrior(e)
  \/ RepairRead(e)
  \/ Reopen(e)
  \/ Setup(e)

Prune ==
  \/ PruneAudit
  \/ PruneDecide
  \/ PruneJournal
  \/ \E x \in {"journal", "lock", "marker"} : PruneUnlink(x)
  \/ PruneRmdir
  \/ PruneRelease

Next ==
  \/ \E e \in Execs : OpenRun(e) \/ Work(e) \/ Close(e)
  \/ \E p \in Procs : LockOpen(p) \/ LockTake(p) \/ Crash(p)
  \/ \E p \in {Pauser, Pruner} : ProbeTake(p) \/ ProbeDrop(p) \/ ProbeLive(p)
  \/ PauseStat \/ WriteMarker
  \/ Prune

Spec == Init /\ [][Next]_vars

-----------------------------------------------------------------------------
(* Properties                                                              *)

\* Every variable of the run directory and its processes has its type.
TypeOK ==
  /\ dir \in BOOLEAN /\ begun \in BOOLEAN /\ linked \in BOOLEAN /\ tail \in BOOLEAN
  /\ lockIno \in Nat /\ nextIno \in Nat
  /\ lines \in Seq(Record)
  /\ marker \in [on : BOOLEAN, saw : Procs \cup {NoProc}, under : SUBSET Execs]
  /\ pc \in [Procs -> ExecPCs \cup ToolPCs]
  /\ fd \in [Procs -> Nat] /\ held \in [Procs -> BOOLEAN]
  /\ mem \in [Execs -> Memory]
  /\ saw \in Procs \cup {NoProc} /\ all \in BOOLEAN
  /\ sweep \subseteq {"journal", "lock", "marker"}

\* lock.go: "exclusivity" of a run.  At most one execution gets past the
\* journal's load or creation, however opens, flocks, deaths, probes and a
\* prune's unlink of the lock file interleave.
SingleAppender == \A e, f \in Owners : e = f

\* PruneRuns: a resume that races a prune refuses "instead of losing its
\* journal mid-append".  Whoever means to append has its journal, and no
\* prune is past the point of deleting it.
LiveJournalKept == Owners # {} => linked /\ pc[Pruner] \notin {"journal", "sweep"}

\* journal.go: the file is append-only history.  What was terminated stays, in
\* order, through appends, repairs and resumes, until a prune removes it all.
CommittedKept ==
  [][linked /\ linked' => /\ Len(lines') >= Len(lines)
                          /\ SubSeq(lines', 1, Len(lines)) = lines]_vars

\* Resume's promise: once a step's ok is durable it is adopted, never run
\* again and never superseded, by this execution or any later one.
OkIsFinal ==
  \A s \in Steps : \A i, j \in DOMAIN lines :
    i < j /\ lines[i] = <<"ok", s>> => lines[j] \notin {<<"start", s>>, <<"failed", s>>}

\* s has a result, and one after each of its starts.
Answered(s) ==
  /\ ResultsOf(s) # {}
  /\ \A i \in DOMAIN lines :
       lines[i] = <<"start", s>> => \E j \in ResultsOf(s) : j > i

\* auditRun: Complete is the upgrade guard's and prune's word that nothing is
\* unfinished, also after a resume appended past an earlier run-end record.
\* Unless the run ended paused or aborted, every step has the result of the last
\* box started for it.
AuditHonest ==
  linked /\ Complete =>
    \/ lines[Len(lines)] \in {<<"end", "paused">>, <<"end", "aborted">>}
    \/ \A s \in Steps : Answered(s)

\* Load and repairTornTail: what crashes leave behind is never mistaken for
\* corruption.  A journal that got its header can be replayed.
Replayable == linked /\ lines # <<>> => Loads

\* ClearPause: a marker "written while the run was down cannot re-pause the new
\* execution".  The marker an execution can find was written after it cleared.
PauseIsCurrent == marker.on => Owners \subseteq marker.under

\* A refused resume, or a prune, never removes the pause request of the
\* execution that is running.
LivePauseKept ==
  [][\A e \in Owners : marker.on /\ ~marker'.on => e \notin Owners']_vars

\* The journal as its readers see it: who writes it, what it holds, which steps the
\* writer is through with.
Log == INSTANCE RunLog WITH
  Opener <- Execs, Step <- Steps,
  there <- linked, log <- IF linked THEN lines ELSE <<>>, writer <- Owners,
  through <- {s \in Steps : \E e \in Owners : mem[e].task[s] = "done"},
  closing <- \E e \in Execs : pc[e] = "close"

\* journal.go, lock.go, resume.go: whatever the interleavings, deaths and failed
\* appends, the journal is a log with one writer at a time, in which nothing is taken
\* back, no box starts after a success, a run-end record is its writer's last, and
\* "settled" is only said when every step is answered.
KeepsLog == Log!Spec

-----------------------------------------------------------------------------
(* What comments of the code say and the code does not keep                *)

\* pause.go: the request "survives races and process boundaries".  A request
\* that found an execution holding the lock is there until it lets go.
PauseSurvives ==
  [][\A e \in Execs : held[e] /\ held'[e] /\ marker.on /\ marker.saw = e
       => marker'.on]_vars

\* PruneRuns: "Default policy keeps paused runs".
PausedKept ==
  [][linked /\ ~linked' /\ ~all => lines[Len(lines)] # <<"end", "paused">>]_vars

\* Replay.End: "nil when the last execution of this run never finished".
EndMeansEnded ==
  Owners = {} /\ Loads /\ (\E i \in DOMAIN lines : lines[i][1] = "end") => Complete
=============================================================================
