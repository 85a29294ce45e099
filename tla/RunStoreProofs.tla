--------------------------- MODULE RunStoreProofs ---------------------------
(***************************************************************************)
(* The run directory's safety properties, proved for every number of       *)
(* executions and steps.                                                   *)
(*                                                                         *)
(* The argument: whoever is at the lock is at the inode run.lock names, as *)
(* long as there is a journal, because the lock file is only unlinked once *)
(* the journal is gone, and the journal is only created before any prune   *)
(* could have seen it.                                                     *)
(***************************************************************************)
EXTENDS RunStore, NaturalsInduction, WellFoundedInduction, TLAPS

LockedPCs == {"clear", "create", "load", "header", "repair", "reopen", "setup", "run", "close"}
OwnerPCs  == {"header", "repair", "reopen", "setup", "run", "close"}

\* TypeOK in three parts: the processes' memories, the journal's lines, the rest.
MemTyped   == mem \in [Execs -> Memory]
LinesTyped == lines \in Seq(Record)
RestTyped  ==
  /\ dir \in BOOLEAN /\ begun \in BOOLEAN /\ linked \in BOOLEAN /\ tail \in BOOLEAN
  /\ lockIno \in Nat /\ nextIno \in Nat \ {0}
  /\ marker \in [on : BOOLEAN, saw : Procs \cup {NoProc}, under : SUBSET Execs]
  /\ pc \in [Procs -> ExecPCs \cup ToolPCs]
  /\ fd \in [Procs -> Nat] /\ held \in [Procs -> BOOLEAN]
  /\ saw \in Procs \cup {NoProc} /\ all \in BOOLEAN
  /\ sweep \subseteq {"journal", "lock", "marker"}

\* Which positions the processes can be in.
Positioned ==
  /\ pc \in [Procs -> ExecPCs \cup ToolPCs]
  /\ \A e \in Execs : pc[e] \in ExecPCs
  /\ pc[Pauser] \in {"new", "probe", "drop", "write"}
  /\ pc[Pruner] \in {"new", "probe", "drop", "read", "open", "take", "journal", "sweep",
                     "release"}

Typed == MemTyped /\ LinesTyped /\ RestTyped /\ Positioned

\* A flock has one holder, and who holds one is known by its position.
Flocked ==
  /\ \A p, q \in Procs : held[p] /\ held[q] /\ fd[p] = fd[q] => p = q
  /\ \A e \in Execs : held[e] <=> pc[e] \in LockedPCs
  /\ held[Pauser] <=> pc[Pauser] = "drop"
  /\ held[Pruner] <=> pc[Pruner] \in {"drop", "journal", "sweep", "release"}

\* The run is being begun: its journal is still to be created.
Beginning(e) == mem[e].mode = "begin" /\ pc[e] \in {"open", "take", "clear", "create"}

AtLock(p) == pc[p] \in LockedPCs \cup {"take", "journal"}

\* While there is a journal, or one is to be created, run.lock is not unlinked.
SameInode ==
  linked \/ (\E e \in Execs : Beginning(e)) =>
    \A p \in Procs : AtLock(p) => fd[p] = lockIno /\ lockIno # 0

\* A run begins once, and no prune sees it before it has a journal.
BeginsOnce ==
  /\ ~begun => ~linked /\ pc[Pruner] = "new" /\ \A e \in Execs : pc[e] = "new"
  /\ \A e \in Execs : Beginning(e) => ~linked /\ pc[Pruner] = "new"
  /\ \A e, f \in Execs : Beginning(e) /\ Beginning(f) => e = f
  /\ \A e \in Execs : pc[e] = "create" => mem[e].mode = "begin"

\* Who appends has a journal, and a prune that sweeps has removed it.
Journaled ==
  /\ \A e \in Execs : pc[e] \in OwnerPCs => linked
  /\ pc[Pruner] = "sweep" => ~linked

\* What repairTornTail read is still so when it truncates.
RepairKnows ==
  \A e \in Execs : pc[e] = "reopen" =>
    mem[e].keep = (IF tail THEN Len(lines) ELSE -1)

\* Markers older than an execution's ClearPause are gone.
Fresh == marker.on => Cleared \subseteq marker.under

IInv == Typed /\ Flocked /\ SameInode /\ BeginsOnce /\ Journaled /\ RepairKnows /\ Fresh

\* A process that goes, by itself or by a crash, leaves typed memories.
LEMMA QuitMem == ASSUME MemTyped, NEW p \in Procs, Quit(p) PROVE MemTyped'
BY ProcAssumption DEF MemTyped, Memory, Blank, Procs, Quit, Refuse, Goto, Release

\* Recording a failed append changes neither how the run was opened nor the repair.
LEMMA FailsTyped ==
  ASSUME NEW m \in Memory, NEW err \in BOOLEAN
  PROVE  /\ Fails(m, err) \in Memory
         /\ Fails(m, err).mode = m.mode /\ Fails(m, err).keep = m.keep
BY DEF Fails, Memory

\* Writing one process's memory leaves the memories typed.
LEMMA MemSet ==
  ASSUME MemTyped, NEW e \in Execs, NEW r \in Memory, mem' = [mem EXCEPT ![e] = r]
  PROVE  MemTyped'
BY DEF MemTyped

\* Every step leaves the memories typed.
LEMMA MemStep == MemTyped /\ LinesTyped /\ Next => MemTyped'
<1> SUFFICES ASSUME MemTyped, LinesTyped, Next PROVE MemTyped'
  OBVIOUS
<1>1. ASSUME NEW e \in Execs, Begin(e) PROVE MemTyped'
  BY <1>1 DEF Begin, MemTyped, Memory, Goto, fileVars, lockVars, toolVars
<1>2. ASSUME NEW e \in Execs, Resume(e) PROVE MemTyped'
  BY <1>2 DEF Resume, MemTyped, Memory, Goto, storeVars, lockVars, toolVars
<1>3. ASSUME NEW e \in Execs, ClearPause(e) PROVE MemTyped'
  BY <1>3 DEF ClearPause, MemTyped, Memory, Goto, fileVars, lockVars, toolVars
<1>4. ASSUME NEW e \in Execs, CreateJournal(e) PROVE MemTyped'
  BY <1>4, QuitMem DEF CreateJournal, Refuse, Procs, MemTyped, Goto, lockVars, toolVars
<1>5. ASSUME NEW e \in Execs, AppendHeader(e) PROVE MemTyped'
  BY <1>5 DEF AppendHeader, MemTyped, Memory, Goto, lockVars, toolVars
<1>6. ASSUME NEW e \in Execs, LoadPrior(e) PROVE MemTyped'
  <2>1. CASE Refuse(e)
    BY <2>1, QuitMem DEF Refuse, Procs
  <2>2. CASE mem' = [mem EXCEPT ![e].prior = OkKeys]
    <3>1. OkKeys \in SUBSET Steps
      BY DEF OkKeys
    <3>2. [mem[e] EXCEPT !.prior = OkKeys] \in Memory
      BY <3>1 DEF MemTyped, Memory
    <3> QED
      BY <2>2, <3>2, MemSet
  <2> QED
    BY <1>6, <2>1, <2>2 DEF LoadPrior
<1>7. ASSUME NEW e \in Execs, RepairRead(e) PROVE MemTyped'
  <2>1. CASE Refuse(e)
    BY <2>1, QuitMem DEF Refuse, Procs
  <2>2. CASE mem' = [mem EXCEPT ![e].keep = IF tail THEN Len(lines) ELSE -1]
    <3>1. (IF tail THEN Len(lines) ELSE -1) \in Int
      BY DEF LinesTyped
    <3>2. [mem[e] EXCEPT !.keep = IF tail THEN Len(lines) ELSE -1] \in Memory
      BY <3>1 DEF MemTyped, Memory
    <3> QED
      BY <2>2, <3>2, MemSet
  <2> QED
    BY <1>7, <2>1, <2>2 DEF RepairRead
<1>8. ASSUME NEW e \in Execs, Reopen(e) PROVE MemTyped'
  BY <1>8 DEF Reopen, MemTyped, Memory, Goto, lockVars, toolVars
<1>9. ASSUME NEW e \in Execs, Setup(e) PROVE MemTyped'
  BY <1>9 DEF Setup, MemTyped, Memory, Goto, lockVars, toolVars
<1>10. ASSUME NEW e \in Execs, ProbePause(e) PROVE MemTyped'
  <2>1. [mem[e] EXCEPT !.latched = TRUE] \in Memory
    BY DEF MemTyped, Memory
  <2> QED
    BY <1>10, <2>1, MemSet DEF ProbePause
<1>11. ASSUME NEW e \in Execs, NEW s \in Steps, Hit(e, s) PROVE MemTyped'
  <2>0. [mem[e] EXCEPT !.task[s] = "done"] \in Memory
    BY DEF MemTyped, Memory
  <2>1. PICK err \in BOOLEAN : mem' = [mem EXCEPT ![e] = Fails([mem[e] EXCEPT !.task[s] = "done"], err)]
    BY <1>11 DEF Hit
  <2>2. Fails([mem[e] EXCEPT !.task[s] = "done"], err) \in Memory
    BY <2>0, FailsTyped
  <2> QED
    BY <2>1, <2>2, MemSet
<1>12. ASSUME NEW e \in Execs, NEW s \in Steps, Launch(e, s) PROVE MemTyped'
  <2>1. mem' = [mem EXCEPT ![e].task[s] = "sent"]
    BY <1>12 DEF Launch
  <2>2. [mem[e] EXCEPT !.task[s] = "sent"] \in Memory
    BY DEF MemTyped, Memory
  <2> QED
    BY <2>1, <2>2, MemSet
<1>13. ASSUME NEW e \in Execs, NEW s \in Steps, StartBox(e, s) PROVE MemTyped'
  <2>1. [mem[e] EXCEPT !.task[s] = "boxed"] \in Memory
    BY DEF MemTyped, Memory
  <2> QED
    BY <1>13, <2>1, MemSet DEF StartBox
<1>14. ASSUME NEW e \in Execs, NEW s \in Steps, NEW st \in Verdicts, AppendResult(e, s, st) PROVE MemTyped'
  <2>0. [mem[e] EXCEPT !.task[s] = "done", !.owes = IF mem[e].task[s] = "boxed" THEN s ELSE NoStep] \in Memory
    BY DEF MemTyped, Memory
  <2>1. PICK err \in BOOLEAN : mem' = [mem EXCEPT ![e] = Fails([mem[e] EXCEPT !.task[s] = "done", !.owes = IF mem[e].task[s] = "boxed" THEN s ELSE NoStep], err)]
    BY <1>14 DEF AppendResult
  <2>2. Fails([mem[e] EXCEPT !.task[s] = "done", !.owes = IF mem[e].task[s] = "boxed" THEN s ELSE NoStep], err) \in Memory
    BY <2>0, FailsTyped
  <2> QED
    BY <2>1, <2>2, MemSet
<1>15. ASSUME NEW e \in Execs, AppendCost(e) PROVE MemTyped'
  <2>0. [mem[e] EXCEPT !.owes = NoStep] \in Memory
    BY DEF MemTyped, Memory
  <2>1. PICK err \in BOOLEAN : mem' = [mem EXCEPT ![e] = Fails([mem[e] EXCEPT !.owes = NoStep], err)]
    BY <1>15 DEF AppendCost
  <2>2. Fails([mem[e] EXCEPT !.owes = NoStep], err) \in Memory
    BY <2>0, FailsTyped
  <2> QED
    BY <2>1, <2>2, MemSet
<1>16. ASSUME NEW e \in Execs, Cancel(e) PROVE MemTyped'
  BY <1>16 DEF Cancel, MemTyped, Memory, lockVars, toolVars, appendFrame
<1>17. ASSUME NEW e \in Execs, EndRun(e) PROVE MemTyped'
  BY <1>17 DEF EndRun, MemTyped, Memory, Goto, lockVars, toolVars
<1>18. ASSUME NEW e \in Execs, Close(e) PROVE MemTyped'
  BY <1>18, QuitMem DEF Close, Refuse, Procs, MemTyped
<1>19. ASSUME NEW p \in Procs, LockOpen(p) PROVE MemTyped'
  BY <1>19, QuitMem DEF LockOpen, Refuse, Procs, MemTyped, Goto, fileVars, toolVars
<1>20. ASSUME NEW p \in Procs, LockTake(p) PROVE MemTyped'
  BY <1>20, QuitMem DEF LockTake, Refuse, Procs, MemTyped, Goto, storeVars, toolVars
<1>21. ASSUME NEW p \in Procs, Crash(p) PROVE MemTyped'
  BY <1>21, QuitMem DEF Crash, Procs, MemTyped
<1>22. ASSUME NEW p \in {Pauser, Pruner}, ProbeTake(p) PROVE MemTyped'
  BY <1>22 DEF ProbeTake, MemTyped, Memory, Goto, storeVars, toolVars
<1>23. ASSUME NEW p \in {Pauser, Pruner}, ProbeDrop(p) PROVE MemTyped'
  BY <1>23 DEF ProbeDrop, MemTyped, Memory, Goto, Release, fileVars, toolVars
<1>24. ASSUME NEW p \in {Pauser, Pruner}, ProbeLive(p) PROVE MemTyped'
  BY <1>24, QuitMem DEF ProbeLive, Refuse, Procs, MemTyped, Goto, Release, fileVars
<1>25. ASSUME PauseStat PROVE MemTyped'
  BY <1>25 DEF PauseStat, MemTyped, Memory, Goto, storeVars, toolVars, ProbeOpen
<1>26. ASSUME WriteMarker PROVE MemTyped'
  BY <1>26 DEF WriteMarker, MemTyped, Memory, Goto, fileVars, lockVars
<1>27. ASSUME PruneAudit PROVE MemTyped'
  BY <1>27 DEF PruneAudit, MemTyped, Memory, Goto, storeVars, ProbeOpen
<1>28. ASSUME PruneDecide PROVE MemTyped'
  BY <1>28, QuitMem DEF PruneDecide, Refuse, Procs, MemTyped, Goto, storeVars, lockVars,
     toolVars
<1>29. ASSUME PruneJournal PROVE MemTyped'
  BY <1>29 DEF PruneJournal, MemTyped, Memory, Goto, lockVars
<1>30. ASSUME NEW x \in {"journal", "lock", "marker"}, PruneUnlink(x) PROVE MemTyped'
  BY <1>30 DEF PruneUnlink, MemTyped, Memory, lockVars
<1>31. ASSUME PruneRmdir PROVE MemTyped'
  BY <1>31 DEF PruneRmdir, MemTyped, Memory, Goto, lockVars, toolVars
<1>32. ASSUME PruneRelease PROVE MemTyped'
  BY <1>32, QuitMem DEF PruneRelease, Refuse, Procs, MemTyped
<1> QED
  BY <1>1, <1>2, <1>3, <1>4, <1>5, <1>6, <1>7, <1>8, <1>9, <1>10, <1>11, <1>12, <1>13,
     <1>14, <1>15, <1>16, <1>17, <1>18, <1>19, <1>20, <1>21, <1>22, <1>23, <1>24, <1>25,
     <1>26, <1>27, <1>28, <1>29, <1>30, <1>31, <1>32 DEF Next, OpenRun, Work, Prune

\* An append, whole or torn, adds a record.
LEMMA LineTyped ==
  ASSUME LinesTyped, NEW r \in Record, NEW err, AppendLine(r, err)
  PROVE  LinesTyped'
<1>1. <<"bad">> \in Record
  BY DEF Record
<1> QED
  BY <1>1 DEF LinesTyped, AppendLine, Wrote

\* Truncating at what repairTornTail found cuts no line.
LEMMA ReopenKeeps ==
  ASSUME LinesTyped, RepairKnows, NEW e \in Execs, Reopen(e)
  PROVE  (lines' = <<>> /\ ~linked) \/ lines' = lines
<1>1. mem[e].keep = (IF tail THEN Len(lines) ELSE -1)
  BY DEF Reopen, RepairKnows
<1>2. SubSeq(lines, 1, Len(lines)) = lines
  BY DEF LinesTyped
<1> QED
  BY <1>1, <1>2 DEF Reopen, LinesTyped

\* Every step leaves the journal a sequence of records; the truncation of
\* repairTornTail keeps a prefix of it.
LEMMA LinesStep == MemTyped /\ LinesTyped /\ RepairKnows /\ Next => LinesTyped'
<1> SUFFICES ASSUME MemTyped, LinesTyped, RepairKnows, Next PROVE LinesTyped'
  OBVIOUS
<1>1. ASSUME NEW e \in Execs, Begin(e) PROVE LinesTyped'
  BY <1>1 DEF Begin, LinesTyped, Goto, fileVars, lockVars, toolVars
<1>2. ASSUME NEW e \in Execs, Resume(e) PROVE LinesTyped'
  BY <1>2 DEF Resume, LinesTyped, Goto, storeVars, lockVars, toolVars
<1>3. ASSUME NEW e \in Execs, ClearPause(e) PROVE LinesTyped'
  BY <1>3 DEF ClearPause, LinesTyped, Goto, fileVars, lockVars, toolVars
<1>4. ASSUME NEW e \in Execs, CreateJournal(e) PROVE LinesTyped'
  <2>1. lines' = lines \/ lines' = <<>>
    BY <1>4 DEF CreateJournal, Refuse, Quit
  <2>2. <<>> \in Seq(Record)
    OBVIOUS
  <2> QED
    BY <2>1, <2>2 DEF LinesTyped
<1>5. ASSUME NEW e \in Execs, AppendHeader(e) PROVE LinesTyped'
  <2>1. <<"header">> \in Record
    BY <1>5 DEF Record
  <2> QED
    BY <1>5, <2>1, LineTyped DEF AppendHeader, LinesTyped
<1>6. ASSUME NEW e \in Execs, LoadPrior(e) PROVE LinesTyped'
  BY <1>6, QuitMem DEF LoadPrior, Refuse, Procs, LinesTyped, Quit, Goto, Release,
     storeVars, lockVars, toolVars
<1>7. ASSUME NEW e \in Execs, RepairRead(e) PROVE LinesTyped'
  BY <1>7, QuitMem DEF RepairRead, Refuse, Procs, LinesTyped, Quit, Goto, Release,
     storeVars, lockVars, toolVars
<1>8. ASSUME NEW e \in Execs, Reopen(e) PROVE LinesTyped'
  <2>1. lines' = lines \/ lines' = <<>>
    BY <1>8, ReopenKeeps
  <2>2. <<>> \in Seq(Record)
    OBVIOUS
  <2> QED
    BY <2>1, <2>2 DEF LinesTyped
<1>9. ASSUME NEW e \in Execs, Setup(e) PROVE LinesTyped'
  <2>1. <<"end", "aborted">> \in Record
    BY <1>9 DEF Record, Statuses
  <2> QED
    BY <1>9, <2>1, LineTyped DEF Setup, LinesTyped
<1>10. ASSUME NEW e \in Execs, ProbePause(e) PROVE LinesTyped'
  BY <1>10 DEF ProbePause, LinesTyped, lockVars, toolVars, appendFrame
<1>11. ASSUME NEW e \in Execs, NEW s \in Steps, Hit(e, s) PROVE LinesTyped'
  <2>1. <<"ok", s>> \in Record
    BY <1>11 DEF Record
  <2> QED
    BY <1>11, <2>1, LineTyped DEF Hit, MayDispatch, LinesTyped
<1>12. ASSUME NEW e \in Execs, NEW s \in Steps, Launch(e, s) PROVE LinesTyped'
  BY <1>12 DEF Launch, MayDispatch, LinesTyped, lockVars, toolVars, appendFrame
<1>13. ASSUME NEW e \in Execs, NEW s \in Steps, StartBox(e, s) PROVE LinesTyped'
  <2>1. <<"start", s>> \in Record
    BY <1>13 DEF Record
  <2> QED
    BY <1>13, <2>1, LineTyped DEF StartBox, LinesTyped
<1>14. ASSUME NEW e \in Execs, NEW s \in Steps, NEW st \in Verdicts, AppendResult(e, s, st) PROVE LinesTyped'
  <2>1. <<st, s>> \in Record
    BY <1>14, VerdictAssumption DEF Record
  <2> QED
    BY <1>14, <2>1, LineTyped DEF AppendResult, LinesTyped
<1>15. ASSUME NEW e \in Execs, AppendCost(e) PROVE LinesTyped'
  <2>0. mem[e].owes \in Steps
    BY <1>15 DEF AppendCost, MemTyped, Memory
  <2>1. <<"cost", mem[e].owes>> \in Record
    BY <1>15, <2>0 DEF Record
  <2> QED
    BY <1>15, <2>1, LineTyped DEF AppendCost, LinesTyped
<1>16. ASSUME NEW e \in Execs, Cancel(e) PROVE LinesTyped'
  BY <1>16 DEF Cancel, LinesTyped, lockVars, toolVars, appendFrame
<1>17. ASSUME NEW e \in Execs, EndRun(e) PROVE LinesTyped'
  <2>1. <<"end", EndStatus(e)>> \in Record
    BY <1>17 DEF Record, EndStatus, Statuses
  <2> QED
    BY <1>17, <2>1, LineTyped DEF EndRun, LinesTyped
<1>18. ASSUME NEW e \in Execs, Close(e) PROVE LinesTyped'
  BY <1>18, QuitMem DEF Close, Refuse, Procs, LinesTyped, Quit, Goto, Release
<1>19. ASSUME NEW p \in Procs, LockOpen(p) PROVE LinesTyped'
  BY <1>19, QuitMem DEF LockOpen, Refuse, Procs, LinesTyped, Quit, Goto, Release, fileVars,
     toolVars
<1>20. ASSUME NEW p \in Procs, LockTake(p) PROVE LinesTyped'
  BY <1>20, QuitMem DEF LockTake, Refuse, Procs, LinesTyped, Quit, Goto, Release,
     storeVars, toolVars
<1>21. ASSUME NEW p \in Procs, Crash(p) PROVE LinesTyped'
  BY <1>21, QuitMem DEF Crash, Procs, LinesTyped, Quit, Goto, Release
<1>22. ASSUME NEW p \in {Pauser, Pruner}, ProbeTake(p) PROVE LinesTyped'
  BY <1>22 DEF ProbeTake, LinesTyped, Goto, storeVars, toolVars
<1>23. ASSUME NEW p \in {Pauser, Pruner}, ProbeDrop(p) PROVE LinesTyped'
  BY <1>23 DEF ProbeDrop, LinesTyped, Goto, Release, fileVars, toolVars
<1>24. ASSUME NEW p \in {Pauser, Pruner}, ProbeLive(p) PROVE LinesTyped'
  BY <1>24, QuitMem DEF ProbeLive, Refuse, Procs, LinesTyped, Quit, Goto, Release, fileVars
<1>25. ASSUME PauseStat PROVE LinesTyped'
  BY <1>25 DEF PauseStat, LinesTyped, Goto, storeVars, toolVars, ProbeOpen
<1>26. ASSUME WriteMarker PROVE LinesTyped'
  BY <1>26 DEF WriteMarker, LinesTyped, Goto, fileVars, lockVars
<1>27. ASSUME PruneAudit PROVE LinesTyped'
  BY <1>27 DEF PruneAudit, LinesTyped, Goto, storeVars, ProbeOpen
<1>28. ASSUME PruneDecide PROVE LinesTyped'
  BY <1>28, QuitMem DEF PruneDecide, Refuse, Procs, LinesTyped, Quit, Goto, Release,
     storeVars, lockVars, toolVars
<1>29. ASSUME PruneJournal PROVE LinesTyped'
  BY <1>29 DEF PruneJournal, LinesTyped, Goto, lockVars
<1>30. ASSUME NEW x \in {"journal", "lock", "marker"}, PruneUnlink(x) PROVE LinesTyped'
  BY <1>30 DEF PruneUnlink, LinesTyped, lockVars
<1>31. ASSUME PruneRmdir PROVE LinesTyped'
  BY <1>31 DEF PruneRmdir, LinesTyped, Goto, lockVars, toolVars
<1>32. ASSUME PruneRelease PROVE LinesTyped'
  BY <1>32, QuitMem DEF PruneRelease, Refuse, Procs, LinesTyped, Quit, Goto, Release
<1> QED
  BY <1>1, <1>2, <1>3, <1>4, <1>5, <1>6, <1>7, <1>8, <1>9, <1>10, <1>11, <1>12, <1>13,
     <1>14, <1>15, <1>16, <1>17, <1>18, <1>19, <1>20, <1>21, <1>22, <1>23, <1>24, <1>25,
     <1>26, <1>27, <1>28, <1>29, <1>30, <1>31, <1>32 DEF Next, OpenRun, Work, Prune

\* A refused or ended process leaves the other variables typed.
LEMMA QuitRest == ASSUME RestTyped, NEW p \in Procs, Refuse(p) PROVE RestTyped'
BY ProcAssumption DEF RestTyped, Procs, ExecPCs, ToolPCs, Quit, Refuse, Goto, Release

\* Every step leaves the other variables typed.
LEMMA RestStep == RestTyped /\ Next => RestTyped'
<1> SUFFICES ASSUME RestTyped, Next PROVE RestTyped'
  OBVIOUS
<1>1. ASSUME NEW e \in Execs, Begin(e) PROVE RestTyped'
  BY <1>1, ProcAssumption DEF Begin, RestTyped, Procs, ExecPCs, ToolPCs, NoMarker, Cleared,
     AppendLine, Wrote, Goto, fileVars, lockVars, toolVars
<1>2. ASSUME NEW e \in Execs, Resume(e) PROVE RestTyped'
  BY <1>2, ProcAssumption DEF Resume, RestTyped, Procs, ExecPCs, ToolPCs, NoMarker,
     Cleared, AppendLine, Wrote, Goto, storeVars, lockVars, toolVars
<1>3. ASSUME NEW e \in Execs, ClearPause(e) PROVE RestTyped'
  BY <1>3, ProcAssumption DEF ClearPause, RestTyped, Procs, ExecPCs, ToolPCs, NoMarker,
     Cleared, AppendLine, Wrote, Goto, fileVars, lockVars, toolVars
<1>4. ASSUME NEW e \in Execs, CreateJournal(e) PROVE RestTyped'
  BY <1>4, QuitRest, ProcAssumption DEF CreateJournal, Refuse, Procs, RestTyped, ExecPCs,
     ToolPCs, NoMarker, Cleared, AppendLine, Wrote, Goto, lockVars, toolVars
<1>5. ASSUME NEW e \in Execs, AppendHeader(e) PROVE RestTyped'
  <2>1. tail' \in BOOLEAN
    BY <1>5 DEF AppendHeader, AppendLine, Wrote, RestTyped
  <2> QED
    BY <1>5, <2>1 DEF AppendHeader, RestTyped, Procs, ExecPCs, ToolPCs, Goto, lockVars,
       toolVars
<1>6. ASSUME NEW e \in Execs, LoadPrior(e) PROVE RestTyped'
  BY <1>6, QuitRest, ProcAssumption DEF LoadPrior, Refuse, Procs, RestTyped, ExecPCs,
     ToolPCs, NoMarker, Cleared, AppendLine, Wrote, Goto, storeVars, lockVars, toolVars
<1>7. ASSUME NEW e \in Execs, RepairRead(e) PROVE RestTyped'
  BY <1>7, QuitRest, ProcAssumption DEF RepairRead, Refuse, Procs, RestTyped, ExecPCs,
     ToolPCs, NoMarker, Cleared, AppendLine, Wrote, Goto, storeVars, lockVars, toolVars
<1>8. ASSUME NEW e \in Execs, Reopen(e) PROVE RestTyped'
  BY <1>8, ProcAssumption DEF Reopen, RestTyped, Procs, ExecPCs, ToolPCs, NoMarker,
     Cleared, AppendLine, Wrote, Goto, lockVars, toolVars
<1>9. ASSUME NEW e \in Execs, Setup(e) PROVE RestTyped'
  <2>1. tail' \in BOOLEAN
    BY <1>9 DEF Setup, AppendLine, Wrote, RestTyped
  <2>2. Goto(e, "close") \/ Goto(e, "run")
    BY <1>9 DEF Setup
  <2> QED
    BY <1>9, <2>1, <2>2 DEF Setup, RestTyped, Procs, ExecPCs, ToolPCs, Goto, lockVars,
       toolVars
<1>10. ASSUME NEW e \in Execs, ProbePause(e) PROVE RestTyped'
  BY <1>10, ProcAssumption DEF ProbePause, RestTyped, Procs, ExecPCs, ToolPCs, NoMarker,
     Cleared, AppendLine, Wrote, lockVars, toolVars, appendFrame
<1>11. ASSUME NEW e \in Execs, NEW s \in Steps, Hit(e, s) PROVE RestTyped'
  BY <1>11, ProcAssumption DEF Hit, MayDispatch, RestTyped, Procs, ExecPCs, ToolPCs,
     NoMarker, Cleared, AppendLine, Wrote, lockVars, toolVars, appendFrame
<1>12. ASSUME NEW e \in Execs, NEW s \in Steps, Launch(e, s) PROVE RestTyped'
  BY <1>12, ProcAssumption DEF Launch, MayDispatch, RestTyped, Procs, ExecPCs, ToolPCs,
     NoMarker, Cleared, AppendLine, Wrote, lockVars, toolVars, appendFrame
<1>13. ASSUME NEW e \in Execs, NEW s \in Steps, StartBox(e, s) PROVE RestTyped'
  BY <1>13, ProcAssumption DEF StartBox, RestTyped, Procs, ExecPCs, ToolPCs, NoMarker,
     Cleared, AppendLine, Wrote, lockVars, toolVars, appendFrame
<1>14. ASSUME NEW e \in Execs, NEW s \in Steps, NEW st \in Verdicts, AppendResult(e, s, st) PROVE RestTyped'
  BY <1>14, ProcAssumption DEF AppendResult, RestTyped, Procs, ExecPCs, ToolPCs, NoMarker,
     Cleared, AppendLine, Wrote, lockVars, toolVars, appendFrame
<1>15. ASSUME NEW e \in Execs, AppendCost(e) PROVE RestTyped'
  BY <1>15, ProcAssumption DEF AppendCost, RestTyped, Procs, ExecPCs, ToolPCs, NoMarker,
     Cleared, AppendLine, Wrote, lockVars, toolVars, appendFrame
<1>16. ASSUME NEW e \in Execs, Cancel(e) PROVE RestTyped'
  BY <1>16, ProcAssumption DEF Cancel, RestTyped, Procs, ExecPCs, ToolPCs, NoMarker,
     Cleared, AppendLine, Wrote, lockVars, toolVars, appendFrame
<1>17. ASSUME NEW e \in Execs, EndRun(e) PROVE RestTyped'
  BY <1>17, ProcAssumption DEF EndRun, RestTyped, Procs, ExecPCs, ToolPCs, NoMarker,
     Cleared, AppendLine, Wrote, Goto, lockVars, toolVars
<1>18. ASSUME NEW e \in Execs, Close(e) PROVE RestTyped'
  BY <1>18, ProcAssumption DEF Close, RestTyped, Procs, ExecPCs, ToolPCs, NoMarker,
     Cleared, AppendLine, Wrote, Goto, Release, Quit, Refuse
<1>19. ASSUME NEW p \in Procs, LockOpen(p) PROVE RestTyped'
  <2>1. CASE Refuse(p)
    BY <2>1, QuitRest
  <2>2. CASE ~Refuse(p)
    <3>1. lockIno' \in Nat /\ nextIno' \in Nat \ {0}
      BY <1>19, <2>2 DEF LockOpen, RestTyped
    <3>2. fd' \in [Procs -> Nat]
      BY <1>19, <2>2, <3>1 DEF LockOpen, RestTyped
    <3> QED
      BY <1>19, <2>2, <3>1, <3>2 DEF LockOpen, Goto, RestTyped, ExecPCs, ToolPCs, fileVars,
         toolVars
  <2> QED
    BY <2>1, <2>2
<1>20. ASSUME NEW p \in Procs, LockTake(p) PROVE RestTyped'
  <2>1. CASE Refuse(p)
    BY <2>1, QuitRest DEF Procs
  <2>2. CASE ~Refuse(p)
    BY <1>20, <2>2 DEF LockTake, Goto, RestTyped, Procs, ExecPCs, ToolPCs, storeVars,
       toolVars
  <2> QED
    BY <2>1, <2>2
<1>21. ASSUME NEW p \in Procs, Crash(p) PROVE RestTyped'
  BY <1>21, ProcAssumption DEF Crash, RestTyped, Procs, ExecPCs, ToolPCs, NoMarker,
     Cleared, AppendLine, Wrote, Goto, Release, Quit
<1>22. ASSUME NEW p \in {Pauser, Pruner}, ProbeTake(p) PROVE RestTyped'
  BY <1>22, ProcAssumption DEF ProbeTake, RestTyped, Procs, ExecPCs, ToolPCs, NoMarker,
     Cleared, AppendLine, Wrote, Goto, storeVars, toolVars
<1>23. ASSUME NEW p \in {Pauser, Pruner}, ProbeDrop(p) PROVE RestTyped'
  BY <1>23, ProcAssumption DEF ProbeDrop, RestTyped, Procs, ExecPCs, ToolPCs, NoMarker,
     Cleared, AppendLine, Wrote, Goto, Release, fileVars, toolVars
<1>24. ASSUME NEW p \in {Pauser, Pruner}, ProbeLive(p) PROVE RestTyped'
  <2>1. CASE Refuse(p)
    BY <2>1, QuitRest DEF Procs
  <2>2. CASE ~Refuse(p)
    <3>1. saw' \in Procs
      BY <1>24, <2>2 DEF ProbeLive
    <3>2. p \in Procs /\ Goto(p, "write") /\ Release(p)
      BY <1>24, <2>2 DEF ProbeLive, Procs
    <3>3. UNCHANGED <<dir, begun, nextIno, fileVars, marker, all, sweep>>
      BY <1>24, <2>2 DEF ProbeLive
    <3> QED
      BY <3>1, <3>2, <3>3 DEF Goto, Release, RestTyped, ToolPCs, fileVars
  <2> QED
    BY <2>1, <2>2
<1>25. ASSUME PauseStat PROVE RestTyped'
  BY <1>25, ProcAssumption DEF PauseStat, RestTyped, Procs, ExecPCs, ToolPCs, NoMarker,
     Cleared, AppendLine, Wrote, Goto, storeVars, toolVars, ProbeOpen
<1>26. ASSUME WriteMarker PROVE RestTyped'
  BY <1>26, ProcAssumption DEF WriteMarker, RestTyped, Procs, ExecPCs, ToolPCs, NoMarker,
     Cleared, AppendLine, Wrote, Goto, fileVars, lockVars
<1>27. ASSUME PruneAudit PROVE RestTyped'
  BY <1>27, ProcAssumption DEF PruneAudit, RestTyped, Procs, ExecPCs, ToolPCs, NoMarker,
     Cleared, AppendLine, Wrote, Goto, storeVars, ProbeOpen
<1>28. ASSUME PruneDecide PROVE RestTyped'
  BY <1>28, QuitRest, ProcAssumption DEF PruneDecide, Refuse, Procs, RestTyped, ExecPCs,
     ToolPCs, NoMarker, Cleared, AppendLine, Wrote, Goto, storeVars, lockVars, toolVars
<1>29. ASSUME PruneJournal PROVE RestTyped'
  BY <1>29, ProcAssumption DEF PruneJournal, RestTyped, Procs, ExecPCs, ToolPCs, NoMarker,
     Cleared, AppendLine, Wrote, Goto, lockVars
<1>30. ASSUME NEW x \in {"journal", "lock", "marker"}, PruneUnlink(x) PROVE RestTyped'
  BY <1>30, ProcAssumption DEF PruneUnlink, RestTyped, Procs, ExecPCs, ToolPCs, NoMarker,
     Cleared, AppendLine, Wrote, lockVars
<1>31. ASSUME PruneRmdir PROVE RestTyped'
  BY <1>31, ProcAssumption DEF PruneRmdir, RestTyped, Procs, ExecPCs, ToolPCs, NoMarker,
     Cleared, AppendLine, Wrote, Goto, lockVars, toolVars
<1>32. ASSUME PruneRelease PROVE RestTyped'
  BY <1>32, ProcAssumption DEF PruneRelease, RestTyped, Procs, ExecPCs, ToolPCs, NoMarker,
     Cleared, AppendLine, Wrote, Goto, Release, Quit, Refuse
<1> QED
  BY <1>1, <1>2, <1>3, <1>4, <1>5, <1>6, <1>7, <1>8, <1>9, <1>10, <1>11, <1>12, <1>13,
     <1>14, <1>15, <1>16, <1>17, <1>18, <1>19, <1>20, <1>21, <1>22, <1>23, <1>24, <1>25,
     <1>26, <1>27, <1>28, <1>29, <1>30, <1>31, <1>32 DEF Next, OpenRun, Work, Prune

\* The scheduler's steps between its start and its end.
Scheduling(e) ==
  \/ ProbePause(e)
  \/ \E s \in Steps : Hit(e, s) \/ Launch(e, s) \/ StartBox(e, s)
  \/ \E s \in Steps, st \in Verdicts : AppendResult(e, s, st)
  \/ AppendCost(e)
  \/ Cancel(e)

\* They append and remember, and touch nothing the lock's argument is about.
LEMMA SchedulingFrame ==
  ASSUME MemTyped, NEW e \in Execs, Scheduling(e)
  PROVE  /\ pc[e] = "run"
         /\ UNCHANGED <<dir, begun, lockIno, nextIno, linked, marker, pc, fd, held, saw, all, sweep>>
         /\ \A f \in Execs : mem'[f].mode = mem[f].mode /\ mem'[f].keep = mem[f].keep
<1> USE DEF MemTyped
<1>1. CASE ProbePause(e)
  BY <1>1 DEF ProbePause, appendFrame, lockVars, toolVars
<1>2. ASSUME NEW s \in Steps, Hit(e, s)
      PROVE  /\ pc[e] = "run" /\ UNCHANGED appendFrame
             /\ \A f \in Execs : mem'[f].mode = mem[f].mode /\ mem'[f].keep = mem[f].keep
  <2> DEFINE m == [mem[e] EXCEPT !.task[s] = "done"]
  <2>1. m \in Memory /\ m.mode = mem[e].mode /\ m.keep = mem[e].keep
    BY DEF Memory
  <2>2. PICK err \in BOOLEAN : mem' = [mem EXCEPT ![e] = Fails(m, err)]
    BY <1>2 DEF Hit
  <2> HIDE DEF m
  <2>3. mem'[e].mode = mem[e].mode /\ mem'[e].keep = mem[e].keep
    BY <2>1, <2>2, FailsTyped
  <2> QED
    BY <1>2, <2>2, <2>3 DEF Hit, MayDispatch
<1>3. ASSUME NEW s \in Steps, Launch(e, s)
      PROVE  /\ pc[e] = "run" /\ UNCHANGED appendFrame
             /\ \A f \in Execs : mem'[f].mode = mem[f].mode /\ mem'[f].keep = mem[f].keep
  BY <1>3 DEF Launch, MayDispatch
<1>4. ASSUME NEW s \in Steps, StartBox(e, s)
      PROVE  /\ pc[e] = "run" /\ UNCHANGED appendFrame
             /\ \A f \in Execs : mem'[f].mode = mem[f].mode /\ mem'[f].keep = mem[f].keep
  BY <1>4 DEF StartBox
<1>5. ASSUME NEW s \in Steps, NEW st \in Verdicts, AppendResult(e, s, st)
      PROVE  /\ pc[e] = "run" /\ UNCHANGED appendFrame
             /\ \A f \in Execs : mem'[f].mode = mem[f].mode /\ mem'[f].keep = mem[f].keep
  <2> DEFINE m == [mem[e] EXCEPT !.task[s] = "done",
                     !.owes = IF mem[e].task[s] = "boxed" THEN s ELSE NoStep]
  <2>1. m \in Memory /\ m.mode = mem[e].mode /\ m.keep = mem[e].keep
    BY DEF Memory
  <2>2. PICK err \in BOOLEAN : mem' = [mem EXCEPT ![e] = Fails(m, err)]
    BY <1>5 DEF AppendResult
  <2> HIDE DEF m
  <2>3. mem'[e].mode = mem[e].mode /\ mem'[e].keep = mem[e].keep
    BY <2>1, <2>2, FailsTyped
  <2> QED
    BY <1>5, <2>2, <2>3 DEF AppendResult
<1>6. CASE AppendCost(e)
  <2>1. [mem[e] EXCEPT !.owes = NoStep] \in Memory
    BY DEF Memory
  <2>2. PICK err \in BOOLEAN : mem' = [mem EXCEPT ![e] = Fails([mem[e] EXCEPT !.owes = NoStep], err)]
    BY <1>6 DEF AppendCost
  <2>3. mem'[e].mode = mem[e].mode /\ mem'[e].keep = mem[e].keep
    BY <2>1, <2>2, FailsTyped DEF Memory
  <2> QED
    BY <1>6, <2>2, <2>3 DEF AppendCost, appendFrame, lockVars, toolVars
<1>7. CASE Cancel(e)
  BY <1>7 DEF Cancel, appendFrame, lockVars, toolVars
<1> QED
  BY <1>1, <1>2, <1>3, <1>4, <1>5, <1>6, <1>7 DEF Scheduling, appendFrame, lockVars,
     toolVars

\* A process that goes is at its starting or its final position.
LEMMA QuitPositioned ==
  ASSUME Positioned, NEW p \in Procs, Quit(p), pc[p] # "new"
  PROVE  Positioned'
BY ProcAssumption DEF Positioned, Procs, ExecPCs, ToolPCs, Quit, Goto, Release

\* Every step leaves each process at a position of its own program.
LEMMA PositionedStep ==
  ASSUME Positioned, MemTyped, Next
  PROVE  Positioned'
<1>1. ASSUME NEW e \in Execs, Begin(e) PROVE Positioned'
  BY <1>1, ProcAssumption DEF Begin, Positioned, Procs, ExecPCs, ToolPCs, Goto, fileVars,
     lockVars, toolVars
<1>2. ASSUME NEW e \in Execs, Resume(e) PROVE Positioned'
  BY <1>2, ProcAssumption DEF Resume, Positioned, Procs, ExecPCs, ToolPCs, Goto, storeVars,
     lockVars, toolVars
<1>3. ASSUME NEW e \in Execs, ClearPause(e) PROVE Positioned'
  BY <1>3, ProcAssumption DEF ClearPause, Positioned, Procs, ExecPCs, ToolPCs, Goto,
     fileVars, lockVars, toolVars
<1>4. ASSUME NEW e \in Execs, CreateJournal(e) PROVE Positioned'
  <2>1. CASE Quit(e)
    BY <1>4, <2>1, QuitPositioned DEF CreateJournal, Procs
  <2>2. CASE ~Quit(e)
    BY <1>4, <2>2, ProcAssumption DEF CreateJournal, Refuse, Positioned, Procs, ExecPCs,
       ToolPCs, Goto, lockVars, toolVars
  <2> QED
    BY <2>1, <2>2
<1>5. ASSUME NEW e \in Execs, AppendHeader(e) PROVE Positioned'
  BY <1>5, ProcAssumption DEF AppendHeader, Positioned, Procs, ExecPCs, ToolPCs, Goto,
     lockVars, toolVars
<1>6. ASSUME NEW e \in Execs, LoadPrior(e) PROVE Positioned'
  <2>1. CASE Quit(e)
    BY <1>6, <2>1, QuitPositioned DEF LoadPrior, Procs
  <2>2. CASE ~Quit(e)
    BY <1>6, <2>2, ProcAssumption DEF LoadPrior, Refuse, Positioned, Procs, ExecPCs,
       ToolPCs, Goto, storeVars, lockVars, toolVars
  <2> QED
    BY <2>1, <2>2
<1>7. ASSUME NEW e \in Execs, RepairRead(e) PROVE Positioned'
  <2>1. CASE Quit(e)
    BY <1>7, <2>1, QuitPositioned DEF RepairRead, Procs
  <2>2. CASE ~Quit(e)
    BY <1>7, <2>2, ProcAssumption DEF RepairRead, Refuse, Positioned, Procs, ExecPCs,
       ToolPCs, Goto, storeVars, lockVars, toolVars
  <2> QED
    BY <2>1, <2>2
<1>8. ASSUME NEW e \in Execs, Reopen(e) PROVE Positioned'
  BY <1>8, ProcAssumption DEF Reopen, Positioned, Procs, ExecPCs, ToolPCs, Goto, lockVars,
     toolVars
<1>9. ASSUME NEW e \in Execs, Setup(e) PROVE Positioned'
  BY <1>9, ProcAssumption DEF Setup, Positioned, Procs, ExecPCs, ToolPCs, Goto, lockVars,
     toolVars
<1>10. ASSUME NEW e \in Execs, Scheduling(e) PROVE Positioned'
  BY <1>10, SchedulingFrame, ProcAssumption DEF Positioned, Procs, ExecPCs, ToolPCs
<1>11. ASSUME NEW e \in Execs, EndRun(e) PROVE Positioned'
  BY <1>11, ProcAssumption DEF EndRun, Positioned, Procs, ExecPCs, ToolPCs, Goto, lockVars,
     toolVars
<1>12. ASSUME NEW e \in Execs, Close(e) PROVE Positioned'
  BY <1>12, QuitPositioned DEF Close, Refuse, Procs
<1>13. ASSUME NEW p \in Procs, LockOpen(p) PROVE Positioned'
  <2>1. CASE Quit(p)
    BY <1>13, <2>1, QuitPositioned DEF LockOpen, Procs
  <2>2. CASE ~Quit(p)
    BY <1>13, <2>2, ProcAssumption DEF LockOpen, Refuse, Positioned, Procs, ExecPCs,
       ToolPCs, Goto, fileVars, toolVars
  <2> QED
    BY <2>1, <2>2
<1>14. ASSUME NEW p \in Procs, LockTake(p) PROVE Positioned'
  <2>1. CASE Quit(p)
    BY <1>14, <2>1, QuitPositioned DEF LockTake, Procs
  <2>2. CASE ~Quit(p)
    BY <1>14, <2>2, ProcAssumption DEF LockTake, Refuse, Positioned, Procs, ExecPCs,
       ToolPCs, Goto, storeVars, toolVars
  <2> QED
    BY <2>1, <2>2
<1>15. ASSUME NEW p \in Procs, Crash(p) PROVE Positioned'
  BY <1>15, QuitPositioned DEF Crash, Procs
<1>16. ASSUME NEW p \in {Pauser, Pruner}, ProbeTake(p) PROVE Positioned'
  BY <1>16, ProcAssumption DEF ProbeTake, Positioned, Procs, ExecPCs, ToolPCs, Goto,
     storeVars, toolVars
<1>17. ASSUME NEW p \in {Pauser, Pruner}, ProbeDrop(p) PROVE Positioned'
  BY <1>17, ProcAssumption DEF ProbeDrop, Positioned, Procs, ExecPCs, ToolPCs, Goto,
     Release, fileVars, toolVars
<1>18. ASSUME NEW p \in {Pauser, Pruner}, ProbeLive(p) PROVE Positioned'
  <2>1. CASE Quit(p)
    BY <1>18, <2>1, QuitPositioned DEF ProbeLive, Procs
  <2>2. CASE ~Quit(p)
    BY <1>18, <2>2, ProcAssumption DEF ProbeLive, Refuse, Positioned, Procs, ExecPCs,
       ToolPCs, Goto, Release, fileVars
  <2> QED
    BY <2>1, <2>2
<1>19. ASSUME PauseStat PROVE Positioned'
  BY <1>19, ProcAssumption DEF PauseStat, Positioned, Procs, ExecPCs, ToolPCs, Goto,
     storeVars, toolVars, ProbeOpen
<1>20. ASSUME WriteMarker PROVE Positioned'
  BY <1>20, ProcAssumption DEF WriteMarker, Positioned, Procs, ExecPCs, ToolPCs, Goto,
     fileVars, lockVars
<1>21. ASSUME PruneAudit PROVE Positioned'
  BY <1>21, ProcAssumption DEF PruneAudit, Positioned, Procs, ExecPCs, ToolPCs, Goto,
     storeVars, ProbeOpen
<1>22. ASSUME PruneDecide PROVE Positioned'
  <2>1. CASE Quit(Pruner)
    BY <1>22, <2>1, QuitPositioned DEF PruneDecide, Procs
  <2>2. CASE ~Quit(Pruner)
    BY <1>22, <2>2, ProcAssumption DEF PruneDecide, Refuse, Positioned, Procs, ExecPCs,
       ToolPCs, Goto, storeVars, lockVars, toolVars
  <2> QED
    BY <2>1, <2>2
<1>23. ASSUME PruneJournal PROVE Positioned'
  BY <1>23, ProcAssumption DEF PruneJournal, Positioned, Procs, ExecPCs, ToolPCs, Goto,
     lockVars
<1>24. ASSUME NEW x \in {"journal", "lock", "marker"}, PruneUnlink(x) PROVE Positioned'
  BY <1>24, ProcAssumption DEF PruneUnlink, Positioned, Procs, ExecPCs, ToolPCs, lockVars
<1>25. ASSUME PruneRmdir PROVE Positioned'
  BY <1>25, ProcAssumption DEF PruneRmdir, Positioned, Procs, ExecPCs, ToolPCs, Goto,
     lockVars, toolVars
<1>26. ASSUME PruneRelease PROVE Positioned'
  BY <1>26, QuitPositioned DEF PruneRelease, Refuse, Procs
<1> QED
  BY <1>1, <1>2, <1>3, <1>4, <1>5, <1>6, <1>7, <1>8, <1>9, <1>10, <1>11, <1>12, <1>13,
     <1>14, <1>15, <1>16, <1>17, <1>18, <1>19, <1>20, <1>21, <1>22, <1>23, <1>24, <1>25,
     <1>26 DEF Next, OpenRun, Work, Prune, Scheduling

\* The kernel drops the flock of a process that goes.
LEMMA QuitFlocked ==
  ASSUME Flocked, Positioned, RestTyped, NEW p \in Procs, Quit(p), pc[p] # "new"
  PROVE  Flocked'
BY ProcAssumption DEF Flocked, LockedPCs, Positioned, Procs, ExecPCs, ToolPCs, RestTyped,
   Quit, Goto, Release

\* Every step keeps a flock to one holder, known by its position.
LEMMA FlockedStep ==
  ASSUME Flocked, Positioned, MemTyped, RestTyped, Next
  PROVE  Flocked'
<1>1. ASSUME NEW e \in Execs, Begin(e) PROVE Flocked'
  BY <1>1, ProcAssumption DEF Begin, Flocked, LockedPCs, Positioned, Procs, ExecPCs,
     ToolPCs, RestTyped, Busy, Goto, fileVars, lockVars, toolVars
<1>2. ASSUME NEW e \in Execs, Resume(e) PROVE Flocked'
  BY <1>2, ProcAssumption DEF Resume, Flocked, LockedPCs, Positioned, Procs, ExecPCs,
     ToolPCs, RestTyped, Busy, Goto, storeVars, lockVars, toolVars
<1>3. ASSUME NEW e \in Execs, ClearPause(e) PROVE Flocked'
  BY <1>3, ProcAssumption DEF ClearPause, Flocked, LockedPCs, Positioned, Procs, ExecPCs,
     ToolPCs, RestTyped, Busy, Goto, fileVars, lockVars, toolVars
<1>4. ASSUME NEW e \in Execs, CreateJournal(e) PROVE Flocked'
  <2>1. CASE Quit(e)
    BY <1>4, <2>1, QuitFlocked DEF CreateJournal, Procs
  <2>2. CASE ~Quit(e)
    BY <1>4, <2>2, ProcAssumption DEF CreateJournal, Refuse, Flocked, LockedPCs,
       Positioned, Procs, ExecPCs, ToolPCs, RestTyped, Busy, Goto, lockVars, toolVars
  <2> QED
    BY <2>1, <2>2
<1>5. ASSUME NEW e \in Execs, AppendHeader(e) PROVE Flocked'
  BY <1>5, ProcAssumption DEF AppendHeader, Flocked, LockedPCs, Positioned, Procs, ExecPCs,
     ToolPCs, RestTyped, Busy, Goto, lockVars, toolVars
<1>6. ASSUME NEW e \in Execs, LoadPrior(e) PROVE Flocked'
  <2>1. CASE Quit(e)
    BY <1>6, <2>1, QuitFlocked DEF LoadPrior, Procs
  <2>2. CASE ~Quit(e)
    BY <1>6, <2>2, ProcAssumption DEF LoadPrior, Refuse, Flocked, LockedPCs, Positioned,
       Procs, ExecPCs, ToolPCs, RestTyped, Busy, Goto, storeVars, lockVars, toolVars
  <2> QED
    BY <2>1, <2>2
<1>7. ASSUME NEW e \in Execs, RepairRead(e) PROVE Flocked'
  <2>1. CASE Quit(e)
    BY <1>7, <2>1, QuitFlocked DEF RepairRead, Procs
  <2>2. CASE ~Quit(e)
    BY <1>7, <2>2, ProcAssumption DEF RepairRead, Refuse, Flocked, LockedPCs, Positioned,
       Procs, ExecPCs, ToolPCs, RestTyped, Busy, Goto, storeVars, lockVars, toolVars
  <2> QED
    BY <2>1, <2>2
<1>8. ASSUME NEW e \in Execs, Reopen(e) PROVE Flocked'
  BY <1>8, ProcAssumption DEF Reopen, Flocked, LockedPCs, Positioned, Procs, ExecPCs,
     ToolPCs, RestTyped, Busy, Goto, lockVars, toolVars
<1>9. ASSUME NEW e \in Execs, Setup(e) PROVE Flocked'
  BY <1>9, ProcAssumption DEF Setup, Flocked, LockedPCs, Positioned, Procs, ExecPCs,
     ToolPCs, RestTyped, Busy, Goto, lockVars, toolVars
<1>10. ASSUME NEW e \in Execs, Scheduling(e) PROVE Flocked'
  BY <1>10, SchedulingFrame, ProcAssumption DEF Flocked, LockedPCs, Positioned, Procs,
     ExecPCs, ToolPCs, RestTyped, Busy
<1>11. ASSUME NEW e \in Execs, EndRun(e) PROVE Flocked'
  BY <1>11, ProcAssumption DEF EndRun, Flocked, LockedPCs, Positioned, Procs, ExecPCs,
     ToolPCs, RestTyped, Busy, Goto, lockVars, toolVars
<1>12. ASSUME NEW e \in Execs, Close(e) PROVE Flocked'
  BY <1>12, QuitFlocked DEF Close, Refuse, Procs
<1>13. ASSUME NEW p \in Procs, LockOpen(p) PROVE Flocked'
  <2>1. CASE Quit(p)
    BY <1>13, <2>1, QuitFlocked DEF LockOpen, Procs
  <2>2. CASE ~Quit(p)
    BY <1>13, <2>2, ProcAssumption DEF LockOpen, Refuse, Flocked, LockedPCs, Positioned,
       Procs, ExecPCs, ToolPCs, RestTyped, Busy, Goto, fileVars, toolVars
  <2> QED
    BY <2>1, <2>2
<1>14. ASSUME NEW p \in Procs, LockTake(p) PROVE Flocked'
  <2>1. CASE Quit(p)
    BY <1>14, <2>1, QuitFlocked DEF LockTake, Procs
  <2>2. CASE ~Quit(p)
    BY <1>14, <2>2, ProcAssumption DEF LockTake, Refuse, Flocked, LockedPCs, Positioned,
       Procs, ExecPCs, ToolPCs, RestTyped, Busy, Goto, storeVars, toolVars
  <2> QED
    BY <2>1, <2>2
<1>15. ASSUME NEW p \in Procs, Crash(p) PROVE Flocked'
  BY <1>15, QuitFlocked DEF Crash, Procs
<1>16. ASSUME NEW p \in {Pauser, Pruner}, ProbeTake(p) PROVE Flocked'
  BY <1>16, ProcAssumption DEF ProbeTake, Flocked, LockedPCs, Positioned, Procs, ExecPCs,
     ToolPCs, RestTyped, Busy, Goto, storeVars, toolVars
<1>17. ASSUME NEW p \in {Pauser, Pruner}, ProbeDrop(p) PROVE Flocked'
  BY <1>17, ProcAssumption DEF ProbeDrop, Flocked, LockedPCs, Positioned, Procs, ExecPCs,
     ToolPCs, RestTyped, Busy, Goto, Release, fileVars, toolVars
<1>18. ASSUME NEW p \in {Pauser, Pruner}, ProbeLive(p) PROVE Flocked'
  <2>1. CASE Quit(p)
    BY <1>18, <2>1, QuitFlocked DEF ProbeLive, Procs
  <2>2. CASE ~Quit(p)
    BY <1>18, <2>2, ProcAssumption DEF ProbeLive, Refuse, Flocked, LockedPCs, Positioned,
       Procs, ExecPCs, ToolPCs, RestTyped, Busy, Goto, Release, fileVars
  <2> QED
    BY <2>1, <2>2
<1>19. ASSUME PauseStat PROVE Flocked'
  BY <1>19, ProcAssumption DEF PauseStat, Flocked, LockedPCs, Positioned, Procs, ExecPCs,
     ToolPCs, RestTyped, Busy, Goto, storeVars, toolVars, ProbeOpen
<1>20. ASSUME WriteMarker PROVE Flocked'
  BY <1>20, ProcAssumption DEF WriteMarker, Flocked, LockedPCs, Positioned, Procs, ExecPCs,
     ToolPCs, RestTyped, Busy, Goto, fileVars, lockVars
<1>21. ASSUME PruneAudit PROVE Flocked'
  BY <1>21, ProcAssumption DEF PruneAudit, Flocked, LockedPCs, Positioned, Procs, ExecPCs,
     ToolPCs, RestTyped, Busy, Goto, storeVars, ProbeOpen
<1>22. ASSUME PruneDecide PROVE Flocked'
  <2>1. CASE Quit(Pruner)
    BY <1>22, <2>1, QuitFlocked DEF PruneDecide, Procs
  <2>2. CASE ~Quit(Pruner)
    BY <1>22, <2>2, ProcAssumption DEF PruneDecide, Refuse, Flocked, LockedPCs, Positioned,
       Procs, ExecPCs, ToolPCs, RestTyped, Busy, Goto, storeVars, lockVars, toolVars
  <2> QED
    BY <2>1, <2>2
<1>23. ASSUME PruneJournal PROVE Flocked'
  BY <1>23, ProcAssumption DEF PruneJournal, Flocked, LockedPCs, Positioned, Procs,
     ExecPCs, ToolPCs, RestTyped, Busy, Goto, lockVars
<1>24. ASSUME NEW x \in {"journal", "lock", "marker"}, PruneUnlink(x) PROVE Flocked'
  BY <1>24, ProcAssumption DEF PruneUnlink, Flocked, LockedPCs, Positioned, Procs, ExecPCs,
     ToolPCs, RestTyped, Busy, lockVars
<1>25. ASSUME PruneRmdir PROVE Flocked'
  BY <1>25, ProcAssumption DEF PruneRmdir, Flocked, LockedPCs, Positioned, Procs, ExecPCs,
     ToolPCs, RestTyped, Busy, Goto, lockVars, toolVars
<1>26. ASSUME PruneRelease PROVE Flocked'
  BY <1>26, QuitFlocked DEF PruneRelease, Refuse, Procs
<1> QED
  BY <1>1, <1>2, <1>3, <1>4, <1>5, <1>6, <1>7, <1>8, <1>9, <1>10, <1>11, <1>12, <1>13,
     <1>14, <1>15, <1>16, <1>17, <1>18, <1>19, <1>20, <1>21, <1>22, <1>23, <1>24, <1>25,
     <1>26 DEF Next, OpenRun, Work, Prune, Scheduling

\* A process that goes begins no run.
LEMMA QuitBegins ==
  ASSUME BeginsOnce, Positioned, MemTyped, NEW p \in Procs, Quit(p), pc[p] # "new"
  PROVE  BeginsOnce'
BY ProcAssumption DEF BeginsOnce, Beginning, Positioned, Procs, ExecPCs, ToolPCs, MemTyped,
   Memory, Blank, Quit, Goto, Release

\* Every step keeps to one begin, which no prune sees before there is a journal.
LEMMA BeginsStep ==
  ASSUME Positioned, MemTyped, BeginsOnce, Journaled, Next
  PROVE  BeginsOnce'
<1>1. ASSUME NEW e \in Execs, Begin(e) PROVE BeginsOnce'
  BY <1>1, ProcAssumption DEF Begin, BeginsOnce, Beginning, Positioned, Procs, ExecPCs,
     ToolPCs, MemTyped, Memory, Journaled, OwnerPCs, Goto, fileVars, lockVars, toolVars
<1>2. ASSUME NEW e \in Execs, Resume(e) PROVE BeginsOnce'
  BY <1>2, ProcAssumption DEF Resume, BeginsOnce, Beginning, Positioned, Procs, ExecPCs,
     ToolPCs, MemTyped, Memory, Journaled, OwnerPCs, Goto, storeVars, lockVars, toolVars
<1>3. ASSUME NEW e \in Execs, ClearPause(e) PROVE BeginsOnce'
  BY <1>3, ProcAssumption DEF ClearPause, BeginsOnce, Beginning, Positioned, Procs,
     ExecPCs, ToolPCs, MemTyped, Memory, Journaled, OwnerPCs, Goto, fileVars, lockVars,
     toolVars
<1>4. ASSUME NEW e \in Execs, CreateJournal(e) PROVE BeginsOnce'
  <2>1. CASE Quit(e)
    BY <1>4, <2>1, QuitBegins DEF CreateJournal, Procs
  <2>2. CASE ~Quit(e)
    BY <1>4, <2>2, ProcAssumption DEF CreateJournal, Refuse, BeginsOnce, Beginning,
       Positioned, Procs, ExecPCs, ToolPCs, MemTyped, Memory, Journaled, OwnerPCs, Goto,
       lockVars, toolVars
  <2> QED
    BY <2>1, <2>2
<1>5. ASSUME NEW e \in Execs, AppendHeader(e) PROVE BeginsOnce'
  BY <1>5, ProcAssumption DEF AppendHeader, BeginsOnce, Beginning, Positioned, Procs,
     ExecPCs, ToolPCs, MemTyped, Memory, Journaled, OwnerPCs, Goto, lockVars, toolVars
<1>6. ASSUME NEW e \in Execs, LoadPrior(e) PROVE BeginsOnce'
  <2>1. CASE Quit(e)
    BY <1>6, <2>1, QuitBegins DEF LoadPrior, Procs
  <2>2. CASE ~Quit(e)
    <3>1. /\ mem' = [mem EXCEPT ![e].prior = OkKeys] /\ pc' = [pc EXCEPT ![e] = "repair"]
          /\ UNCHANGED <<begun, linked>>
      BY <1>6, <2>2 DEF LoadPrior, Refuse, Goto, storeVars
    <3>2. \A f \in Execs : mem'[f].mode = mem[f].mode
      BY <3>1 DEF MemTyped, Memory
    <3> QED
      BY <1>6, <3>1, <3>2, ProcAssumption DEF LoadPrior, BeginsOnce, Beginning, Positioned,
         Procs
  <2> QED
    BY <2>1, <2>2
<1>7. ASSUME NEW e \in Execs, RepairRead(e) PROVE BeginsOnce'
  <2>1. CASE Quit(e)
    BY <1>7, <2>1, QuitBegins DEF RepairRead, Procs
  <2>2. CASE ~Quit(e)
    BY <1>7, <2>2, ProcAssumption DEF RepairRead, Refuse, BeginsOnce, Beginning,
       Positioned, Procs, ExecPCs, ToolPCs, MemTyped, Memory, Journaled, OwnerPCs, Goto,
       storeVars, lockVars, toolVars
  <2> QED
    BY <2>1, <2>2
<1>8. ASSUME NEW e \in Execs, Reopen(e) PROVE BeginsOnce'
  BY <1>8, ProcAssumption DEF Reopen, BeginsOnce, Beginning, Positioned, Procs, ExecPCs,
     ToolPCs, MemTyped, Memory, Journaled, OwnerPCs, Goto, lockVars, toolVars
<1>9. ASSUME NEW e \in Execs, Setup(e) PROVE BeginsOnce'
  BY <1>9, ProcAssumption DEF Setup, BeginsOnce, Beginning, Positioned, Procs, ExecPCs,
     ToolPCs, MemTyped, Memory, Journaled, OwnerPCs, Goto, lockVars, toolVars
<1>10. ASSUME NEW e \in Execs, Scheduling(e) PROVE BeginsOnce'
  BY <1>10, SchedulingFrame, ProcAssumption DEF BeginsOnce, Beginning, Positioned, Procs,
     ExecPCs, ToolPCs, MemTyped, Memory, Journaled, OwnerPCs
<1>11. ASSUME NEW e \in Execs, EndRun(e) PROVE BeginsOnce'
  BY <1>11, ProcAssumption DEF EndRun, BeginsOnce, Beginning, Positioned, Procs, ExecPCs,
     ToolPCs, MemTyped, Memory, Journaled, OwnerPCs, Goto, lockVars, toolVars
<1>12. ASSUME NEW e \in Execs, Close(e) PROVE BeginsOnce'
  BY <1>12, QuitBegins DEF Close, Refuse, Procs
<1>13. ASSUME NEW p \in Procs, LockOpen(p) PROVE BeginsOnce'
  <2>1. CASE Quit(p)
    BY <1>13, <2>1, QuitBegins DEF LockOpen, Procs
  <2>2. CASE ~Quit(p)
    BY <1>13, <2>2, ProcAssumption DEF LockOpen, Refuse, BeginsOnce, Beginning, Positioned,
       Procs, ExecPCs, ToolPCs, MemTyped, Memory, Journaled, OwnerPCs, Goto, fileVars,
       toolVars
  <2> QED
    BY <2>1, <2>2
<1>14. ASSUME NEW p \in Procs, LockTake(p) PROVE BeginsOnce'
  <2>1. CASE Quit(p)
    BY <1>14, <2>1, QuitBegins DEF LockTake, Procs
  <2>2. CASE ~Quit(p)
    BY <1>14, <2>2, ProcAssumption DEF LockTake, Refuse, BeginsOnce, Beginning, Positioned,
       Procs, ExecPCs, ToolPCs, MemTyped, Memory, Journaled, OwnerPCs, Goto, storeVars,
       toolVars
  <2> QED
    BY <2>1, <2>2
<1>15. ASSUME NEW p \in Procs, Crash(p) PROVE BeginsOnce'
  BY <1>15, QuitBegins DEF Crash, Procs
<1>16. ASSUME NEW p \in {Pauser, Pruner}, ProbeTake(p) PROVE BeginsOnce'
  BY <1>16, ProcAssumption DEF ProbeTake, BeginsOnce, Beginning, Positioned, Procs,
     ExecPCs, ToolPCs, MemTyped, Memory, Journaled, OwnerPCs, Goto, storeVars, toolVars
<1>17. ASSUME NEW p \in {Pauser, Pruner}, ProbeDrop(p) PROVE BeginsOnce'
  BY <1>17, ProcAssumption DEF ProbeDrop, BeginsOnce, Beginning, Positioned, Procs,
     ExecPCs, ToolPCs, MemTyped, Memory, Journaled, OwnerPCs, Goto, Release, fileVars,
     toolVars
<1>18. ASSUME NEW p \in {Pauser, Pruner}, ProbeLive(p) PROVE BeginsOnce'
  <2>1. CASE Quit(p)
    BY <1>18, <2>1, QuitBegins DEF ProbeLive, Procs
  <2>2. CASE ~Quit(p)
    BY <1>18, <2>2, ProcAssumption DEF ProbeLive, Refuse, BeginsOnce, Beginning,
       Positioned, Procs, ExecPCs, ToolPCs, MemTyped, Memory, Journaled, OwnerPCs, Goto,
       Release, fileVars
  <2> QED
    BY <2>1, <2>2
<1>19. ASSUME PauseStat PROVE BeginsOnce'
  BY <1>19, ProcAssumption DEF PauseStat, BeginsOnce, Beginning, Positioned, Procs,
     ExecPCs, ToolPCs, MemTyped, Memory, Journaled, OwnerPCs, Goto, storeVars, toolVars,
     ProbeOpen
<1>20. ASSUME WriteMarker PROVE BeginsOnce'
  BY <1>20, ProcAssumption DEF WriteMarker, BeginsOnce, Beginning, Positioned, Procs,
     ExecPCs, ToolPCs, MemTyped, Memory, Journaled, OwnerPCs, Goto, fileVars, lockVars
<1>21. ASSUME PruneAudit PROVE BeginsOnce'
  BY <1>21, ProcAssumption DEF PruneAudit, BeginsOnce, Beginning, Positioned, Procs,
     ExecPCs, ToolPCs, MemTyped, Memory, Journaled, OwnerPCs, Goto, storeVars, ProbeOpen
<1>22. ASSUME PruneDecide PROVE BeginsOnce'
  <2>1. CASE Quit(Pruner)
    BY <1>22, <2>1, QuitBegins DEF PruneDecide, Procs
  <2>2. CASE ~Quit(Pruner)
    BY <1>22, <2>2, ProcAssumption DEF PruneDecide, Refuse, BeginsOnce, Beginning,
       Positioned, Procs, ExecPCs, ToolPCs, MemTyped, Memory, Journaled, OwnerPCs, Goto,
       storeVars, lockVars, toolVars
  <2> QED
    BY <2>1, <2>2
<1>23. ASSUME PruneJournal PROVE BeginsOnce'
  BY <1>23, ProcAssumption DEF PruneJournal, BeginsOnce, Beginning, Positioned, Procs,
     ExecPCs, ToolPCs, MemTyped, Memory, Journaled, OwnerPCs, Goto, lockVars
<1>24. ASSUME NEW x \in {"journal", "lock", "marker"}, PruneUnlink(x) PROVE BeginsOnce'
  BY <1>24, ProcAssumption DEF PruneUnlink, BeginsOnce, Beginning, Positioned, Procs,
     ExecPCs, ToolPCs, MemTyped, Memory, Journaled, OwnerPCs, lockVars
<1>25. ASSUME PruneRmdir PROVE BeginsOnce'
  BY <1>25, ProcAssumption DEF PruneRmdir, BeginsOnce, Beginning, Positioned, Procs,
     ExecPCs, ToolPCs, MemTyped, Memory, Journaled, OwnerPCs, Goto, lockVars, toolVars
<1>26. ASSUME PruneRelease PROVE BeginsOnce'
  BY <1>26, QuitBegins DEF PruneRelease, Refuse, Procs
<1> QED
  BY <1>1, <1>2, <1>3, <1>4, <1>5, <1>6, <1>7, <1>8, <1>9, <1>10, <1>11, <1>12, <1>13,
     <1>14, <1>15, <1>16, <1>17, <1>18, <1>19, <1>20, <1>21, <1>22, <1>23, <1>24, <1>25,
     <1>26 DEF Next, OpenRun, Work, Prune, Scheduling

\* A process that goes changes nobody else's inode.
LEMMA QuitInode ==
  ASSUME SameInode, BeginsOnce, Positioned, MemTyped, NEW p \in Procs, Quit(p), pc[p] # "new"
  PROVE  SameInode'
BY ProcAssumption DEF SameInode, AtLock, LockedPCs, BeginsOnce, Beginning, Positioned,
   Procs, ExecPCs, ToolPCs, RestTyped, MemTyped, Memory, Blank, Quit, Goto, Release

\* Every step keeps all who are at the lock on the inode that run.lock names, as long
\* as there is a journal to protect.
LEMMA InodeStep ==
  ASSUME Positioned, MemTyped, RestTyped, SameInode, BeginsOnce, Journaled, Next
  PROVE  SameInode'
<1>1. ASSUME NEW e \in Execs, Begin(e) PROVE SameInode'
  BY <1>1, ProcAssumption DEF Begin, SameInode, AtLock, LockedPCs, BeginsOnce, Beginning,
     Positioned, Procs, ExecPCs, ToolPCs, RestTyped, MemTyped, Memory, Journaled, OwnerPCs,
     Goto, fileVars, lockVars, toolVars
<1>2. ASSUME NEW e \in Execs, Resume(e) PROVE SameInode'
  BY <1>2, ProcAssumption DEF Resume, SameInode, AtLock, LockedPCs, BeginsOnce, Beginning,
     Positioned, Procs, ExecPCs, ToolPCs, RestTyped, MemTyped, Memory, Journaled, OwnerPCs,
     Goto, storeVars, lockVars, toolVars
<1>3. ASSUME NEW e \in Execs, ClearPause(e) PROVE SameInode'
  BY <1>3, ProcAssumption DEF ClearPause, SameInode, AtLock, LockedPCs, BeginsOnce,
     Beginning, Positioned, Procs, ExecPCs, ToolPCs, RestTyped, MemTyped, Memory,
     Journaled, OwnerPCs, Goto, fileVars, lockVars, toolVars
<1>4. ASSUME NEW e \in Execs, CreateJournal(e) PROVE SameInode'
  <2>1. CASE Quit(e)
    BY <1>4, <2>1, QuitInode DEF CreateJournal, Procs
  <2>2. CASE ~Quit(e)
    BY <1>4, <2>2, ProcAssumption DEF CreateJournal, Refuse, SameInode, AtLock, LockedPCs,
       BeginsOnce, Beginning, Positioned, Procs, ExecPCs, ToolPCs, RestTyped, MemTyped,
       Memory, Journaled, OwnerPCs, Goto, lockVars, toolVars
  <2> QED
    BY <2>1, <2>2
<1>5. ASSUME NEW e \in Execs, AppendHeader(e) PROVE SameInode'
  BY <1>5, ProcAssumption DEF AppendHeader, SameInode, AtLock, LockedPCs, BeginsOnce,
     Beginning, Positioned, Procs, ExecPCs, ToolPCs, RestTyped, MemTyped, Memory,
     Journaled, OwnerPCs, Goto, lockVars, toolVars
<1>6. ASSUME NEW e \in Execs, LoadPrior(e) PROVE SameInode'
  <2>1. CASE Quit(e)
    BY <1>6, <2>1, QuitInode DEF LoadPrior, Procs
  <2>2. CASE ~Quit(e)
    <3>1. mem' = [mem EXCEPT ![e].prior = OkKeys] /\ Goto(e, "repair")
      BY <1>6, <2>2 DEF LoadPrior, Refuse
    <3>2. \A f \in Execs : Beginning(f)' => Beginning(f)
      BY <3>1 DEF Goto, Beginning, Positioned, Procs
    <3>3. \A p \in Procs : AtLock(p)' => AtLock(p)
      BY <1>6, <3>1 DEF LoadPrior, Goto, AtLock, LockedPCs, Positioned, Procs
    <3>4. UNCHANGED <<linked, fd, lockIno>>
      BY <1>6, <2>2 DEF LoadPrior, Refuse, storeVars, lockVars
    <3> QED
      BY <3>2, <3>3, <3>4 DEF SameInode
  <2> QED
    BY <2>1, <2>2
<1>7. ASSUME NEW e \in Execs, RepairRead(e) PROVE SameInode'
  <2>1. CASE Quit(e)
    BY <1>7, <2>1, QuitInode DEF RepairRead, Procs
  <2>2. CASE ~Quit(e)
    BY <1>7, <2>2, ProcAssumption DEF RepairRead, Refuse, SameInode, AtLock, LockedPCs,
       BeginsOnce, Beginning, Positioned, Procs, ExecPCs, ToolPCs, RestTyped, MemTyped,
       Memory, Journaled, OwnerPCs, Goto, storeVars, lockVars, toolVars
  <2> QED
    BY <2>1, <2>2
<1>8. ASSUME NEW e \in Execs, Reopen(e) PROVE SameInode'
  BY <1>8, ProcAssumption DEF Reopen, SameInode, AtLock, LockedPCs, BeginsOnce, Beginning,
     Positioned, Procs, ExecPCs, ToolPCs, RestTyped, MemTyped, Memory, Journaled, OwnerPCs,
     Goto, lockVars, toolVars
<1>9. ASSUME NEW e \in Execs, Setup(e) PROVE SameInode'
  BY <1>9, ProcAssumption DEF Setup, SameInode, AtLock, LockedPCs, BeginsOnce, Beginning,
     Positioned, Procs, ExecPCs, ToolPCs, RestTyped, MemTyped, Memory, Journaled, OwnerPCs,
     Goto, lockVars, toolVars
<1>10. ASSUME NEW e \in Execs, Scheduling(e) PROVE SameInode'
  BY <1>10, SchedulingFrame, ProcAssumption DEF SameInode, AtLock, LockedPCs, BeginsOnce,
     Beginning, Positioned, Procs, ExecPCs, ToolPCs, RestTyped, MemTyped, Memory,
     Journaled, OwnerPCs
<1>11. ASSUME NEW e \in Execs, EndRun(e) PROVE SameInode'
  BY <1>11, ProcAssumption DEF EndRun, SameInode, AtLock, LockedPCs, BeginsOnce, Beginning,
     Positioned, Procs, ExecPCs, ToolPCs, RestTyped, MemTyped, Memory, Journaled, OwnerPCs,
     Goto, lockVars, toolVars
<1>12. ASSUME NEW e \in Execs, Close(e) PROVE SameInode'
  BY <1>12, QuitInode DEF Close, Refuse, Procs
<1>13. ASSUME NEW p \in Procs, LockOpen(p) PROVE SameInode'
  <2>1. CASE Quit(p)
    BY <1>13, <2>1, QuitInode DEF LockOpen, Procs
  <2>2. CASE ~Quit(p)
    BY <1>13, <2>2, ProcAssumption DEF LockOpen, Refuse, SameInode, AtLock, LockedPCs,
       BeginsOnce, Beginning, Positioned, Procs, ExecPCs, ToolPCs, RestTyped, MemTyped,
       Memory, Journaled, OwnerPCs, Goto, fileVars, toolVars
  <2> QED
    BY <2>1, <2>2
<1>14. ASSUME NEW p \in Procs, LockTake(p) PROVE SameInode'
  <2>1. CASE Quit(p)
    BY <1>14, <2>1, QuitInode DEF LockTake, Procs
  <2>2. CASE ~Quit(p)
    BY <1>14, <2>2, ProcAssumption DEF LockTake, Refuse, SameInode, AtLock, LockedPCs,
       BeginsOnce, Beginning, Positioned, Procs, ExecPCs, ToolPCs, RestTyped, MemTyped,
       Memory, Journaled, OwnerPCs, Goto, storeVars, toolVars
  <2> QED
    BY <2>1, <2>2
<1>15. ASSUME NEW p \in Procs, Crash(p) PROVE SameInode'
  BY <1>15, QuitInode DEF Crash, Procs
<1>16. ASSUME NEW p \in {Pauser, Pruner}, ProbeTake(p) PROVE SameInode'
  BY <1>16, ProcAssumption DEF ProbeTake, SameInode, AtLock, LockedPCs, BeginsOnce,
     Beginning, Positioned, Procs, ExecPCs, ToolPCs, RestTyped, MemTyped, Memory,
     Journaled, OwnerPCs, Goto, storeVars, toolVars
<1>17. ASSUME NEW p \in {Pauser, Pruner}, ProbeDrop(p) PROVE SameInode'
  BY <1>17, ProcAssumption DEF ProbeDrop, SameInode, AtLock, LockedPCs, BeginsOnce,
     Beginning, Positioned, Procs, ExecPCs, ToolPCs, RestTyped, MemTyped, Memory,
     Journaled, OwnerPCs, Goto, Release, fileVars, toolVars
<1>18. ASSUME NEW p \in {Pauser, Pruner}, ProbeLive(p) PROVE SameInode'
  <2>1. CASE Quit(p)
    BY <1>18, <2>1, QuitInode DEF ProbeLive, Procs
  <2>2. CASE ~Quit(p)
    BY <1>18, <2>2, ProcAssumption DEF ProbeLive, Refuse, SameInode, AtLock, LockedPCs,
       BeginsOnce, Beginning, Positioned, Procs, ExecPCs, ToolPCs, RestTyped, MemTyped,
       Memory, Journaled, OwnerPCs, Goto, Release, fileVars
  <2> QED
    BY <2>1, <2>2
<1>19. ASSUME PauseStat PROVE SameInode'
  BY <1>19, ProcAssumption DEF PauseStat, SameInode, AtLock, LockedPCs, BeginsOnce,
     Beginning, Positioned, Procs, ExecPCs, ToolPCs, RestTyped, MemTyped, Memory,
     Journaled, OwnerPCs, Goto, storeVars, toolVars, ProbeOpen
<1>20. ASSUME WriteMarker PROVE SameInode'
  BY <1>20, ProcAssumption DEF WriteMarker, SameInode, AtLock, LockedPCs, BeginsOnce,
     Beginning, Positioned, Procs, ExecPCs, ToolPCs, RestTyped, MemTyped, Memory,
     Journaled, OwnerPCs, Goto, fileVars, lockVars
<1>21. ASSUME PruneAudit PROVE SameInode'
  BY <1>21, ProcAssumption DEF PruneAudit, SameInode, AtLock, LockedPCs, BeginsOnce,
     Beginning, Positioned, Procs, ExecPCs, ToolPCs, RestTyped, MemTyped, Memory,
     Journaled, OwnerPCs, Goto, storeVars, ProbeOpen
<1>22. ASSUME PruneDecide PROVE SameInode'
  <2>1. CASE Quit(Pruner)
    BY <1>22, <2>1, QuitInode DEF PruneDecide, Procs
  <2>2. CASE ~Quit(Pruner)
    BY <1>22, <2>2, ProcAssumption DEF PruneDecide, Refuse, SameInode, AtLock, LockedPCs,
       BeginsOnce, Beginning, Positioned, Procs, ExecPCs, ToolPCs, RestTyped, MemTyped,
       Memory, Journaled, OwnerPCs, Goto, storeVars, lockVars, toolVars
  <2> QED
    BY <2>1, <2>2
<1>23. ASSUME PruneJournal PROVE SameInode'
  BY <1>23, ProcAssumption DEF PruneJournal, SameInode, AtLock, LockedPCs, BeginsOnce,
     Beginning, Positioned, Procs, ExecPCs, ToolPCs, RestTyped, MemTyped, Memory,
     Journaled, OwnerPCs, Goto, lockVars
<1>24. ASSUME NEW x \in {"journal", "lock", "marker"}, PruneUnlink(x) PROVE SameInode'
  BY <1>24, ProcAssumption DEF PruneUnlink, SameInode, AtLock, LockedPCs, BeginsOnce,
     Beginning, Positioned, Procs, ExecPCs, ToolPCs, RestTyped, MemTyped, Memory,
     Journaled, OwnerPCs, lockVars
<1>25. ASSUME PruneRmdir PROVE SameInode'
  BY <1>25, ProcAssumption DEF PruneRmdir, SameInode, AtLock, LockedPCs, BeginsOnce,
     Beginning, Positioned, Procs, ExecPCs, ToolPCs, RestTyped, MemTyped, Memory,
     Journaled, OwnerPCs, Goto, lockVars, toolVars
<1>26. ASSUME PruneRelease PROVE SameInode'
  BY <1>26, QuitInode DEF PruneRelease, Refuse, Procs
<1> QED
  BY <1>1, <1>2, <1>3, <1>4, <1>5, <1>6, <1>7, <1>8, <1>9, <1>10, <1>11, <1>12, <1>13,
     <1>14, <1>15, <1>16, <1>17, <1>18, <1>19, <1>20, <1>21, <1>22, <1>23, <1>24, <1>25,
     <1>26 DEF Next, OpenRun, Work, Prune, Scheduling

\* A process that goes appends no more.
LEMMA QuitJournaled ==
  ASSUME Journaled, Positioned, NEW p \in Procs, Quit(p), pc[p] # "new"
  PROVE  Journaled'
BY ProcAssumption DEF Journaled, OwnerPCs, Positioned, Procs, ExecPCs, ToolPCs, Quit, Goto,
   Release

\* Every step leaves who appends with a journal, and a sweep without one.
LEMMA JournaledStep ==
  ASSUME Positioned, MemTyped, Flocked, SameInode, BeginsOnce, Journaled, Next
  PROVE  Journaled'
<1>1. ASSUME NEW e \in Execs, Begin(e) PROVE Journaled'
  BY <1>1, ProcAssumption DEF Begin, Journaled, OwnerPCs, Positioned, Procs, ExecPCs,
     ToolPCs, BeginsOnce, Beginning, Goto, fileVars, lockVars, toolVars
<1>2. ASSUME NEW e \in Execs, Resume(e) PROVE Journaled'
  BY <1>2, ProcAssumption DEF Resume, Journaled, OwnerPCs, Positioned, Procs, ExecPCs,
     ToolPCs, BeginsOnce, Beginning, Goto, storeVars, lockVars, toolVars
<1>3. ASSUME NEW e \in Execs, ClearPause(e) PROVE Journaled'
  BY <1>3, ProcAssumption DEF ClearPause, Journaled, OwnerPCs, Positioned, Procs, ExecPCs,
     ToolPCs, BeginsOnce, Beginning, Goto, fileVars, lockVars, toolVars
<1>4. ASSUME NEW e \in Execs, CreateJournal(e) PROVE Journaled'
  <2>1. CASE Quit(e)
    BY <1>4, <2>1, QuitJournaled DEF CreateJournal, Procs
  <2>2. CASE ~Quit(e)
    BY <1>4, <2>2, ProcAssumption DEF CreateJournal, Refuse, Journaled, OwnerPCs,
       Positioned, Procs, ExecPCs, ToolPCs, BeginsOnce, Beginning, Goto, lockVars, toolVars
  <2> QED
    BY <2>1, <2>2
<1>5. ASSUME NEW e \in Execs, AppendHeader(e) PROVE Journaled'
  BY <1>5, ProcAssumption DEF AppendHeader, Journaled, OwnerPCs, Positioned, Procs,
     ExecPCs, ToolPCs, BeginsOnce, Beginning, Goto, lockVars, toolVars
<1>6. ASSUME NEW e \in Execs, LoadPrior(e) PROVE Journaled'
  <2>1. CASE Quit(e)
    BY <1>6, <2>1, QuitJournaled DEF LoadPrior, Procs
  <2>2. CASE ~Quit(e)
    BY <1>6, <2>2, ProcAssumption DEF LoadPrior, Refuse, Journaled, OwnerPCs, Positioned,
       Procs, ExecPCs, ToolPCs, BeginsOnce, Beginning, Loads, Goto, storeVars, lockVars,
       toolVars
  <2> QED
    BY <2>1, <2>2
<1>7. ASSUME NEW e \in Execs, RepairRead(e) PROVE Journaled'
  <2>1. CASE Quit(e)
    BY <1>7, <2>1, QuitJournaled DEF RepairRead, Procs
  <2>2. CASE ~Quit(e)
    BY <1>7, <2>2, ProcAssumption DEF RepairRead, Refuse, Journaled, OwnerPCs, Positioned,
       Procs, ExecPCs, ToolPCs, BeginsOnce, Beginning, Goto, storeVars, lockVars, toolVars
  <2> QED
    BY <2>1, <2>2
<1>8. ASSUME NEW e \in Execs, Reopen(e) PROVE Journaled'
  BY <1>8, ProcAssumption DEF Reopen, Journaled, OwnerPCs, Positioned, Procs, ExecPCs,
     ToolPCs, BeginsOnce, Beginning, Goto, lockVars, toolVars
<1>9. ASSUME NEW e \in Execs, Setup(e) PROVE Journaled'
  BY <1>9, ProcAssumption DEF Setup, Journaled, OwnerPCs, Positioned, Procs, ExecPCs,
     ToolPCs, BeginsOnce, Beginning, Goto, lockVars, toolVars
<1>10. ASSUME NEW e \in Execs, Scheduling(e) PROVE Journaled'
  BY <1>10, SchedulingFrame DEF Journaled
<1>11. ASSUME NEW e \in Execs, EndRun(e) PROVE Journaled'
  BY <1>11, ProcAssumption DEF EndRun, Journaled, OwnerPCs, Positioned, Procs, ExecPCs,
     ToolPCs, BeginsOnce, Beginning, Goto, lockVars, toolVars
<1>12. ASSUME NEW e \in Execs, Close(e) PROVE Journaled'
  BY <1>12, QuitJournaled DEF Close, Refuse, Procs
<1>13. ASSUME NEW p \in Procs, LockOpen(p) PROVE Journaled'
  <2>1. CASE Quit(p)
    BY <1>13, <2>1, QuitJournaled DEF LockOpen, Procs
  <2>2. CASE ~Quit(p)
    BY <1>13, <2>2, ProcAssumption DEF LockOpen, Refuse, Journaled, OwnerPCs, Positioned,
       Procs, ExecPCs, ToolPCs, BeginsOnce, Beginning, Goto, fileVars, toolVars
  <2> QED
    BY <2>1, <2>2
<1>14. ASSUME NEW p \in Procs, LockTake(p) PROVE Journaled'
  <2>1. CASE Quit(p)
    BY <1>14, <2>1, QuitJournaled DEF LockTake, Procs
  <2>2. CASE ~Quit(p)
    BY <1>14, <2>2, ProcAssumption DEF LockTake, Refuse, Journaled, OwnerPCs, Positioned,
       Procs, ExecPCs, ToolPCs, BeginsOnce, Beginning, Goto, storeVars, toolVars
  <2> QED
    BY <2>1, <2>2
<1>15. ASSUME NEW p \in Procs, Crash(p) PROVE Journaled'
  BY <1>15, QuitJournaled DEF Crash, Procs
<1>16. ASSUME NEW p \in {Pauser, Pruner}, ProbeTake(p) PROVE Journaled'
  BY <1>16, ProcAssumption DEF ProbeTake, Journaled, OwnerPCs, Positioned, Procs, ExecPCs,
     ToolPCs, BeginsOnce, Beginning, Goto, storeVars, toolVars
<1>17. ASSUME NEW p \in {Pauser, Pruner}, ProbeDrop(p) PROVE Journaled'
  BY <1>17, ProcAssumption DEF ProbeDrop, Journaled, OwnerPCs, Positioned, Procs, ExecPCs,
     ToolPCs, BeginsOnce, Beginning, Goto, Release, fileVars, toolVars
<1>18. ASSUME NEW p \in {Pauser, Pruner}, ProbeLive(p) PROVE Journaled'
  <2>1. CASE Quit(p)
    BY <1>18, <2>1, QuitJournaled DEF ProbeLive, Procs
  <2>2. CASE ~Quit(p)
    BY <1>18, <2>2, ProcAssumption DEF ProbeLive, Refuse, Journaled, OwnerPCs, Positioned,
       Procs, ExecPCs, ToolPCs, BeginsOnce, Beginning, Goto, Release, fileVars
  <2> QED
    BY <2>1, <2>2
<1>19. ASSUME PauseStat PROVE Journaled'
  BY <1>19, ProcAssumption DEF PauseStat, Journaled, OwnerPCs, Positioned, Procs, ExecPCs,
     ToolPCs, BeginsOnce, Beginning, Goto, storeVars, toolVars, ProbeOpen
<1>20. ASSUME WriteMarker PROVE Journaled'
  BY <1>20, ProcAssumption DEF WriteMarker, Journaled, OwnerPCs, Positioned, Procs,
     ExecPCs, ToolPCs, BeginsOnce, Beginning, Goto, fileVars, lockVars
<1>21. ASSUME PruneAudit PROVE Journaled'
  BY <1>21, ProcAssumption DEF PruneAudit, Journaled, OwnerPCs, Positioned, Procs, ExecPCs,
     ToolPCs, BeginsOnce, Beginning, Goto, storeVars, ProbeOpen
<1>22. ASSUME PruneDecide PROVE Journaled'
  <2>1. CASE Quit(Pruner)
    BY <1>22, <2>1, QuitJournaled DEF PruneDecide, Procs
  <2>2. CASE ~Quit(Pruner)
    BY <1>22, <2>2, ProcAssumption DEF PruneDecide, Refuse, Journaled, OwnerPCs,
       Positioned, Procs, ExecPCs, ToolPCs, BeginsOnce, Beginning, Goto, storeVars,
       lockVars, toolVars
  <2> QED
    BY <2>1, <2>2
<1>23. ASSUME PruneJournal PROVE Journaled'
  <2>1. \A e \in Execs : pc[e] \notin OwnerPCs
    BY <1>23, ProcAssumption DEF PruneJournal, Flocked, SameInode, AtLock, LockedPCs,
       Journaled, OwnerPCs, Positioned, Procs
  <2> QED
    BY <1>23, <2>1, ProcAssumption DEF PruneJournal, Journaled, Positioned, Procs, Goto
<1>24. ASSUME NEW x \in {"journal", "lock", "marker"}, PruneUnlink(x) PROVE Journaled'
  BY <1>24, ProcAssumption DEF PruneUnlink, Journaled, OwnerPCs, Positioned, Procs,
     ExecPCs, ToolPCs, BeginsOnce, Beginning, lockVars
<1>25. ASSUME PruneRmdir PROVE Journaled'
  BY <1>25, ProcAssumption DEF PruneRmdir, Journaled, OwnerPCs, Positioned, Procs, ExecPCs,
     ToolPCs, BeginsOnce, Beginning, Goto, lockVars, toolVars
<1>26. ASSUME PruneRelease PROVE Journaled'
  BY <1>26, QuitJournaled DEF PruneRelease, Refuse, Procs
<1> QED
  BY <1>1, <1>2, <1>3, <1>4, <1>5, <1>6, <1>7, <1>8, <1>9, <1>10, <1>11, <1>12, <1>13,
     <1>14, <1>15, <1>16, <1>17, <1>18, <1>19, <1>20, <1>21, <1>22, <1>23, <1>24, <1>25,
     <1>26 DEF Next, OpenRun, Work, Prune, Scheduling

\* The lock's purpose: one execution owns the journal, and no prune.
LEMMA OneOwner ==
  ASSUME Positioned, Flocked, SameInode, Journaled
  PROVE  /\ \A e, f \in Execs : pc[e] \in OwnerPCs /\ pc[f] \in OwnerPCs => e = f
         /\ \A e \in Execs : pc[e] \in OwnerPCs => linked /\ pc[Pruner] \notin {"journal", "sweep"}
BY ProcAssumption DEF Flocked, SameInode, AtLock, LockedPCs, OwnerPCs, Journaled,
   Positioned, Procs

\* A process that goes repairs no more.
LEMMA QuitRepair ==
  ASSUME RepairKnows, Positioned, MemTyped, UNCHANGED tail, NEW p \in Procs, Quit(p), pc[p] # "new"
  PROVE  RepairKnows'
BY ProcAssumption DEF RepairKnows, Positioned, Procs, ExecPCs, ToolPCs, MemTyped, Memory,
   Blank, Quit, Goto, Release

\* Nobody appends between repairTornTail's reading and its truncation.
LEMMA RepairStep ==
  ASSUME Positioned, MemTyped, LinesTyped, RestTyped, Flocked, SameInode, BeginsOnce, Journaled, RepairKnows, Next
  PROVE  RepairKnows'
<1>1. ASSUME NEW e \in Execs, Begin(e) PROVE RepairKnows'
  BY <1>1, ProcAssumption DEF Begin, RepairKnows, Positioned, Procs, ExecPCs, ToolPCs,
     MemTyped, Memory, Goto, fileVars, lockVars, toolVars
<1>2. ASSUME NEW e \in Execs, Resume(e) PROVE RepairKnows'
  BY <1>2, ProcAssumption DEF Resume, RepairKnows, Positioned, Procs, ExecPCs, ToolPCs,
     MemTyped, Memory, Goto, storeVars, lockVars, toolVars
<1>3. ASSUME NEW e \in Execs, ClearPause(e) PROVE RepairKnows'
  BY <1>3, ProcAssumption DEF ClearPause, RepairKnows, Positioned, Procs, ExecPCs, ToolPCs,
     MemTyped, Memory, Goto, fileVars, lockVars, toolVars
<1>4. ASSUME NEW e \in Execs, CreateJournal(e) PROVE RepairKnows'
  <2>1. CASE Refuse(e)
    BY <1>4, <2>1, QuitRepair DEF CreateJournal, Refuse, Procs
  <2>2. CASE ~Refuse(e)
    <3>1. \A f \in Execs : pc'[f] # "reopen"
      BY <1>4, <2>2, OneOwner DEF CreateJournal, Goto, OwnerPCs, Positioned, Procs
    <3> QED
      BY <3>1 DEF RepairKnows
  <2> QED
    BY <2>1, <2>2
<1>5. ASSUME NEW e \in Execs, AppendHeader(e) PROVE RepairKnows'
  <2>1. \A f \in Execs : pc'[f] # "reopen"
    BY <1>5, OneOwner, ProcAssumption DEF AppendHeader, OwnerPCs, Positioned, Procs, Goto,
       lockVars, toolVars
  <2> QED
    BY <2>1 DEF RepairKnows
<1>6. ASSUME NEW e \in Execs, LoadPrior(e) PROVE RepairKnows'
  <2>1. CASE Refuse(e)
    BY <1>6, <2>1, QuitRepair DEF LoadPrior, Refuse, Procs
  <2>2. CASE ~Refuse(e)
    BY <1>6, <2>2, ProcAssumption DEF LoadPrior, RepairKnows, Positioned, Procs, ExecPCs,
       ToolPCs, MemTyped, Memory, Goto, storeVars, lockVars, toolVars
  <2> QED
    BY <2>1, <2>2
<1>7. ASSUME NEW e \in Execs, RepairRead(e) PROVE RepairKnows'
  <2>1. CASE Refuse(e)
    BY <1>7, <2>1, QuitRepair DEF RepairRead, Refuse, Procs
  <2>2. CASE ~Refuse(e)
    <3>1. /\ mem' = [mem EXCEPT ![e].keep = IF tail THEN Len(lines) ELSE -1]
          /\ UNCHANGED <<lines, tail>>
      BY <1>7, <2>2 DEF RepairRead, storeVars
    <3>2. mem'[e].keep = (IF tail THEN Len(lines) ELSE -1)
      BY <3>1 DEF MemTyped, Memory
    <3>3. \A f \in Execs : pc'[f] = "reopen" => f = e
      BY <1>7, <2>2, OneOwner DEF RepairRead, Goto, OwnerPCs, Positioned, Procs
    <3> QED
      BY <3>1, <3>2, <3>3 DEF RepairKnows
  <2> QED
    BY <2>1, <2>2
<1>8. ASSUME NEW e \in Execs, Reopen(e) PROVE RepairKnows'
  <2>1. \A f \in Execs : pc'[f] # "reopen"
    BY <1>8, OneOwner, ProcAssumption DEF Reopen, OwnerPCs, Positioned, Procs, Goto,
       lockVars, toolVars
  <2> QED
    BY <2>1 DEF RepairKnows
<1>9. ASSUME NEW e \in Execs, Setup(e) PROVE RepairKnows'
  <2>1. \A f \in Execs : pc'[f] # "reopen"
    BY <1>9, OneOwner, ProcAssumption DEF Setup, OwnerPCs, Positioned, Procs, Goto,
       lockVars, toolVars
  <2> QED
    BY <2>1 DEF RepairKnows
<1>10. ASSUME NEW e \in Execs, Scheduling(e) PROVE RepairKnows'
  <2>1. \A f \in Execs : pc'[f] # "reopen"
    BY <1>10, SchedulingFrame, OneOwner DEF OwnerPCs
  <2> QED
    BY <2>1 DEF RepairKnows
<1>11. ASSUME NEW e \in Execs, EndRun(e) PROVE RepairKnows'
  <2>1. \A f \in Execs : pc'[f] # "reopen"
    BY <1>11, OneOwner, ProcAssumption DEF EndRun, OwnerPCs, Positioned, Procs, Goto,
       lockVars, toolVars
  <2> QED
    BY <2>1 DEF RepairKnows
<1>12. ASSUME NEW e \in Execs, Close(e) PROVE RepairKnows'
  BY <1>12, QuitRepair DEF Close, Refuse, Procs
<1>13. ASSUME NEW p \in Procs, LockOpen(p) PROVE RepairKnows'
  <2>1. CASE Refuse(p)
    BY <1>13, <2>1, QuitRepair DEF LockOpen, Refuse, Procs
  <2>2. CASE ~Refuse(p)
    BY <1>13, <2>2, ProcAssumption DEF LockOpen, RepairKnows, Positioned, Procs, ExecPCs,
       ToolPCs, MemTyped, Memory, Goto, fileVars, toolVars
  <2> QED
    BY <2>1, <2>2
<1>14. ASSUME NEW p \in Procs, LockTake(p) PROVE RepairKnows'
  <2>1. CASE Refuse(p)
    BY <1>14, <2>1, QuitRepair DEF LockTake, Refuse, Procs
  <2>2. CASE ~Refuse(p)
    BY <1>14, <2>2, ProcAssumption DEF LockTake, RepairKnows, Positioned, Procs, ExecPCs,
       ToolPCs, MemTyped, Memory, Goto, storeVars, toolVars
  <2> QED
    BY <2>1, <2>2
<1>15. ASSUME NEW p \in Procs, Crash(p) PROVE RepairKnows'
  <2>1. CASE UNCHANGED tail
    BY <1>15, <2>1, QuitRepair DEF Crash
  <2>2. CASE pc[p] \in {"header", "setup", "run"}
    <3>1. p \in Execs
      BY <2>2, ProcAssumption DEF Positioned, Procs
    <3>2. \A f \in Execs : pc'[f] # "reopen"
      BY <1>15, <2>2, <3>1, OneOwner DEF Crash, Quit, Goto, OwnerPCs, Positioned, Procs
    <3> QED
      BY <3>2 DEF RepairKnows
  <2> QED
    BY <1>15, <2>1, <2>2 DEF Crash
<1>16. ASSUME NEW p \in {Pauser, Pruner}, ProbeTake(p) PROVE RepairKnows'
  BY <1>16, ProcAssumption DEF ProbeTake, RepairKnows, Positioned, Procs, ExecPCs, ToolPCs,
     MemTyped, Memory, Goto, storeVars, toolVars
<1>17. ASSUME NEW p \in {Pauser, Pruner}, ProbeDrop(p) PROVE RepairKnows'
  BY <1>17, ProcAssumption DEF ProbeDrop, RepairKnows, Positioned, Procs, ExecPCs, ToolPCs,
     MemTyped, Memory, Goto, Release, fileVars, toolVars
<1>18. ASSUME NEW p \in {Pauser, Pruner}, ProbeLive(p) PROVE RepairKnows'
  <2>1. CASE Refuse(p)
    BY <1>18, <2>1, QuitRepair DEF ProbeLive, Refuse, Procs
  <2>2. CASE ~Refuse(p)
    BY <1>18, <2>2, ProcAssumption DEF ProbeLive, RepairKnows, Positioned, Procs, ExecPCs,
       ToolPCs, MemTyped, Memory, Goto, Release, fileVars
  <2> QED
    BY <2>1, <2>2
<1>19. ASSUME PauseStat PROVE RepairKnows'
  BY <1>19, ProcAssumption DEF PauseStat, RepairKnows, Positioned, Procs, ExecPCs, ToolPCs,
     MemTyped, Memory, Goto, storeVars, toolVars, ProbeOpen
<1>20. ASSUME WriteMarker PROVE RepairKnows'
  BY <1>20, ProcAssumption DEF WriteMarker, RepairKnows, Positioned, Procs, ExecPCs,
     ToolPCs, MemTyped, Memory, Goto, fileVars, lockVars
<1>21. ASSUME PruneAudit PROVE RepairKnows'
  BY <1>21, ProcAssumption DEF PruneAudit, RepairKnows, Positioned, Procs, ExecPCs,
     ToolPCs, MemTyped, Memory, Goto, storeVars, ProbeOpen
<1>22. ASSUME PruneDecide PROVE RepairKnows'
  <2>1. CASE Refuse(Pruner)
    BY <1>22, <2>1, QuitRepair DEF PruneDecide, Refuse, Procs
  <2>2. CASE ~Refuse(Pruner)
    BY <1>22, <2>2, ProcAssumption DEF PruneDecide, RepairKnows, Positioned, Procs,
       ExecPCs, ToolPCs, MemTyped, Memory, Goto, storeVars, lockVars, toolVars
  <2> QED
    BY <2>1, <2>2
<1>23. ASSUME PruneJournal PROVE RepairKnows'
  <2>1. \A f \in Execs : pc'[f] # "reopen"
    BY <1>23, OneOwner, ProcAssumption DEF PruneJournal, OwnerPCs, Positioned, Procs, Goto,
       lockVars
  <2> QED
    BY <2>1 DEF RepairKnows
<1>24. ASSUME NEW x \in {"journal", "lock", "marker"}, PruneUnlink(x) PROVE RepairKnows'
  BY <1>24, ProcAssumption DEF PruneUnlink, RepairKnows, Positioned, Procs, ExecPCs,
     ToolPCs, MemTyped, Memory, lockVars
<1>25. ASSUME PruneRmdir PROVE RepairKnows'
  BY <1>25, ProcAssumption DEF PruneRmdir, RepairKnows, Positioned, Procs, ExecPCs,
     ToolPCs, MemTyped, Memory, Goto, lockVars, toolVars
<1>26. ASSUME PruneRelease PROVE RepairKnows'
  BY <1>26, QuitRepair DEF PruneRelease, Refuse, Procs
<1> QED
  BY <1>1, <1>2, <1>3, <1>4, <1>5, <1>6, <1>7, <1>8, <1>9, <1>10, <1>11, <1>12, <1>13,
     <1>14, <1>15, <1>16, <1>17, <1>18, <1>19, <1>20, <1>21, <1>22, <1>23, <1>24, <1>25,
     <1>26 DEF Next, OpenRun, Work, Prune, Scheduling

\* A process that goes leaves the marker as recent as it was.
LEMMA QuitFresh ==
  ASSUME Fresh, Positioned, NEW p \in Procs, Quit(p), pc[p] # "new"
  PROVE  Fresh'
BY ProcAssumption DEF Fresh, Cleared, Positioned, Procs, ExecPCs, ToolPCs, NoMarker, Quit,
   Goto, Release

\* ClearPause leaves no marker older than the execution that cleared.
LEMMA FreshStep ==
  ASSUME Fresh, Positioned, MemTyped, Next
  PROVE  Fresh'
<1>1. ASSUME NEW e \in Execs, Begin(e) PROVE Fresh'
  BY <1>1, ProcAssumption DEF Begin, Fresh, Cleared, Positioned, Procs, ExecPCs, ToolPCs,
     NoMarker, Goto, fileVars, lockVars, toolVars
<1>2. ASSUME NEW e \in Execs, Resume(e) PROVE Fresh'
  BY <1>2, ProcAssumption DEF Resume, Fresh, Cleared, Positioned, Procs, ExecPCs, ToolPCs,
     NoMarker, Goto, storeVars, lockVars, toolVars
<1>3. ASSUME NEW e \in Execs, ClearPause(e) PROVE Fresh'
  BY <1>3, ProcAssumption DEF ClearPause, Fresh, Cleared, Positioned, Procs, ExecPCs,
     ToolPCs, NoMarker, Goto, fileVars, lockVars, toolVars
<1>4. ASSUME NEW e \in Execs, CreateJournal(e) PROVE Fresh'
  <2>1. CASE Quit(e)
    BY <1>4, <2>1, QuitFresh DEF CreateJournal, Procs
  <2>2. CASE ~Quit(e)
    BY <1>4, <2>2, ProcAssumption DEF CreateJournal, Refuse, Fresh, Cleared, Positioned,
       Procs, ExecPCs, ToolPCs, NoMarker, Goto, lockVars, toolVars
  <2> QED
    BY <2>1, <2>2
<1>5. ASSUME NEW e \in Execs, AppendHeader(e) PROVE Fresh'
  BY <1>5, ProcAssumption DEF AppendHeader, Fresh, Cleared, Positioned, Procs, ExecPCs,
     ToolPCs, NoMarker, Goto, lockVars, toolVars
<1>6. ASSUME NEW e \in Execs, LoadPrior(e) PROVE Fresh'
  <2>1. CASE Quit(e)
    BY <1>6, <2>1, QuitFresh DEF LoadPrior, Procs
  <2>2. CASE ~Quit(e)
    BY <1>6, <2>2, ProcAssumption DEF LoadPrior, Refuse, Fresh, Cleared, Positioned, Procs,
       ExecPCs, ToolPCs, NoMarker, Goto, storeVars, lockVars, toolVars
  <2> QED
    BY <2>1, <2>2
<1>7. ASSUME NEW e \in Execs, RepairRead(e) PROVE Fresh'
  <2>1. CASE Quit(e)
    BY <1>7, <2>1, QuitFresh DEF RepairRead, Procs
  <2>2. CASE ~Quit(e)
    BY <1>7, <2>2, ProcAssumption DEF RepairRead, Refuse, Fresh, Cleared, Positioned,
       Procs, ExecPCs, ToolPCs, NoMarker, Goto, storeVars, lockVars, toolVars
  <2> QED
    BY <2>1, <2>2
<1>8. ASSUME NEW e \in Execs, Reopen(e) PROVE Fresh'
  BY <1>8, ProcAssumption DEF Reopen, Fresh, Cleared, Positioned, Procs, ExecPCs, ToolPCs,
     NoMarker, Goto, lockVars, toolVars
<1>9. ASSUME NEW e \in Execs, Setup(e) PROVE Fresh'
  BY <1>9, ProcAssumption DEF Setup, Fresh, Cleared, Positioned, Procs, ExecPCs, ToolPCs,
     NoMarker, Goto, lockVars, toolVars
<1>10. ASSUME NEW e \in Execs, Scheduling(e) PROVE Fresh'
  BY <1>10, SchedulingFrame, ProcAssumption DEF Fresh, Cleared, Positioned, Procs, ExecPCs,
     ToolPCs, NoMarker
<1>11. ASSUME NEW e \in Execs, EndRun(e) PROVE Fresh'
  BY <1>11, ProcAssumption DEF EndRun, Fresh, Cleared, Positioned, Procs, ExecPCs, ToolPCs,
     NoMarker, Goto, lockVars, toolVars
<1>12. ASSUME NEW e \in Execs, Close(e) PROVE Fresh'
  BY <1>12, QuitFresh DEF Close, Refuse, Procs
<1>13. ASSUME NEW p \in Procs, LockOpen(p) PROVE Fresh'
  <2>1. CASE Quit(p)
    BY <1>13, <2>1, QuitFresh DEF LockOpen, Procs
  <2>2. CASE ~Quit(p)
    BY <1>13, <2>2, ProcAssumption DEF LockOpen, Refuse, Fresh, Cleared, Positioned, Procs,
       ExecPCs, ToolPCs, NoMarker, Goto, fileVars, toolVars
  <2> QED
    BY <2>1, <2>2
<1>14. ASSUME NEW p \in Procs, LockTake(p) PROVE Fresh'
  <2>1. CASE Quit(p)
    BY <1>14, <2>1, QuitFresh DEF LockTake, Procs
  <2>2. CASE ~Quit(p)
    BY <1>14, <2>2, ProcAssumption DEF LockTake, Refuse, Fresh, Cleared, Positioned, Procs,
       ExecPCs, ToolPCs, NoMarker, Goto, storeVars, toolVars
  <2> QED
    BY <2>1, <2>2
<1>15. ASSUME NEW p \in Procs, Crash(p) PROVE Fresh'
  BY <1>15, QuitFresh DEF Crash, Procs
<1>16. ASSUME NEW p \in {Pauser, Pruner}, ProbeTake(p) PROVE Fresh'
  BY <1>16, ProcAssumption DEF ProbeTake, Fresh, Cleared, Positioned, Procs, ExecPCs,
     ToolPCs, NoMarker, Goto, storeVars, toolVars
<1>17. ASSUME NEW p \in {Pauser, Pruner}, ProbeDrop(p) PROVE Fresh'
  BY <1>17, ProcAssumption DEF ProbeDrop, Fresh, Cleared, Positioned, Procs, ExecPCs,
     ToolPCs, NoMarker, Goto, Release, fileVars, toolVars
<1>18. ASSUME NEW p \in {Pauser, Pruner}, ProbeLive(p) PROVE Fresh'
  <2>1. CASE Quit(p)
    BY <1>18, <2>1, QuitFresh DEF ProbeLive, Procs
  <2>2. CASE ~Quit(p)
    BY <1>18, <2>2, ProcAssumption DEF ProbeLive, Refuse, Fresh, Cleared, Positioned,
       Procs, ExecPCs, ToolPCs, NoMarker, Goto, Release, fileVars
  <2> QED
    BY <2>1, <2>2
<1>19. ASSUME PauseStat PROVE Fresh'
  BY <1>19, ProcAssumption DEF PauseStat, Fresh, Cleared, Positioned, Procs, ExecPCs,
     ToolPCs, NoMarker, Goto, storeVars, toolVars, ProbeOpen
<1>20. ASSUME WriteMarker PROVE Fresh'
  BY <1>20, ProcAssumption DEF WriteMarker, Fresh, Cleared, Positioned, Procs, ExecPCs,
     ToolPCs, NoMarker, Goto, fileVars, lockVars
<1>21. ASSUME PruneAudit PROVE Fresh'
  BY <1>21, ProcAssumption DEF PruneAudit, Fresh, Cleared, Positioned, Procs, ExecPCs,
     ToolPCs, NoMarker, Goto, storeVars, ProbeOpen
<1>22. ASSUME PruneDecide PROVE Fresh'
  <2>1. CASE Quit(Pruner)
    BY <1>22, <2>1, QuitFresh DEF PruneDecide, Procs
  <2>2. CASE ~Quit(Pruner)
    BY <1>22, <2>2, ProcAssumption DEF PruneDecide, Refuse, Fresh, Cleared, Positioned,
       Procs, ExecPCs, ToolPCs, NoMarker, Goto, storeVars, lockVars, toolVars
  <2> QED
    BY <2>1, <2>2
<1>23. ASSUME PruneJournal PROVE Fresh'
  BY <1>23, ProcAssumption DEF PruneJournal, Fresh, Cleared, Positioned, Procs, ExecPCs,
     ToolPCs, NoMarker, Goto, lockVars
<1>24. ASSUME NEW x \in {"journal", "lock", "marker"}, PruneUnlink(x) PROVE Fresh'
  BY <1>24, ProcAssumption DEF PruneUnlink, Fresh, Cleared, Positioned, Procs, ExecPCs,
     ToolPCs, NoMarker, lockVars
<1>25. ASSUME PruneRmdir PROVE Fresh'
  BY <1>25, ProcAssumption DEF PruneRmdir, Fresh, Cleared, Positioned, Procs, ExecPCs,
     ToolPCs, NoMarker, Goto, lockVars, toolVars
<1>26. ASSUME PruneRelease PROVE Fresh'
  BY <1>26, QuitFresh DEF PruneRelease, Refuse, Procs
<1> QED
  BY <1>1, <1>2, <1>3, <1>4, <1>5, <1>6, <1>7, <1>8, <1>9, <1>10, <1>11, <1>12, <1>13,
     <1>14, <1>15, <1>16, <1>17, <1>18, <1>19, <1>20, <1>21, <1>22, <1>23, <1>24, <1>25,
     <1>26 DEF Next, OpenRun, Work, Prune, Scheduling

\* The empty directory satisfies the inductive invariant.
LEMMA InitIInv == Init => IInv
<1> SUFFICES ASSUME Init PROVE IInv
  OBVIOUS
<1>1. MemTyped
  BY DEF Init, MemTyped, Memory, Blank
<1>2. LinesTyped
  BY DEF Init, LinesTyped
<1>0. NoMarker \in [on : BOOLEAN, saw : Procs \cup {NoProc}, under : SUBSET Execs]
  BY DEF NoMarker
<1>3. RestTyped
  <2>1. /\ pc \in [Procs -> ExecPCs \cup ToolPCs]
        /\ fd \in [Procs -> Nat] /\ held \in [Procs -> BOOLEAN]
    BY DEF Init, ExecPCs
  <2>2. marker \in [on : BOOLEAN, saw : Procs \cup {NoProc}, under : SUBSET Execs]
    BY <1>0 DEF Init
  <2>3. /\ dir \in BOOLEAN /\ begun \in BOOLEAN /\ linked \in BOOLEAN /\ tail \in BOOLEAN
        /\ saw \in Procs \cup {NoProc} /\ all \in BOOLEAN
        /\ sweep \subseteq {"journal", "lock", "marker"}
    BY DEF Init
  <2>4. lockIno \in Nat /\ nextIno \in Nat \ {0}
    BY DEF Init
  <2> QED
    BY <2>1, <2>2, <2>3, <2>4 DEF RestTyped
<1>6. Positioned
  BY DEF Init, Positioned, Procs, ExecPCs
<1>4. Flocked
  BY ProcAssumption DEF Init, Flocked, LockedPCs, Procs
<1>5. SameInode /\ BeginsOnce /\ Journaled /\ RepairKnows /\ Fresh
  BY ProcAssumption DEF Init, SameInode, AtLock, LockedPCs, Beginning, BeginsOnce,
     Journaled, OwnerPCs, RepairKnows, Fresh, NoMarker, Procs
<1> QED
  BY <1>1, <1>2, <1>3, <1>4, <1>5, <1>6 DEF IInv, Typed

\* Every step, and stuttering, keeps the inductive invariant.
LEMMA Inductive == IInv /\ [Next]_vars => IInv'
<1>1. ASSUME IInv, Next PROVE IInv'
  BY <1>1, MemStep, LinesStep, RestStep, PositionedStep, FlockedStep, BeginsStep,
     InodeStep, JournaledStep, RepairStep, FreshStep DEF IInv, Typed
<1>2. ASSUME IInv, UNCHANGED vars PROVE IInv'
  BY <1>2 DEF IInv, Typed, MemTyped, LinesTyped, RestTyped, Positioned, Flocked, SameInode,
     AtLock, Beginning, BeginsOnce, Journaled, RepairKnows, Fresh, Cleared, vars
<1> QED
  BY <1>1, <1>2

\* The inductive invariant is one.
THEOREM StoreInvariance == Spec => []IInv
BY InitIInv, Inductive, PTL DEF Spec

\* Every variable of the run directory and its processes keeps to its type.
THEOREM StoreTypeCorrect == Spec => []TypeOK
<1>1. IInv => TypeOK
  BY DEF IInv, Typed, MemTyped, LinesTyped, RestTyped, TypeOK
<1> QED
  BY <1>1, StoreInvariance, PTL

\* AcquireRunLock and PruneRuns: at most one execution ever gets to append.
THEOREM SingleAppenderCorrect == Spec => []SingleAppender
<1>1. IInv => SingleAppender
  BY OneOwner DEF IInv, Typed, SingleAppender, Owners, OwnerPCs
<1> QED
  BY <1>1, StoreInvariance, PTL

\* PruneRuns: no prune takes the journal of an execution away.
THEOREM LiveJournalCorrect == Spec => []LiveJournalKept
<1>1. IInv => LiveJournalKept
  BY OneOwner DEF IInv, Typed, LiveJournalKept, Owners, OwnerPCs
<1> QED
  BY <1>1, StoreInvariance, PTL

\* ClearPause: no execution is paused by a marker from before it.
THEOREM PauseIsCurrentCorrect == Spec => []PauseIsCurrent
<1>1. IInv => PauseIsCurrent
  BY DEF IInv, Fresh, PauseIsCurrent, Owners, Cleared
<1> QED
  BY <1>1, StoreInvariance, PTL

\* Only the execution itself, before it runs, or a prune of a dead run removes the marker.
LEMMA PauseStep ==
  ASSUME IInv, Next, NEW e \in Execs, e \in Owners, e \in Owners', marker.on
  PROVE  marker'.on
<1>1. /\ linked /\ pc[Pruner] # "sweep" /\ held[e] /\ fd[e] = lockIno
  BY OneOwner, ProcAssumption DEF IInv, Typed, Positioned, Flocked, SameInode, AtLock,
     LockedPCs, Owners, OwnerPCs, Procs
<1>2. ASSUME NEW f \in Execs, pc[f] = "clear" PROVE FALSE
  <2>1. held[f] /\ fd[f] = lockIno
    BY <1>1, <1>2 DEF IInv, Flocked, SameInode, AtLock, LockedPCs, Procs
  <2>2. e = f
    BY <1>1, <2>1 DEF IInv, Flocked, Procs
  <2> QED
    BY <1>2, <2>2 DEF Owners
<1>3. marker' = marker \/ marker'.on
  <2>1. ASSUME NEW f \in Execs, Begin(f) PROVE marker' = marker \/ marker'.on
    BY <2>1 DEF Begin, fileVars
  <2>2. ASSUME NEW f \in Execs, Resume(f) PROVE marker' = marker \/ marker'.on
    BY <2>2 DEF Resume, storeVars
  <2>3. ASSUME NEW f \in Execs, ClearPause(f) PROVE marker' = marker \/ marker'.on
    BY <2>3, <1>2 DEF ClearPause
  <2>4. ASSUME NEW f \in Execs, CreateJournal(f) PROVE marker' = marker \/ marker'.on
    BY <2>4 DEF CreateJournal, Quit, Refuse
  <2>5. ASSUME NEW f \in Execs, AppendHeader(f) PROVE marker' = marker \/ marker'.on
    BY <2>5 DEF AppendHeader
  <2>6. ASSUME NEW f \in Execs, LoadPrior(f) PROVE marker' = marker \/ marker'.on
    BY <2>6 DEF LoadPrior, Quit, Refuse, storeVars
  <2>7. ASSUME NEW f \in Execs, RepairRead(f) PROVE marker' = marker \/ marker'.on
    BY <2>7 DEF RepairRead, Quit, Refuse, storeVars
  <2>8. ASSUME NEW f \in Execs, Reopen(f) PROVE marker' = marker \/ marker'.on
    BY <2>8 DEF Reopen
  <2>9. ASSUME NEW f \in Execs, Setup(f) PROVE marker' = marker \/ marker'.on
    BY <2>9 DEF Setup
  <2>10. ASSUME NEW f \in Execs, Scheduling(f) PROVE marker' = marker \/ marker'.on
    BY <2>10, SchedulingFrame DEF IInv, Typed
  <2>11. ASSUME NEW f \in Execs, EndRun(f) PROVE marker' = marker \/ marker'.on
    BY <2>11 DEF EndRun
  <2>12. ASSUME NEW f \in Execs, Close(f) PROVE marker' = marker \/ marker'.on
    BY <2>12 DEF Close, Quit, Refuse
  <2>13. ASSUME NEW p \in Procs, LockOpen(p) PROVE marker' = marker \/ marker'.on
    BY <2>13 DEF LockOpen, Quit, Refuse, fileVars
  <2>14. ASSUME NEW p \in Procs, LockTake(p) PROVE marker' = marker \/ marker'.on
    BY <2>14 DEF LockTake, Quit, Refuse, storeVars
  <2>15. ASSUME NEW p \in Procs, Crash(p) PROVE marker' = marker \/ marker'.on
    BY <2>15 DEF Crash, Quit
  <2>16. ASSUME NEW p \in {Pauser, Pruner}, ProbeTake(p) PROVE marker' = marker \/ marker'.on
    BY <2>16 DEF ProbeTake, storeVars
  <2>17. ASSUME NEW p \in {Pauser, Pruner}, ProbeDrop(p) PROVE marker' = marker \/ marker'.on
    BY <2>17 DEF ProbeDrop, fileVars
  <2>18. ASSUME NEW p \in {Pauser, Pruner}, ProbeLive(p) PROVE marker' = marker \/ marker'.on
    BY <2>18 DEF ProbeLive, Quit, Refuse, fileVars
  <2>19. ASSUME PauseStat PROVE marker' = marker \/ marker'.on
    BY <2>19 DEF PauseStat, storeVars
  <2>20. ASSUME WriteMarker PROVE marker' = marker \/ marker'.on
    BY <2>20 DEF WriteMarker, fileVars
  <2>21. ASSUME PruneAudit PROVE marker' = marker \/ marker'.on
    BY <2>21 DEF PruneAudit, storeVars
  <2>22. ASSUME PruneDecide PROVE marker' = marker \/ marker'.on
    BY <2>22 DEF PruneDecide, Quit, Refuse, storeVars
  <2>23. ASSUME PruneJournal PROVE marker' = marker \/ marker'.on
    BY <2>23 DEF PruneJournal
  <2>24. ASSUME NEW x \in {"journal", "lock", "marker"}, PruneUnlink(x) PROVE marker' = marker \/ marker'.on
    BY <2>24, <1>1 DEF PruneUnlink
  <2>25. ASSUME PruneRmdir PROVE marker' = marker \/ marker'.on
    BY <2>25 DEF PruneRmdir
  <2>26. ASSUME PruneRelease PROVE marker' = marker \/ marker'.on
    BY <2>26 DEF PruneRelease, Quit, Refuse
  <2> QED
    BY <2>1, <2>2, <2>3, <2>4, <2>5, <2>6, <2>7, <2>8, <2>9, <2>10, <2>11, <2>12, <2>13,
       <2>14, <2>15, <2>16, <2>17, <2>18, <2>19, <2>20, <2>21, <2>22, <2>23, <2>24, <2>25,
       <2>26 DEF Next, OpenRun, Work, Prune, Scheduling
<1> QED
  BY <1>3

\* A refused resume, or a prune, never removes the request an execution runs
\* under.
THEOREM LivePauseCorrect == Spec => LivePauseKept
<1>1. IInv /\ [Next]_vars =>
        [\A e \in Owners : marker.on /\ ~marker'.on => e \notin Owners']_vars
  BY PauseStep DEF Owners, vars
<1> QED
  BY <1>1, StoreInvariance, PTL DEF Spec, LivePauseKept

\* What an execution with an open journal does to it.
LEMMA SchedulingAppends ==
  ASSUME MemTyped, NEW e \in Execs, Scheduling(e) \/ EndRun(e) \/ Setup(e)
  PROVE  \/ UNCHANGED <<lines, tail>>
         \/ \E r \in Record \ {<<"header">>, <<"bad">>}, err \in BOOLEAN : AppendLine(r, err)
<1> DEFINE R == Record \ {<<"header">>, <<"bad">>}
<1>1. ASSUME NEW k \in {"start", "ok", "failed", "cost"}, NEW s \in Steps PROVE <<k, s>> \in R
  BY <1>1 DEF Record
<1>2. ASSUME NEW st \in Statuses PROVE <<"end", st>> \in R
  BY <1>2 DEF Record
<1>3. EndStatus(e) \in Statuses /\ "aborted" \in Statuses
  BY DEF EndStatus, Statuses
<1>4. mem[e].owes \in Steps \cup {NoStep}
  BY DEF MemTyped, Memory
<1> HIDE DEF R
<1>5. CASE EndRun(e) \/ Setup(e)
  BY <1>2, <1>3, <1>5 DEF EndRun, Setup, R
<1>6. CASE Scheduling(e)
  BY <1>1, <1>4, <1>6, VerdictAssumption DEF Scheduling, ProbePause, Hit, Launch,
     StartBox, AppendResult, AppendCost, Cancel, R
<1> QED
  BY <1>5, <1>6

\* The other steps leave the lines alone, and the tail unless a process dies.
LEMMA Quiet ==
  ASSUME Next
  PROVE  \/ UNCHANGED <<lines, tail>>
         \/ \E e \in Execs : \/ Scheduling(e) \/ EndRun(e) \/ Setup(e)
                            \/ AppendHeader(e) \/ CreateJournal(e) \/ Reopen(e)
         \/ PruneJournal
         \/ \E p \in Procs : Crash(p)
<1>1. ASSUME NEW e \in Execs, Begin(e) PROVE UNCHANGED <<lines, tail>>
  BY <1>1 DEF Begin, fileVars
<1>2. ASSUME NEW e \in Execs, Resume(e) PROVE UNCHANGED <<lines, tail>>
  BY <1>2 DEF Resume, storeVars
<1>3. ASSUME NEW e \in Execs, ClearPause(e) PROVE UNCHANGED <<lines, tail>>
  BY <1>3 DEF ClearPause, fileVars
<1>4. ASSUME NEW e \in Execs, LoadPrior(e) PROVE UNCHANGED <<lines, tail>>
  BY <1>4 DEF LoadPrior, Refuse, Quit, storeVars
<1>5. ASSUME NEW e \in Execs, RepairRead(e) PROVE UNCHANGED <<lines, tail>>
  BY <1>5 DEF RepairRead, Refuse, Quit, storeVars
<1>6. ASSUME NEW e \in Execs, Close(e) PROVE UNCHANGED <<lines, tail>>
  BY <1>6 DEF Close, Refuse, Quit
<1>7. ASSUME NEW p \in Procs, LockOpen(p) PROVE UNCHANGED <<lines, tail>>
  BY <1>7 DEF LockOpen, Refuse, Quit, fileVars
<1>8. ASSUME NEW p \in Procs, LockTake(p) PROVE UNCHANGED <<lines, tail>>
  BY <1>8 DEF LockTake, Refuse, Quit, storeVars
<1>9. ASSUME NEW p \in {Pauser, Pruner}, ProbeTake(p) PROVE UNCHANGED <<lines, tail>>
  BY <1>9 DEF ProbeTake, storeVars
<1>10. ASSUME NEW p \in {Pauser, Pruner}, ProbeDrop(p) PROVE UNCHANGED <<lines, tail>>
  BY <1>10 DEF ProbeDrop, fileVars
<1>11. ASSUME NEW p \in {Pauser, Pruner}, ProbeLive(p) PROVE UNCHANGED <<lines, tail>>
  BY <1>11 DEF ProbeLive, Refuse, Quit, fileVars
<1>12. ASSUME PauseStat PROVE UNCHANGED <<lines, tail>>
  BY <1>12 DEF PauseStat, storeVars
<1>13. ASSUME WriteMarker PROVE UNCHANGED <<lines, tail>>
  BY <1>13 DEF WriteMarker, fileVars
<1>14. ASSUME PruneAudit PROVE UNCHANGED <<lines, tail>>
  BY <1>14 DEF PruneAudit, storeVars
<1>15. ASSUME PruneDecide PROVE UNCHANGED <<lines, tail>>
  BY <1>15 DEF PruneDecide, Refuse, Quit, storeVars
<1>16. ASSUME NEW x \in {"journal", "lock", "marker"}, PruneUnlink(x) PROVE UNCHANGED <<lines, tail>>
  BY <1>16 DEF PruneUnlink
<1>17. ASSUME PruneRmdir PROVE UNCHANGED <<lines, tail>>
  BY <1>17 DEF PruneRmdir
<1>18. ASSUME PruneRelease PROVE UNCHANGED <<lines, tail>>
  BY <1>18 DEF PruneRelease, Refuse, Quit
<1> QED
  BY <1>1, <1>2, <1>3, <1>4, <1>5, <1>6, <1>7, <1>8, <1>9, <1>10, <1>11, <1>12, <1>13,
     <1>14, <1>15, <1>16, <1>17, <1>18 DEF Next, OpenRun, Work, Prune, Scheduling

\* No step drops or rewrites a record the journal holds while it is linked.
LEMMA CommittedStep ==
  ASSUME IInv, Next, linked, linked'
  PROVE  Len(lines') >= Len(lines) /\ SubSeq(lines', 1, Len(lines)) = lines
<1> USE DEF IInv, Typed
<1>1. lines \in Seq(Record) /\ SubSeq(lines, 1, Len(lines)) = lines
  BY DEF LinesTyped
<1>2. CASE lines' = lines
  BY <1>1, <1>2
<1>3. ASSUME NEW r \in Record, NEW err \in BOOLEAN, AppendLine(r, err)
      PROVE  Len(lines') >= Len(lines) /\ SubSeq(lines', 1, Len(lines)) = lines
  <2>1. <<"bad">> \in Record
    BY DEF Record
  <2>2. ASSUME NEW x \in Record
        PROVE  /\ Len(Append(lines, x)) >= Len(lines)
               /\ SubSeq(Append(lines, x), 1, Len(lines)) = lines
    BY <1>1
  <2>3. lines' = lines \/ lines' = Append(lines, <<"bad">>) \/ lines' = Append(lines, r)
    BY <1>3 DEF AppendLine, Wrote
  <2> QED
    BY <1>2, <2>1, <2>2, <2>3
<1>4. ASSUME NEW e \in Execs, Scheduling(e) \/ EndRun(e) \/ Setup(e)
      PROVE  Len(lines') >= Len(lines) /\ SubSeq(lines', 1, Len(lines)) = lines
  BY <1>2, <1>3, <1>4, SchedulingAppends
<1>5. ASSUME NEW e \in Execs, AppendHeader(e)
      PROVE  Len(lines') >= Len(lines) /\ SubSeq(lines', 1, Len(lines)) = lines
  <2>1. <<"header">> \in Record
    BY DEF Record
  <2> QED
    BY <1>3, <1>5, <2>1 DEF AppendHeader
<1>6. ASSUME NEW e \in Execs, CreateJournal(e) PROVE lines' = lines
  BY <1>6 DEF CreateJournal, Refuse, Quit
<1>7. ASSUME NEW e \in Execs, Reopen(e) PROVE lines' = lines
  BY <1>7, ReopenKeeps
<1>8. ~PruneJournal
  BY DEF PruneJournal
<1>9. ASSUME NEW p \in Procs, Crash(p) PROVE lines' = lines
  BY <1>9 DEF Crash, Quit
<1> QED
  BY <1>2, <1>4, <1>5, <1>6, <1>7, <1>8, <1>9, Quiet

\* The journal is append-only: no repair, crash or resume takes a line back.
THEOREM CommittedCorrect == Spec => CommittedKept
<1>1. IInv /\ [Next]_vars =>
        [linked /\ linked' => /\ Len(lines') >= Len(lines)
                              /\ SubSeq(lines', 1, Len(lines)) = lines]_vars
  BY CommittedStep DEF vars
<1> QED
  BY <1>1, StoreInvariance, PTL DEF Spec, CommittedKept

\* Without short writes: the journal is whole, and clean under its owner.
Whole ==
  /\ linked /\ lines # <<>> =>
       lines[1] = <<"header">> /\ \A i \in DOMAIN lines : lines[i] # <<"bad">>
  /\ \A e \in Execs :
       /\ pc[e] \in {"setup", "run"} => ~tail /\ lines # <<>>
       /\ pc[e] = "header" => ~tail /\ lines = <<>>
       /\ pc[e] \in {"repair", "reopen"} => lines # <<>>

\* Without torn appends, every step leaves a journal that Load accepts.
LEMMA WholeStep ==
  ASSUME "torn" \notin AppendFaults, IInv, Whole, Next
  PROVE  Whole'
<1> USE DEF IInv, Typed
<1>1. lines \in Seq(Record)
  BY DEF LinesTyped
<1>2. ASSUME NEW e \in Execs, pc[e] \in {"setup", "run"}, pc'[e] \in {"setup", "run", "close"},
             \A f \in Execs \ {e} : pc'[f] = pc[f], linked' = linked,
             \/ UNCHANGED <<lines, tail>>
             \/ \E r \in Record \ {<<"header">>, <<"bad">>}, err \in BOOLEAN : AppendLine(r, err)
      PROVE  Whole'
  <2>1. ~tail /\ lines # <<>> /\ linked
    BY <1>2, OneOwner DEF Whole, OwnerPCs
  <2>2. \A f \in Execs \ {e} : pc'[f] \notin OwnerPCs
    BY <1>2, OneOwner DEF OwnerPCs
  <2>3. CASE UNCHANGED <<lines, tail>>
    BY <1>2, <2>1, <2>2, <2>3 DEF Whole, OwnerPCs
  <2>4. ASSUME NEW r \in Record \ {<<"header">>, <<"bad">>}, NEW err \in BOOLEAN, AppendLine(r, err)
        PROVE  Whole'
    <3>1. ~tail' /\ (lines' = lines \/ lines' = Append(lines, r))
      BY <2>1, <2>4 DEF AppendLine, Wrote
    <3>2. lines' # <<>> /\ lines'[1] = <<"header">> /\ \A i \in DOMAIN lines' : lines'[i] # <<"bad">>
      BY <1>1, <2>1, <3>1 DEF Whole
    <3> QED
      BY <1>2, <2>2, <3>1, <3>2 DEF Whole, OwnerPCs
  <2> QED
    BY <1>2, <2>3, <2>4
<1>3. ASSUME NEW e \in Execs, Scheduling(e) \/ EndRun(e) \/ Setup(e) PROVE Whole'
  <2>1. /\ pc[e] \in {"setup", "run"} /\ pc'[e] \in {"setup", "run", "close"}
        /\ \A f \in Execs \ {e} : pc'[f] = pc[f]
        /\ linked' = linked
    BY <1>3, SchedulingFrame DEF EndRun, Setup, Goto, Positioned, Procs
  <2> QED
    BY <1>2, <1>3, <2>1, SchedulingAppends
<1>4. ASSUME NEW e \in Execs, AppendHeader(e) PROVE Whole'
  <2>1. ~tail /\ lines = <<>> /\ \A f \in Execs \ {e} : pc'[f] \notin OwnerPCs
    BY <1>4, OneOwner DEF AppendHeader, Whole, OwnerPCs, Goto, Positioned, Procs
  <2>2. PICK err \in BOOLEAN : AppendLine(<<"header">>, err) /\ Goto(e, IF err THEN "close" ELSE "setup")
    BY <1>4 DEF AppendHeader
  <2>3. /\ ~tail' /\ (lines' = <<>> \/ lines' = Append(<<>>, <<"header">>))
        /\ ~err => lines' = Append(<<>>, <<"header">>)
    BY <2>1, <2>2 DEF AppendLine, Wrote
  <2>4. Append(<<>>, <<"header">>) = << <<"header">> >>
    OBVIOUS
  <2> QED
    BY <2>1, <2>2, <2>3, <2>4 DEF Whole, OwnerPCs, Goto, Positioned, Procs
<1>5. ASSUME NEW e \in Execs, CreateJournal(e) PROVE Whole'
  <2>1. CASE Refuse(e)
    BY <2>1, <1>5 DEF Refuse, Quit, Goto, Whole, Positioned, Procs
  <2>2. CASE ~Refuse(e)
    <3>1. \A f \in Execs : pc[f] \notin OwnerPCs
      BY <1>5, <2>2, OneOwner DEF CreateJournal
    <3> QED
      BY <1>5, <2>2, <3>1 DEF CreateJournal, Goto, Whole, OwnerPCs, Positioned, Procs
  <2> QED
    BY <2>1, <2>2
<1>6. ASSUME NEW e \in Execs, Reopen(e) PROVE Whole'
  <2>1. linked /\ lines # <<>> /\ \A f \in Execs \ {e} : pc[f] \notin OwnerPCs
    BY <1>6, OneOwner DEF Reopen, Whole, OwnerPCs
  <2>2. lines' = lines /\ linked'
    BY <1>6, <2>1, ReopenKeeps DEF Reopen
  <2>3. ~tail'
    <3>1. mem[e].keep = (IF tail THEN Len(lines) ELSE -1)
      BY <1>6 DEF Reopen, RepairKnows
    <3> QED
      BY <1>1, <1>6, <2>1, <3>1 DEF Reopen, RestTyped
  <2> QED
    BY <1>6, <2>1, <2>2, <2>3 DEF Reopen, Goto, Whole, OwnerPCs, Positioned, Procs
<1>7. CASE PruneJournal
  <2>1. \A f \in Execs : pc[f] \notin OwnerPCs
    BY <1>7, OneOwner DEF PruneJournal
  <2> QED
    BY <1>7, <2>1, ProcAssumption DEF PruneJournal, Goto, Whole, OwnerPCs, Positioned,
       Procs
<1>8. ASSUME NEW p \in Procs, Crash(p) PROVE Whole'
  <2>1. CASE UNCHANGED tail
    BY <1>8, <2>1 DEF Crash, Quit, Goto, Whole, Positioned, Procs
  <2>2. CASE pc[p] \in {"header", "setup", "run"}
    <3>1. p \in Execs
      BY <2>2, ProcAssumption DEF Positioned, Procs
    <3>2. \A f \in Execs : pc'[f] \notin OwnerPCs
      BY <1>8, <2>2, <3>1, OneOwner DEF Crash, Quit, Goto, OwnerPCs, Positioned, Procs
    <3> QED
      BY <1>8, <3>2 DEF Crash, Quit, Whole, OwnerPCs
  <2> QED
    BY <1>8, <2>1, <2>2 DEF Crash
<1>9. CASE UNCHANGED <<lines, tail>>
  <2>1. ASSUME NEW e \in Execs, Begin(e) PROVE Whole'
    BY <1>9, <2>1, ProcAssumption DEF Begin, Whole, Goto, fileVars, Positioned, Procs
  <2>2. ASSUME NEW e \in Execs, Resume(e) PROVE Whole'
    BY <1>9, <2>2, ProcAssumption DEF Resume, Whole, Goto, storeVars, Positioned, Procs
  <2>3. ASSUME NEW e \in Execs, ClearPause(e) PROVE Whole'
    BY <1>9, <2>3, ProcAssumption DEF ClearPause, Whole, Goto, fileVars, Positioned, Procs
  <2>4. ASSUME NEW e \in Execs, LoadPrior(e) PROVE Whole'
    BY <1>9, <2>4, ProcAssumption DEF LoadPrior, Whole, Refuse, Quit, Goto, storeVars,
       Positioned, Procs, Loads
  <2>5. ASSUME NEW e \in Execs, RepairRead(e) PROVE Whole'
    BY <1>9, <2>5, ProcAssumption DEF RepairRead, Whole, Refuse, Quit, Goto, storeVars,
       Positioned, Procs
  <2>6. ASSUME NEW e \in Execs, Close(e) PROVE Whole'
    BY <1>9, <2>6, ProcAssumption DEF Close, Whole, Refuse, Quit, Goto, Positioned, Procs
  <2>7. ASSUME NEW p \in Procs, LockOpen(p) PROVE Whole'
    BY <1>9, <2>7, ProcAssumption DEF LockOpen, Whole, Refuse, Quit, Goto, fileVars,
       Positioned, Procs
  <2>8. ASSUME NEW p \in Procs, LockTake(p) PROVE Whole'
    BY <1>9, <2>8, ProcAssumption DEF LockTake, Whole, Refuse, Quit, Goto, storeVars,
       Positioned, Procs
  <2>9. ASSUME NEW p \in {Pauser, Pruner}, ProbeTake(p) PROVE Whole'
    BY <1>9, <2>9, ProcAssumption DEF ProbeTake, Whole, Goto, storeVars, Positioned, Procs
  <2>10. ASSUME NEW p \in {Pauser, Pruner}, ProbeDrop(p) PROVE Whole'
    BY <1>9, <2>10, ProcAssumption DEF ProbeDrop, Whole, Goto, fileVars, Positioned, Procs
  <2>11. ASSUME NEW p \in {Pauser, Pruner}, ProbeLive(p) PROVE Whole'
    BY <1>9, <2>11, ProcAssumption DEF ProbeLive, Whole, Refuse, Quit, Goto, fileVars,
       Positioned, Procs
  <2>12. ASSUME PauseStat PROVE Whole'
    BY <1>9, <2>12, ProcAssumption DEF PauseStat, Whole, Goto, storeVars, Positioned,
       Procs, ProbeOpen
  <2>13. ASSUME WriteMarker PROVE Whole'
    BY <1>9, <2>13, ProcAssumption DEF WriteMarker, Whole, Goto, fileVars, Positioned,
       Procs
  <2>14. ASSUME PruneAudit PROVE Whole'
    BY <1>9, <2>14, ProcAssumption DEF PruneAudit, Whole, Goto, storeVars, Positioned,
       Procs, ProbeOpen
  <2>15. ASSUME PruneDecide PROVE Whole'
    BY <1>9, <2>15, ProcAssumption DEF PruneDecide, Whole, Refuse, Quit, Goto, storeVars,
       Positioned, Procs
  <2>16. ASSUME NEW x \in {"journal", "lock", "marker"}, PruneUnlink(x) PROVE Whole'
    <3>1. ~linked /\ ~linked' /\ pc' = pc
      BY <2>16 DEF PruneUnlink, Journaled
    <3> QED
      BY <1>9, <3>1 DEF Whole
  <2>17. ASSUME PruneRmdir PROVE Whole'
    BY <1>9, <2>17, ProcAssumption DEF PruneRmdir, Whole, Goto, Positioned, Procs
  <2>18. ASSUME PruneRelease PROVE Whole'
    BY <1>9, <2>18, ProcAssumption DEF PruneRelease, Whole, Refuse, Quit, Goto, Positioned,
       Procs
  <2> QED
    BY <1>3, <1>4, <1>5, <1>6, <1>7, <1>8, <2>1, <2>2, <2>3, <2>4, <2>5, <2>6, <2>7, <2>8,
       <2>9, <2>10, <2>11, <2>12, <2>13, <2>14, <2>15, <2>16, <2>17, <2>18 DEF Next,
       OpenRun, Work, Prune, Scheduling
<1> QED
  BY <1>3, <1>4, <1>5, <1>6, <1>7, <1>8, <1>9, Quiet

\* Load and repairTornTail: if no append is written in part by a process that
\* lives on, whatever crashes leave can be replayed.
THEOREM ReplayCorrect ==
  ASSUME "torn" \notin AppendFaults
  PROVE  Spec => []Replayable
<1>1. Init => Whole
  BY DEF Init, Whole, Procs
<1>2. IInv /\ Whole /\ [Next]_vars => Whole'
  BY WholeStep DEF Whole, vars
<1>3. Whole => Replayable
  BY DEF Whole, Replayable, Loads
<1> QED
  BY <1>1, <1>2, <1>3, StoreInvariance, PTL DEF Spec

\* An appended line comes after all others, which stay.
LEMMA OneMoreLine ==
  ASSUME LinesTyped, NEW r \in Record, lines' = Append(lines, r)
  PROVE  /\ Len(lines') = Len(lines) + 1 /\ Len(lines) \in Nat
         /\ lines'[Len(lines) + 1] = r
         /\ \A i \in DOMAIN lines : i \in DOMAIN lines' /\ lines'[i] = lines[i]
                                    /\ i \in Nat /\ i < Len(lines) + 1
         /\ \A i \in DOMAIN lines' : i \in DOMAIN lines \/ i = Len(lines) + 1
BY DEF LinesTyped

\* The lines after an append of r: as before, r added, or a fragment with r.
Grown(r) == lines' \in {lines, Append(lines, r), Append(lines, <<"bad">>)}

\* What one step of the scheduler appends, and what it remembers of it: a step of
\* the workflow is sent, started, or settled with the line that says so.
Scheduled(e) ==
  \/ lines' = lines /\ mem'[e].task = mem[e].task
  \/ \E s \in Steps :
    \/ /\ lines' = lines
       /\ mem[e].task[s] = "todo" /\ s \notin mem[e].prior
       /\ mem'[e].task = [mem[e].task EXCEPT ![s] = "sent"]
    \/ Grown(<<"cost", s>>) /\ mem'[e].task = mem[e].task /\ s = mem[e].owes
    \/ /\ Grown(<<"start", s>>)
       /\ mem[e].task[s] = "sent" /\ mem'[e].task = [mem[e].task EXCEPT ![s] = "boxed"]
    \/ \E st \in {"ok", "failed"} :
         /\ Grown(<<st, s>>) /\ mem[e].task[s] # "done"
         /\ st = "failed" => mem[e].task[s] \in {"sent", "boxed"}
         /\ mem'[e].task = [mem[e].task EXCEPT ![s] = "done"]
         /\ ~mem'[e].fatal /\ ~tail => lines' = Append(lines, <<st, s>>)

\* The scheduler of e settles steps in the memory of e alone.
LEMMA SchedulingOwn ==
  ASSUME MemTyped, NEW e \in Execs, Scheduling(e)
  PROVE  \A f \in Execs \ {e} : mem'[f] = mem[f]
<1> DEFINE Rest == \A f \in Execs \ {e} : mem'[f] = mem[f]
<1> USE DEF MemTyped
<1>1. CASE ProbePause(e) \/ Cancel(e)
  BY <1>1 DEF ProbePause, Cancel
<1>2. ASSUME NEW s \in Steps, Hit(e, s) PROVE Rest
  BY <1>2 DEF Hit
<1>3. ASSUME NEW s \in Steps, Launch(e, s) PROVE Rest
  BY <1>3 DEF Launch
<1>4. ASSUME NEW s \in Steps, StartBox(e, s) PROVE Rest
  BY <1>4 DEF StartBox
<1>5. ASSUME NEW s \in Steps, NEW st \in Verdicts, AppendResult(e, s, st) PROVE Rest
  BY <1>5 DEF AppendResult
<1>6. CASE AppendCost(e)
  BY <1>6 DEF AppendCost
<1> QED
  BY <1>1, <1>2, <1>3, <1>4, <1>5, <1>6 DEF Scheduling

\* What the scheduler's append error leaves of a memory.
LEMMA FailsOnly ==
  ASSUME NEW m \in Memory, NEW err \in BOOLEAN
  PROVE  /\ Fails(m, err).task = m.task /\ Fails(m, err).prior = m.prior
         /\ Fails(m, err).owes = m.owes
         /\ ~Fails(m, err).fatal => ~m.fatal /\ ~err
BY DEF Fails, Memory

\* One append either writes its record, whole or on top of a fragment, or nothing.
LEMMA AppendGrows ==
  ASSUME NEW r, NEW err \in BOOLEAN, AppendLine(r, err), RestTyped
  PROVE  Grown(r) /\ (~err /\ ~tail => lines' = Append(lines, r))
BY DEF AppendLine, Wrote, Grown, RestTyped

\* Every step of the scheduler is one of these.
LEMMA SchedulingDoes ==
  ASSUME MemTyped, RestTyped, NEW e \in Execs, Scheduling(e)
  PROVE  /\ Scheduled(e)
         /\ mem'[e].prior = mem[e].prior
         /\ ~mem'[e].fatal => ~mem[e].fatal
         /\ \/ mem'[e].owes \in {mem[e].owes, NoStep}
            \/ mem'[e].task[mem'[e].owes] = "done"
<1> DEFINE G == /\ Scheduled(e)
                /\ mem'[e].prior = mem[e].prior
                /\ ~mem'[e].fatal => ~mem[e].fatal
                /\ \/ mem'[e].owes \in {mem[e].owes, NoStep}
                   \/ mem'[e].task[mem'[e].owes] = "done"
<1>0. mem[e] \in Memory /\ e \in DOMAIN mem
  BY DEF MemTyped
<1>1. CASE ProbePause(e)
  BY <1>0, <1>1 DEF ProbePause, Scheduled, Memory
<1>2. ASSUME NEW s \in Steps, Hit(e, s) PROVE G
  <2> DEFINE m == [mem[e] EXCEPT !.task[s] = "done"]
  <2>1. /\ m \in Memory /\ m.task = [mem[e].task EXCEPT ![s] = "done"]
        /\ m.prior = mem[e].prior /\ m.fatal = mem[e].fatal /\ m.owes = mem[e].owes
        /\ mem[e].task[s] # "done"
    BY <1>0, <1>2 DEF Memory, Hit, MayDispatch
  <2>2. PICK err \in BOOLEAN : /\ AppendLine(<<"ok", s>>, err)
                               /\ mem' = [mem EXCEPT ![e] = Fails(m, err)]
    BY <1>2 DEF Hit
  <2> HIDE DEF m
  <2>3. mem'[e] = Fails(m, err)
    BY <1>0, <2>2
  <2>8. /\ mem'[e].task = m.task /\ mem'[e].prior = m.prior /\ mem'[e].owes = m.owes
        /\ ~mem'[e].fatal => ~m.fatal /\ ~err
    BY <2>1, <2>2, <2>3, FailsOnly
  <2>9. Grown(<<"ok", s>>) /\ (~err /\ ~tail => lines' = Append(lines, <<"ok", s>>))
    BY <2>2, AppendGrows
  <2> QED
    BY <2>1, <2>8, <2>9 DEF Scheduled
<1>3. ASSUME NEW s \in Steps, Launch(e, s) PROVE G
  BY <1>0, <1>3 DEF Launch, MayDispatch, Scheduled, Memory
<1>4. ASSUME NEW s \in Steps, StartBox(e, s) PROVE G
  <2>1. PICK err \in BOOLEAN : AppendLine(<<"start", s>>, err)
    BY <1>4 DEF StartBox
  <2>2. Grown(<<"start", s>>)
    BY <2>1, AppendGrows
  <2> QED
    BY <1>0, <1>4, <2>2 DEF StartBox, Scheduled, Memory
<1>5. ASSUME NEW s \in Steps, NEW st \in Verdicts, AppendResult(e, s, st) PROVE G
  <2> DEFINE m == [mem[e] EXCEPT !.task[s] = "done",
                     !.owes = IF mem[e].task[s] = "boxed" THEN s ELSE NoStep]
  <2>1. /\ m \in Memory /\ m.task = [mem[e].task EXCEPT ![s] = "done"]
        /\ m.prior = mem[e].prior /\ m.fatal = mem[e].fatal
        /\ m.owes = NoStep \/ m.task[m.owes] = "done"
    BY <1>0 DEF Memory
  <2>2. PICK err \in BOOLEAN : /\ AppendLine(<<st, s>>, err)
                               /\ mem' = [mem EXCEPT ![e] = Fails(m, err)]
    BY <1>5 DEF AppendResult
  <2> HIDE DEF m
  <2>3. mem'[e] = Fails(m, err)
    BY <1>0, <2>2
  <2>4. st \in {"ok", "failed"} /\ mem[e].task[s] \in {"sent", "boxed"}
    BY <1>5, VerdictAssumption DEF AppendResult
  <2>8. /\ mem'[e].task = m.task /\ mem'[e].prior = m.prior /\ mem'[e].owes = m.owes
        /\ ~mem'[e].fatal => ~m.fatal /\ ~err
    BY <2>1, <2>2, <2>3, FailsOnly
  <2>9. Grown(<<st, s>>) /\ (~err /\ ~tail => lines' = Append(lines, <<st, s>>))
    BY <2>2, AppendGrows
  <2> QED
    BY <2>1, <2>4, <2>8, <2>9 DEF Scheduled
<1>6. CASE AppendCost(e)
  <2> DEFINE m == [mem[e] EXCEPT !.owes = NoStep]
  <2>1. /\ m \in Memory /\ m.task = mem[e].task
        /\ m.prior = mem[e].prior /\ m.fatal = mem[e].fatal /\ m.owes = NoStep
    BY <1>0 DEF Memory
  <2>2. PICK err \in BOOLEAN : /\ AppendLine(<<"cost", mem[e].owes>>, err)
                               /\ mem' = [mem EXCEPT ![e] = Fails(m, err)]
    BY <1>6 DEF AppendCost
  <2> HIDE DEF m
  <2>3. mem'[e] = Fails(m, err)
    BY <1>0, <2>2
  <2>4. mem[e].owes \in Steps
    BY <1>0, <1>6 DEF AppendCost, Memory
  <2>8. /\ mem'[e].task = m.task /\ mem'[e].prior = m.prior /\ mem'[e].owes = m.owes
        /\ ~mem'[e].fatal => ~m.fatal /\ ~err
    BY <2>1, <2>2, <2>3, FailsOnly
  <2>9. Grown(<<"cost", mem[e].owes>>) /\ (~err /\ ~tail => lines' = Append(lines, <<"cost", mem[e].owes>>))
    BY <2>2, AppendGrows
  <2> QED
    BY <2>1, <2>4, <2>8, <2>9 DEF Scheduled
<1>7. CASE Cancel(e)
  BY <1>0, <1>7 DEF Cancel, Scheduled, Memory
<1> QED
  BY <1>1, <1>2, <1>3, <1>4, <1>5, <1>6, <1>7 DEF Scheduling

-----------------------------------------------------------------------------
(* What an execution remembers of the journal                              *)

\* How far one step takes execution f: it ends, it stays, it schedules, it moves
\* on with what it remembers, or it learns what is ok from the journal.
Travels(f) ==
  \/ pc'[f] = "gone" /\ mem'[f] = Blank
  \/ pc'[f] = pc[f] /\ mem'[f] = mem[f]
  \/ Scheduling(f)
  \/ /\ \A x \in {"task", "prior", "fatal", "latched", "owes"} : mem'[f][x] = mem[f][x]
     /\ \/ pc[f] \in {"new", "open", "take", "clear"}
           /\ pc'[f] \in {"open", "take", "clear", "create", "load"}
        \/ pc[f] = "create" /\ pc'[f] = "header" /\ lines' = <<>>
        \/ pc[f] \in {"header", "repair", "reopen"} /\ pc'[f] \in {"reopen", "setup", "close"}
        \/ pc[f] = "setup" /\ pc'[f] = "run" /\ lines' = lines
        \/ pc[f] \in {"setup", "run"} /\ pc'[f] = "close"
  \/ /\ pc[f] = "load" /\ pc'[f] = "repair" /\ lines' = lines
     /\ mem'[f] = [mem[f] EXCEPT !.prior = OkKeys]

\* A process that goes takes only its own memory along.
LEMMA QuitTravels ==
  ASSUME MemTyped, Positioned, NEW f \in Execs, NEW p \in Procs, Quit(p)
  PROVE  Travels(f)
BY ProcAssumption DEF Quit, Goto, Travels, MemTyped, Positioned, Procs

\* Every step takes every execution one of these ways.
LEMMA EveryoneTravels ==
  ASSUME MemTyped, Positioned, Next, NEW f \in Execs
  PROVE  Travels(f)
<1>1. ASSUME NEW e \in Execs, Begin(e) PROVE Travels(f)
  BY <1>1, ProcAssumption DEF Begin, Travels, Goto, MemTyped, Memory, Positioned, Procs,
     ExecPCs, ToolPCs, fileVars, lockVars, toolVars
<1>2. ASSUME NEW e \in Execs, Resume(e) PROVE Travels(f)
  BY <1>2, ProcAssumption DEF Resume, Travels, Goto, MemTyped, Memory, Positioned,
     Procs, ExecPCs, ToolPCs, storeVars, lockVars, toolVars
<1>3. ASSUME NEW e \in Execs, ClearPause(e) PROVE Travels(f)
  BY <1>3, ProcAssumption DEF ClearPause, Travels, Goto, MemTyped, Memory, Positioned,
     Procs, ExecPCs, ToolPCs, fileVars, lockVars, toolVars
<1>4. ASSUME NEW e \in Execs, CreateJournal(e) PROVE Travels(f)
  <2>1. CASE Refuse(e)
    BY <2>1, QuitTravels DEF Refuse, Procs
  <2>2. CASE ~Refuse(e)
    BY <1>4, <2>2, ProcAssumption DEF CreateJournal, Travels, Goto, MemTyped, Memory,
       Positioned, Procs, ExecPCs, ToolPCs, lockVars, toolVars
  <2> QED
    BY <2>1, <2>2
<1>5. ASSUME NEW e \in Execs, AppendHeader(e) PROVE Travels(f)
  BY <1>5, ProcAssumption DEF AppendHeader, Travels, Goto, MemTyped, Memory, Positioned,
     Procs, ExecPCs, ToolPCs, lockVars, toolVars
<1>6. ASSUME NEW e \in Execs, LoadPrior(e) PROVE Travels(f)
  <2>1. CASE Refuse(e)
    BY <2>1, QuitTravels DEF Refuse, Procs
  <2>2. CASE ~Refuse(e)
    BY <1>6, <2>2, ProcAssumption DEF LoadPrior, Travels, Goto, MemTyped, Memory,
       Positioned, Procs, ExecPCs, ToolPCs, storeVars, lockVars, toolVars
  <2> QED
    BY <2>1, <2>2
<1>7. ASSUME NEW e \in Execs, RepairRead(e) PROVE Travels(f)
  <2>1. CASE Refuse(e)
    BY <2>1, QuitTravels DEF Refuse, Procs
  <2>2. CASE ~Refuse(e)
    BY <1>7, <2>2, ProcAssumption DEF RepairRead, Travels, Goto, MemTyped, Memory,
       Positioned, Procs, ExecPCs, ToolPCs, storeVars, lockVars, toolVars
  <2> QED
    BY <2>1, <2>2
<1>8. ASSUME NEW e \in Execs, Reopen(e) PROVE Travels(f)
  BY <1>8, ProcAssumption DEF Reopen, Travels, Goto, MemTyped, Memory, Positioned,
     Procs, ExecPCs, ToolPCs, lockVars, toolVars
<1>9. ASSUME NEW e \in Execs, Setup(e) PROVE Travels(f)
  BY <1>9, ProcAssumption DEF Setup, Travels, Goto, MemTyped, Memory, Positioned, Procs,
     ExecPCs, ToolPCs, lockVars, toolVars
<1>10. ASSUME NEW e \in Execs, Scheduling(e) PROVE Travels(f)
  BY <1>10, SchedulingFrame, SchedulingOwn DEF Travels
<1>11. ASSUME NEW e \in Execs, EndRun(e) PROVE Travels(f)
  BY <1>11, ProcAssumption DEF EndRun, Travels, Goto, MemTyped, Memory, Positioned,
     Procs, ExecPCs, ToolPCs, lockVars, toolVars
<1>12. ASSUME NEW e \in Execs, Close(e) PROVE Travels(f)
  BY <1>12, QuitTravels DEF Close, Refuse, Procs
<1>13. ASSUME NEW p \in Procs, LockOpen(p) PROVE Travels(f)
  <2>1. CASE Refuse(p)
    BY <2>1, QuitTravels DEF Refuse, Procs
  <2>2. CASE ~Refuse(p)
    BY <1>13, <2>2, ProcAssumption DEF LockOpen, Travels, Goto, MemTyped, Memory,
       Positioned, Procs, ExecPCs, ToolPCs, fileVars, toolVars
  <2> QED
    BY <2>1, <2>2
<1>14. ASSUME NEW p \in Procs, LockTake(p) PROVE Travels(f)
  <2>1. CASE Refuse(p)
    BY <2>1, QuitTravels DEF Refuse, Procs
  <2>2. CASE ~Refuse(p)
    BY <1>14, <2>2, ProcAssumption DEF LockTake, Travels, Goto, MemTyped, Memory,
       Positioned, Procs, ExecPCs, ToolPCs, storeVars, toolVars
  <2> QED
    BY <2>1, <2>2
<1>15. ASSUME NEW p \in Procs, Crash(p) PROVE Travels(f)
  BY <1>15, QuitTravels DEF Crash
<1>16. ASSUME NEW p \in {Pauser, Pruner}, ProbeTake(p) PROVE Travels(f)
  BY <1>16, ProcAssumption DEF ProbeTake, Travels, Goto, MemTyped, Memory, Positioned,
     Procs, ExecPCs, ToolPCs, storeVars, toolVars
<1>17. ASSUME NEW p \in {Pauser, Pruner}, ProbeDrop(p) PROVE Travels(f)
  BY <1>17, ProcAssumption DEF ProbeDrop, Travels, Goto, MemTyped, Memory, Positioned,
     Procs, ExecPCs, ToolPCs, fileVars, toolVars
<1>18. ASSUME NEW p \in {Pauser, Pruner}, ProbeLive(p) PROVE Travels(f)
  <2>1. CASE Refuse(p)
    BY <2>1, QuitTravels DEF Refuse, Procs
  <2>2. CASE ~Refuse(p)
    BY <1>18, <2>2, ProcAssumption DEF ProbeLive, Travels, Goto, MemTyped, Memory,
       Positioned, Procs, ExecPCs, ToolPCs, fileVars, Release
  <2> QED
    BY <2>1, <2>2
<1>19. ASSUME PauseStat PROVE Travels(f)
  BY <1>19, ProcAssumption DEF PauseStat, Travels, Goto, MemTyped, Memory, Positioned,
     Procs, ExecPCs, ToolPCs, storeVars, toolVars, ProbeOpen
<1>20. ASSUME WriteMarker PROVE Travels(f)
  BY <1>20, ProcAssumption DEF WriteMarker, Travels, Goto, MemTyped, Memory, Positioned,
     Procs, ExecPCs, ToolPCs, fileVars, lockVars
<1>21. ASSUME PruneAudit PROVE Travels(f)
  BY <1>21, ProcAssumption DEF PruneAudit, Travels, Goto, MemTyped, Memory, Positioned,
     Procs, ExecPCs, ToolPCs, storeVars, ProbeOpen
<1>22. ASSUME PruneDecide PROVE Travels(f)
  <2>1. CASE Refuse(Pruner)
    BY <2>1, QuitTravels DEF Refuse, Procs
  <2>2. CASE ~Refuse(Pruner)
    BY <1>22, <2>2, ProcAssumption DEF PruneDecide, Travels, Goto, MemTyped, Memory,
       Positioned, Procs, ExecPCs, ToolPCs, storeVars, lockVars, toolVars
  <2> QED
    BY <2>1, <2>2
<1>23. ASSUME PruneJournal PROVE Travels(f)
  BY <1>23, ProcAssumption DEF PruneJournal, Travels, Goto, MemTyped, Memory,
     Positioned, Procs, ExecPCs, ToolPCs, lockVars
<1>24. ASSUME NEW x \in {"journal", "lock", "marker"}, PruneUnlink(x) PROVE Travels(f)
  BY <1>24, ProcAssumption DEF PruneUnlink, Travels, Goto, MemTyped, Memory, Positioned,
     Procs, ExecPCs, ToolPCs, lockVars
<1>25. ASSUME PruneRmdir PROVE Travels(f)
  BY <1>25, ProcAssumption DEF PruneRmdir, Travels, Goto, MemTyped, Memory, Positioned,
     Procs, ExecPCs, ToolPCs, lockVars, toolVars
<1>26. ASSUME PruneRelease PROVE Travels(f)
  BY <1>26, QuitTravels DEF PruneRelease, Refuse, Procs
<1> QED
  BY <1>1, <1>2, <1>3, <1>4, <1>5, <1>6, <1>7, <1>8, <1>9, <1>10, <1>11, <1>12, <1>13,
     <1>14, <1>15, <1>16, <1>17, <1>18, <1>19, <1>20, <1>21, <1>22, <1>23, <1>24, <1>25,
     <1>26 DEF Next, OpenRun, Work, Prune, Scheduling

HasOk(s) == \E i \in DOMAIN lines : lines[i] = <<"ok", s>>

\* What the owner of the journal knows: a step with an ok is settled, or it is one
\* that Resume found and not yet touched.
Recalls ==
  \A e \in Execs : pc[e] \in {"header", "repair", "reopen", "setup", "run"} =>
    \A s \in Steps : HasOk(s) =>
      mem[e].task[s] = "done" \/ (s \in mem[e].prior /\ mem[e].task[s] = "todo")

\* Nothing is dispatched before the scheduler runs.
Unspent ==
  \A e \in Execs : pc[e] \notin {"run", "close"} => \A s \in Steps : mem[e].task[s] = "todo"

AdoptInv == OkIsFinal /\ Recalls /\ Unspent

\* A set of numbers has a least one.
LEMMA Smallest ==
  ASSUME NEW B, B \subseteq Nat, B # {}
  PROVE  \E x \in B : \A y \in B : x <= y
<1>1. \E x \in B : \A y \in B : ~(<<y, x>> \in OpToRel(<, Nat))
  BY NatLessThanWellFounded, WFMin
<1>2. PICK x \in B : \A y \in B : ~(<<y, x>> \in OpToRel(<, Nat))
  BY <1>1
<1>3. ASSUME NEW y \in B PROVE x <= y
  <2>1. ~(y < x)
    BY <1>2 DEF OpToRel
  <2> QED
    BY <2>1
<1> QED
  BY <1>3

\* A set of numbers with a bound has a largest one.
LEMMA Largest ==
  ASSUME NEW B, B \subseteq Nat, B # {}, NEW n \in Nat, \A x \in B : x <= n
  PROVE  \E x \in B : \A y \in B : y <= x
<1> DEFINE D == {d \in Nat : \E x \in B : d = n - x}
<1>1. D \subseteq Nat /\ \A y \in B : n - y \in D
  OBVIOUS
<1>2. D # {}
  BY <1>1
<1>3. PICK d \in D : \A c \in D : d <= c
  BY <1>1, <1>2, Smallest
<1>4. PICK x \in B : d = n - x
  OBVIOUS
<1>5. ASSUME NEW y \in B PROVE y <= x
  BY <1>1, <1>3, <1>4
<1> QED
  BY <1>5

\* What Load tells Resume: a step with an ok that nothing superseded is adopted.
LEMMA OkIsAdopted ==
  ASSUME LinesTyped, OkIsFinal, NEW s \in Steps, HasOk(s)
  PROVE  s \in OkKeys
<1>1. PICK i \in DOMAIN lines : lines[i] = <<"ok", s>>
  BY DEF HasOk
<1>2. i \in ResultsOf(s) /\ ResultsOf(s) \subseteq DOMAIN lines
  BY <1>1 DEF ResultsOf
<1>3. DOMAIN lines = 1..Len(lines) /\ Len(lines) \in Nat
  BY DEF LinesTyped
<1>4. PICK k \in ResultsOf(s) : \A j \in ResultsOf(s) : j <= k
  <2>1. ResultsOf(s) \subseteq Nat /\ ResultsOf(s) # {} /\ \A x \in ResultsOf(s) : x <= Len(lines)
    BY <1>2, <1>3
  <2> QED
    BY <1>3, <2>1, Largest
<1>5. lines[k] = <<"ok", s>>
  <2>1. lines[k] \in {<<"ok", s>>, <<"failed", s>>} /\ k \in DOMAIN lines
    BY <1>4 DEF ResultsOf
  <2>2. CASE i = k
    BY <1>1, <2>2
  <2>3. CASE i < k
    BY <1>1, <2>1, <2>3 DEF OkIsFinal
  <2> QED
    BY <1>2, <1>3, <1>4, <2>1, <2>2, <2>3
<1> QED
  BY <1>4, <1>5 DEF OkKeys

\* How one step changes the lines.
LEMMA LinesMove ==
  ASSUME IInv, Next
  PROVE  \/ lines' = lines \/ lines' = <<>>
         \/ \E e \in Execs : Scheduling(e)
         \/ \E e \in Execs, r \in {<<"header">>} \cup ({"end"} \X Statuses) :
              pc[e] \in {"header", "setup", "run"} /\ Grown(r) /\ ~Scheduling(e)
<1> USE DEF IInv, Typed
<1> DEFINE R == {<<"header">>} \cup ({"end"} \X Statuses)
<1>1. ASSUME NEW e \in Execs, NEW r \in R, NEW err \in BOOLEAN, AppendLine(r, err)
      PROVE  Grown(r)
  BY <1>1, AppendGrows
<1>2. ASSUME NEW e \in Execs, EndRun(e)
      PROVE  pc[e] \in {"header", "setup", "run"} /\ \E r \in R : Grown(r)
  <2>1. <<"end", EndStatus(e)>> \in R
    BY DEF EndStatus, Statuses
  <2> QED
    BY <1>1, <1>2, <2>1 DEF EndRun
<1>3. ASSUME NEW e \in Execs, Setup(e)
      PROVE  pc[e] \in {"header", "setup", "run"} /\ \E r \in R : Grown(r)
  <2>1. <<"end", "aborted">> \in R
    BY DEF Statuses
  <2> QED
    BY <1>1, <1>3, <2>1 DEF Setup, Grown
<1>4. ASSUME NEW e \in Execs, AppendHeader(e)
      PROVE  pc[e] \in {"header", "setup", "run"} /\ \E r \in R : Grown(r)
  BY <1>1, <1>4 DEF AppendHeader
<1>5. ASSUME NEW e \in Execs, CreateJournal(e) \/ Reopen(e) PROVE lines' = lines \/ lines' = <<>>
  BY <1>5, ReopenKeeps DEF CreateJournal, Refuse, Quit
<1>6. ASSUME NEW p \in Procs, Crash(p) PROVE lines' = lines
  BY <1>6 DEF Crash, Quit
<1>7. PruneJournal => lines' = <<>>
  BY DEF PruneJournal
<1> HIDE DEF R
<1>8. \/ lines' = lines \/ lines' = <<>>
      \/ \E e \in Execs : Scheduling(e)
      \/ \E e \in Execs, r \in R :
           pc[e] \in {"header", "setup", "run"} /\ Grown(r) /\ ~Scheduling(e)
  BY <1>2, <1>3, <1>4, <1>5, <1>6, <1>7, Quiet
<1> QED
  BY <1>8 DEF R

\* A line more, of no step that has its ok, keeps every ok final.
LEMMA AppendFinal ==
  ASSUME LinesTyped, OkIsFinal, NEW r \in Record, Grown(r),
         \A s \in Steps : HasOk(s) => r # <<"start", s>> /\ r # <<"failed", s>>
  PROVE  OkIsFinal'
<1>1. <<"bad">> \in Record
  BY DEF Record
<1>2. ASSUME NEW q \in Record, lines' = Append(lines, q),
             \A s \in Steps : HasOk(s) => q # <<"start", s>> /\ q # <<"failed", s>>
      PROVE  OkIsFinal'
  <2> SUFFICES ASSUME NEW s \in Steps, NEW i \in DOMAIN lines', NEW j \in DOMAIN lines',
                      i < j, lines'[i] = <<"ok", s>>
               PROVE  lines'[j] \notin {<<"start", s>>, <<"failed", s>>}
    BY DEF OkIsFinal
  <2>1. j \in Nat /\ i \in Nat /\ Len(lines) \in Nat /\ i \in DOMAIN lines
    BY <1>2, OneMoreLine DEF LinesTyped
  <2>2. lines[i] = <<"ok", s>>
    BY <1>2, <2>1, OneMoreLine
  <2>3. CASE j \in DOMAIN lines
    BY <1>2, <2>1, <2>2, <2>3, OneMoreLine DEF OkIsFinal
  <2>4. CASE j = Len(lines) + 1
    BY <1>2, <2>1, <2>2, <2>4, OneMoreLine DEF HasOk
  <2> QED
    BY <1>2, <2>3, <2>4, OneMoreLine
<1>3. lines' = lines => OkIsFinal'
  BY DEF OkIsFinal
<1>4. \A s \in Steps : <<"bad">> # <<"start", s>> /\ <<"bad">> # <<"failed", s>>
  OBVIOUS
<1> QED
  BY <1>1, <1>2, <1>3, <1>4 DEF Grown

\* An ok that is new was appended.
LEMMA AppendOk ==
  ASSUME LinesTyped, NEW r \in Record, Grown(r), NEW s \in Steps, HasOk(s)'
  PROVE  HasOk(s) \/ r = <<"ok", s>>
<1>1. PICK i \in DOMAIN lines' : lines'[i] = <<"ok", s>>
  BY DEF HasOk
<1>2. <<"bad">> \in Record /\ <<"bad">> # <<"ok", s>>
  BY DEF Record
<1>3. lines' = lines => HasOk(s)
  BY <1>1 DEF HasOk
<1>4. ASSUME NEW q \in Record, lines' = Append(lines, q), q # <<"ok", s>> PROVE HasOk(s)
  BY <1>1, <1>4, OneMoreLine DEF HasOk
<1> QED
  BY <1>2, <1>3, <1>4 DEF Grown

\* The scheduler's records are records.
LEMMA ScheduledRecords ==
  ASSUME NEW s \in Steps
  PROVE  /\ <<"cost", s>> \in Record /\ <<"start", s>> \in Record
         /\ \A st \in {"ok", "failed"} : <<st, s>> \in Record
BY DEF Record

\* No step supersedes an ok, since its owner knows of it.
LEMMA FinalStep == IInv /\ AdoptInv /\ Next => OkIsFinal'
<1> SUFFICES ASSUME IInv, AdoptInv, Next PROVE OkIsFinal'
  OBVIOUS
<1> USE DEF IInv, Typed, AdoptInv
<1>1. CASE lines' = lines \/ lines' = <<>>
  BY <1>1 DEF OkIsFinal
<1>2. ASSUME NEW e \in Execs, NEW r \in {<<"header">>} \cup ({"end"} \X Statuses), Grown(r)
      PROVE  OkIsFinal'
  <2>1. r \in Record
    BY DEF Record
  <2>2. \A s \in Steps : r # <<"start", s>> /\ r # <<"failed", s>>
    OBVIOUS
  <2> QED
    BY <1>2, <2>1, <2>2, AppendFinal
<1>3. ASSUME NEW e \in Execs, Scheduling(e) PROVE OkIsFinal'
  <2>1. Scheduled(e) /\ pc[e] = "run"
    BY <1>3, SchedulingDoes, SchedulingFrame
  <2>2. \A s \in Steps : mem[e].task[s] \in {"sent", "boxed"} => ~HasOk(s)
    BY <2>1 DEF Recalls
  <2>3. ASSUME NEW r \in Record, Grown(r),
               \A s \in Steps : HasOk(s) => r # <<"start", s>> /\ r # <<"failed", s>>
        PROVE  OkIsFinal'
    BY <2>3, AppendFinal
  <2>4. CASE lines' = lines
    BY <1>1, <2>4
  <2>5. ASSUME NEW s \in Steps, Grown(<<"cost", s>>) PROVE OkIsFinal'
    BY <2>3, <2>5, ScheduledRecords
  <2>6. ASSUME NEW s \in Steps, Grown(<<"start", s>>), mem[e].task[s] = "sent" PROVE OkIsFinal'
    BY <2>2, <2>3, <2>6, ScheduledRecords
  <2>7. ASSUME NEW s \in Steps, NEW st \in {"ok", "failed"}, Grown(<<st, s>>),
               st = "failed" => mem[e].task[s] \in {"sent", "boxed"}
        PROVE  OkIsFinal'
    BY <2>2, <2>3, <2>7, ScheduledRecords
  <2> QED
    BY <2>1, <2>4, <2>5, <2>6, <2>7 DEF Scheduled
<1> QED
  BY <1>1, <1>2, <1>3, LinesMove

\* Whoever owns the journal keeps knowing its oks: it wrote the new ones itself.
LEMMA RecallsStep == IInv /\ AdoptInv /\ Next => Recalls'
<1> SUFFICES ASSUME IInv, AdoptInv, Next, NEW f \in Execs, NEW s \in Steps,
                    pc'[f] \in {"header", "repair", "reopen", "setup", "run"}, HasOk(s)'
             PROVE  mem'[f].task[s] = "done" \/ (s \in mem'[f].prior /\ mem'[f].task[s] = "todo")
  BY DEF Recalls
<1> USE DEF IInv, Typed, AdoptInv
<1>0. mem[f] \in Memory /\ Travels(f)
  BY EveryoneTravels DEF MemTyped
<1>1. CASE Scheduling(f)
  <2>1. /\ Scheduled(f) /\ pc[f] = "run" /\ mem'[f].prior = mem[f].prior
    BY <1>1, SchedulingDoes, SchedulingFrame
  <2>2. HasOk(s) => mem[f].task[s] = "done" \/ (s \in mem[f].prior /\ mem[f].task[s] = "todo")
    BY <2>1 DEF Recalls
  <2>3. CASE lines' = lines
    <3>1. HasOk(s)
      BY <2>3 DEF HasOk
    <3> QED
      BY <1>0, <2>1, <2>2, <2>3, <3>1 DEF Scheduled, Memory
  <2>4. ASSUME NEW t \in Steps, Grown(<<"cost", t>>), mem'[f].task = mem[f].task
        PROVE  mem'[f].task[s] = "done" \/ (s \in mem'[f].prior /\ mem'[f].task[s] = "todo")
    BY <2>1, <2>2, <2>4, ScheduledRecords, AppendOk
  <2>5. ASSUME NEW t \in Steps, Grown(<<"start", t>>), mem[f].task[t] = "sent",
               mem'[f].task = [mem[f].task EXCEPT ![t] = "boxed"]
        PROVE  mem'[f].task[s] = "done" \/ (s \in mem'[f].prior /\ mem'[f].task[s] = "todo")
    <3>1. HasOk(s)
      BY <2>5, ScheduledRecords, AppendOk
    <3> QED
      BY <1>0, <2>1, <2>2, <2>5, <3>1 DEF Memory
  <2>6. ASSUME NEW t \in Steps, NEW st \in {"ok", "failed"}, Grown(<<st, t>>),
               mem'[f].task = [mem[f].task EXCEPT ![t] = "done"]
        PROVE  mem'[f].task[s] = "done" \/ (s \in mem'[f].prior /\ mem'[f].task[s] = "todo")
    <3>1. HasOk(s) \/ s = t
      BY <2>6, ScheduledRecords, AppendOk
    <3> QED
      BY <1>0, <2>1, <2>2, <2>6, <3>1 DEF Memory
  <2> QED
    BY <1>0, <2>1, <2>3, <2>4, <2>5, <2>6 DEF Scheduled
<1>2. CASE ~Scheduling(f)
  <2>1. ASSUME pc[f] \in {"header", "repair", "reopen", "setup", "run"} PROVE HasOk(s)
    <3>1. \A e \in Execs : ~Scheduling(e)
      BY <1>2, <2>1, OneOwner, SchedulingFrame DEF OwnerPCs
    <3>2. CASE lines' = lines
      BY <3>2 DEF HasOk
    <3>3. lines' # <<>>
      BY DEF HasOk
    <3>4. ASSUME NEW r \in {<<"header">>} \cup ({"end"} \X Statuses), Grown(r) PROVE HasOk(s)
      <4>1. r \in Record /\ r # <<"ok", s>>
        BY DEF Record
      <4> QED
        BY <3>4, <4>1, AppendOk
    <3> QED
      BY <3>1, <3>2, <3>3, <3>4, LinesMove
  <2>2. CASE pc'[f] = pc[f] /\ mem'[f] = mem[f]
    BY <2>1, <2>2 DEF Recalls
  <2>3. CASE pc[f] = "load"
    <3>1. /\ pc'[f] = "repair" /\ lines' = lines
          /\ mem'[f] = [mem[f] EXCEPT !.prior = OkKeys]
      BY <1>0, <1>2, <2>3 DEF Travels
    <3>2. HasOk(s)
      BY <3>1 DEF HasOk
    <3>3. s \in OkKeys
      BY <3>2, OkIsAdopted
    <3> QED
      BY <1>0, <2>3, <3>1, <3>3 DEF Unspent, Memory
  <2>4. CASE pc[f] # "load" /\ ~(pc'[f] = pc[f] /\ mem'[f] = mem[f])
    <3>1. lines' # <<>>
      BY DEF HasOk
    <3>2. /\ mem'[f]["task"] = mem[f]["task"] /\ mem'[f]["prior"] = mem[f]["prior"]
          /\ pc[f] \in {"header", "repair", "reopen", "setup", "run"}
      BY <1>0, <1>2, <2>4, <3>1 DEF Travels
    <3> QED
      BY <2>1, <3>2 DEF Recalls
  <2> QED
    BY <2>2, <2>3, <2>4
<1> QED
  BY <1>1, <1>2

\* Until an execution's scheduler runs, nothing is dispatched for it.
LEMMA UnspentStep == IInv /\ AdoptInv /\ Next => Unspent'
<1> SUFFICES ASSUME IInv, AdoptInv, Next, NEW f \in Execs, NEW s \in Steps,
                    pc'[f] \notin {"run", "close"}
             PROVE  mem'[f].task[s] = "todo"
  BY DEF Unspent
<1> USE DEF IInv, Typed, AdoptInv
<1>0. mem[f] \in Memory /\ Travels(f)
  BY EveryoneTravels DEF MemTyped
<1>1. ~Scheduling(f)
  BY SchedulingFrame
<1>2. CASE pc'[f] = "gone" /\ mem'[f] = Blank
  BY <1>2 DEF Blank
<1>3. CASE pc[f] \notin {"run", "close"} /\ mem'[f].task = mem[f].task
  BY <1>3 DEF Unspent
<1>4. CASE pc[f] = "load" /\ mem'[f] = [mem[f] EXCEPT !.prior = OkKeys]
  BY <1>0, <1>4 DEF Unspent, Memory
<1> QED
  BY <1>0, <1>1, <1>2, <1>3, <1>4 DEF Travels

\* Resume's promise holds of every journal, torn appends included: an ok, once
\* in the journal, is adopted and neither run again nor superseded.
THEOREM OkFinalCorrect == Spec => []OkIsFinal
<1>1. Init => AdoptInv
  BY DEF Init, AdoptInv, OkIsFinal, Recalls, HasOk, Unspent, Blank, Procs
<1>2. IInv /\ AdoptInv /\ [Next]_vars => AdoptInv'
  <2>1. CASE Next
    BY <2>1, FinalStep, RecallsStep, UnspentStep DEF AdoptInv
  <2>2. CASE UNCHANGED vars
    BY <2>2 DEF AdoptInv, OkIsFinal, Recalls, HasOk, Unspent, vars
  <2> QED
    BY <2>1, <2>2
<1>3. AdoptInv => OkIsFinal
  BY DEF AdoptInv
<1> QED
  BY <1>1, <1>2, <1>3, StoreInvariance, PTL DEF Spec

\* What auditRun concludes is right, also of a journal no longer linked.
Honest ==
  Complete =>
    \/ lines[Len(lines)] \in {<<"end", "paused">>, <<"end", "aborted">>}
    \/ \A s \in Steps : Answered(s)

\* What the scheduler takes for settled has its result in the journal, unless an
\* append failed.
Replied ==
  \A e \in Execs : pc[e] = "run" /\ ~mem[e].fatal =>
    \A s \in Steps : mem[e].task[s] = "done" => Answered(s)

\* A line that starts no box leaves the answers as they are.
LEMMA AnswerStays ==
  ASSUME LinesTyped, NEW r \in Record, Grown(r), NEW s \in Steps, Answered(s),
         r # <<"start", s>>
  PROVE  Answered(s)'
<1>1. <<"bad">> \in Record /\ <<"bad">> # <<"start", s>>
  BY DEF Record
<1>2. lines' = lines => Answered(s)'
  BY DEF Answered, ResultsOf
<1>3. ASSUME NEW q \in Record, lines' = Append(lines, q), q # <<"start", s>>
      PROVE  Answered(s)'
  <2>1. ResultsOf(s) \subseteq ResultsOf(s)'
    BY <1>3, OneMoreLine DEF ResultsOf
  <2>2. ASSUME NEW i \in DOMAIN lines', lines'[i] = <<"start", s>>
        PROVE  \E j \in ResultsOf(s)' : j > i
    <3>1. i \in DOMAIN lines /\ lines[i] = <<"start", s>>
      BY <1>3, <2>2, OneMoreLine
    <3> QED
      BY <2>1, <3>1 DEF Answered
  <2>3. ResultsOf(s)' # {}
    BY <2>1 DEF Answered
  <2> QED
    BY <2>2, <2>3 DEF Answered
<1> QED
  BY <1>1, <1>2, <1>3 DEF Grown

\* A result at the end answers every box started before.
LEMMA ResultAnswers ==
  ASSUME LinesTyped, NEW s \in Steps, NEW st \in {"ok", "failed"},
         lines' = Append(lines, <<st, s>>)
  PROVE  Answered(s)'
<1>1. /\ lines'[Len(lines) + 1] = <<st, s>>
      /\ Len(lines) + 1 \in DOMAIN lines'
      /\ \A i \in DOMAIN lines' : i < Len(lines) + 1 \/ i = Len(lines) + 1
  <2>1. <<st, s>> \in Record
    BY ScheduledRecords
  <2>2. lines \in Seq(Record)
    BY DEF LinesTyped
  <2> QED
    BY <2>1, <2>2
<1>2. Len(lines) + 1 \in ResultsOf(s)'
  BY <1>1 DEF ResultsOf
<1>3. ASSUME NEW i \in DOMAIN lines', lines'[i] = <<"start", s>>
      PROVE  \E j \in ResultsOf(s)' : j > i
  <2>1. i # Len(lines) + 1 /\ i < Len(lines) + 1
    BY <1>1, <1>3
  <2>2. Len(lines) \in Nat /\ i \in Nat
    BY <2>1 DEF LinesTyped
  <2> QED
    BY <1>2, <2>1, <2>2
<1> QED
  BY <1>2, <1>3 DEF Answered

\* As long as no append failed, the scheduler settles with a result in the journal.
LEMMA RepliedStep ==
  ASSUME "torn" \notin AppendFaults, IInv, Whole, AdoptInv, Replied, Next
  PROVE  Replied'
<1> SUFFICES ASSUME NEW f \in Execs, NEW s \in Steps, pc'[f] = "run", ~mem'[f].fatal,
                    mem'[f].task[s] = "done"
             PROVE  Answered(s)'
  BY DEF Replied
<1> USE DEF IInv, Typed
<1>0. mem[f] \in Memory /\ Travels(f)
  BY EveryoneTravels DEF MemTyped
<1>1. CASE Scheduling(f)
  <2>1. Scheduled(f) /\ pc[f] = "run" /\ ~mem[f].fatal
    BY <1>1, SchedulingDoes, SchedulingFrame
  <2>2. ~tail
    BY <2>1 DEF Whole
  <2>3. mem[f].task[s] = "done" => Answered(s)
    BY <2>1 DEF Replied
  <2>4. CASE /\ lines' = lines
             /\ \/ mem'[f].task = mem[f].task
                \/ \E t \in Steps : mem'[f].task = [mem[f].task EXCEPT ![t] = "sent"]
    <3>1. mem[f].task[s] = "done"
      BY <1>0, <2>4 DEF Memory
    <3> QED
      BY <2>3, <2>4, <3>1 DEF Answered, ResultsOf
  <2>5. ASSUME NEW t \in Steps, Grown(<<"cost", t>>), mem'[f].task = mem[f].task
        PROVE  Answered(s)'
    BY <2>3, <2>5, ScheduledRecords, AnswerStays
  <2>6. ASSUME NEW t \in Steps, Grown(<<"start", t>>), mem[f].task[t] = "sent",
               mem'[f].task = [mem[f].task EXCEPT ![t] = "boxed"]
        PROVE  Answered(s)'
    <3>1. s # t /\ mem[f].task[s] = "done"
      BY <1>0, <2>6 DEF Memory
    <3>2. <<"start", t>> # <<"start", s>>
      BY <3>1
    <3> QED
      BY <2>3, <2>6, <3>1, <3>2, ScheduledRecords, AnswerStays
  <2>7. ASSUME NEW t \in Steps, NEW st \in {"ok", "failed"}, Grown(<<st, t>>),
               mem'[f].task = [mem[f].task EXCEPT ![t] = "done"],
               lines' = Append(lines, <<st, t>>)
        PROVE  Answered(s)'
    <3>1. CASE s = t
      BY <2>7, <3>1, ResultAnswers
    <3>2. CASE s # t
      <4>1. mem[f].task[s] = "done"
        BY <1>0, <2>7, <3>2 DEF Memory
      <4>2. <<st, t>> # <<"start", s>>
        OBVIOUS
      <4> QED
        BY <2>3, <2>7, <4>1, <4>2, ScheduledRecords, AnswerStays
    <3> QED
      BY <3>1, <3>2
  <2> QED
    BY <2>1, <2>2, <2>4, <2>5, <2>6, <2>7 DEF Scheduled
<1>2. CASE ~Scheduling(f) /\ pc'[f] = pc[f] /\ mem'[f] = mem[f]
  <2>1. Answered(s) /\ linked /\ linked'
    <3>1. Journaled'
      BY Inductive
    <3> QED
      BY <1>2, <3>1 DEF Replied, Journaled, OwnerPCs
  <2>2. \A e \in Execs : pc[e] \in {"header", "setup", "run"} => e = f
    BY <1>2, OneOwner DEF OwnerPCs
  <2>3. \A e \in Execs : ~Scheduling(e)
    BY <1>2, <2>2, SchedulingFrame
  <2>4. CASE lines' = lines
    BY <2>1, <2>4 DEF Answered, ResultsOf
  <2>5. CASE lines' = <<>>
    <3>1. Len(lines') >= Len(lines)
      BY <2>1, CommittedStep
    <3>2. lines' = lines
      BY <2>5, <3>1 DEF LinesTyped
    <3> QED
      BY <2>4, <3>2
  <2>6. ASSUME NEW r \in {<<"header">>} \cup ({"end"} \X Statuses), Grown(r)
        PROVE  Answered(s)'
    <3>1. r \in Record /\ r # <<"start", s>>
      BY DEF Record
    <3> QED
      BY <2>1, <2>6, <3>1, AnswerStays
  <2> QED
    BY <2>3, <2>4, <2>5, <2>6, LinesMove
<1>3. CASE pc[f] = "setup"
  <2>1. mem'[f]["task"] = mem[f]["task"]
    BY <1>0, <1>3, SchedulingFrame DEF Travels
  <2>2. mem[f].task[s] = "todo"
    BY <1>3 DEF AdoptInv, Unspent
  <2> QED
    BY <2>1, <2>2
<1> QED
  BY <1>0, <1>1, <1>2, <1>3 DEF Travels

\* A line that ends no run is a journal that is not complete.
LEMMA NotComplete ==
  ASSUME LinesTyped, Honest, NEW r \in Record, Grown(r), r[1] # "end"
  PROVE  Honest'
<1>1. <<"bad">> \in Record /\ <<"bad">>[1] # "end"
  BY DEF Record
<1>2. lines' = lines => Honest'
  BY DEF Honest, Complete, Answered, ResultsOf
<1>3. ASSUME NEW q \in Record, lines' = Append(lines, q), q[1] # "end" PROVE Honest'
  BY <1>3, OneMoreLine DEF Honest, Complete
<1> QED
  BY <1>1, <1>2, <1>3 DEF Grown

\* A run-end record that says settled comes after every step's result.
LEMMA HonestStep ==
  ASSUME "torn" \notin AppendFaults, IInv, Whole, Replied, Honest, Next
  PROVE  Honest'
<1> USE DEF IInv, Typed
<1>1. CASE lines' = lines \/ lines' = <<>>
  BY <1>1 DEF Honest, Complete, Answered, ResultsOf
<1>2. ASSUME NEW e \in Execs, Scheduling(e) PROVE Honest'
  <2>1. Scheduled(e)
    BY <1>2, SchedulingDoes
  <2>2. ASSUME NEW k \in {"cost", "start", "ok", "failed"}, NEW t \in Steps, Grown(<<k, t>>)
        PROVE  Honest'
    <3>1. <<k, t>> \in Record /\ <<k, t>>[1] # "end"
      BY DEF Record
    <3> QED
      BY <2>2, <3>1, NotComplete
  <2> QED
    BY <1>1, <2>1, <2>2 DEF Scheduled
<1>3. ASSUME NEW e \in Execs, EndRun(e) PROVE Honest'
  <2> DEFINE r == <<"end", EndStatus(e)>>
  <2>1. PICK err \in BOOLEAN : AppendLine(r, err)
    BY <1>3 DEF EndRun
  <2>2. r \in Record /\ r # <<"header">>
    BY DEF Record, EndStatus, Statuses
  <2>3. ~tail /\ pc[e] = "run"
    BY <1>3 DEF Whole, EndRun
  <2>4. Grown(r)
    BY <2>1, AppendGrows
  <2>5. lines' = lines \/ lines' = Append(lines, r)
    BY <2>1, <2>3 DEF AppendLine, Wrote
  <2>6. CASE lines' = Append(lines, r)
    <3>1. lines'[Len(lines')] = r
      BY <2>2, <2>6, OneMoreLine
    <3>2. CASE EndStatus(e) = "settled"
      <4>1. ~mem[e].fatal /\ AllSettled(e)
        BY <1>3, <3>2 DEF EndRun, EndStatus
      <4>2. ASSUME NEW s \in Steps PROVE Answered(s)'
        <5>1. Answered(s)
          BY <2>3, <4>1 DEF AllSettled, Replied
        <5>2. r # <<"start", s>>
          OBVIOUS
        <5> HIDE DEF r
        <5> QED
          BY <2>2, <2>4, <5>1, <5>2, AnswerStays
      <4> QED
        BY <4>2 DEF Honest
    <3>3. CASE EndStatus(e) # "settled"
      BY <3>1, <3>3 DEF EndStatus, Honest
    <3> QED
      BY <3>2, <3>3
  <2> QED
    BY <1>1, <2>5, <2>6
<1>4. ASSUME NEW e \in Execs, Setup(e) PROVE Honest'
  <2>1. <<"end", "aborted">> \in Record
    BY DEF Record, Statuses
  <2>2. ~tail
    BY <1>4 DEF Whole, Setup
  <2>3. lines' = lines \/ lines' = Append(lines, <<"end", "aborted">>)
    BY <1>4, <2>2 DEF Setup, AppendLine, Wrote
  <2>4. CASE lines' = Append(lines, <<"end", "aborted">>)
    BY <2>1, <2>4, OneMoreLine DEF Honest
  <2> QED
    BY <1>1, <2>3, <2>4
<1>5. ASSUME NEW e \in Execs, AppendHeader(e) PROVE Honest'
  <2>1. <<"header">> \in Record /\ <<"header">>[1] # "end"
    BY DEF Record
  <2> QED
    BY <1>5, <2>1, AppendGrows, NotComplete DEF AppendHeader
<1>6. ASSUME NEW e \in Execs, CreateJournal(e) \/ Reopen(e) PROVE lines' = lines \/ lines' = <<>>
  BY <1>6, ReopenKeeps DEF CreateJournal, Refuse, Quit
<1>7. ASSUME NEW p \in Procs, Crash(p) PROVE lines' = lines
  BY <1>7 DEF Crash, Quit
<1>8. PruneJournal => lines' = <<>>
  BY DEF PruneJournal
<1> QED
  BY <1>1, <1>2, <1>3, <1>4, <1>5, <1>6, <1>7, <1>8, Quiet

\* auditRun's verdict: if no append is written in part by a process that lives on,
\* a journal that says settled has the result of every step's last box.
THEOREM AuditCorrect ==
  ASSUME "torn" \notin AppendFaults
  PROVE  Spec => []AuditHonest
<1> DEFINE J == Whole /\ AdoptInv /\ Replied /\ Honest
<1>1. Init => J
  BY DEF Init, Whole, AdoptInv, OkIsFinal, Recalls, HasOk, Unspent, Blank, Replied, Honest,
     Complete, Procs
<1>2. IInv /\ J /\ [Next]_vars => J'
  <2>1. ASSUME IInv, J, Next PROVE J'
    BY <2>1, WholeStep, FinalStep, RecallsStep, UnspentStep, RepliedStep, HonestStep DEF AdoptInv
  <2>2. ASSUME J, UNCHANGED vars PROVE J'
    BY <2>2 DEF Whole, AdoptInv, OkIsFinal, Recalls, HasOk, Unspent, Replied, Honest, Complete,
       Answered, ResultsOf, vars
  <2> QED
    BY <2>1, <2>2
<1>3. J => AuditHonest
  BY DEF Honest, AuditHonest
<1> HIDE DEF J
<1> QED
  BY <1>1, <1>2, <1>3, StoreInvariance, PTL DEF Spec

-----------------------------------------------------------------------------
(* The journal is the log its readers take it for                          *)

\* A cost still to be written is of a settled step.
Owing ==
  \A e \in Execs : mem[e].owes # NoStep => mem[e].task[mem[e].owes] = "done"

\* A settled step stays settled for as long as its cost is owed.
LEMMA OwingStep ==
  ASSUME MemTyped, RestTyped, Positioned, Owing, Next
  PROVE  Owing'
<1> SUFFICES ASSUME NEW f \in Execs, mem'[f].owes # NoStep
             PROVE  mem'[f].task[mem'[f].owes] = "done"
  BY DEF Owing
<1>0. mem[f] \in Memory /\ Travels(f)
  BY EveryoneTravels DEF MemTyped
<1>1. mem[f].owes # NoStep => mem[f].owes \in Steps /\ mem[f].task[mem[f].owes] = "done"
  BY <1>0 DEF Owing, Memory
<1>2. CASE Scheduling(f)
  <2>1. /\ Scheduled(f)
        /\ \/ mem'[f].owes \in {mem[f].owes, NoStep}
           \/ mem'[f].task[mem'[f].owes] = "done"
    BY <1>2, SchedulingDoes
  <2>2. \A s \in Steps : mem[f].task[s] = "done" => mem'[f].task[s] = "done"
    BY <1>0, <2>1 DEF Scheduled, Memory
  <2> QED
    BY <1>1, <2>1, <2>2
<1>3. CASE mem'[f] = Blank
  BY <1>3 DEF Blank
<1>4. CASE mem'[f] = mem[f]
  BY <1>1, <1>4
<1>5. CASE mem'[f] = [mem[f] EXCEPT !.prior = OkKeys]
  BY <1>0, <1>1, <1>5 DEF Memory
<1>6. CASE \A x \in {"task", "owes"} : mem'[f][x] = mem[f][x]
  <2>1. mem'[f]["task"] = mem[f]["task"] /\ mem'[f]["owes"] = mem[f]["owes"]
    BY <1>6
  <2> QED
    BY <1>1, <2>1
<1> QED
  BY <1>0, <1>2, <1>3, <1>4, <1>5, <1>6 DEF Travels

\* What RunLog's variables stand for, where they are not variables themselves.
Through == {s \in Steps : \E e \in Owners : mem[e].task[s] = "done"}
Closing == \E e \in Execs : pc[e] = "close"

LogInv == Whole /\ AdoptInv /\ Replied /\ Owing

\* An owner is the only one, and has a journal.
LEMMA WriterIs ==
  ASSUME IInv, NEW e \in Execs, pc[e] \in OwnerPCs
  PROVE  /\ Owners = {e} /\ linked
         /\ Through = {s \in Steps : mem[e].task[s] = "done"}
         /\ Closing <=> pc[e] = "close"
<1> USE DEF IInv, Typed
<1>1. linked /\ \A f \in Execs : pc[f] \in OwnerPCs => f = e
  BY OneOwner DEF Journaled
<1>2. Owners = {e}
  BY <1>1 DEF Owners, OwnerPCs
<1> QED
  BY <1>1, <1>2 DEF Through, Closing, OwnerPCs

\* Whoever has the lock to create or load a journal is alone.
LEMMA Alone ==
  ASSUME IInv, NEW e \in Execs, pc[e] \in {"create", "load"}, linked \/ pc[e] = "create"
  PROVE  Owners = {}
<1> USE DEF IInv, Typed
<1> SUFFICES ASSUME NEW f \in Owners PROVE FALSE
  OBVIOUS
<1>1. f \in Execs /\ pc[f] \in LockedPCs /\ pc[e] \in LockedPCs
  BY DEF Owners, LockedPCs
<1>2. linked \/ \E g \in Execs : Beginning(g)
  BY DEF BeginsOnce, Beginning
<1>3. fd[e] = fd[f] /\ held[e] /\ held[f]
  BY <1>1, <1>2 DEF SameInode, AtLock, Flocked, Procs
<1>4. e = f
  BY <1>1, <1>3 DEF Flocked, Procs
<1> QED
  BY <1>4 DEF Owners

\* A step that changes nothing the log is about.
Still ==
  /\ linked' = linked /\ (linked => lines' = lines)
  /\ \A e \in Execs : /\ pc'[e] \in OwnerPCs <=> pc[e] \in OwnerPCs
                      /\ pc'[e] = "close" <=> pc[e] = "close"
                      /\ pc[e] \in OwnerPCs => mem'[e].task = mem[e].task

\* Such a step is none of the log's.
LEMMA StillMaps == Still => UNCHANGED Log!vars
<1> SUFFICES ASSUME Still PROVE UNCHANGED Log!vars
  OBVIOUS
<1>1. Owners' = Owners
  BY DEF Still, Owners, OwnerPCs
<1>2. \A e \in Owners : mem'[e].task = mem[e].task
  BY DEF Still, Owners, OwnerPCs
<1>3. {s \in Steps : \E e \in Owners : mem[e].task[s] = "done"}'
        = {s \in Steps : \E e \in Owners : mem[e].task[s] = "done"}
  BY <1>1, <1>2
<1>4. (\E e \in Execs : pc[e] = "close")' <=> (\E e \in Execs : pc[e] = "close")
  BY DEF Still
<1> QED
  BY <1>1, <1>3, <1>4 DEF Still, Log!vars

\* A process that goes leaves the log to others, if it was its writer.
LEMMA QuitMaps ==
  ASSUME IInv, NEW p \in Procs, Quit(p), lines' = lines
  PROVE  Log!Next \/ UNCHANGED Log!vars
<1> USE DEF IInv, Typed
<1>1. CASE p \in Execs /\ pc[p] \in OwnerPCs
  <2>1. Owners = {p} /\ linked
    BY <1>1, WriterIs
  <2>2. pc' = [pc EXCEPT ![p] = "gone"] /\ linked' = linked
    BY <1>1 DEF Quit, Goto
  <2>3. Owners' = {} /\ ~Closing'
    BY <2>1, <2>2 DEF Owners, Closing, Positioned
  <2>4. Through' = {}
    BY <2>3 DEF Through
  <2>5. Log!Leave(p)
    BY <2>1, <2>2, <2>3, <2>4 DEF Log!Leave, Through, Closing
  <2> QED
    BY <1>1, <2>5 DEF Log!Next
<1>2. CASE ~(p \in Execs /\ pc[p] \in OwnerPCs)
  <2>1. Still
    BY <1>2, ProcAssumption DEF Still, Quit, Goto, OwnerPCs, Positioned, MemTyped, Procs
  <2> QED
    BY <2>1, StillMaps
<1> QED
  BY <1>1, <1>2

\* What a writer has in common before and after one of its steps.
Writing(e) ==
  /\ Owners = {e} /\ Owners' = {e} /\ linked /\ linked'
  /\ ~Closing

\* A record more, or none, on a whole journal.
LEMMA WholeGrows ==
  ASSUME LinesTyped, linked', Whole', NEW r \in Record, Grown(r)
  PROVE  lines' \in {lines, Append(lines, r)}
<1>1. CASE lines' = Append(lines, <<"bad">>)
  <2>1. <<"bad">> \in Record
    BY DEF Record
  <2>2. /\ lines'[Len(lines) + 1] = <<"bad">>
        /\ Len(lines) + 1 \in DOMAIN lines' /\ lines' # <<>>
    BY <1>1, <2>1 DEF LinesTyped
  <2> QED
    BY <2>2 DEF Whole
<1> QED
  BY <1>1 DEF Grown

\* The log's steps with an answer, and those with a success, are the journal's.
LEMMA SameAnswers ==
  ASSUME linked, NEW s \in Steps
  PROVE  /\ Log!Answered(s) <=> Answered(s)
         /\ Log!Succeeded(s) <=> HasOk(s)
<1>1. (IF linked THEN lines ELSE <<>>) = lines
  OBVIOUS
<1> QED
  BY <1>1 DEF Log!Answered, Log!ResultsOf, Log!Succeeded, Answered, ResultsOf, HasOk

\* The scheduler's records are records of the log.
LEMMA SchedulingMaps ==
  ASSUME IInv, LogInv, Whole', NEW e \in Execs, Scheduling(e)
  PROVE  Log!Next \/ UNCHANGED Log!vars
<1> USE DEF IInv, Typed, LogInv
<1>1. Scheduled(e) /\ pc[e] = "run" /\ pc' = pc /\ linked' = linked
  BY SchedulingDoes, SchedulingFrame
<1>2. Writing(e) /\ Through = {s \in Steps : mem[e].task[s] = "done"}
  BY <1>1, WriterIs DEF Writing, OwnerPCs, Owners
<1>3. Through' = {s \in Steps : mem'[e].task[s] = "done"} /\ ~Closing'
  BY <1>1, <1>2 DEF Through, Closing, Writing
<1>4. lines # <<>>
  BY <1>1 DEF Whole
<1>5. mem[e] \in Memory
  BY DEF MemTyped
<1>6. ASSUME Through' = Through, lines' = lines PROVE UNCHANGED Log!vars
  BY <1>2, <1>3, <1>6 DEF Log!vars, Writing, Through, Closing
<1>7. ASSUME NEW r \in Record, Grown(r) PROVE lines' = lines \/ lines' = Append(lines, r)
  BY <1>2, <1>7, WholeGrows DEF Writing
<1>8. ASSUME NEW r, lines' = Append(lines, r) PROVE Log!Put(e, r)
  BY <1>2, <1>8 DEF Log!Put, Writing, Closing
<1>9. CASE mem'[e].task = mem[e].task /\ lines' = lines
  BY <1>2, <1>3, <1>6, <1>9
<1>10. ASSUME NEW s \in Steps, lines' = lines, mem[e].task[s] = "todo",
              mem'[e].task = [mem[e].task EXCEPT ![s] = "sent"]
       PROVE  UNCHANGED Log!vars
  <2>1. Through' = Through
    BY <1>2, <1>3, <1>5, <1>10 DEF Memory
  <2> QED
    BY <2>1, <1>6, <1>10
<1>11. ASSUME NEW s \in Steps, Grown(<<"cost", s>>), mem'[e].task = mem[e].task, s = mem[e].owes
       PROVE  Log!Next \/ UNCHANGED Log!vars
  <2>1. s \in Through /\ Through' = Through
    BY <1>2, <1>3, <1>11, ProcAssumption DEF Owing
  <2>2. ASSUME lines' = Append(lines, <<"cost", s>>) PROVE Log!Cost(e, s)
    BY <1>2, <1>3, <1>4, <1>8, <2>1, <2>2 DEF Log!Cost, Writing, Through, Closing
  <2> QED
    BY <1>6, <1>7, <1>11, <2>1, <2>2, ScheduledRecords DEF Log!Next
<1>12. ASSUME NEW s \in Steps, Grown(<<"start", s>>), mem[e].task[s] = "sent",
              mem'[e].task = [mem[e].task EXCEPT ![s] = "boxed"]
       PROVE  Log!Next \/ UNCHANGED Log!vars
  <2>1. s \notin Through /\ Through' = Through
    BY <1>2, <1>3, <1>5, <1>12 DEF Memory
  <2>2. ~Log!Succeeded(s)
    BY <1>1, <1>2, <1>12, SameAnswers DEF AdoptInv, Recalls, Writing
  <2>3. ASSUME lines' = Append(lines, <<"start", s>>) PROVE Log!Start(e, s)
    BY <1>2, <1>3, <1>4, <1>8, <2>1, <2>2, <2>3 DEF Log!Start, Writing, Through, Closing
  <2> QED
    BY <1>6, <1>7, <1>12, <2>1, <2>3, ScheduledRecords DEF Log!Next
<1>13. ASSUME NEW s \in Steps, NEW st \in {"ok", "failed"}, Grown(<<st, s>>),
              mem[e].task[s] # "done",
              st = "failed" => mem[e].task[s] \in {"sent", "boxed"},
              mem'[e].task = [mem[e].task EXCEPT ![s] = "done"]
       PROVE  Log!Next \/ UNCHANGED Log!vars
  <2>1. s \notin Through /\ Through' = Through \cup {s}
    BY <1>2, <1>3, <1>5, <1>13 DEF Memory
  <2>2. st = "failed" => ~Log!Succeeded(s)
    BY <1>1, <1>2, <1>13, SameAnswers DEF AdoptInv, Recalls, Writing
  <2>3. ASSUME lines' = Append(lines, <<st, s>>) PROVE Log!Result(e, s, st)
    BY <1>2, <1>3, <1>4, <1>8, <2>1, <2>2, <2>3 DEF Log!Result, Writing, Through, Closing
  <2>4. ASSUME lines' = lines PROVE Log!Lose(e, s)
    BY <1>2, <1>3, <2>1, <2>4 DEF Log!Lose, Writing, Through, Closing
  <2> QED
    BY <1>7, <1>13, <2>3, <2>4, ScheduledRecords DEF Log!Next
<1> QED
  BY <1>1, <1>9, <1>10, <1>11, <1>12, <1>13 DEF Scheduled

\* Without short writes, a process that lives on appends a record or nothing.
LEMMA CleanAppend ==
  ASSUME "torn" \notin AppendFaults, ~tail, NEW r, NEW err, AppendLine(r, err)
  PROVE  lines' = Append(lines, r) \/ (lines' = lines /\ err)
BY DEF AppendLine, Wrote

\* Creating a journal, or finding one that can be replayed, opens the log.
LEMMA OpenMaps ==
  ASSUME IInv, LogInv, NEW e \in Execs, CreateJournal(e) \/ LoadPrior(e)
  PROVE  Log!Next \/ UNCHANGED Log!vars
<1> USE DEF IInv, Typed, LogInv
<1>1. CASE Refuse(e)
  <2>1. lines' = lines
    BY <1>1 DEF Refuse, Quit, CreateJournal, LoadPrior
  <2> QED
    BY <1>1, <2>1, QuitMaps DEF Refuse, Procs
<1>2. CASE ~Refuse(e)
  <2>1. /\ pc[e] \in {"create", "load"} /\ linked'
        /\ pc' = [pc EXCEPT ![e] = IF pc[e] = "create" THEN "header" ELSE "repair"]
        /\ linked \/ pc[e] = "create"
        /\ linked => lines # <<>> /\ lines' = lines
        /\ ~linked => lines' = <<>>
        /\ \A s \in Steps : mem'[e].task[s] = mem[e].task[s]
    BY <1>2 DEF CreateJournal, LoadPrior, Loads, Goto, storeVars, MemTyped, Memory
  <2>2. Owners = {}
    BY <2>1, Alone
  <2>3. Owners' = {e} /\ ~Closing /\ ~Closing'
    BY <2>1, <2>2 DEF Owners, Closing, Positioned, Procs
  <2>4. Through = {} /\ Through' = {}
    BY <2>1, <2>2, <2>3 DEF Through, AdoptInv, Unspent
  <2>5. Log!Open(e)
    BY <2>1, <2>2, <2>3, <2>4 DEF Log!Open, Through, Closing
  <2> QED
    BY <2>5 DEF Log!Next
<1> QED
  BY <1>1, <1>2

\* The header is the log's, or its writer gives up.
LEMMA HeaderMaps ==
  ASSUME "torn" \notin AppendFaults, IInv, LogInv, NEW e \in Execs, AppendHeader(e)
  PROVE  Log!Next \/ UNCHANGED Log!vars
<1> USE DEF IInv, Typed, LogInv
<1>1. PICK err \in BOOLEAN : /\ AppendLine(<<"header">>, err)
                             /\ pc' = [pc EXCEPT ![e] = IF err THEN "close" ELSE "setup"]
  BY DEF AppendHeader, Goto
<1>2. pc[e] = "header" /\ linked' = linked /\ mem' = mem
  BY DEF AppendHeader
<1>3. /\ Owners = {e} /\ Owners' = {e} /\ linked /\ linked'
      /\ ~Closing /\ (Closing' <=> err)
  BY <1>1, <1>2, WriterIs DEF Owners, OwnerPCs, Closing, Positioned, Procs
<1>4. Through' = Through
  BY <1>2, <1>3 DEF Through
<1>5. ~tail /\ lines = <<>>
  BY <1>2 DEF Whole
<1>6. CASE lines' = Append(lines, <<"header">>)
  <2>1. (\E f \in Execs : pc[f] = "close")' \in BOOLEAN
    OBVIOUS
  <2>2. Log!Put(e, <<"header">>)
    BY <1>3, <1>6 DEF Log!Put, Closing
  <2>3. Log!Header(e)
    BY <1>3, <1>4, <1>5, <2>1, <2>2 DEF Log!Header, Through
  <2> QED
    BY <2>3 DEF Log!Next
<1>7. CASE lines' = lines /\ err
  <2>1. Log!GiveUp(e)
    BY <1>3, <1>4, <1>7 DEF Log!GiveUp, Through, Closing
  <2> QED
    BY <2>1 DEF Log!Next
<1> QED
  BY <1>1, <1>5, <1>6, <1>7, CleanAppend

\* A run-end record is the log's, or its writer gives up.
LEMMA EndMaps ==
  ASSUME "torn" \notin AppendFaults, IInv, LogInv, NEW e \in Execs,
         pc[e] \in {"setup", "run"}, pc' = [pc EXCEPT ![e] = "close"],
         linked' = linked, mem' = mem,
         NEW st \in Statuses, lines' \in {lines, Append(lines, <<"end", st>>)},
         st = "settled" => Through = Steps /\ \A s \in Steps : Answered(s),
         st = "paused" => Through # Steps
  PROVE  Log!Next \/ UNCHANGED Log!vars
<1> USE DEF IInv, Typed, LogInv
<1>1. /\ Owners = {e} /\ Owners' = {e} /\ linked /\ linked'
      /\ ~Closing /\ Closing'
  BY WriterIs DEF Owners, OwnerPCs, Closing, Positioned, Procs
<1>2. Through' = Through
  BY <1>1 DEF Through
<1>3. lines # <<>>
  BY DEF Whole
<1>4. CASE lines' = Append(lines, <<"end", st>>)
  <2>1. st = "settled" => \A s \in Steps : Log!Answered(s)
    BY <1>1, SameAnswers
  <2>2. Log!Put(e, <<"end", st>>)
    BY <1>1, <1>4 DEF Log!Put, Closing
  <2>3. Log!End(e, st)
    BY <1>1, <1>2, <1>3, <2>1, <2>2 DEF Log!End, Through, Closing
  <2> QED
    BY <2>3 DEF Log!Next, Statuses
<1>5. CASE lines' = lines
  <2>1. Log!GiveUp(e)
    BY <1>1, <1>2, <1>5 DEF Log!GiveUp, Through, Closing
  <2> QED
    BY <2>1 DEF Log!Next
<1> QED
  BY <1>4, <1>5

\* What a run says at its end is so.
LEMMA EndRunMaps ==
  ASSUME "torn" \notin AppendFaults, IInv, LogInv, NEW e \in Execs, EndRun(e)
  PROVE  Log!Next \/ UNCHANGED Log!vars
<1> USE DEF IInv, Typed, LogInv
<1>1. pc[e] = "run" /\ ~tail
  BY DEF EndRun, Whole
<1>2. Through = {s \in Steps : mem[e].task[s] = "done"}
  BY <1>1, WriterIs DEF OwnerPCs
<1>3. EndStatus(e) \in Statuses
  BY DEF EndStatus, Statuses
<1>4. EndStatus(e) = "settled" => Through = Steps /\ \A s \in Steps : Answered(s)
  BY <1>1, <1>2 DEF EndRun, EndStatus, AllSettled, Replied
<1>5. EndStatus(e) = "paused" => Through # Steps
  BY <1>2 DEF EndStatus, AllSettled
<1>6. lines' \in {lines, Append(lines, <<"end", EndStatus(e)>>)}
  BY <1>1, CleanAppend DEF EndRun
<1>7. pc' = [pc EXCEPT ![e] = "close"] /\ linked' = linked /\ mem' = mem
  BY DEF EndRun, Goto
<1> HIDE DEF IInv, Typed, LogInv
<1> QED
  BY <1>1, <1>3, <1>4, <1>5, <1>6, <1>7, EndMaps

\* A run that fails before its scheduler starts says so, or nothing.
LEMMA SetupMaps ==
  ASSUME "torn" \notin AppendFaults, IInv, LogInv, NEW e \in Execs, Setup(e)
  PROVE  Log!Next \/ UNCHANGED Log!vars
<1>1. pc[e] = "setup" /\ ~tail /\ linked' = linked /\ mem' = mem
  BY DEF Setup, LogInv, Whole
<1>2. CASE pc' = [pc EXCEPT ![e] = "close"]
  <2>1. "aborted" \in Statuses
    BY DEF Statuses
  <2>2. lines' \in {lines, Append(lines, <<"end", "aborted">>)}
    BY <1>1, CleanAppend DEF Setup
  <2> QED
    BY <1>1, <1>2, <2>1, <2>2, EndMaps
<1>3. CASE pc' = [pc EXCEPT ![e] = "run"] /\ lines' = lines
  <2>1. Still
    BY <1>1, <1>3 DEF Still, IInv, Typed, Positioned, OwnerPCs, Procs
  <2> QED
    BY <2>1, StillMaps
<1> QED
  BY <1>2, <1>3 DEF Setup, Goto

\* An execution on its way to the lock, or to append, leaves the log as it is.
LEMMA OpeningMaps ==
  ASSUME IInv, NEW e \in Execs,
         Begin(e) \/ Resume(e) \/ ClearPause(e) \/ RepairRead(e) \/ Reopen(e)
  PROVE  Log!Next \/ UNCHANGED Log!vars
<1> USE DEF IInv, Typed
<1>1. e \in Procs /\ e \in DOMAIN pc /\ e \in DOMAIN mem /\ mem[e] \in Memory
  BY DEF Procs, Positioned, MemTyped
<1>2. ASSUME Begin(e) \/ Resume(e) \/ ClearPause(e) PROVE Still
  BY <1>1, <1>2 DEF Begin, Resume, ClearPause, Goto, Still, lockVars, toolVars, OwnerPCs,
     fileVars, storeVars,
     Positioned, Procs, MemTyped, Memory
<1>3. ASSUME RepairRead(e), linked PROVE Still
  BY <1>1, <1>3 DEF RepairRead, Goto, Still, lockVars, toolVars, OwnerPCs, storeVars,
     Positioned, Procs, MemTyped, Memory
<1>4. ASSUME Reopen(e) PROVE Still
  <2>1. linked
    BY <1>4 DEF Reopen, Journaled, OwnerPCs
  <2>2. lines' = lines
    BY <1>4, <2>1, ReopenKeeps
  <2> QED
    BY <1>1, <1>4, <2>1, <2>2 DEF Reopen, Goto, Still, lockVars, toolVars, OwnerPCs,
       Positioned, Procs
<1>5. RepairRead(e) => linked
  BY DEF RepairRead, Journaled, OwnerPCs
<1> HIDE DEF IInv, Typed
<1> QED
  BY <1>2, <1>3, <1>4, <1>5, StillMaps

\* The lock's steps leave the log as it is, but for a process that gives up.
LEMMA LockMaps ==
  ASSUME IInv, NEW p \in Procs, LockOpen(p) \/ LockTake(p)
  PROVE  Log!Next \/ UNCHANGED Log!vars
<1> USE DEF IInv, Typed
<1>1. ASSUME ~Refuse(p) PROVE Still
  BY <1>1, ProcAssumption DEF LockOpen, LockTake, Goto, Still, lockVars, toolVars,
     OwnerPCs, fileVars, storeVars,
     Positioned, Procs
<1>2. ASSUME Refuse(p) PROVE lines' = lines
  BY <1>2 DEF LockOpen, LockTake, fileVars, storeVars, Refuse, Quit
<1> HIDE DEF IInv, Typed
<1> QED
  BY <1>1, <1>2, StillMaps, QuitMaps DEF Refuse

\* The two tools' probes leave the log as it is.
LEMMA ProbeMaps ==
  ASSUME IInv, NEW p \in {Pauser, Pruner},
         ProbeTake(p) \/ ProbeDrop(p) \/ ProbeLive(p)
  PROVE  Log!Next \/ UNCHANGED Log!vars
<1> USE DEF IInv, Typed
<1>1. ASSUME ~Refuse(p) PROVE Still
  BY <1>1, ProcAssumption DEF ProbeTake, ProbeDrop, ProbeLive, Goto, Still, lockVars,
     toolVars, OwnerPCs, fileVars,
     storeVars, Positioned, Procs
<1>2. ASSUME Refuse(p) PROVE lines' = lines /\ p \in Procs
  BY <1>2 DEF ProbeTake, ProbeDrop, ProbeLive, fileVars, storeVars, Refuse, Quit, Procs
<1> HIDE DEF IInv, Typed
<1> QED
  BY <1>1, <1>2, StillMaps, QuitMaps DEF Refuse

\* A pause request never touches the log; a prune deletes it when nobody writes it.
LEMMA ToolMaps ==
  ASSUME IInv, PauseStat \/ WriteMarker \/ Prune
  PROVE  Log!Next \/ UNCHANGED Log!vars
<1> USE DEF IInv, Typed
<1>0. Pauser \notin Execs /\ Pruner \notin Execs /\ Pauser \in Procs /\ Pruner \in Procs
  BY ProcAssumption DEF Procs
<1>1. ASSUME PauseStat \/ WriteMarker PROVE Still
  BY <1>0, <1>1 DEF PauseStat, WriteMarker, ProbeOpen, Goto, Still, lockVars, toolVars,
     storeVars, fileVars, Positioned, Procs
<1>2. ASSUME PruneAudit PROVE Still
  BY <1>0, <1>2 DEF PruneAudit, ProbeOpen, Goto, Still, lockVars, toolVars, storeVars,
     Positioned, Procs
<1>3. ASSUME PruneDecide, ~Refuse(Pruner) PROVE Still
  BY <1>0, <1>3 DEF PruneDecide, Goto, Still, lockVars, toolVars, storeVars, Positioned,
     Procs
<1>4. ASSUME PruneRelease \/ (PruneDecide /\ Refuse(Pruner))
      PROVE  Quit(Pruner) /\ lines' = lines
  BY <1>4 DEF PruneRelease, Refuse, Quit
<1>5. ASSUME PruneRmdir PROVE Still
  BY <1>0, <1>5 DEF PruneRmdir, Goto, Still, lockVars, toolVars, Positioned, Procs
<1>6. ASSUME NEW x \in {"journal", "lock", "marker"}, PruneUnlink(x) PROVE Still
  BY <1>6 DEF PruneUnlink, Still, Journaled, RestTyped
<1>7. CASE PruneJournal
  <2>1. CASE ~linked
    <3>1. Still
      BY <1>0, <1>7, <2>1 DEF PruneJournal, Goto, Still, OwnerPCs, Positioned, Procs,
         RestTyped
    <3> QED
      BY <3>1, StillMaps
  <2>2. CASE linked
    <3>1. Owners = {}
      <4> SUFFICES ASSUME NEW f \in Owners PROVE FALSE
        OBVIOUS
      <4>1. f \in Execs /\ pc[f] \in LockedPCs /\ pc[Pruner] = "journal"
        BY <1>7 DEF Owners, LockedPCs, PruneJournal
      <4>2. fd[f] = fd[Pruner] /\ held[f] /\ held[Pruner]
        BY <1>0, <2>2, <4>1 DEF SameInode, AtLock, Flocked, Procs
      <4> QED
        BY <1>0, <4>1, <4>2 DEF Flocked, Procs
    <3>2. Owners' = {} /\ ~Closing /\ ~Closing'
      BY <1>0, <1>7, <3>1 DEF PruneJournal, Goto, Owners, Closing, Positioned, Procs
    <3>3. Through = {} /\ Through' = {}
      BY <3>1, <3>2 DEF Through
    <3>4. Log!Delete
      BY <1>7, <2>2, <3>1, <3>2, <3>3 DEF Log!Delete, PruneJournal, Through, Closing
    <3> QED
      BY <3>4 DEF Log!Next
  <2> QED
    BY <2>1, <2>2
<1> HIDE DEF IInv, Typed
<1> QED
  BY <1>0, <1>1, <1>2, <1>3, <1>4, <1>5, <1>6, <1>7, StillMaps, QuitMaps DEF Prune

\* Every step of the run directory is a step of the log, or none.
LEMMA LogStep ==
  ASSUME "torn" \notin AppendFaults, IInv, LogInv, Whole', Next
  PROVE  Log!Next \/ UNCHANGED Log!vars
<1>1. ASSUME NEW e \in Execs, Work(e) PROVE Log!Next \/ UNCHANGED Log!vars
  <2>1. Scheduling(e) \/ EndRun(e)
    BY <1>1 DEF Work, Scheduling
  <2> QED
    BY <2>1, SchedulingMaps, EndRunMaps
<1>2. ASSUME NEW e \in Execs, OpenRun(e) PROVE Log!Next \/ UNCHANGED Log!vars
  BY <1>2, OpeningMaps, OpenMaps, HeaderMaps, SetupMaps DEF OpenRun
<1>3. ASSUME NEW e \in Execs, Close(e) PROVE Log!Next \/ UNCHANGED Log!vars
  <2>1. Quit(e) /\ lines' = lines /\ e \in Procs
    BY <1>3 DEF Close, Refuse, Quit, Procs
  <2> QED
    BY <2>1, QuitMaps
<1>4. ASSUME NEW p \in Procs, Crash(p) PROVE Log!Next \/ UNCHANGED Log!vars
  <2>1. Quit(p) /\ lines' = lines
    BY <1>4 DEF Crash, Quit
  <2> QED
    BY <2>1, QuitMaps
<1> QED
  BY <1>1, <1>2, <1>3, <1>4, LockMaps, ProbeMaps, ToolMaps DEF Next

\* The journal implements the log: if no append is written in part by a process
\* that lives on, then whatever the interleavings, deaths, repairs and prunes, one
\* execution at a time writes it, and each record follows from those before it.
THEOREM LogCorrect ==
  ASSUME "torn" \notin AppendFaults
  PROVE  Spec => KeepsLog
<1>1. Init => LogInv /\ Log!Init
  <2>1. Init => LogInv
    BY DEF Init, LogInv, Whole, AdoptInv, OkIsFinal, Recalls, HasOk, Unspent, Blank,
       Replied,
       Owing, Procs
  <2>2. Init => Owners = {} /\ ~Closing
    BY DEF Init, Owners, Closing, Procs
  <2>3. Init => Through = {}
    BY <2>2 DEF Through
  <2> QED
    BY <2>1, <2>2, <2>3 DEF Init, Log!Init, Through, Closing
<1>2. IInv /\ LogInv /\ [Next]_vars => LogInv' /\ [Log!Next]_(Log!vars)
  <2>1. ASSUME IInv, LogInv, Next PROVE LogInv' /\ [Log!Next]_(Log!vars)
    <3>1. MemTyped /\ RestTyped /\ Positioned
      BY <2>1 DEF IInv, Typed
    <3>2. Whole' /\ AdoptInv' /\ Replied' /\ Owing'
      BY <2>1, <3>1, WholeStep, FinalStep, RecallsStep, UnspentStep, RepliedStep, OwingStep
         DEF LogInv, AdoptInv
    <3> QED
      BY <2>1, <3>2, LogStep DEF LogInv
  <2>2. ASSUME LogInv, UNCHANGED vars PROVE LogInv' /\ [Log!Next]_(Log!vars)
    <3>1. LogInv'
      BY <2>2 DEF LogInv, Whole, AdoptInv, OkIsFinal, Recalls, HasOk, Unspent, Replied,
         Owing,
         Answered, ResultsOf, vars
    <3>2. Still
      BY <2>2 DEF Still, vars
    <3> QED
      BY <3>1, <3>2, StillMaps
  <2> QED
    BY <2>1, <2>2
<1> QED
  BY <1>1, <1>2, StoreInvariance, PTL DEF Spec, KeepsLog, Log!Spec

=============================================================================
