------------------------------ MODULE BoxProofs ------------------------------
(***************************************************************************)
(* What the sequencer of a step container and the host that reads its      *)
(* record guarantee, for every set of environment contracts a box may be   *)
(* started under and whichever of them leave a result.json of their own.   *)
(***************************************************************************)
EXTENDS BoxResult, TLAPS

Over == {"exited", "killed"}
Ending == {"handoff", "record", "exited", "killed"}
EnginePhases == {"preamble", "skills", "env", "secrets", "hostkey", "clone", "signing"}
BeforeAgent == {"preamble", "skills", "env", "secrets", "hostkey", "clone", "signing",
                "context", "prelude", "agent"}
Gated == {"context", "prelude", "agent", "postlude", "result"}

-----------------------------------------------------------------------------
(* The inductive invariant: what is known of the box by the phase it is in. *)

\* The programs that ran are user phases; none was the agent before its phase.
RanInv ==
  /\ ran \in Seq(UserPhases)
  /\ at \in BeforeAgent => ~Ran("agent")
  /\ at \in {"postlude", "result"} => Ran("agent") \/ skip \/ opt.check

\* A record exists only once the sequencer has exited, and still describes it.
RecordInv ==
  /\ record # NoRecord => at = "exited"
  /\ \/ record \in {NoRecord, OkRecord, FailedRecord}
     \/ \E p \in UserPhases : record = HaltedRecord(p)

\* Past the host-key phase an ssh remote has a policy; past the signing phase a
\* gated step has one key and a committer.
GateInv ==
  /\ at \in {"clone", "signing"} \cup Gated /\ opt.remote = "ssh" => opt.policy # "none"
  /\ at \in Gated /\ opt.remote # "none" => opt.keys = 1 /\ opt.email

\* Past the prelude the bundle is well formed and names the branch of the sidecar.
BundleInv ==
  /\ ~declared => sidecar = "none"
  /\ at \in {"agent", "postlude", "result"} =>
       /\ bundle \notin {"unset", "malformed", "reserved", "skip-other"}
       /\ sidecar = "branch" => bundle = "branch"

IInv == /\ TypeOK /\ RanInv /\ RecordInv /\ GateInv /\ BundleInv
        /\ HaltStops /\ OkIsEarned

\* The eleven phases as a fixed successor.
LEMMA AfterIs ==
  /\ After("preamble") = "skills" /\ After("skills") = "env" /\ After("env") = "secrets"
  /\ After("secrets") = "hostkey" /\ After("hostkey") = "clone" /\ After("clone") = "signing"
  /\ After("signing") = "context" /\ After("context") = "prelude"
  /\ After("prelude") = "agent" /\ After("agent") = "postlude"
  /\ After("postlude") = "result" /\ After("result") = "exited"
BY DEF After, Index, Phases

\* The values of the phase variable, as an enumeration.
LEMMA AtType ==
  \A x \in EnginePhases \cup Gated \cup Ending :
    x \in {Phases[i] : i \in 1..Len(Phases)}
           \cup {"preamble", "handoff", "record", "exited", "killed"}
<1> SUFFICES ASSUME NEW x \in (EnginePhases \cup Gated) \ {"preamble"}
             PROVE  \E i \in 1..Len(Phases) : x = Phases[i]
  BY DEF Ending
<1>1. Len(Phases) = 11
  BY DEF Phases
<1>2. \E i \in 1..11 : x = Phases[i]
  BY DEF EnginePhases, Gated, Phases
<1> QED
  BY <1>1, <1>2

\* A program of the user is the last that ran.
LEMMA ProgramRan ==
  ASSUME ran \in Seq(UserPhases), NEW p \in UserPhases, UserProgram(p)
  PROVE  /\ ran' \in Seq(UserPhases)
         /\ ran'[Len(ran')] = p
         /\ Ran("agent")' <=> Ran("agent") \/ p = "agent"
<1>1. /\ ran' = Append(ran, p)
      /\ Len(ran) \in Nat /\ Len(ran') = Len(ran) + 1
      /\ ran' \in Seq(UserPhases) /\ ran'[Len(ran) + 1] = p
      /\ \A i \in 1..Len(ran) : ran'[i] = ran[i]
  BY DEF UserProgram
<1> QED
  BY <1>1 DEF Ran

\* An engine phase passes or fails: no user state, no record.
LEMMA EngineKeeps ==
  ASSUME IInv, NEW p \in EnginePhases, EnginePhase(p)
  PROVE  IInv'
<1> USE AfterIs DEF IInv, userFiles, EnginePhases, EnginePhase, FailStop
<1>a. at' \in EnginePhases \cup Gated \cup Ending
  BY DEF EnginePhases, Gated, Ending, UserPhases
<1>1. TypeOK'
  BY AtType, <1>a DEF TypeOK, Halts, Outputs, Docs, Sidecars, RecordInv, OkRecord,
                      FailedRecord, HaltedRecord, NoRecord
<1>2. RanInv'
  BY DEF RanInv, Ran, BeforeAgent, UserPhases
<1>3. RecordInv'
  BY DEF RecordInv, UserPhases, OkRecord, FailedRecord, HaltedRecord, NoRecord
<1>4. GateInv'
  BY DEF GateInv, Gated, Engine, applyHostKeyPolicy, configureSigning
<1>5. BundleInv'
  BY DEF BundleInv
<1>6. HaltStops'
  BY DEF HaltStops, RecordInv, TypeOK, Halts, UserPhases, OkRecord, FailedRecord,
         HaltedRecord, NoRecord
<1>7. OkIsEarned'
  BY DEF OkIsEarned, AgentIsReady, RecordInv, Ran, OkRecord, FailedRecord, HaltedRecord,
         NoRecord
<1> QED
  BY <1>1, <1>2, <1>3, <1>4, <1>5, <1>6, <1>7

\* A context or postlude hook.
LEMMA HookKeeps ==
  ASSUME IInv, NEW p \in {"context", "postlude"}, HookPhase(p)
  PROVE  IInv'
<1> USE AfterIs DEF IInv, userFiles, HookPhase, HookUnknown, UserProgram, CheckHalt,
                    FailStop
<1>a. at' \in EnginePhases \cup Gated \cup Ending
  BY DEF EnginePhases, Gated, Ending, UserPhases
<1>b. \/ UNCHANGED ran
      \/ /\ ran' \in Seq(UserPhases) /\ ran'[Len(ran')] = p
         /\ Ran("agent")' <=> Ran("agent")
  BY ProgramRan DEF RanInv, UserPhases
<1>1. TypeOK'
  <2>1. at' \in {Phases[i] : i \in 1..Len(Phases)}
                 \cup {"preamble", "handoff", "record", "exited", "killed"}
    BY AtType, <1>a
  <2>2. opt' \in Options /\ handoff' \in BOOLEAN /\ pushed' \in BOOLEAN /\ declared' \in BOOLEAN
    BY DEF TypeOK
  <2>3. halt' \in Halts /\ output' \in Outputs /\ doc' \in Docs /\ sidecar' \in Sidecars
    BY DEF TypeOK
  <2>4. bundle' \in Sidecars \cup {"unset"} /\ skip' \in BOOLEAN
    BY <2>3 DEF TypeOK, Sidecars
  <2>5. record'.status \in {"none", "ok", "failed", "halted"}
    BY DEF TypeOK, HaltedRecord
  <2> QED
    BY <2>1, <2>2, <2>3, <2>4, <2>5 DEF TypeOK
<1>2. RanInv'
  BY <1>b DEF RanInv, Ran, BeforeAgent, UserPhases
<1>3. RecordInv'
  BY DEF RecordInv, UserPhases, OkRecord, FailedRecord, HaltedRecord, NoRecord
<1>4. GateInv'
  BY DEF GateInv, Gated
<1>5. BundleInv'
  BY DEF BundleInv, TypeOK
<1>6. HaltStops'
  BY <1>b DEF HaltStops, RecordInv, TypeOK, Halts, UserPhases, OkRecord, FailedRecord,
              HaltedRecord, NoRecord
<1>7. OkIsEarned'
  BY <1>b DEF OkIsEarned, AgentIsReady, RecordInv, RanInv, BeforeAgent, Ran, GateInv,
              Gated, BundleInv, OkRecord, FailedRecord, HaltedRecord, NoRecord
<1> QED
  BY <1>1, <1>2, <1>3, <1>4, <1>5, <1>6, <1>7

\* The prelude and what it owes.
LEMMA PreludeKeeps ==
  ASSUME IInv, PreludePhase
  PROVE  IInv'
<1> USE AfterIs DEF IInv, userFiles, PreludePhase, HookUnknown, UserProgram, CheckHalt,
                    FailStop, LoadBundle
<1>a. at' \in EnginePhases \cup Gated \cup Ending
  BY DEF EnginePhases, Gated, Ending, UserPhases
<1>b. \/ UNCHANGED ran
      \/ /\ ran' \in Seq(UserPhases) /\ ran'[Len(ran')] = "prelude"
         /\ Ran("agent")' <=> Ran("agent")
  BY ProgramRan DEF RanInv, UserPhases
<1>1. TypeOK'
  <2>1. at' \in {Phases[i] : i \in 1..Len(Phases)}
                 \cup {"preamble", "handoff", "record", "exited", "killed"}
    BY AtType, <1>a
  <2>2. opt' \in Options /\ handoff' \in BOOLEAN /\ pushed' \in BOOLEAN /\ declared' \in BOOLEAN
    BY DEF TypeOK
  <2>3. halt' \in Halts /\ output' \in Outputs /\ doc' \in Docs /\ sidecar' \in Sidecars
    BY DEF TypeOK
  <2>4. bundle' \in Sidecars \cup {"unset"} /\ skip' \in BOOLEAN
    BY <2>3 DEF TypeOK, Sidecars
  <2>5. record'.status \in {"none", "ok", "failed", "halted"}
    BY DEF TypeOK, HaltedRecord
  <2> QED
    BY <2>1, <2>2, <2>3, <2>4, <2>5 DEF TypeOK
<1>2. RanInv'
  BY <1>b DEF RanInv, Ran, BeforeAgent, UserPhases
<1>3. RecordInv'
  BY DEF RecordInv, UserPhases, OkRecord, FailedRecord, HaltedRecord, NoRecord
<1>4. GateInv'
  BY DEF GateInv, Gated
<1>5. BundleInv'
  BY DEF BundleInv, BundleError, TypeOK, Sidecars
<1>6. HaltStops'
  BY <1>b DEF HaltStops, RecordInv, TypeOK, Halts, UserPhases, OkRecord, FailedRecord,
              HaltedRecord, NoRecord
<1>7. OkIsEarned'
  BY <1>b DEF OkIsEarned, AgentIsReady, RecordInv, RanInv, BeforeAgent, Ran, GateInv,
              Gated, BundleInv, OkRecord, FailedRecord, HaltedRecord, NoRecord
<1> QED
  BY <1>1, <1>2, <1>3, <1>4, <1>5, <1>6, <1>7

\* The agent, or its being skipped.
LEMMA AgentKeeps ==
  ASSUME IInv, AgentPhase
  PROVE  IInv'
<1> USE AfterIs DEF IInv, userFiles, AgentPhase, UserProgram, CheckHalt, FailStop
<1>a. at' \in EnginePhases \cup Gated \cup Ending
  BY DEF EnginePhases, Gated, Ending, UserPhases
<1>b. UNCHANGED ran \/ (ran' \in Seq(UserPhases) /\ ran'[Len(ran')] = "agent" /\ Ran("agent")')
  BY ProgramRan DEF RanInv, UserPhases
<1>1. TypeOK'
  BY AtType, <1>a DEF TypeOK, Halts, Outputs, Docs, Sidecars, RecordInv, OkRecord,
                      FailedRecord, HaltedRecord, NoRecord
<1>2. RanInv'
  BY <1>b DEF RanInv, Ran, BeforeAgent, UserPhases, AgentStarts
<1>3. RecordInv'
  BY DEF RecordInv, UserPhases, OkRecord, FailedRecord, HaltedRecord, NoRecord
<1>4. GateInv'
  BY DEF GateInv, Gated
<1>5. BundleInv'
  BY DEF BundleInv
<1>6. HaltStops'
  BY <1>b DEF HaltStops, RecordInv, TypeOK, Halts, UserPhases, OkRecord, FailedRecord,
              HaltedRecord, NoRecord
<1>7. OkIsEarned'
  BY <1>b DEF OkIsEarned, AgentIsReady, AgentStarts, RecordInv, RanInv, BeforeAgent, Ran,
              GateInv, Gated, BundleInv, OkRecord, FailedRecord, HaltedRecord, NoRecord
<1> QED
  BY <1>1, <1>2, <1>3, <1>4, <1>5, <1>6, <1>7

\* The result phase.
LEMMA EmitKeeps ==
  ASSUME IInv, EmitResult
  PROVE  IInv'
<1> USE AfterIs DEF IInv, userFiles, EmitResult, FailStop
<1>a. at' \in EnginePhases \cup Gated \cup Ending
  BY DEF EnginePhases, Gated, Ending, UserPhases
<1>1. TypeOK'
  BY AtType, <1>a DEF TypeOK, Halts, Outputs, Docs, Sidecars, RecordInv, OkRecord,
                      FailedRecord, HaltedRecord, NoRecord
<1>2. RanInv'
  BY DEF RanInv, Ran, BeforeAgent, UserPhases
<1>3. RecordInv'
  BY DEF RecordInv, UserPhases, OkRecord, FailedRecord, HaltedRecord, NoRecord
<1>4. GateInv'
  BY DEF GateInv, Gated
<1>5. BundleInv'
  BY DEF BundleInv
<1>6. HaltStops'
  BY DEF HaltStops, RecordInv, TypeOK, Halts, UserPhases, OkRecord, FailedRecord,
         HaltedRecord, NoRecord
<1>7. OkIsEarned'
  BY DEF OkIsEarned, AgentIsReady, OutputError, SideEffectsHold, HaltStops, TypeOK,
         Outputs, RecordInv, RanInv, BundleInv, Ran, OkRecord, FailedRecord, HaltedRecord,
         NoRecord
<1> QED
  BY <1>1, <1>2, <1>3, <1>4, <1>5, <1>6, <1>7

\* The failure funnel's first write.
LEMMA WriteHandoffKeeps ==
  ASSUME IInv, WriteHandoff
  PROVE  IInv'
<1> USE AfterIs DEF IInv, userFiles, WriteHandoff
<1>a. at' \in EnginePhases \cup Gated \cup Ending
  BY DEF EnginePhases, Gated, Ending, UserPhases
<1>1. TypeOK'
  BY AtType, <1>a DEF TypeOK, Halts, Outputs, Docs, Sidecars, RecordInv, OkRecord,
                      FailedRecord, HaltedRecord, NoRecord
<1>2. RanInv'
  BY DEF RanInv, Ran, BeforeAgent, UserPhases
<1>3. RecordInv'
  BY DEF RecordInv, UserPhases, OkRecord, FailedRecord, HaltedRecord, NoRecord
<1>4. GateInv'
  BY DEF GateInv, Gated
<1>5. BundleInv'
  BY DEF BundleInv
<1>6. HaltStops'
  BY DEF HaltStops, RecordInv, TypeOK, Halts, UserPhases, OkRecord, FailedRecord,
         HaltedRecord, NoRecord
<1>7. OkIsEarned'
  BY DEF OkIsEarned, AgentIsReady, RecordInv, Ran, OkRecord, FailedRecord, HaltedRecord,
         NoRecord
<1> QED
  BY <1>1, <1>2, <1>3, <1>4, <1>5, <1>6, <1>7

\* The failure funnel's record.
LEMMA WriteFailedKeeps ==
  ASSUME IInv, WriteFailed
  PROVE  IInv'
<1> USE AfterIs DEF IInv, userFiles, WriteFailed
<1>a. at' \in EnginePhases \cup Gated \cup Ending
  BY DEF EnginePhases, Gated, Ending, UserPhases
<1>1. TypeOK'
  BY AtType, <1>a DEF TypeOK, Halts, Outputs, Docs, Sidecars, RecordInv, OkRecord,
                      FailedRecord, HaltedRecord, NoRecord
<1>2. RanInv'
  BY DEF RanInv, Ran, BeforeAgent, UserPhases
<1>3. RecordInv'
  BY DEF RecordInv, UserPhases, OkRecord, FailedRecord, HaltedRecord, NoRecord
<1>4. GateInv'
  BY DEF GateInv, Gated
<1>5. BundleInv'
  BY DEF BundleInv
<1>6. HaltStops'
  BY DEF HaltStops, RecordInv, TypeOK, Halts, UserPhases, OkRecord, FailedRecord,
         HaltedRecord, NoRecord
<1>7. OkIsEarned'
  BY DEF OkIsEarned, AgentIsReady, RecordInv, Ran, OkRecord, FailedRecord, HaltedRecord,
         NoRecord
<1> QED
  BY <1>1, <1>2, <1>3, <1>4, <1>5, <1>6, <1>7

\* The container is killed.
LEMMA KilledKeeps ==
  ASSUME IInv, Killed
  PROVE  IInv'
<1> USE AfterIs DEF IInv, userFiles, Killed
<1>a. at' \in EnginePhases \cup Gated \cup Ending
  BY DEF EnginePhases, Gated, Ending, UserPhases
<1>1. TypeOK'
  BY AtType, <1>a DEF TypeOK, Halts, Outputs, Docs, Sidecars, RecordInv, OkRecord,
                      FailedRecord, HaltedRecord, NoRecord
<1>2. RanInv'
  BY DEF RanInv, Ran, BeforeAgent, UserPhases
<1>3. RecordInv'
  BY DEF RecordInv, UserPhases, OkRecord, FailedRecord, HaltedRecord, NoRecord
<1>4. GateInv'
  BY DEF GateInv, Gated
<1>5. BundleInv'
  BY DEF BundleInv
<1>6. HaltStops'
  BY DEF HaltStops, RecordInv, TypeOK, Halts, UserPhases, OkRecord, FailedRecord,
         HaltedRecord, NoRecord
<1>7. OkIsEarned'
  BY DEF OkIsEarned, AgentIsReady, RecordInv, Ran, OkRecord, FailedRecord, HaltedRecord,
         NoRecord
<1> QED
  BY <1>1, <1>2, <1>3, <1>4, <1>5, <1>6, <1>7

-----------------------------------------------------------------------------
(* The sequencer. *)

\* A box starts in the invariant.
LEMMA InitInv == Init => IInv
<1> SUFFICES ASSUME Init PROVE IInv
  OBVIOUS
<1>1. ran \in Seq(UserPhases) /\ Len(ran) = 0
  <2>1. ran = << >>
    BY DEF Init
  <2> QED
    BY <2>1
<1>2. ~Ran("agent")
  BY <1>1 DEF Ran
<1>3. TypeOK
  BY AtType DEF Init, TypeOK, EnginePhases, Halts, Outputs, Docs, Sidecars, NoRecord
<1>4. RanInv /\ RecordInv /\ GateInv /\ BundleInv
  BY <1>1, <1>2 DEF Init, RanInv, RecordInv, GateInv, BundleInv, Gated, BeforeAgent
<1>5. HaltStops /\ OkIsEarned
  BY <1>2 DEF Init, HaltStops, OkIsEarned, AgentIsReady, NoRecord
<1> QED
  BY <1>3, <1>4, <1>5 DEF IInv

\* Every step of the sequencer keeps it.
LEMMA NextInv == IInv /\ [Next]_vars => IInv'
<1> SUFFICES ASSUME IInv, [Next]_vars PROVE IInv'
  OBVIOUS
<1>1. CASE \E p \in EnginePhases : EnginePhase(p)
  BY <1>1, EngineKeeps
<1>2. CASE HookPhase("context") \/ HookPhase("postlude")
  BY <1>2, HookKeeps
<1>3. CASE PreludePhase
  BY <1>3, PreludeKeeps
<1>4. CASE AgentPhase
  BY <1>4, AgentKeeps
<1>5. CASE EmitResult
  BY <1>5, EmitKeeps
<1>6. CASE WriteHandoff
  BY <1>6, WriteHandoffKeeps
<1>7. CASE WriteFailed
  BY <1>7, WriteFailedKeeps
<1>8. CASE Killed
  BY <1>8, KilledKeeps
<1>9. CASE UNCHANGED vars
  BY <1>9 DEF vars, userFiles, IInv, TypeOK, RanInv, RecordInv, GateInv, BundleInv,
              HaltStops,
              OkIsEarned, AgentIsReady, Ran, OkRecord, FailedRecord, HaltedRecord
<1> QED
  BY <1>1, <1>2, <1>3, <1>4, <1>5, <1>6, <1>7, <1>8, <1>9 DEF Next, EnginePhases

\* A step of the sequencer leaves at most one record, and none after it ended.
LEMMA StepKeepsContract ==
  ASSUME IInv, [Next]_vars
  PROVE  [Contract!Next]_<<record.status, at \in {"exited", "killed"}>>
<1> USE AfterIs DEF IInv, RecordInv, NoRecord, UserPhases, vars, userFiles, Contract!Next,
                    Contract!Leave, Contract!End, OkRecord, FailedRecord, HaltedRecord,
                    FailStop, CheckHalt
<1>1. CASE \E p \in EnginePhases : EnginePhase(p)
  BY <1>1 DEF EnginePhases, EnginePhase
<1>2. CASE HookPhase("context") \/ HookPhase("postlude")
  BY <1>2 DEF HookPhase, HookUnknown
<1>3. CASE PreludePhase
  BY <1>3 DEF PreludePhase, HookUnknown, LoadBundle
<1>4. CASE AgentPhase
  BY <1>4 DEF AgentPhase
<1>5. CASE EmitResult
  BY <1>5 DEF EmitResult
<1>6. CASE WriteHandoff
  BY <1>6 DEF WriteHandoff
<1>7. CASE WriteFailed
  BY <1>7 DEF WriteFailed
<1>8. CASE Killed
  BY <1>8 DEF Killed
<1>9. CASE UNCHANGED vars
  BY <1>9
<1> QED
  BY <1>1, <1>2, <1>3, <1>4, <1>5, <1>6, <1>7, <1>8, <1>9 DEF Next, EnginePhases

-----------------------------------------------------------------------------
(* The host. *)

ResultInv == /\ IInv /\ AlwaysAResult
             /\ result # NoRecord => at \in Over

\* What ExtractResult makes of a record file: a failure of its own, or the file.
LEMMA ExtractIs ==
  ASSUME NEW f \in FileType
  PROVE  LET r == ExtractResult(f)
         IN  \/ /\ r.status = "failed" /\ r.handoff = "none"
                /\ r.error \in {"box-vanished", "contract-version", "halt-invalid", "output-schema"}
                /\ Readable(f) /\ ~f.current => r.error = "contract-version"
                /\ r.skipped \in {FALSE, f.skipped} /\ r.check \in {FALSE, f.check}
                /\ ~Readable(f) \/ ~f.current
                     \/ (f.status = "ok" /\ ~f.fits) \/ (f.status = "halted" /\ f.halt # "named")
             \/ /\ Readable(f) /\ f.current
                /\ r.status = f.status /\ r.error = f.error /\ r.handoff = f.handoff
                /\ r.halt = f.halt /\ r.skipped = f.skipped /\ r.check = f.check
                /\ f.status = "ok" => f.fits
                /\ f.status = "halted" => f.halt = "named"
<1> DEFINE r == ExtractResult(f)
<1>1. CASE ~Readable(f)
  <2>1. r = Failed("box-vanished", Silent)
    BY <1>1 DEF ExtractResult
  <2>2. /\ r.status = "failed" /\ r.handoff = "none" /\ r.error = "box-vanished"
        /\ r.skipped = FALSE /\ r.check = FALSE
    BY <2>1 DEF Failed, Silent
  <2> QED
    BY <1>1, <2>2
<1>2. CASE Readable(f) /\ ~f.current
  <2>1. r = Failed("contract-version", f)
    BY <1>2 DEF ExtractResult
  <2> QED
    BY <1>2, <2>1 DEF Failed
<1>3. CASE Readable(f) /\ f.current /\ f.status = "halted" /\ f.halt # "named"
  <2>1. r = Failed("halt-invalid", Silent)
    BY <1>3 DEF ExtractResult
  <2> QED
    BY <1>3, <2>1 DEF Failed, Silent
<1>4. CASE /\ Readable(f) /\ f.current
           /\ f.status = "failed" \/ (f.status = "halted" /\ f.halt = "named")
  <2>1. r = [f EXCEPT !.fits = FALSE]
    BY <1>4 DEF ExtractResult
  <2> QED
    BY <1>4, <2>1 DEF FileType
<1>5. CASE Readable(f) /\ f.current /\ f.status = "ok" /\ ~f.fits
  <2>1. r = Failed("output-schema", f)
    BY <1>5 DEF ExtractResult
  <2> QED
    BY <1>5, <2>1 DEF Failed
<1>6. CASE Readable(f) /\ f.current /\ f.status = "ok" /\ f.fits
  <2>1. r = f
    BY <1>6 DEF ExtractResult
  <2> QED
    BY <1>6, <2>1
<1>7. \/ ~Readable(f) \/ (Readable(f) /\ ~f.current)
      \/ Readable(f) /\ f.current /\ f.status = "halted" /\ f.halt # "named"
      \/ /\ Readable(f) /\ f.current
         /\ f.status = "failed" \/ (f.status = "halted" /\ f.halt = "named")
      \/ Readable(f) /\ f.current /\ f.status = "ok" /\ ~f.fits
      \/ Readable(f) /\ f.current /\ f.status = "ok" /\ f.fits
  BY DEF Readable, FileType
<1> QED
  BY <1>1, <1>2, <1>3, <1>4, <1>5, <1>6, <1>7, Zenon

\* The result the pipeline gets for a record file.
LEMMA AdaptIs ==
  ASSUME NEW f \in FileType, NEW g, g = AdaptResult(ExtractResult(f))
  PROVE  /\ Valid(g) /\ g.error # "reserved"
         /\ g.status # "failed" => f.status = g.status /\ f.current
         /\ g.status = "ok" => f.fits
         /\ g.handoff => f.handoff = "inside"
         /\ g.skipped => f.skipped
         /\ g.check => f.check
<1> DEFINE r == ExtractResult(f)
<1>1. /\ g.status = r.status
      /\ g.payload = (r.status = "ok")
      /\ g.error = IF r.status = "failed" THEN Reason(r.error) ELSE "none"
      /\ g.handoff = (r.status = "failed" /\ r.error # "none" /\ r.handoff = "inside")
      /\ g.halt = IF r.status = "halted" THEN r.halt ELSE "none"
      /\ g.skipped = r.skipped /\ g.check = r.check
  BY DEF AdaptResult
<1> HIDE DEF r
<1>2. \A e : Reason(e) \notin {"none", "unnamed", "reserved"}
  BY DEF Reason
<1>3. /\ f.current \in BOOLEAN /\ f.fits \in BOOLEAN /\ f.skipped \in BOOLEAN /\ f.check \in BOOLEAN
      /\ f.status \in {"ok", "failed", "halted", "unknown"}
  BY DEF FileType
<1>4. \/ /\ r.status = "failed" /\ r.handoff = "none"
         /\ r.skipped \in {FALSE, f.skipped} /\ r.check \in {FALSE, f.check}
      \/ /\ Readable(f) /\ f.current
         /\ r.status = f.status /\ r.error = f.error /\ r.handoff = f.handoff
         /\ r.halt = f.halt /\ r.skipped = f.skipped /\ r.check = f.check
         /\ f.status = "ok" => f.fits
         /\ f.status = "halted" => f.halt = "named"
  BY ExtractIs DEF r
<1> QED
  BY <1>1, <1>2, <1>3, <1>4 DEF Valid, Readable

\* A directory without a record reads as a vanished box.
LEMMA AdaptNone ==
  ASSUME NEW g, g = AdaptResult(ExtractResult(NoFile))
  PROVE  Valid(g) /\ g.status = "failed" /\ g.error = "box-vanished" /\ ~g.handoff
<1>1. ExtractResult(NoFile) = Failed("box-vanished", Silent)
  BY DEF ExtractResult, Readable, NoFile
<1>2. LET r == ExtractResult(NoFile)
      IN  r.status = "failed" /\ r.error = "box-vanished" /\ r.handoff = "none"
  BY <1>1 DEF Failed
<1>3. Reason("box-vanished") = "box-vanished"
  BY DEF Reason
<1>4. /\ g.status = "failed" /\ g.payload = FALSE /\ g.error = "box-vanished"
      /\ g.handoff = FALSE /\ g.halt = "none"
  BY <1>2, <1>3 DEF AdaptResult
<1> QED
  BY <1>4 DEF Valid

\* The sequencer's own record is a record file that keeps its verdict.
LEMMA WrittenIs ==
  ASSUME IInv, record # NoRecord, NEW c \in BOOLEAN, NEW f, f = Written(record, c)
  PROVE  /\ f \in FileType /\ Readable(f)
         /\ f.current = c /\ f.status = record.status
         /\ f.status = "ok" => f.fits
         /\ f.status = "halted" => f.halt = "named"
         /\ f.handoff = "inside" => handoff
         /\ f.skipped => skip
         /\ f.check => opt.check
         /\ f.skipped = record.skipped /\ f.check = record.check
<1>1. opt \in OptionType /\ skip \in BOOLEAN /\ handoff \in BOOLEAN
  BY OptionsAssumption DEF IInv, TypeOK
<1>2. opt.check \in BOOLEAN
  BY <1>1 DEF OptionType
<1>3. /\ record.status \in {"ok", "failed", "halted"}
      /\ record.skipped \in BOOLEAN /\ record.check \in BOOLEAN
      /\ record.status = "failed" => record.handoff = handoff
      /\ record.skipped => skip
      /\ record.check => opt.check
  <2>1. CASE record = OkRecord
    BY <1>1, <1>2, <2>1 DEF OkRecord
  <2>2. CASE record = FailedRecord
    BY <1>1, <1>2, <2>2 DEF FailedRecord
  <2>3. CASE \E p \in UserPhases : record = HaltedRecord(p)
    BY <2>3 DEF HaltedRecord
  <2> QED
    BY <2>1, <2>2, <2>3 DEF IInv, RecordInv
<1>4. /\ f.status = record.status /\ f.current = c /\ f.fits = (record.status = "ok")
      /\ f.error = IF record.status = "failed" THEN "other" ELSE "none"
      /\ f.handoff = IF record.status = "failed" /\ record.handoff THEN "inside" ELSE "none"
      /\ f.halt = IF record.status = "halted" THEN "named" ELSE "none"
      /\ f.skipped = record.skipped /\ f.check = record.check
  BY DEF Written
<1>5. f \in FileType
  BY <1>1, <1>3 DEF Written, FileType
<1> QED
  BY <1>3, <1>4, <1>5 DEF Readable

\* The host's one step.
LEMMA ExtractKeeps ==
  ASSUME ResultInv, HostExtracts
  PROVE  ResultInv'
<1>1. PICK f \in Found : file' = f /\ result' = AdaptResult(ExtractResult(f))
  BY DEF HostExtracts
<1>2. IInv' /\ UNCHANGED vars /\ at' \in Over
  BY NextInv DEF HostExtracts, ResultInv, Over, vars
<1>3. CASE record = NoRecord
  <2>1. f = NoFile \/ f \in FileType
    BY <1>3 DEF Found, NoRecord
  <2>2. VerdictKept'
    BY <1>2, <1>3 DEF VerdictKept, vars
  <2>3. CASE f = NoFile
    BY <1>1, <1>2, <2>2, <2>3, AdaptNone DEF AlwaysAResult, ResultInv
  <2>4. CASE f \in FileType
    BY <1>1, <1>2, <2>2, <2>4, AdaptIs DEF AlwaysAResult, ResultInv
  <2> QED
    BY <2>1, <2>3, <2>4
<1>4. CASE record # NoRecord
  <2>1. record.status # "none"
    BY <1>4 DEF ResultInv, IInv, RecordInv, OkRecord, FailedRecord, HaltedRecord
  <2>2. PICK c \in BOOLEAN : f = Written(record, c)
    BY <2>1 DEF Found
  <2>3. /\ f \in FileType /\ Readable(f)
        /\ f.current = c /\ f.status = record.status
        /\ f.status = "ok" => f.fits
        /\ f.status = "halted" => f.halt = "named"
        /\ f.handoff = "inside" => handoff
        /\ f.skipped => skip
        /\ f.check => opt.check
        /\ f.skipped = record.skipped /\ f.check = record.check
    BY <1>4, <2>2, WrittenIs DEF ResultInv
  <2>4. /\ result'.status # "failed" => result'.status = record.status
        /\ f.current => result'.status = record.status
        /\ ~f.current => result'.status = "failed" /\ result'.error = "contract-version"
        /\ result'.status = "ok" =>
             result'.skipped = record.skipped /\ result'.check = record.check
    BY <1>1, <2>3, ExtractIs DEF AdaptResult, Reason
  <2>5. Ran("agent") => ~skip /\ ~opt.check
    BY DEF ResultInv, IInv, OkIsEarned, AgentIsReady
  <2>6. record.status = "ok" => Ran("agent") \/ record.skipped \/ record.check
    BY DEF ResultInv, IInv, OkIsEarned
  <2>7. /\ result'.handoff => handoff
        /\ result'.skipped => skip
        /\ result'.check => opt.check
    BY <1>1, <2>3, AdaptIs
  <2>8. VerdictKept'
    BY <1>1, <1>2, <2>3, <2>4, <2>5, <2>6, <2>7 DEF VerdictKept, Ran, vars
  <2> QED
    BY <1>1, <1>2, <2>3, <2>8, AdaptIs DEF AlwaysAResult, ResultInv
<1> QED
  BY <1>3, <1>4

\* Once the host has a result nothing changes any more.
LEMMA ResultNextInv == ResultInv /\ [ResultNext]_allVars => ResultInv'
<1> SUFFICES ASSUME ResultInv, [ResultNext]_allVars PROVE ResultInv'
  OBVIOUS
<1>1. CASE Next /\ UNCHANGED <<file, result>>
  <2>1. IInv'
    BY <1>1, NextInv DEF ResultInv
  <2>2. at \notin Over
    BY <1>1 DEF Next, Over, EnginePhase, HookPhase, PreludePhase, AgentPhase, EmitResult,
                WriteHandoff, WriteFailed, Killed
  <2> QED
    BY <1>1, <2>1, <2>2 DEF ResultInv, AlwaysAResult
<1>2. CASE HostExtracts
  BY <1>2, ExtractKeeps
<1>3. CASE UNCHANGED allVars
  <2>1. IInv'
    BY <1>3, NextInv DEF ResultInv, allVars
  <2> QED
    BY <1>3, <2>1 DEF ResultInv, AlwaysAResult, VerdictKept, Ran, allVars, vars
<1> QED
  BY <1>1, <1>2, <1>3 DEF ResultNext

\* The invariant of the sequencer and the host together: what is known of the box
\* by its phase, and the result of a box that is over.
THEOREM ResultInvariant == ResultSpec => []ResultInv
<1>1. ResultInit => ResultInv
  BY InitInv DEF ResultInit, ResultInv, AlwaysAResult
<1> QED
  BY <1>1, ResultNextInv, PTL DEF ResultSpec

\* The state of a box stays well formed.
THEOREM BoxTypeCorrect == ResultSpec => []TypeOK
<1>1. ResultInv => TypeOK
  BY DEF ResultInv, IInv
<1> QED
  BY <1>1, ResultInvariant, PTL

\* A halt request that any user phase leaves behind stops the box in that phase,
\* and never becomes an ok record (checkHalt, agent/box/halt.go).
THEOREM HaltCorrect == ResultSpec => []HaltStops
<1>1. ResultInv => HaltStops
  BY DEF ResultInv, IInv
<1> QED
  BY <1>1, ResultInvariant, PTL

\* An ok record is earned: the agent ran behind its gates or the record says why
\* not, the output fits, the declared branch is on the gateway (emitResult).
THEOREM OkCorrect == ResultSpec => []OkIsEarned
<1>1. ResultInv => OkIsEarned
  BY DEF ResultInv, IInv
<1> QED
  BY <1>1, ResultInvariant, PTL

\* Whatever the container leaves, RunAttempt returns a valid result that keeps
\* the box's verdict (ExtractResult, adaptResult).
THEOREM ResultCorrect == ResultSpec => []AlwaysAResult
<1>1. ResultInv => AlwaysAResult
  BY DEF ResultInv
<1> QED
  BY <1>1, ResultInvariant, PTL

\* The sequencer implements the container's contract with its host: at most one
\* record, never replaced, and none after the end.
THEOREM ContractRefined == ResultSpec => KeepsContract
<1>1. ResultInit => Contract!Init
  <2> SUFFICES ASSUME ResultInit PROVE Contract!Init
    OBVIOUS
  <2>1. record.status = "none" /\ at = "preamble"
    BY DEF ResultInit, Init, NoRecord
  <2>2. (at \in {"exited", "killed"}) = FALSE
    BY <2>1
  <2> QED
    BY <2>1, <2>2 DEF Contract!Init
<1>2. ResultInv /\ [ResultNext]_allVars
        => [Contract!Next]_<<record.status, at \in {"exited", "killed"}>>
  BY StepKeepsContract DEF ResultInv, ResultNext, HostExtracts, allVars, vars
<1> QED
  BY <1>1, <1>2, ResultInvariant, PTL DEF ResultSpec, KeepsContract, Contract!Spec
=============================================================================
