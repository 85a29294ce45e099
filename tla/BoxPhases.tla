------------------------------ MODULE BoxPhases -----------------------------
(***************************************************************************)
(* The phase sequencer inside a step container (agent/box): eleven phases  *)
(* in a fixed order, fail-stop between them, a halt request honoured after *)
(* each user-filled phase, and one attempt record on every exit path.      *)
(*                                                                         *)
(* Hooks and the agent are opaque: in its phase each may write the halt    *)
(* file, the output file and the context bundle as it likes, and exits 0   *)
(* or not.  That user code can also forge result.json is left out: a       *)
(* surviving sequencer replaces the file, and the host re-validates it.    *)
(***************************************************************************)
EXTENDS Naturals, Sequences

CONSTANT Options   \* the environment contracts a box may be started under

Phases == <<"skills", "env", "secrets", "hostkey", "clone", "signing", "context",
            "prelude", "agent", "postlude", "result">>
UserPhases == {"context", "prelude", "agent", "postlude"}

\* What ParseEnv and validate leave of the environment.
OptionType ==
  [hooks : SUBSET {"context", "prelude", "postlude"},
   remote : {"none", "local", "ssh"}, policy : {"none", "pinned", "tofu"},
   keys : 0..2, email : BOOLEAN, secrets : {"none", "fine", "clash", "reserved"},
   optional : BOOLEAN, check : BOOLEAN, required : BOOLEAN]

ASSUME OptionsAssumption == Options \subseteq OptionType

Halts == {"none", "ok", "malformed"}
Outputs == {"none", "good", "empty", "bad", "garbled"}
Docs == {"none", "blank", "text"}
Sidecars == {"none", "branch", "skip", "skip-other", "reserved", "malformed"}

NoRecord == [status |-> "none"]

VARIABLES
  opt,       \* this box's environment
  at,        \* the phase it is in, or "handoff", "record", "exited", "killed"
  err,       \* the phase and reason failStop was called with
  halt, output, doc, sidecar,   \* the files user code writes
  declared,  \* hookDeclared
  bundle,    \* the loaded sidecar, "unset" before the prelude's end
  skip,      \* skipAgent
  pushed,    \* the declared branch exists on the gateway
  ran,       \* history: the user phases that ran their program, in order
  handoff,   \* handoff.json is in the result directory
  record     \* result.json

userFiles == <<halt, output, doc, sidecar, pushed>>
vars == <<opt, at, err, userFiles, declared, bundle, skip, ran, handoff, record>>

Init ==
  /\ opt \in Options
  /\ at = "preamble"
  /\ err = <<"", "">>
  /\ halt = "none" /\ output = "none" /\ doc = "none" /\ sidecar = "none"
  /\ pushed = FALSE
  /\ declared = FALSE /\ bundle = "unset" /\ skip = FALSE
  /\ ran = << >>
  /\ handoff = FALSE /\ record = NoRecord

Index(p) == CHOOSE i \in 1..Len(Phases) : Phases[i] = p
After(p) == IF p = "preamble" THEN Phases[1]
            ELSE IF p = "result" THEN "exited" ELSE Phases[Index(p) + 1]

-----------------------------------------------------------------------------
(* The single failure funnel: handoff, bundle snapshot, failed record. *)

FailStop(p, reason) ==
  /\ at' = "handoff"
  /\ err' = <<p, reason>>
  /\ UNCHANGED <<opt, handoff, record>>

\* A handoff that cannot be written is only logged; the pointer stays empty.
WriteHandoff ==
  /\ at = "handoff"
  /\ at' = "record"
  /\ handoff' \in BOOLEAN
  /\ UNCHANGED <<opt, err, userFiles, declared, bundle, skip, ran, record>>

\* Env.Check is known once the env phase has decoded it.
FailedRecord ==
  [status |-> "failed", reason |-> err[2], handoff |-> handoff, skipped |-> skip,
   check |-> opt.check /\ err[1] \notin {"preamble", "skills"}]

WriteFailed ==
  /\ at = "record"
  /\ at' = "exited"
  /\ record' \in {record, FailedRecord}
  /\ UNCHANGED <<opt, err, userFiles, declared, bundle, skip, ran, handoff>>

-----------------------------------------------------------------------------
(* The engine's own phases: "ok", or the reasons they may fail with. *)

enterRunUser == {"ok", "env-contract"}
linkSkills == {"ok", "skills"}
checkEnv == {"ok", "env-contract"}

\* Secrets whose names fold onto one variable, or onto a reserved one, fail.
loadSecrets ==
  CASE opt.secrets = "none" -> {"ok"}
    [] opt.secrets = "fine" -> {"ok", "secrets"}
    [] OTHER -> {"secrets"}

applyHostKeyPolicy ==
  CASE opt.policy = "pinned" -> {"ok", "host-key-policy"}
    [] opt.policy = "tofu" -> {"ok"}
    [] OTHER -> IF opt.remote = "ssh" THEN {"host-key-policy"} ELSE {"ok"}

clone == {"ok", "clone-failed"}

\* Exactly one key behind the forwarded socket, and a committer email.
configureSigning ==
  IF opt.remote = "none" THEN {"ok"}
  ELSE IF opt.keys = 1 /\ opt.email THEN {"ok", "signing"}
  ELSE {"signing"}

Engine(p) ==
  CASE p = "preamble" -> enterRunUser
    [] p = "skills" -> linkSkills
    [] p = "env" -> checkEnv
    [] p = "secrets" -> loadSecrets
    [] p = "hostkey" -> applyHostKeyPolicy
    [] p = "clone" -> clone
    [] p = "signing" -> configureSigning

EnginePhase(p) ==
  /\ at = p
  /\ \/ "ok" \in Engine(p) /\ at' = After(p) /\ UNCHANGED <<opt, err, handoff, record>>
     \/ \E r \in Engine(p) \ {"ok"} : FailStop(p, r)
  /\ UNCHANGED <<userFiles, declared, bundle, skip, ran>>

-----------------------------------------------------------------------------
(* The user-filled phases. *)

\* A program of the user ran: hooks may author the bundle, anybody the rest.
UserProgram(p) ==
  /\ ran' = Append(ran, p)
  /\ halt' \in Halts
  /\ output' \in Outputs
  /\ IF p \in {"context", "prelude"}
       THEN doc' \in Docs /\ sidecar' \in Sidecars ELSE UNCHANGED <<doc, sidecar>>
  /\ pushed' \in BOOLEAN

HaltedRecord(p) ==
  [status |-> "halted", phase |-> p, skipped |-> FALSE, check |-> FALSE]

\* Mutant: a halt request is only looked for before the agent.
HonourEarly(p) ==
  \/ /\ halt' = "none" \/ p \in {"agent", "postlude"}
     /\ at' = After(p)
     /\ UNCHANGED <<opt, err, handoff, record>>
  \/ halt' = "malformed" /\ p \in {"context", "prelude"} /\ FailStop(p, "halt-invalid")
  \/ /\ halt' = "ok"
     /\ p \in {"context", "prelude"}
     /\ at' = "exited"
     /\ record' = HaltedRecord(p)
     /\ UNCHANGED <<opt, err, handoff>>

\* Mutant: a halt that was honoured goes through the failure funnel as well.
HonourAndFail(p) ==
  \/ halt' = "none" /\ at' = After(p) /\ UNCHANGED <<opt, err, handoff, record>>
  \/ halt' = "malformed" /\ FailStop(p, "halt-invalid")
  \/ /\ halt' = "ok"
     /\ at' = "handoff" /\ err' = <<p, "halted">>
     /\ record' = HaltedRecord(p)
     /\ UNCHANGED <<opt, handoff>>

\* checkHalt, after a user phase that exited 0 (its files are primed here).
CheckHalt(p) ==
  \/ halt' = "none" /\ at' = After(p) /\ UNCHANGED <<opt, err, handoff, record>>
  \/ halt' = "malformed" /\ FailStop(p, "halt-invalid")
  \/ /\ halt' = "ok"
     /\ at' = "exited"
     /\ record' = HaltedRecord(p)
     /\ UNCHANGED <<opt, err, handoff>>
  \/ halt' = "ok" /\ FailStop(p, "result-write")

\* A hook whose file cannot be looked up fails its phase, declared or not.
HookUnknown(p) ==
  /\ UNCHANGED <<userFiles, declared, ran>>
  /\ FailStop(p, "hook-failed")

\* runHook for the context and postlude phases.
HookPhase(p) ==
  /\ at = p
  /\ p \in {"context", "postlude"}
  /\ \/ HookUnknown(p)
     \/ /\ p \notin opt.hooks
        /\ UNCHANGED <<userFiles, declared, ran>>
        /\ CheckHalt(p)
     \/ /\ p \in opt.hooks
        /\ declared' = TRUE
        /\ UserProgram(p)
        /\ CheckHalt(p) \/ FailStop(p, "hook-failed")
  /\ UNCHANGED <<bundle, skip>>

\* Mutant: the sidecar is loaded without being checked.
BundleErrorDocOnly(d, s) == IF d # "text" THEN "bundle-missing" ELSE "ok"

\* The prelude's postcondition on what the hooks wrote: "ok" or the reason.
BundleError(d, s) ==
  IF d # "text" THEN "bundle-missing"
  ELSE IF s \in {"malformed", "reserved", "skip-other"} THEN "bundle-malformed"
  ELSE IF s = "branch" /\ opt.remote = "none" THEN "bundle-malformed"
  ELSE "ok"

\* Without a declared hook a minimal context document is synthesized, if it can be
\* written.
LoadBundle ==
  LET synthesized == ~declared'
      d == IF synthesized THEN "text" ELSE doc'
      s == IF synthesized THEN "none" ELSE sidecar'
  IN  \/ /\ BundleError(d, s) = "ok"
         /\ bundle' = s
         /\ skip' = (s = "skip" /\ opt.optional)
         /\ CheckHalt("prelude")
      \/ /\ BundleError(d, s) # "ok"
         /\ UNCHANGED <<bundle, skip>>
         /\ FailStop("prelude", BundleError(d, s))
      \/ /\ synthesized
         /\ UNCHANGED <<bundle, skip>>
         /\ FailStop("prelude", "bundle-missing")

\* A halting prelude owes no bundle.
PreludePhase ==
  /\ at = "prelude"
  /\ \/ HookUnknown("prelude") /\ UNCHANGED <<bundle, skip>>
     \/ /\ \/ "prelude" \notin opt.hooks /\ UNCHANGED <<userFiles, declared, ran>>
           \/ "prelude" \in opt.hooks /\ declared' = TRUE /\ UserProgram("prelude")
        /\ \/ halt' # "none" /\ CheckHalt("prelude") /\ UNCHANGED <<bundle, skip>>
           \/ halt' = "none" /\ LoadBundle
           \/ /\ "prelude" \in opt.hooks
              /\ FailStop("prelude", "hook-failed")
              /\ UNCHANGED <<bundle, skip>>

AgentStarts == ~skip /\ ~opt.check

AgentPhase ==
  /\ at = "agent"
  /\ \/ /\ ~AgentStarts
        /\ UNCHANGED <<userFiles, ran>>
        /\ CheckHalt("agent")
     \/ /\ AgentStarts
        /\ UserProgram("agent")
        /\ CheckHalt("agent") \/ FailStop("agent", "agent-failed")
  /\ UNCHANGED <<declared, bundle, skip>>

-----------------------------------------------------------------------------
(* emitResult *)

\* A check run without an output file reports placeholders, which satisfy the
\* schema; an absent or empty output is fine where nothing is required.
OutputError ==
  CASE output = "garbled" \/ output = "bad" -> "output-schema"
    [] output = "none" -> IF opt.check \/ ~opt.required THEN "ok" ELSE "missing-output"
    [] output = "empty" -> IF opt.required THEN "output-schema" ELSE "ok"
    [] OTHER -> "ok"

\* git ls-remote on the declared branch.
SideEffectsHold == bundle = "branch" => pushed

OkRecord ==
  [status |-> "ok", fallback |-> output = "none", skipped |-> skip, check |-> opt.check]

EmitResult ==
  /\ at = "result"
  /\ \/ OutputError # "ok" /\ FailStop("result", OutputError)
     \/ OutputError = "ok" /\ ~SideEffectsHold /\ FailStop("result", "side-effect-unverified")
     \/ /\ OutputError = "ok" /\ SideEffectsHold
        /\ record' = OkRecord
        /\ at' = "exited"
        /\ UNCHANGED <<opt, err, handoff>>
     \/ OutputError = "ok" /\ SideEffectsHold /\ FailStop("result", "result-write")
  /\ UNCHANGED <<userFiles, declared, bundle, skip, ran>>

\* The host kills the container, or the sequencer dies.
Killed ==
  /\ at \notin {"exited", "killed"}
  /\ at' = "killed"
  /\ UNCHANGED <<opt, err, userFiles, declared, bundle, skip, ran, handoff, record>>

Next ==
  \/ \E p \in {"preamble", "skills", "env", "secrets", "hostkey", "clone", "signing"} :
       EnginePhase(p)
  \/ HookPhase("context") \/ PreludePhase \/ AgentPhase \/ HookPhase("postlude")
  \/ EmitResult \/ WriteHandoff \/ WriteFailed \/ Killed

Spec == Init /\ [][Next]_vars

-----------------------------------------------------------------------------
(* Properties *)

\* The state is well formed.
TypeOK ==
  /\ opt \in Options
  /\ at \in {Phases[i] : i \in 1..Len(Phases)}
       \cup {"preamble", "handoff", "record", "exited", "killed"}
  /\ halt \in Halts /\ output \in Outputs /\ doc \in Docs /\ sidecar \in Sidecars
  /\ bundle \in Sidecars \cup {"unset"}
  /\ record.status \in {"none", "ok", "failed", "halted"}
  /\ handoff \in BOOLEAN /\ pushed \in BOOLEAN /\ declared \in BOOLEAN /\ skip \in BOOLEAN

Ran(p) == \E i \in 1..Len(ran) : ran[i] = p

\* The agent never starts on a missing or malformed bundle, and on a gated step
\* only with exactly one key, a committer and a host-key policy; a record that says
\* it was skipped, or that the run was a check, is right.
AgentIsReady ==
  Ran("agent") =>
    /\ bundle \notin {"unset", "malformed", "reserved", "skip-other"}
    /\ opt.remote # "none" => opt.keys = 1 /\ opt.email
    /\ opt.remote = "ssh" => opt.policy # "none"
    /\ ~skip /\ ~opt.check

\* An ok record is never claimed for less than the contract: no halt request is
\* outstanding, the output satisfies the schema, the declared branch is on the
\* gateway, and the agent ran, ready, unless the record says why not.
OkIsEarned ==
  /\ AgentIsReady
  /\ record.status = "ok" =>
       /\ halt = "none"
       /\ output \notin {"bad", "garbled"}
       /\ opt.required /\ ~opt.check => output = "good"
       /\ sidecar = "branch" /\ declared => pushed
       /\ Ran("agent") \/ record.skipped \/ record.check

\* A halt request that a user phase leaves behind stops the box there: no later
\* program of the user runs, and the record is the halt of that phase or a
\* failure.
HaltStops ==
  halt # "none" =>
    /\ at \in {"handoff", "record", "exited", "killed"}
    /\ record.status = "halted" => record.phase = ran[Len(ran)]
    /\ record.status # "ok"

\* "honesty metadata beside any status, so journal, cost accounting, and report
\* show that no agent ran" (contract/record.go:79).  Violated by a prelude that skips
\* the agent and halts: the record checkHalt writes has no such field set.
SkipConfessed ==
  record.status # "none" /\ skip => record.skipped

\* The sequencer keeps the container's promise to the host.
Contract == INSTANCE BoxContract
              WITH record <- record.status, over <- at \in {"exited", "killed"}
KeepsContract == Contract!Spec
=============================================================================
