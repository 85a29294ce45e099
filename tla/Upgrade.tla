------------------------------ MODULE Upgrade -------------------------------
(***************************************************************************)
(* faber upgrade: the active-runs guard of config/cmd_upgrade.go, then the *)
(* install.sh the binary embeds.  The script runs under `set -e`, and each *)
(* of its renames is a step of its own: other programs run, an upgrade can *)
(* be killed and a rename can fail between any two of them.                *)
(***************************************************************************)
EXTENDS Installed

CONSTANTS
  Ups,            \* processes that run faber upgrade
  Plans,          \* the invocations they may make
  MovesThatFail,  \* "aside", "in", "restore", "rollback": renames that may fail
  MaxUpgrades     \* bound: invocations in a behaviour

PlanType == [mode : {"latest", "named", "rollback"}, target : Releases,
             check : BOOLEAN, force : BOOLEAN]

ASSUME UpgradeAssumption ==
  /\ Plans \subseteq PlanType
  /\ MovesThatFail \subseteq {"aside", "in", "restore", "rollback"}
  /\ MaxUpgrades \in Nat

Stages == {"idle", "gate", "resolve", "fetch", "aside", "in", "restore",
           "rollback"}

VARIABLES
  up,       \* each process: its stage, the tool it works on, its plan, the release
            \* it resolved, the pair before it, the running binary, its exit
  staged,   \* its <path>.new.<pid> files
  made,     \* invocations so far
  replaced  \* history: the pair the last successful upgrade replaced

upgradeVars == <<live, bak, up, staged, made, replaced>>

NoPlan == [mode |-> "none", target |-> None, check |-> FALSE, force |-> FALSE]

UpgradeTypeOK ==
  /\ up \in [Ups -> [at : Stages, tool : Tools, plan : Plans \cup {NoPlan},
                     tag : Releases \cup {None}, current : Releases \cup {None},
                     before : [Tools -> Releases \cup {None}],
                     exit : {"none", "same", "ok", "failed", "killed"}]]
  /\ staged \in [Ups -> [Tools -> Releases \cup {None}]]
  /\ made \in 0..MaxUpgrades
  /\ replaced \in [Tools -> Releases \cup {None}]

UpgradeInit ==
  /\ up = [u \in Ups |-> [at |-> "idle", tool |-> "faber", plan |-> NoPlan, tag |-> None,
                          current |-> None, before |-> Pair(None), exit |-> "none"]]
  /\ staged = [u \in Ups |-> Pair(None)]
  /\ made = 0
  /\ replaced = Pair(None)

Go(u, stage, tool) == up' = [up EXCEPT ![u].at = stage, ![u].tool = tool]
Exit(u, status) == up' = [up EXCEPT ![u].at = "idle", ![u].exit = status]

\* The running faber is the file at its path when it started, so its --current is
\* the release installed then; the files it will stage carry its own pid.
Invoke(u, p) ==
  /\ up[u].at = "idle"
  /\ made < MaxUpgrades
  /\ live["faber"] # None
  /\ up' = [up EXCEPT ![u] = [at |-> "gate", tool |-> "faber", plan |-> p, tag |-> None,
                              current |-> live["faber"], before |-> live, exit |-> "none"]]
  /\ made' = made + 1
  /\ staged' = [staged EXCEPT ![u] = Pair(None)]
  /\ UNCHANGED <<live, bak, runs, replaced>>

\* auditGate: a live or unfinished run refuses the upgrade, but a report only warns
\* and --force overrides.
Blocking == {r \in RunIds : runs[r] \in {"live", "unfinished"}}

\* args(): a rollback is its own mode of the script, and carries no --check.
ScriptStage(p) == IF p.mode = "rollback" THEN "rollback" ELSE "resolve"

AuditGate(u) ==
  /\ up[u].at = "gate"
  /\ IF Blocking # {} /\ ~up[u].plan.check /\ ~up[u].plan.force
       THEN Exit(u, "failed")
       ELSE Go(u, ScriptStage(up[u].plan), "faber")
  /\ UNCHANGED <<live, bak, runs, staged, made, replaced>>

\* scriptEnv: VERSION reaches the script only from --version.  Without it the origin
\* names any release as its latest.
Offers(p) == IF p.mode = "named" THEN {p.target} ELSE Releases

\* The release resolved, if the origin answers.  The one already running ends the
\* upgrade; an older one is refused unless it was named.
Anomaly(u, v) == v < up[u].current /\ up[u].plan.mode = "latest" /\ ~up[u].plan.check

Resolve(u) ==
  /\ up[u].at = "resolve"
  /\ \/ Exit(u, "failed")
     \/ \E v \in Offers(up[u].plan) :
          \/ v = up[u].current /\ Exit(u, "same")
          \/ Anomaly(u, v) /\ Exit(u, "failed")
          \/ /\ v # up[u].current /\ ~Anomaly(u, v)
             /\ up' = [up EXCEPT ![u].tag = v, ![u].at = "fetch"]
  /\ UNCHANGED <<live, bak, runs, staged, made, replaced>>

\* Both archives are downloaded and verified before anything is touched, and a check
\* ends here.  Otherwise both binaries are staged beside their targets.  A failure so
\* far touches no live path, but a copy or the chmod that fails leaves staged files.
FetchAndStage(u) ==
  /\ up[u].at = "fetch"
  /\ \/ Exit(u, "failed") /\ UNCHANGED staged
     \/ up[u].plan.check /\ Exit(u, "same") /\ UNCHANGED staged
     \/ /\ ~up[u].plan.check
        /\ Exit(u, "failed")
        /\ \E left \in [Tools -> {None, up[u].tag}] : staged' = [staged EXCEPT ![u] = left]
     \/ /\ ~up[u].plan.check
        /\ Go(u, "aside", "faber")
        /\ staged' = [staged EXCEPT ![u] = Pair(up[u].tag)]
  /\ UNCHANGED <<live, bak, runs, made, replaced>>

\* The first rename of swap.
MoveAside(u) ==
  LET t == up[u].tool IN
  /\ up[u].at = "aside"
  /\ \/ /\ live[t] # None
        /\ live' = [live EXCEPT ![t] = None]
        /\ bak' = [bak EXCEPT ![t] = live[t]]
        /\ Go(u, "in", t)
     \/ /\ live[t] = None \/ "aside" \in MovesThatFail
        /\ Go(u, "restore", t)
        /\ UNCHANGED <<live, bak>>
  /\ UNCHANGED <<runs, staged, made, replaced>>

\* The second rename of swap: faber's is followed by the box's swap, the box's ends
\* the upgrade.
MoveIn(u) ==
  LET t == up[u].tool IN
  /\ up[u].at = "in"
  /\ \/ /\ live' = [live EXCEPT ![t] = staged[u][t]]
        /\ staged' = [staged EXCEPT ![u][t] = None]
        /\ IF t = "faber" THEN Go(u, "aside", "box") ELSE Exit(u, "ok")
        /\ replaced' = IF t = "faber" THEN replaced ELSE up[u].before
     \/ /\ "in" \in MovesThatFail
        /\ Go(u, "restore", t)
        /\ UNCHANGED <<live, staged, replaced>>
  /\ UNCHANGED <<bak, runs, made>>

\* Mutant: a box that could not be replaced is put back, faber is not.
RestoreOneTool(u) ==
  LET t == up[u].tool IN
  /\ up[u].at = "restore" /\ bak[t] # None
  /\ live' = [live EXCEPT ![t] = bak[t]]
  /\ bak' = [bak EXCEPT ![t] = None]
  /\ Exit(u, "failed")
  /\ staged' = [staged EXCEPT ![u] = Pair(None)]
  /\ UNCHANGED <<runs, made, replaced>>

\* restore(): without a backup, or when its rename fails, the function returns 1
\* and `set -e` ends the script there.
Restore(u) ==
  LET t == up[u].tool IN
  /\ up[u].at = "restore"
  /\ \/ /\ bak[t] # None
        /\ live' = [live EXCEPT ![t] = bak[t]]
        /\ bak' = [bak EXCEPT ![t] = None]
        /\ IF t = "box" THEN Go(u, "restore", "faber") ELSE Exit(u, "failed")
        /\ staged' = [staged EXCEPT ![u] = IF t = "box" THEN [@ EXCEPT !["box"] = None] ELSE Pair(None)]
     \/ /\ bak[t] = None \/ "restore" \in MovesThatFail
        /\ Exit(u, "failed")
        /\ UNCHANGED <<live, bak, staged>>
  /\ UNCHANGED <<runs, made, replaced>>

\* --rollback: both backups or nothing, then a rename each.
Rollback(u) ==
  LET t == up[u].tool IN
  /\ up[u].at = "rollback"
  /\ \/ /\ bak[t] # None /\ (t = "faber" => bak["box"] # None)
        /\ live' = [live EXCEPT ![t] = bak[t]]
        /\ bak' = [bak EXCEPT ![t] = None]
        /\ IF t = "faber" THEN Go(u, "rollback", "box") ELSE Exit(u, "ok")
     \/ /\ \/ bak[t] = None
           \/ t = "faber" /\ bak["box"] = None
           \/ "rollback" \in MovesThatFail
        /\ Exit(u, "failed")
        /\ UNCHANGED <<live, bak>>
  /\ UNCHANGED <<runs, staged, made, replaced>>

\* The process is killed between two renames, or between any two other steps.
Kill(u) ==
  /\ up[u].at # "idle"
  /\ Exit(u, "killed")
  /\ UNCHANGED <<live, bak, runs, staged, made, replaced>>

Upgrading ==
  \E u \in Ups :
    \/ \E p \in Plans : Invoke(u, p)
    \/ AuditGate(u) \/ Resolve(u) \/ FetchAndStage(u)
    \/ MoveAside(u) \/ MoveIn(u) \/ Restore(u) \/ Rollback(u)
=============================================================================
