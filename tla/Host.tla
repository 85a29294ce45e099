-------------------------------- MODULE Host --------------------------------
(***************************************************************************)
(* One host: upgrades move the installed pair while image builds and runs  *)
(* read it, and an upgrade's guard reads the runs.                         *)
(***************************************************************************)
EXTENDS Upgrade, ImageBuild

vars == <<live, bak, runs, up, staged, made, replaced, source, daemon, reader, cache,
          memo, header, boxes, returned, edits, builds, resumes>>

Init ==
  /\ \E v \in Installable : InstalledInit(v)
  /\ UpgradeInit
  /\ ImageInit

Next ==
  \/ Upgrading /\ UNCHANGED imageVars
  \/ Imaging /\ UNCHANGED upgradeVars

Spec == Init /\ [][Next]_vars

\* The same host when an upgrade may also be killed.
Killed == (\E u \in Ups : Kill(u)) /\ UNCHANGED imageVars
KilledSpec == Init /\ [][Next \/ Killed]_vars

\* What an upgrade, a build and a run keep on disk and in memory has its type: a tag
\* never names a faber-box that was not there.
TypeOK == InstalledTypeOK /\ UpgradeTypeOK /\ ImageTypeOK

Settled(u) == up[u].at = "idle" /\ up[u].exit \in {"ok", "same", "failed"}

\* An upgrade that ran to its own end, whatever failed on its way, leaves either the
\* pair it found or both halves of the release it resolved, and a plain upgrade never
\* an older pair (install.sh's swap and its forward-only guard).  For one upgrade at
\* a time and renames that fail after the binary was moved aside; PairCoupled shows
\* what happens otherwise.
UpgradeAtomic ==
  \A u \in Ups :
    Settled(u) /\ up[u].plan.mode # "rollback" =>
      \/ live = up[u].before
      \/ /\ up[u].exit = "ok" /\ live = Pair(up[u].tag)
         /\ up[u].plan.mode = "latest" => live["faber"] >= up[u].before["faber"]

\* A rollback that reports success restores exactly the pair the last successful
\* upgrade replaced, whatever upgrades came between that failed before they moved a
\* binary aside: one that failed later has consumed a backup.  A rollback that refuses,
\* as it then does, changes nothing (install.sh's rollback mode).
RollbackUndoes ==
  \A u \in Ups :
    Settled(u) /\ up[u].plan.mode = "rollback" =>
      live = IF up[u].exit = "ok" THEN replaced ELSE up[u].before

\* An image a build reported ready is in the daemon with the very content the build
\* read, although files were edited and faber-box was swapped while it worked
\* (BuildWith reads once; "an edit racing the build can never load content under
\* another content's tag").
ReturnsItsImage ==
  \A in \in returned : Tag(in) \in DOMAIN daemon /\ daemon[Tag(in)] = in

\* Every box of a run, over all its executions, started from one image per template,
\* built from the inputs its journal records, whatever was edited, rebuilt or upgraded
\* meanwhile (the run's tag memo and checkImageDrift).
OneImagePerRun ==
  \A p \in RunIds : \A b \in boxes[p] : b = header[p][b.tpl]

\* However an upgrade or a rollback ended by itself, the installed pair is one that
\* was asked for or the one that was there.
PairKept == UpgradeAtomic /\ RollbackUndoes

\* Images are what builds read, and runs keep to theirs.
ImagesKept == TypeOK /\ ReturnsItsImage /\ OneImagePerRun

-----------------------------------------------------------------------------
\* The installed pair is matched whenever no upgrade is at work (install.sh: "never
\* left mismatched - either both old or both new").  Violated when the first rename
\* of the box's swap fails: restore() then finds no backup and `set -e` ends the
\* script, or it finds the backup an earlier upgrade left and moves that in.
PairCoupled == (\A u \in Ups : up[u].at = "idle") => live["faber"] = live["box"]

\* A check changes nothing ("report the latest release and change nothing").
\* Violated by --check --rollback, whose arguments leave the check out.
CheckChangesNothing ==
  [][\A u \in Ups : up[u].plan.check /\ up[u].at # "idle" => live' = live]_vars

\* Without --force the pair is not replaced under a live run ("faber is never swapped
\* out from under a live or unfinished run").  Violated by a run that opens its journal
\* between the guard and the swap.
NeverUnderRun ==
  [][(\A u \in Ups : ~up[u].plan.force) /\ live' # live => Blocking = {}]_vars

\* The bytes read for faber-box were at its path during the read.  Violated when the
\* binary is swapped between the stat and the read and later rolled back: the cache
\* then gives the new bytes for the old file.
BoxIsOnDisk ==
  [][\A r \in Readers :
       reader[r].at = "stat" /\ reader'[r].at = "inputs" => reader'[r].box = live["box"]]_vars
=============================================================================
