----------------------------- MODULE Installed ------------------------------
(***************************************************************************)
(* What a faber host keeps on disk that several programs share: the        *)
(* installed pair of binaries with their backups, and what a run audit     *)
(* says of each journaled run.  A binary is known by its release, a        *)
(* positive number; None means no file.                                    *)
(***************************************************************************)
EXTENDS Naturals, Sequences

CONSTANTS
  Releases,   \* the signed releases, ordered
  Installable,   \* the releases a host may start from
  RunIds

ASSUME ReleasesAssumption == Releases \subseteq Nat \ {0} /\ Installable \subseteq Releases

VARIABLES
  live,   \* the file at each tool's installed path
  bak,    \* the file beside it, <path>.bak
  runs    \* "none", "live", "unfinished" or "ended", as an audit tells them

None == 0
Tools == {"faber", "box"}
Pair(v) == [t \in Tools |-> v]

InstalledTypeOK ==
  /\ live \in [Tools -> Releases \cup {None}]
  /\ bak \in [Tools -> Releases \cup {None}]
  /\ runs \in [RunIds -> {"none", "live", "unfinished", "ended"}]

InstalledInit(v) ==
  /\ live = Pair(v)
  /\ bak = Pair(None)
  /\ runs = [r \in RunIds |-> "none"]
=============================================================================
