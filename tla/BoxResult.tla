------------------------------ MODULE BoxResult -----------------------------
(***************************************************************************)
(* The host side of a step container's end: the record in the mounted      *)
(* result directory is re-read, re-validated and turned into the result    *)
(* that is threaded and journaled (agent/extract.go, adaptResult of        *)
(* pipeline/boxrun.go, Result.Validate of failure/result.go).              *)
(*                                                                         *)
(* A sequencer that came to write its record replaces whatever was there.  *)
(* Where it did not, the directory may hold a file of the user's programs, *)
(* of any shape.  An image may be older than the host.                     *)
(***************************************************************************)
EXTENDS BoxPhases

CONSTANT Writers   \* the boxes whose programs may leave a result.json themselves

ASSUME WritersAssumption == Writers \subseteq Options

VARIABLES
  file,     \* result.json as the host finds it
  result    \* what RunAttempt returns

allVars == <<vars, file, result>>

NoFile == [status |-> "none"]

\* A record file, with the parts a reader of it tells apart.
FileType ==
  [status : {"ok", "failed", "halted", "unknown"}, current : BOOLEAN, fits : BOOLEAN,
   error : {"none", "unnamed", "reserved", "other"}, handoff : {"none", "inside", "outside"},
   halt : {"none", "unnamed", "named"}, skipped : BOOLEAN, check : BOOLEAN]

\* What the sequencer's record looks like; its contract version is its image's.
Written(rec, current) ==
  [status |-> rec.status, current |-> current, fits |-> rec.status = "ok",
   error |-> IF rec.status = "failed" THEN "other" ELSE "none",
   handoff |-> IF rec.status = "failed" /\ rec.handoff THEN "inside" ELSE "none",
   halt |-> IF rec.status = "halted" THEN "named" ELSE "none",
   skipped |-> rec.skipped, check |-> rec.check]

Found ==
  IF record.status # "none" THEN {Written(record, c) : c \in BOOLEAN}
  ELSE IF opt \in Writers /\ ran # << >> THEN
         {NoFile} \cup {f \in FileType : ~f.skipped /\ ~f.check}
  ELSE {NoFile}

\* ReadResultFile: an absent, oversized, unparseable or unknown record is no record.
Readable(f) == f.status \in {"ok", "failed", "halted"}

Failed(reason, f) ==
  [status |-> "failed", fits |-> FALSE, error |-> reason, handoff |-> "none", halt |-> "none",
   skipped |-> f.skipped, check |-> f.check]

Silent == [skipped |-> FALSE, check |-> FALSE]

\* Mutant: the halt arm of a halted record is trusted.
ExtractTrusting(f) ==
  IF ~Readable(f) THEN Failed("box-vanished", Silent)
  ELSE IF ~f.current THEN Failed("contract-version", f)
  ELSE IF f.status = "ok" /\ ~f.fits THEN Failed("output-schema", f)
  ELSE f

\* ExtractResult, in the order of its returns.
ExtractResult(f) ==
  IF ~Readable(f) THEN Failed("box-vanished", Silent)
  ELSE IF ~f.current THEN Failed("contract-version", f)
  ELSE IF f.status = "halted" /\ f.halt # "named" THEN Failed("halt-invalid", Silent)
  ELSE IF f.status \in {"halted", "failed"} THEN [f EXCEPT !.fits = FALSE]
  ELSE IF ~f.fits THEN Failed("output-schema", f)
  ELSE f

\* sanitizeBoxReason and the fallbacks for a failure that does not say why.
Reason(error) ==
  CASE error \in {"none", "unnamed"} -> "box-vanished"
    [] error = "reserved" -> "box:reserved"
    [] OTHER -> error

\* adaptResult: one arm per status; a handoff pointer must stay in the result
\* directory, and one beside no error body is not read.
AdaptResult(r) ==
  [status |-> r.status,
   payload |-> r.status = "ok",
   error |-> IF r.status = "failed" THEN Reason(r.error) ELSE "none",
   handoff |-> r.status = "failed" /\ r.error # "none" /\ r.handoff = "inside",
   halt |-> IF r.status = "halted" THEN r.halt ELSE "none",
   skipped |-> r.skipped, check |-> r.check]

\* RunAttempt, once the container is gone.
HostExtracts ==
  /\ at \in {"exited", "killed"}
  /\ result = NoRecord
  /\ file' \in Found
  /\ result' = AdaptResult(ExtractResult(file'))
  /\ UNCHANGED vars

ResultInit == Init /\ file = NoFile /\ result = NoRecord
ResultNext == (Next /\ UNCHANGED <<file, result>>) \/ HostExtracts
ResultSpec == ResultInit /\ [][ResultNext]_allVars

-----------------------------------------------------------------------------
(* Properties *)

\* Result.Validate: one of payload, error and halt, the one of the status.
Valid(r) ==
  /\ r.status \in {"ok", "failed", "halted"}
  /\ r.payload <=> r.status = "ok"
  /\ r.error \notin {"none", "unnamed"} <=> r.status = "failed"
  /\ r.halt = "named" <=> r.status = "halted"

\* From the first hook to the journal: a step is ok only if its agent ran, or the
\* result says that it did not; a result that says so is right; a halt that the
\* sequencer honoured reaches the run as a halt, unless the image is stale; and a
\* handoff pointer leads to a file.
VerdictKept ==
  result # NoRecord /\ record # NoRecord =>
    /\ result.status = "ok" => Ran("agent") \/ result.skipped \/ result.check
    /\ result.skipped \/ result.check => ~Ran("agent")
    /\ file.current => result.status = record.status
    /\ ~file.current => result.status = "failed" /\ result.error = "contract-version"
    /\ result.handoff => handoff

\* Whatever lies in the result directory, the host has a result the journal takes
\* ("no path yields zero records", extract.go:18), and it is the box's own verdict
\* where the box gave one.  Only a record that speaks this host's contract can be an
\* ok or a halt, and only one whose payload fits the declared output an ok; no
\* failure reads as one of the scheduler's own skips or defers, and a handoff
\* pointer does not leave the attempt's directory.
AlwaysAResult ==
  result # NoRecord =>
    /\ Valid(result)
    /\ result.status # "failed" => file.status = result.status /\ file.current
    /\ result.status = "ok" => file.fits
    /\ result.error # "reserved"
    /\ result.handoff => file.handoff = "inside"
    /\ VerdictKept
=============================================================================
