----------------------------- MODULE BoxContract ----------------------------
(***************************************************************************)
(* What a step container promises its host: it ends, having left at most   *)
(* one attempt record, and a record once left is never replaced.  Without  *)
(* one the host takes the box for vanished (agent/extract.go).             *)
(***************************************************************************)
VARIABLES
  record,  \* the status of result.json, "none" before there is one
  over     \* the sequencer has exited, or was killed

Init == record = "none" /\ over = FALSE

Leave ==
  /\ ~over /\ record = "none"
  /\ record' \in {"ok", "halted", "failed"}
  /\ over' \in BOOLEAN

End == ~over /\ over' = TRUE /\ UNCHANGED record

Next == Leave \/ End

Spec == Init /\ [][Next]_<<record, over>>
=============================================================================
