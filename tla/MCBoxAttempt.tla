---------------------------- MODULE MCBoxAttempt ----------------------------
(***************************************************************************)
(* Two attempts: of one role, of two, and one of a role without a pinned   *)
(* fingerprint beside one without identity.                                *)
(***************************************************************************)
EXTENDS BoxAttempt, TLC

CONSTANTS b1, b2, r1, r2, r3

MCTemplates == {b1 :> r1 @@ b2 :> r1, b1 :> r1 @@ b2 :> r2, b1 :> r3 @@ b2 :> None}
=============================================================================
