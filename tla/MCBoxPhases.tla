----------------------------- MODULE MCBoxPhases ----------------------------
(***************************************************************************)
(* Boxes with every set of hooks behind a local remote or none; and boxes  *)
(* with a prelude, over every remote, host-key policy, agent and secret.   *)
(***************************************************************************)
EXTENDS BoxResult

MCOptions ==
  {o \in OptionType :
     \/ /\ o.policy = "none" /\ o.keys = 1 /\ o.email /\ o.secrets = "none"
        /\ o.remote # "ssh"
     \/ /\ o.hooks = {"prelude"} /\ ~o.check /\ ~o.optional /\ o.required}

\* One box whose agent may leave a result.json of its own.
MCWriters ==
  {o \in MCOptions : /\ o.hooks = {} /\ o.remote = "none" /\ o.policy = "none"
                     /\ o.keys = 1 /\ o.email /\ o.secrets = "none"
                     /\ ~o.optional /\ ~o.check /\ o.required}
=============================================================================
