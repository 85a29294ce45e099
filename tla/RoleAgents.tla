----------------------------- MODULE RoleAgents -----------------------------
(***************************************************************************)
(* The identity binding: one ssh-agent per role for the whole run, one     *)
(* private proxy socket per attempt in front of it, and one sign queue for *)
(* the process (security/identity.go, signqueue.go, sshagent.go).          *)
(*                                                                         *)
(* An agent process is named by the box attempt that spawned it: an        *)
(* attempt spawns at most one.  The agents of a killed faber are orphans   *)
(* that no later process knows of, and leave the model with it.            *)
(***************************************************************************)
EXTENDS Naturals, FiniteSets

CONSTANTS
  Boxes,      \* the step attempts of the run: one (node, attempt number) each
  Roles,      \* identity roles
  Pinned,     \* the roles whose identity names a fingerprint (registry or inline)
  MaxLives,   \* bound: processes that work on the run, one after the other
  Templates,  \* the roles the attempts' templates may name, None for none
  None,       \* nobody, nothing
  Faults      \* environment faults in reach, of "openlog", "kill", "readdir",
              \* "straggler"

ASSUME RoleAgentsAssumption ==
  /\ IsFiniteSet(Boxes)
  /\ Pinned \subseteq Roles
  /\ Templates \subseteq [Boxes -> Roles \cup {None}]
  /\ MaxLives \in Nat \ {0}
  /\ None \notin Boxes \cup Roles

Lives == 1..MaxLives

\* What an agent may hold after ssh-add: its role's key, and one the loader
\* brought along.
Keys == {"own", "extra"}

VARIABLES
  life,    \* which process is at work
  roleOf,  \* the identity role of each attempt's template, None without one
  mu,      \* the attempt inside roleAgentFor
  roles,   \* the cached agent of each role
  procs,   \* the ssh-agent children of this process that are alive
  shown,   \* the keys each proxied agent exposes to boxes
  proxy,   \* each attempt's listener: "none", "open" or "closing"
  up,      \* the agent behind each attempt's proxy
  conn,    \* what the connection through each proxy is doing
  queue    \* the connection that holds the sign queue

agentVars == <<mu, roles, procs, shown, proxy, up, conn, queue>>

RolesInit ==
  /\ mu = None
  /\ roles = [r \in Roles |-> None]
  /\ procs = {}
  /\ shown = [r \in Roles |-> {}]
  /\ proxy = [b \in Boxes |-> "none"]
  /\ up = [b \in Boxes |-> None]
  /\ conn = [b \in Boxes |-> "none"]
  /\ queue = None

-----------------------------------------------------------------------------
(* roleAgentFor: the first attempt of a role spawns its agent, with mu held *)
(* from before the spawn until the agent is verified or stopped.            *)

Cached(b) ==
  /\ mu = None
  /\ roles[roleOf[b]] # None
  /\ UNCHANGED agentVars

Spawn(b) ==
  /\ mu = None
  /\ roles[roleOf[b]] = None
  /\ mu' = b
  /\ procs' = procs \cup {b}
  /\ UNCHANGED <<roles, shown, proxy, up, conn, queue>>

\* socketDir or Start failed: neither directory nor process remains.
SpawnFails(b) ==
  /\ mu = None
  /\ roles[roleOf[b]] = None
  /\ UNCHANGED agentVars

\* exposedKeys: with more than one key loaded, a pinned role shows the pinned
\* one alone.
Exposed(r, held) ==
  IF Cardinality(held) <= 1 \/ r \notin Pinned THEN held ELSE held \cap {"own"}

\* AddKey, ListKeys, the fingerprint check, Dial and List all went well.
Verify(b, held) ==
  /\ mu = b
  /\ held # {}
  /\ roleOf[b] \in Pinned => "own" \in held
  /\ roles' = [roles EXCEPT ![roleOf[b]] = b]
  /\ shown' = [shown EXCEPT ![roleOf[b]] = Exposed(roleOf[b], held)]
  /\ mu' = None
  /\ UNCHANGED <<procs, proxy, up, conn, queue>>

\* Mutant: the cache is consulted but a failed verification only forgets the
\* agent.
RefuseForgets(b) ==
  /\ mu = b
  /\ mu' = None
  /\ UNCHANGED <<roles, procs, shown, proxy, up, conn, queue>>

\* Any step after the spawn failed: stop the agent, forget it.
Refuse(b) ==
  /\ mu = b
  /\ procs' = procs \ {b}
  /\ mu' = None
  /\ UNCHANGED <<roles, shown, proxy, up, conn, queue>>

-----------------------------------------------------------------------------
(* The per-attempt proxy. *)

Serve(b) ==
  /\ proxy' = [proxy EXCEPT ![b] = "open"]
  /\ up' = [up EXCEPT ![b] = roles[roleOf[b]]]
  /\ UNCHANGED <<mu, roles, procs, shown, conn, queue>>

\* closeProxy, first half: the listener closes.
StopListening(b) ==
  /\ proxy[b] = "open"
  /\ proxy' = [proxy EXCEPT ![b] = "closing"]
  /\ UNCHANGED <<mu, roles, procs, shown, up, conn, queue>>

\* closeProxy, second half: wg.Wait returns when no connection is being served.
ProxyGone(b) ==
  /\ proxy[b] = "closing"
  /\ conn[b] = "none"
  /\ proxy' = [proxy EXCEPT ![b] = "none"]
  /\ up' = [up EXCEPT ![b] = None]
  /\ UNCHANGED <<mu, roles, procs, shown, conn, queue>>

-----------------------------------------------------------------------------
(* A box's signature: through its connection, the queue and the role agent. *)

\* A client in the box connects, and asks for a signature.
Connect(b) ==
  /\ proxy[b] = "open"
  /\ conn[b] = "none"
  /\ conn' = [conn EXCEPT ![b] = "open"]
  /\ UNCHANGED <<mu, roles, procs, shown, proxy, up, queue>>

Request(b) ==
  /\ conn[b] = "open"
  /\ conn' = [conn EXCEPT ![b] = "queued"]
  /\ UNCHANGED <<mu, roles, procs, shown, proxy, up, queue>>

\* SignWithFlags takes the queue before it forwards.
SignNext(b) ==
  /\ conn[b] = "queued"
  /\ queue = None
  /\ queue' = b
  /\ conn' = [conn EXCEPT ![b] = "signing"]
  /\ UNCHANGED <<mu, roles, procs, shown, proxy, up>>

\* The agent answered: a signature or an error, the queue is free again.
Signed(b) ==
  /\ conn[b] = "signing"
  /\ conn' = [conn EXCEPT ![b] = "open"]
  /\ queue' = None
  /\ UNCHANGED <<mu, roles, procs, shown, proxy, up>>

\* The client hung up: ServeAgent reads EOF and its goroutine ends.
Hangup(b) ==
  /\ conn[b] = "open"
  /\ conn' = [conn EXCEPT ![b] = "none"]
  /\ UNCHANGED <<mu, roles, procs, shown, proxy, up, queue>>

-----------------------------------------------------------------------------
\* Close, once the run returned: every cached agent is stopped.
CloseAgents ==
  /\ mu = None
  /\ procs' = procs \ {roles[r] : r \in Roles}
  /\ roles' = [r \in Roles |-> None]
  /\ UNCHANGED <<mu, shown, proxy, up, conn, queue>>

\* The next process starts without agents, listeners, connections and locks.
ForgetAgents ==
  /\ mu' = None
  /\ roles' = [r \in Roles |-> None]
  /\ shown' = [r \in Roles |-> {}]
  /\ proxy' = [b \in Boxes |-> "none"]
  /\ up' = [b \in Boxes |-> None]
  /\ conn' = [b \in Boxes |-> "none"]
  /\ queue' = None
  /\ procs' = {}
=============================================================================
