----------------------------- MODULE BoxAttempt -----------------------------
(***************************************************************************)
(* One attempt of one agent node on the host: AgentBoxes.RunAttempt        *)
(* (pipeline/boxrun.go) with the binding assembly (security/set.go) and    *)
(* the container run primitive (infra/run.go), over the role agents.       *)
(*                                                                         *)
(* A resumed process runs the same attempt numbers again, in the same      *)
(* attempt directories and under the same container names.  A directory is *)
(* known by the life that created it, and so is a container: a bind mount  *)
(* follows the directory it was made for, not the path.                    *)
(***************************************************************************)
EXTENDS RoleAgents

VARIABLES
  pc,         \* where each attempt stands in RunAttempt
  cancelled,  \* the run's context
  closed,     \* the run returned and its bindings were closed
  dir,        \* the life that created the attempt directory, 0 = none
  rec,        \* the life whose container wrote result.json there, 0 = none
  sess,       \* the life whose transcript lies in sessions/, 0 = none
  kept,       \* transcripts moved aside, <attempt dir>.sessions.<k>
  captured,   \* history: every life whose box left a transcript
  cont,       \* the life that started the container of this name, 0 = none
  runErr,     \* Containers.Run returned an error
  out         \* how RunAttempt returned

hostVars == <<dir, rec, sess, kept, captured, cont>>
vars == <<life, roleOf, agentVars, pc, cancelled, closed, hostVars, runErr, out>>

Pcs == {"todo", "scrub", "identity", "verify", "proxy", "run", "running",
        "closing", "done"}

\* Returned an error, the one for want of an output log apart; a record synthesized
\* for a vanished box; or the record that the container of a life wrote.
Outcomes == [how : {"pending", "error", "nolog", "vanished", "record"}, by : 0..MaxLives]

Outcome(how) == [how |-> how, by |-> 0]

Init ==
  /\ life = 1
  /\ roleOf \in Templates
  /\ RolesInit
  /\ pc = [b \in Boxes |-> "todo"]
  /\ cancelled = FALSE
  /\ closed = FALSE
  /\ dir = [b \in Boxes |-> 0]
  /\ rec = [b \in Boxes |-> 0]
  /\ sess = [b \in Boxes |-> 0]
  /\ kept = [b \in Boxes |-> {}]
  /\ captured = [b \in Boxes |-> {}]
  /\ cont = [b \in Boxes |-> 0]
  /\ runErr = [b \in Boxes |-> FALSE]
  /\ out = [b \in Boxes |-> Outcome("pending")]

-----------------------------------------------------------------------------
At(b, from) == pc[b] = from

Goto(b, to) ==
  /\ pc' = [pc EXCEPT ![b] = to]
  /\ UNCHANGED <<life, roleOf, cancelled, closed, out, runErr>>

\* RunAttempt returns before any container was launched.
FailAs(b, how) ==
  /\ pc' = [pc EXCEPT ![b] = "done"]
  /\ out' = [out EXCEPT ![b] = Outcome(how)]
  /\ UNCHANGED <<life, roleOf, cancelled, closed, runErr>>
Fail(b) == FailAs(b, "error")

\* preserveSessions: a transcript left by an earlier life is moved to the first
\* free sibling; a sessions directory that cannot be read counts as absent.
Preserve(b) ==
  /\ At(b, "todo")
  /\ Goto(b, "scrub")
  /\ \/ /\ kept' = [kept EXCEPT ![b] = @ \cup ({sess[b]} \ {0})]
        /\ sess' = [sess EXCEPT ![b] = 0]
     \/ "readdir" \in Faults /\ UNCHANGED <<kept, sess>>
  /\ UNCHANGED <<agentVars, dir, rec, captured, cont>>

\* Mutant.  The scrub is skipped: only a missing directory is created.
ScrubSkipped(b) ==
  /\ At(b, "scrub")
  /\ Goto(b, IF roleOf[b] = None THEN "run" ELSE "identity")
  /\ dir' = [dir EXCEPT ![b] = life]
  /\ UNCHANGED <<agentVars, rec, sess, kept, captured, cont>>

\* RemoveAll of the attempt directory; result/, scratch/ and sessions/ are made
\* afresh, the container spec is built, and the network and remote bindings
\* contribute their argv.
Scrub(b) ==
  /\ At(b, "scrub")
  /\ Goto(b, IF roleOf[b] = None THEN "run" ELSE "identity")
  /\ dir' = [dir EXCEPT ![b] = life]
  /\ rec' = [rec EXCEPT ![b] = 0]
  /\ sess' = [sess EXCEPT ![b] = 0]
  /\ UNCHANGED <<agentVars, kept, captured, cont>>

\* Preserving, scrubbing, making directories, building the spec, or the
\* network, remote or identity resolution refused: nothing to undo yet.
Refused(b) ==
  /\ pc[b] \in {"todo", "scrub", "identity"}
  /\ Fail(b)
  /\ UNCHANGED <<agentVars, hostVars>>

UseAgent(b) ==
  /\ At(b, "identity")
  /\ Cached(b)
  /\ Goto(b, "proxy")
  /\ UNCHANGED hostVars

StartAgent(b) ==
  /\ At(b, "identity")
  /\ Spawn(b)
  /\ Goto(b, "verify")
  /\ UNCHANGED hostVars

StartAgentFails(b) ==
  /\ At(b, "identity")
  /\ SpawnFails(b)
  /\ Fail(b)
  /\ UNCHANGED hostVars

VerifyAgent(b) ==
  /\ At(b, "verify")
  /\ \E held \in SUBSET Keys : Verify(b, held)
  /\ Goto(b, "proxy")
  /\ UNCHANGED hostVars

RefuseAgent(b) ==
  /\ At(b, "verify")
  /\ Refuse(b)
  /\ Fail(b)
  /\ UNCHANGED hostVars

ServeProxy(b) ==
  /\ At(b, "proxy")
  /\ Serve(b)
  /\ Goto(b, "run")
  /\ UNCHANGED hostVars

\* The proxy's directory or listener cannot be made: the role agent stays.
ServeProxyFails(b) ==
  /\ At(b, "proxy")
  /\ Fail(b)
  /\ UNCHANGED <<agentVars, hostVars>>

\* The broker could not resolve a file-mode token, or the payload could not be
\* encoded: the prepared bindings are unwound; no container, no connection, so
\* the proxy closes at once.
CredentialsFail(b) ==
  /\ At(b, "run")
  /\ proxy' = [proxy EXCEPT ![b] = "none"]
  /\ up' = [up EXCEPT ![b] = None]
  /\ UNCHANGED <<mu, roles, procs, shown, conn, queue>>
  /\ Fail(b)
  /\ UNCHANGED hostVars

\* output.log cannot be opened: the attempt returns with its bindings prepared.
OpenLogFails(b) ==
  /\ "openlog" \in Faults
  /\ At(b, "run")
  /\ FailAs(b, "nolog")
  /\ UNCHANGED <<agentVars, hostVars>>

-----------------------------------------------------------------------------
(* ContainerRunner.Run *)

\* The tokens are resolved, output.log is open, the stale holder of the name is removed, and the container
\* started.
Launch(b) ==
  /\ At(b, "run")
  /\ cont' = [cont EXCEPT ![b] = life]
  /\ Goto(b, "running")
  /\ UNCHANGED <<agentVars, dir, rec, sess, kept, captured>>

\* Run returned, and asm.Teardown begins: the attempt's proxy, if it has one, stops
\* listening.
Returned(b, err) ==
  /\ pc' = [pc EXCEPT ![b] = "closing"]
  /\ runErr' = [runErr EXCEPT ![b] = err]
  /\ \/ proxy[b] = "open" /\ StopListening(b)
     \/ proxy[b] = "none" /\ UNCHANGED agentVars
  /\ UNCHANGED <<life, roleOf, cancelled, closed, dir, rec, sess, kept, captured, out>>

\* The daemon refuses, or the eviction failed and the name is still taken.
LaunchFails(b) ==
  /\ At(b, "run")
  /\ cont' \in {cont, [cont EXCEPT ![b] = 0]}
  /\ Returned(b, TRUE)

\* The container ended by itself; a cancelled context makes that an error too.
Return(b) ==
  /\ At(b, "running")
  /\ cont[b] # life
  /\ Returned(b, cancelled)
  /\ UNCHANGED cont

\* Mutant.  A kill that is forgotten: the run waits for the container to end.
KillForgotten(b) == FALSE

\* The context was cancelled: the docker client is gone, the container is
\* killed by name, and a kill that fails is only logged.
Kill(b) ==
  /\ At(b, "running")
  /\ cancelled
  /\ \/ cont' = [cont EXCEPT ![b] = 0]
     \/ "kill" \in Faults /\ UNCHANGED cont
  /\ Returned(b, TRUE)

\* Teardown ends.  A cancelled run returns its error; otherwise the mounted
\* record decides.
Extract(b) ==
  /\ At(b, "closing")
  /\ ProxyGone(b) \/ (proxy[b] # "closing" /\ UNCHANGED agentVars)
  /\ pc' = [pc EXCEPT ![b] = "done"]
  /\ out' = [out EXCEPT ![b] = IF runErr[b] /\ cancelled THEN Outcome("error")
                               ELSE IF rec[b] = 0 THEN Outcome("vanished")
                               ELSE [how |-> "record", by |-> rec[b]]]
  /\ UNCHANGED <<life, roleOf, cancelled, closed, hostVars, runErr>>

-----------------------------------------------------------------------------
(* The container of a box, of this life or of an earlier one. *)

\* result.json appears in the directory the container was bound to.
BoxWrites(b) ==
  /\ cont[b] # 0
  /\ cont[b] = dir[b]
  /\ rec' = [rec EXCEPT ![b] = cont[b]]
  /\ UNCHANGED <<life, roleOf, agentVars, pc, cancelled, closed, dir, sess, kept,
                 captured, cont, runErr, out>>

\* sessions/ fills up; a container that outlived its process may begin to only
\* where stragglers are in reach.
BoxCaptures(b) ==
  /\ cont[b] # 0
  /\ cont[b] = life \/ "straggler" \in Faults
  /\ cont[b] = dir[b]
  /\ cont[b] \notin captured[b] \cup {rec[b]}
  /\ sess' = [sess EXCEPT ![b] = cont[b]]
  /\ captured' = [captured EXCEPT ![b] = @ \cup {cont[b]}]
  /\ UNCHANGED <<life, roleOf, agentVars, pc, cancelled, closed, dir, rec, kept, cont,
                 runErr, out>>

BoxExits(b) ==
  /\ cont[b] # 0
  /\ cont' = [cont EXCEPT ![b] = 0]
  /\ UNCHANGED <<life, roleOf, agentVars, pc, cancelled, closed, dir, rec, sess, kept,
                 captured, runErr, out>>

\* The attempt's own container is alive: it may use the forwarded socket.
InBox(b) == cont[b] = life

BoxSigns(b) ==
  /\ \/ InBox(b) /\ (Connect(b) \/ Request(b))
     \/ SignNext(b)
     \/ Hangup(b)
  /\ UNCHANGED <<life, roleOf, pc, cancelled, closed, hostVars, runErr, out>>

\* The role agent answers, once the token's owner has touched it.
AgentAnswers(b) ==
  /\ Signed(b)
  /\ UNCHANGED <<life, roleOf, pc, cancelled, closed, hostVars, runErr, out>>

-----------------------------------------------------------------------------
Cancel ==
  /\ ~cancelled /\ ~closed
  /\ cancelled' = TRUE
  /\ UNCHANGED <<life, roleOf, agentVars, pc, closed, hostVars, runErr, out>>

\* Execute returned: every launched attempt did.  An attempt not yet begun is
\* left to a resume.
Close ==
  /\ ~closed
  /\ \A b \in Boxes : pc[b] \in {"todo", "done"}
  /\ CloseAgents
  /\ closed' = TRUE
  /\ UNCHANGED <<life, roleOf, pc, cancelled, hostVars, runErr, out>>

\* A new process takes the run up, after an orderly end or a crash.
Resume ==
  /\ life < MaxLives
  /\ life' = life + 1
  /\ pc' = [b \in Boxes |-> "todo"]
  /\ out' = [b \in Boxes |-> Outcome("pending")]
  /\ runErr' = [b \in Boxes |-> FALSE]
  /\ cancelled' = FALSE
  /\ closed' = FALSE
  /\ ForgetAgents
  /\ UNCHANGED <<roleOf, hostVars>>

Begin(b) == ~closed /\ Preserve(b)

Advance(b) ==
  \/ Scrub(b)
  \/ UseAgent(b) \/ StartAgent(b) \/ VerifyAgent(b) \/ RefuseAgent(b)
  \/ ServeProxy(b) \/ Launch(b) \/ Return(b) \/ Kill(b) \/ Extract(b)

Trouble(b) ==
  \/ ~closed /\ Refused(b)
  \/ StartAgentFails(b) \/ ServeProxyFails(b) \/ CredentialsFail(b)
  \/ OpenLogFails(b) \/ LaunchFails(b)

Box(b) == BoxWrites(b) \/ BoxCaptures(b) \/ BoxExits(b) \/ BoxSigns(b)

Next ==
  \/ \E b \in Boxes : Begin(b) \/ Advance(b) \/ Trouble(b) \/ Box(b) \/ AgentAnswers(b)
  \/ Cancel \/ Close \/ Resume

\* Goroutines run, dead containers' sockets are closed by the kernel, and the
\* run closes its bindings.  What a box does, and when it ends, is its own.
Fairness ==
  /\ \A b \in Boxes : WF_vars(Advance(b)) /\ WF_vars(~InBox(b) /\ BoxSigns(b))
  /\ WF_vars(Close)

\* Somebody touches the token.
TokenAnswers == \A b \in Boxes : WF_vars(AgentAnswers(b))

UnattendedSpec == Init /\ [][Next]_vars /\ Fairness
Spec == UnattendedSpec /\ TokenAnswers

-----------------------------------------------------------------------------
(* Properties *)

\* The state is well formed.
TypeOK ==
  /\ life \in Lives
  /\ roleOf \in [Boxes -> Roles \cup {None}]
  /\ mu \in Boxes \cup {None} /\ queue \in Boxes \cup {None}
  /\ roles \in [Roles -> Boxes \cup {None}]
  /\ procs \subseteq Boxes
  /\ shown \in [Roles -> SUBSET Keys]
  /\ proxy \in [Boxes -> {"none", "open", "closing"}]
  /\ up \in [Boxes -> Boxes \cup {None}]
  /\ conn \in [Boxes -> {"none", "open", "queued", "signing"}]
  /\ pc \in [Boxes -> Pcs]
  /\ cancelled \in BOOLEAN /\ closed \in BOOLEAN
  /\ dir \in [Boxes -> 0..MaxLives] /\ rec \in [Boxes -> 0..MaxLives]
  /\ sess \in [Boxes -> 0..MaxLives] /\ cont \in [Boxes -> 0..MaxLives]
  /\ kept \in [Boxes -> SUBSET Lives] /\ captured \in [Boxes -> SUBSET Lives]
  /\ runErr \in [Boxes -> BOOLEAN]
  /\ out \in [Boxes -> Outcomes]

\* No ssh-agent of this process is adrift: it is the cached agent of its role,
\* or the attempt that spawned it is still verifying it.  After Close none is
\* left ("a leaked agent is a leaked credential handle", signqueue.go:255).
AgentsOwned ==
  \A b \in procs : mu = b \/ (roleOf[b] \in Roles /\ roles[roleOf[b]] = b)

\* The agent behind a served proxy is alive as long as the proxy is, whatever
\* becomes of the other attempts that share it (identity.go:125-150); but for the
\* proxy that an attempt without an output log abandoned.
ProxyBacked ==
  \A b \in Boxes : proxy[b] # "none" /\ out[b].how # "nolog" => up[b] \in procs

\* A hardware token never sees two requests at once, of one role or of several
\* (signProxy.SignWithFlags).
OneSignature ==
  \A b, c \in Boxes : conn[b] = "signing" /\ conn[c] = "signing" => b = c

\* Boxes of a role with a pinned fingerprint see that key and no other, even
\* when the loader surfaced more (roleAgentFor, exposedKeys).
PinnedKeyOnly == \A r \in Pinned : roles[r] # None => shown[r] = {"own"}

\* The record an attempt adopts was written by the container of this very
\* attempt: not by the one of a crashed or cancelled process, still running or
\* not, that used the same directory and the same name (boxrun.go:136).
OwnRecord == \A b \in Boxes : out[b].how = "record" => out[b].by = life

\* The transcript of a box is never lost to the next attempt that reuses its
\* directory (preserveSessions).
TranscriptsKept == \A b \in Boxes : captured[b] \subseteq kept[b] \cup {sess[b]}

\* An attempt that returned leaves no proxy listening (RunAttempt, teardownAll),
\* unless it could not open its output log.
NoProxyLeft == \A b \in Boxes : At(b, "done") /\ out[b].how # "nolog" => proxy[b] = "none"

\* The identity bindings hold together under any interleaving of attempts of one
\* role or several: no agent adrift, every proxy backed, pinned keys only, one
\* signature at a time (IdentityBinding, signqueue.go).
AgentsSafe == TypeOK /\ AgentsOwned /\ ProxyBacked /\ PinnedKeyOnly /\ OneSignature

\* Attempts that reuse a directory and a container name stay apart: each adopts its
\* own record, keeps the transcripts of its predecessors and leaves no proxy.
AttemptsApart == OwnRecord /\ TranscriptsKept /\ NoProxyLeft

\* A cancelled run ends: containers are killed, bindings torn down and agents
\* stopped, unless a container that could not be killed keeps its connection.
CancelEnds == cancelled ~> closed \/ life > 1 \/ \E b \in Boxes : At(b, "closing") /\ InBox(b)

\* "teardown cannot hang forever" (set.go:14): closing a proxy ends.
TeardownEnds == \A b \in Boxes : At(b, "closing") ~> ~At(b, "closing")

\* The same of every attempt.  Violated by the return at boxrun.go:213, which comes
\* after the bindings are prepared and tears none of them down.
NothingLeft == \A b \in Boxes : At(b, "done") => proxy[b] = "none"

\* "Concurrent steps never share an agent, even under the same identity"
\* (identity.go:68).
AgentsNotShared == \A b, c \in Boxes : up[b] # None /\ up[b] = up[c] => b = c

=============================================================================
