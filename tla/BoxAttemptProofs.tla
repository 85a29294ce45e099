-------------------------- MODULE BoxAttemptProofs --------------------------
(***************************************************************************)
(* The identity bindings and the attempts on top of them, for any number   *)
(* of concurrent attempts, roles and successive processes.                 *)
(***************************************************************************)
EXTENDS BoxAttempt, FiniteSetTheorems, TLAPS

-----------------------------------------------------------------------------
(* The inductive invariant *)

\* The mutex of the binding is held exactly while an agent is being verified, and
\* its role has no agent yet.
MuInv ==
  /\ \A b \in Boxes : pc[b] = "verify" <=> mu = b
  /\ mu # None => mu \in procs /\ roleOf[mu] \in Roles /\ roles[roleOf[mu]] = None

\* A cached agent is alive and was spawned for its role.
RolesInv ==
  \A r \in Roles : roles[r] # None => roles[r] \in procs /\ roleOf[roles[r]] = r

\* What each position of an attempt says of its proxy and of its outcome.
StageInv ==
  \A b \in Boxes :
    /\ pc[b] \in {"identity", "verify", "proxy"} => roleOf[b] \in Roles
    /\ pc[b] = "proxy" => roles[roleOf[b]] # None
    /\ pc[b] # "done" => out[b].how = "pending"
    /\ pc[b] \in {"todo", "scrub", "identity", "verify", "proxy"} => proxy[b] = "none"
    /\ pc[b] \in {"run", "running"} => proxy[b] # "closing"
    /\ pc[b] = "closing" => proxy[b] # "open"

\* The agent behind a proxy in use is the cached one of its role.
BackedInv ==
  \A b \in Boxes : proxy[b] # "none" /\ out[b].how # "nolog" =>
    roleOf[b] \in Roles /\ up[b] = roles[roleOf[b]] /\ up[b] # None

\* Who signs holds the queue.
SignerHolds == \A b \in Boxes : conn[b] = "signing" => queue = b

AgentInv == /\ MuInv /\ RolesInv /\ StageInv /\ BackedInv /\ SignerHolds
            /\ AgentsOwned /\ PinnedKeyOnly /\ NoProxyLeft

\* Directories and containers are of this life or an earlier one; this life's
\* container is bound to this life's directory, in which nothing older lies.
DirInv ==
  \A b \in Boxes :
    /\ dir[b] <= life /\ cont[b] <= life
    /\ pc[b] \in {"todo", "scrub"} => dir[b] < life
    /\ pc[b] \notin {"todo", "scrub", "done"} => dir[b] = life
    /\ pc[b] \notin {"running", "closing", "done"} => cont[b] < life
    /\ cont[b] = life => dir[b] = life
    /\ dir[b] = life => rec[b] \in {0, life} /\ sess[b] \in {0, life}
    /\ out[b].how = "record" => out[b].by = life

\* No transcript is lost, and none lies in a directory about to be scrubbed.
SessionInv ==
  /\ TranscriptsKept
  /\ \A b \in Boxes : pc[b] = "scrub" => captured[b] \subseteq kept[b]

\* The faults under which a transcript can be lost: a container that starts to
\* write when its process is long gone, and a directory that cannot be listed.
Unheard == {"straggler", "readdir"}

USE RoleAgentsAssumption DEF Lives

\* A pinned role whose agent holds the pinned key shows that key alone, whatever
\* the loader brought along (exposedKeys).
LEMMA PinnedShown ==
  ASSUME NEW r \in Pinned, NEW held \in SUBSET Keys, "own" \in held
  PROVE  Exposed(r, held) = {"own"}
<1>1. CASE "extra" \in held
  <2>1. held = {"own", "extra"}
    BY <1>1 DEF Keys
  <2>2. Cardinality({"own"}) = 1 /\ IsFiniteSet({"own"})
    BY FS_Singleton
  <2>3. "extra" \notin {"own"} /\ {"own", "extra"} = {"own"} \cup {"extra"}
    OBVIOUS
  <2>4. Cardinality({"own"} \cup {"extra"}) = Cardinality({"own"}) + 1
    BY <2>2, <2>3, FS_AddElement
  <2>5. Cardinality(held) = 2
    BY <2>1, <2>2, <2>3, <2>4
  <2> QED
    BY <2>1, <2>5 DEF Exposed
<1>2. CASE "extra" \notin held
  BY <1>2 DEF Exposed, Keys
<1> QED
  BY <1>1, <1>2

\* Every step keeps the types.
LEMMA TypeStep ==
  ASSUME TypeOK, StageInv, [Next]_vars
  PROVE  TypeOK'
<1>1. ASSUME NEW b \in Boxes, Preserve(b) PROVE TypeOK'
  <2>1. sess[b] \in 0..MaxLives /\ kept[b] \in SUBSET Lives
    BY DEF TypeOK
  <2>2. kept[b] \cup ({sess[b]} \ {0}) \in SUBSET Lives
    BY <2>1
  <2>3. kept' \in [Boxes -> SUBSET Lives]
    BY <1>1, <2>2 DEF Preserve, TypeOK
  <2>4. sess' \in [Boxes -> 0..MaxLives]
    BY <1>1 DEF Preserve, TypeOK
  <2>5. pc' \in [Boxes -> Pcs]
    BY <1>1 DEF Preserve, Goto, TypeOK, Pcs
  <2>6. UNCHANGED <<life, roleOf, agentVars, cancelled, closed, dir, rec, captured, cont, out, runErr>>
    BY <1>1 DEF Preserve, Goto
  <2> QED
    BY <2>3, <2>4, <2>5, <2>6 DEF agentVars, TypeOK
<1>2. ASSUME NEW b \in Boxes, Scrub(b) PROVE TypeOK'
  BY <1>2 DEF Scrub, At, Goto, agentVars, TypeOK, Outcomes, Pcs
<1>3. ASSUME NEW b \in Boxes, Refused(b) PROVE TypeOK'
  BY <1>3 DEF Refused, FailAs, Fail, Outcome, agentVars, hostVars, TypeOK, Outcomes, Pcs
<1>4. ASSUME NEW b \in Boxes, UseAgent(b) PROVE TypeOK'
  BY <1>4 DEF UseAgent, Cached, At, Goto, agentVars, hostVars, TypeOK, Outcomes, Pcs
<1>5. ASSUME NEW b \in Boxes, StartAgent(b) PROVE TypeOK'
  BY <1>5 DEF StartAgent, Spawn, At, Goto, hostVars, TypeOK, Outcomes, Pcs
<1>6. ASSUME NEW b \in Boxes, StartAgentFails(b) PROVE TypeOK'
  BY <1>6 DEF StartAgentFails, SpawnFails, At, FailAs, Fail, Outcome, agentVars, hostVars, TypeOK, Outcomes, Pcs
<1>7. ASSUME NEW b \in Boxes, VerifyAgent(b) PROVE TypeOK'
  <2>1. PICK held \in SUBSET Keys : Verify(b, held)
    BY <1>7 DEF VerifyAgent
  <2>2. roleOf[b] \in Roles
    BY <1>7 DEF VerifyAgent, At, StageInv
  <2>3. Exposed(roleOf[b], held) \in SUBSET Keys
    BY DEF Exposed
  <2> QED
    BY <1>7, <2>1, <2>2, <2>3 DEF VerifyAgent, Verify, At, Goto, hostVars, TypeOK, Pcs
<1>8. ASSUME NEW b \in Boxes, RefuseAgent(b) PROVE TypeOK'
  BY <1>8 DEF RefuseAgent, Refuse, At, FailAs, Fail, Outcome, hostVars, TypeOK, Outcomes, Pcs
<1>9. ASSUME NEW b \in Boxes, ServeProxy(b) PROVE TypeOK'
  BY <1>9 DEF ServeProxy, Serve, At, Goto, hostVars, TypeOK, StageInv, Pcs
<1>10. ASSUME NEW b \in Boxes, ServeProxyFails(b) PROVE TypeOK'
  BY <1>10 DEF ServeProxyFails, At, FailAs, Fail, Outcome, agentVars, hostVars, TypeOK, Outcomes, Pcs
<1>11. ASSUME NEW b \in Boxes, CredentialsFail(b) PROVE TypeOK'
  BY <1>11 DEF CredentialsFail, At, FailAs, Fail, Outcome, hostVars, TypeOK, Outcomes, Pcs
<1>12. ASSUME NEW b \in Boxes, OpenLogFails(b) PROVE TypeOK'
  BY <1>12 DEF OpenLogFails, At, FailAs, Outcome, agentVars, hostVars, TypeOK, Outcomes, Pcs
<1>13. ASSUME NEW b \in Boxes, Launch(b) PROVE TypeOK'
  BY <1>13 DEF Launch, At, Goto, agentVars, TypeOK, Outcomes, Pcs
<1>14. ASSUME NEW b \in Boxes, LaunchFails(b) PROVE TypeOK'
  BY <1>14 DEF LaunchFails, Returned, StopListening, At, agentVars, TypeOK, Outcomes, Pcs
<1>15. ASSUME NEW b \in Boxes, Return(b) PROVE TypeOK'
  BY <1>15 DEF Return, Returned, StopListening, At, agentVars, TypeOK, Outcomes, Pcs
<1>16. ASSUME NEW b \in Boxes, Kill(b) PROVE TypeOK'
  BY <1>16 DEF Kill, Returned, StopListening, At, agentVars, TypeOK, Outcomes, Pcs
<1>17. ASSUME NEW b \in Boxes, Extract(b) PROVE TypeOK'
  <2>1. out' \in [Boxes -> Outcomes]
    BY <1>17 DEF Extract, Outcome, TypeOK, Outcomes
  <2> QED
    BY <1>17, <2>1 DEF Extract, ProxyGone, At, agentVars, hostVars, TypeOK, Pcs
<1>18. ASSUME NEW b \in Boxes, BoxWrites(b) PROVE TypeOK'
  BY <1>18 DEF BoxWrites, agentVars, TypeOK, Outcomes, Pcs
<1>19. ASSUME NEW b \in Boxes, BoxCaptures(b) PROVE TypeOK'
  BY <1>19 DEF BoxCaptures, agentVars, TypeOK, Outcomes, Pcs
<1>20. ASSUME NEW b \in Boxes, BoxExits(b) PROVE TypeOK'
  BY <1>20 DEF BoxExits, agentVars, TypeOK, Outcomes, Pcs
<1>21. ASSUME NEW b \in Boxes, BoxSigns(b) PROVE TypeOK'
  BY <1>21 DEF BoxSigns, InBox, Connect, Request, SignNext, Hangup, hostVars, TypeOK, Outcomes, Pcs
<1>22. ASSUME NEW b \in Boxes, AgentAnswers(b) PROVE TypeOK'
  BY <1>22 DEF AgentAnswers, Signed, hostVars, TypeOK, Outcomes, Pcs
<1>23. CASE Cancel
  BY <1>23 DEF Cancel, agentVars, hostVars, TypeOK, Outcomes, Pcs
<1>24. CASE Close
  BY <1>24 DEF Close, CloseAgents, hostVars, TypeOK, Outcomes, Pcs
<1>25. CASE Resume
  <2>1. out' \in [Boxes -> Outcomes]
    BY <1>25 DEF Resume, Outcome, Outcomes
  <2>2. life' \in Lives
    BY <1>25 DEF Resume, TypeOK
  <2> QED
    BY <1>25, <2>1, <2>2 DEF Resume, ForgetAgents, hostVars, TypeOK, Pcs
<1>26. CASE UNCHANGED vars
  BY <1>26 DEF vars, agentVars, hostVars, TypeOK, Outcomes, Pcs
<1> QED
  BY <1>1, <1>2, <1>3, <1>4, <1>5, <1>6, <1>7, <1>8, <1>9, <1>10, <1>11, <1>12, <1>13, <1>14, <1>15, <1>16, <1>17, <1>18, <1>19, <1>20, <1>21, <1>22, <1>23, <1>24, <1>25, <1>26
  DEF Next, Begin, Advance, Trouble, Box

\* Every step keeps the agents and the proxies in order.
LEMMA AgentStep ==
  ASSUME TypeOK, AgentInv, [Next]_vars
  PROVE  AgentInv'
<1>1. ASSUME NEW b \in Boxes, Preserve(b) PROVE AgentInv'
  BY <1>1 DEF Preserve, At, Goto, agentVars, TypeOK, AgentInv, MuInv, RolesInv, StageInv, BackedInv, SignerHolds, AgentsOwned, PinnedKeyOnly, NoProxyLeft, Outcomes
<1>2. ASSUME NEW b \in Boxes, Scrub(b) PROVE AgentInv'
  BY <1>2 DEF Scrub, At, Goto, agentVars, TypeOK, AgentInv, MuInv, RolesInv, StageInv, BackedInv, SignerHolds, AgentsOwned, PinnedKeyOnly, NoProxyLeft, Outcomes
<1>3. ASSUME NEW b \in Boxes, Refused(b) PROVE AgentInv'
  BY <1>3 DEF Refused, FailAs, Fail, Outcome, agentVars, hostVars, TypeOK, AgentInv, MuInv, RolesInv, StageInv, BackedInv, SignerHolds, AgentsOwned, PinnedKeyOnly, NoProxyLeft, At, Outcomes
<1>4. ASSUME NEW b \in Boxes, UseAgent(b) PROVE AgentInv'
  BY <1>4 DEF UseAgent, Cached, At, Goto, agentVars, hostVars, TypeOK, AgentInv, MuInv, RolesInv, StageInv, BackedInv, SignerHolds, AgentsOwned, PinnedKeyOnly, NoProxyLeft, Outcomes
<1>5. ASSUME NEW b \in Boxes, StartAgent(b) PROVE AgentInv'
  BY <1>5 DEF StartAgent, Spawn, At, Goto, hostVars, TypeOK, AgentInv, MuInv, RolesInv, StageInv, BackedInv, SignerHolds, AgentsOwned, PinnedKeyOnly, NoProxyLeft, Outcomes
<1>6. ASSUME NEW b \in Boxes, StartAgentFails(b) PROVE AgentInv'
  BY <1>6 DEF StartAgentFails, SpawnFails, At, FailAs, Fail, Outcome, agentVars, hostVars, TypeOK, AgentInv, MuInv, RolesInv, StageInv, BackedInv, SignerHolds, AgentsOwned, PinnedKeyOnly, NoProxyLeft, Outcomes
<1>7. ASSUME NEW b \in Boxes, VerifyAgent(b) PROVE AgentInv'
  <2>1. PICK held \in SUBSET Keys : Verify(b, held)
    BY <1>7 DEF VerifyAgent
  <2>2. roleOf[b] \in Roles /\ roles[roleOf[b]] = None /\ b \in procs /\ mu = b
    BY <2>1, <1>7 DEF Verify, AgentInv, MuInv
  <2>3. roleOf[b] \in Pinned => Exposed(roleOf[b], held) = {"own"}
    BY <2>1, PinnedShown DEF Verify
  <2>4. PinnedKeyOnly'
    BY <1>7, <2>1, <2>2, <2>3 DEF VerifyAgent, Verify, Goto, TypeOK, AgentInv, PinnedKeyOnly
  <2>5. MuInv' /\ RolesInv' /\ AgentsOwned'
    BY <1>7, <2>1, <2>2 DEF VerifyAgent, Verify, At, Goto, TypeOK, AgentInv, MuInv,
       RolesInv, AgentsOwned
  <2>6. StageInv' /\ BackedInv' /\ SignerHolds' /\ NoProxyLeft'
    BY <1>7, <2>1, <2>2 DEF VerifyAgent, Verify, At, Goto, TypeOK, AgentInv, StageInv,
       BackedInv, SignerHolds, NoProxyLeft
  <2> QED
    BY <2>4, <2>5, <2>6 DEF AgentInv
<1>8. ASSUME NEW b \in Boxes, RefuseAgent(b) PROVE AgentInv'
  BY <1>8 DEF RefuseAgent, Refuse, At, FailAs, Fail, Outcome, hostVars, TypeOK, AgentInv, MuInv, RolesInv, StageInv, BackedInv, SignerHolds, AgentsOwned, PinnedKeyOnly, NoProxyLeft, Outcomes
<1>9. ASSUME NEW b \in Boxes, ServeProxy(b) PROVE AgentInv'
  BY <1>9 DEF ServeProxy, Serve, At, Goto, hostVars, TypeOK, AgentInv, MuInv, RolesInv, StageInv, BackedInv, SignerHolds, AgentsOwned, PinnedKeyOnly, NoProxyLeft, Outcomes
<1>10. ASSUME NEW b \in Boxes, ServeProxyFails(b) PROVE AgentInv'
  BY <1>10 DEF ServeProxyFails, At, FailAs, Fail, Outcome, agentVars, hostVars, TypeOK, AgentInv, MuInv, RolesInv, StageInv, BackedInv, SignerHolds, AgentsOwned, PinnedKeyOnly, NoProxyLeft, Outcomes
<1>11. ASSUME NEW b \in Boxes, CredentialsFail(b) PROVE AgentInv'
  BY <1>11 DEF CredentialsFail, At, FailAs, Fail, Outcome, hostVars, TypeOK, AgentInv, MuInv, RolesInv, StageInv, BackedInv, SignerHolds, AgentsOwned, PinnedKeyOnly, NoProxyLeft, Outcomes
<1>12. ASSUME NEW b \in Boxes, OpenLogFails(b) PROVE AgentInv'
  BY <1>12 DEF OpenLogFails, At, FailAs, Outcome, agentVars, hostVars, TypeOK, AgentInv, MuInv, RolesInv, StageInv, BackedInv, SignerHolds, AgentsOwned, PinnedKeyOnly, NoProxyLeft, Outcomes
<1>13. ASSUME NEW b \in Boxes, Launch(b) PROVE AgentInv'
  BY <1>13 DEF Launch, At, Goto, agentVars, TypeOK, AgentInv, MuInv, RolesInv, StageInv, BackedInv, SignerHolds, AgentsOwned, PinnedKeyOnly, NoProxyLeft, Outcomes
<1>14. ASSUME NEW b \in Boxes, LaunchFails(b) PROVE AgentInv'
  BY <1>14 DEF LaunchFails, Returned, StopListening, At, agentVars, TypeOK, AgentInv, MuInv, RolesInv, StageInv, BackedInv, SignerHolds, AgentsOwned, PinnedKeyOnly, NoProxyLeft, Outcomes
<1>15. ASSUME NEW b \in Boxes, Return(b) PROVE AgentInv'
  BY <1>15 DEF Return, Returned, StopListening, At, agentVars, TypeOK, AgentInv, MuInv, RolesInv, StageInv, BackedInv, SignerHolds, AgentsOwned, PinnedKeyOnly, NoProxyLeft, Outcomes
<1>16. ASSUME NEW b \in Boxes, Kill(b) PROVE AgentInv'
  BY <1>16 DEF Kill, Returned, StopListening, At, agentVars, TypeOK, AgentInv, MuInv, RolesInv, StageInv, BackedInv, SignerHolds, AgentsOwned, PinnedKeyOnly, NoProxyLeft, Outcomes
<1>17. ASSUME NEW b \in Boxes, Extract(b) PROVE AgentInv'
  BY <1>17 DEF Extract, ProxyGone, Outcome, At, agentVars, hostVars, TypeOK, AgentInv, MuInv, RolesInv, StageInv, BackedInv, SignerHolds, AgentsOwned, PinnedKeyOnly, NoProxyLeft, Outcomes
<1>18. ASSUME NEW b \in Boxes, BoxWrites(b) PROVE AgentInv'
  BY <1>18 DEF BoxWrites, agentVars, TypeOK, AgentInv, MuInv, RolesInv, StageInv, BackedInv, SignerHolds, AgentsOwned, PinnedKeyOnly, NoProxyLeft, At, Outcomes
<1>19. ASSUME NEW b \in Boxes, BoxCaptures(b) PROVE AgentInv'
  BY <1>19 DEF BoxCaptures, agentVars, TypeOK, AgentInv, MuInv, RolesInv, StageInv, BackedInv, SignerHolds, AgentsOwned, PinnedKeyOnly, NoProxyLeft, At, Outcomes
<1>20. ASSUME NEW b \in Boxes, BoxExits(b) PROVE AgentInv'
  BY <1>20 DEF BoxExits, agentVars, TypeOK, AgentInv, MuInv, RolesInv, StageInv, BackedInv, SignerHolds, AgentsOwned, PinnedKeyOnly, NoProxyLeft, At, Outcomes
<1>21. ASSUME NEW b \in Boxes, BoxSigns(b) PROVE AgentInv'
  BY <1>21 DEF BoxSigns, InBox, Connect, Request, SignNext, Hangup, hostVars, TypeOK, AgentInv, MuInv, RolesInv, StageInv, BackedInv, SignerHolds, AgentsOwned, PinnedKeyOnly, NoProxyLeft, At, Outcomes
<1>22. ASSUME NEW b \in Boxes, AgentAnswers(b) PROVE AgentInv'
  BY <1>22 DEF AgentAnswers, Signed, hostVars, TypeOK, AgentInv, MuInv, RolesInv, StageInv, BackedInv, SignerHolds, AgentsOwned, PinnedKeyOnly, NoProxyLeft, At, Outcomes
<1>23. CASE Cancel
  BY <1>23 DEF Cancel, agentVars, hostVars, TypeOK, AgentInv, MuInv, RolesInv, StageInv, BackedInv, SignerHolds, AgentsOwned, PinnedKeyOnly, NoProxyLeft, At, Outcomes
<1>24. CASE Close
  BY <1>24 DEF Close, CloseAgents, hostVars, TypeOK, AgentInv, MuInv, RolesInv, StageInv, BackedInv, SignerHolds, AgentsOwned, PinnedKeyOnly, NoProxyLeft, At, Outcomes
<1>25. CASE Resume
  BY <1>25 DEF Resume, ForgetAgents, Outcome, hostVars, TypeOK, AgentInv, MuInv, RolesInv, StageInv, BackedInv, SignerHolds, AgentsOwned, PinnedKeyOnly, NoProxyLeft, At, Outcomes
<1>26. CASE UNCHANGED vars
  BY <1>26 DEF vars, agentVars, hostVars, TypeOK, AgentInv, MuInv, RolesInv, StageInv, BackedInv, SignerHolds, AgentsOwned, PinnedKeyOnly, NoProxyLeft, At, Outcomes
<1> QED
  BY <1>1, <1>2, <1>3, <1>4, <1>5, <1>6, <1>7, <1>8, <1>9, <1>10, <1>11, <1>12, <1>13, <1>14, <1>15, <1>16, <1>17, <1>18, <1>19, <1>20, <1>21, <1>22, <1>23, <1>24, <1>25, <1>26
  DEF Next, Begin, Advance, Trouble, Box

\* Every step keeps directories and containers apart.
LEMMA DirStep ==
  ASSUME TypeOK, AgentInv, DirInv, [Next]_vars
  PROVE  DirInv'
<1>1. ASSUME NEW b \in Boxes, Preserve(b) PROVE DirInv'
  BY <1>1 DEF Preserve, At, Goto, agentVars, TypeOK, DirInv, Outcomes, AgentInv, StageInv
<1>2. ASSUME NEW b \in Boxes, Scrub(b) PROVE DirInv'
  BY <1>2 DEF Scrub, At, Goto, agentVars, TypeOK, DirInv, Outcomes, AgentInv, StageInv
<1>3. ASSUME NEW b \in Boxes, Refused(b) PROVE DirInv'
  BY <1>3 DEF Refused, FailAs, Fail, Outcome, agentVars, hostVars, TypeOK, DirInv, Outcomes, AgentInv, StageInv
<1>4. ASSUME NEW b \in Boxes, UseAgent(b) PROVE DirInv'
  BY <1>4 DEF UseAgent, Cached, At, Goto, agentVars, hostVars, TypeOK, DirInv, Outcomes, AgentInv, StageInv
<1>5. ASSUME NEW b \in Boxes, StartAgent(b) PROVE DirInv'
  BY <1>5 DEF StartAgent, Spawn, At, Goto, hostVars, TypeOK, DirInv, Outcomes, AgentInv, StageInv
<1>6. ASSUME NEW b \in Boxes, StartAgentFails(b) PROVE DirInv'
  BY <1>6 DEF StartAgentFails, SpawnFails, At, FailAs, Fail, Outcome, agentVars, hostVars, TypeOK, DirInv, Outcomes, AgentInv, StageInv
<1>7. ASSUME NEW b \in Boxes, VerifyAgent(b) PROVE DirInv'
  BY <1>7 DEF VerifyAgent, Verify, At, Goto, hostVars, TypeOK, DirInv, Outcomes, AgentInv, StageInv
<1>8. ASSUME NEW b \in Boxes, RefuseAgent(b) PROVE DirInv'
  BY <1>8 DEF RefuseAgent, Refuse, At, FailAs, Fail, Outcome, hostVars, TypeOK, DirInv, Outcomes, AgentInv, StageInv
<1>9. ASSUME NEW b \in Boxes, ServeProxy(b) PROVE DirInv'
  BY <1>9 DEF ServeProxy, Serve, At, Goto, hostVars, TypeOK, DirInv, Outcomes, AgentInv, StageInv
<1>10. ASSUME NEW b \in Boxes, ServeProxyFails(b) PROVE DirInv'
  BY <1>10 DEF ServeProxyFails, At, FailAs, Fail, Outcome, agentVars, hostVars, TypeOK, DirInv, Outcomes, AgentInv, StageInv
<1>11. ASSUME NEW b \in Boxes, CredentialsFail(b) PROVE DirInv'
  BY <1>11 DEF CredentialsFail, At, FailAs, Fail, Outcome, hostVars, TypeOK, DirInv, Outcomes, AgentInv, StageInv
<1>12. ASSUME NEW b \in Boxes, OpenLogFails(b) PROVE DirInv'
  BY <1>12 DEF OpenLogFails, At, FailAs, Outcome, agentVars, hostVars, TypeOK, DirInv, Outcomes, AgentInv, StageInv
<1>13. ASSUME NEW b \in Boxes, Launch(b) PROVE DirInv'
  BY <1>13 DEF Launch, At, Goto, agentVars, TypeOK, DirInv, Outcomes, AgentInv, StageInv
<1>14. ASSUME NEW b \in Boxes, LaunchFails(b) PROVE DirInv'
  BY <1>14 DEF LaunchFails, Returned, StopListening, At, agentVars, TypeOK, DirInv, Outcomes, AgentInv, StageInv
<1>15. ASSUME NEW b \in Boxes, Return(b) PROVE DirInv'
  BY <1>15 DEF Return, Returned, StopListening, At, agentVars, TypeOK, DirInv, Outcomes, AgentInv, StageInv
<1>16. ASSUME NEW b \in Boxes, Kill(b) PROVE DirInv'
  BY <1>16 DEF Kill, Returned, StopListening, At, agentVars, TypeOK, DirInv, Outcomes, AgentInv, StageInv
<1>17. ASSUME NEW b \in Boxes, Extract(b) PROVE DirInv'
  BY <1>17 DEF Extract, ProxyGone, Outcome, At, agentVars, hostVars, TypeOK, DirInv, Outcomes, AgentInv, StageInv
<1>18. ASSUME NEW b \in Boxes, BoxWrites(b) PROVE DirInv'
  BY <1>18 DEF BoxWrites, agentVars, TypeOK, DirInv, Outcomes, AgentInv, StageInv
<1>19. ASSUME NEW b \in Boxes, BoxCaptures(b) PROVE DirInv'
  BY <1>19 DEF BoxCaptures, agentVars, TypeOK, DirInv, Outcomes, AgentInv, StageInv
<1>20. ASSUME NEW b \in Boxes, BoxExits(b) PROVE DirInv'
  BY <1>20 DEF BoxExits, agentVars, TypeOK, DirInv, Outcomes, AgentInv, StageInv
<1>21. ASSUME NEW b \in Boxes, BoxSigns(b) PROVE DirInv'
  BY <1>21 DEF BoxSigns, InBox, Connect, Request, SignNext, Hangup, hostVars, TypeOK, DirInv, Outcomes, AgentInv, StageInv
<1>22. ASSUME NEW b \in Boxes, AgentAnswers(b) PROVE DirInv'
  BY <1>22 DEF AgentAnswers, Signed, hostVars, TypeOK, DirInv, Outcomes, AgentInv, StageInv
<1>23. CASE Cancel
  BY <1>23 DEF Cancel, agentVars, hostVars, TypeOK, DirInv, Outcomes, AgentInv, StageInv
<1>24. CASE Close
  BY <1>24 DEF Close, CloseAgents, hostVars, TypeOK, DirInv, Outcomes, AgentInv, StageInv
<1>25. CASE Resume
  BY <1>25 DEF Resume, ForgetAgents, Outcome, hostVars, TypeOK, DirInv, Outcomes, AgentInv, StageInv
<1>26. CASE UNCHANGED vars
  BY <1>26 DEF vars, agentVars, hostVars, TypeOK, DirInv, Outcomes, AgentInv, StageInv
<1> QED
  BY <1>1, <1>2, <1>3, <1>4, <1>5, <1>6, <1>7, <1>8, <1>9, <1>10, <1>11, <1>12, <1>13, <1>14, <1>15, <1>16, <1>17, <1>18, <1>19, <1>20, <1>21, <1>22, <1>23, <1>24, <1>25, <1>26
  DEF Next, Begin, Advance, Trouble, Box

\* Without the two faults every step keeps the transcripts.
LEMMA SessionStep ==
  ASSUME TypeOK, DirInv, SessionInv, Faults \cap Unheard = {}, [Next]_vars
  PROVE  SessionInv'
<1>1. ASSUME NEW b \in Boxes, Preserve(b) PROVE SessionInv'
  BY <1>1 DEF Preserve, At, Goto, agentVars, TypeOK, DirInv, SessionInv, TranscriptsKept, Unheard
<1>2. ASSUME NEW b \in Boxes, Scrub(b) PROVE SessionInv'
  BY <1>2 DEF Scrub, At, Goto, agentVars, TypeOK, DirInv, SessionInv, TranscriptsKept, Unheard
<1>3. ASSUME NEW b \in Boxes, Refused(b) PROVE SessionInv'
  BY <1>3 DEF Refused, FailAs, Fail, Outcome, agentVars, hostVars, TypeOK, DirInv, SessionInv, TranscriptsKept, Unheard
<1>4. ASSUME NEW b \in Boxes, UseAgent(b) PROVE SessionInv'
  BY <1>4 DEF UseAgent, Cached, At, Goto, agentVars, hostVars, TypeOK, DirInv, SessionInv, TranscriptsKept, Unheard
<1>5. ASSUME NEW b \in Boxes, StartAgent(b) PROVE SessionInv'
  BY <1>5 DEF StartAgent, Spawn, At, Goto, hostVars, TypeOK, DirInv, SessionInv, TranscriptsKept, Unheard
<1>6. ASSUME NEW b \in Boxes, StartAgentFails(b) PROVE SessionInv'
  BY <1>6 DEF StartAgentFails, SpawnFails, At, FailAs, Fail, Outcome, agentVars, hostVars, TypeOK, DirInv, SessionInv, TranscriptsKept, Unheard
<1>7. ASSUME NEW b \in Boxes, VerifyAgent(b) PROVE SessionInv'
  BY <1>7 DEF VerifyAgent, Verify, At, Goto, hostVars, TypeOK, DirInv, SessionInv, TranscriptsKept, Unheard
<1>8. ASSUME NEW b \in Boxes, RefuseAgent(b) PROVE SessionInv'
  BY <1>8 DEF RefuseAgent, Refuse, At, FailAs, Fail, Outcome, hostVars, TypeOK, DirInv, SessionInv, TranscriptsKept, Unheard
<1>9. ASSUME NEW b \in Boxes, ServeProxy(b) PROVE SessionInv'
  BY <1>9 DEF ServeProxy, Serve, At, Goto, hostVars, TypeOK, DirInv, SessionInv, TranscriptsKept, Unheard
<1>10. ASSUME NEW b \in Boxes, ServeProxyFails(b) PROVE SessionInv'
  BY <1>10 DEF ServeProxyFails, At, FailAs, Fail, Outcome, agentVars, hostVars, TypeOK, DirInv, SessionInv, TranscriptsKept, Unheard
<1>11. ASSUME NEW b \in Boxes, CredentialsFail(b) PROVE SessionInv'
  BY <1>11 DEF CredentialsFail, At, FailAs, Fail, Outcome, hostVars, TypeOK, DirInv, SessionInv, TranscriptsKept, Unheard
<1>12. ASSUME NEW b \in Boxes, OpenLogFails(b) PROVE SessionInv'
  BY <1>12 DEF OpenLogFails, At, FailAs, Outcome, agentVars, hostVars, TypeOK, DirInv, SessionInv, TranscriptsKept, Unheard
<1>13. ASSUME NEW b \in Boxes, Launch(b) PROVE SessionInv'
  BY <1>13 DEF Launch, At, Goto, agentVars, TypeOK, DirInv, SessionInv, TranscriptsKept, Unheard
<1>14. ASSUME NEW b \in Boxes, LaunchFails(b) PROVE SessionInv'
  BY <1>14 DEF LaunchFails, Returned, StopListening, At, agentVars, TypeOK, DirInv, SessionInv, TranscriptsKept, Unheard
<1>15. ASSUME NEW b \in Boxes, Return(b) PROVE SessionInv'
  BY <1>15 DEF Return, Returned, StopListening, At, agentVars, TypeOK, DirInv, SessionInv, TranscriptsKept, Unheard
<1>16. ASSUME NEW b \in Boxes, Kill(b) PROVE SessionInv'
  BY <1>16 DEF Kill, Returned, StopListening, At, agentVars, TypeOK, DirInv, SessionInv, TranscriptsKept, Unheard
<1>17. ASSUME NEW b \in Boxes, Extract(b) PROVE SessionInv'
  BY <1>17 DEF Extract, ProxyGone, Outcome, At, agentVars, hostVars, TypeOK, DirInv, SessionInv, TranscriptsKept, Unheard
<1>18. ASSUME NEW b \in Boxes, BoxWrites(b) PROVE SessionInv'
  BY <1>18 DEF BoxWrites, agentVars, TypeOK, DirInv, SessionInv, TranscriptsKept, Unheard
<1>19. ASSUME NEW b \in Boxes, BoxCaptures(b) PROVE SessionInv'
  BY <1>19 DEF BoxCaptures, agentVars, TypeOK, DirInv, SessionInv, TranscriptsKept, Unheard
<1>20. ASSUME NEW b \in Boxes, BoxExits(b) PROVE SessionInv'
  BY <1>20 DEF BoxExits, agentVars, TypeOK, DirInv, SessionInv, TranscriptsKept, Unheard
<1>21. ASSUME NEW b \in Boxes, BoxSigns(b) PROVE SessionInv'
  BY <1>21 DEF BoxSigns, InBox, Connect, Request, SignNext, Hangup, hostVars, TypeOK, DirInv, SessionInv, TranscriptsKept, Unheard
<1>22. ASSUME NEW b \in Boxes, AgentAnswers(b) PROVE SessionInv'
  BY <1>22 DEF AgentAnswers, Signed, hostVars, TypeOK, DirInv, SessionInv, TranscriptsKept, Unheard
<1>23. CASE Cancel
  BY <1>23 DEF Cancel, agentVars, hostVars, TypeOK, DirInv, SessionInv, TranscriptsKept, Unheard
<1>24. CASE Close
  BY <1>24 DEF Close, CloseAgents, hostVars, TypeOK, DirInv, SessionInv, TranscriptsKept, Unheard
<1>25. CASE Resume
  BY <1>25 DEF Resume, ForgetAgents, Outcome, hostVars, TypeOK, DirInv, SessionInv, TranscriptsKept, Unheard
<1>26. CASE UNCHANGED vars
  BY <1>26 DEF vars, agentVars, hostVars, TypeOK, DirInv, SessionInv, TranscriptsKept, Unheard
<1> QED
  BY <1>1, <1>2, <1>3, <1>4, <1>5, <1>6, <1>7, <1>8, <1>9, <1>10, <1>11, <1>12, <1>13, <1>14, <1>15, <1>16, <1>17, <1>18, <1>19, <1>20, <1>21, <1>22, <1>23, <1>24, <1>25, <1>26
  DEF Next, Begin, Advance, Trouble, Box

-----------------------------------------------------------------------------
(* The theorems *)

\* A new process, and with it the first one, has every part of the invariant.
LEMMA InitSafe ==
  ASSUME Init
  PROVE  TypeOK /\ AgentInv /\ DirInv /\ SessionInv
<1>1. out \in [Boxes -> Outcomes]
  BY DEF Init, Outcome, Outcomes
<1>2. roleOf \in [Boxes -> Roles \cup {None}] /\ life \in Lives /\ 0 \in 0..MaxLives
  BY DEF Init
<1>3. TypeOK
  BY <1>1, <1>2 DEF Init, RolesInit, TypeOK, Pcs
<1>4. AgentInv
  BY DEF Init, RolesInit, Outcome, AgentInv, MuInv, RolesInv, StageInv, BackedInv, SignerHolds,
     AgentsOwned, PinnedKeyOnly, NoProxyLeft, At
<1>5. DirInv /\ SessionInv
  BY DEF Init, Outcome, DirInv, SessionInv, TranscriptsKept
<1> QED
  BY <1>3, <1>4, <1>5

\* The part of the invariant that holds whatever the environment does.
LEMMA AgentsAlways == Spec => [](TypeOK /\ AgentInv /\ DirInv)
<1>1. TypeOK /\ AgentInv /\ DirInv /\ [Next]_vars => (TypeOK /\ AgentInv /\ DirInv)'
  BY TypeStep, AgentStep, DirStep DEF AgentInv
<1> QED
  BY <1>1, InitSafe, PTL DEF Spec, UnattendedSpec

\* The identity bindings hold together: no ssh-agent is adrift, the agent behind
\* every proxy in use is alive, a pinned role shows its key alone and the token
\* sees one request at a time, for any number of attempts, roles and processes
\* and under every fault (IdentityBinding, roleAgentFor, signProxy).
THEOREM AgentsCorrect == Spec => []AgentsSafe
<1>1. TypeOK /\ AgentInv => AgentsSafe
  <2> SUFFICES ASSUME TypeOK, AgentInv PROVE AgentsSafe
    OBVIOUS
  <2>1. ProxyBacked
    BY DEF TypeOK, AgentInv, BackedInv, RolesInv, ProxyBacked
  <2>2. OneSignature
    BY DEF AgentInv, SignerHolds, OneSignature
  <2> QED
    BY <2>1, <2>2 DEF AgentInv, AgentsSafe
<1> QED
  BY <1>1, AgentsAlways, PTL

\* An attempt adopts only the record that its own container wrote, and leaves no
\* proxy behind, whatever processes and containers came before it (boxrun.go).
THEOREM RecordsCorrect == Spec => [](OwnRecord /\ NoProxyLeft)
<1>1. AgentInv /\ DirInv => OwnRecord /\ NoProxyLeft
  BY DEF AgentInv, DirInv, OwnRecord
<1> QED
  BY <1>1, AgentsAlways, PTL

\* Without a straggler that starts to write after its process died, and without
\* a sessions directory that cannot be listed, attempts that reuse a directory
\* and a container name stay apart: the transcripts of all of them are kept too
\* (preserveSessions, scrub).
THEOREM AttemptsCorrect ==
  ASSUME Faults \cap Unheard = {}
  PROVE  Spec => []AttemptsApart
<1>1. TypeOK /\ AgentInv /\ DirInv /\ SessionInv /\ [Next]_vars => SessionInv'
  BY SessionStep
<1>2. AgentInv /\ DirInv /\ SessionInv => AttemptsApart
  BY DEF AgentInv, DirInv, SessionInv, OwnRecord, AttemptsApart
<1> QED
  BY <1>1, <1>2, InitSafe, AgentsAlways, PTL DEF Spec, UnattendedSpec

=============================================================================
