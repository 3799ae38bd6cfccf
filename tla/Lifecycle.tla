----------------------------- MODULE Lifecycle ------------------------------
(***************************************************************************)
(* The deployment: the daemon of ControlPlane, its Agents and its Instance *)
(* ranks, with the faults their code handles.                              *)
(***************************************************************************)
EXTENDS Agents, Instances

vars == <<daemonVars, agentVars, inst, events>>

Init == ControlInit /\ AgentsInit /\ InstancesInit

(***************************************************************************)
(* The registration call of the process that formed a plan returns.  Its   *)
(* thread in the daemon goes on even when the caller has died.             *)
(***************************************************************************)
Returns(p) ==
  /\ agent' = IF p \in AgentProcs /\ agent[p].pc = "form"
                THEN [agent EXCEPT ![p] = Registered(@)] ELSE agent
  /\ inst' = IF p \in InstanceProcs /\ inst[p].pc = "form"
               THEN [inst EXCEPT ![p] = InstanceRegistered(@)] ELSE inst

ProbeMembers ==
  /\ probe_membership
  /\ IF MembersAlive THEN UNCHANGED <<agent, inst>> ELSE Returns(forming.by)
  /\ UNCHANGED <<alive, stopping, late, broken, events>>

CommitPlan ==
  /\ commit_plan
  /\ Returns(forming.by)
  /\ UNCHANGED <<alive, stopping, late, broken, events>>

Watchdog == watchdog(FALSE) /\ UNCHANGED <<agentVars, inst, events>>
PhaseTimeout ==
  /\ fabric.id # 0 /\ DeadlineApplies(fabric)
  /\ Event("timeout") /\ watchdog(TRUE) /\ UNCHANGED <<agentVars, inst>>

(* A heartbeat that stays away longer than the watermark.                  *)
HeartbeatStale(s) ==
  /\ Event("stale")
  /\ book[s] # None /\ book[s].fresh
  /\ book' = [book EXCEPT ![s].fresh = FALSE]
  /\ UNCHANGED <<alive, stopping, startups, broker, leases, fabric, forming, generations,
                 sealed, closed, agentVars, inst>>

Operator ==
  \/ begin_close /\ UNCHANGED <<agentVars, inst>>
  \/ \E p \in AgentProcs : SignalAgent(p) /\ UNCHANGED <<agentVars, inst>>
  \/ \E p \in InstanceProcs : EndService(p) /\ UNCHANGED agentVars

Close == close /\ UNCHANGED <<agentVars, inst, events>>

Faults ==
  \/ \E p \in AgentProcs : AgentFault(p) /\ UNCHANGED inst
  \/ \E p \in InstanceProcs : InstanceFault(p) /\ UNCHANGED agentVars
  \/ InvocationFails /\ UNCHANGED inst
  \/ PhaseTimeout
  \/ \E s \in Slots : HeartbeatStale(s)

Next ==
  \/ \E p \in AgentProcs : AgentStep(p) /\ UNCHANGED inst
  \/ \E p \in InstanceProcs : InstanceStep(p) /\ UNCHANGED agentVars
  \/ LateReport /\ UNCHANGED inst
  \/ ProbeMembers \/ CommitPlan
  \/ Watchdog \/ Close \/ Operator
  \/ Faults

Spec == Init /\ [][Next]_vars

(***************************************************************************)
(* Fairness: the main thread and the heartbeat thread of a live process,   *)
(* the daemon's threads and its watchdog keep running; the owner of a      *)
(* serving process ends it sooner or later, and kills it once it failed.   *)
(***************************************************************************)
Fairness ==
  /\ \A p \in AgentProcs : /\ WF_vars(MainStep(p) /\ UNCHANGED inst)
                           /\ WF_vars(TakeSnapshot(p) /\ UNCHANGED inst)
                           /\ WF_vars(Heartbeat(p) /\ UNCHANGED inst)
  /\ \A p \in InstanceProcs : /\ WF_vars(WorkerStep(p) /\ UNCHANGED agentVars)
                              /\ WF_vars(InstanceBeats(p) /\ UNCHANGED agentVars)
                              /\ WF_vars(KillFailed(p) /\ UNCHANGED agentVars)
                              /\ WF_vars(EndService(p) /\ UNCHANGED agentVars)
  /\ WF_vars(ProbeMembers) /\ WF_vars(CommitPlan)
  /\ WF_vars(Watchdog) /\ WF_vars(Close)

FairSpec == Spec /\ Fairness

-----------------------------------------------------------------------------
(***************************************************************************)
(* A generation is retired in order.  The arena of a live, attached rank   *)
(* is never destroyed under it: its AtnAgent does not leave of its own     *)
(* accord (close_role, or os._exit after STOPPED) while the rank may still *)
(* reach the memory.  The Fabric drains only after every AtnAgent has      *)
(* stopped its Transport Resident, the producer of Fabric work.  A         *)
(* participant enters the collective finalization only when no peer that   *)
(* runs has outstanding device work.                                       *)
(***************************************************************************)
RetirementOrdered ==
  /\ \A p \in InstanceProcs :
       p \in alive /\ inst[p].arena # None => agent[inst[p].arena].pc # "exited"
  /\ fabric.id # 0 /\ fabric.phase \in {"draining", "finalizing"} =>
       \A a \in Atn : fabric.agents[a] \in alive => agent[fabric.agents[a]].arenas = "drained"
  /\ \A p \in AgentProcs : agent[p].pc = "finalize" =>
       \A pe \in Pes : LET q == fabric.agents[pe] IN
         q \in alive => agent[q].native \in {"drained", "finalizing", "closed"}

(***************************************************************************)
(* EXECUTABLE is published only over a world in which every participant    *)
(* that still runs has its Residents active.                               *)
(***************************************************************************)
ExecutableIsActive ==
  fabric.id # 0 /\ fabric.phase = "executable" =>
    \A pe \in Pes : fabric.agents[pe] \in alive => agent[fabric.agents[pe]].native = "active"

(***************************************************************************)
(* The daemon retains a generation as long as an Agent that entered its    *)
(* native world runs, so that no second world forms beside it; and one     *)
(* device has one owner: two processes started for the same place are      *)
(* never both past startup admission.                                      *)
(***************************************************************************)
OneWorld ==
  /\ \A p \in AgentProcs :
       p \in alive /\ agent[p].plan # 0 /\ agent[p].native # "empty" => fabric.id = agent[p].plan
  /\ \A p, q \in AgentProcs \cap alive :
       slot[p] = slot[q] /\ agent[p].pc # "admit" /\ agent[q].pc # "admit" => p = q

(***************************************************************************)
(* Once close has returned, no Agent that was admitted to a device runs,   *)
(* and no Instance rank is attached to an arena.                           *)
(***************************************************************************)
ClosedIsEmpty ==
  closed => /\ \A p \in AgentProcs \cap alive : agent[p].pc = "admit"
            /\ \A p \in InstanceProcs \cap alive : inst[p].arena = None

-----------------------------------------------------------------------------
(***************************************************************************)
(* Startup never hangs: if the operator does nothing, a rank comes to      *)
(* serve or an Agent has reported its failure.                             *)
(***************************************************************************)
StartupSettles ==
  <>(\/ \E p \in InstanceProcs : inst[p].pc = "serving"
     \/ \E p \in AgentProcs : agent[p].failed
     \/ events < MaxEvents)

(* A quiescing generation is retired, down to the exit of its owners.      *)
QuiescingRetires ==
  (fabric.phase = "quiescing") ~> (fabric.id = 0)

(* A close of an executable deployment completes.                          *)
CloseCompletes ==
  (sealed /\ fabric.phase = "executable") ~> closed

(***************************************************************************)
(* Processes that are started and left alone come to serve: the plan forms,*)
(* the barriers pass, and a rank becomes ready.                            *)
(***************************************************************************)
DeploymentServes ==
  <>(\/ \E p \in InstanceProcs : inst[p].pc = "serving"
     \/ events < MaxEvents)

(***************************************************************************)
(* Once the daemon has published STOPPED over a failed generation, the     *)
(* surviving Agents exit.                                                  *)
(***************************************************************************)
SurvivorsExit ==
  (fabric.phase = "stopped") ~> (fabric.id = 0)
=============================================================================
