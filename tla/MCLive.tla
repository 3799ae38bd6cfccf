------------------------------- MODULE MCLive -------------------------------
(***************************************************************************)
(* The liveness properties of the parts, one part in each behaviour; the   *)
(* others stay in an initial state.  Every fairness condition is the one   *)
(* of the part's own FairSpec, restricted to the behaviours in which the   *)
(* part runs.                                                              *)
(***************************************************************************)
EXTENDS Naturals, Sequences, FiniteSets

CONSTANTS None

VARIABLES which,
  \* Transport
  status, result_code, request, output_payload, generation_failure_code, shutdown,
  drain_requested, block, result, host, fabric_failure,
  caller, call, returned, output, aborted,
  \* Lifecycle
  alive, startups, book, broker, leases, fabric, forming, generations, sealed, closed,
  stopping, events, agent, late, broken, inst,
  \* TaskScope
  task, pending, free, lease, runner, baseline, waiting, failures, happened

-----------------------------------------------------------------------------
(* Two arenas; a request may be rejected and an Instance may crash. *)

Arenas == {"a", "b"}
OneCall == [a \in Arenas |-> 1]
RejectCrash == [a |-> {"reject", "crash"}, b |-> {"crash"}]
T == INSTANCE Transport WITH MaxCalls <- OneCall, Faults <- RejectCrash

(* One attention device, one FFN device, one rank; the operator may close. *)
Places == [pa |-> "a1", pf |-> "f1", pr |-> "r1"]
Processes == DOMAIN Places
AtnPes == {"a1"}
FfnPes == {"f1"}
BothPes == AtnPes \cup FfnPes
OneRank == [r1 |-> "a1"]
RankSet == DOMAIN OneRank
CloseOnly == {"close"}
L == INSTANCE Lifecycle WITH
  Pes <- BothPes, Atn <- AtnPes, Ffn <- FfnPes, Ranks <- RankSet,
  device <- OneRank, Procs <- Processes, slot <- Places, Spares <- {},
  MaxGenerations <- 1, Attempts <- 2, MaxEvents <- 1, Kinds <- CloseOnly

(* One task on two devices; cancellations and expired items. *)
OneTask == {"t"}
BothDevices == {1, 2}
NeedsBoth == [t |-> 2]
CancelOrItem == {"cancel", "item"}
S == INSTANCE TaskScope WITH
  Tasks <- OneTask, Devices <- BothDevices, need <- NeedsBoth, Kinds <- CancelOrItem,
  MaxEvents <- 2, events <- happened

-----------------------------------------------------------------------------
tVars == <<status, result_code, request, output_payload, generation_failure_code, shutdown,
           drain_requested, block, result, host, fabric_failure,
           caller, call, returned, output, aborted>>
lVars == <<alive, startups, book, broker, leases, fabric, forming, generations, sealed, closed,
           stopping, events, agent, late, broken, inst>>
sVars == <<task, pending, free, lease, runner, baseline, waiting, failures, happened>>

Init ==
  /\ which \in {"transport", "lifecycle", "tools"}
  /\ T!Init /\ L!Init /\ S!Init

Transport == which = "transport" /\ UNCHANGED <<which, lVars, sVars>>
Lifecycle == which = "lifecycle" /\ UNCHANGED <<which, tVars, sVars>>
Tools == which = "tools" /\ UNCHANGED <<which, tVars, lVars>>

Next ==
  \/ Transport /\ T!Next
  \/ Lifecycle /\ L!Next
  \/ Tools /\ S!Next

vars == <<which, tVars, lVars, sVars>>

TransportFairness ==
  /\ \A a \in Arenas : /\ WF_vars(Transport /\ T!KernelStep(a))
                       /\ WF_vars(Transport /\ T!BlockStep(a))
  /\ WF_vars(Transport /\ T!complete)

LifecycleFairness ==
  /\ \A p \in L!AgentProcs :
       /\ WF_vars(Lifecycle /\ L!MainStep(p) /\ UNCHANGED inst)
       /\ WF_vars(Lifecycle /\ L!TakeSnapshot(p) /\ UNCHANGED inst)
       /\ WF_vars(Lifecycle /\ L!Heartbeat(p) /\ UNCHANGED inst)
  /\ \A p \in L!InstanceProcs :
       /\ WF_vars(Lifecycle /\ L!WorkerStep(p) /\ UNCHANGED <<agent, late, broken>>)
       /\ WF_vars(Lifecycle /\ L!InstanceBeats(p) /\ UNCHANGED <<agent, late, broken>>)
       /\ WF_vars(Lifecycle /\ L!KillFailed(p) /\ UNCHANGED <<agent, late, broken>>)
       /\ WF_vars(Lifecycle /\ L!EndService(p) /\ UNCHANGED <<agent, late, broken>>)
  /\ WF_vars(Lifecycle /\ L!ProbeMembers) /\ WF_vars(Lifecycle /\ L!CommitPlan)
  /\ WF_vars(Lifecycle /\ L!Watchdog) /\ WF_vars(Lifecycle /\ L!Close)

ToolsFairness == WF_vars(Tools /\ S!Work)

Spec ==
  /\ Init /\ [][Next]_vars
  /\ TransportFairness /\ LifecycleFairness /\ ToolsFairness

-----------------------------------------------------------------------------
(* Once a drain is requested the whole Resident completes, even if         *)
(* Instances die while they stage, wait or copy.                           *)
DrainCompletes == T!DrainCompletes

(* A request published before its block leaves is answered, whatever       *)
(* becomes of the Instance.                                                *)
RequestAnswered == T!RequestAnswered

(* A quiescing generation is retired, down to the exit of its owners.      *)
QuiescingRetires == L!QuiescingRetires

(* A close of an executable deployment completes.                          *)
CloseCompletes == L!CloseCompletes

(* Startup never hangs: a rank comes to serve or an Agent reports failure. *)
StartupSettles == which = "lifecycle" => L!StartupSettles

(* An invocation that meets nothing but cancellations and expired items    *)
(* ends with every device back in the pool.                                *)
RunReturnsDevices == which = "tools" => S!RunReturnsDevices
=============================================================================
