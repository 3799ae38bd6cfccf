---------------------------- MODULE ServingSystem ---------------------------
(***************************************************************************)
(* The owner of a complete local serving deployment                        *)
(* (xkit/serving/sglang/system.py) and of the cluster in it                *)
(* (xkit/serving/cluster.py): a startup worker reserves TCP endpoints,     *)
(* starts the daemon, the Agents and one server for each model, and waits  *)
(* until they serve.  Whoever closes the owner, while startup is under way *)
(* too, obtains one close operation that joins the worker, retires the     *)
(* servers, then the cluster, and takes back the endpoints.                *)
(*                                                                         *)
(* boot is where the startup worker stands, op the close operation, tear   *)
(* the cluster's own close operation, proc the processes, ep the endpoints *)
(* by the process they are for.  One Agent stands for all.                 *)
(***************************************************************************)
EXTENDS Naturals, FiniteSets, Sequences

CONSTANTS Models,            \* a sequence: the models, in the order of the launch
          MaxFaults, Faults  \* faults and outside events that may happen, and their kinds

ModelServers == {Models[k] : k \in DOMAIN Models}
Processes == ModelServers \cup {"daemon", "agent"}
Endpoints == ModelServers \cup {"daemon"}

VARIABLES caller, boot, op, tear, proc, ep, root, faults

servingVars == <<caller, boot, op, tear, proc, ep, root, faults>>

Running == {"up", "term"}
Runs(x) == proc[x] \in Running

ServingInit ==
  /\ caller = "idle"
  /\ boot = [pc |-> "off", i |-> 1, checked |-> FALSE, cluster |-> FALSE, healthy |-> FALSE]
  /\ op = [pc |-> "none", sealed |-> FALSE, expired |-> FALSE, asked |-> {}, gone |-> {}, closed |-> FALSE]
  /\ tear = [pc |-> "none", sealed |-> FALSE, notified |-> FALSE]
  /\ proc = [x \in Processes |-> "none"]
  /\ ep = [e \in Endpoints |-> "none"]
  /\ root = [sealed |-> FALSE, scope |-> "none"]
  /\ faults = 0

Fault(kind) == kind \in Faults /\ faults < MaxFaults /\ faults' = faults + 1
Calm == UNCHANGED faults

-----------------------------------------------------------------------------
(* The startup worker.  Before each acquisition, and in each round of a    *)
(* wait, it looks whether the owner is retiring; what it does next may     *)
(* come after the owner was sealed.                                        *)

WorkerKept == UNCHANGED <<caller, op, root>>
Boot(pc, i) == boot' = [boot EXCEPT !.pc = pc, !.i = i, !.checked = FALSE]
Goes(x, how) == proc' = [proc EXCEPT ![x] = how]

SystemSteps == {"reserve", "families", "create", "enter", "servers", "ready"}
ClusterSteps == {"daemon", "health", "agents", "register"}
Failing == Boot(IF boot.pc \in ClusterSteps THEN "rollback" ELSE "failed", 1)

check_startup_active ==
  /\ boot.pc \in SystemSteps \cup ClusterSteps /\ ~boot.checked
  /\ IF root.sealed \/ (boot.pc \in SystemSteps /\ op.sealed) \/ (boot.pc \in ClusterSteps /\ tear.sealed)
       THEN Failing ELSE boot' = [boot EXCEPT !.checked = TRUE]
  /\ WorkerKept /\ UNCHANGED <<tear, proc, ep>> /\ Calm

At(pc) == boot.pc = pc /\ boot.checked /\ WorkerKept /\ UNCHANGED tear
NextModel(pc, next) == IF boot.i < Len(Models) THEN Boot(pc, boot.i + 1) ELSE Boot(next, 1)

reserve_daemon ==
  /\ At("reserve") /\ UNCHANGED proc
  /\ \/ Boot("families", 1) /\ ep' = [ep EXCEPT !["daemon"] = "held"] /\ Calm
     \/ Failing /\ UNCHANGED ep /\ Fault("bind")

acquire_family ==
  /\ At("families") /\ UNCHANGED proc
  /\ \/ NextModel("families", "create") /\ ep' = [ep EXCEPT ![Models[boot.i]] = "held"] /\ Calm
     \/ Failing /\ UNCHANGED ep /\ Fault("bind")

create_cluster ==
  /\ At("create") /\ UNCHANGED <<proc, ep>> /\ Calm
  /\ boot' = [boot EXCEPT !.pc = "enter", !.checked = FALSE, !.cluster = TRUE]

enter_cluster ==
  /\ At("enter") /\ UNCHANGED <<proc, ep>> /\ Calm
  /\ Boot("daemon", 1)

(* XpoolCluster.start: a process that cannot be started has its endpoint   *)
(* released all the same.                                                  *)
start_daemon ==
  /\ At("daemon") /\ ep' = [ep EXCEPT !["daemon"] = "released"]
  /\ \/ Boot("health", 1) /\ Goes("daemon", "up") /\ Calm
     \/ Failing /\ UNCHANGED proc /\ Fault("spawn")

(* A wait ends when a process has exited, at its deadline, or with what it *)
(* waits for; otherwise it goes round.                                     *)
Wait(owners, ready, Done) ==
  /\ UNCHANGED <<proc, ep>>
  /\ LET lost == \E x \in owners : ~Runs(x) IN
     \/ lost /\ Failing /\ Calm
     \/ ~lost /\ Failing /\ Fault("timeout")
     \/ ~lost /\ ready /\ Done /\ Calm
     \/ ~lost /\ boot' = [boot EXCEPT !.checked = FALSE] /\ Calm

wait_for_daemon_health ==
  /\ At("health")
  /\ Wait({"daemon"}, ep["daemon"] = "released",
          boot' = [boot EXCEPT !.pc = "agents", !.checked = FALSE, !.healthy = TRUE])

start_agents ==
  /\ At("agents") /\ UNCHANGED ep
  /\ \/ Boot("register", 1) /\ Goes("agent", "up") /\ Calm
     \/ Failing /\ UNCHANGED proc /\ Fault("spawn")

wait_for_agent_registrations ==
  At("register") /\ Wait({"daemon", "agent"}, TRUE, Boot("servers", 1))

(* XpoolCluster.close, called for a startup that has failed or by retire.  *)
CloseCluster == tear' = [tear EXCEPT !.pc = IF @ = "none" THEN "running" ELSE @, !.sealed = TRUE]

roll_back_cluster ==
  /\ boot.pc = "rollback" /\ WorkerKept /\ UNCHANGED <<proc, ep>> /\ Calm
  /\ CloseCluster /\ Boot("rolling", 1)

(* An endpoint whose daemon was never healthy is taken back here.          *)
finish_rollback ==
  /\ boot.pc = "rolling" /\ tear.pc = "closed" /\ WorkerKept /\ UNCHANGED <<tear, proc>> /\ Calm
  /\ Boot("failed", 1)
  /\ ep' = [ep EXCEPT !["daemon"] = IF @ = "released" /\ ~boot.healthy THEN "held" ELSE @]

start_server ==
  /\ At("servers")
  /\ LET s == Models[boot.i] IN
     \/ Fault("timeout") /\ Failing /\ UNCHANGED <<proc, ep>>
     \/ /\ ep' = [ep EXCEPT ![s] = "released"]
        /\ \/ NextModel("servers", "ready") /\ Goes(s, "up") /\ Calm
           \/ Failing /\ UNCHANGED proc /\ Fault("spawn")

(* Every process lives, every server is healthy and the System is ready.   *)
wait_for_readiness ==
  At("ready") /\ Wait(Processes, \A e \in Endpoints : ep[e] = "released", Boot("done", 1))

launch_resources ==
  \/ check_startup_active \/ reserve_daemon \/ acquire_family \/ create_cluster \/ enter_cluster
  \/ start_daemon \/ wait_for_daemon_health \/ start_agents \/ wait_for_agent_registrations
  \/ roll_back_cluster \/ finish_rollback \/ start_server \/ wait_for_readiness

-----------------------------------------------------------------------------
(* The caller: start_async, its cancellation, and close.                   *)

begin_startup ==
  /\ caller = "idle" /\ boot.pc = "off" /\ ~op.sealed /\ ~op.closed
  /\ caller' = "starting" /\ Boot("reserve", 1)
  /\ root' = [root EXCEPT !.scope = "registered"]
  /\ UNCHANGED <<op, tear, proc, ep>> /\ Calm

started ==
  /\ caller = "starting" /\ boot.pc = "done" /\ caller' = "up"
  /\ UNCHANGED <<boot, op, tear, proc, ep, root>> /\ Calm

(* begin_close: the owner is sealed, then the cluster it has by then; the  *)
(* operation is dispatched.                                                *)
seal ==
  /\ \/ caller \in {"idle", "up"} /\ Calm
     \/ caller = "starting" /\ boot.pc = "failed" /\ Calm
     \/ caller = "starting" /\ boot.pc \notin {"failed", "done"} /\ Fault("cancel")
  /\ caller' = "sealing" /\ op' = [op EXCEPT !.sealed = TRUE]
  /\ UNCHANGED <<boot, tear, proc, ep, root>>

dispatch_close ==
  /\ caller = "sealing" /\ caller' = "closing" /\ Calm
  /\ tear' = [tear EXCEPT !.sealed = @ \/ boot.cluster]
  /\ op' = [op EXCEPT !.pc = "join"]
  /\ UNCHANGED <<boot, proc, ep, root>>

close_returns ==
  /\ caller = "closing" /\ op.pc \in {"closed", "raised"} /\ caller' = "ended"
  /\ UNCHANGED <<boot, op, tear, proc, ep, root>> /\ Calm

ServingCaller == begin_startup \/ started \/ seal \/ dispatch_close \/ close_returns

-----------------------------------------------------------------------------
(* The close operation of the owner.                                       *)

OpKept == UNCHANGED <<caller, boot>>
Ended == boot.pc \in {"off", "done", "failed"}

(* Mutant: the close operation does not wait for the startup worker.       *)
StartupIgnored == TRUE

(* The worker's verdict is left to its waiter; its end is awaited.         *)
startup_joined == Ended

join_startup ==
  /\ op.pc = "join" /\ startup_joined
  /\ op' = [op EXCEPT !.pc = "servers"]
  /\ OpKept /\ UNCHANGED <<tear, proc, ep, root>> /\ Calm

Started == {s \in ModelServers : proc[s] # "none"}

(* SglangServerProcess.close: one SIGTERM to the leader before the         *)
(* deadline, and then only waiting.                                        *)
notify_server(s) ==
  /\ op.pc = "servers" /\ Runs(s) /\ s \notin op.asked /\ ~op.expired
  /\ op' = [op EXCEPT !.asked = @ \cup {s}]
  /\ proc' = [proc EXCEPT ![s] = "term"]
  /\ OpKept /\ UNCHANGED <<tear, ep, root>> /\ Calm

server_gone(s) ==
  /\ op.pc = "servers" /\ s \in Started \ op.gone /\ ~Runs(s)
  /\ op' = [op EXCEPT !.gone = @ \cup {s}]
  /\ OpKept /\ UNCHANGED <<tear, proc, ep, root>> /\ Calm

(* A close that raised keeps the daemon and every reservation.             *)
servers_closed ==
  /\ op.pc = "servers" /\ op.gone = Started
  /\ \/ op' = [op EXCEPT !.pc = "cluster"] /\ Calm
     \/ Started # {} /\ op' = [op EXCEPT !.pc = "raised"] /\ Fault("log")
  /\ OpKept /\ UNCHANGED <<tear, proc, ep, root>>

close_cluster ==
  /\ op.pc = "cluster" /\ Calm
  /\ IF boot.cluster THEN CloseCluster /\ op' = [op EXCEPT !.pc = "teardown"]
     ELSE UNCHANGED tear /\ op' = [op EXCEPT !.pc = "endpoints"]
  /\ OpKept /\ UNCHANGED <<proc, ep, root>>

cluster_closed ==
  /\ op.pc = "teardown" /\ tear.pc = "closed" /\ op' = [op EXCEPT !.pc = "endpoints"]
  /\ OpKept /\ UNCHANGED <<tear, proc, ep, root>> /\ Calm

(* Released endpoints are bound again; those of others are reported.       *)
classify_released_endpoints ==
  /\ op.pc = "endpoints" /\ op' = [op EXCEPT !.pc = "release"]
  /\ ep' = [e \in Endpoints |-> IF ep[e] = "released" THEN "held" ELSE ep[e]]
  /\ OpKept /\ UNCHANGED <<tear, proc, root>> /\ Calm

release_all ==
  /\ op.pc = "release" /\ op' = [op EXCEPT !.pc = "closed", !.closed = TRUE]
  /\ ep' = [e \in Endpoints |-> IF ep[e] = "held" THEN "none" ELSE ep[e]]
  /\ root' = [root EXCEPT !.scope = IF @ = "registered" THEN "complete" ELSE @]
  /\ OpKept /\ UNCHANGED <<tear, proc>> /\ Calm

retire ==
  \/ join_startup \/ servers_closed \/ close_cluster \/ cluster_closed
  \/ classify_released_endpoints \/ release_all
  \/ \E s \in ModelServers : notify_server(s) \/ server_gone(s)

-----------------------------------------------------------------------------
(* XpoolCluster.retire: SIGTERM to the daemon alone, then its clean exit   *)
(* and the end of every process group.                                     *)

notify_daemon ==
  /\ tear.pc = "running" /\ ~tear.notified /\ ~op.expired
  /\ tear' = [tear EXCEPT !.notified = TRUE]
  /\ proc' = [proc EXCEPT !["daemon"] = IF @ = "up" THEN "term" ELSE @]
  /\ UNCHANGED <<caller, boot, op, ep, root>> /\ Calm

cluster_gone ==
  /\ tear.pc = "running" /\ proc["daemon"] \in {"none", "exited"} /\ ~Runs("agent")
  /\ tear' = [tear EXCEPT !.pc = "closed"]
  /\ UNCHANGED <<caller, boot, op, proc, ep, root>> /\ Calm

(* A retirement that expires seals the task.                               *)
expiry_reported ==
  /\ op.expired /\ ~root.sealed
  /\ tear.pc = "running" \/ (op.pc = "servers" /\ op.gone # Started)
  /\ root' = [root EXCEPT !.sealed = TRUE]
  /\ UNCHANGED <<caller, boot, op, tear, proc, ep>> /\ Calm

retire_cluster == notify_daemon \/ cluster_gone \/ expiry_reported

-----------------------------------------------------------------------------
(* The processes, other users of the host, time, and the enclosing task.   *)

Outside == UNCHANGED <<caller, boot, tear>>

(* The daemon that is told to end first sees its Agents out; one that      *)
(* cannot bind cleans up and exits with a code that retirement accepts.    *)
(* An Agent ends when its daemon has gone, a server when it cannot bind.   *)
process_ends(x) ==
  /\ \/ x \in ModelServers /\ proc[x] = "term" /\ Goes(x, "exited")
     \/ x = "agent" /\ Runs(x) /\ proc["daemon"] = "term" /\ Goes(x, "exited")
     \/ x = "agent" /\ Runs(x) /\ ~Runs("daemon") /\ Goes(x, "failed")
     \/ x = "daemon" /\ proc[x] = "term" /\ ~Runs("agent") /\ Goes(x, "exited")
     \/ x = "daemon" /\ Runs(x) /\ ep[x] = "foreign" /\ ~Runs("agent") /\ Goes(x, "exited")
     \/ x \in ModelServers /\ Runs(x) /\ ep[x] = "foreign" /\ Goes(x, "failed")
  /\ Outside /\ UNCHANGED <<op, ep, root>> /\ Calm

process_crashes(x) ==
  /\ Runs(x) /\ Goes(x, "failed")
  /\ Outside /\ UNCHANGED <<op, ep, root>> /\ Fault("crash")

port_taken(e) ==
  /\ ep[e] = "released" /\ ep' = [ep EXCEPT ![e] = "foreign"]
  /\ Outside /\ UNCHANGED <<op, proc, root>> /\ Fault("port")

deadline_passes ==
  /\ (op.sealed \/ tear.sealed) /\ ~op.expired /\ op' = [op EXCEPT !.expired = TRUE]
  /\ Outside /\ UNCHANGED <<proc, ep, root>> /\ Calm

task_seals ==
  /\ ~root.sealed /\ root' = [root EXCEPT !.sealed = TRUE]
  /\ Outside /\ UNCHANGED <<op, proc, ep>> /\ Fault("seal")

ServingOutside ==
  \/ deadline_passes \/ task_seals
  \/ \E x \in Processes : process_ends(x) \/ process_crashes(x)
  \/ \E e \in Endpoints : port_taken(e)

ServingNext == launch_resources \/ ServingCaller \/ retire \/ retire_cluster \/ ServingOutside

ServingSpec == ServingInit /\ [][ServingNext]_servingVars

-----------------------------------------------------------------------------
(***************************************************************************)
(* The daemon is told to end, and the cluster is closed, only when no      *)
(* server is running: a server is a client of the Agents.  This covers the *)
(* rollback inside XpoolCluster.start, which runs on the startup worker,   *)
(* and a close that begins while servers are being started.                *)
(***************************************************************************)
ServersFirst == tear.notified \/ tear.pc = "closed" => \A s \in ModelServers : ~Runs(s)

(***************************************************************************)
(* An endpoint that is held is not one that a process of ours may be       *)
(* using, and one that is free again has no process left.                  *)
(***************************************************************************)
EndpointsLast == \A e \in Endpoints : ep[e] \in {"none", "held"} => ~Runs(e)

(***************************************************************************)
(* A closed owner owns nothing: the worker has ended, no process runs, no  *)
(* endpoint is held, and only then is the task's scope complete.           *)
(***************************************************************************)
ClosedOwnsNothing ==
  /\ op.closed => /\ Ended /\ \A x \in Processes : ~Runs(x)
                  /\ \A e \in Endpoints : ep[e] \in {"none", "foreign"}
  /\ root.scope = "complete" => op.closed
=============================================================================
