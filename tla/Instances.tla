----------------------------- MODULE Instances ------------------------------
(***************************************************************************)
(* An Instance rank: the SGLang worker process from the registration in    *)
(* its memory-pool hook to its detach.  pc is where its main thread        *)
(* stands: off, register, form (inside the registration call), wait (for   *)
(* an executable Fabric), acquire, attach, init, ready (waiting for System *)
(* Ready), serving, detach, deregister, held (a failed worker that waits   *)
(* for its parent), exited, crashed.  Its heartbeat thread only fails it.  *)
(* The serving parent ends a worker that has failed.                       *)
(***************************************************************************)
EXTENDS ControlPlane

VARIABLE inst   \* the Instance-rank processes

InstanceProcs == {p \in Procs : slot[p] \in Ranks}
NoInstance == [pc |-> "off", registered |-> FALSE, plan |-> 0, arena |-> None,
               failed |-> FALSE]

InstancesInit == inst = [p \in InstanceProcs |-> NoInstance]

SetInstance(p, i) == inst' = [inst EXCEPT ![p] = i]
At0(p, pc) == inst[p].pc = pc

DaemonKept == UNCHANGED <<startups, book, broker, leases, fabric, forming, generations, sealed, closed>>
Kept == UNCHANGED <<alive, stopping, events>>

StartInstance(p) ==
  /\ At0(p, "off")
  /\ alive' = alive \cup {p}
  /\ SetInstance(p, [NoInstance EXCEPT !.pc = "register"])
  /\ DaemonKept /\ UNCHANGED <<stopping, events>>

(* Failing in a startup hook detaches what was attached, and deregisters.  *)
Failing(i) == [i EXCEPT !.failed = TRUE, !.pc = "detach"]

RegisterInstance(p) ==
  /\ At0(p, "register")
  /\ register_instance(p)
  /\ SetInstance(p, IF RegisterInstanceOutcome(p) = "ok" THEN [inst[p] EXCEPT !.pc = "form"]
                    ELSE Failing(inst[p]))
  /\ Kept

InstanceRegistered(i) == [i EXCEPT !.pc = "wait", !.registered = TRUE]

FormPlanForInstance(p) ==
  /\ At0(p, "form") /\ forming = None
  /\ capture_membership(p)
  /\ IF FormationEnds THEN SetInstance(p, InstanceRegistered(inst[p])) ELSE UNCHANGED inst
  /\ Kept

(* The heartbeat thread: it fails the worker when the generation is lost,  *)
(* or when the daemon no longer knows this registration.                   *)
InstanceBeats(p) ==
  /\ inst[p].registered /\ ~inst[p].failed
  /\ inst[p].pc \notin {"deregister", "off", "exited", "crashed"}
  /\ \/ ~book[slot[p]].fresh
     \/ fabric.phase \in {"aborting", "stopped"}
  /\ heartbeat(p)
  /\ SetInstance(p, [inst[p] EXCEPT !.failed = fabric.phase \in {"aborting", "stopped"}])
  /\ Kept

WaitForExecutable(p) ==
  /\ At0(p, "wait")
  /\ \/ /\ fabric.phase = "executable"
        /\ SetInstance(p, [inst[p] EXCEPT !.pc = "acquire", !.plan = fabric.id])
     \/ /\ fabric.phase \in RetiringPhases
        /\ SetInstance(p, Failing(inst[p]))
  /\ DaemonKept /\ Kept

AcquireArena(p) ==
  /\ At0(p, "acquire")
  /\ acquire_instance_transport_arena(p)
  /\ SetInstance(p, [inst[p] EXCEPT !.pc = "attach"])
  /\ Kept

(* The acquisition is retried until its deadline: it fails if the daemon   *)
(* keeps refusing.                                                         *)
AcquireFails(p) ==
  /\ At0(p, "acquire")
  /\ fabric.phase # "executable"
  /\ SetInstance(p, Failing(inst[p]))
  /\ DaemonKept /\ Kept

AttachArena(p) ==
  /\ At0(p, "attach")
  /\ SetInstance(p, [inst[p] EXCEPT !.pc = "init", !.arena = leases[slot[p]]])
  /\ DaemonKept /\ Kept

PublishInitialized(p) ==
  /\ At0(p, "init")
  /\ IF InitializedAccepted(p, inst[p].plan)
       THEN /\ publish_instance_initialized(p, inst[p].plan)
            /\ SetInstance(p, [inst[p] EXCEPT !.pc = "ready"])
       ELSE /\ DaemonKept
            /\ SetInstance(p, [inst[p] EXCEPT !.failed = TRUE, !.pc = "held"])
  /\ Kept

WaitForReady(p) ==
  /\ At0(p, "ready")
  /\ \/ Ready /\ SetInstance(p, [inst[p] EXCEPT !.pc = "serving"])
     \/ /\ ~Ready /\ fabric.phase \notin {"none", "joining", "executable"}
        /\ SetInstance(p, [inst[p] EXCEPT !.failed = TRUE, !.pc = "held"])
  /\ DaemonKept /\ Kept

(* The operator ends the service: the event loop returns and the host      *)
(* resources are released.                                                 *)
EndService(p) ==
  /\ At0(p, "serving")
  /\ SetInstance(p, [inst[p] EXCEPT !.pc = "detach"])
  /\ DaemonKept /\ Kept

(* deregister_runtime: native detach, then the end of the heartbeats and   *)
(* the deregistration.                                                     *)
DetachArena(p) ==
  /\ At0(p, "detach")
  /\ SetInstance(p, [inst[p] EXCEPT !.pc = "deregister", !.arena = None])
  /\ DaemonKept /\ Kept

ExitInstance(p, pc) ==
  /\ alive' = alive \ {p}
  /\ SetInstance(p, [NoInstance EXCEPT !.pc = pc])

Deregister(p) ==
  /\ At0(p, "deregister")
  /\ IF inst[p].registered /\ Owns(p) THEN deregister_instance(p) ELSE DaemonKept
  /\ IF inst[p].failed
       THEN SetInstance(p, [inst[p] EXCEPT !.pc = "held", !.registered = FALSE]) /\ UNCHANGED alive
       ELSE ExitInstance(p, "exited")
  /\ UNCHANGED <<stopping, events>>

(* The serving parent kills the workers of an Instance that has failed.    *)
KillFailed(p) ==
  /\ p \in alive /\ inst[p].failed
  /\ ExitInstance(p, "exited")
  /\ DaemonKept /\ UNCHANGED <<stopping, events>>

CrashInstance(p) ==
  /\ p \in alive /\ Event("crash")
  /\ ExitInstance(p, "crashed")
  /\ DaemonKept /\ UNCHANGED stopping

(* A worker step whose release fails keeps the attachment.                 *)
DetachFails(p) ==
  /\ At0(p, "detach") /\ Event("native")
  /\ SetInstance(p, [inst[p] EXCEPT !.failed = TRUE, !.pc = "held"])
  /\ DaemonKept /\ UNCHANGED <<alive, stopping>>

WorkerStep(p) ==
  \/ StartInstance(p) \/ RegisterInstance(p) \/ FormPlanForInstance(p)
  \/ WaitForExecutable(p) \/ AcquireArena(p) \/ AcquireFails(p)
  \/ AttachArena(p) \/ PublishInitialized(p) \/ WaitForReady(p)
  \/ DetachArena(p) \/ Deregister(p)

InstanceStep(p) == WorkerStep(p) \/ InstanceBeats(p) \/ KillFailed(p)

InstanceFault(p) == CrashInstance(p) \/ DetachFails(p)
=============================================================================
