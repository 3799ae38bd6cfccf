------------------------------- MODULE Agents -------------------------------
(***************************************************************************)
(* The Agent process: its control loop, the reports it owes the daemon,    *)
(* coordinated shutdown, and what it does with an exception.  An Agent's   *)
(* heartbeat thread leaves the newest daemon snapshot in one slot, inbox;  *)
(* the main thread acts on view, the phase of the last snapshot it took.   *)
(*                                                                         *)
(* pc is where the main thread stands: off, admit, loop (run_control_loop),*)
(* form (inside the registration call, which forms the plan), join and     *)
(* finalize (inside the NVSHMEM collectives), shut (shutdown_fabric),      *)
(* release (close_role and exit), retained (the loop that never returns),  *)
(* exited, crashed.  sent is the report being retried, tries what is left  *)
(* of its attempts.                                                        *)
(***************************************************************************)
EXTENDS ControlPlane

CONSTANT Attempts   \* FABRIC_REPORT_RETRY_ATTEMPTS

ASSUME AttemptsAssumption == Attempts \in Nat \ {0}

VARIABLES
  agent,    \* the Agent processes
  late,     \* reports the daemon took in but has not processed yet
  broken    \* the generation whose device-side failure word is published

agentVars == <<agent, late, broken>>

Idle == [pc |-> "off", registered |-> FALSE, plan |-> 0, view |-> "none",
         inbox |-> None, report |-> None, sent |-> None, tries |-> 0,
         enriching |-> FALSE, failed |-> FALSE, handling |-> FALSE, asked |-> FALSE,
         native |-> "empty", arenas |-> "none"]

AgentProcs == {p \in Procs : slot[p] \in Pes}
Gone(pc) == [Idle EXCEPT !.pc = pc]

AgentsInit ==
  /\ agent = [p \in AgentProcs |-> Idle]
  /\ late = {} /\ broken = 0

Snapshot == [id |-> fabric.id, phase |-> fabric.phase]
Reported(a) == IF a.report = None THEN "none" ELSE a.report.phase
PreJoin(a) == Reported(a) \in {"none", "join_ready"}
Retiring(a) == a.view \in RetiringPhases

-----------------------------------------------------------------------------
(***************************************************************************)
(* An exception.  inAdvance: it passes the handler of                      *)
(* advance_fabric_lifecycle or poll_fabric_health, which first reports the *)
(* local control failure.  run() then does the same for a participant past *)
(* JOIN_READY and tries shutdown_fabric once; a participant that never     *)
(* joined releases its resources; everything else is retained.             *)
(***************************************************************************)
Raised(a, inAdvance) ==
  LET second == ~PreJoin(a) /\ ~a.handling /\ a.pc # "release"
      enrich == /\ a.report # None /\ a.plan # 0 /\ ~a.report.control
                /\ inAdvance \/ second
      target == IF a.pc \in {"release", "retained"} THEN "retained"
                ELSE IF PreJoin(a) THEN "release"
                ELSE IF second THEN "shut"
                ELSE "retained"
  IN  [a EXCEPT !.pc = target, !.failed = TRUE, !.handling = @ \/ second, !.asked = FALSE,
                !.sent = IF enrich THEN [a.report EXCEPT !.control = TRUE] ELSE None,
                !.tries = IF enrich THEN Attempts ELSE 0, !.enriching = enrich]

Raise(p, inAdvance) ==
  /\ agent' = [agent EXCEPT ![p] = Raised(agent[p], inAdvance)]
  /\ stopping' = stopping \cup {p}

(* report_fabric_phase up to its first attempt, from the record a.         *)
Sending(a, phase) ==
  [a EXCEPT !.sent = IF a.report = None THEN Report(phase, FALSE, FALSE)
                     ELSE [a.report EXCEPT !.phase = phase],
            !.tries = Attempts, !.enriching = FALSE]

Set(p, a) == agent' = [agent EXCEPT ![p] = a]

Exit(p, pc) ==
  /\ alive' = alive \ {p}
  /\ Set(p, Gone(pc))

Local1 == UNCHANGED <<alive, stopping>>
Daemon == UNCHANGED <<startups, book, broker, leases, fabric, forming, generations, sealed, closed>>
Quiet == UNCHANGED <<late, broken>>
OnlyAgent == Daemon /\ Local1 /\ Quiet /\ NoEvent

-----------------------------------------------------------------------------
(* Startup: __init__, the registration call, plan acquisition.             *)

(* The operator starts an Agent per place.  A second one for a place is an *)
(* event, unless it takes the place of a process that has crashed.         *)
Unplanned(p) ==
  p \in Spares /\ \A q \in AgentProcs : slot[q] = slot[p] => agent[q].pc # "crashed"

StartAgent(p) ==
  /\ agent[p].pc = "off"
  /\ alive' = alive \cup {p}
  /\ Set(p, [Idle EXCEPT !.pc = "admit"])
  /\ IF Unplanned(p) THEN Event("replace") ELSE NoEvent
  /\ Daemon /\ Quiet /\ UNCHANGED stopping

AdmitStartup(p) ==
  /\ agent[p].pc = "admit"
  /\ admit_agent_startup(p)
  /\ IF AdmitOutcome(p) = "ok"
       THEN Set(p, [agent[p] EXCEPT !.pc = "loop"]) /\ UNCHANGED alive
       ELSE Exit(p, "exited")
  /\ Quiet /\ NoEvent /\ UNCHANGED stopping

InLoop(p) == agent[p].pc = "loop" /\ agent[p].sent = None
Running(p) == InLoop(p) /\ p \notin stopping

RegisterAgent(p) ==
  /\ Running(p) /\ ~agent[p].registered
  /\ register_agent(p)
  /\ IF RegisterOutcome(p) = "ok"
       THEN Set(p, [agent[p] EXCEPT !.pc = "form"]) /\ UNCHANGED stopping
     ELSE IF RegisterOutcome(p) = "not_ready" THEN UNCHANGED <<agent, stopping>>
     ELSE Raise(p, FALSE)
  /\ Quiet /\ NoEvent /\ UNCHANGED alive

(* The registration call returns once ensure_fabric_plan has.              *)
Registered(a) == [a EXCEPT !.pc = "loop", !.registered = TRUE]

FormPlan(p) ==
  /\ agent[p].pc = "form" /\ forming = None
  /\ capture_membership(p)
  /\ IF FormationEnds THEN Set(p, Registered(agent[p])) ELSE UNCHANGED agent
  /\ Local1 /\ Quiet /\ NoEvent

AcquirePlan(p) ==
  /\ Running(p) /\ agent[p].registered /\ agent[p].plan = 0
  /\ fabric.id # 0
  /\ Set(p, [agent[p] EXCEPT !.plan = fabric.id, !.view = "preparing_join"])
  /\ OnlyAgent

-----------------------------------------------------------------------------
(* Heartbeats: the worker thread, and the main thread taking the snapshot. *)

Beating(a) == a.registered /\ a.pc \in {"loop", "join", "finalize", "shut", "retained"}

Heartbeat(p) ==
  /\ Beating(agent[p])
  /\ heartbeat(p)
  /\ \/ agent[p].plan = 0
     \/ ~book[slot[p]].fresh
     \/ Snapshot # [id |-> agent[p].plan, phase |-> agent[p].view]
  /\ Set(p, [agent[p] EXCEPT !.inbox = Snapshot])
  /\ Local1 /\ Quiet /\ NoEvent

(* A snapshot of another generation is an error.                           *)
Foreign(a) == a.plan # 0 /\ a.inbox.id # a.plan

handle_heartbeat_response(a) ==
  [a EXCEPT !.inbox = None, !.view = a.inbox.phase]

TakeSnapshot(p) ==
  LET a == agent[p] IN
  /\ a.pc \in {"loop", "shut", "retained"} /\ a.sent = None /\ a.inbox # None
  /\ a.pc = "loop" => p \notin stopping
  /\ IF Foreign(a)
       THEN /\ stopping' = stopping \cup {p}
            /\ Set(p, Raised([a EXCEPT !.inbox = None], FALSE))
       ELSE /\ Set(p, handle_heartbeat_response(a))
            /\ UNCHANGED stopping
  /\ Daemon /\ Quiet /\ NoEvent /\ UNCHANGED alive

-----------------------------------------------------------------------------
(***************************************************************************)
(* Reports.  Delivered: the daemon answers.  The events: the answer is     *)
(* lost, the request is lost, or the client gives up on a request that the *)
(* daemon has taken in and processes later.                                *)
(***************************************************************************)
Acknowledged(a) ==
  [a EXCEPT !.report = a.sent, !.sent = None, !.tries = 0,
            !.pc = IF a.sent.phase = "joining" /\ a.pc = "loop" /\ ~a.enriching THEN "join" ELSE @,
            !.native = IF a.sent.phase = "joining" /\ a.pc = "loop" /\ ~a.enriching THEN "joining" ELSE @]

GiveUp(p) ==
  IF agent[p].enriching
    THEN Set(p, [agent[p] EXCEPT !.sent = None, !.tries = 0]) /\ UNCHANGED stopping
    ELSE Raise(p, TRUE)

Retry(p) ==
  IF agent[p].tries > 1
    THEN Set(p, [agent[p] EXCEPT !.tries = @ - 1]) /\ UNCHANGED stopping
    ELSE GiveUp(p)

ReportDelivered(p) ==
  LET a == agent[p] IN
  /\ a.sent # None
  /\ record_fabric_participant(p, a.plan, a.sent)
  /\ IF ParticipantOutcome(p, a.plan, a.sent).ok
       THEN Set(p, Acknowledged(a)) /\ UNCHANGED stopping
       ELSE GiveUp(p)
  /\ Quiet /\ NoEvent /\ UNCHANGED alive

ReportAnswerLost(p) ==
  LET a == agent[p] IN
  /\ a.sent # None
  /\ Event("lost")
  /\ record_fabric_participant(p, a.plan, a.sent)
  /\ Retry(p)
  /\ Quiet /\ UNCHANGED alive

ReportLost(p) ==
  /\ agent[p].sent # None
  /\ Event("lost")
  /\ Retry(p)
  /\ Daemon /\ Quiet /\ UNCHANGED alive

ReportDelayed(p) ==
  LET a == agent[p] IN
  /\ a.sent # None
  /\ Event("delayed")
  /\ late' = late \cup {[by |-> p, id |-> a.plan, report |-> a.sent]}
  /\ Retry(p)
  /\ Daemon /\ UNCHANGED <<broken, alive>>

LateReport ==
  \E m \in late :
    /\ late' = late \ {m}
    /\ record_fabric_participant(m.by, m.id, m.report)
    /\ UNCHANGED <<agent, broken, alive, stopping>> /\ NoEvent

-----------------------------------------------------------------------------
(* advance_fabric_lifecycle.                                               *)

Advancing(p) ==
  LET a == agent[p] IN
  /\ a.sent = None /\ a.plan # 0
  /\ \/ Running(p)
     \/ a.pc = "shut" /\ Retiring(a)

At(p, view, phases) ==
  /\ Advancing(p) /\ agent[p].view = view
  /\ Reported(agent[p]) \in phases

(* prepare_fabric_join of an FfnAgent materialises its weights.            *)
PrepareFfn(p) ==
  /\ slot[p] \in Ffn
  /\ At(p, "preparing_join", {"none"})
  /\ Set(p, Sending(agent[p], "join_ready"))
  /\ OnlyAgent

(* An AtnAgent creates and publishes an arena for every registered local   *)
(* rank, and is ready when none is missing.                                *)
PrepareAtn(p) ==
  LET registered == {r \in Local(slot[p]) : book[r] # None}
      b == [agent[p] EXCEPT !.arenas = "dormant"]
  IN
  /\ slot[p] \in Atn
  /\ At(p, "preparing_join", {"none"})
  /\ registered # {}
  /\ upsert_atnagent_transport_arenas(p, registered)
  /\ Set(p, IF registered = Local(slot[p]) THEN Sending(b, "join_ready") ELSE b)
  /\ Local1 /\ Quiet /\ NoEvent

Joining(p) ==
  /\ At(p, "joining", {"join_ready"})
  /\ Set(p, Sending(agent[p], "joining"))
  /\ OnlyAgent

(* The NVSHMEM collectives return when every PE has entered them.          *)
Entered(p, states) ==
  \A pe \in Pes : LET q == fabric.agents[pe] IN q \in alive /\ agent[q].native \in states

Joined(p) ==
  /\ agent[p].pc = "join"
  /\ fabric.id = agent[p].plan
  /\ Entered(p, {"joining", "joined", "active"})
  /\ Set(p, Sending([agent[p] EXCEPT !.pc = "loop", !.native = "joined"], "joined"))
  /\ OnlyAgent

PrepareExecution(p) ==
  /\ At(p, "preparing_execution", {"joined"})
  /\ Set(p, Sending(agent[p], "execution_ready"))
  /\ OnlyAgent

Activate(p) ==
  /\ At(p, "activating", {"execution_ready"})
  /\ Set(p, Sending([agent[p] EXCEPT !.native = "active",
                                     !.arenas = IF @ = "dormant" THEN "resident" ELSE @], "active"))
  /\ OnlyAgent

(* quiesce_fabric: an AtnAgent closes lease admission, waits for the live  *)
(* leaseholders, and drains its Transport Resident.                        *)
QuiesceAtn(p) ==
  LET b == [agent[p] EXCEPT !.arenas = "drained"] IN
  /\ slot[p] \in Atn
  /\ \/ At(p, "quiescing", {"active"})
     \/ At(p, "aborting", {"joined", "execution_ready", "active"}) /\ agent[p].failed
  /\ quiesce_atnagent_transport_leases(p)
  /\ IF LeasesInUse(slot[p]) = {} THEN Set(p, Sending(b, "quiesced")) ELSE UNCHANGED agent
  /\ Local1 /\ Quiet /\ NoEvent

QuiesceFfn(p) ==
  /\ slot[p] \in Ffn
  /\ \/ At(p, "quiescing", {"active"})
     \/ At(p, "aborting", {"joined", "execution_ready", "active"}) /\ agent[p].failed
  /\ Set(p, Sending(agent[p], "quiesced"))
  /\ OnlyAgent

DrainAsync(p) ==
  /\ \/ At(p, "draining", {"quiesced"})
     \/ At(p, "aborting", {"quiesced"}) /\ agent[p].failed
  /\ Set(p, Sending([agent[p] EXCEPT !.native = "draining"], "draining"))
  /\ OnlyAgent

Drained(p) ==
  /\ \/ At(p, "draining", {"draining"})
     \/ At(p, "aborting", {"draining"}) /\ agent[p].failed
  /\ Set(p, Sending([agent[p] EXCEPT !.native = "drained"], "drained"))
  /\ OnlyAgent

FinalizeBegin(p) ==
  /\ At(p, "finalizing", {"drained"})
  /\ Set(p, [agent[p] EXCEPT !.native = "finalizing", !.pc = "finalize"])
  /\ OnlyAgent

FinalizeEnd(p) ==
  /\ agent[p].pc = "finalize"
  /\ fabric.id = agent[p].plan
  /\ Entered(p, {"finalizing", "closed"})
  /\ Set(p, Sending([agent[p] EXCEPT !.native = "closed",
                                     !.pc = IF p \in stopping THEN "shut" ELSE "loop"],
                     "finalized"))
  /\ OnlyAgent

(* The ABORTING case fails the Agent before it cleans up.                  *)
AbortObserved(p) ==
  /\ Advancing(p) /\ agent[p].view = "aborting" /\ ~agent[p].failed
  /\ Set(p, [agent[p] EXCEPT !.failed = TRUE])
  /\ stopping' = stopping \cup {p}
  /\ Daemon /\ Quiet /\ NoEvent /\ UNCHANGED alive

(* The STOPPED case: a finalized participant releases its resources, a     *)
(* failed one leaves through os._exit.                                     *)
StoppedNormally(p) ==
  /\ At(p, "stopped", {"finalized"})
  /\ Set(p, [agent[p] EXCEPT !.plan = 0, !.view = "none", !.report = None, !.pc = "release"])
  /\ OnlyAgent

StoppedFailed(p) ==
  LET a == agent[p] IN
  /\ \/ Advancing(p)
     \/ a.pc = "retained" /\ a.sent = None
  /\ a.view = "stopped" /\ a.failed
  /\ Reported(a) \notin {"none", "finalized"}
  /\ Exit(p, "exited")
  /\ Daemon /\ Quiet /\ NoEvent /\ UNCHANGED stopping

(* poll_fabric_health.                                                     *)
ReportInvocationFailure(p) ==
  LET a == agent[p] IN
  /\ a.sent = None /\ a.plan # 0 /\ broken = a.plan
  /\ \/ Running(p)
     \/ a.pc = "shut" /\ Retiring(a) /\ ~a.failed
  /\ Reported(a) \notin {"none", "join_ready", "joining", "finalized"} /\ ~a.report.invocation
  /\ Set(p, [a EXCEPT !.sent = [a.report EXCEPT !.invocation = TRUE],
                      !.tries = Attempts, !.enriching = FALSE])
  /\ OnlyAgent

-----------------------------------------------------------------------------
(* shutdown_fabric and release.                                            *)

BeginShutdown(p) ==
  /\ InLoop(p) /\ p \in stopping
  /\ Set(p, [agent[p] EXCEPT !.pc = IF @ = "loop" /\ agent[p].plan = 0 THEN "release" ELSE "shut",
                             !.asked = FALSE])
  /\ OnlyAgent

AskQuiesce(p) ==
  LET a == agent[p] IN
  /\ a.pc = "shut" /\ a.sent = None /\ ~a.asked /\ a.plan # 0
  /\ request_fabric_quiesce(p, a.plan)
  /\ IF QuiesceAccepted(p, a.plan)
       THEN Set(p, [a EXCEPT !.asked = TRUE]) /\ UNCHANGED stopping
       ELSE Raise(p, FALSE)
  /\ Quiet /\ NoEvent /\ UNCHANGED alive

LeavePreJoin(p) ==
  LET a == agent[p] IN
  /\ a.pc = "shut" /\ a.sent = None /\ a.plan # 0
  /\ a.asked \/ Retiring(a)
  /\ PreJoin(a)
  /\ Set(p, [a EXCEPT !.pc = "release"])
  /\ OnlyAgent

(* close_role: an AtnAgent with published arenas waits for its             *)
(* leaseholders before it destroys them.                                   *)
Published(p) == slot[p] \in Atn /\ agent[p].arenas # "none" /\ agent[p].registered

ReleaseArenas(p) ==
  /\ agent[p].pc = "release" /\ agent[p].sent = None /\ Published(p)
  /\ quiesce_atnagent_transport_leases(p)
  /\ IF LeasesInUse(slot[p]) = {}
       THEN Exit(p, "exited")
       ELSE UNCHANGED <<agent, alive>>
  /\ Quiet /\ NoEvent /\ UNCHANGED stopping

ReleaseRole(p) ==
  /\ agent[p].pc = "release" /\ agent[p].sent = None /\ ~Published(p)
  /\ Exit(p, "exited")
  /\ Daemon /\ Quiet /\ NoEvent /\ UNCHANGED stopping

-----------------------------------------------------------------------------
(***************************************************************************)
(* Faults of an Agent: a crash, a native call that throws, a wait that     *)
(* runs into its deadline, a device-side failure of an invocation.         *)
(***************************************************************************)
CrashAgent(p) ==
  /\ Event("crash") /\ p \in alive
  /\ Exit(p, "crashed")
  /\ Daemon /\ Quiet /\ UNCHANGED stopping

NativeFailure(p) ==
  LET a == agent[p] IN
  /\ Event("native")
  /\ \/ Advancing(p) /\ a.view # "stopped"
     \/ a.pc \in {"join", "finalize", "release"} /\ a.sent = None
  /\ Set(p, Raised([a EXCEPT !.native = IF a.pc = "join" THEN "closed" ELSE @], a.pc # "release"))
  /\ stopping' = stopping \cup {p}
  /\ Daemon /\ Quiet /\ UNCHANGED alive

InvocationFails ==
  /\ Event("device")
  /\ fabric.id # 0 /\ broken = 0 /\ fabric.phase = "executable"
  /\ broken' = fabric.id
  /\ Daemon /\ Local1 /\ UNCHANGED <<agent, late>>

(* A pass of the main thread takes the snapshot and then does its work.    *)
MainStep(p) ==
  \/ StartAgent(p) \/ AdmitStartup(p) \/ RegisterAgent(p) \/ FormPlan(p) \/ AcquirePlan(p)
  \/ ReportDelivered(p)
  \/ PrepareFfn(p) \/ PrepareAtn(p) \/ Joining(p) \/ Joined(p)
  \/ PrepareExecution(p) \/ Activate(p) \/ QuiesceAtn(p) \/ QuiesceFfn(p)
  \/ DrainAsync(p) \/ Drained(p) \/ FinalizeBegin(p) \/ FinalizeEnd(p)
  \/ AbortObserved(p) \/ StoppedNormally(p) \/ StoppedFailed(p)
  \/ ReportInvocationFailure(p)
  \/ BeginShutdown(p) \/ AskQuiesce(p) \/ LeavePreJoin(p)
  \/ ReleaseArenas(p) \/ ReleaseRole(p)

AgentStep(p) == MainStep(p) \/ TakeSnapshot(p) \/ Heartbeat(p)

AgentFault(p) ==
  \/ ReportAnswerLost(p) \/ ReportLost(p) \/ ReportDelayed(p)
  \/ CrashAgent(p) \/ NativeFailure(p)
=============================================================================
