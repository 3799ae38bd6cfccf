---------------------------- MODULE ControlPlane ----------------------------
(***************************************************************************)
(* The daemon's ControlPlane: startup admission, the registration book,    *)
(* the transport broker, Fabric plan formation, the watchdog and close.    *)
(* A handler is an operator over the daemon's variables; the module of the *)
(* caller (Agents, Instances) conjoins it with what the caller does.       *)
(*                                                                         *)
(* The code probes process liveness outside the domain lock, between two   *)
(* locked regions that compare identities.  A process never comes back to  *)
(* life, so the probe's answer can only be out of date in one direction:   *)
(* acting a little later on a death.  The handlers below are atomic for    *)
(* that reason, except plan formation, whose capture, validation and       *)
(* commit are separate steps.                                              *)
(***************************************************************************)
EXTENDS FabricGeneration

CONSTANTS
  Atn, Ffn,        \* the configured attention and FFN devices
  device,          \* the attention device of an Instance rank
  slot,            \* the configured place a process is started for
  Spares,          \* the Agent processes started as second ones for a place
  MaxGenerations,  \* bound: generations formed in a behaviour
  Kinds,           \* the kinds of events that may happen
  MaxEvents        \* bound: faults and operator's actions in a behaviour

(***************************************************************************)
(* What the environment may do: close the deployment, signal an Agent,     *)
(* start a second Agent process for a place, crash a process, make a       *)
(* native call throw, fail an invocation on the device, lose or delay a    *)
(* report, silence a heartbeat, let a phase run into its deadline.         *)
(***************************************************************************)
EventKinds == {"close", "signal", "crash", "native", "device",
               "lost", "delayed", "stale", "timeout", "replace"}

ASSUME PlacesAssumption ==
  /\ Atn \cap Ffn = {} /\ Pes = Atn \cup Ffn /\ Pes \cap Ranks = {}
  /\ device \in [Ranks -> Atn] /\ slot \in [Procs -> Pes \cup Ranks]
  /\ Spares \subseteq Procs
  /\ None \notin Procs /\ MaxGenerations \in Nat /\ MaxEvents \in Nat /\ Kinds \subseteq EventKinds

Registrations == [proc : Procs, up : BOOLEAN, fresh : BOOLEAN]
Publications == [owner : Procs, published : SUBSET Ranks, accepting : BOOLEAN]

ASSUME NoneAssumption == None \notin Registrations \cup Publications

VARIABLES
  alive,        \* the processes the kernel runs
  startups,     \* agent_startups: the process admitted for each Agent place
  book,         \* registrations: process, cached liveness, heartbeat freshness
  broker,       \* TransportBroker.atnagents
  leases,       \* TransportBroker.leases: the publisher a rank leases from
  fabric,       \* FabricController.generation
  forming,      \* the membership captured by the ensure_fabric_plan under way
  generations,  \* generations installed so far
  sealed,       \* admission_closed
  closed,
  stopping,     \* Agents whose shutdown_requested event is set
  events        \* faults and operator's actions that may still happen

daemonVars == <<alive, startups, book, broker, leases, fabric, forming,
                generations, sealed, closed, stopping>>

Slots == Pes \cup Ranks
Registration(p) == [proc |-> p, up |-> TRUE, fresh |-> TRUE]
Owners(g) == {g.agents[pe] : pe \in Pes} \cup {g.instances[r] : r \in Ranks}
Online(s) == book[s] # None /\ book[s].up /\ book[s].fresh
Owns(p) == book[slot[p]] # None /\ book[slot[p]].proc = p

ControlInit ==
  /\ alive = {} /\ stopping = {}
  /\ startups = [s \in Pes |-> None]
  /\ book = [s \in Slots |-> None]
  /\ broker = [a \in Atn |-> None]
  /\ leases = [r \in Ranks |-> None]
  /\ fabric = NoGeneration /\ forming = None /\ generations = 0
  /\ sealed = FALSE /\ closed = FALSE /\ events = MaxEvents

Event(kind) == kind \in Kinds /\ events > 0 /\ events' = events - 1
NoEvent == UNCHANGED events

(* Mutant: a stopped generation is dropped while its owners still run.     *)
RetireStopped(g) ==
  IF g.id # 0 /\ g.phase = "stopped" THEN NoGeneration ELSE g

(* Mutant: the owners' processes are not looked at, only their places.     *)
RetireUnregistered(g) ==
  IF g.id # 0 /\ g.phase = "stopped" /\ \A s \in Slots : book[s] = None
    THEN NoGeneration ELSE g

(* The generation left once retire_terminal_generation has run.            *)
retire_terminal_generation(g) ==
  IF g.id # 0 /\ g.phase = "stopped" /\ Owners(g) \cap alive = {}
    THEN NoGeneration ELSE g

-----------------------------------------------------------------------------
(* admit_agent_startup, as the Agent's constructor calls it.               *)

AdmitOutcome(p) ==
  IF \/ sealed
     \/ fabric.id # 0 /\ fabric.agents[slot[p]] # p THEN "not_ready"
  ELSE IF startups[slot[p]] \in alive \ {p} THEN "conflict"
  ELSE "ok"

admit_agent_startup(p) ==
  /\ startups' = IF AdmitOutcome(p) = "ok" THEN [startups EXCEPT ![slot[p]] = p]
                                           ELSE startups
  /\ UNCHANGED <<book, broker, leases, fabric, forming, generations, sealed, closed>>

-----------------------------------------------------------------------------
(***************************************************************************)
(* register_atnagent and register_ffnagent up to their call of             *)
(* ensure_fabric_plan.                                                     *)
(***************************************************************************)
Replaces(g, p) == g.id # 0 /\ g.agents[slot[p]] # p

ArenaUsers(a, publisher) ==
  {r \in Ranks : /\ leases[r] = publisher /\ device[r] = a
                 /\ book[r] # None /\ book[r].proc \in alive}

RegisterOutcome(p) ==
  LET s == slot[p]  g == retire_terminal_generation(fabric)  existing == book[s] IN
  IF startups[s] # p THEN IF sealed THEN "not_ready" ELSE "conflict"
  ELSE IF Replaces(g, p) THEN "conflict"
  ELSE IF /\ s \in Atn /\ existing # None /\ existing.proc \notin alive
          /\ ArenaUsers(s, existing.proc) # {} THEN "not_ready"
  ELSE IF existing # None /\ existing.proc \in alive \ {p} THEN "conflict"
  ELSE "ok"

Installed(s, p) ==
  IF book[s] # None /\ book[s].proc = p
    THEN [book EXCEPT ![s].fresh = TRUE]
    ELSE [book EXCEPT ![s] = Registration(p)]

(* membership_revision moved: what was captured before is out of date.     *)
Outdated == IF forming = None THEN None ELSE [forming EXCEPT !.current = FALSE]

register_agent(p) ==
  LET s == slot[p]  g == retire_terminal_generation(fabric) IN
  /\ IF RegisterOutcome(p) = "ok"
       THEN /\ book' = Installed(s, p)
            /\ broker' = IF s \in Ffn \/ (broker[s] # None /\ broker[s].owner = p)
                           THEN broker
                           ELSE [broker EXCEPT ![s] = [owner |-> p, published |-> {},
                                                       accepting |-> TRUE]]
            /\ forming' = IF Owns(p) THEN forming ELSE Outdated
       ELSE UNCHANGED <<book, broker, forming>>
  /\ fabric' = IF startups[s] = p /\ Replaces(g, p) THEN abort(record_owner_failure(g)) ELSE g
  /\ UNCHANGED <<startups, leases, generations, sealed, closed>>

(* register_instance up to its call of ensure_fabric_plan.                 *)
RegisterInstanceOutcome(p) ==
  LET r == slot[p]  g == retire_terminal_generation(fabric) IN
  IF sealed THEN "not_ready"
  ELSE IF \/ g.id # 0 /\ g.instances[r] # p
          \/ book[r] # None /\ book[r].proc \in alive \ {p} THEN "conflict"
  ELSE "ok"

register_instance(p) ==
  LET r == slot[p]  g == retire_terminal_generation(fabric) IN
  /\ IF RegisterInstanceOutcome(p) = "ok"
       THEN /\ book' = Installed(r, p)
            /\ leases' = IF Owns(p) THEN leases ELSE [leases EXCEPT ![r] = None]
            /\ forming' = IF Owns(p) THEN forming ELSE Outdated
       ELSE UNCHANGED <<book, leases, forming>>
  /\ fabric' = IF ~sealed /\ g.id # 0 /\ g.instances[r] # p
                 THEN quiesce(record_owner_failure(g)) ELSE g
  /\ UNCHANGED <<startups, broker, generations, sealed, closed>>

LeasesQuiescing(r) == leases[r] # None /\ ~broker[device[r]].accepting

deregister_instance(p) ==
  LET r == slot[p] IN
  /\ Owns(p)
  /\ book' = [book EXCEPT ![r] = None]
  /\ leases' = [leases EXCEPT ![r] = None]
  /\ forming' = Outdated
  /\ fabric' = instance_departed(fabric, r, LeasesQuiescing(r))
  /\ UNCHANGED <<startups, broker, generations, sealed, closed>>

-----------------------------------------------------------------------------
(***************************************************************************)
(* ensure_fabric_plan, run at the end of a registration by the thread that *)
(* holds fabric_plan_formation_lock: capture the complete membership under *)
(* the domain lock, probe its processes, then create the plan and commit   *)
(* it only if the membership has not changed.                              *)
(***************************************************************************)
Complete == \A s \in Slots : book[s] # None

FormationEnds == fabric.id # 0 \/ sealed \/ ~Complete

capture_membership(p) ==
  /\ forming = None
  /\ forming' = IF FormationEnds THEN None
                ELSE [by |-> p, current |-> TRUE, probed |-> FALSE,
                      agents |-> [pe \in Pes |-> book[pe].proc],
                      instances |-> [r \in Ranks |-> book[r].proc]]
  /\ UNCHANGED <<startups, book, broker, leases, fabric, generations, sealed, closed>>

MembersAlive ==
  Owners(forming) \subseteq alive

(* The bound stops the formation of further generations.                   *)
probe_membership ==
  /\ forming # None /\ ~forming.probed
  /\ generations < MaxGenerations
  /\ forming' = IF MembersAlive THEN [forming EXCEPT !.probed = TRUE] ELSE None
  /\ UNCHANGED <<startups, book, broker, leases, fabric, generations, sealed, closed>>

Committable == fabric.id = 0 /\ ~sealed /\ forming.current

commit_plan ==
  /\ forming # None /\ forming.probed
  /\ IF Committable
       THEN /\ fabric' = install(generations + 1, forming.agents, forming.instances)
            /\ generations' = generations + 1
       ELSE UNCHANGED <<fabric, generations>>
  /\ forming' = None
  /\ UNCHANGED <<startups, book, broker, leases, sealed, closed>>

-----------------------------------------------------------------------------
(* request_fabric_quiesce: the Agent must own its place in the generation. *)
QuiesceAccepted(p, id) ==
  fabric.id # 0 /\ fabric.id = id /\ fabric.agents[slot[p]] = p /\ Owns(p)

request_fabric_quiesce(p, id) ==
  /\ fabric' = IF QuiesceAccepted(p, id) THEN quiesce(fabric) ELSE fabric
  /\ UNCHANGED <<startups, book, broker, leases, forming, generations, sealed, closed>>

(***************************************************************************)
(* record_fabric_participant for a report of p about generation id: the    *)
(* generation afterwards and whether the report is acknowledged.           *)
(***************************************************************************)
ParticipantOutcome(p, id, r) ==
  LET pe == slot[p] IN
  IF fabric.id = 0 THEN [g |-> fabric, ok |-> FALSE]
  ELSE IF \/ ~Owns(p) \/ fabric.agents[pe] # p \/ p \notin alive
          \/ id # fabric.id
    THEN [g |-> reject_report(fabric), ok |-> FALSE]
  ELSE record_participant(fabric, pe, r)

record_fabric_participant(p, id, r) ==
  /\ fabric' = ParticipantOutcome(p, id, r).g
  /\ UNCHANGED <<startups, book, broker, leases, forming, generations, sealed, closed>>

(* publish_instance_initialized.                                           *)
InitializedAccepted(p, id) == Owns(p) /\ CanInitialize(fabric, slot[p], p, id)

publish_instance_initialized(p, id) ==
  /\ InitializedAccepted(p, id)
  /\ fabric' = record_initialized(fabric, slot[p])
  /\ UNCHANGED <<startups, book, broker, leases, forming, generations, sealed, closed>>

heartbeat(p) ==
  /\ Owns(p)
  /\ book' = [book EXCEPT ![slot[p]].fresh = TRUE]
  /\ UNCHANGED <<startups, broker, leases, fabric, forming, generations, sealed, closed>>

-----------------------------------------------------------------------------
(* The transport broker.                                                   *)

Local(a) == {r \in Ranks : device[r] = a}

upsert_atnagent_transport_arenas(p, published) ==
  LET a == slot[p] IN
  /\ Owns(p) /\ Online(a) /\ broker[a].owner = p /\ broker[a].accepting
  /\ broker' = [broker EXCEPT ![a].published = @ \cup published]
  /\ UNCHANGED <<startups, book, leases, fabric, forming, generations, sealed, closed>>

quiesce_atnagent_transport_leases(p) ==
  LET a == slot[p] IN
  /\ Owns(p) /\ book[a].up /\ broker[a].owner = p
  /\ broker' = [broker EXCEPT ![a].accepting = FALSE]
  /\ UNCHANGED <<startups, book, leases, fabric, forming, generations, sealed, closed>>

(* Mutant: only ranks that reported their initialization count as users.   *)
LeasesInitialized(a) ==
  {r \in Ranks : /\ leases[r] # None /\ device[r] = a
                 /\ book[r] # None /\ book[r].proc \in alive
                 /\ fabric.id # 0 /\ r \in fabric.initialized}

LeasesInUse(a) ==
  {r \in Ranks : /\ leases[r] # None /\ device[r] = a
                 /\ book[r] # None /\ book[r].proc \in alive}

acquire_instance_transport_arena(p) ==
  LET r == slot[p]  a == device[r] IN
  /\ Owns(p) /\ Online(r) /\ Online(a)
  /\ fabric.id # 0 /\ fabric.phase = "executable" /\ fabric.instances[r] = p
  /\ broker[a].owner = book[a].proc /\ broker[a].accepting /\ r \in broker[a].published
  /\ leases[r] \in {None, book[a].proc}
  /\ leases' = [leases EXCEPT ![r] = book[a].proc]
  /\ UNCHANGED <<startups, book, broker, fabric, forming, generations, sealed, closed>>

Ready ==
  /\ \A s \in Slots : Online(s)
  /\ \A r \in Ranks : broker[device[r]].accepting /\ r \in broker[device[r]].published
  /\ fabric.id # 0 /\ fabric.phase = "executable" /\ fabric.initialized = Ranks
  /\ ~fabric.invocation /\ ~fabric.owner /\ ~fabric.control

-----------------------------------------------------------------------------
(***************************************************************************)
(* One pass of the watchdog.  The operators follow its order: lost Agents, *)
(* lost Instances, the phase deadline (expired says whether it has passed),*)
(* the end of fail-stop cleanup, and retirement.                           *)
(***************************************************************************)
Lost(s, owner) ==
  \/ book[s] = None \/ owner \notin alive
  \/ book[s].proc # owner
  \/ ~book[s].fresh

WatchAgents(g) ==
  IF \E pe \in Pes : /\ ~(g.participants[pe] # None /\ g.participants[pe].phase = "finalized")
                     /\ Lost(pe, g.agents[pe])
    THEN abort(record_owner_failure(g)) ELSE g

WatchInstances(g) ==
  IF /\ g.phase \notin RetiringPhases \ {"quiescing"}
     /\ \E r \in Ranks : /\ Lost(r, g.instances[r])
                         /\ ~(g.phase = "quiescing" /\ LeasesQuiescing(r))
    THEN quiesce(record_owner_failure(g)) ELSE g

TimedPhases == {"joining", "quiescing", "draining", "finalizing"}

DeadlineApplies(g) ==
  \/ g.phase \in TimedPhases
  \/ g.phase = "executable" /\ g.initialized # Ranks

WatchDeadline(g, expired) ==
  IF expired /\ DeadlineApplies(g) THEN abort(record_control_failure(g)) ELSE g

WatchAbort(g) ==
  IF /\ g.phase = "aborting"
     /\ \A r \in Ranks : g.instances[r] \notin alive
     /\ \A pe \in Pes : \/ g.agents[pe] \notin alive
                        \/ /\ g.participants[pe] # None
                           /\ g.participants[pe].phase \in {"drained", "finalized"}
    THEN transition(g, "stopped") ELSE g

watchdog(expired) ==
  /\ book' = [s \in Slots |-> IF book[s] = None THEN None
                              ELSE [book[s] EXCEPT !.up = @ /\ book[s].proc \in alive]]
  /\ IF fabric.id = 0 THEN fabric' = fabric ELSE
       \E agents \in {WatchAgents(fabric)} :
       \E instances \in {WatchInstances(agents)} :
       \E deadline \in {WatchDeadline(instances, expired)} :
       \E failed \in {WatchAbort(deadline)} :
         fabric' = retire_terminal_generation(failed)
  /\ UNCHANGED <<alive, stopping, startups, broker, leases, forming, generations,
                 sealed, closed>>

-----------------------------------------------------------------------------
begin_close ==
  /\ Event("close") /\ ~sealed
  /\ sealed' = TRUE
  /\ UNCHANGED <<alive, stopping, startups, book, broker, leases, fabric, forming,
                 generations, closed>>

InstanceOwners ==
  {book[r].proc : r \in {q \in Ranks : book[q] # None}}
    \cup (IF fabric.id = 0 THEN {} ELSE {fabric.instances[r] : r \in Ranks})

(* Mutant: a process that was admitted and has not registered is forgotten.*)
OwnersWithoutStartups ==
  {book[s].proc : s \in {q \in Slots : book[q] # None}}
    \cup (IF fabric.id = 0 THEN {} ELSE Owners(fabric))

KnownOwners ==
  {book[s].proc : s \in {q \in Slots : book[q] # None}}
    \cup ({startups[s] : s \in Pes} \ {None})
    \cup (IF fabric.id = 0 THEN {} ELSE Owners(fabric))

(* Mutant: close waits for the registrations to go instead of the owners.  *)
CloseByRegistrations ==
  /\ sealed /\ ~closed
  /\ stopping' = stopping \cup
       (IF fabric.id # 0 THEN {}
        ELSE {book[pe].proc : pe \in {q \in Pes : book[q] # None}} \cap alive)
  /\ fabric' = IF fabric.id # 0 /\ InstanceOwners \cap alive = {}
                 THEN quiesce(fabric) ELSE fabric
  /\ closed' = (\A s \in Slots : book[s] = None)
  /\ UNCHANGED <<alive, startups, book, broker, leases, forming, generations, sealed>>

(* One pass of close's loop, before its deadline.                          *)
close ==
  /\ sealed /\ ~closed
  /\ stopping' = stopping \cup
       (IF fabric.id # 0 THEN {}
        ELSE {book[pe].proc : pe \in {q \in Pes : book[q] # None}} \cap alive)
  /\ fabric' = IF fabric.id # 0 /\ InstanceOwners \cap alive = {}
                 THEN quiesce(fabric) ELSE fabric
  /\ closed' = (KnownOwners \cap alive = {})
  /\ UNCHANGED <<alive, startups, book, broker, leases, forming, generations, sealed>>

(* SIGTERM or SIGINT from the operator to one Agent.                       *)
SignalAgent(p) ==
  /\ Event("signal") /\ p \in alive /\ slot[p] \in Pes /\ p \notin stopping
  /\ stopping' = stopping \cup {p}
  /\ UNCHANGED <<alive, startups, book, broker, leases, fabric, forming, generations,
                 sealed, closed>>

=============================================================================
