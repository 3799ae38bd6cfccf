-------------------------- MODULE FabricGeneration --------------------------
(***************************************************************************)
(* The daemon's FabricController: the record of one Fabric generation and  *)
(* what the daemon does to it.  Every operator takes a generation record   *)
(* and returns the one the code leaves behind, so that a handler of the    *)
(* control plane can apply several in the order of its calls.              *)
(*                                                                         *)
(* Pes are the planned participants (one per configured Agent), Ranks the  *)
(* configured Instance ranks.  A report carries the participant's phase    *)
(* and the two failure fields; its owner and PE are the handler's          *)
(* business.                                                               *)
(***************************************************************************)
EXTENDS Naturals, FiniteSets

CONSTANTS Pes, Ranks, Procs, None

NoGeneration == [id |-> 0, phase |-> "none"]

StartPhases == {"preparing_join", "joining", "preparing_execution", "activating"}
RetiringPhases == {"quiescing", "draining", "finalizing", "aborting", "stopped"}
GenerationPhases == StartPhases \cup {"executable"} \cup RetiringPhases
ParticipantPhases ==
  {"join_ready", "joining", "joined", "execution_ready", "active",
   "quiesced", "draining", "drained", "finalized"}

Report(phase, invocation, control) ==
  [phase |-> phase, invocation |-> invocation, control |-> control]
Reports == [phase : ParticipantPhases, invocation : BOOLEAN, control : BOOLEAN]

ASSUME ReportAssumption == None \notin Reports

(***************************************************************************)
(* The participants' phase that completes a generation phase, and the      *)
(* phase the generation then enters.                                       *)
(***************************************************************************)
barrier ==
  [preparing_join |-> <<"join_ready", "joining">>,
   joining |-> <<"joined", "preparing_execution">>,
   preparing_execution |-> <<"execution_ready", "activating">>,
   activating |-> <<"active", "executable">>,
   quiescing |-> <<"quiesced", "draining">>,
   draining |-> <<"drained", "finalizing">>,
   finalizing |-> <<"finalized", "stopped">>]

GenerationAllows(from, to) ==
  IF to = "aborting"
    THEN from \notin {"aborting", "stopped"}
    ELSE <<from, to>> \in {<<ph, barrier[ph][2]>> : ph \in DOMAIN barrier}
                            \cup {<<"executable", "quiescing">>, <<"aborting", "stopped">>}

ParticipantOrder ==
  <<"join_ready", "joining", "joined", "execution_ready", "active",
    "quiesced", "draining", "drained", "finalized">>

ParticipantAllows(from, to, aborting) ==
  IF aborting /\ to = "quiesced"
    THEN from \in {"joined", "execution_ready", "active"}
    ELSE \E i \in 1..8 : from = ParticipantOrder[i] /\ to = ParticipantOrder[i + 1]

(* A disallowed edge raises in the code: the generation keeps its phase.   *)
transition(g, phase) ==
  IF GenerationAllows(g.phase, phase) THEN [g EXCEPT !.phase = phase] ELSE g

install(id, agents, instances) ==
  [id |-> id, phase |-> "preparing_join",
   invocation |-> FALSE, owner |-> FALSE, control |-> FALSE,
   agents |-> agents, instances |-> instances,
   participants |-> [pe \in Pes |-> None], initialized |-> {}]

quiesce(g) ==
  IF g.phase \in StartPhases THEN transition(g, "aborting")
  ELSE IF g.phase = "executable" THEN transition(g, "quiescing")
  ELSE g

abort(g) ==
  IF g.phase \in {"none", "aborting", "stopped"} THEN g ELSE transition(g, "aborting")

record_owner_failure(g) == [g EXCEPT !.owner = TRUE]
record_control_failure(g) == [g EXCEPT !.control = TRUE]

reject_report(g) == IF g.id = 0 THEN g ELSE abort(record_control_failure(g))

instance_departed(g, r, leasesQuiescing) ==
  IF g.id = 0 THEN g
  ELSE LET h == [g EXCEPT !.initialized = @ \ {r}]
       IN  IF \/ h.phase = "quiescing" /\ leasesQuiescing
              \/ h.phase \in RetiringPhases \ {"quiescing"}
             THEN h
             ELSE quiesce(record_owner_failure(h))

CanInitialize(g, r, p, id) ==
  /\ g.id # 0 /\ g.id = id
  /\ g.phase = "executable"
  /\ g.instances[r] = p

record_initialized(g, r) == [g EXCEPT !.initialized = @ \cup {r}]

(* The participant phases a report may move to in a generation phase.      *)
allowed_phases(phase) ==
  LET allowed == [preparing_join |-> {"join_ready"},
                  joining |-> {"joining", "joined"},
                  preparing_execution |-> {"execution_ready"},
                  activating |-> {"active"},
                  quiescing |-> {"quiesced"},
                  draining |-> {"draining", "drained"},
                  finalizing |-> {"finalized"},
                  aborting |-> {"quiesced", "draining", "drained"}]
  IN  IF phase \in DOMAIN allowed THEN allowed[phase] ELSE {}

(* Mutant: one active participant completes the activation.                *)
BarrierByOne(g) ==
  IF /\ g.phase \in DOMAIN barrier
     /\ \A pe \in Pes : g.participants[pe] # None
     /\ LET done == {pe \in Pes : g.participants[pe].phase = barrier[g.phase][1]}
        IN  IF g.phase = "activating" THEN done # {} ELSE done = Pes
    THEN transition(g, barrier[g.phase][2])
    ELSE g

(* Mutant: activation waits for the Instances as well.                     *)
BarrierAwaitsInstances(g) ==
  IF /\ g.phase \in DOMAIN barrier
     /\ \A pe \in Pes : g.participants[pe] # None
                          /\ g.participants[pe].phase = barrier[g.phase][1]
     /\ g.phase = "activating" => g.initialized = Ranks
    THEN transition(g, barrier[g.phase][2])
    ELSE g

advance_barrier(g) ==
  IF /\ g.phase \in DOMAIN barrier
     /\ \A pe \in Pes : g.participants[pe] # None
                          /\ g.participants[pe].phase = barrier[g.phase][1]
    THEN transition(g, barrier[g.phase][2])
    ELSE g

(***************************************************************************)
(* Why a report of PE pe is refused: a phase out of order, a cleared       *)
(* failure, or a phase the generation does not take now.                   *)
(***************************************************************************)
Cleared(previous, r) ==
  /\ previous # None
  /\ \/ previous.invocation /\ ~r.invocation
     \/ previous.control /\ ~r.control

Refused(g, pe, r) ==
  LET previous == g.participants[pe]
      changed == previous = None \/ previous.phase # r.phase
  IN  \/ previous = None /\ r.phase # "join_ready"
      \/ /\ previous # None /\ changed
         /\ ~ParticipantAllows(previous.phase, r.phase, g.phase = "aborting")
      \/ Cleared(previous, r)
      \/ changed /\ r.phase \notin allowed_phases(g.phase)

Committed(g, pe, r) ==
  LET h == [g EXCEPT !.participants[pe] = r,
                     !.invocation = @ \/ r.invocation,
                     !.control = @ \/ r.control]
  IN  IF h.control THEN abort(h)
      ELSE IF h.invocation /\ h.phase \notin {"quiescing", "draining", "finalizing"}
        THEN quiesce(h)
      ELSE advance_barrier(h)

(***************************************************************************)
(* record_participant: the generation afterwards and whether the report    *)
(* was acknowledged.  An exact repeat is acknowledged without effect, in   *)
(* every phase.                                                            *)
(***************************************************************************)
record_participant(g, pe, r) ==
  IF g.participants[pe] = r THEN [g |-> g, ok |-> TRUE]
  ELSE IF g.phase = "stopped" THEN [g |-> g, ok |-> FALSE]
  ELSE IF Refused(g, pe, r) THEN [g |-> reject_report(g), ok |-> FALSE]
  ELSE [g |-> Committed(g, pe, r), ok |-> TRUE]

=============================================================================
