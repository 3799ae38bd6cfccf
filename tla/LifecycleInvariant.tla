------------------------- MODULE LifecycleInvariant -------------------------
(***************************************************************************)
(* The invariant of the deployment of Lifecycle, and the steps with which  *)
(* Agents come and go. The invariant has two parts. Structure relates the  *)
(* processes, the daemon's books, the broker and the leases; Progress      *)
(* relates the generation to what each Agent has reported and done.        *)
(* Progress takes the generation, the Agents, the late reports, the live   *)
(* processes and the number of generations as parameters, so that a        *)
(* handler that changes the generation and then the Agent is followed in   *)
(* that order.                                                             *)
(***************************************************************************)
EXTENDS Lifecycle, TLAPS

-----------------------------------------------------------------------------
(* Types.                                                                  *)

Dead == {"off", "exited", "crashed"}
AgentPcs == Dead \cup {"admit", "loop", "form", "join", "finalize", "shut", "release", "retained"}
InstancePcs == Dead \cup {"register", "form", "wait", "acquire", "attach", "init", "ready",
                          "serving", "detach", "deregister", "held"}
Natives == {"empty", "joining", "joined", "active", "draining", "drained", "finalizing", "closed"}
Views == GenerationPhases \cup {"none"}
Snapshots == [id : Nat, phase : Views]
MaybeReport == Reports \cup {None}

AgentRecord ==
  [pc : AgentPcs, registered : BOOLEAN, plan : Nat, view : Views,
   inbox : Snapshots \cup {None}, report : MaybeReport, sent : MaybeReport, tries : Nat,
   enriching : BOOLEAN, failed : BOOLEAN, handling : BOOLEAN, asked : BOOLEAN,
   native : Natives, arenas : {"none", "dormant", "resident", "drained"}]
InstanceRecord ==
  [pc : InstancePcs, registered : BOOLEAN, plan : Nat, arena : Procs \cup {None},
   failed : BOOLEAN]
Generations ==
  [id : Nat \ {0}, phase : GenerationPhases,
   invocation : BOOLEAN, owner : BOOLEAN, control : BOOLEAN,
   agents : [Pes -> Procs], instances : [Ranks -> Procs],
   participants : [Pes -> MaybeReport], initialized : SUBSET Ranks]
Rosters ==
  [by : Procs, current : BOOLEAN, probed : BOOLEAN,
   agents : [Pes -> Procs], instances : [Ranks -> Procs]]
Messages == [by : AgentProcs, id : Nat, report : Reports]

TypeOK ==
  /\ alive \subseteq Procs /\ generations \in Nat /\ sealed \in BOOLEAN /\ closed \in BOOLEAN
  /\ startups \in [Pes -> Procs \cup {None}]
  /\ book \in [Slots -> Registrations \cup {None}]
  /\ broker \in [Atn -> Publications \cup {None}]
  /\ leases \in [Ranks -> Procs \cup {None}]
  /\ fabric \in Generations \cup {NoGeneration}
  /\ forming \in Rosters \cup {None}
  /\ agent \in [AgentProcs -> AgentRecord]
  /\ inst \in [InstanceProcs -> InstanceRecord]
  /\ late \subseteq Messages

-----------------------------------------------------------------------------
(* Structure.                                                              *)

(* A process lives between its start and its exit, and leaves no state.    *)
ProcInv ==
  /\ \A p \in AgentProcs :
       /\ p \in alive <=> agent[p].pc \notin Dead
       /\ agent[p].pc \in Dead \cup {"admit"} => agent[p] = Gone(agent[p].pc)
  /\ \A p \in InstanceProcs :
       /\ p \in alive <=> inst[p].pc \notin Dead
       /\ inst[p].pc \in Dead \cup {"register"} => inst[p] = [NoInstance EXCEPT !.pc = inst[p].pc]

(* The place of every admitted live Agent is its own.                      *)
AdmitInv ==
  /\ \A s \in Pes : startups[s] # None =>
       slot[startups[s]] = s /\ agent[startups[s]].pc \notin {"off", "admit"}
  /\ \A p \in AgentProcs :
       agent[p].pc \notin Dead \cup {"admit"} => startups[slot[p]] = p

(* p was started for place s and, as an Agent, admitted.                   *)
Member(s, p) ==
  /\ slot[p] = s
  /\ s \in Pes => agent[p].pc \notin {"off", "admit"}
  /\ s \in Ranks => inst[p].pc # "off"

(***************************************************************************)
(* The books list members.  Agents are not replaced in the book while a    *)
(* generation is retained, and a captured roster that is still current     *)
(* agrees with it; no roster is captured beside a generation.              *)
(***************************************************************************)
RosterInv ==
  /\ \A s \in Slots : book[s] # None => Member(s, book[s].proc)
  /\ forming # None =>
       /\ fabric.id = 0
       /\ \A pe \in Pes : Member(pe, forming.agents[pe])
       /\ \A r \in Ranks : Member(r, forming.instances[r])
       /\ forming.current => \A pe \in Pes : book[pe] # None /\ book[pe].proc = forming.agents[pe]
  /\ fabric.id # 0 =>
       /\ \A pe \in Pes : /\ Member(pe, fabric.agents[pe])
                          /\ book[pe] # None /\ book[pe].proc = fabric.agents[pe]
       /\ \A r \in Ranks : Member(r, fabric.instances[r])

(***************************************************************************)
(* What a process has registered stays its own while it lives, and a live  *)
(* Agent that the book lists has registered or is doing so.                *)
(***************************************************************************)
OwnInv ==
  /\ \A p \in AgentProcs :
       /\ agent[p].pc \notin Dead /\ Owns(p) => agent[p].pc = "form" \/ agent[p].registered
       /\ agent[p].pc = "form" \/ agent[p].registered =>
            Owns(p) /\ (slot[p] \in Atn => broker[slot[p]] # None /\ broker[slot[p]].owner = p)
       /\ agent[p].plan # 0 \/ agent[p].arenas # "none" => agent[p].registered
  /\ \A p \in InstanceProcs :
       /\ inst[p].pc = "form" \/ inst[p].registered => Owns(p)
       /\ \/ inst[p].pc \in {"wait", "acquire", "attach", "init", "ready", "serving"}
          \/ inst[p].arena # None
          => inst[p].registered
       /\ inst[p].pc = "deregister" => inst[p].arena = None

(* Nobody the daemon knows runs once it has closed.                        *)
CloseInv ==
  closed => /\ sealed
            /\ \A s \in Pes : startups[s] \notin alive
            /\ \A s \in Slots : book[s] # None => book[s].proc \notin alive

Early == StartPhases \cup {"executable"}

(* The publications of an Agent that has left cannot be leased.            *)
Spent(a) == broker[a] # None => ~broker[a].accepting \/ broker[a].published = {}

BrokerInv ==
  /\ \A a \in Atn : /\ book[a] # None => broker[a] # None
                    /\ broker[a] # None => Member(a, broker[a].owner)
  /\ \A p \in AgentProcs \cap alive :
       slot[p] \in Atn /\ broker[slot[p]] # None /\ broker[slot[p]].owner = p =>
         /\ broker[slot[p]].published # {} => agent[p].arenas # "none"
         /\ agent[p].arenas = "drained" => ~broker[slot[p]].accepting
  /\ \A a \in Atn :
       /\ fabric.id # 0 /\ agent[fabric.agents[a]].pc = "exited" =>
            fabric.phase \notin Early \/ Spent(a)
       /\ forming # None /\ forming.probed /\ forming.current =>
            (agent[forming.agents[a]].pc = "exited" => Spent(a))

(***************************************************************************)
(* A rank that is attached, or about to, leases from an Agent of its       *)
(* device that has not left and has not drained, in a generation that is   *)
(* retained for it.                                                        *)
(***************************************************************************)
Attached(p) == inst[p].pc = "attach" \/ inst[p].arena # None

LeaseInv ==
  \A p \in InstanceProcs : Attached(p) =>
    LET q == leases[slot[p]] IN
    /\ q \in AgentProcs /\ inst[p].arena \in {None, q} /\ slot[q] = device[slot[p]]
    /\ agent[q].pc \notin {"off", "exited"}
    /\ q \in alive => agent[q].arenas \notin {"none", "drained"}
    /\ fabric.id # 0 /\ fabric.instances[slot[p]] = p

Structure == ProcInv /\ AdmitInv /\ RosterInv /\ OwnInv /\ CloseInv /\ BrokerInv /\ LeaseInv

-----------------------------------------------------------------------------
(* Progress.                                                               *)

PostQuiesce == {"quiesced", "draining", "drained", "finalized"}
Done == {"drained", "finalizing", "closed"}

(* The native state an Agent may be in after it reported a phase.          *)
NativeAt ==
  {<<"none", "empty">>, <<"join_ready", "empty">>,
   <<"joining", "joining">>, <<"joining", "joined">>, <<"joining", "closed">>,
   <<"joined", "joined">>, <<"execution_ready", "joined">>, <<"execution_ready", "active">>,
   <<"active", "active">>,
   <<"quiesced", "joined">>, <<"quiesced", "active">>, <<"quiesced", "draining">>,
   <<"draining", "draining">>, <<"draining", "drained">>,
   <<"drained", "drained">>, <<"drained", "finalizing">>, <<"drained", "closed">>,
   <<"finalized", "closed">>}

SentFits(a) ==
  /\ a.plan # 0
  /\ a.sent.phase = "join_ready" => PreJoin(a)
  /\ IF a.sent.phase = "joining"
       THEN IF a.enriching THEN Reported(a) = "joining"
            ELSE a.pc = "loop" /\ Reported(a) = "join_ready"
       ELSE <<a.sent.phase, a.native>> \in NativeAt

(* A snapshot is not ahead of the generation.                              *)
Behind(v, phase) ==
  /\ phase \in Early => v \in Early
  /\ v = "stopped" => phase = "stopped"

RecordInv(a) ==
  /\ a.pc \in {"loop", "form"} /\ a.plan = 0 =>
       a.sent = None /\ a.report = None /\ a.native = "empty"
  /\ a.pc = "form" => a.plan = 0
  /\ a.pc = "join" => Reported(a) = "joining" /\ a.sent = None /\ a.native = "joining"
  /\ a.pc = "finalize" => Reported(a) = "drained" /\ a.sent = None /\ a.native = "finalizing"
  /\ a.plan # 0 => <<Reported(a), a.native>> \in NativeAt
  /\ a.sent # None => SentFits(a)

AgentInv(g, p, a, n) ==
  /\ a.plan <= n /\ (a.inbox # None => a.inbox.id <= n)
  /\ RecordInv(a)
  /\ a.report # None => a.plan # 0 /\ g.id = a.plan /\ g.agents[slot[p]] = p
  /\ a.plan # 0 /\ a.plan = g.id => Behind(a.view, g.phase)
  /\ a.inbox # None /\ a.inbox.id # 0 /\ a.inbox.id = g.id => Behind(a.inbox.phase, g.phase)

(* The daemon has, or may still receive, a report of p that it reached ph. *)
Claims(g, a, lt, p, ph) ==
  \/ /\ g.agents[slot[p]] = p /\ g.participants[slot[p]] # None
     /\ g.participants[slot[p]].phase = ph
  \/ \E m \in lt : m.by = p /\ m.id = g.id /\ m.report.phase = ph
  \/ a.plan = g.id /\ a.sent # None /\ a.sent.phase = ph
  \/ a.plan = g.id /\ a.report # None /\ a.report.phase = ph

(* What such a report says is so.                                          *)
Backed(g, p, a, ph) ==
  /\ a.plan = g.id \/ a.pc \in {"release", "retained"}
  /\ ph = "active" /\ g.phase \in Early => a.native = "active"
  /\ ph \in PostQuiesce => /\ a.plan = g.id => ~PreJoin(a)
                           /\ slot[p] \in Atn => a.arenas = "drained"
  /\ ph \in {"drained", "finalized"} => a.native \in Done

AllPast(g) ==
  \A pe \in Pes : g.participants[pe] # None /\ g.participants[pe].phase \in PostQuiesce

SeesFinalizing(g, a) ==
  \/ a.plan = g.id /\ (a.view = "finalizing" \/ a.pc = "finalize")
  \/ a.inbox # None /\ a.inbox.id = g.id /\ a.inbox.phase = "finalizing"

GenerationInv(g, ag, al) ==
  /\ g.phase = "executable" =>
       \A pe \in Pes : g.agents[pe] \in al => ag[g.agents[pe]].native = "active"
  /\ g.phase \in {"draining", "finalizing"} => AllPast(g)
  /\ g.phase = "stopped" => AllPast(g) \/ \A r \in Ranks : g.instances[r] \notin al
  /\ g.phase = "finalizing" \/ (\E p \in AgentProcs : SeesFinalizing(g, ag[p])) =>
       \A pe \in Pes : g.agents[pe] \in al => ag[g.agents[pe]].native \in Done

(* The Agents of a generation are Agent processes in their own places.     *)
Placed(g) == \A pe \in Pes : g.agents[pe] \in AgentProcs /\ slot[g.agents[pe]] = pe

Progress(g, ag, lt, al, n) ==
  /\ g.id <= n
  /\ \A m \in lt : m.id <= n /\ ag[m.by].pc \notin {"off", "admit"}
  /\ \A p \in AgentProcs : AgentInv(g, p, ag[p], n)
  /\ g.id # 0 =>
       /\ Placed(g)
       /\ \A p \in AgentProcs \cap al : \A ph \in ParticipantPhases :
            Claims(g, ag[p], lt, p, ph) => Backed(g, p, ag[p], ph)
       /\ GenerationInv(g, ag, al)

Inv == TypeOK /\ Structure /\ Progress(fabric, agent, late, alive, generations)

USE ZenonT(40)

-----------------------------------------------------------------------------
(***************************************************************************)
(* What the daemon does to a generation.  Onward: a phase change that no   *)
(* barrier decides.  Moves: a handler that records flags and moves on.     *)
(* Accepts: a report of PE pe is recorded and may complete a barrier.      *)
(***************************************************************************)
Onward(x, y) ==
  \/ y = x
  \/ y = "aborting" /\ x \notin {"aborting", "stopped"}
  \/ x = "executable" /\ y = "quiescing"

SameWorld(g, h) ==
  /\ h \in Generations /\ h.id = g.id
  /\ h.agents = g.agents /\ h.instances = g.instances

Moves(g, h) == SameWorld(g, h) /\ h.participants = g.participants /\ Onward(g.phase, h.phase)

AllAt(g, ph) == \A pe \in Pes : g.participants[pe] # None /\ g.participants[pe].phase = ph

Passes(g, h) ==
  \/ g.phase \in StartPhases /\ h.phase \in Early /\ (h.phase = "executable" => AllAt(h, "active"))
  \/ g.phase = "quiescing" /\ h.phase = "draining" /\ AllAt(h, "quiesced")
  \/ g.phase = "draining" /\ h.phase = "finalizing" /\ AllAt(h, "drained")
  \/ g.phase = "finalizing" /\ h.phase = "stopped" /\ AllAt(h, "finalized")

Accepts(g, pe, r, h) ==
  /\ SameWorld(g, h) /\ g.phase # "stopped"
  /\ h.participants = [g.participants EXCEPT ![pe] = r]
  /\ g.phase \in {"draining", "finalizing"} /\ AllPast(g) => r.phase \in PostQuiesce
  /\ Onward(g.phase, h.phase) \/ Passes(g, h)

(* The end of fail-stop cleanup.                                           *)
Halts(g, h, al) ==
  /\ SameWorld(g, h) /\ h.participants = g.participants
  /\ g.phase = "aborting" /\ h.phase = "stopped"
  /\ \A r \in Ranks : g.instances[r] \notin al

(* The fields of a generation.                                             *)
LEMMA GenerationFields ==
  ASSUME NEW g \in Generations
  PROVE  /\ g.id \in Nat /\ g.id # 0 /\ g.phase \in GenerationPhases
         /\ g.agents \in [Pes -> Procs] /\ g.instances \in [Ranks -> Procs]
         /\ g.participants \in [Pes -> MaybeReport]
         /\ g.invocation \in BOOLEAN /\ g.owner \in BOOLEAN /\ g.control \in BOOLEAN
         /\ g.initialized \in SUBSET Ranks
  BY SMT DEF Generations

(* Phase changes compose.                                                  *)
LEMMA MovesCompose ==
  ASSUME NEW g \in Generations, NEW h, NEW k, Moves(g, h), Moves(h, k)
  PROVE  Moves(g, k)
  BY DEF Moves, SameWorld, Onward

(* Nothing happens.                                                        *)
LEMMA MovesNot ==
  ASSUME NEW g \in Generations
  PROVE  Moves(g, g)
  BY DEF Moves, SameWorld, Onward

(* Setting a flag keeps the phase.                                         *)
LEMMA MovesFlags ==
  ASSUME NEW g \in Generations, NEW v \in BOOLEAN, NEW S \in SUBSET Ranks
  PROVE  /\ Moves(g, [g EXCEPT !.owner = v])
         /\ Moves(g, [g EXCEPT !.control = v])
         /\ Moves(g, [g EXCEPT !.initialized = S])
<1>1. [g EXCEPT !.owner = v] \in Generations
  BY SMT DEF Generations
<1>2. [g EXCEPT !.control = v] \in Generations
  BY SMT DEF Generations
<1>3. [g EXCEPT !.initialized = S] \in Generations
  BY SMT DEF Generations
<1>4. /\ [g EXCEPT !.owner = v].id = g.id /\ [g EXCEPT !.owner = v].phase = g.phase
      /\ [g EXCEPT !.owner = v].agents = g.agents /\ [g EXCEPT !.owner = v].instances = g.instances
      /\ [g EXCEPT !.owner = v].participants = g.participants
  BY SMT DEF Generations
<1>5. /\ [g EXCEPT !.control = v].id = g.id /\ [g EXCEPT !.control = v].phase = g.phase
      /\ [g EXCEPT !.control = v].agents = g.agents /\ [g EXCEPT !.control = v].instances = g.instances
      /\ [g EXCEPT !.control = v].participants = g.participants
  BY SMT DEF Generations
<1>6. /\ [g EXCEPT !.initialized = S].id = g.id /\ [g EXCEPT !.initialized = S].phase = g.phase
      /\ [g EXCEPT !.initialized = S].agents = g.agents
      /\ [g EXCEPT !.initialized = S].instances = g.instances
      /\ [g EXCEPT !.initialized = S].participants = g.participants
  BY SMT DEF Generations
<1> QED
  BY <1>1, <1>2, <1>3, <1>4, <1>5, <1>6 DEF Moves, SameWorld, Onward

(* A transition changes the phase or nothing.                              *)
LEMMA TransitionFields ==
  ASSUME NEW g \in Generations, NEW ph \in GenerationPhases
  PROVE  /\ SameWorld(g, transition(g, ph))
         /\ transition(g, ph).participants = g.participants
         /\ transition(g, ph).phase \in {g.phase, ph}
<1>1. [g EXCEPT !.phase = ph] \in Generations
  BY SMT DEF Generations
<1>2. /\ [g EXCEPT !.phase = ph].id = g.id /\ [g EXCEPT !.phase = ph].phase = ph
      /\ [g EXCEPT !.phase = ph].agents = g.agents /\ [g EXCEPT !.phase = ph].instances = g.instances
      /\ [g EXCEPT !.phase = ph].participants = g.participants
  BY SMT DEF Generations
<1>3. CASE GenerationAllows(g.phase, ph)
  <2>1. transition(g, ph) = [g EXCEPT !.phase = ph]
    BY <1>3 DEF transition
  <2> QED
    BY <1>1, <1>2, <2>1 DEF SameWorld
<1>4. CASE ~GenerationAllows(g.phase, ph)
  <2>1. transition(g, ph) = g
    BY <1>4 DEF transition
  <2> QED
    BY <2>1 DEF SameWorld
<1> QED
  BY <1>3, <1>4

(* quiesce and abort move a generation on.                                 *)
LEMMA QuiesceMoves ==
  ASSUME NEW g \in Generations
  PROVE  Moves(g, quiesce(g)) /\ Moves(g, abort(g))
<1>1. "aborting" \in GenerationPhases /\ "quiescing" \in GenerationPhases
  BY DEF GenerationPhases, RetiringPhases
<1>2. \A x \in StartPhases : x \notin {"aborting", "stopped", "none"}
  BY DEF StartPhases
<1>3. Moves(g, g)
  BY MovesNot
<1>4. g.phase \notin {"aborting", "stopped"} => Moves(g, transition(g, "aborting"))
  BY <1>1, TransitionFields DEF Moves, Onward
<1>5. g.phase = "executable" => Moves(g, transition(g, "quiescing"))
  BY <1>1, TransitionFields DEF Moves, Onward
<1>6. Moves(g, quiesce(g))
  BY <1>2, <1>3, <1>4, <1>5 DEF quiesce
<1>7. Moves(g, abort(g))
  BY <1>3, <1>4 DEF abort
<1> QED
  BY <1>6, <1>7

(* The failures the daemon records, alone or followed by a retirement.     *)
LEMMA FailureMoves ==
  ASSUME NEW g \in Generations
  PROVE  /\ Moves(g, abort(record_owner_failure(g)))
         /\ Moves(g, abort(record_control_failure(g)))
         /\ Moves(g, quiesce(record_owner_failure(g)))
         /\ Moves(g, reject_report(g))
         /\ \A r \in Ranks : Moves(g, record_initialized(g, r))
         /\ \A r \in Ranks, b \in BOOLEAN : Moves(g, instance_departed(g, r, b))
<1>1. /\ record_owner_failure(g) \in Generations /\ Moves(g, record_owner_failure(g))
      /\ record_control_failure(g) \in Generations /\ Moves(g, record_control_failure(g))
  BY MovesFlags DEF record_owner_failure, record_control_failure, Moves, SameWorld
<1>2. /\ Moves(g, abort(record_owner_failure(g)))
      /\ Moves(g, abort(record_control_failure(g)))
      /\ Moves(g, quiesce(record_owner_failure(g)))
  BY <1>1, QuiesceMoves, MovesCompose
<1>3. Moves(g, reject_report(g))
  BY <1>2, MovesNot DEF reject_report
<1>4. ASSUME NEW r \in Ranks
      PROVE  Moves(g, record_initialized(g, r))
  <2>1. g.initialized \cup {r} \in SUBSET Ranks
    BY GenerationFields
  <2> QED
    BY <2>1, MovesFlags DEF record_initialized
<1>5. ASSUME NEW r \in Ranks, NEW b \in BOOLEAN
      PROVE  Moves(g, instance_departed(g, r, b))
  <2> DEFINE h == [g EXCEPT !.initialized = @ \ {r}]
  <2>1. g.initialized \ {r} \in SUBSET Ranks
    BY GenerationFields
  <2>2. Moves(g, h) /\ h \in Generations
    BY <2>1, MovesFlags DEF Moves, SameWorld
  <2>3. Moves(h, record_owner_failure(h)) /\ record_owner_failure(h) \in Generations
    BY <2>2, MovesFlags DEF record_owner_failure, Moves, SameWorld
  <2>4. Moves(g, quiesce(record_owner_failure(h)))
    BY <2>2, <2>3, QuiesceMoves, MovesCompose
  <2>5. instance_departed(g, r, b) \in {g, h, quiesce(record_owner_failure(h))}
    BY DEF instance_departed
  <2> QED
    BY <2>2, <2>4, <2>5, MovesNot
<1> QED
  BY <1>2, <1>3, <1>4, <1>5

(* advance_barrier changes nothing or completes the barrier of the phase.  *)
LEMMA BarrierPasses ==
  ASSUME NEW g \in Generations
  PROVE  /\ SameWorld(g, advance_barrier(g))
         /\ advance_barrier(g).participants = g.participants
         /\ advance_barrier(g).phase = g.phase \/ Passes(g, advance_barrier(g))
<1> DEFINE h == advance_barrier(g)
<1> DEFINE done == /\ g.phase \in DOMAIN barrier
                   /\ \A pe \in Pes : g.participants[pe] # None
                                      /\ g.participants[pe].phase = barrier[g.phase][1]
<1>1. CASE ~done
  <2>1. h = g
    BY <1>1 DEF advance_barrier
  <2> QED
    BY <2>1 DEF SameWorld
<1>2. CASE done
  <2>1. h = transition(g, barrier[g.phase][2])
    BY <1>2 DEF advance_barrier
  <2>2. DOMAIN barrier = {"preparing_join", "joining", "preparing_execution", "activating",
                          "quiescing", "draining", "finalizing"}
    BY SMT DEF barrier
  <2>3. /\ barrier["preparing_join"][2] = "joining"
        /\ barrier["joining"][2] = "preparing_execution"
        /\ barrier["preparing_execution"][2] = "activating"
        /\ barrier["activating"][1] = "active" /\ barrier["activating"][2] = "executable"
        /\ barrier["quiescing"][1] = "quiesced" /\ barrier["quiescing"][2] = "draining"
        /\ barrier["draining"][1] = "drained" /\ barrier["draining"][2] = "finalizing"
        /\ barrier["finalizing"][1] = "finalized" /\ barrier["finalizing"][2] = "stopped"
    BY SMT DEF barrier
  <2> DEFINE next == barrier[g.phase][2]
  <2>4. next \in GenerationPhases
    BY <1>2, <2>2, <2>3 DEF GenerationPhases, StartPhases, RetiringPhases
  <2>5. /\ SameWorld(g, h) /\ h.participants = g.participants /\ h.phase \in {g.phase, next}
    BY <2>1, <2>4, TransitionFields
  <2>6. ASSUME h.phase = next
        PROVE  Passes(g, h)
    <3> DEFINE at == barrier[g.phase][1]
    <3>1. AllAt(h, at)
      BY <1>2, <2>5 DEF AllAt
    <3>2. CASE g.phase \in {"preparing_join", "joining", "preparing_execution"}
      <4>1. h.phase \in {"joining", "preparing_execution", "activating"} /\ g.phase \in StartPhases
        BY <2>6, <3>2, <2>3 DEF StartPhases
      <4> QED
        BY <4>1 DEF Passes, Early, StartPhases
    <3>3. CASE g.phase = "activating"
      <4>1. h.phase = "executable" /\ AllAt(h, "active")
        BY <2>6, <3>1, <3>3, <2>3
      <4> QED
        BY <3>3, <4>1 DEF Passes, Early, StartPhases
    <3>4. CASE g.phase \in {"quiescing", "draining", "finalizing"}
      BY <2>6, <3>1, <3>4, <2>3 DEF Passes
    <3> QED
      BY <1>2, <2>2, <3>2, <3>3, <3>4
  <2> QED
    BY <2>5, <2>6
<1> QED
  BY <1>1, <1>2

(* The fields of a generation that has recorded a report.                  *)
Recorded(g, x, i, c) == [g EXCEPT !.participants = x, !.invocation = i, !.control = c]

(***************************************************************************)
(* Recording a report changes the participants and the two cause flags     *)
(* only.                                                                   *)
(***************************************************************************)
LEMMA RecordedFields ==
  ASSUME NEW g \in Generations, NEW x \in [Pes -> MaybeReport], NEW i \in BOOLEAN, NEW c \in BOOLEAN,
         NEW h, h = Recorded(g, x, i, c)
  PROVE  /\ h \in Generations /\ h.participants = x /\ h.phase = g.phase
         /\ h.id = g.id /\ h.agents = g.agents /\ h.instances = g.instances
<1>0. Recorded(g, x, i, c) \in Generations
  BY DEF Generations, Recorded
<1>1. h \in Generations
  BY <1>0
<1>2. /\ h.participants = x /\ h.phase = g.phase
      /\ h.id = g.id /\ h.agents = g.agents /\ h.instances = g.instances
  BY DEF Generations, Recorded
<1> QED
  BY <1>1, <1>2

(***************************************************************************)
(* A report is refused, which may move the generation on, repeats the      *)
(* recorded one, or is accepted.                                           *)
(***************************************************************************)
LEMMA RecordedReport ==
  ASSUME NEW g \in Generations, NEW pe \in Pes, NEW r \in Reports
  PROVE  LET o == record_participant(g, pe, r) IN
         \/ Moves(g, o.g) /\ (o.ok => g.participants[pe] = r)
         \/ Accepts(g, pe, r, o.g)
<1> DEFINE o == record_participant(g, pe, r)
<1>1. Moves(g, g) /\ Moves(g, reject_report(g))
  BY MovesNot, FailureMoves
<1>2. CASE g.participants[pe] = r
  <2>1. o = [g |-> g, ok |-> TRUE]
    BY <1>2 DEF record_participant
  <2>2. o.g = g /\ o.ok = TRUE
    BY <2>1, SMT
  <2> QED
    BY <1>1, <1>2, <2>2
<1>3. CASE g.participants[pe] # r /\ g.phase = "stopped"
  <2>1. o = [g |-> g, ok |-> FALSE]
    BY <1>3 DEF record_participant
  <2>2. o.g = g /\ o.ok = FALSE
    BY <2>1, SMT
  <2> QED
    BY <1>1, <2>2
<1>4. CASE g.participants[pe] # r /\ g.phase # "stopped" /\ Refused(g, pe, r)
  <2>1. o = [g |-> reject_report(g), ok |-> FALSE]
    BY <1>4 DEF record_participant
  <2>2. o.g = reject_report(g) /\ o.ok = FALSE
    BY <2>1, SMT
  <2> QED
    BY <1>1, <2>2
<1>5. CASE g.participants[pe] # r /\ g.phase # "stopped" /\ ~Refused(g, pe, r)
  <2>1. o.g = Committed(g, pe, r)
    BY <1>5 DEF record_participant
  <2> DEFINE h == [g EXCEPT !.participants[pe] = r,
                            !.invocation = @ \/ r.invocation,
                            !.control = @ \/ r.control]
  <2> DEFINE reports == [g.participants EXCEPT ![pe] = r]
             invocation == g.invocation \/ r.invocation
             control == g.control \/ r.control
  <2>2. reports \in [Pes -> MaybeReport] /\ invocation \in BOOLEAN /\ control \in BOOLEAN
    BY GenerationFields DEF MaybeReport
  <2>3. h = Recorded(g, reports, invocation, control)
    BY DEF Recorded
  <2> HIDE DEF h, reports, invocation, control
  <2>4. /\ h \in Generations /\ h.id = g.id /\ h.agents = g.agents /\ h.instances = g.instances
        /\ h.phase = g.phase /\ h.participants = reports
    BY <2>2, <2>3, RecordedFields, SMT
  <2>5. h.participants = [g.participants EXCEPT ![pe] = r]
    BY <2>4 DEF reports
  <2>6. Committed(g, pe, r) \in {abort(h), quiesce(h), advance_barrier(h)}
    BY DEF Committed, h
  <2>7. g.phase \in {"draining", "finalizing"} /\ AllPast(g) => r.phase \in PostQuiesce
    <3> SUFFICES ASSUME g.phase \in {"draining", "finalizing"}, AllPast(g)
                 PROVE  r.phase \in PostQuiesce
      OBVIOUS
    <3>1. g.participants[pe] # None /\ g.participants[pe].phase \in PostQuiesce
      BY DEF AllPast
    <3>2. \/ g.participants[pe].phase = r.phase
          \/ r.phase \in allowed_phases(g.phase)
      BY <1>5, <3>1 DEF Refused
    <3>3. allowed_phases("draining") = {"draining", "drained"} /\ allowed_phases("finalizing") = {"finalized"}
      BY SMT DEF allowed_phases
    <3> QED
      BY <3>1, <3>2, <3>3 DEF PostQuiesce
  <2>8. ASSUME NEW k, SameWorld(h, k), k.participants = h.participants,
               Onward(h.phase, k.phase) \/ Passes(h, k)
        PROVE  Accepts(g, pe, r, k)
    <3>1. SameWorld(g, k) /\ k.participants = [g.participants EXCEPT ![pe] = r]
      BY <2>8, <2>4, <2>5 DEF SameWorld
    <3>2. Onward(g.phase, k.phase) \/ Passes(g, k)
      BY <2>8, <2>4 DEF Passes
    <3> QED
      BY <1>5, <2>7, <3>1, <3>2 DEF Accepts
  <2>9. Moves(h, abort(h)) /\ Moves(h, quiesce(h))
    BY <2>4, QuiesceMoves
  <2>10. /\ SameWorld(h, advance_barrier(h)) /\ advance_barrier(h).participants = h.participants
         /\ Onward(h.phase, advance_barrier(h).phase) \/ Passes(h, advance_barrier(h))
    BY <2>4, BarrierPasses DEF Onward
  <2>11. \A k \in {abort(h), quiesce(h), advance_barrier(h)} : Accepts(g, pe, r, k)
    BY <2>8, <2>9, <2>10 DEF Moves
  <2> QED
    BY <2>1, <2>6, <2>11
<1> QED
  BY <1>2, <1>3, <1>4, <1>5

-----------------------------------------------------------------------------
(* Progress and the daemon's side.                                         *)

(* The claims of a live Agent are backed.                                  *)
Backing(g, lt, p, a) ==
  \A ph \in ParticipantPhases : Claims(g, a, lt, p, ph) => Backed(g, p, a, ph)

(* A handler that moves the generation on, or ends its cleanup.            *)
LEMMA ProgressMoves ==
  ASSUME NEW g \in Generations, NEW h, NEW ag, NEW lt, NEW al, NEW n,
         Progress(g, ag, lt, al, n), Moves(g, h) \/ Halts(g, h, al)
  PROVE  Progress(h, ag, lt, al, n)
<1>1. /\ h.id = g.id /\ h.agents = g.agents /\ h.instances = g.instances
      /\ h.participants = g.participants /\ g.id # 0
  BY GenerationFields DEF Moves, Halts, SameWorld
<1>2. /\ h.phase \in Early => g.phase \in Early
      /\ g.phase = "stopped" => h.phase = "stopped"
      /\ h.phase = "executable" => g.phase = "executable"
      /\ h.phase \in {"draining", "finalizing"} => h.phase = g.phase
      /\ h.phase = "stopped" => g.phase = "stopped" \/ \A r \in Ranks : g.instances[r] \notin al
  BY DEF Moves, Halts, Onward, Early, StartPhases
<1>3. \A v : Behind(v, g.phase) => Behind(v, h.phase)
  BY <1>2 DEF Behind
<1>4. \A p \in AgentProcs : AgentInv(h, p, ag[p], n)
  BY <1>1, <1>3 DEF Progress, AgentInv
<1>5. \A a, p, ph : Claims(h, a, lt, p, ph) => Claims(g, a, lt, p, ph)
  BY <1>1, SMT DEF Claims
<1>6. \A a, p, ph : Backed(g, p, a, ph) => Backed(h, p, a, ph)
  BY <1>1, <1>2, SMT DEF Backed
<1>7. AllPast(h) <=> AllPast(g)
  BY <1>1 DEF AllPast
<1>8. \A a : SeesFinalizing(h, a) <=> SeesFinalizing(g, a)
  BY <1>1 DEF SeesFinalizing
<1>9. GenerationInv(g, ag, al)
  BY <1>1 DEF Progress
<1>10. GenerationInv(h, ag, al)
  <2>1. h.phase = "executable" =>
          \A pe \in Pes : h.agents[pe] \in al => ag[h.agents[pe]].native = "active"
    BY <1>1, <1>2, <1>9 DEF GenerationInv
  <2>2. h.phase \in {"draining", "finalizing"} => AllPast(h)
    BY <1>2, <1>7, <1>9 DEF GenerationInv
  <2>3. h.phase = "stopped" => AllPast(h) \/ \A r \in Ranks : h.instances[r] \notin al
    BY <1>1, <1>2, <1>7, <1>9 DEF GenerationInv
  <2>4. h.phase = "finalizing" \/ (\E p \in AgentProcs : SeesFinalizing(h, ag[p])) =>
          \A pe \in Pes : h.agents[pe] \in al => ag[h.agents[pe]].native \in Done
    BY <1>1, <1>2, <1>8, <1>9 DEF GenerationInv
  <2> QED
    BY <2>1, <2>2, <2>3, <2>4 DEF GenerationInv
<1>11. /\ h.id <= n
       /\ \A m \in lt : m.id <= n /\ ag[m.by].pc \notin {"off", "admit"}
  BY <1>1 DEF Progress
<1>12. \A p \in AgentProcs \cap al : \A ph \in ParticipantPhases :
         Claims(h, ag[p], lt, p, ph) => Backed(h, p, ag[p], ph)
  BY <1>1, <1>5, <1>6 DEF Progress
<1>13. Placed(h)
  BY <1>1 DEF Progress, Placed
<1> QED
  BY <1>4, <1>10, <1>11, <1>12, <1>13 DEF Progress

(* An accepted report that its Agent claimed.                              *)
LEMMA ProgressAccepts ==
  ASSUME NEW g \in Generations, NEW h, NEW ag, NEW lt, NEW al, NEW n,
         NEW pe \in Pes, NEW r \in Reports,
         Progress(g, ag, lt, al, n), Accepts(g, pe, r, h),
         Claims(g, ag[g.agents[pe]], lt, g.agents[pe], r.phase)
  PROVE  Progress(h, ag, lt, al, n)
<1>1. /\ h.id = g.id /\ h.agents = g.agents /\ h.instances = g.instances /\ g.id # 0
      /\ h.participants = [g.participants EXCEPT ![pe] = r] /\ g.phase # "stopped"
  BY GenerationFields DEF Accepts, SameWorld
<1>2. /\ h.participants[pe] = r
      /\ \A q \in Pes : q # pe => h.participants[q] = g.participants[q]
  BY <1>1, GenerationFields
<1>3. r.phase \in ParticipantPhases
  BY DEF Reports
<1>4. h.phase \in Early => g.phase \in Early
  BY DEF Accepts, Onward, Passes, Early, StartPhases
<1>5. \A v : Behind(v, g.phase) => Behind(v, h.phase)
  BY <1>1, <1>4 DEF Behind
<1>6. \A p \in AgentProcs : AgentInv(h, p, ag[p], n)
  BY <1>1, <1>5 DEF Progress, AgentInv
<1>7. ASSUME NEW p \in AgentProcs, NEW ph, Claims(h, ag[p], lt, p, ph)
      PROVE  Claims(g, ag[p], lt, p, ph)
  <2>1. slot[p] \in Pes
    BY DEF AgentProcs
  <2>2. CASE slot[p] = pe /\ g.agents[slot[p]] = p
    <3>1. \/ h.participants[slot[p]].phase = ph
          \/ Claims(g, ag[p], lt, p, ph)
      BY <1>1, <1>7 DEF Claims
    <3>2. h.participants[slot[p]] = r /\ p = g.agents[pe]
      BY <1>2, <2>2
    <3> QED
      BY <3>1, <3>2
  <2>3. CASE slot[p] # pe \/ g.agents[slot[p]] # p
    BY <1>1, <1>2, <1>7, <2>1, <2>3 DEF Claims
  <2> QED
    BY <2>2, <2>3
<1>8. \A a, p, ph : Backed(g, p, a, ph) => Backed(h, p, a, ph)
  BY <1>1, <1>4, SMT DEF Backed
<1>9. /\ h.id <= n
      /\ \A m \in lt : m.id <= n /\ ag[m.by].pc \notin {"off", "admit"}
  BY <1>1 DEF Progress
<1>10. \A p \in AgentProcs \cap al : \A ph \in ParticipantPhases :
         Claims(h, ag[p], lt, p, ph) => Backed(g, p, ag[p], ph)
  BY <1>1, <1>7 DEF Progress
<1>11. GenerationInv(g, ag, al)
  BY <1>1 DEF Progress
<1>12. ASSUME NEW ph \in ParticipantPhases, AllAt(h, ph), NEW q \in Pes, g.agents[q] \in al
       PROVE  Backed(g, g.agents[q], ag[g.agents[q]], ph)
  <2> DEFINE p == g.agents[q]
  <2>1. p \in AgentProcs \cap al /\ slot[p] = q
    BY <1>1, <1>12 DEF Progress, Placed
  <2>2. h.agents[slot[p]] = p /\ h.participants[slot[p]] # None /\ h.participants[slot[p]].phase = ph
    BY <1>1, <1>12, <2>1 DEF AllAt
  <2>3. Claims(h, ag[p], lt, p, ph)
    BY <2>2 DEF Claims
  <2> QED
    BY <1>10, <2>1, <2>3
<1>13. \A a : SeesFinalizing(h, a) <=> SeesFinalizing(g, a)
  BY <1>1 DEF SeesFinalizing
<1>14. {"active", "quiesced", "drained", "finalized"} \subseteq ParticipantPhases
  BY DEF ParticipantPhases
<1>15. \A ph \in PostQuiesce : AllAt(h, ph) => AllPast(h)
  BY DEF AllAt, AllPast
<1>16. GenerationInv(h, ag, al)
  <2>1. ASSUME h.phase = "executable", NEW q \in Pes, h.agents[q] \in al
        PROVE  ag[h.agents[q]].native = "active"
    <3>1. CASE g.phase = "executable"
      BY <1>1, <1>11, <2>1, <3>1 DEF GenerationInv
    <3>2. CASE g.phase # "executable"
      <4>1. AllAt(h, "active") /\ g.phase \in Early
        BY <2>1, <3>2, <1>4 DEF Accepts, Onward, Passes, Early
      <4>2. Backed(g, g.agents[q], ag[g.agents[q]], "active")
        BY <1>1, <1>12, <1>14, <2>1, <4>1
      <4> QED
        BY <1>1, <4>1, <4>2 DEF Backed
    <3> QED
      BY <3>1, <3>2
  <2>2. ASSUME h.phase \in {"draining", "finalizing"}
        PROVE  AllPast(h)
    <3>1. CASE g.phase = h.phase
      <4>1. AllPast(g) /\ r.phase \in PostQuiesce
        BY <1>11, <2>2, <3>1 DEF GenerationInv, Accepts
      <4>2. r # None
        BY ReportAssumption
      <4> QED
        BY <1>2, <4>1, <4>2 DEF AllPast
    <3>2. CASE g.phase # h.phase
      <4>1. AllAt(h, "quiesced") \/ AllAt(h, "drained")
        BY <2>2, <3>2 DEF Accepts, Onward, Passes, Early, StartPhases
      <4> QED
        BY <4>1, <1>15 DEF PostQuiesce
    <3> QED
      BY <3>1, <3>2
  <2>3. ASSUME h.phase = "stopped"
        PROVE  AllPast(h)
    <3>1. AllAt(h, "finalized")
      BY <2>3, <1>1 DEF Accepts, Onward, Passes, Early, StartPhases
    <3> QED
      BY <3>1, <1>15 DEF PostQuiesce
  <2>4. ASSUME h.phase = "finalizing" \/ (\E p \in AgentProcs : SeesFinalizing(h, ag[p])),
               NEW q \in Pes, h.agents[q] \in al
        PROVE  ag[h.agents[q]].native \in Done
    <3>1. CASE g.phase = "finalizing" \/ (\E p \in AgentProcs : SeesFinalizing(g, ag[p]))
      BY <1>1, <1>11, <2>4, <3>1 DEF GenerationInv
    <3>2. CASE ~(g.phase = "finalizing" \/ (\E p \in AgentProcs : SeesFinalizing(g, ag[p])))
      <4>1. h.phase = "finalizing" /\ g.phase # "finalizing"
        BY <1>13, <2>4, <3>2
      <4>2. AllAt(h, "drained")
        BY <4>1 DEF Accepts, Onward, Passes, Early, StartPhases
      <4>3. Backed(g, g.agents[q], ag[g.agents[q]], "drained")
        BY <1>1, <1>12, <1>14, <2>4, <4>2
      <4> QED
        BY <1>1, <4>3 DEF Backed
    <3> QED
      BY <3>1, <3>2
  <2> QED
    BY <2>1, <2>2, <2>3, <2>4 DEF GenerationInv
<1>17. Placed(h)
  BY <1>1 DEF Progress, Placed
<1> QED
  BY <1>6, <1>8, <1>9, <1>10, <1>16, <1>17 DEF Progress

(* A generation whose owners have all left is retired.                     *)
LEMMA ProgressRetires ==
  ASSUME NEW g \in Generations, NEW ag, NEW lt, NEW al, NEW n \in Nat,
         Progress(g, ag, lt, al, n), Owners(g) \cap al = {},
         \A p \in AgentProcs : ag[p].report # None => p \in al
  PROVE  Progress(NoGeneration, ag, lt, al, n)
<1>1. NoGeneration.id = 0
  BY DEF NoGeneration
<1>2. ASSUME NEW p \in AgentProcs
      PROVE  AgentInv(NoGeneration, p, ag[p], n)
  <2>1. AgentInv(g, p, ag[p], n)
    BY DEF Progress
  <2>2. ag[p].report = None
    <3> SUFFICES ASSUME ag[p].report # None PROVE FALSE
      OBVIOUS
    <3>1. g.agents[slot[p]] = p /\ slot[p] \in Pes
      BY <2>1 DEF AgentInv, AgentProcs
    <3>2. p \in Owners(g)
      BY <3>1 DEF Owners
    <3> QED
      BY <3>2
  <2> QED
    BY <1>1, <2>1, <2>2 DEF AgentInv
<1>3. 0 <= n
  BY SMT
<1> QED
  BY <1>1, <1>2, <1>3 DEF Progress

(* A new generation, of which no Agent knows anything.                     *)
LEMMA ProgressInstalls ==
  ASSUME NEW g, g.id = 0, NEW h \in Generations, NEW lt \in SUBSET Messages, NEW al, NEW n \in Nat,
         NEW ag \in [AgentProcs -> AgentRecord], Progress(g, ag, lt, al, n),
         Placed(h), h.id = n + 1, h.phase = "preparing_join", h.participants = [pe \in Pes |-> None]
  PROVE  Progress(h, ag, lt, al, n + 1)
<1>1. \A p \in AgentProcs : /\ ag[p].plan \in Nat
                            /\ ag[p].inbox # None => ag[p].inbox.id \in Nat
  BY SMT DEF AgentRecord, Snapshots
<1>2. \A m \in lt : m.id \in Nat
  BY SMT DEF Messages
<1>3. \A x \in Nat : x <= n => x <= n + 1 /\ x # n + 1
  BY SMT
<1>4. n + 1 # 0 /\ n + 1 <= n + 1
  BY SMT
<1>5. \A p \in AgentProcs : /\ AgentInv(g, p, ag[p], n) /\ ag[p].report = None
                            /\ ag[p].plan # h.id /\ ag[p].plan <= n + 1
                            /\ ag[p].inbox # None => ag[p].inbox.id # h.id /\ ag[p].inbox.id <= n + 1
  BY <1>1, <1>3 DEF Progress, AgentInv
<1>6. \A p \in AgentProcs : AgentInv(h, p, ag[p], n + 1)
  BY <1>5 DEF AgentInv
<1>7. \A m \in lt : m.id <= n + 1 /\ m.id # h.id /\ ag[m.by].pc \notin {"off", "admit"}
  BY <1>2, <1>3 DEF Progress
<1>8. ASSUME NEW p \in AgentProcs, NEW ph
      PROVE  ~Claims(h, ag[p], lt, p, ph)
  <2>1. h.participants[slot[p]] = None
    BY DEF AgentProcs
  <2> QED
    BY <1>5, <1>7, <2>1 DEF Claims
<1>9. \A p \in AgentProcs : ~SeesFinalizing(h, ag[p])
  BY <1>5 DEF SeesFinalizing
<1>10. GenerationInv(h, ag, al)
  BY <1>9 DEF GenerationInv
<1> QED
  BY <1>4, <1>6, <1>7, <1>8, <1>10 DEF Progress

-----------------------------------------------------------------------------
(* Progress and the Agents' side.                                          *)

(***************************************************************************)
(* Firm: the step of an Agent from a to b takes nothing back that its      *)
(* reports claim.                                                          *)
(***************************************************************************)
Left == {"release", "retained"}

Firm(g, a, b) ==
  /\ a.plan = g.id \/ a.pc \in Left => b.plan = g.id \/ b.pc \in Left
  /\ a.native = "active" /\ g.phase \in Early => b.native = "active"
  /\ a.native \in Done => b.native \in Done
  /\ a.arenas = "drained" => b.arenas = "drained" \/ (PreJoin(a) /\ a.pc \notin Left)
  /\ b.plan = g.id => a.plan = g.id /\ (~PreJoin(a) => ~PreJoin(b))

(* A firm step keeps what backs a report.                                  *)
LEMMA FirmBacked ==
  ASSUME NEW g, NEW p, NEW a, NEW b, NEW ph, Firm(g, a, b), Backed(g, p, a, ph)
  PROVE  Backed(g, p, b, ph)
<1>1. a.plan = g.id \/ a.pc \in Left
  BY DEF Backed, Left
<1>2. b.plan = g.id \/ b.pc \in Left
  BY <1>1 DEF Firm
<1>3. ph = "active" /\ g.phase \in Early => b.native = "active"
  BY DEF Firm, Backed
<1>4. ph \in {"drained", "finalized"} => b.native \in Done
  BY DEF Firm, Backed
<1>5. ph \in PostQuiesce => (b.plan = g.id => ~PreJoin(b))
  BY DEF Firm, Backed
<1>6. ph \in PostQuiesce => (slot[p] \in Atn => b.arenas = "drained")
  BY <1>1 DEF Firm, Backed
<1> QED
  BY <1>2, <1>3, <1>4, <1>5, <1>6 DEF Backed, Left

(* One Agent's record changes.                                             *)
LEMMA ProgressAgent ==
  ASSUME NEW g, NEW ag \in [AgentProcs -> AgentRecord], NEW lt \in SUBSET Messages, NEW al, NEW n,
         NEW p \in AgentProcs, NEW b \in AgentRecord,
         Progress(g, ag, lt, al, n), AgentInv(g, p, b, n), b.pc \notin {"off", "admit"},
         g.id # 0 =>
           /\ p \in al => Backing(g, lt, p, b)
           /\ ag[p].native = "active" /\ g.phase \in Early => b.native = "active"
           /\ ag[p].native \in Done => b.native \in Done
           /\ SeesFinalizing(g, b) => SeesFinalizing(g, ag[p]) \/ g.phase = "finalizing"
  PROVE  Progress(g, [ag EXCEPT ![p] = b], lt, al, n)
<1> DEFINE new == [ag EXCEPT ![p] = b]
<1>1. new[p] = b /\ \A q \in AgentProcs : q # p => new[q] = ag[q]
  OBVIOUS
<1>2. \A m \in lt : m.by \in AgentProcs
  BY SMT DEF Messages
<1> HIDE DEF new
<1>3. \A q \in AgentProcs : AgentInv(g, q, new[q], n)
  BY <1>1 DEF Progress
<1>4. /\ g.id <= n
      /\ \A m \in lt : m.id <= n /\ new[m.by].pc \notin {"off", "admit"}
  BY <1>1, <1>2 DEF Progress
<1>5. ASSUME g.id # 0
      PROVE  /\ \A q \in AgentProcs \cap al : \A ph \in ParticipantPhases :
                  Claims(g, new[q], lt, q, ph) => Backed(g, q, new[q], ph)
             /\ GenerationInv(g, new, al)
  <2>1. ASSUME NEW q \in AgentProcs \cap al, NEW ph \in ParticipantPhases,
               Claims(g, new[q], lt, q, ph)
        PROVE  Backed(g, q, new[q], ph)
    <3>1. CASE q = p
      BY <1>1, <1>5, <2>1, <3>1 DEF Backing
    <3>2. CASE q # p
      BY <1>1, <1>5, <2>1, <3>2 DEF Progress
    <3> QED
      BY <3>1, <3>2
  <2>2. GenerationInv(g, ag, al)
    BY <1>5 DEF Progress
  <2>3. \A q \in AgentProcs :
          /\ ag[q].native = "active" /\ g.phase \in Early => new[q].native = "active"
          /\ ag[q].native \in Done => new[q].native \in Done
    BY <1>1, <1>5
  <2>4. g.phase = "finalizing" \/ (\E q \in AgentProcs : SeesFinalizing(g, new[q])) =>
          g.phase = "finalizing" \/ (\E q \in AgentProcs : SeesFinalizing(g, ag[q]))
    BY <1>1, <1>5
  <2>5. "executable" \in Early
    BY DEF Early
  <2>6. \A pe \in Pes : g.agents[pe] \in AgentProcs
    BY <1>5 DEF Progress, Placed
  <2>7. GenerationInv(g, new, al)
    BY <2>2, <2>3, <2>4, <2>5, <2>6 DEF GenerationInv
  <2> QED
    BY <2>1, <2>7
<1> QED
  BY <1>3, <1>4, <1>5 DEF Progress, new

(***************************************************************************)
(* The generic step of an Agent that keeps its plan, or gives it up: what  *)
(* its new reports claim was claimed before or is backed now.              *)
(***************************************************************************)
LEMMA CarriedOver ==
  ASSUME NEW g, NEW lt, NEW al, NEW n \in Nat, NEW p \in AgentProcs, NEW a, NEW b,
         AgentInv(g, p, a, n), g.id # 0 /\ p \in al => Backing(g, lt, p, a) /\ Firm(g, a, b),
         RecordInv(b), (b.plan = a.plan /\ b.view = a.view) \/ b.plan = 0,
         b.inbox \in {a.inbox, None},
         b.report # None => b.plan # 0 /\ g.id = b.plan /\ g.agents[slot[p]] = p,
         g.id # 0 /\ p \in al => \A f \in {b.sent, b.report} : f # None /\ b.plan = g.id =>
           Claims(g, a, lt, p, f.phase) \/ Backed(g, p, b, f.phase),
         b.pc = "finalize" => a.pc = "finalize" \/ a.view = "finalizing"
  PROVE  /\ AgentInv(g, p, b, n)
         /\ g.id # 0 => /\ p \in al => Backing(g, lt, p, b)
                        /\ SeesFinalizing(g, b) => SeesFinalizing(g, a)
<1>1. 0 <= n
  BY SMT
<1>2. b.plan <= n
  BY <1>1 DEF AgentInv
<1>3. AgentInv(g, p, b, n)
  BY <1>2 DEF AgentInv
<1>4. ASSUME g.id # 0, p \in al
      PROVE  Backing(g, lt, p, b)
  <2> SUFFICES ASSUME NEW ph \in ParticipantPhases, Claims(g, b, lt, p, ph)
               PROVE  Backed(g, p, b, ph)
    BY DEF Backing
  <2>1. Claims(g, a, lt, p, ph) \/ Backed(g, p, b, ph)
    BY <1>4 DEF Claims
  <2>2. Claims(g, a, lt, p, ph) => Backed(g, p, a, ph)
    BY <1>4 DEF Backing
  <2> QED
    BY <1>4, <2>1, <2>2, FirmBacked
<1>5. ASSUME g.id # 0
      PROVE  SeesFinalizing(g, b) => SeesFinalizing(g, a)
  BY <1>5 DEF SeesFinalizing
<1> QED
  BY <1>3, <1>4, <1>5

(* A process exits, and an Agent takes its record with it.                 *)
LEMMA ProgressExit ==
  ASSUME NEW g, NEW ag \in [AgentProcs -> AgentRecord], NEW lt \in SUBSET Messages, NEW al,
         NEW n \in Nat, NEW p \in AgentProcs, NEW pc \in {"exited", "crashed"},
         Progress(g, ag, lt, al, n)
  PROVE  Progress(g, [ag EXCEPT ![p] = Gone(pc)], lt, al \ {p}, n)
<1> DEFINE new == [ag EXCEPT ![p] = Gone(pc)]
<1>1. /\ Gone(pc).pc = pc /\ Gone(pc).plan = 0 /\ Gone(pc).inbox = None /\ Gone(pc).report = None
      /\ Gone(pc).sent = None
  BY SMT DEF Gone, Idle
<1>2. new[p] = Gone(pc) /\ \A q \in AgentProcs : q # p => new[q] = ag[q]
  OBVIOUS
<1>3. \A m \in lt : m.by \in AgentProcs
  BY SMT DEF Messages
<1> HIDE DEF new
<1>4. 0 <= n
  BY SMT
<1>5. AgentInv(g, p, Gone(pc), n)
  BY <1>1, <1>4 DEF AgentInv, RecordInv
<1>6. \A q \in AgentProcs : AgentInv(g, q, new[q], n)
  BY <1>2, <1>5 DEF Progress
<1>7. pc \notin {"off", "admit"}
  OBVIOUS
<1>8. /\ g.id <= n
      /\ \A m \in lt : m.id <= n /\ new[m.by].pc \notin {"off", "admit"}
  BY <1>1, <1>2, <1>3, <1>7 DEF Progress
<1>9. ASSUME g.id # 0
      PROVE  /\ \A q \in AgentProcs \cap (al \ {p}) : \A ph \in ParticipantPhases :
                  Claims(g, new[q], lt, q, ph) => Backed(g, q, new[q], ph)
             /\ GenerationInv(g, new, al \ {p})
  <2>1. \A q \in AgentProcs \cap (al \ {p}) : \A ph \in ParticipantPhases :
                  Claims(g, new[q], lt, q, ph) => Backed(g, q, new[q], ph)
    BY <1>2, <1>9 DEF Progress
  <2>2. GenerationInv(g, ag, al)
    BY <1>9 DEF Progress
  <2>3. ~SeesFinalizing(g, Gone(pc))
    BY <1>1, <1>9 DEF SeesFinalizing
  <2>4. (\E q \in AgentProcs : SeesFinalizing(g, new[q])) =>
          \E q \in AgentProcs : SeesFinalizing(g, ag[q])
    BY <1>2, <2>3
  <2>5. /\ \A q \in al \ {p} : q \in al /\ (q \in AgentProcs => new[q] = ag[q])
        /\ \A pe \in Pes : g.agents[pe] \in AgentProcs
    BY <1>2, <1>9 DEF Progress, Placed
  <2>6. GenerationInv(g, new, al \ {p})
    BY <2>2, <2>4, <2>5 DEF GenerationInv
  <2> QED
    BY <2>1, <2>6
<1> QED
  BY <1>6, <1>8, <1>9 DEF Progress, new

(* A process that is no Agent exits.                                       *)
LEMMA ProgressFewer ==
  ASSUME NEW g, NEW ag, NEW lt, NEW al, NEW more, NEW n, Progress(g, ag, lt, more, n),
         al \subseteq more
  PROVE  Progress(g, ag, lt, al, n)
<1>1. g.id # 0 => GenerationInv(g, ag, al)
  <2> SUFFICES ASSUME g.id # 0 PROVE GenerationInv(g, ag, al)
    OBVIOUS
  <2>1. GenerationInv(g, ag, more)
    BY DEF Progress
  <2> QED
    BY <2>1 DEF GenerationInv
<1>2. \A p \in AgentProcs \cap al : p \in AgentProcs \cap more
  OBVIOUS
<1> QED
  BY <1>1, <1>2 DEF Progress

(* A process starts that no generation and no report knows.                *)
LEMMA ProgressStart ==
  ASSUME NEW g, NEW ag, NEW lt, NEW al, NEW n, NEW p, Progress(g, ag, lt, al, n),
         g.id # 0 => /\ \A pe \in Pes : g.agents[pe] # p
                     /\ \A r \in Ranks : g.instances[r] # p
                     /\ p \in AgentProcs => ag[p].plan = 0 /\ \A m \in lt : m.by # p
  PROVE  Progress(g, ag, lt, al \cup {p}, n)
<1> SUFFICES ASSUME g.id # 0
             PROVE  /\ \A q \in AgentProcs \cap (al \cup {p}) : \A ph \in ParticipantPhases :
                         Claims(g, ag[q], lt, q, ph) => Backed(g, q, ag[q], ph)
                    /\ GenerationInv(g, ag, al \cup {p})
  BY DEF Progress
<1>1. GenerationInv(g, ag, al)
  BY DEF Progress
<1>2. p \in AgentProcs => \A ph : ~Claims(g, ag[p], lt, p, ph)
  BY DEF Claims, AgentProcs
<1>3. \A q \in AgentProcs \cap (al \cup {p}) : \A ph \in ParticipantPhases :
        Claims(g, ag[q], lt, q, ph) => Backed(g, q, ag[q], ph)
  BY <1>2 DEF Progress
<1>4. /\ \A pe \in Pes : g.agents[pe] \in al \cup {p} => g.agents[pe] \in al
      /\ \A r \in Ranks : g.instances[r] \in al \cup {p} => g.instances[r] \in al
  OBVIOUS
<1>5. GenerationInv(g, ag, al \cup {p})
  BY <1>1, <1>4 DEF GenerationInv
<1> QED
  BY <1>3, <1>5

(* Late reports come and go.                                               *)
LEMMA ProgressLate ==
  ASSUME NEW g, NEW ag, NEW lt, NEW al, NEW n, Progress(g, ag, lt, al, n)
  PROVE  /\ \A some \in SUBSET lt : Progress(g, ag, some, al, n)
         /\ \A p \in AgentProcs, m \in Messages :
              /\ ag[p].sent # None /\ m.by = p /\ m.id = ag[p].plan /\ m.report = ag[p].sent
              /\ ag[p].pc \notin {"off", "admit"}
              => Progress(g, ag, lt \cup {m}, al, n)
<1>1. ASSUME NEW some \in SUBSET lt
      PROVE  Progress(g, ag, some, al, n)
  <2>1. \A a, p, ph : Claims(g, a, some, p, ph) => Claims(g, a, lt, p, ph)
    BY SMT DEF Claims
  <2> QED
    BY <2>1 DEF Progress
<1>2. ASSUME NEW p \in AgentProcs, NEW m \in Messages, ag[p].sent # None, m.by = p, m.id = ag[p].plan,
             m.report = ag[p].sent, ag[p].pc \notin {"off", "admit"}
      PROVE  Progress(g, ag, lt \cup {m}, al, n)
  <2>1. \A q \in AgentProcs : \A ph : Claims(g, ag[q], lt \cup {m}, q, ph) => Claims(g, ag[q], lt, q, ph)
    <3> SUFFICES ASSUME NEW q \in AgentProcs, NEW ph, Claims(g, ag[q], lt \cup {m}, q, ph)
                 PROVE  Claims(g, ag[q], lt, q, ph)
      OBVIOUS
    <3>1. \/ Claims(g, ag[q], lt, q, ph)
          \/ m.by = q /\ m.id = g.id /\ m.report.phase = ph
      BY DEF Claims
    <3>2. ASSUME m.by = q, m.id = g.id, m.report.phase = ph
          PROVE  Claims(g, ag[q], lt, q, ph)
      <4>1. ag[q].plan = g.id /\ ag[q].sent # None /\ ag[q].sent.phase = ph
        BY <1>2, <3>2
      <4> QED
        BY <4>1 DEF Claims
    <3> QED
      BY <3>1, <3>2
  <2>2. m.id <= n
    BY <1>2 DEF Progress, AgentInv
  <2> QED
    BY <1>2, <2>1, <2>2 DEF Progress
<1> QED
  BY <1>1, <1>2

-----------------------------------------------------------------------------
(***************************************************************************)
(* Structure: what a step may do to each conjunct without disturbing it.   *)
(***************************************************************************)
Waiting == {"wait", "acquire", "attach", "init", "ready", "serving"}

AgentStays(a, b) ==
  /\ a.pc \notin {"off", "admit"} => b.pc \notin {"off", "admit"}
  /\ b.pc \notin Dead => a.pc \notin {"exited", "crashed"}
  /\ b.pc = "form" \/ b.registered => a.pc = "form" \/ a.registered
  /\ b.pc \notin Dead /\ (a.pc = "form" \/ a.registered) => b.pc = "form" \/ b.registered
  /\ b.plan # 0 \/ b.arenas # "none" => b.registered

InstanceStays(i, j) ==
  /\ i.pc # "off" => j.pc # "off"
  /\ j.pc = "form" \/ j.registered => i.pc = "form" \/ i.registered
  /\ j.pc \in Waiting \/ j.arena # None => j.registered
  /\ j.pc = "deregister" => j.arena = None

AgentsStay == \A p \in AgentProcs : AgentStays(agent[p], agent'[p])

AllStay ==
  /\ AgentsStay
  /\ \A p \in InstanceProcs : InstanceStays(inst[p], inst'[p])

SameBook ==
  \A s \in Slots : /\ book'[s] = None <=> book[s] = None
                   /\ book[s] # None => book'[s].proc = book[s].proc

SameOwners ==
  \A a \in Atn : /\ broker'[a] = None <=> broker[a] = None
                 /\ broker[a] # None => broker'[a].owner = broker[a].owner

BrokerStays ==
  /\ SameOwners
  /\ \A a \in Atn : broker[a] # None => /\ broker'[a].published = broker[a].published
                                        /\ broker'[a].accepting => broker[a].accepting

(* A captured roster may be dropped, or fall out of date.                  *)
FormingStays ==
  /\ forming' \in Rosters \cup {None}
  /\ forming' # None =>
       /\ forming # None /\ forming'.agents = forming.agents
       /\ forming'.instances = forming.instances
       /\ forming'.current => forming.current
       /\ forming'.probed => forming.probed

WorldStays ==
  \/ fabric' = fabric
  \/ /\ fabric \in Generations /\ SameWorld(fabric, fabric')
     /\ fabric'.phase \in Early => fabric.phase \in Early
  \/ fabric \in Generations /\ fabric' = NoGeneration /\ Owners(fabric) \cap alive = {}

(* An untouched roster stays.                                              *)
LEMMA FormingSame ==
  ASSUME TypeOK, forming' = forming
  PROVE  FormingStays
  BY DEF TypeOK, FormingStays

(* No record is lost to None, and a place has a process.                   *)
LEMMA StructureTypes ==
  ASSUME TypeOK
  PROVE  /\ \A p \in AgentProcs : agent[p] \in AgentRecord /\ p \in Procs /\ slot[p] \in Pes
         /\ \A p \in InstanceProcs : inst[p] \in InstanceRecord /\ p \in Procs /\ slot[p] \in Ranks
         /\ \A s \in Slots : book[s] # None => book[s] \in Registrations /\ book[s].proc \in Procs
         /\ \A a \in Atn : broker[a] # None => broker[a] \in Publications /\ broker[a].owner \in Procs
         /\ Pes \subseteq Slots /\ Ranks \subseteq Slots /\ Atn \subseteq Pes /\ Pes \cap Ranks = {}
         /\ \A p \in Procs : /\ slot[p] \in Slots /\ (slot[p] \in Pes => p \in AgentProcs)
                             /\ (slot[p] \in Ranks => p \in InstanceProcs)
         /\ fabric.id # 0 => fabric \in Generations
         /\ fabric \in Generations => fabric.id # 0 /\ \A pe \in Pes : fabric.agents[pe] \in Procs
         /\ fabric \in Generations => \A r \in Ranks : fabric.instances[r] \in Procs
         /\ forming # None => /\ \A pe \in Pes : forming.agents[pe] \in Procs
                              /\ \A r \in Ranks : forming.instances[r] \in Procs
         /\ NoGeneration.id = 0
<1>1. /\ \A p \in AgentProcs : agent[p] \in AgentRecord /\ p \in Procs /\ slot[p] \in Pes
      /\ \A p \in InstanceProcs : inst[p] \in InstanceRecord /\ p \in Procs /\ slot[p] \in Ranks
  BY DEF TypeOK, AgentProcs, InstanceProcs
<1>2. \A s \in Slots : book[s] # None => book[s] \in Registrations
  BY DEF TypeOK
<1>3. \A r \in Registrations : r.proc \in Procs
  BY SMT DEF Registrations
<1>4. \A a \in Atn : broker[a] # None => broker[a] \in Publications
  BY DEF TypeOK
<1>5. \A b \in Publications : b.owner \in Procs
  BY SMT DEF Publications
<1>6. Pes \subseteq Slots /\ Ranks \subseteq Slots /\ Atn \subseteq Pes /\ Pes \cap Ranks = {}
  BY PlacesAssumption DEF Slots
<1>7. \A p \in Procs : /\ slot[p] \in Slots /\ (slot[p] \in Pes => p \in AgentProcs)
                       /\ (slot[p] \in Ranks => p \in InstanceProcs)
  BY PlacesAssumption DEF Slots, AgentProcs, InstanceProcs
<1>8. NoGeneration.id = 0
  BY DEF NoGeneration
<1>9. fabric.id # 0 => fabric \in Generations
  BY <1>8 DEF TypeOK
<1>10. fabric \in Generations => fabric.id # 0 /\ \A pe \in Pes : fabric.agents[pe] \in Procs
  BY GenerationFields
<1>11. fabric \in Generations => \A r \in Ranks : fabric.instances[r] \in Procs
  BY GenerationFields
<1>12. \A f \in Rosters : f.agents \in [Pes -> Procs] /\ f.instances \in [Ranks -> Procs]
  BY SMT DEF Rosters
<1>13. forming # None => forming \in Rosters
  BY DEF TypeOK
<1>14. forming # None => /\ \A pe \in Pes : forming.agents[pe] \in Procs
                         /\ \A r \in Ranks : forming.instances[r] \in Procs
  BY <1>12, <1>13
<1> QED
  BY <1>1, <1>2, <1>3, <1>4, <1>5, <1>6, <1>7, <1>8, <1>9, <1>10, <1>11, <1>14

(* A member stays one.                                                     *)
MemberNext(s, p) ==
  /\ slot[p] = s
  /\ s \in Pes => agent'[p].pc \notin {"off", "admit"}
  /\ s \in Ranks => inst'[p].pc # "off"

MembersKept == \A s : \A p \in Procs : Member(s, p) => MemberNext(s, p)

(* Nobody who was started and admitted becomes a newcomer.                 *)
LEMMA MembersStay ==
  ASSUME TypeOK, AllStay
  PROVE  MembersKept
<1>1. \A p \in Procs : (slot[p] \in Pes => p \in AgentProcs) /\ (slot[p] \in Ranks => p \in InstanceProcs)
  BY StructureTypes
<1> QED
  BY <1>1 DEF MembersKept, Member, MemberNext, AllStay, AgentsStay, AgentStays, InstanceStays

(* The generation after the step, if there is one.                         *)
LEMMA WorldAfter ==
  ASSUME TypeOK, WorldStays, fabric'.id # 0
  PROVE  /\ fabric \in Generations /\ fabric.id # 0 /\ fabric'.id = fabric.id
         /\ fabric'.agents = fabric.agents /\ fabric'.instances = fabric.instances
         /\ fabric'.phase \in Early => fabric.phase \in Early
  BY StructureTypes DEF WorldStays, SameWorld

(* The book lists members after the step, and the Agents it listed while   *)
(* a roster or a generation holds them.                                    *)
BookTurns ==
  /\ \A s \in Slots : book'[s] # None => MemberNext(s, book'[s].proc)
  /\ (forming' # None /\ forming'.current) \/ fabric'.id # 0 =>
       \A pe \in Pes : book[pe] # None => book'[pe] # None /\ book'[pe].proc = book[pe].proc

(***************************************************************************)
(* The roster part survives a step that changes the book as BookTurns      *)
(* allows.                                                                 *)
(***************************************************************************)
LEMMA RosterTurns ==
  ASSUME TypeOK, RosterInv, MembersKept, BookTurns, FormingStays, WorldStays
  PROVE  RosterInv'
<1>1. ASSUME NEW s \in Slots, book'[s] # None
      PROVE  MemberNext(s, book'[s].proc)
  BY <1>1 DEF BookTurns
<1>2. ASSUME forming' # None
      PROVE  /\ fabric'.id = 0
             /\ \A pe \in Pes : MemberNext(pe, forming'.agents[pe])
             /\ \A r \in Ranks : MemberNext(r, forming'.instances[r])
             /\ forming'.current => \A pe \in Pes : book'[pe] # None /\ book'[pe].proc = forming'.agents[pe]
  <2>1. /\ forming # None /\ fabric.id = 0 /\ forming'.agents = forming.agents
        /\ forming'.instances = forming.instances /\ (forming'.current => forming.current)
    BY <1>2 DEF FormingStays, RosterInv
  <2>2. fabric'.id = 0
    BY <2>1, WorldAfter
  <2>3. /\ \A pe \in Pes : MemberNext(pe, forming.agents[pe])
        /\ \A r \in Ranks : MemberNext(r, forming.instances[r])
    BY <2>1, StructureTypes DEF RosterInv, MembersKept
  <2>4. forming'.current => \A pe \in Pes : book'[pe] # None /\ book'[pe].proc = forming.agents[pe]
    BY <1>2, <2>1 DEF RosterInv, BookTurns
  <2> QED
    BY <2>1, <2>2, <2>3, <2>4
<1>3. ASSUME fabric'.id # 0
      PROVE  /\ \A pe \in Pes : /\ MemberNext(pe, fabric'.agents[pe])
                                /\ book'[pe] # None /\ book'[pe].proc = fabric'.agents[pe]
             /\ \A r \in Ranks : MemberNext(r, fabric'.instances[r])
  <2>1. /\ fabric \in Generations /\ fabric.id # 0
        /\ fabric'.agents = fabric.agents /\ fabric'.instances = fabric.instances
    BY <1>3, WorldAfter
  <2>2. /\ \A pe \in Pes : MemberNext(pe, fabric.agents[pe])
        /\ \A r \in Ranks : MemberNext(r, fabric.instances[r])
    BY <2>1, StructureTypes DEF RosterInv, MembersKept
  <2>3. \A pe \in Pes : book'[pe] # None /\ book'[pe].proc = fabric.agents[pe]
    BY <1>3, <2>1 DEF RosterInv, BookTurns
  <2> QED
    BY <2>1, <2>2, <2>3
<1> QED
  BY <1>1, <1>2, <1>3 DEF RosterInv, Member, MemberNext

(* ... and one that leaves the owners in the book alone.                   *)
LEMMA RosterStays ==
  ASSUME TypeOK, RosterInv, AllStay, SameBook, FormingStays, WorldStays
  PROVE  RosterInv'
<1>1. MembersKept
  BY MembersStay
<1>2. \A s \in Slots : book'[s] # None => MemberNext(s, book'[s].proc)
  BY <1>1, StructureTypes DEF SameBook, RosterInv, MembersKept
<1>3. \A pe \in Pes : book[pe] # None => book'[pe] # None /\ book'[pe].proc = book[pe].proc
  BY StructureTypes DEF SameBook
<1>4. BookTurns
  BY <1>2, <1>3 DEF BookTurns
<1> QED
  BY <1>1, <1>4, RosterTurns

(* The ownership part survives a step that leaves owners alone.            *)
LEMMA OwnStays ==
  ASSUME TypeOK, ProcInv, RosterInv, OwnInv, AllStay, SameBook, SameOwners
  PROVE  OwnInv'
<1>1. ASSUME NEW p \in Procs
      PROVE  Owns(p)' <=> Owns(p)
  BY <1>1, StructureTypes DEF Owns, SameBook
<1>2. ASSUME NEW p \in AgentProcs
      PROVE  /\ agent'[p].pc \notin Dead /\ Owns(p)' => agent'[p].pc = "form" \/ agent'[p].registered
             /\ agent'[p].pc = "form" \/ agent'[p].registered =>
                  Owns(p)' /\ (slot[p] \in Atn => broker'[slot[p]] # None /\ broker'[slot[p]].owner = p)
             /\ agent'[p].plan # 0 \/ agent'[p].arenas # "none" => agent'[p].registered
  <2>1. p \in Procs /\ AgentStays(agent[p], agent'[p]) /\ slot[p] \in Pes
    BY StructureTypes DEF AllStay, AgentsStay
  <2>2. Owns(p) => agent[p].pc \notin {"off", "admit"}
    BY <2>1, StructureTypes DEF Owns, RosterInv, Member
  <2>3. agent'[p].pc \notin Dead /\ Owns(p) => agent'[p].pc = "form" \/ agent'[p].registered
    BY <2>1, <2>2 DEF AgentStays, OwnInv, Dead
  <2>4. agent'[p].pc = "form" \/ agent'[p].registered =>
          Owns(p) /\ (slot[p] \in Atn => broker'[slot[p]] # None /\ broker'[slot[p]].owner = p)
    BY <2>1 DEF AgentStays, OwnInv, SameOwners
  <2>5. agent'[p].plan # 0 \/ agent'[p].arenas # "none" => agent'[p].registered
    BY <2>1 DEF AgentStays
  <2> QED
    BY <1>1, <2>1, <2>3, <2>4, <2>5
<1>3. ASSUME NEW p \in InstanceProcs
      PROVE  /\ inst'[p].pc = "form" \/ inst'[p].registered => Owns(p)'
             /\ inst'[p].pc \in Waiting \/ inst'[p].arena # None => inst'[p].registered
             /\ inst'[p].pc = "deregister" => inst'[p].arena = None
  <2>1. p \in Procs /\ InstanceStays(inst[p], inst'[p])
    BY StructureTypes DEF AllStay
  <2> QED
    BY <1>1, <2>1 DEF InstanceStays, OwnInv
<1> QED
  BY <1>2, <1>3 DEF OwnInv, Waiting

(* The close part survives a step in which nobody starts.                  *)
LEMMA CloseStays ==
  ASSUME TypeOK, CloseInv, closed' = closed, sealed' = sealed, startups' = startups,
         alive' \subseteq alive, SameBook
  PROVE  CloseInv'
  BY DEF CloseInv, SameBook

(* A live broker owner or a leaseholder's Agent was live before.           *)
LEMMA AliveBefore ==
  ASSUME TypeOK, ProcInv, ProcInv', AgentsStay, NEW p \in AgentProcs, p \in alive',
         agent[p].pc # "off"
  PROVE  p \in alive /\ agent'[p].pc \notin Dead
<1>1. agent'[p].pc \notin Dead
  BY DEF ProcInv
<1>2. agent[p].pc \notin Dead
  BY <1>1 DEF AgentsStay, AgentStays, Dead
<1> QED
  BY <1>1, <1>2 DEF ProcInv

ArenasStay ==
  \A p \in AgentProcs \cap alive' :
    /\ agent'[p].arenas = "none" => agent[p].arenas = "none"
    /\ agent'[p].arenas = "drained" =>
         \/ agent[p].arenas = "drained"
         \/ slot[p] \in Atn /\ broker'[slot[p]] # None => ~broker'[slot[p]].accepting

SpentNext(a) == broker'[a] # None => ~broker'[a].accepting \/ broker'[a].published = {}

ExitsSpent ==
  \A p \in AgentProcs : agent'[p].pc = "exited" =>
    \/ agent[p].pc \in {"exited", "admit"}
    \/ ~Owns(p)
    \/ slot[p] \in Atn => SpentNext(slot[p])
    \/ fabric'.phase \notin Early /\ fabric.id # 0

(***************************************************************************)
(* The broker part survives a step in which no arena is published, and an  *)
(* Agent that exits has spent its publications.                            *)
(***************************************************************************)
LEMMA BrokerInvStays ==
  ASSUME TypeOK, ProcInv, RosterInv, BrokerInv, ProcInv', AgentsStay, MembersKept, BrokerStays,
         \A a \in Atn : book'[a] # None => book[a] # None, FormingStays, WorldStays, ArenasStay, ExitsSpent
  PROVE  BrokerInv'
<1>0. \A a \in Atn : /\ book[a] # None => broker[a] # None
                     /\ broker[a] # None => Member(a, broker[a].owner)
  BY DEF BrokerInv
<1>1. ASSUME NEW a \in Atn
      PROVE  /\ book'[a] # None => broker'[a] # None
             /\ broker'[a] # None => MemberNext(a, broker'[a].owner)
  <2>2. book'[a] # None => broker'[a] # None
    BY <1>0 DEF BrokerStays, SameOwners
  <2>3. broker'[a] # None => MemberNext(a, broker'[a].owner)
    BY <1>0, StructureTypes DEF BrokerStays, SameOwners, MembersKept
  <2> QED
    BY <2>2, <2>3
<1>2. ASSUME NEW p \in AgentProcs \cap alive', slot[p] \in Atn, broker'[slot[p]] # None,
             broker'[slot[p]].owner = p
      PROVE  /\ broker'[slot[p]].published # {} => agent'[p].arenas # "none"
             /\ agent'[p].arenas = "drained" => ~broker'[slot[p]].accepting
  <2> DEFINE a == slot[p]
  <2>1. /\ broker[a] # None /\ broker[a].owner = p /\ broker'[a].published = broker[a].published
        /\ broker'[a].accepting => broker[a].accepting
    BY <1>2 DEF BrokerStays, SameOwners
  <2>m. Member(a, p)
    BY <1>0, <1>2, <2>1
  <2>n. a \in Pes
    BY <1>2, StructureTypes
  <2>2. agent[p].pc # "off"
    BY <2>m, <2>n DEF Member
  <2>3. p \in alive
    BY <1>2, <2>2, AliveBefore
  <2>4. /\ broker[a].published # {} => agent[p].arenas # "none"
        /\ agent[p].arenas = "drained" => ~broker[a].accepting
    BY <1>2, <2>1, <2>3 DEF BrokerInv
  <2> QED
    BY <1>2, <2>1, <2>4 DEF ArenasStay
<1>3. ASSUME NEW a \in Atn, Spent(a)
      PROVE  SpentNext(a)
  BY <1>3 DEF Spent, SpentNext, BrokerStays, SameOwners
<1>4. ASSUME NEW a \in Atn, fabric'.id # 0, agent'[fabric'.agents[a]].pc = "exited",
             fabric'.phase \in Early
      PROVE  SpentNext(a)
  <2> DEFINE p == fabric.agents[a]
  <2>1. /\ fabric.id # 0 /\ fabric'.agents = fabric.agents /\ fabric.phase \in Early
        /\ fabric \in Generations
    BY <1>4, WorldAfter
  <2>2. a \in Pes /\ p \in Procs /\ Member(a, p) /\ book[a] # None /\ book[a].proc = p
    BY <2>1, StructureTypes DEF RosterInv
  <2>3. p \in AgentProcs /\ Owns(p) /\ slot[p] = a /\ agent[p].pc # "admit"
    BY <2>2, StructureTypes DEF Owns, Member
  <2>4. agent[p].pc = "exited" \/ SpentNext(a)
    BY <1>4, <2>1, <2>3 DEF ExitsSpent
  <2>5. agent[p].pc = "exited" => Spent(a)
    BY <2>1 DEF BrokerInv
  <2> QED
    BY <1>3, <2>4, <2>5
<1>5. ASSUME NEW a \in Atn, forming' # None, forming'.probed, forming'.current,
             agent'[forming'.agents[a]].pc = "exited"
      PROVE  SpentNext(a)
  <2> DEFINE p == forming.agents[a]
  <2>1. /\ forming'.agents = forming.agents /\ forming # None /\ forming.probed
        /\ forming.current /\ fabric.id = 0
    BY <1>5 DEF FormingStays, RosterInv
  <2>2. a \in Pes /\ p \in Procs /\ Member(a, p) /\ book[a] # None /\ book[a].proc = p
    BY <2>1, StructureTypes DEF RosterInv
  <2>3. p \in AgentProcs /\ Owns(p) /\ slot[p] = a /\ agent[p].pc # "admit"
    BY <2>2, StructureTypes DEF Owns, Member
  <2>4. agent[p].pc = "exited" \/ SpentNext(a)
    BY <1>5, <2>1, <2>3 DEF ExitsSpent
  <2>5. agent[p].pc = "exited" => Spent(a)
    BY <2>1 DEF BrokerInv
  <2> QED
    BY <1>3, <2>4, <2>5
<1> QED
  BY <1>1, <1>2, <1>4, <1>5 DEF BrokerInv, Member, MemberNext, Spent, SpentNext

(* What a lease asks of the Agent it is taken from, after the step.        *)
LendsNext(q) ==
  /\ agent'[q].pc \notin {"off", "exited"}
  /\ q \in alive' => agent'[q].arenas \notin {"none", "drained"}

AttachedNext(p) == inst'[p].pc = "attach" \/ inst'[p].arena # None

(***************************************************************************)
(* The lease part survives a step in which nobody attaches anew and the    *)
(* lenders keep lending.                                                   *)
(***************************************************************************)
LEMMA LeaseStays ==
  ASSUME TypeOK, ProcInv, LeaseInv, WorldStays,
         \A p \in InstanceProcs : AttachedNext(p) =>
           /\ Attached(p) /\ leases'[slot[p]] = leases[slot[p]]
           /\ inst'[p].arena \in {None, inst[p].arena, leases[slot[p]]}
           /\ LendsNext(leases[slot[p]])
  PROVE  LeaseInv'
<1> SUFFICES ASSUME NEW p \in InstanceProcs, AttachedNext(p)
             PROVE  LET q == leases'[slot[p]] IN
                    /\ q \in AgentProcs /\ inst'[p].arena \in {None, q} /\ slot[q] = device[slot[p]]
                    /\ LendsNext(q)
                    /\ fabric'.id # 0 /\ fabric'.instances[slot[p]] = p
  BY DEF LeaseInv, Attached, AttachedNext, LendsNext
<1> DEFINE q == leases[slot[p]]
<1>1. /\ Attached(p) /\ leases'[slot[p]] = q /\ inst'[p].arena \in {None, inst[p].arena, q}
      /\ LendsNext(q)
  OBVIOUS
<1>2. /\ q \in AgentProcs /\ inst[p].arena \in {None, q} /\ slot[q] = device[slot[p]]
      /\ fabric.id # 0 /\ fabric.instances[slot[p]] = p
  BY <1>1 DEF LeaseInv
<1>3. p \in alive
  <2>1. inst[p].pc \notin Dead
    <3> SUFFICES ASSUME inst[p].pc \in Dead PROVE FALSE
      OBVIOUS
    <3>1. inst[p] = [NoInstance EXCEPT !.pc = inst[p].pc]
      BY DEF ProcInv
    <3>2. inst[p].arena = None
      BY <3>1, SMT DEF NoInstance
    <3> QED
      BY <1>1, <3>2 DEF Attached, Dead
  <2> QED
    BY <2>1 DEF ProcInv
<1>4. fabric'.id # 0 /\ fabric'.instances[slot[p]] = p
  <2>1. p \in Owners(fabric)
    BY <1>2, StructureTypes DEF Owners
  <2> QED
    BY <1>2, <1>3, <2>1 DEF WorldStays, SameWorld
<1> QED
  BY <1>1, <1>2, <1>4

(* The Agents that lend keep doing so if none exits or drains.             *)
LEMMA LendersStay ==
  ASSUME TypeOK, ProcInv, LeaseInv, ProcInv', AgentsStay, NEW p \in InstanceProcs, Attached(p),
         agent'[leases[slot[p]]].pc # "exited",
         leases[slot[p]] \in alive' =>
           /\ agent'[leases[slot[p]]].arenas = "none" => agent[leases[slot[p]]].arenas = "none"
           /\ agent'[leases[slot[p]]].arenas = "drained" => agent[leases[slot[p]]].arenas = "drained"
  PROVE  LendsNext(leases[slot[p]])
<1> DEFINE q == leases[slot[p]]
<1>1. /\ q \in AgentProcs /\ agent[q].pc \notin {"off", "exited"}
      /\ q \in alive => agent[q].arenas \notin {"none", "drained"}
  BY DEF LeaseInv
<1>2. agent[q].pc # "admit"
  <2> SUFFICES ASSUME agent[q].pc = "admit" PROVE FALSE
    OBVIOUS
  <2>1. agent[q] = Gone("admit") /\ q \in alive
    BY <1>1 DEF ProcInv, Dead
  <2>2. Gone("admit").arenas = "none"
    BY SMT DEF Gone, Idle
  <2> QED
    BY <1>1, <2>1, <2>2
<1>3. agent'[q].pc # "off"
  BY <1>1, <1>2 DEF AgentsStay, AgentStays
<1>4. q \in alive' => q \in alive
  BY <1>1, AliveBefore
<1> QED
  BY <1>1, <1>3, <1>4 DEF LendsNext

-----------------------------------------------------------------------------
(* The records of the Agents.                                              *)

ArenaStates == {"none", "dormant", "resident", "drained"}

(* The types of an Agent's fields.                                         *)
LEMMA AgentFields ==
  ASSUME NEW a \in AgentRecord
  PROVE  /\ a.pc \in AgentPcs /\ a.registered \in BOOLEAN /\ a.plan \in Nat /\ a.view \in Views
         /\ a.inbox \in Snapshots \cup {None} /\ a.report \in MaybeReport /\ a.sent \in MaybeReport
         /\ a.tries \in Nat /\ a.enriching \in BOOLEAN /\ a.failed \in BOOLEAN
         /\ a.handling \in BOOLEAN /\ a.asked \in BOOLEAN
         /\ a.native \in Natives /\ a.arenas \in ArenaStates
  BY SMT DEF AgentRecord, ArenaStates

(* The types of a report's fields, and of its edits.                       *)
LEMMA ReportFields ==
  ASSUME NEW r \in Reports
  PROVE  /\ r.phase \in ParticipantPhases /\ r # None
         /\ \A ph \in ParticipantPhases :
              [r EXCEPT !.phase = ph] \in Reports /\ [r EXCEPT !.phase = ph].phase = ph
         /\ [r EXCEPT !.control = TRUE] \in Reports /\ [r EXCEPT !.control = TRUE].phase = r.phase
         /\ [r EXCEPT !.invocation = TRUE] \in Reports
         /\ [r EXCEPT !.invocation = TRUE].phase = r.phase
<1>1. r # None
  BY ReportAssumption
<1>2. r.phase \in ParticipantPhases
  BY SMT DEF Reports
<1>3. \A ph \in ParticipantPhases :
        [r EXCEPT !.phase = ph] \in Reports /\ [r EXCEPT !.phase = ph].phase = ph
  BY SMT DEF Reports
<1>4. [r EXCEPT !.control = TRUE] \in Reports /\ [r EXCEPT !.control = TRUE].phase = r.phase
  BY DEF Reports
<1>5. [r EXCEPT !.invocation = TRUE] \in Reports /\ [r EXCEPT !.invocation = TRUE].phase = r.phase
  BY DEF Reports
<1> QED
  BY <1>1, <1>2, <1>3, <1>4, <1>5

(* What every step below keeps of a record.                                *)
SameWorldView(a, b) ==
  /\ b.registered = a.registered /\ b.plan = a.plan /\ b.view = a.view
  /\ b.inbox = a.inbox /\ b.report = a.report

(* b is the record a with a report of phase ph on its way.                 *)
SentAs(a, ph, b) ==
  /\ b \in AgentRecord /\ SameWorldView(a, b)
  /\ b.sent \in Reports /\ b.sent.phase = ph /\ b.enriching = FALSE
  /\ b.pc = a.pc /\ b.native = a.native /\ b.arenas = a.arenas

(***************************************************************************)
(* Sending puts a report on its way and leaves the rest of the record      *)
(* alone.                                                                  *)
(***************************************************************************)
LEMMA SendingFields ==
  ASSUME NEW a \in AgentRecord, NEW ph \in ParticipantPhases
  PROVE  SentAs(a, ph, Sending(a, ph))
<1> DEFINE r == IF a.report = None THEN Report(ph, FALSE, FALSE) ELSE [a.report EXCEPT !.phase = ph]
<1>1. Report(ph, FALSE, FALSE) \in Reports /\ Report(ph, FALSE, FALSE).phase = ph
  BY SMT DEF Report, Reports
<1>2. a.report # None => a.report \in Reports
  BY AgentFields DEF MaybeReport
<1>3. r \in Reports /\ r.phase = ph
  BY <1>1, <1>2, ReportFields
<1>4. Sending(a, ph) = [a EXCEPT !.sent = r, !.tries = Attempts, !.enriching = FALSE]
  BY DEF Sending
<1> HIDE DEF r
<1>5. r \in MaybeReport /\ Attempts \in Nat
  BY <1>3, AttemptsAssumption DEF MaybeReport
<1>m. [a EXCEPT !.sent = r, !.tries = Attempts, !.enriching = FALSE] \in AgentRecord
  BY <1>5 DEF AgentRecord
<1>6. Sending(a, ph) \in AgentRecord
  BY <1>4, <1>m
<1>7. /\ Sending(a, ph).sent = r
      /\ Sending(a, ph).registered = a.registered /\ Sending(a, ph).plan = a.plan
      /\ Sending(a, ph).view = a.view /\ Sending(a, ph).inbox = a.inbox
      /\ Sending(a, ph).report = a.report
  BY <1>4, SMT DEF AgentRecord
<1>8. /\ Sending(a, ph).enriching = FALSE /\ Sending(a, ph).pc = a.pc
      /\ Sending(a, ph).native = a.native /\ Sending(a, ph).arenas = a.arenas
  BY <1>4, SMT DEF AgentRecord
<1> QED
  BY <1>3, <1>6, <1>7, <1>8 DEF SameWorldView, SentAs

(* An exception ends in shut, release or retained, with at most the last   *)
(* acknowledged report, enriched, on its way.                              *)
LEMMA RaisedFields ==
  ASSUME NEW a \in AgentRecord, NEW x \in BOOLEAN
  PROVE  /\ Raised(a, x) \in AgentRecord /\ SameWorldView(a, Raised(a, x))
         /\ Raised(a, x).native = a.native /\ Raised(a, x).arenas = a.arenas
         /\ Raised(a, x).pc \in {"shut", "release", "retained"}
         /\ a.pc \in Left => Raised(a, x).pc \in Left
         /\ \/ Raised(a, x).sent = None
            \/ /\ a.report \in Reports /\ a.plan # 0 /\ Raised(a, x).sent \in Reports
               /\ Raised(a, x).sent.phase = a.report.phase /\ Raised(a, x).enriching = TRUE
<1> DEFINE second == ~PreJoin(a) /\ ~a.handling /\ a.pc # "release"
           enrich == /\ a.report # None /\ a.plan # 0 /\ ~a.report.control
                     /\ x \/ second
           target == IF a.pc \in {"release", "retained"} THEN "retained"
                     ELSE IF PreJoin(a) THEN "release"
                     ELSE IF second THEN "shut"
                     ELSE "retained"
           handling == a.handling \/ second
           sent == IF enrich THEN [a.report EXCEPT !.control = TRUE] ELSE None
           tries == IF enrich THEN Attempts ELSE 0
           b == Raised(a, x)
<1>1. b = [a EXCEPT !.pc = target, !.failed = TRUE, !.handling = handling, !.asked = FALSE,
                    !.sent = sent, !.tries = tries, !.enriching = enrich]
  BY DEF Raised
<1>2. /\ target \in {"shut", "release", "retained"} /\ (a.pc \in Left => target \in Left)
      /\ handling \in BOOLEAN /\ enrich \in BOOLEAN
  BY AgentFields DEF Left
<1>3. \/ sent = None
      \/ /\ a.report \in Reports /\ a.plan # 0 /\ sent \in Reports /\ sent.phase = a.report.phase
         /\ enrich = TRUE
  BY AgentFields, ReportFields DEF MaybeReport
<1>4. tries \in Nat
  BY AttemptsAssumption, SMT
<1>5. sent \in MaybeReport /\ target \in AgentPcs
  BY <1>2, <1>3 DEF MaybeReport, AgentPcs
<1> HIDE DEF second, enrich, target, handling, sent, tries
<1>m. [a EXCEPT !.pc = target, !.failed = TRUE, !.handling = handling, !.asked = FALSE,
                !.sent = sent, !.tries = tries, !.enriching = enrich] \in AgentRecord
  BY <1>2, <1>4, <1>5 DEF AgentRecord
<1>6. b \in AgentRecord
  BY <1>1, <1>m
<1>7. /\ b.registered = a.registered /\ b.plan = a.plan /\ b.view = a.view
      /\ b.inbox = a.inbox /\ b.report = a.report
  BY <1>1, SMT DEF AgentRecord
<1>8. /\ b.native = a.native /\ b.arenas = a.arenas /\ b.pc = target /\ b.sent = sent
      /\ b.enriching = enrich
  BY <1>1, SMT DEF AgentRecord
<1> QED
  BY <1>2, <1>3, <1>6, <1>7, <1>8 DEF SameWorldView

(***************************************************************************)
(* An acknowledged report becomes the last one, and an acknowledged        *)
(* joining enters the collective.                                          *)
(***************************************************************************)
LEMMA AcknowledgedFields ==
  ASSUME NEW a \in AgentRecord, a.sent # None
  PROVE  LET b == Acknowledged(a)
             joins == a.sent.phase = "joining" /\ a.pc = "loop" /\ ~a.enriching
         IN  /\ b \in AgentRecord /\ b.report = a.sent /\ b.sent = None
             /\ b.registered = a.registered /\ b.plan = a.plan /\ b.view = a.view
             /\ b.inbox = a.inbox /\ b.arenas = a.arenas
             /\ joins => b.pc = "join" /\ b.native = "joining"
             /\ ~joins => b.pc = a.pc /\ b.native = a.native
<1> DEFINE joins == a.sent.phase = "joining" /\ a.pc = "loop" /\ ~a.enriching
           pc == IF joins THEN "join" ELSE a.pc
           native == IF joins THEN "joining" ELSE a.native
           b == Acknowledged(a)
<1>1. b = [a EXCEPT !.report = a.sent, !.sent = None, !.tries = 0, !.pc = pc, !.native = native]
  BY DEF Acknowledged
<1>2. pc \in AgentPcs /\ native \in Natives /\ None \in MaybeReport /\ a.sent \in MaybeReport
  BY AgentFields DEF AgentPcs, Natives, MaybeReport
<1> HIDE DEF pc, native
<1>m. [a EXCEPT !.report = a.sent, !.sent = None, !.tries = 0, !.pc = pc, !.native = native] \in AgentRecord
  BY <1>2 DEF AgentRecord
<1>3. b \in AgentRecord
  BY <1>1, <1>m
<1>4. /\ b.report = a.sent /\ b.sent = None /\ b.registered = a.registered /\ b.plan = a.plan
      /\ b.view = a.view /\ b.inbox = a.inbox /\ b.arenas = a.arenas /\ b.pc = pc /\ b.native = native
  BY <1>1, SMT DEF AgentRecord
<1> QED
  BY <1>3, <1>4 DEF pc, native

-----------------------------------------------------------------------------
(***************************************************************************)
(* The steps of a live, admitted Agent that leave the daemon's books alone *)
(* (Steps), and keep Progress with every generation (Carries).             *)
(***************************************************************************)
Live(a) == a.pc \notin Dead \cup {"admit"}

Steps(a, b) ==
  /\ b \in AgentRecord /\ Live(b) /\ AgentStays(a, b)
  /\ b.arenas = "none" => a.arenas = "none"
  /\ b.arenas = "drained" => a.arenas = "drained"

Carries(p, b) ==
  \A g \in Generations \cup {NoGeneration}, lt \in SUBSET Messages :
    Progress(g, agent, lt, alive, generations) =>
      Progress(g, [agent EXCEPT ![p] = b], lt, alive, generations)

(* What a live Agent's place in the invariant gives.                       *)
LEMMA LiveAgent ==
  ASSUME Inv, NEW p \in AgentProcs, Live(agent[p])
  PROVE  /\ agent[p] \in AgentRecord /\ p \in alive
         /\ agent[p].plan # 0 \/ agent[p].arenas # "none" => agent[p].registered
         /\ AgentInv(fabric, p, agent[p], generations) /\ generations \in Nat
         /\ agent \in [AgentProcs -> AgentRecord]
         /\ fabric.id # 0 => Backing(fabric, late, p, agent[p])
<1>1. p \in alive
  BY DEF Inv, Structure, ProcInv, Live
<1>2. agent[p].plan # 0 \/ agent[p].arenas # "none" => agent[p].registered
  BY DEF Inv, Structure, OwnInv
<1>3. /\ agent[p] \in AgentRecord /\ generations \in Nat /\ agent \in [AgentProcs -> AgentRecord]
  BY DEF Inv, TypeOK
<1>4. AgentInv(fabric, p, agent[p], generations)
  BY DEF Inv, Progress
<1>5. fabric.id # 0 => Backing(fabric, late, p, agent[p])
  BY <1>1 DEF Inv, Progress, Backing
<1> QED
  BY <1>1, <1>2, <1>3, <1>4, <1>5

(* The step of an Agent that leaves the owners in the books alone.         *)
AgentMoves(p, b) ==
  /\ b \in AgentRecord /\ Live(agent[p]) /\ Live(b) /\ AgentStays(agent[p], b)
  /\ agent' = [agent EXCEPT ![p] = b]
  /\ UNCHANGED <<alive, startups, leases, generations, sealed, closed, inst>> /\ FormingStays
  /\ book' \in [Slots -> Registrations \cup {None}] /\ SameBook
  /\ broker' \in [Atn -> Publications \cup {None}] /\ SameOwners
  /\ fabric' \in Generations \cup {NoGeneration} /\ WorldStays /\ late' \in SUBSET Messages

(* ... whatever the daemon does to its generation.                         *)
LEMMA AgentShell ==
  ASSUME Inv, NEW p \in AgentProcs, NEW b \in AgentRecord, Live(agent[p]), Live(b),
         AgentStays(agent[p], b), agent' = [agent EXCEPT ![p] = b],
         UNCHANGED <<alive, startups, sealed, closed, inst>>, SameBook, SameOwners
  PROVE  /\ agent'[p] = b /\ \A q \in AgentProcs : q # p => agent'[q] = agent[q]
         /\ agent' \in [AgentProcs -> AgentRecord]
         /\ ProcInv' /\ AdmitInv' /\ AllStay /\ OwnInv' /\ CloseInv'
<1>1. TypeOK /\ ProcInv /\ AdmitInv /\ RosterInv /\ OwnInv /\ CloseInv
  BY DEF Inv, Structure
<1>2. agent \in [AgentProcs -> AgentRecord]
  BY <1>1 DEF TypeOK
<1>3. agent'[p] = b /\ \A q \in AgentProcs : q # p => agent'[q] = agent[q]
  BY <1>2
<1>4. agent' \in [AgentProcs -> AgentRecord]
  BY <1>2
<1>6. ProcInv'
  <2>1. \A q \in AgentProcs : /\ q \in alive' <=> agent'[q].pc \notin Dead
                              /\ agent'[q].pc \in Dead \cup {"admit"} => agent'[q] = Gone(agent'[q].pc)
    BY <1>1, <1>3 DEF ProcInv, Live
  <2> QED
    BY <1>1, <2>1 DEF ProcInv
<1>7. AdmitInv'
  <2>1. \A s \in Pes : startups[s] # None =>
          slot[startups[s]] = s /\ agent'[startups[s]].pc \notin {"off", "admit"}
    <3> SUFFICES ASSUME NEW s \in Pes, startups[s] # None
                 PROVE  slot[startups[s]] = s /\ agent'[startups[s]].pc \notin {"off", "admit"}
      OBVIOUS
    <3>0. startups[s] \in Procs
      BY <1>1 DEF TypeOK
    <3>1. startups[s] \in Procs /\ slot[startups[s]] = s /\ agent[startups[s]].pc \notin {"off", "admit"}
      BY <1>1, <3>0 DEF AdmitInv
    <3>2. startups[s] \in AgentProcs
      BY <3>1 DEF AgentProcs
    <3> QED
      BY <1>3, <3>1, <3>2 DEF Live, Dead
  <2>2. \A q \in AgentProcs : agent'[q].pc \notin Dead \cup {"admit"} => startups[slot[q]] = q
    BY <1>1, <1>3 DEF AdmitInv, Live
  <2> QED
    BY <2>1, <2>2 DEF AdmitInv
<1>8. AllStay
  <2>1. \A q \in AgentProcs : AgentStays(agent[q], agent'[q])
    <3> TAKE q \in AgentProcs
    <3>1. CASE q = p
      BY <1>3, <3>1
    <3>2. CASE q # p
      BY <1>1, <1>3, <3>2 DEF AgentStays, OwnInv, Dead
    <3> QED
      BY <3>1, <3>2
  <2>2. \A q \in InstanceProcs : InstanceStays(inst[q], inst'[q])
    BY <1>1 DEF InstanceStays, OwnInv, Waiting
  <2> QED
    BY <2>1, <2>2 DEF AllStay, AgentsStay
<1>11. OwnInv'
  BY <1>1, <1>8, OwnStays
<1>12. CloseInv'
  BY <1>1, CloseStays
<1> QED
  BY <1>3, <1>4, <1>6, <1>7, <1>8, <1>11, <1>12

(* The structure such a step keeps, the broker and the leases apart.       *)
LEMMA AgentWorld ==
  ASSUME Inv, NEW p \in AgentProcs, NEW b, AgentMoves(p, b)
  PROVE  /\ agent'[p] = b /\ \A q \in AgentProcs : q # p => agent'[q] = agent[q]
         /\ TypeOK' /\ ProcInv' /\ AdmitInv' /\ AllStay /\ FormingStays
         /\ RosterInv' /\ OwnInv' /\ CloseInv'
<1>1. TypeOK /\ ProcInv /\ AdmitInv /\ RosterInv /\ OwnInv /\ CloseInv
  BY DEF Inv, Structure
<1>k. /\ UNCHANGED <<alive, startups, leases, generations, sealed, closed, inst>> /\ FormingStays
      /\ forming' \in Rosters \cup {None}
      /\ book' \in [Slots -> Registrations \cup {None}] /\ SameBook
      /\ broker' \in [Atn -> Publications \cup {None}] /\ SameOwners
      /\ fabric' \in Generations \cup {NoGeneration} /\ WorldStays /\ late' \in SUBSET Messages
  BY DEF AgentMoves, FormingStays
<1>l. /\ agent'[p] = b /\ \A q \in AgentProcs : q # p => agent'[q] = agent[q]
      /\ agent' \in [AgentProcs -> AgentRecord]
      /\ ProcInv' /\ AdmitInv' /\ AllStay /\ OwnInv' /\ CloseInv'
  BY AgentShell DEF AgentMoves
<1>5. TypeOK'
  BY <1>1, <1>l, <1>k DEF TypeOK
<1>10. RosterInv'
  BY <1>1, <1>k, <1>l, RosterStays
<1> QED
  BY <1>5, <1>k, <1>l, <1>10

(***************************************************************************)
(* Such a step keeps the invariant, if the Agent keeps its arenas, or      *)
(* drains them when nobody leases from it and nobody can.                  *)
(***************************************************************************)
Idles(p) ==
  /\ slot[p] \in Atn /\ broker'[slot[p]] # None => ~broker'[slot[p]].accepting
  /\ \A q \in InstanceProcs : Attached(q) => leases[slot[q]] # p

(***************************************************************************)
(* The leases survive if the Agent keeps its arenas, or drains them when   *)
(* nobody leases from it.                                                  *)
(***************************************************************************)
LEMMA AgentLends ==
  ASSUME Inv, NEW p \in AgentProcs, NEW b, AgentMoves(p, b),
         b.arenas = "none" => agent[p].arenas = "none",
         b.arenas = "drained" => agent[p].arenas = "drained" \/ Idles(p)
  PROVE  LeaseInv'
<1>1. TypeOK /\ ProcInv /\ LeaseInv
  BY DEF Inv, Structure
<1>2. /\ agent'[p] = b /\ \A q \in AgentProcs : q # p => agent'[q] = agent[q]
      /\ ProcInv' /\ AllStay
  BY AgentWorld
<1>3. UNCHANGED <<alive, leases, inst>> /\ WorldStays /\ Live(b)
  BY DEF AgentMoves
<1>s. AgentsStay
  BY <1>2 DEF AllStay
<1>4. \A q \in AgentProcs : agent'[q].pc = "exited" => agent[q].pc = "exited"
  BY <1>2, <1>3 DEF Live, Dead
<1>5. ASSUME NEW q \in InstanceProcs, AttachedNext(q)
      PROVE  /\ Attached(q) /\ leases'[slot[q]] = leases[slot[q]]
             /\ inst'[q].arena \in {None, inst[q].arena, leases[slot[q]]}
             /\ LendsNext(leases[slot[q]])
  <2> DEFINE o == leases[slot[q]]
  <2>1. Attached(q)
    BY <1>3, <1>5 DEF Attached, AttachedNext
  <2>2. o \in AgentProcs /\ agent[o].pc # "exited"
    BY <1>1, <2>1 DEF LeaseInv
  <2>3. /\ agent'[o].arenas = "none" => agent[o].arenas = "none"
        /\ agent'[o].arenas = "drained" => agent[o].arenas = "drained"
    BY <1>2, <2>1, <2>2 DEF Idles
  <2>4. agent'[o].pc # "exited"
    BY <1>4, <2>2
  <2>5. LendsNext(o)
    BY <1>1, <1>2, <1>s, <2>1, <2>3, <2>4, LendersStay
  <2> QED
    BY <1>3, <2>1, <2>5
<1> QED
  BY <1>1, <1>3, <1>5, LeaseStays

(* The whole invariant survives if also nothing is published.              *)
LEMMA AgentKeeps ==
  ASSUME Inv, NEW p \in AgentProcs, NEW b, AgentMoves(p, b), BrokerStays,
         b.arenas = "none" => agent[p].arenas = "none",
         b.arenas = "drained" => agent[p].arenas = "drained" \/ Idles(p),
         Progress(fabric', agent', late', alive', generations')
  PROVE  Inv'
<1>1. TypeOK /\ ProcInv /\ RosterInv /\ BrokerInv /\ LeaseInv
  BY DEF Inv, Structure
<1>2. /\ agent'[p] = b /\ \A q \in AgentProcs : q # p => agent'[q] = agent[q]
      /\ TypeOK' /\ ProcInv' /\ AdmitInv' /\ AllStay /\ FormingStays
      /\ RosterInv' /\ OwnInv' /\ CloseInv'
  BY AgentWorld
<1>3. UNCHANGED <<alive, leases, inst>> /\ SameBook /\ WorldStays /\ Live(b)
  BY DEF AgentMoves
<1>s. AgentsStay /\ MembersKept /\ \A a \in Atn : book'[a] # None => book[a] # None
  BY <1>1, <1>2, <1>3, MembersStay, StructureTypes DEF AllStay, SameBook
<1>4. \A q \in AgentProcs : agent'[q].pc = "exited" => agent[q].pc = "exited"
  BY <1>2, <1>3 DEF Live, Dead
<1>5. BrokerInv'
  <2>1. ArenasStay
    BY <1>2 DEF ArenasStay, Idles
  <2>2. ExitsSpent
    BY <1>4 DEF ExitsSpent
  <2> QED
    BY <1>1, <1>2, <1>3, <1>s, <2>1, <2>2, BrokerInvStays
<1>6. LeaseInv'
  BY AgentLends
<1> QED
  BY <1>2, <1>5, <1>6 DEF Inv, Structure

(* The broker is left alone.                                               *)
LEMMA BrokerSame ==
  ASSUME TypeOK, UNCHANGED broker
  PROVE  SameOwners /\ BrokerStays /\ broker' \in [Atn -> Publications \cup {None}]
  BY DEF TypeOK, SameOwners, BrokerStays

(***************************************************************************)
(* An Agent's step that leaves broker and leases alone keeps the           *)
(* invariant.                                                              *)
(***************************************************************************)
LEMMA AgentLocal ==
  ASSUME Inv, NEW p \in AgentProcs, NEW b, Live(agent[p]), Steps(agent[p], b),
         agent' = [agent EXCEPT ![p] = b],
         UNCHANGED <<alive, startups, broker, leases, forming, generations, sealed, closed, inst>>,
         book' \in [Slots -> Registrations \cup {None}], SameBook,
         fabric' \in Generations \cup {NoGeneration}, WorldStays, late' \in SUBSET Messages,
         Progress(fabric', agent', late', alive', generations')
  PROVE  Inv'
<1>1. SameOwners /\ BrokerStays /\ broker' \in [Atn -> Publications \cup {None}]
  BY BrokerSame DEF Inv
<1>2. AgentMoves(p, b)
  BY <1>1, FormingSame DEF AgentMoves, Steps, Inv
<1> QED
  BY <1>1, <1>2, AgentKeeps DEF Steps

-----------------------------------------------------------------------------
(* The kinds of such steps.                                                *)

(***************************************************************************)
(* A step that keeps what the Agent did and reported: it moves its main    *)
(* thread or drops the report on its way.                                  *)
(***************************************************************************)
Turned(a, b) ==
  /\ b.plan = a.plan /\ b.view = a.view /\ b.inbox \in {a.inbox, None} /\ b.report = a.report
  /\ b.native = a.native /\ b.arenas = a.arenas /\ b.enriching = a.enriching
  /\ b.sent \in {a.sent, None}
  /\ \/ b.pc = a.pc /\ b.registered = a.registered
     \/ /\ b.pc \in {"shut", "release", "retained"} /\ b.sent = None /\ b.registered = a.registered
        /\ a.pc \in Left => b.pc \in Left
        /\ a.pc # "form"
     \/ a.pc = "form" /\ b.pc = "loop" /\ b.registered /\ b.sent = None

(* A turn of the main thread carries Progress over.                        *)
LEMMA TurnCarries ==
  ASSUME Inv, NEW p \in AgentProcs, Live(agent[p]), NEW b \in AgentRecord, Turned(agent[p], b)
  PROVE  Steps(agent[p], b) /\ Carries(p, b)
<1> DEFINE a == agent[p]
<1>1. a \in AgentRecord /\ p \in alive /\ generations \in Nat /\ agent \in [AgentProcs -> AgentRecord]
  BY LiveAgent
<1>2. a.plan # 0 \/ a.arenas # "none" => a.registered
  BY LiveAgent
<1>3. Live(b)
  BY DEF Turned, Live, Dead
<1>4. b.registered = a.registered \/ b.registered
  BY DEF Turned
<1>5. Steps(a, b)
  <2>1. AgentStays(a, b)
    <3>1. a.pc \notin {"off", "admit"} => b.pc \notin {"off", "admit"}
      BY <1>3 DEF Live, Dead
    <3>2. b.pc \notin Dead => a.pc \notin {"exited", "crashed"}
      BY DEF Live, Dead
    <3>3. b.pc = "form" \/ b.registered => a.pc = "form" \/ a.registered
      BY DEF Turned
    <3>4. a.pc = "form" \/ a.registered => b.pc = "form" \/ b.registered
      BY DEF Turned
    <3>5. b.plan # 0 \/ b.arenas # "none" => b.registered
      BY <1>2 DEF Turned
    <3> QED
      BY <3>1, <3>2, <3>3, <3>4, <3>5 DEF AgentStays
  <2> QED
    BY <1>3, <2>1 DEF Steps, Turned
<1>6. ASSUME NEW g \in Generations \cup {NoGeneration}, NEW lt \in SUBSET Messages,
             Progress(g, agent, lt, alive, generations)
      PROVE  Progress(g, [agent EXCEPT ![p] = b], lt, alive, generations)
  <2>1. /\ AgentInv(g, p, a, generations) /\ RecordInv(a)
        /\ g.id # 0 => Backing(g, lt, p, a)
    BY <1>1, <1>6 DEF Progress, AgentInv, Backing
  <2>2. Reported(b) = Reported(a) /\ (PreJoin(b) <=> PreJoin(a))
    BY DEF Turned, Reported, PreJoin
  <2>3. RecordInv(b)
    <3>1. b.pc \in {"loop", "form"} /\ b.plan = 0 =>
            b.sent = None /\ b.report = None /\ b.native = "empty"
      BY <2>1 DEF RecordInv, Turned
    <3>2. b.pc = "form" => b.plan = 0
      BY <2>1 DEF RecordInv, Turned
    <3>3. b.pc = "join" => Reported(b) = "joining" /\ b.sent = None /\ b.native = "joining"
      BY <2>1, <2>2 DEF RecordInv, Turned
    <3>4. b.pc = "finalize" => Reported(b) = "drained" /\ b.sent = None /\ b.native = "finalizing"
      BY <2>1, <2>2 DEF RecordInv, Turned
    <3>5. b.plan # 0 => <<Reported(b), b.native>> \in NativeAt
      BY <2>1, <2>2 DEF RecordInv, Turned
    <3>6. ASSUME b.sent # None
          PROVE  SentFits(b)
      <4>1. b.sent = a.sent /\ b.pc = a.pc /\ SentFits(a)
        BY <3>6, <2>1 DEF Turned, RecordInv
      <4>2. b.plan = a.plan /\ b.native = a.native /\ b.enriching = a.enriching
        BY DEF Turned
      <4> QED
        BY <2>2, <4>1, <4>2 DEF SentFits
    <3> QED
      BY <3>1, <3>2, <3>3, <3>4, <3>5, <3>6 DEF RecordInv
  <2>4. Firm(g, a, b)
    BY <2>2 DEF Firm, Turned, Left
  <2>5. /\ (b.plan = a.plan /\ b.view = a.view) \/ b.plan = 0
        /\ b.inbox \in {a.inbox, None}
        /\ b.report # None => b.plan # 0 /\ g.id = b.plan /\ g.agents[slot[p]] = p
        /\ b.pc = "finalize" => a.pc = "finalize" \/ a.view = "finalizing"
    BY <2>1 DEF Turned, AgentInv
  <2>6. \A f \in {b.sent, b.report} : f # None /\ b.plan = g.id => Claims(g, a, lt, p, f.phase)
    <3>1. \A f \in {b.sent, b.report} : f # None => f = a.sent \/ f = a.report
      BY DEF Turned
    <3>2. b.plan = a.plan
      BY DEF Turned
    <3> QED
      BY <3>1, <3>2 DEF Claims
  <2>7. /\ AgentInv(g, p, b, generations)
        /\ g.id # 0 => /\ Backing(g, lt, p, b)
                       /\ SeesFinalizing(g, b) => SeesFinalizing(g, a)
    BY <1>1, <2>1, <2>3, <2>4, <2>5, <2>6, CarriedOver, SMT
  <2>8. b.pc \notin {"off", "admit"}
    BY <1>3 DEF Live, Dead
  <2>9. /\ a.native = "active" => b.native = "active"
        /\ a.native \in Done => b.native \in Done
    BY DEF Turned
  <2> QED
    BY <1>1, <1>6, <2>7, <2>8, <2>9, ProgressAgent
<1> QED
  BY <1>5, <1>6 DEF Carries

(* An exception, after the inbox was emptied or the join given up.         *)
LEMMA RaiseCarries ==
  ASSUME Inv, NEW p \in AgentProcs, Live(agent[p]), agent[p].pc # "form",
         NEW c \in AgentRecord, NEW x \in BOOLEAN,
         c.plan = agent[p].plan, c.view = agent[p].view, c.inbox \in {agent[p].inbox, None},
         c.report = agent[p].report, c.registered = agent[p].registered, c.pc = agent[p].pc,
         c.arenas = agent[p].arenas,
         c.native = agent[p].native \/ (agent[p].pc = "join" /\ c.native = "closed")
  PROVE  Steps(agent[p], Raised(c, x)) /\ Carries(p, Raised(c, x))
<1> DEFINE a == agent[p]
           b == Raised(c, x)
<1>1. a \in AgentRecord /\ p \in alive /\ generations \in Nat /\ agent \in [AgentProcs -> AgentRecord]
  BY LiveAgent
<1>2. a.plan # 0 \/ a.arenas # "none" => a.registered
  BY LiveAgent
<1>3. /\ b \in AgentRecord /\ SameWorldView(c, b) /\ b.native = c.native /\ b.arenas = c.arenas
      /\ b.pc \in {"shut", "release", "retained"} /\ (c.pc \in Left => b.pc \in Left)
      /\ \/ b.sent = None
         \/ /\ c.report \in Reports /\ c.plan # 0 /\ b.sent \in Reports
            /\ b.sent.phase = c.report.phase /\ b.enriching = TRUE
  BY RaisedFields
<1> HIDE DEF b
<1>4. /\ b.plan = a.plan /\ b.view = a.view /\ b.inbox \in {a.inbox, None} /\ b.report = a.report
      /\ b.registered = a.registered /\ b.arenas = a.arenas
      /\ b.native = a.native \/ (a.pc = "join" /\ b.native = "closed")
      /\ a.pc \in Left => b.pc \in Left
  BY <1>3 DEF SameWorldView
<1>5. Live(b)
  BY <1>3 DEF Live, Dead
<1>6. Steps(a, b)
  <2>1. AgentStays(a, b)
    BY <1>2, <1>3, <1>4, <1>5 DEF AgentStays, Live, Dead
  <2> QED
    BY <1>3, <1>4, <1>5, <2>1 DEF Steps
<1>7. ASSUME NEW g \in Generations \cup {NoGeneration}, NEW lt \in SUBSET Messages,
             Progress(g, agent, lt, alive, generations)
      PROVE  Progress(g, [agent EXCEPT ![p] = b], lt, alive, generations)
  <2>1. /\ AgentInv(g, p, a, generations) /\ RecordInv(a)
        /\ g.id # 0 => Backing(g, lt, p, a)
    BY <1>1, <1>7 DEF Progress, AgentInv, Backing
  <2>2. Reported(b) = Reported(a) /\ (PreJoin(b) <=> PreJoin(a))
    BY <1>4 DEF Reported, PreJoin
  <2>3. a.pc = "join" => a.native = "joining" /\ Reported(a) = "joining"
    BY <2>1 DEF RecordInv
  <2>4. b.plan # 0 => <<Reported(b), b.native>> \in NativeAt
    <3>1. b.native = a.native /\ b.plan # 0 => <<Reported(b), b.native>> \in NativeAt
      BY <1>4, <2>1, <2>2 DEF RecordInv
    <3>2. <<"joining", "closed">> \in NativeAt
      BY DEF NativeAt
    <3> QED
      BY <1>4, <2>2, <2>3, <3>1, <3>2
  <2>5. b.sent # None => SentFits(b)
    <3> SUFFICES ASSUME b.sent # None PROVE SentFits(b)
      OBVIOUS
    <3>1. /\ b.plan # 0 /\ b.report \in Reports /\ b.sent.phase = b.report.phase /\ b.enriching = TRUE
      BY <1>3 DEF SameWorldView
    <3>2. Reported(b) = b.sent.phase
      BY <3>1, ReportAssumption DEF Reported
    <3>3. b.sent.phase = "join_ready" => PreJoin(b)
      BY <3>2 DEF PreJoin
    <3>4. <<b.sent.phase, b.native>> \in NativeAt
      BY <2>4, <3>1, <3>2
    <3> QED
      BY <3>1, <3>2, <3>3, <3>4 DEF SentFits
  <2>6. RecordInv(b)
    BY <1>3, <2>4, <2>5 DEF RecordInv
  <2>7. /\ a.native = "active" => b.native = "active"
        /\ a.native \in Done => b.native \in Done
    BY <1>4, <2>3 DEF Done
  <2>8. Firm(g, a, b)
    BY <1>4, <2>2, <2>7 DEF Firm
  <2>9. /\ (b.plan = a.plan /\ b.view = a.view) \/ b.plan = 0
        /\ b.report # None => b.plan # 0 /\ g.id = b.plan /\ g.agents[slot[p]] = p
        /\ b.pc = "finalize" => a.pc = "finalize" \/ a.view = "finalizing"
    BY <1>3, <1>4, <2>1 DEF AgentInv
  <2>10. \A f \in {b.sent, b.report} : f # None /\ b.plan = g.id => Claims(g, a, lt, p, f.phase)
    <3>1. \A f \in {b.sent, b.report} : f # None => a.report # None /\ f.phase = a.report.phase
      BY <1>3, <1>4, ReportAssumption DEF SameWorldView
    <3> QED
      BY <1>4, <3>1 DEF Claims
  <2>11. /\ AgentInv(g, p, b, generations)
         /\ g.id # 0 => /\ Backing(g, lt, p, b)
                        /\ SeesFinalizing(g, b) => SeesFinalizing(g, a)
    BY <1>1, <1>4, <2>1, <2>6, <2>8, <2>9, <2>10, CarriedOver, SMT
  <2>12. b.pc \notin {"off", "admit"}
    BY <1>5 DEF Live, Dead
  <2> QED
    BY <1>1, <1>3, <1>7, <2>7, <2>11, <2>12, ProgressAgent
<1> QED
  BY <1>6, <1>7 DEF Carries, b

(* A generation that moves on or halts keeps Progress.                     *)
LEMMA MovesWorld ==
  ASSUME Inv, fabric \in Generations, Moves(fabric, fabric') \/ Halts(fabric, fabric', alive)
  PROVE  /\ fabric' \in Generations /\ WorldStays
         /\ Progress(fabric', agent, late, alive, generations)
<1>1. SameWorld(fabric, fabric')
  BY DEF Moves, Halts
<1>2. fabric'.phase \in Early => fabric.phase \in Early
  BY DEF Moves, Halts, Onward, Early, StartPhases
<1>3. Progress(fabric, agent, late, alive, generations)
  BY DEF Inv
<1>4. Progress(fabric', agent, late, alive, generations)
  BY <1>3, ProgressMoves
<1> QED
  BY <1>1, <1>2, <1>4 DEF WorldStays, SameWorld

(***************************************************************************)
(* A generation that accepts a report which its Agent claims keeps         *)
(* Progress.                                                               *)
(***************************************************************************)
LEMMA AcceptsWorld ==
  ASSUME Inv, fabric \in Generations, NEW pe \in Pes, NEW r \in Reports,
         Accepts(fabric, pe, r, fabric'),
         Claims(fabric, agent[fabric.agents[pe]], late, fabric.agents[pe], r.phase)
  PROVE  /\ fabric' \in Generations /\ WorldStays
         /\ Progress(fabric', agent, late, alive, generations)
<1>1. SameWorld(fabric, fabric')
  BY DEF Accepts
<1>2. fabric'.phase \in Early => fabric.phase \in Early
  BY DEF Accepts, Onward, Passes, Early, StartPhases
<1>3. Progress(fabric, agent, late, alive, generations)
  BY DEF Inv
<1>4. Progress(fabric', agent, late, alive, generations)
  BY <1>3, ProgressAccepts
<1> QED
  BY <1>1, <1>2, <1>4 DEF WorldStays, SameWorld

(* What a process has left when it is gone.                                *)
LEMMA GoneFields ==
  ASSUME NEW pc \in AgentPcs
  PROVE  /\ Gone(pc) \in AgentRecord /\ Gone(pc).pc = pc /\ Gone(pc).plan = 0
         /\ Gone(pc).report = None /\ Gone(pc).sent = None /\ Gone(pc).inbox = None
         /\ Gone(pc).arenas = "none" /\ Gone(pc).native = "empty" /\ Gone(pc).registered = FALSE
<1>1. /\ "off" \in AgentPcs /\ 0 \in Nat /\ "none" \in Views /\ "empty" \in Natives
      /\ None \in MaybeReport
  BY SMT DEF AgentPcs, Dead, Views, Natives, MaybeReport
<1>2. Idle \in AgentRecord
  BY <1>1 DEF Idle, AgentRecord
<1>3. [Idle EXCEPT !.pc = pc] \in AgentRecord
  BY <1>2 DEF AgentRecord
<1>4. /\ Idle.plan = 0 /\ Idle.report = None /\ Idle.sent = None /\ Idle.inbox = None
      /\ Idle.arenas = "none" /\ Idle.native = "empty"
  BY SMT DEF Idle
<1>5. /\ [Idle EXCEPT !.pc = pc].pc = pc /\ [Idle EXCEPT !.pc = pc].plan = Idle.plan
      /\ [Idle EXCEPT !.pc = pc].report = Idle.report /\ [Idle EXCEPT !.pc = pc].sent = Idle.sent
      /\ [Idle EXCEPT !.pc = pc].inbox = Idle.inbox /\ [Idle EXCEPT !.pc = pc].arenas = Idle.arenas
      /\ [Idle EXCEPT !.pc = pc].native = Idle.native
  BY <1>2, SMT DEF AgentRecord
<1>6. [Idle EXCEPT !.pc = pc].registered = FALSE
  BY DEF Idle
<1> QED
  BY <1>3, <1>4, <1>5, <1>6 DEF Gone

(* A process that is dead or not admitted has nothing to report.           *)
LEMMA NothingLeft ==
  ASSUME Inv, NEW p \in AgentProcs, ~Live(agent[p])
  PROVE  /\ agent[p] = Gone(agent[p].pc) /\ agent[p].plan = 0
         /\ agent[p].report = None /\ agent[p].sent = None /\ agent[p].inbox = None
         /\ agent[p].arenas = "none" /\ agent[p].native = "empty" /\ agent[p].registered = FALSE
<1>1. agent[p] = Gone(agent[p].pc)
  BY DEF Inv, Structure, ProcInv, Live
<1>2. agent[p].pc \in AgentPcs
  BY StructureTypes, AgentFields DEF Inv
<1>3. /\ Gone(agent[p].pc).plan = 0 /\ Gone(agent[p].pc).report = None
      /\ Gone(agent[p].pc).sent = None /\ Gone(agent[p].pc).inbox = None
      /\ Gone(agent[p].pc).arenas = "none" /\ Gone(agent[p].pc).native = "empty"
      /\ Gone(agent[p].pc).registered = FALSE
  BY <1>2, GoneFields
<1> QED
  BY <1>1, <1>3


-----------------------------------------------------------------------------
(* Steps in which no Agent moves.                                          *)

FrameMoves ==
  /\ UNCHANGED <<agent, startups, broker, generations>> /\ FormingStays
  /\ alive' \in SUBSET Procs /\ sealed' \in BOOLEAN /\ closed' \in BOOLEAN
  /\ inst' \in [InstanceProcs -> InstanceRecord]
  /\ \A p \in InstanceProcs : InstanceStays(inst[p], inst'[p])
  /\ book' \in [Slots -> Registrations \cup {None}] /\ SameBook
  /\ leases' \in [Ranks -> Procs \cup {None}]
  /\ fabric' \in Generations \cup {NoGeneration} /\ WorldStays /\ late' \in SUBSET Messages

(* Nobody attaches anew.                                                   *)
FewerAttached ==
  \A p \in InstanceProcs : AttachedNext(p) =>
    /\ Attached(p) /\ leases'[slot[p]] = leases[slot[p]]
    /\ inst'[p].arena \in {None, inst[p].arena, leases[slot[p]]}

(***************************************************************************)
(* The structure a step keeps in which no Agent moves, the close and the   *)
(* leases apart.                                                           *)
(***************************************************************************)
LEMMA FrameWorld ==
  ASSUME Inv, FrameMoves, ProcInv'
  PROVE  TypeOK' /\ AdmitInv' /\ RosterInv' /\ OwnInv' /\ BrokerInv' /\ AgentsStay
<1>1. /\ TypeOK /\ ProcInv /\ AdmitInv /\ RosterInv /\ OwnInv /\ BrokerInv /\ LeaseInv
      /\ UNCHANGED <<agent, startups, broker, generations>> /\ FormingStays /\ SameBook /\ WorldStays
  BY DEF Inv, Structure, FrameMoves
<1>2. TypeOK'
  <2>1. forming' \in Rosters \cup {None}
    BY <1>1 DEF FormingStays
  <2> QED
    BY <1>1, <2>1 DEF FrameMoves, TypeOK
<1>3. AdmitInv'
  BY <1>1 DEF AdmitInv
<1>4. AllStay
  <2>1. \A p \in AgentProcs : AgentStays(agent[p], agent[p])
    BY <1>1 DEF AgentStays, OwnInv, Dead
  <2> QED
    BY <1>1, <2>1 DEF AllStay, AgentsStay, FrameMoves
<1>s. AgentsStay /\ MembersKept /\ \A a \in Atn : book'[a] # None => book[a] # None
  BY <1>1, <1>4, MembersStay, StructureTypes DEF AllStay, SameBook
<1>5. SameOwners /\ BrokerStays
  BY <1>1, BrokerSame
<1>6. RosterInv' /\ OwnInv'
  BY <1>1, <1>4, <1>5, RosterStays, OwnStays
<1>7. BrokerInv'
  <2>1. ArenasStay
    BY <1>1 DEF ArenasStay
  <2>2. ExitsSpent
    BY <1>1 DEF ExitsSpent
  <2> QED
    BY <1>1, <1>s, <1>5, <2>1, <2>2, BrokerInvStays
<1> QED
  BY <1>2, <1>3, <1>6, <1>7, <1>s

(* The whole invariant survives if nobody attaches anew.                   *)
LEMMA FrameKeeps ==
  ASSUME Inv, FrameMoves, ProcInv', CloseInv', FewerAttached,
         Progress(fabric', agent', late', alive', generations')
  PROVE  Inv'
<1>1. TypeOK /\ ProcInv /\ LeaseInv /\ agent' = agent /\ WorldStays
  BY DEF Inv, Structure, FrameMoves
<1>s. TypeOK' /\ AdmitInv' /\ RosterInv' /\ OwnInv' /\ BrokerInv' /\ AgentsStay
  BY FrameWorld
<1>8. LeaseInv'
  <2>1. ASSUME NEW q \in InstanceProcs, AttachedNext(q)
        PROVE  LendsNext(leases[slot[q]])
    <3>1. Attached(q)
      BY <2>1 DEF FewerAttached
    <3>2. agent'[leases[slot[q]]].pc # "exited"
      BY <1>1, <3>1 DEF LeaseInv
    <3>3. agent'[leases[slot[q]]].arenas = agent[leases[slot[q]]].arenas
      BY <1>1
    <3> QED
      BY <1>1, <1>s, <3>1, <3>2, <3>3, LendersStay
  <2>2. \A q \in InstanceProcs : AttachedNext(q) =>
          /\ Attached(q) /\ leases'[slot[q]] = leases[slot[q]]
          /\ inst'[q].arena \in {None, inst[q].arena, leases[slot[q]]}
          /\ LendsNext(leases[slot[q]])
    BY <2>1 DEF FewerAttached
  <2> QED
    BY <1>1, <2>2, LeaseStays
<1> QED
  BY <1>s, <1>8 DEF Inv, Structure

(* The instances keep what they have.                                      *)
LEMMA InstancesIdle ==
  ASSUME Inv
  PROVE  \A p \in InstanceProcs : InstanceStays(inst[p], inst[p])
  BY DEF Inv, Structure, OwnInv, InstanceStays, Waiting

(* A step of the daemon.                                                   *)
LEMMA DaemonKeeps ==
  ASSUME Inv, UNCHANGED <<agent, inst, alive, startups, broker, leases, forming, generations>>,
         sealed' \in BOOLEAN, closed' \in BOOLEAN,
         book' \in [Slots -> Registrations \cup {None}], SameBook,
         fabric' \in Generations \cup {NoGeneration}, WorldStays, late' \in SUBSET Messages,
         CloseInv', Progress(fabric', agent, late', alive, generations)
  PROVE  Inv'
<1>1. FrameMoves
  <2>1. /\ alive' \in SUBSET Procs /\ inst' \in [InstanceProcs -> InstanceRecord]
        /\ leases' \in [Ranks -> Procs \cup {None}]
    BY DEF Inv, TypeOK
  <2>3. FormingStays
    BY FormingSame DEF Inv
  <2>2. \A p \in InstanceProcs : InstanceStays(inst[p], inst'[p])
    BY InstancesIdle
  <2> QED
    BY <2>1, <2>2, <2>3 DEF FrameMoves
<1>2. ProcInv'
  BY DEF Inv, Structure, ProcInv
<1>3. FewerAttached
  BY DEF FewerAttached, AttachedNext, Attached
<1>4. Progress(fabric', agent', late', alive', generations')
  OBVIOUS
<1> QED
  BY <1>1, <1>2, <1>3, <1>4, FrameKeeps

-----------------------------------------------------------------------------
(* The comings and goings of the Agents.                                   *)

(***************************************************************************)
(* Agent p starts, is admitted, or exits: it has nothing afterwards, and   *)
(* nobody leases from it unless it crashed.                                *)
(***************************************************************************)
AgentTurns(p, b) ==
  /\ b \in AgentRecord /\ AgentStays(agent[p], b) /\ b.arenas = "none"
  /\ agent' = [agent EXCEPT ![p] = b]
  /\ alive' \in SUBSET Procs /\ \A q \in Procs : q # p => (q \in alive' <=> q \in alive)
  /\ p \in alive' => agent[p].arenas = "none"
  /\ startups' \in [Pes -> Procs \cup {None}]
  /\ broker' \in [Atn -> Publications \cup {None}] /\ BrokerStays
  /\ UNCHANGED <<book, leases, fabric, forming, generations, sealed, closed, inst, late>>

(* Such a step keeps the invariant.                                        *)
LEMMA AgentComes ==
  ASSUME Inv, NEW p \in AgentProcs, NEW b, AgentTurns(p, b), ProcInv', AdmitInv', CloseInv',
         b.pc = "exited" =>
           \/ agent[p].pc = "admit" \/ ~Owns(p)
           \/ slot[p] \in Atn => SpentNext(slot[p])
           \/ fabric.phase \notin Early /\ fabric.id # 0,
         \A q \in InstanceProcs : Attached(q) /\ leases[slot[q]] = p =>
           b.pc \notin {"off", "exited"} /\ p \notin alive',
         Progress(fabric, agent', late, alive', generations)
  PROVE  Inv'
<1>1. TypeOK /\ ProcInv /\ RosterInv /\ OwnInv /\ BrokerInv /\ LeaseInv
  BY DEF Inv, Structure
<1>2. /\ UNCHANGED <<book, leases, fabric, forming, generations, sealed, closed, inst, late>>
      /\ BrokerStays /\ SameOwners /\ AgentStays(agent[p], b) /\ b.arenas = "none"
      /\ p \in alive' => agent[p].arenas = "none"
      /\ \A q \in AgentProcs : q # p => (q \in alive' <=> q \in alive)
  BY DEF AgentTurns, BrokerStays, AgentProcs
<1>3. /\ agent'[p] = b /\ \A q \in AgentProcs : q # p => agent'[q] = agent[q]
      /\ agent' \in [AgentProcs -> AgentRecord]
  BY <1>1 DEF AgentTurns, TypeOK
<1>4. TypeOK'
  BY <1>1, <1>2, <1>3 DEF TypeOK, AgentTurns
<1>5. AllStay
  <2>1. ASSUME NEW q \in AgentProcs
        PROVE  AgentStays(agent[q], agent'[q])
    <3>1. CASE q = p
      BY <1>2, <1>3, <3>1
    <3>2. CASE q # p
      BY <1>1, <1>3, <3>2 DEF AgentStays, OwnInv, Dead
    <3> QED
      BY <3>1, <3>2
  <2> QED
    BY <1>2, <2>1, InstancesIdle DEF AllStay, AgentsStay
<1>6. SameBook /\ WorldStays /\ FormingStays
  BY <1>1, <1>2, FormingSame DEF SameBook, WorldStays
<1>7. RosterInv' /\ OwnInv'
  BY <1>1, <1>2, <1>5, <1>6, RosterStays, OwnStays
<1>8. BrokerInv'
  <2>1. AgentsStay /\ MembersKept /\ \A a \in Atn : book'[a] # None => book[a] # None
    BY <1>1, <1>2, <1>5, MembersStay DEF AllStay
  <2>2. ArenasStay
    <3> SUFFICES ASSUME NEW q \in AgentProcs, q \in alive'
                 PROVE  /\ agent'[q].arenas = "none" => agent[q].arenas = "none"
                        /\ agent'[q].arenas = "drained" => agent[q].arenas = "drained"
      BY DEF ArenasStay
    <3> QED
      BY <1>2, <1>3
  <2>3. ExitsSpent
    <3> SUFFICES ASSUME NEW q \in AgentProcs, agent'[q].pc = "exited"
                 PROVE  \/ agent[q].pc \in {"exited", "admit"} \/ ~Owns(q)
                        \/ slot[q] \in Atn => SpentNext(slot[q])
                        \/ fabric'.phase \notin Early /\ fabric.id # 0
      BY DEF ExitsSpent
    <3> QED
      BY <1>2, <1>3
  <2> QED
    BY <1>1, <1>2, <1>6, <2>1, <2>2, <2>3, BrokerInvStays
<1>9. LeaseInv'
  <2>1. ASSUME NEW q \in InstanceProcs, AttachedNext(q)
        PROVE  /\ Attached(q) /\ leases'[slot[q]] = leases[slot[q]]
               /\ inst'[q].arena \in {None, inst[q].arena, leases[slot[q]]}
               /\ LendsNext(leases[slot[q]])
    <3>1. Attached(q)
      BY <1>2, <2>1 DEF Attached, AttachedNext
    <3>2. LET w == leases[slot[q]] IN
          /\ w \in AgentProcs /\ agent[w].pc \notin {"off", "exited"}
          /\ w \in alive => agent[w].arenas \notin {"none", "drained"}
      BY <1>1, <3>1 DEF LeaseInv
    <3>3. LendsNext(leases[slot[q]])
      <4>1. CASE leases[slot[q]] = p
        BY <1>3, <3>1, <4>1 DEF LendsNext
      <4>2. CASE leases[slot[q]] # p
        BY <1>2, <1>3, <3>2, <4>2 DEF LendsNext
      <4> QED
        BY <4>1, <4>2
    <3> QED
      BY <1>2, <3>1, <3>3
  <2> QED
    BY <1>1, <1>6, <2>1, LeaseStays
<1>10. Progress(fabric', agent', late', alive', generations')
  BY <1>2
<1> QED
  BY <1>4, <1>7, <1>8, <1>9, <1>10 DEF Inv, Structure

(* Agent p exits or crashes.                                               *)
LEMMA AgentExits ==
  ASSUME Inv, NEW p \in AgentProcs, NEW x \in {"exited", "crashed"}, Exit(p, x),
         broker' \in [Atn -> Publications \cup {None}], BrokerStays,
         UNCHANGED <<startups, book, leases, fabric, forming, generations, sealed, closed, inst, late>>,
         agent[p].pc # "off",
         x = "exited" =>
           /\ \/ agent[p].pc = "admit" \/ ~Owns(p)
              \/ slot[p] \in Atn => SpentNext(slot[p])
              \/ fabric.phase \notin Early /\ fabric.id # 0
           /\ \A q \in InstanceProcs : Attached(q) => leases[slot[q]] # p
  PROVE  Inv'
<1> DEFINE b == Gone(x)
<1>1. TypeOK /\ ProcInv /\ AdmitInv /\ CloseInv /\ generations \in Nat /\ late \in SUBSET Messages
  BY DEF Inv, Structure, TypeOK
<1>2. x \in AgentPcs /\ x \notin {"off", "admit"} /\ x \in Dead
  BY DEF AgentPcs, Dead
<1>3. /\ b \in AgentRecord /\ b.pc = x /\ b.plan = 0 /\ b.arenas = "none" /\ b.registered = FALSE
  BY <1>2, GoneFields
<1>4. alive' = alive \ {p} /\ agent' = [agent EXCEPT ![p] = b]
  BY DEF Exit, Set
<1>5. agent \in [AgentProcs -> AgentRecord]
  BY <1>1 DEF TypeOK
<1>6. agent'[p] = b /\ \A q \in AgentProcs : q # p => agent'[q] = agent[q]
  BY <1>4, <1>5
<1>7. Progress(fabric, agent', late, alive', generations)
  <2>1. Progress(fabric, agent, late, alive, generations)
    BY DEF Inv
  <2> QED
    BY <1>1, <1>4, <1>5, <2>1, ProgressExit
<1>8. AgentStays(agent[p], b)
  BY <1>2, <1>3 DEF AgentStays
<1>9. AgentTurns(p, b)
  <2>1. alive' \in SUBSET Procs /\ startups' \in [Pes -> Procs \cup {None}] /\ p \notin alive'
    BY <1>1, <1>4 DEF TypeOK
  <2>2. \A q \in Procs : q # p => (q \in alive' <=> q \in alive)
    BY <1>4
  <2> HIDE DEF b
  <2> QED
    BY <1>3, <1>4, <1>8, <2>1, <2>2 DEF AgentTurns
<1> HIDE DEF b
<1>10. ProcInv'
  <2>1. ASSUME NEW q \in AgentProcs
        PROVE  /\ q \in alive' <=> agent'[q].pc \notin Dead
               /\ agent'[q].pc \in Dead \cup {"admit"} => agent'[q] = Gone(agent'[q].pc)
    <3>1. CASE q = p
      <4>1. agent'[q] = Gone(x) /\ agent'[q].pc = x /\ q \notin alive'
        BY <1>3, <1>4, <1>6, <3>1 DEF b
      <4> QED
        BY <1>2, <4>1
    <3>2. CASE q # p
      BY <1>1, <1>4, <1>6, <3>2 DEF ProcInv
    <3> QED
      BY <3>1, <3>2
  <2>2. \A q \in InstanceProcs : q # p
    BY <1>1, StructureTypes
  <2>3. \A q \in InstanceProcs : q \in alive' <=> q \in alive
    BY <1>4, <2>2
  <2> QED
    BY <1>1, <2>1, <2>3 DEF ProcInv
<1>11. AdmitInv'
  <2>1. ASSUME NEW s \in Pes, startups[s] # None
        PROVE  slot[startups[s]] = s /\ agent'[startups[s]].pc \notin {"off", "admit"}
    <3>0. startups[s] \in Procs
      BY <1>1, <2>1 DEF TypeOK
    <3>1. startups[s] \in Procs /\ slot[startups[s]] = s /\ agent[startups[s]].pc \notin {"off", "admit"}
      BY <1>1, <2>1, <3>0 DEF AdmitInv
    <3>2. startups[s] \in AgentProcs
      BY <3>1 DEF AgentProcs
    <3> QED
      BY <1>2, <1>3, <1>6, <3>1, <3>2
  <2>2. \A q \in AgentProcs : agent'[q].pc \notin Dead \cup {"admit"} => startups[slot[q]] = q
    BY <1>1, <1>2, <1>3, <1>6 DEF AdmitInv
  <2> QED
    BY <2>1, <2>2 DEF AdmitInv
<1>12. CloseInv'
  <2>1. SameBook /\ alive' \subseteq alive
    BY <1>4 DEF SameBook
  <2> QED
    BY <1>1, <2>1, CloseStays
<1>13. \A q \in InstanceProcs : Attached(q) /\ leases[slot[q]] = p =>
         b.pc \notin {"off", "exited"} /\ p \notin alive'
  BY <1>2, <1>3, <1>4
<1> QED
  BY <1>3, <1>7, <1>9, <1>10, <1>11, <1>12, <1>13, AgentComes

(* Nobody leases from an Agent whose leases are not in use.                *)
LEMMA NoLessees ==
  ASSUME Inv, NEW p \in AgentProcs, LeasesInUse(slot[p]) = {}
  PROVE  \A q \in InstanceProcs : Attached(q) => leases[slot[q]] # p
<1>1. TypeOK /\ ProcInv /\ OwnInv /\ LeaseInv
  BY DEF Inv, Structure
<1> SUFFICES ASSUME NEW q \in InstanceProcs, Attached(q), leases[slot[q]] = p
             PROVE  slot[q] \in LeasesInUse(slot[p])
  OBVIOUS
<1>2. slot[q] \in Ranks /\ p # None
  BY <1>1, StructureTypes, PlacesAssumption
<1>3. slot[p] = device[slot[q]]
  BY <1>1 DEF LeaseInv
<1>4. inst[q].registered
  BY <1>1 DEF OwnInv, Attached
<1>5. Owns(q)
  BY <1>1, <1>4 DEF OwnInv
<1>6. q \in alive
  <2>1. inst[q].pc \in Dead => inst[q] = [NoInstance EXCEPT !.pc = inst[q].pc]
    BY <1>1 DEF ProcInv
  <2>2. [NoInstance EXCEPT !.pc = inst[q].pc].registered = FALSE
    BY SMT DEF NoInstance
  <2>3. inst[q].pc \notin Dead
    BY <1>4, <2>1, <2>2
  <2> QED
    BY <1>1, <2>3 DEF ProcInv
<1> QED
  BY <1>2, <1>3, <1>5, <1>6 DEF LeasesInUse, Owns

(* The AtnAgent p has closed lease admission.                              *)
LEMMA AdmissionEnds ==
  ASSUME Inv, NEW p \in AgentProcs, slot[p] \in Atn, quiesce_atnagent_transport_leases(p)
  PROVE  /\ broker' \in [Atn -> Publications \cup {None}] /\ BrokerStays
         /\ broker'[slot[p]] # None => ~broker'[slot[p]].accepting
         /\ UNCHANGED <<startups, book, leases, fabric, forming, generations, sealed, closed>>
<1> DEFINE a == slot[p]
           n == [broker[a] EXCEPT !.accepting = FALSE]
<1>1. /\ broker' = [broker EXCEPT ![a].accepting = FALSE]
      /\ UNCHANGED <<startups, book, leases, fabric, forming, generations, sealed, closed>>
  BY DEF quiesce_atnagent_transport_leases
<1>2. TypeOK /\ OwnInv /\ BrokerInv /\ Owns(p) /\ broker \in [Atn -> Publications \cup {None}]
  BY DEF Inv, Structure, quiesce_atnagent_transport_leases, TypeOK
<1>3. broker[a] \in Publications
  <2>1. broker[a] # None
    BY <1>2 DEF Owns, BrokerInv
  <2> QED
    BY <1>2, <2>1
<1>4. broker' = [broker EXCEPT ![a] = n]
  BY <1>1
<1>5. n \in Publications
  BY <1>3 DEF Publications
<1>6. n.owner = broker[a].owner /\ n.published = broker[a].published /\ n.accepting = FALSE
  BY <1>3, SMT DEF Publications
<1> HIDE DEF n
<1>7. broker'[a] = n /\ \A c \in Atn : c # a => broker'[c] = broker[c]
  BY <1>2, <1>4
<1>8. n # None /\ broker[a] # None
  BY <1>3, <1>5, NoneAssumption
<1>9. BrokerStays
  <2> SUFFICES ASSUME NEW c \in Atn
               PROVE  /\ broker'[c] = None <=> broker[c] = None
                      /\ broker[c] # None =>
                           /\ broker'[c].owner = broker[c].owner
                           /\ broker'[c].published = broker[c].published
                           /\ broker'[c].accepting => broker[c].accepting
    BY DEF BrokerStays, SameOwners
  <2>1. CASE c = a
    BY <1>6, <1>7, <1>8, <2>1
  <2>2. CASE c # a
    BY <1>7, <2>2
  <2> QED
    BY <2>1, <2>2
<1> QED
  BY <1>1, <1>2, <1>4, <1>5, <1>6, <1>7, <1>9

(* A crash of an Agent (CrashAgent) keeps the invariant.                   *)
LEMMA CrashAgentStep ==
  ASSUME Inv, NEW p \in AgentProcs, CrashAgent(p), UNCHANGED inst
  PROVE  Inv'
<1>1. p \in alive /\ Exit(p, "crashed") /\ Daemon /\ late' = late
  BY DEF CrashAgent, Quiet
<1>2. TypeOK /\ ProcInv
  BY DEF Inv, Structure
<1>3. agent[p].pc # "off"
  BY <1>1, <1>2 DEF ProcInv, Dead
<1>4. UNCHANGED <<startups, book, leases, fabric, forming, generations, sealed, closed, inst, late>>
  BY <1>1 DEF Daemon
<1>5. broker' \in [Atn -> Publications \cup {None}] /\ BrokerStays
  BY <1>1, <1>2, BrokerSame DEF Daemon
<1>6. "crashed" # "exited"
  OBVIOUS
<1> QED
  BY <1>1, <1>3, <1>4, <1>5, <1>6, AgentExits

(* An Agent without published arenas leaves: nobody can lease from it.     *)
LEMMA ReleaseRoleStep ==
  ASSUME Inv, NEW p \in AgentProcs, ReleaseRole(p), UNCHANGED inst
  PROVE  Inv'
<1>1. agent[p].pc = "release" /\ ~Published(p) /\ Exit(p, "exited") /\ Daemon /\ late' = late
  BY DEF ReleaseRole, Quiet
<1>2. TypeOK /\ ProcInv /\ OwnInv /\ BrokerInv /\ LeaseInv
  BY DEF Inv, Structure
<1>3. UNCHANGED <<startups, book, leases, fabric, forming, generations, sealed, closed, inst, late, broker>>
  BY <1>1 DEF Daemon
<1>4. broker' \in [Atn -> Publications \cup {None}] /\ BrokerStays
  BY <1>2, <1>3, BrokerSame
<1>5. agent[p].pc \notin Dead /\ agent[p].pc # "form" /\ p \in alive
  BY <1>1, <1>2 DEF ProcInv, Dead
<1>6. slot[p] \in Atn => agent[p].arenas = "none"
  BY <1>1, <1>2 DEF Published, OwnInv
<1>7. ASSUME Owns(p), slot[p] \in Atn
      PROVE  SpentNext(slot[p])
  <2>1. agent[p].registered
    BY <1>2, <1>5, <1>7 DEF OwnInv
  <2>2. broker[slot[p]] # None /\ broker[slot[p]].owner = p
    BY <1>2, <1>7, <2>1 DEF OwnInv
  <2>3. broker[slot[p]].published = {}
    BY <1>2, <1>5, <1>6, <1>7, <2>2 DEF BrokerInv
  <2> QED
    BY <1>3, <2>3 DEF SpentNext
<1>8. ASSUME NEW q \in InstanceProcs, Attached(q), leases[slot[q]] = p
      PROVE  FALSE
  <2>1. slot[p] = device[slot[q]] /\ agent[p].arenas # "none"
    BY <1>2, <1>5, <1>8 DEF LeaseInv
  <2>2. slot[p] \in Atn
    BY <1>2, <2>1, StructureTypes, PlacesAssumption
  <2> QED
    BY <1>6, <2>1, <2>2
<1>9. agent[p].pc # "off"
  BY <1>5 DEF Dead
<1> QED
  BY <1>1, <1>3, <1>4, <1>7, <1>8, <1>9, AgentExits

(* An Agent closes lease admission while its leases are in use.            *)
LEMMA AdmissionOnly ==
  ASSUME Inv, NEW p \in AgentProcs, slot[p] \in Atn, Live(agent[p]),
         quiesce_atnagent_transport_leases(p), UNCHANGED <<agent, alive, late, inst>>
  PROVE  Inv'
<1> DEFINE b == agent[p]
<1>1. /\ broker' \in [Atn -> Publications \cup {None}] /\ BrokerStays
      /\ UNCHANGED <<startups, book, leases, fabric, forming, generations, sealed, closed>>
  BY AdmissionEnds
<1>2. TypeOK /\ Progress(fabric, agent, late, alive, generations)
  BY DEF Inv
<1>3. agent \in [AgentProcs -> AgentRecord] /\ fabric \in Generations \cup {NoGeneration}
  BY <1>2 DEF TypeOK
<1>4. agent' = [agent EXCEPT ![p] = b] /\ b \in AgentRecord
  BY <1>3, SMT
<1>5. AgentStays(b, b)
  BY LiveAgent DEF AgentStays, Live, Dead
<1>6. FormingStays /\ SameBook /\ WorldStays
  BY <1>1, <1>2, FormingSame DEF SameBook, WorldStays
<1>7. /\ book' \in [Slots -> Registrations \cup {None}] /\ late' \in SUBSET Messages
      /\ fabric' \in Generations \cup {NoGeneration} /\ SameOwners
  BY <1>1, <1>2 DEF TypeOK, BrokerStays
<1>8. Progress(fabric', agent', late', alive', generations')
  BY <1>1, <1>2
<1>9. AgentMoves(p, b)
  <2>1. UNCHANGED <<alive, startups, leases, generations, sealed, closed, inst>>
    BY <1>1
  <2> HIDE DEF b
  <2>2. Live(agent[p]) /\ Live(b) /\ AgentStays(agent[p], b)
    BY <1>5 DEF b
  <2> QED
    BY <1>1, <1>4, <1>6, <1>7, <2>1, <2>2 DEF AgentMoves
<1> QED
  BY <1>1, <1>8, <1>9, AgentKeeps

(***************************************************************************)
(* close_role of an AtnAgent (ReleaseArenas): it leaves once nobody leases *)
(* its arenas.                                                             *)
(***************************************************************************)
LEMMA ReleaseArenasStep ==
  ASSUME Inv, NEW p \in AgentProcs, ReleaseArenas(p), UNCHANGED inst
  PROVE  Inv'
<1>1. /\ agent[p].pc = "release" /\ slot[p] \in Atn /\ quiesce_atnagent_transport_leases(p)
      /\ late' = late
      /\ IF LeasesInUse(slot[p]) = {} THEN Exit(p, "exited") ELSE UNCHANGED <<agent, alive>>
  BY DEF ReleaseArenas, Published, Quiet
<1>2. /\ broker' \in [Atn -> Publications \cup {None}] /\ BrokerStays
      /\ broker'[slot[p]] # None => ~broker'[slot[p]].accepting
      /\ UNCHANGED <<startups, book, leases, fabric, forming, generations, sealed, closed>>
  BY <1>1, AdmissionEnds
<1>3. CASE LeasesInUse(slot[p]) = {}
  <2>1. \A q \in InstanceProcs : Attached(q) => leases[slot[q]] # p
    BY <1>3, NoLessees
  <2>2. SpentNext(slot[p])
    BY <1>2 DEF SpentNext
  <2>3. Exit(p, "exited") /\ agent[p].pc # "off"
    BY <1>1, <1>3
  <2> QED
    BY <1>1, <1>2, <2>1, <2>2, <2>3, AgentExits
<1>4. CASE LeasesInUse(slot[p]) # {}
  <2>1. UNCHANGED <<agent, alive>> /\ Live(agent[p])
    BY <1>1, <1>4 DEF Live, Dead
  <2> QED
    BY <1>1, <2>1, AdmissionOnly
<1> QED
  BY <1>3, <1>4

(***************************************************************************)
(* os._exit after STOPPED: every Agent of a generation that reached it has *)
(* drained its arenas, or its ranks are gone.                              *)
(***************************************************************************)
LEMMA StoppedFailedStep ==
  ASSUME Inv, NEW p \in AgentProcs, StoppedFailed(p), UNCHANGED inst
  PROVE  Inv'
<1>1. /\ agent[p].view = "stopped" /\ agent[p].report # None /\ agent[p].pc \in {"loop", "shut", "retained"}
      /\ Exit(p, "exited") /\ Daemon /\ late' = late
  BY DEF StoppedFailed, Quiet, Reported, Advancing, Running, InLoop
<1>2. TypeOK /\ ProcInv /\ RosterInv /\ LeaseInv /\ Progress(fabric, agent, late, alive, generations)
  BY DEF Inv, Structure
<1>3. agent[p].pc # "off" /\ p \in alive
  BY <1>1, <1>2 DEF ProcInv, Dead
<1>4. /\ agent[p].plan # 0 /\ fabric.id = agent[p].plan /\ fabric.agents[slot[p]] = p
      /\ Behind(agent[p].view, fabric.phase)
  BY <1>1, <1>2 DEF Progress, AgentInv
<1>5. fabric.phase = "stopped" /\ fabric.id # 0
  BY <1>1, <1>4 DEF Behind
<1>6. fabric.phase \notin Early
  BY <1>5 DEF Early, StartPhases
<1>7. UNCHANGED <<startups, book, leases, fabric, forming, generations, sealed, closed, inst, late, broker>>
  BY <1>1 DEF Daemon
<1>8. broker' \in [Atn -> Publications \cup {None}] /\ BrokerStays
  BY <1>2, <1>7, BrokerSame
<1>9. ASSUME NEW q \in InstanceProcs, Attached(q), leases[slot[q]] = p
      PROVE  FALSE
  <2>1. /\ slot[p] = device[slot[q]] /\ agent[p].arenas # "drained"
        /\ fabric.instances[slot[q]] = q
    BY <1>2, <1>3, <1>9 DEF LeaseInv
  <2>2. slot[q] \in Ranks /\ slot[p] \in Atn /\ slot[p] \in Pes
    BY <1>2, <2>1, StructureTypes, PlacesAssumption
  <2>3. q \in alive
    <3>1. inst[q].pc \in Dead => inst[q] = [NoInstance EXCEPT !.pc = inst[q].pc]
      BY <1>2 DEF ProcInv
    <3>2. [NoInstance EXCEPT !.pc = inst[q].pc].arena = None
      BY SMT DEF NoInstance
    <3>3. inst[q].pc \notin Dead
      BY <1>9, <3>1, <3>2 DEF Attached, Dead
    <3> QED
      BY <1>2, <3>3 DEF ProcInv
  <2>4. AllPast(fabric)
    <3>1. GenerationInv(fabric, agent, alive)
      BY <1>2, <1>5 DEF Progress
    <3> QED
      BY <1>5, <2>1, <2>2, <2>3, <3>1 DEF GenerationInv
  <2> DEFINE ph == fabric.participants[slot[p]].phase
  <2>5. fabric.participants[slot[p]] # None /\ ph \in PostQuiesce
    BY <2>2, <2>4 DEF AllPast
  <2>6. ph \in ParticipantPhases
    BY <2>5 DEF PostQuiesce, ParticipantPhases
  <2>7. Claims(fabric, agent[p], late, p, ph)
    BY <1>4, <2>5 DEF Claims
  <2>8. Backed(fabric, p, agent[p], ph)
    BY <1>2, <1>3, <1>5, <2>6, <2>7 DEF Progress
  <2> QED
    BY <2>1, <2>2, <2>5, <2>8 DEF Backed
<1> QED
  BY <1>1, <1>3, <1>5, <1>6, <1>7, <1>8, <1>9, AgentExits

(* An Agent process starts, which no generation and no report knows.       *)
LEMMA StartAgentStep ==
  ASSUME Inv, NEW p \in AgentProcs, StartAgent(p), UNCHANGED inst
  PROVE  Inv'
<1> DEFINE b == Gone("admit")
<1>1. /\ agent[p].pc = "off" /\ alive' = alive \cup {p} /\ Daemon /\ late' = late
      /\ agent' = [agent EXCEPT ![p] = b]
  BY DEF StartAgent, Set, Quiet, Gone
<1>2. /\ TypeOK /\ ProcInv /\ AdmitInv /\ RosterInv /\ CloseInv /\ LeaseInv
      /\ Progress(fabric, agent, late, alive, generations)
  BY DEF Inv, Structure
<1>3. /\ UNCHANGED <<startups, book, leases, fabric, forming, generations, sealed, closed, inst, late, broker>>
      /\ p \in Procs /\ slot[p] \in Pes /\ slot[p] \notin Ranks
  BY <1>1, <1>2, StructureTypes DEF Daemon
<1>4. /\ b \in AgentRecord /\ b.pc = "admit" /\ b.plan = 0 /\ b.arenas = "none" /\ b.registered = FALSE
      /\ b.report = None /\ b.sent = None /\ b.inbox = None
  <2>1. "admit" \in AgentPcs
    BY DEF AgentPcs
  <2> QED
    BY <2>1, GoneFields
<1>5. /\ agent[p].plan = 0 /\ agent[p].arenas = "none" /\ agent[p].registered = FALSE
      /\ agent[p].inbox = None
  BY <1>1, NothingLeft DEF Live, Dead
<1>6. agent \in [AgentProcs -> AgentRecord] /\ generations \in Nat /\ late \in SUBSET Messages
  BY <1>2 DEF TypeOK
<1>7. agent'[p] = b /\ \A q \in AgentProcs : q # p => agent'[q] = agent[q]
  BY <1>1, <1>6
<1> HIDE DEF b
<1>8. \A s : ~Member(s, p)
  BY <1>1, <1>3 DEF Member
<1>9. \A s \in Pes : startups[s] # p
  <2>1. p # None
    BY <1>3, PlacesAssumption
  <2> QED
    BY <1>1, <1>2, <2>1 DEF AdmitInv
<1>10. AgentTurns(p, b)
  <2>1. AgentStays(agent[p], b)
    BY <1>1, <1>4, <1>5 DEF AgentStays, Dead
  <2>2. alive' \in SUBSET Procs /\ startups' \in [Pes -> Procs \cup {None}]
    BY <1>1, <1>2, <1>3 DEF TypeOK
  <2>3. \A q \in Procs : q # p => (q \in alive' <=> q \in alive)
    BY <1>1
  <2>4. broker' \in [Atn -> Publications \cup {None}] /\ BrokerStays
    BY <1>2, <1>3, BrokerSame
  <2> QED
    BY <1>1, <1>3, <1>4, <1>5, <2>1, <2>2, <2>3, <2>4 DEF AgentTurns
<1>11. ProcInv'
  <2>1. ASSUME NEW q \in AgentProcs
        PROVE  /\ q \in alive' <=> agent'[q].pc \notin Dead
               /\ agent'[q].pc \in Dead \cup {"admit"} => agent'[q] = Gone(agent'[q].pc)
    <3>1. CASE q = p
      <4>1. agent'[q] = Gone("admit") /\ agent'[q].pc = "admit" /\ q \in alive'
        BY <1>1, <1>4, <1>7, <3>1 DEF b
      <4> QED
        BY <4>1 DEF Dead
    <3>2. CASE q # p
      BY <1>1, <1>2, <1>7, <3>2 DEF ProcInv
    <3> QED
      BY <3>1, <3>2
  <2>2. \A q \in InstanceProcs : q # p
    BY <1>2, <1>3, StructureTypes
  <2>3. \A q \in InstanceProcs : q \in alive' <=> q \in alive
    BY <1>1, <2>2
  <2> QED
    BY <1>2, <1>3, <2>1, <2>3 DEF ProcInv
<1>12. AdmitInv'
  <2>1. ASSUME NEW s \in Pes, startups[s] # None
        PROVE  slot[startups[s]] = s /\ agent'[startups[s]].pc \notin {"off", "admit"}
    <3>0. startups[s] \in Procs
      BY <1>2, <2>1 DEF TypeOK
    <3>1. slot[startups[s]] = s /\ agent[startups[s]].pc \notin {"off", "admit"}
      BY <1>2, <2>1 DEF AdmitInv
    <3>2. startups[s] \in AgentProcs
      BY <3>0, <3>1 DEF AgentProcs
    <3> QED
      BY <1>7, <1>9, <3>1, <3>2
  <2>2. \A q \in AgentProcs : agent'[q].pc \notin Dead \cup {"admit"} => startups[slot[q]] = q
    BY <1>2, <1>4, <1>7 DEF AdmitInv
  <2> QED
    BY <1>3, <2>1, <2>2 DEF AdmitInv
<1>13. CloseInv'
  <2>1. \A s \in Slots : book[s] # None => book[s].proc # p
    BY <1>2, <1>8 DEF RosterInv
  <2> SUFFICES ASSUME closed
               PROVE  /\ sealed /\ \A s \in Pes : startups[s] \notin alive'
                      /\ \A s \in Slots : book[s] # None => book[s].proc \notin alive'
    BY <1>3 DEF CloseInv
  <2>2. /\ sealed /\ \A s \in Pes : startups[s] \notin alive
        /\ \A s \in Slots : book[s] # None => book[s].proc \notin alive
    BY <1>2 DEF CloseInv
  <2> QED
    BY <1>1, <1>9, <2>1, <2>2
<1>14. \A q \in InstanceProcs : Attached(q) => leases[slot[q]] # p
  <2>1. \A q \in InstanceProcs : Attached(q) => agent[leases[slot[q]]].pc # "off"
    BY <1>2 DEF LeaseInv
  <2> QED
    BY <1>1, <2>1
<1>15. Progress(fabric, agent', late, alive', generations)
  <2>1. fabric.id # 0 => /\ \A pe \in Pes : fabric.agents[pe] # p
                         /\ \A r \in Ranks : fabric.instances[r] # p
    BY <1>2, <1>8 DEF RosterInv
  <2>2. \A m \in late : m.by # p
    BY <1>1, <1>2 DEF Progress
  <2>3. Progress(fabric, agent, late, alive', generations)
    BY <1>1, <1>2, <1>5, <2>1, <2>2, ProgressStart
  <2>4. AgentInv(fabric, p, b, generations)
    <3>1. 0 <= generations
      BY <1>6, SMT
    <3> QED
      BY <1>4, <3>1 DEF AgentInv, RecordInv
  <2>5. \A m \in late : m.by \in AgentProcs
    BY <1>6, SMT DEF Messages
  <2>6. /\ fabric.id <= generations
        /\ \A m \in late : m.id <= generations /\ agent'[m.by].pc \notin {"off", "admit"}
        /\ \A q \in AgentProcs : AgentInv(fabric, q, agent'[q], generations)
    BY <1>7, <2>2, <2>3, <2>4, <2>5 DEF Progress
  <2>7. ASSUME fabric.id # 0
        PROVE  /\ \A q \in AgentProcs \cap alive' : \A ph \in ParticipantPhases :
                    Claims(fabric, agent'[q], late, q, ph) => Backed(fabric, q, agent'[q], ph)
               /\ GenerationInv(fabric, agent', alive')
    <3>1. \A ph : ~Claims(fabric, b, late, p, ph)
      BY <1>3, <1>4, <2>1, <2>2, <2>7 DEF Claims
    <3>2. \A q \in AgentProcs \cap alive' : \A ph \in ParticipantPhases :
            Claims(fabric, agent'[q], late, q, ph) => Backed(fabric, q, agent'[q], ph)
      BY <1>7, <2>3, <2>7, <3>1 DEF Progress
    <3>3. ~SeesFinalizing(fabric, b)
      BY <1>4, <2>7 DEF SeesFinalizing
    <3>4. (\E q \in AgentProcs : SeesFinalizing(fabric, agent'[q])) =>
            \E q \in AgentProcs : SeesFinalizing(fabric, agent[q])
      BY <1>7, <3>3
    <3>5. \A pe \in Pes : agent'[fabric.agents[pe]] = agent[fabric.agents[pe]]
      BY <1>7, <2>1, <2>3, <2>7 DEF Progress, Placed
    <3>6. GenerationInv(fabric, agent, alive')
      BY <2>3, <2>7 DEF Progress
    <3>7. GenerationInv(fabric, agent', alive')
      BY <3>4, <3>5, <3>6 DEF GenerationInv
    <3> QED
      BY <3>2, <3>7
  <2>8. fabric.id # 0 => Placed(fabric)
    BY <2>3 DEF Progress
  <2> QED
    BY <2>6, <2>7, <2>8 DEF Progress
<1> QED
  BY <1>4, <1>10, <1>11, <1>12, <1>13, <1>14, <1>15, AgentComes

(* The record of an Agent that was admitted.                               *)
LEMMA AdmittedFields ==
  LET b == [Gone("admit") EXCEPT !.pc = "loop"] IN
  /\ b \in AgentRecord /\ b.pc = "loop" /\ b.plan = 0 /\ b.arenas = "none" /\ b.registered = FALSE
  /\ b.report = None /\ b.sent = None /\ b.inbox = None /\ b.native = "empty"
<1> DEFINE a == Gone("admit")
<1>1. "loop" \in AgentPcs /\ "admit" \in AgentPcs
  BY DEF AgentPcs
<1>2. /\ a \in AgentRecord /\ a.plan = 0 /\ a.arenas = "none" /\ a.registered = FALSE
      /\ a.report = None /\ a.sent = None /\ a.inbox = None /\ a.native = "empty"
  BY <1>1, GoneFields
<1> HIDE DEF a
<1>3. [a EXCEPT !.pc = "loop"] \in AgentRecord
  BY <1>1, <1>2 DEF AgentRecord
<1>4. LET b == [a EXCEPT !.pc = "loop"] IN
      /\ b.pc = "loop" /\ b.plan = a.plan /\ b.arenas = a.arenas /\ b.report = a.report
      /\ b.sent = a.sent /\ b.inbox = a.inbox /\ b.native = a.native
  BY <1>2, SMT DEF AgentRecord
<1>5. [a EXCEPT !.pc = "loop"].registered = a.registered
  BY <1>2 DEF AgentRecord
<1> QED
  BY <1>2, <1>3, <1>4, <1>5 DEF a

(* admit_agent_startup: the place was free, or its owner is dead.          *)
LEMMA AdmitStartupStep ==
  ASSUME Inv, NEW p \in AgentProcs, AdmitStartup(p), UNCHANGED inst
  PROVE  Inv'
<1>1. /\ agent[p].pc = "admit" /\ admit_agent_startup(p) /\ late' = late
      /\ IF AdmitOutcome(p) = "ok"
           THEN Set(p, [agent[p] EXCEPT !.pc = "loop"]) /\ UNCHANGED alive
           ELSE Exit(p, "exited")
  BY DEF AdmitStartup, Quiet
<1>2. /\ TypeOK /\ ProcInv /\ AdmitInv /\ RosterInv /\ CloseInv /\ LeaseInv
      /\ Progress(fabric, agent, late, alive, generations)
  BY DEF Inv, Structure
<1>3. /\ UNCHANGED <<book, leases, fabric, forming, generations, sealed, closed, inst, late, broker>>
      /\ p \in Procs /\ slot[p] \in Pes /\ p \in alive
      /\ startups' = IF AdmitOutcome(p) = "ok" THEN [startups EXCEPT ![slot[p]] = p] ELSE startups
  BY <1>1, <1>2, StructureTypes DEF admit_agent_startup, ProcInv, Dead
<1>4. broker' \in [Atn -> Publications \cup {None}] /\ BrokerStays
  BY <1>2, <1>3, BrokerSame
<1>5. agent[p] = Gone("admit") /\ agent[p].arenas = "none" /\ agent[p].registered = FALSE
  BY <1>1, NothingLeft DEF Live
<1>6. \A q \in InstanceProcs : Attached(q) => leases[slot[q]] # p
  <2>1. \A q \in InstanceProcs : Attached(q) /\ leases[slot[q]] \in alive =>
          agent[leases[slot[q]]].arenas # "none"
    BY <1>2 DEF LeaseInv
  <2> QED
    BY <1>3, <1>5, <2>1
<1>7. CASE AdmitOutcome(p) # "ok"
  <2>1. Exit(p, "exited") /\ UNCHANGED startups
    BY <1>1, <1>3, <1>7
  <2> QED
    BY <1>1, <1>3, <1>4, <1>6, <2>1, AgentExits
<1>8. CASE AdmitOutcome(p) = "ok"
  <2> DEFINE b == [Gone("admit") EXCEPT !.pc = "loop"]
  <2>1. /\ b \in AgentRecord /\ b.pc = "loop" /\ b.plan = 0 /\ b.arenas = "none" /\ b.registered = FALSE
        /\ b.report = None /\ b.sent = None /\ b.inbox = None /\ b.native = "empty"
    BY AdmittedFields
  <2>2. agent' = [agent EXCEPT ![p] = b] /\ alive' = alive /\ startups' = [startups EXCEPT ![slot[p]] = p]
    BY <1>1, <1>3, <1>5, <1>8 DEF Set
  <2> HIDE DEF b
  <2>3. ~sealed /\ ~(startups[slot[p]] \in alive \ {p})
    BY <1>8 DEF AdmitOutcome
  <2>4. agent \in [AgentProcs -> AgentRecord] /\ generations \in Nat /\ late \in SUBSET Messages
    BY <1>2 DEF TypeOK
  <2>5. agent'[p] = b /\ \A q \in AgentProcs : q # p => agent'[q] = agent[q]
    BY <2>2, <2>4
  <2>6. startups'[slot[p]] = p /\ \A s \in Pes : s # slot[p] => startups'[s] = startups[s]
    BY <1>2, <1>3, <2>2 DEF TypeOK
  <2>7. AgentTurns(p, b)
    <3>1. AgentStays(agent[p], b)
      BY <1>1, <1>5, <2>1 DEF AgentStays, Dead
    <3>2. alive' \in SUBSET Procs /\ startups' \in [Pes -> Procs \cup {None}]
      BY <1>2, <1>3, <2>2 DEF TypeOK
    <3> QED
      BY <1>3, <1>4, <1>5, <2>1, <2>2, <3>1, <3>2 DEF AgentTurns
  <2>8. ProcInv'
    <3>1. ASSUME NEW q \in AgentProcs
          PROVE  /\ q \in alive' <=> agent'[q].pc \notin Dead
                 /\ agent'[q].pc \in Dead \cup {"admit"} => agent'[q] = Gone(agent'[q].pc)
      <4>1. CASE q = p
        <5>1. agent'[q].pc = "loop" /\ q \in alive'
          BY <1>3, <2>1, <2>2, <2>5, <4>1
        <5> QED
          BY <5>1 DEF Dead
      <4>2. CASE q # p
        BY <1>2, <2>2, <2>5, <4>2 DEF ProcInv
      <4> QED
        BY <4>1, <4>2
    <3> QED
      BY <1>2, <1>3, <2>2, <3>1 DEF ProcInv
  <2>9. AdmitInv'
    <3>1. ASSUME NEW s \in Pes, startups'[s] # None
          PROVE  slot[startups'[s]] = s /\ agent'[startups'[s]].pc \notin {"off", "admit"}
      <4>1. CASE s = slot[p]
        BY <2>1, <2>5, <2>6, <4>1
      <4>2. CASE s # slot[p]
        <5>1. startups'[s] = startups[s] /\ startups[s] # None
          BY <2>6, <3>1, <4>2
        <5>2. startups[s] \in Procs
          BY <1>2, <5>1 DEF TypeOK
        <5>3. slot[startups[s]] = s /\ agent[startups[s]].pc \notin {"off", "admit"}
          BY <1>2, <5>1 DEF AdmitInv
        <5>4. startups[s] \in AgentProcs /\ startups[s] # p
          BY <4>2, <5>2, <5>3 DEF AgentProcs
        <5> QED
          BY <2>5, <5>1, <5>3, <5>4
      <4> QED
        BY <4>1, <4>2
    <3>2. ASSUME NEW q \in AgentProcs, agent'[q].pc \notin Dead \cup {"admit"}
          PROVE  startups'[slot[q]] = q
      <4>1. CASE q = p
        BY <2>6, <4>1
      <4>2. CASE q # p
        <5>1. agent[q].pc \notin Dead \cup {"admit"}
          BY <2>5, <3>2, <4>2
        <5>2. startups[slot[q]] = q /\ q \in alive /\ slot[q] \in Pes
          BY <1>2, <5>1, StructureTypes DEF AdmitInv, ProcInv
        <5>3. slot[q] # slot[p]
          BY <2>3, <4>2, <5>2
        <5> QED
          BY <2>6, <5>2, <5>3
      <4> QED
        BY <4>1, <4>2
    <3> QED
      BY <3>1, <3>2 DEF AdmitInv
  <2>10. CloseInv'
    BY <1>2, <1>3, <2>3 DEF CloseInv
  <2>11. Progress(fabric, agent', late, alive', generations)
    <3>1. AgentInv(fabric, p, b, generations)
      <4>1. 0 <= generations
        BY <2>4, SMT
      <4> QED
        BY <2>1, <4>1 DEF AgentInv, RecordInv
    <3>2. fabric.id # 0 => \A ph : ~Claims(fabric, b, late, p, ph)
      <4>1. fabric.id # 0 => fabric.agents[slot[p]] # p
        <5>1. fabric.id # 0 => Member(slot[p], fabric.agents[slot[p]])
          BY <1>2, <1>3 DEF RosterInv
        <5> QED
          BY <1>1, <1>3, <5>1 DEF Member
      <4>2. \A m \in late : m.by # p
        BY <1>1, <1>2 DEF Progress
      <4> QED
        BY <2>1, <4>1, <4>2 DEF Claims
    <3>3. fabric.id # 0 => Backing(fabric, late, p, b)
      BY <3>2 DEF Backing
    <3>4. agent[p].native = "empty"
      BY <1>1, NothingLeft DEF Live
    <3>5. fabric.id # 0 => ~SeesFinalizing(fabric, b)
      BY <2>1 DEF SeesFinalizing
    <3>6. "empty" # "active" /\ "empty" \notin Done /\ b.pc \notin {"off", "admit"}
      BY <2>1 DEF Done
    <3> QED
      BY <1>2, <2>1, <2>2, <2>4, <3>1, <3>3, <3>4, <3>5, <3>6, ProgressAgent
  <2>12. b.pc # "exited"
    BY <2>1
  <2> QED
    BY <1>6, <2>7, <2>8, <2>9, <2>10, <2>11, <2>12, AgentComes
<1> QED
  BY <1>7, <1>8
=============================================================================
