------------------------ MODULE LifecycleAgentProofs ------------------------
(***************************************************************************)
(* The steps of an admitted Agent keep the invariant of                    *)
(* LifecycleInvariant: the actions of advance_fabric_lifecycle, the        *)
(* reports and what becomes of them, exceptions and shutdown.              *)
(***************************************************************************)
EXTENDS LifecycleInvariant

USE ZenonT(40)

(***************************************************************************)
(* A new report: the Agent has plan and record c, and sends phase ph.      *)
(***************************************************************************)
Sends(g, p, a, c, ph) ==
  /\ c \in AgentRecord /\ SameWorldView(a, c) /\ a.plan # 0
  /\ a.pc \in {"loop", "shut", "join", "finalize"} /\ c.pc \in {"loop", "shut"}
  /\ <<Reported(a), c.native>> \in NativeAt
  /\ ph = "join_ready" => PreJoin(a)
  /\ IF ph = "joining" THEN c.pc = "loop" /\ Reported(a) = "join_ready"
                       ELSE <<ph, c.native>> \in NativeAt
  /\ g.id # 0 /\ a.native = "active" /\ g.phase \in Early => c.native = "active"
  /\ a.native \in Done => c.native \in Done
  /\ a.arenas = "drained" => c.arenas = "drained" \/ PreJoin(a)
  /\ g.id # 0 /\ a.plan = g.id =>
       /\ ph = "active" /\ g.phase \in Early => c.native = "active"
       /\ ph \in PostQuiesce => ~PreJoin(a) /\ (slot[p] \in Atn => c.arenas = "drained")
       /\ ph \in {"drained", "finalized"} => c.native \in Done

(***************************************************************************)
(* A new report keeps Progress: the table of native states admits it, and  *)
(* what it claims is so.                                                   *)
(***************************************************************************)
LEMMA SendProgress ==
  ASSUME Inv, NEW p \in AgentProcs, Live(agent[p]), NEW c, NEW ph \in ParticipantPhases,
         Sends(fabric, p, agent[p], c, ph), NEW b, SentAs(c, ph, b)
  PROVE  /\ Live(b) /\ AgentStays(agent[p], b)
         /\ Progress(fabric, [agent EXCEPT ![p] = b], late, alive, generations)
<1> DEFINE a == agent[p]
<1>1. /\ a \in AgentRecord /\ p \in alive /\ generations \in Nat
      /\ agent \in [AgentProcs -> AgentRecord] /\ AgentInv(fabric, p, a, generations)
      /\ fabric.id # 0 => Backing(fabric, late, p, a)
      /\ a.plan # 0 \/ a.arenas # "none" => a.registered
  BY LiveAgent
<1>2. c \in AgentRecord /\ SameWorldView(a, c) /\ a.plan # 0 /\ c.pc \in {"loop", "shut"}
  BY DEF Sends
<1>3. /\ b \in AgentRecord /\ SameWorldView(c, b) /\ b.sent \in Reports /\ b.sent.phase = ph
      /\ b.enriching = FALSE /\ b.pc = c.pc /\ b.native = c.native /\ b.arenas = c.arenas
  BY DEF SentAs
<1>4. /\ b.registered = a.registered /\ b.plan = a.plan /\ b.view = a.view
      /\ b.inbox = a.inbox /\ b.report = a.report
  BY <1>2, <1>3 DEF SameWorldView
<1>5. Live(b)
  BY <1>2, <1>3 DEF Live, Dead
<1>6. AgentStays(a, b)
  <2>1. a.registered /\ a.pc \notin {"form", "admit"} \cup Dead
    BY <1>1, <1>2 DEF Sends, Dead
  <2> QED
    BY <1>2, <1>3, <1>4, <1>5, <2>1 DEF AgentStays, Live, Dead
<1>7. Reported(b) = Reported(a) /\ (PreJoin(b) <=> PreJoin(a))
  BY <1>4 DEF Reported, PreJoin
<1>8. RecordInv(b)
  <2>1. SentFits(b)
    BY <1>2, <1>3, <1>4, <1>7 DEF SentFits, Sends
  <2>2. <<Reported(b), b.native>> \in NativeAt
    BY <1>3, <1>7 DEF Sends
  <2> QED
    BY <1>2, <1>3, <1>4, <2>1, <2>2 DEF RecordInv
<1>9. /\ fabric.id # 0 /\ a.native = "active" /\ fabric.phase \in Early => b.native = "active"
      /\ a.native \in Done => b.native \in Done
  BY <1>3 DEF Sends
<1>10. fabric.id # 0 => Firm(fabric, a, b)
  <2>1. a.pc \notin Left
    BY DEF Sends, Left
  <2>2. a.arenas = "drained" => b.arenas = "drained" \/ PreJoin(a)
    BY <1>3 DEF Sends
  <2> QED
    BY <1>4, <1>7, <1>9, <2>1, <2>2 DEF Firm
<1>11. fabric.id # 0 /\ a.plan = fabric.id => Backed(fabric, p, b, ph)
  BY <1>3, <1>4, <1>7 DEF Backed, Sends
<1>12. fabric.id # 0 => \A f \in {b.sent, b.report} : f # None /\ b.plan = fabric.id =>
         Claims(fabric, a, late, p, f.phase) \/ Backed(fabric, p, b, f.phase)
  BY <1>3, <1>4, <1>11 DEF Claims
<1>13. b.report # None => b.plan # 0 /\ fabric.id = b.plan /\ fabric.agents[slot[p]] = p
  BY <1>1, <1>4 DEF AgentInv
<1>14. b.pc # "finalize"
  BY <1>2, <1>3
<1>15. /\ AgentInv(fabric, p, b, generations)
       /\ fabric.id # 0 => /\ Backing(fabric, late, p, b)
                           /\ SeesFinalizing(fabric, b) => SeesFinalizing(fabric, a)
  BY <1>1, <1>4, <1>8, <1>10, <1>12, <1>13, <1>14, CarriedOver, SMT
<1>16. Progress(fabric, agent, late, alive, generations) /\ late \in SUBSET Messages
  BY DEF Inv, TypeOK
<1>17. b.pc \notin {"off", "admit"}
  BY <1>5 DEF Live, Dead
<1>18. Progress(fabric, [agent EXCEPT ![p] = b], late, alive, generations)
  BY <1>1, <1>3, <1>9, <1>15, <1>16, <1>17, ProgressAgent
<1> QED
  BY <1>5, <1>6, <1>18

(* Nothing of the daemon moves.                                            *)
LEMMA NothingMoves ==
  ASSUME Inv, UNCHANGED <<book, fabric>>
  PROVE  /\ book' \in [Slots -> Registrations \cup {None}] /\ SameBook
         /\ fabric' \in Generations \cup {NoGeneration} /\ WorldStays
  BY DEF Inv, TypeOK, SameBook, WorldStays

(* A report sent in a step that touches only the Agent.                    *)
LEMMA SentLocal ==
  ASSUME Inv, NEW p \in AgentProcs, Live(agent[p]), NEW c, NEW ph \in ParticipantPhases,
         Sends(fabric, p, agent[p], c, ph), NEW b, SentAs(c, ph, b),
         c.arenas = agent[p].arenas \/ (agent[p].arenas = "dormant" /\ c.arenas = "resident"),
         Set(p, b), OnlyAgent, UNCHANGED inst
  PROVE  Inv'
<1> DEFINE a == agent[p]
<1>1. /\ Live(b) /\ AgentStays(a, b)
      /\ Progress(fabric, [agent EXCEPT ![p] = b], late, alive, generations)
  BY SendProgress
<1>2. b \in AgentRecord /\ b.arenas = c.arenas
  BY DEF SentAs
<1>3. Steps(a, b)
  BY <1>1, <1>2 DEF Steps
<1>4. agent' = [agent EXCEPT ![p] = b]
  BY DEF Set
<1>5. /\ UNCHANGED <<alive, startups, broker, leases, forming, generations, sealed, closed, inst>>
      /\ UNCHANGED <<book, fabric, late>>
  BY DEF OnlyAgent, Daemon, Local1, Quiet
<1>6. Progress(fabric', agent', late', alive', generations')
  BY <1>1, <1>4, <1>5
<1>7. late' \in SUBSET Messages
  BY <1>5 DEF Inv, TypeOK
<1> QED
  BY <1>3, <1>4, <1>5, <1>6, <1>7, NothingMoves, AgentLocal

(* ... with the record that Sending makes.                                 *)
LEMMA SendLocal ==
  ASSUME Inv, NEW p \in AgentProcs, Live(agent[p]), NEW c, NEW ph \in ParticipantPhases,
         Sends(fabric, p, agent[p], c, ph),
         c.arenas = agent[p].arenas \/ (agent[p].arenas = "dormant" /\ c.arenas = "resident"),
         Set(p, Sending(c, ph)), OnlyAgent, UNCHANGED inst
  PROVE  Inv'
<1>1. SentAs(c, ph, Sending(c, ph))
  BY SendingFields DEF Sends
<1> QED
  BY <1>1, SentLocal

(* A step of the other kinds that touches only the Agent.                  *)
LEMMA CarryLocal ==
  ASSUME Inv, NEW p \in AgentProcs, Live(agent[p]), NEW b, Steps(agent[p], b), Carries(p, b),
         agent' = [agent EXCEPT ![p] = b], Daemon, UNCHANGED <<alive, late, inst>>
  PROVE  Inv'
<1>1. /\ UNCHANGED <<alive, startups, broker, leases, forming, generations, sealed, closed, inst>>
      /\ UNCHANGED <<book, fabric, late>>
  BY DEF Daemon
<1>2. /\ fabric \in Generations \cup {NoGeneration} /\ late \in SUBSET Messages
      /\ Progress(fabric, agent, late, alive, generations)
  BY DEF Inv, TypeOK
<1>3. Progress(fabric', agent', late', alive', generations')
  BY <1>1, <1>2 DEF Carries
<1> QED
  BY <1>1, <1>2, <1>3, NothingMoves, AgentLocal

-----------------------------------------------------------------------------
(* The actions of advance_fabric_lifecycle.                                *)

(* Where an Agent stands that acts on a view.                              *)
Acts(p, v, phs) ==
  /\ Live(agent[p]) /\ agent[p].pc \in {"loop", "shut"} /\ agent[p].plan # 0
  /\ agent[p].sent = None /\ agent[p].view = v /\ Reported(agent[p]) \in phs
  /\ v \notin RetiringPhases => agent[p].pc = "loop"
  /\ <<Reported(agent[p]), agent[p].native>> \in NativeAt
  /\ agent[p] \in AgentRecord /\ SameWorldView(agent[p], agent[p])
  /\ Reported(agent[p]) # "none" =>
       /\ fabric.id = agent[p].plan /\ fabric.id # 0
       /\ Backed(fabric, p, agent[p], Reported(agent[p]))
       /\ v \notin Early => fabric.phase \notin Early

(* What the invariant says of an Agent that acts on its view.              *)
LEMMA Acting ==
  ASSUME Inv, NEW p \in AgentProcs, NEW v, NEW phs, At(p, v, phs)
  PROVE  Acts(p, v, phs)
<1> DEFINE a == agent[p]
<1>1. /\ a.sent = None /\ a.plan # 0 /\ a.view = v /\ Reported(a) \in phs
      /\ a.pc = "loop" \/ (a.pc = "shut" /\ a.view \in RetiringPhases)
  BY DEF At, Advancing, Running, InLoop, Retiring
<1>2. Live(a)
  BY <1>1 DEF Live, Dead
<1>3. /\ a \in AgentRecord /\ AgentInv(fabric, p, a, generations)
      /\ fabric.id # 0 => Backing(fabric, late, p, a)
  BY <1>2, LiveAgent
<1>4. <<Reported(a), a.native>> \in NativeAt
  BY <1>1, <1>3 DEF AgentInv, RecordInv
<1>5. ASSUME Reported(a) # "none"
      PROVE  /\ fabric.id = a.plan /\ fabric.id # 0
             /\ Backed(fabric, p, a, Reported(a))
             /\ v \notin Early => fabric.phase \notin Early
  <2>1. a.report # None /\ Reported(a) = a.report.phase
    BY <1>5 DEF Reported
  <2>2. fabric.id = a.plan /\ Behind(a.view, fabric.phase)
    BY <1>1, <1>3, <2>1 DEF AgentInv
  <2>3. Claims(fabric, a, late, p, Reported(a))
    BY <2>1, <2>2 DEF Claims
  <2>4. Reported(a) \in ParticipantPhases
    <3>1. a.report \in Reports
      BY <1>3, <2>1, AgentFields DEF MaybeReport
    <3> QED
      BY <2>1, <3>1, ReportFields
  <2> QED
    BY <1>1, <1>3, <2>2, <2>3, <2>4 DEF Backing, Behind
<1> QED
  BY <1>1, <1>2, <1>3, <1>4, <1>5 DEF SameWorldView, Acts

(* Facts about the table of native states.                                 *)
LEMMA NativeTable ==
  /\ \A x : <<"none", x>> \in NativeAt => x = "empty"
  /\ \A x : <<"join_ready", x>> \in NativeAt => x = "empty"
  /\ \A x : <<"joined", x>> \in NativeAt => x = "joined"
  /\ \A x : <<"execution_ready", x>> \in NativeAt => x \in {"joined", "active"}
  /\ \A x : <<"active", x>> \in NativeAt => x = "active"
  /\ \A x : <<"quiesced", x>> \in NativeAt => x \in {"joined", "active", "draining"}
  /\ \A x : <<"draining", x>> \in NativeAt => x \in {"draining", "drained"}
  /\ \A x : <<"drained", x>> \in NativeAt => x \in {"drained", "finalizing", "closed"}
  /\ {<<"join_ready", "empty">>, <<"joining", "joined">>, <<"joined", "joined">>,
      <<"execution_ready", "joined">>, <<"execution_ready", "active">>, <<"active", "active">>,
      <<"quiesced", "joined">>, <<"quiesced", "active">>, <<"quiesced", "draining">>,
      <<"draining", "draining">>, <<"draining", "drained">>, <<"drained", "drained">>,
      <<"drained", "finalizing">>, <<"drained", "closed">>, <<"finalized", "closed">>} \subseteq NativeAt
  BY SMT DEF NativeAt

(* Places of an Agent's main thread and native states.                     *)
LEMMA Words ==
  /\ {"loop", "form", "join", "finalize", "shut", "release", "retained"} \subseteq AgentPcs
  /\ {"joining", "joined", "active", "draining", "drained", "finalizing", "closed"} \subseteq Natives
  BY DEF AgentPcs, Natives

(* prepare_fabric_join of an FfnAgent.                                     *)
LEMMA PrepareFfnStep ==
  ASSUME Inv, NEW p \in AgentProcs, PrepareFfn(p), UNCHANGED inst
  PROVE  Inv'
<1> DEFINE a == agent[p]
<1>1. At(p, "preparing_join", {"none"}) /\ Set(p, Sending(a, "join_ready")) /\ OnlyAgent
  BY DEF PrepareFfn
<1>a. Acts(p, "preparing_join", {"none"})
  BY <1>1, Acting
<1>2. /\ Live(a) /\ a.pc \in {"loop", "shut"} /\ a.plan # 0 /\ Reported(a) = "none"
      /\ <<Reported(a), a.native>> \in NativeAt /\ a \in AgentRecord /\ SameWorldView(a, a)
  BY <1>a DEF Acts
<1>3. a.native = "empty" /\ <<"join_ready", "empty">> \in NativeAt
  BY <1>2, NativeTable
<1>4. PreJoin(a)
  BY <1>2 DEF PreJoin
<1>5. Sends(fabric, p, a, a, "join_ready")
  BY <1>2, <1>3, <1>4 DEF Sends, PostQuiesce
<1>6. "join_ready" \in ParticipantPhases
  BY DEF ParticipantPhases
<1> QED
  BY <1>1, <1>2, <1>5, <1>6, SendLocal

(* The Agent reports joining before it enters the collective.              *)
LEMMA JoiningStep ==
  ASSUME Inv, NEW p \in AgentProcs, Joining(p), UNCHANGED inst
  PROVE  Inv'
<1> DEFINE a == agent[p]
<1>1. At(p, "joining", {"join_ready"}) /\ Set(p, Sending(a, "joining")) /\ OnlyAgent
  BY DEF Joining
<1>2. "joining" \notin RetiringPhases /\ "joining" \in ParticipantPhases
  BY DEF RetiringPhases, ParticipantPhases
<1>a. Acts(p, "joining", {"join_ready"})
  BY <1>1, Acting
<1>3. /\ Live(a) /\ a.pc = "loop" /\ a.plan # 0 /\ Reported(a) = "join_ready"
      /\ <<Reported(a), a.native>> \in NativeAt /\ a \in AgentRecord /\ SameWorldView(a, a)
  BY <1>a, <1>2 DEF Acts
<1>4. Sends(fabric, p, a, a, "joining")
  BY <1>3 DEF Sends, PostQuiesce
<1> QED
  BY <1>1, <1>2, <1>3, <1>4, SendLocal

(* The collective returns, and the Agent reports joined.                   *)
LEMMA JoinedStep ==
  ASSUME Inv, NEW p \in AgentProcs, Joined(p), UNCHANGED inst
  PROVE  Inv'
<1> DEFINE a == agent[p]
           c == [a EXCEPT !.pc = "loop", !.native = "joined"]
<1>1. a.pc = "join" /\ Set(p, Sending(c, "joined")) /\ OnlyAgent
  BY DEF Joined
<1>2. Live(a)
  BY <1>1 DEF Live, Dead
<1>3. a \in AgentRecord /\ AgentInv(fabric, p, a, generations)
  BY <1>2, LiveAgent
<1>4. Reported(a) = "joining" /\ a.native = "joining"
  BY <1>1, <1>3 DEF AgentInv, RecordInv
<1>5. a.plan # 0
  BY <1>3, <1>4 DEF AgentInv, Reported
<1>6. c \in AgentRecord
  BY <1>3, Words DEF AgentRecord
<1>7. /\ c.pc = "loop" /\ c.native = "joined" /\ c.arenas = a.arenas
      /\ c.registered = a.registered /\ c.plan = a.plan /\ c.view = a.view
      /\ c.inbox = a.inbox /\ c.report = a.report
  BY <1>3, SMT DEF AgentRecord
<1> HIDE DEF c
<1>8. <<"joining", "joined">> \in NativeAt /\ <<"joined", "joined">> \in NativeAt
  BY NativeTable
<1>9. SameWorldView(a, c)
  BY <1>7 DEF SameWorldView
<1>10. Sends(fabric, p, a, c, "joined")
  BY <1>1, <1>4, <1>5, <1>6, <1>7, <1>8, <1>9 DEF Sends, PostQuiesce, Done
<1>11. "joined" \in ParticipantPhases
  BY DEF ParticipantPhases
<1> QED
  BY <1>1, <1>2, <1>7, <1>10, <1>11, SendLocal DEF c

(* The Agent prepares its execution and reports it.                        *)
LEMMA PrepareExecutionStep ==
  ASSUME Inv, NEW p \in AgentProcs, PrepareExecution(p), UNCHANGED inst
  PROVE  Inv'
<1> DEFINE a == agent[p]
<1>1. At(p, "preparing_execution", {"joined"}) /\ Set(p, Sending(a, "execution_ready")) /\ OnlyAgent
  BY DEF PrepareExecution
<1>a. Acts(p, "preparing_execution", {"joined"})
  BY <1>1, Acting
<1>2. /\ Live(a) /\ a.pc \in {"loop", "shut"} /\ a.plan # 0 /\ Reported(a) = "joined"
      /\ <<Reported(a), a.native>> \in NativeAt /\ a \in AgentRecord /\ SameWorldView(a, a)
  BY <1>a DEF Acts
<1>3. a.native = "joined" /\ <<"execution_ready", "joined">> \in NativeAt
  BY <1>2, NativeTable
<1>4. Sends(fabric, p, a, a, "execution_ready")
  BY <1>2, <1>3 DEF Sends, PostQuiesce
<1>5. "execution_ready" \in ParticipantPhases
  BY DEF ParticipantPhases
<1> QED
  BY <1>1, <1>2, <1>4, <1>5, SendLocal

(* The Agent starts its Residents and reports active.                      *)
LEMMA ActivateStep ==
  ASSUME Inv, NEW p \in AgentProcs, Activate(p), UNCHANGED inst
  PROVE  Inv'
<1> DEFINE a == agent[p]
           ar == IF a.arenas = "dormant" THEN "resident" ELSE a.arenas
           c == [a EXCEPT !.native = "active", !.arenas = ar]
<1>1. At(p, "activating", {"execution_ready"}) /\ Set(p, Sending(c, "active")) /\ OnlyAgent
  BY DEF Activate
<1>a. Acts(p, "activating", {"execution_ready"})
  BY <1>1, Acting
<1>2. /\ Live(a) /\ a.pc \in {"loop", "shut"} /\ a.plan # 0 /\ Reported(a) = "execution_ready"
      /\ <<Reported(a), a.native>> \in NativeAt /\ a \in AgentRecord
  BY <1>a DEF Acts
<1>3. /\ a.native \in {"joined", "active"} /\ <<"execution_ready", "active">> \in NativeAt
      /\ <<"active", "active">> \in NativeAt
  BY <1>2, NativeTable
<1>4. ar \in ArenaStates /\ (a.arenas = "drained" => ar = "drained")
      /\ (ar = a.arenas \/ (a.arenas = "dormant" /\ ar = "resident"))
  BY <1>2, AgentFields DEF ArenaStates
<1> HIDE DEF ar
<1>5. c \in AgentRecord
  BY <1>2, <1>4, Words DEF AgentRecord, ArenaStates
<1>6. /\ c.pc = a.pc /\ c.native = "active" /\ c.arenas = ar
      /\ c.registered = a.registered /\ c.plan = a.plan /\ c.view = a.view
      /\ c.inbox = a.inbox /\ c.report = a.report
  BY <1>2, SMT DEF AgentRecord
<1> HIDE DEF c
<1>7. SameWorldView(a, c)
  BY <1>6 DEF SameWorldView
<1>8. Sends(fabric, p, a, c, "active")
  BY <1>2, <1>3, <1>4, <1>5, <1>6, <1>7 DEF Sends, PostQuiesce, Done
<1>9. "active" \in ParticipantPhases
  BY DEF ParticipantPhases
<1> QED
  BY <1>1, <1>2, <1>4, <1>6, <1>8, <1>9, SendLocal DEF c, ar

(* Where an Agent stands that quiesces or drains.                          *)
LEMMA Retirement ==
  /\ {"quiescing", "draining", "finalizing", "aborting", "stopped"} \cap Early = {}
  /\ {"quiesced", "draining", "drained", "finalized"} \subseteq ParticipantPhases
  /\ PostQuiesce = {"quiesced", "draining", "drained", "finalized"}
  /\ Done = {"drained", "finalizing", "closed"}
  BY DEF Early, StartPhases, ParticipantPhases, PostQuiesce, Done

(* An FfnAgent has nothing to quiesce, and reports so.                     *)
LEMMA QuiesceFfnStep ==
  ASSUME Inv, NEW p \in AgentProcs, QuiesceFfn(p), UNCHANGED inst
  PROVE  Inv'
<1> DEFINE a == agent[p]
<1>1. /\ slot[p] \in Ffn /\ Set(p, Sending(a, "quiesced")) /\ OnlyAgent
      /\ \/ At(p, "quiescing", {"active"})
         \/ At(p, "aborting", {"joined", "execution_ready", "active"})
  BY DEF QuiesceFfn
<1>a. Acts(p, "quiescing", {"active"}) \/ Acts(p, "aborting", {"joined", "execution_ready", "active"})
  BY <1>1, Acting
<1>2. /\ Live(a) /\ a.pc \in {"loop", "shut"} /\ a.plan # 0
      /\ Reported(a) \in {"joined", "execution_ready", "active"}
      /\ <<Reported(a), a.native>> \in NativeAt /\ a \in AgentRecord /\ SameWorldView(a, a)
  BY <1>a DEF Acts
<1>3. a.native \in {"joined", "active"}
  BY <1>2, NativeTable
<1>4. <<"quiesced", a.native>> \in NativeAt
  BY <1>3, NativeTable
<1>5. slot[p] \notin Atn
  BY <1>1, PlacesAssumption
<1>6. ~PreJoin(a)
  BY <1>2 DEF PreJoin
<1>7. Sends(fabric, p, a, a, "quiesced")
  BY <1>2, <1>4, <1>5, <1>6 DEF Sends
<1> QED
  BY <1>1, <1>2, <1>7, Retirement, SendLocal

(* An Agent that reported a phase past quiesced has drained its arenas.    *)
LEMMA PastQuiesce ==
  ASSUME NEW p \in AgentProcs, NEW v, NEW ph \in PostQuiesce, Acts(p, v, {ph}), v \notin Early
  PROVE  /\ Live(agent[p]) /\ agent[p].pc \in {"loop", "shut"} /\ agent[p].plan # 0
         /\ Reported(agent[p]) = ph /\ <<ph, agent[p].native>> \in NativeAt
         /\ agent[p] \in AgentRecord /\ fabric.id = agent[p].plan /\ fabric.phase \notin Early
         /\ agent[p].sent = None /\ agent[p].view = v
         /\ ~PreJoin(agent[p]) /\ (slot[p] \in Atn => agent[p].arenas = "drained")
<1>1. /\ Live(agent[p]) /\ agent[p].pc \in {"loop", "shut"} /\ agent[p].plan # 0
      /\ Reported(agent[p]) = ph /\ <<ph, agent[p].native>> \in NativeAt
      /\ agent[p] \in AgentRecord /\ agent[p].sent = None /\ agent[p].view = v
  BY DEF Acts
<1>2. ph # "none"
  BY DEF PostQuiesce
<1>3. fabric.id = agent[p].plan /\ Backed(fabric, p, agent[p], ph) /\ fabric.phase \notin Early
  BY <1>1, <1>2 DEF Acts
<1>4. ~PreJoin(agent[p]) /\ (slot[p] \in Atn => agent[p].arenas = "drained")
  BY <1>3 DEF Backed
<1> QED
  BY <1>1, <1>3, <1>4

(* A drain step: native becomes x and the Agent reports ph.                *)
LEMMA DrainStep ==
  ASSUME Inv, NEW p \in AgentProcs, NEW v \in {"draining", "aborting"}, NEW at \in PostQuiesce,
         Acts(p, v, {at}), UNCHANGED inst, OnlyAgent,
         NEW x \in {"draining", "drained"}, x = "draining" => at = "quiesced", x = "drained" => at = "draining",
         Set(p, Sending([agent[p] EXCEPT !.native = x], x))
  PROVE  Inv'
<1> DEFINE a == agent[p]
           c == [a EXCEPT !.native = x]
<1>1. v \notin Early
  BY Retirement
<1>2. /\ Live(a) /\ a.pc \in {"loop", "shut"} /\ a.plan # 0 /\ Reported(a) = at
      /\ <<at, a.native>> \in NativeAt /\ a \in AgentRecord /\ fabric.phase \notin Early
      /\ ~PreJoin(a) /\ (slot[p] \in Atn => a.arenas = "drained")
  BY <1>1, PastQuiesce
<1>3. <<at, x>> \in NativeAt /\ <<x, x>> \in NativeAt
  BY NativeTable
<1>4. a.native \in Done => x \in Done
  BY <1>2, NativeTable DEF Done
<1>5. x \in Natives /\ x \in ParticipantPhases
  BY Words, Retirement
<1>6. c \in AgentRecord
  BY <1>2, <1>5 DEF AgentRecord
<1>7. /\ c.pc = a.pc /\ c.native = x /\ c.arenas = a.arenas
      /\ c.registered = a.registered /\ c.plan = a.plan /\ c.view = a.view
      /\ c.inbox = a.inbox /\ c.report = a.report
  BY <1>2, SMT DEF AgentRecord
<1>8. Set(p, Sending(c, x))
  OBVIOUS
<1> HIDE DEF c
<1>9. SameWorldView(a, c)
  BY <1>7 DEF SameWorldView
<1>10. Sends(fabric, p, a, c, x)
  <2>1. x # "joining" /\ x # "join_ready" /\ x # "active" /\ x # "finalized"
    OBVIOUS
  <2>2. x \in {"drained", "finalized"} => x \in Done
    BY <2>1 DEF Done
  <2> QED
    BY <1>2, <1>3, <1>4, <1>6, <1>7, <1>9, <2>1, <2>2 DEF Sends
<1> QED
  BY <1>2, <1>5, <1>7, <1>8, <1>10, SendLocal

(* The Agent begins to drain its device work.                              *)
LEMMA DrainAsyncStep ==
  ASSUME Inv, NEW p \in AgentProcs, DrainAsync(p), UNCHANGED inst
  PROVE  Inv'
<1>1. /\ Set(p, Sending([agent[p] EXCEPT !.native = "draining"], "draining")) /\ OnlyAgent
      /\ At(p, "draining", {"quiesced"}) \/ At(p, "aborting", {"quiesced"})
  BY DEF DrainAsync
<1>2. "quiesced" \in PostQuiesce
  BY DEF PostQuiesce
<1>3. CASE At(p, "draining", {"quiesced"})
  BY <1>1, <1>2, <1>3, Acting, DrainStep
<1>4. CASE At(p, "aborting", {"quiesced"})
  BY <1>1, <1>2, <1>4, Acting, DrainStep
<1> QED
  BY <1>1, <1>3, <1>4

(* The device work has drained.                                            *)
LEMMA DrainedStep ==
  ASSUME Inv, NEW p \in AgentProcs, Drained(p), UNCHANGED inst
  PROVE  Inv'
<1>1. /\ Set(p, Sending([agent[p] EXCEPT !.native = "drained"], "drained")) /\ OnlyAgent
      /\ At(p, "draining", {"draining"}) \/ At(p, "aborting", {"draining"})
  BY DEF Drained
<1>2. "draining" \in PostQuiesce
  BY DEF PostQuiesce
<1>3. CASE At(p, "draining", {"draining"})
  BY <1>1, <1>2, <1>3, Acting, DrainStep
<1>4. CASE At(p, "aborting", {"draining"})
  BY <1>1, <1>2, <1>4, Acting, DrainStep
<1> QED
  BY <1>1, <1>3, <1>4

(* The collective finalization returns.                                    *)
LEMMA FinalizeEndStep ==
  ASSUME Inv, NEW p \in AgentProcs, FinalizeEnd(p), UNCHANGED inst
  PROVE  Inv'
<1> DEFINE a == agent[p]
           pc == IF p \in stopping THEN "shut" ELSE "loop"
           c == [a EXCEPT !.native = "closed", !.pc = pc]
<1>1. a.pc = "finalize" /\ Set(p, Sending(c, "finalized")) /\ OnlyAgent
  BY DEF FinalizeEnd
<1>2. Live(a)
  BY <1>1 DEF Live, Dead
<1>3. /\ a \in AgentRecord /\ AgentInv(fabric, p, a, generations)
      /\ fabric.id # 0 => Backing(fabric, late, p, a)
  BY <1>2, LiveAgent
<1>4. Reported(a) = "drained" /\ a.native = "finalizing"
  BY <1>1, <1>3 DEF AgentInv, RecordInv
<1>5. a.report # None /\ a.report.phase = "drained"
  BY <1>4 DEF Reported
<1>6. a.plan # 0 /\ fabric.id = a.plan
  BY <1>3, <1>5 DEF AgentInv
<1>7. Claims(fabric, a, late, p, "drained") /\ "drained" \in ParticipantPhases
  BY <1>5, <1>6 DEF Claims, ParticipantPhases
<1>8. Backed(fabric, p, a, "drained")
  BY <1>3, <1>6, <1>7 DEF Backing
<1>9. ~PreJoin(a) /\ (slot[p] \in Atn => a.arenas = "drained")
  BY <1>6, <1>8 DEF Backed, PostQuiesce
<1>10. pc \in {"loop", "shut"} /\ pc \in AgentPcs
  BY Words
<1> HIDE DEF pc
<1>11. c \in AgentRecord
  BY <1>3, <1>10, Words DEF AgentRecord
<1>12. /\ c.pc = pc /\ c.native = "closed" /\ c.arenas = a.arenas
       /\ c.registered = a.registered /\ c.plan = a.plan /\ c.view = a.view
       /\ c.inbox = a.inbox /\ c.report = a.report
  BY <1>3, SMT DEF AgentRecord
<1> HIDE DEF c
<1>13. SameWorldView(a, c)
  BY <1>12 DEF SameWorldView
<1>14. <<"drained", "closed">> \in NativeAt /\ <<"finalized", "closed">> \in NativeAt
  BY NativeTable
<1>15. Sends(fabric, p, a, c, "finalized")
  BY <1>1, <1>4, <1>6, <1>9, <1>10, <1>11, <1>12, <1>13, <1>14 DEF Sends, Done
<1> QED
  BY <1>1, <1>2, <1>12, <1>15, Retirement, SendLocal

(* poll_fabric_health repeats the last report with the failure added.      *)
LEMMA InvocationReportStep ==
  ASSUME Inv, NEW p \in AgentProcs, ReportInvocationFailure(p), UNCHANGED inst
  PROVE  Inv'
<1> DEFINE a == agent[p]
           r == [a.report EXCEPT !.invocation = TRUE]
           b == [a EXCEPT !.sent = r, !.tries = Attempts, !.enriching = FALSE]
           ph == Reported(a)
<1>1. /\ a.sent = None /\ a.plan # 0 /\ a.pc \in {"loop", "shut"}
      /\ ph \notin {"none", "join_ready", "joining", "finalized"}
      /\ Set(p, b) /\ OnlyAgent
  BY DEF ReportInvocationFailure, Running, InLoop
<1>2. Live(a)
  BY <1>1 DEF Live, Dead
<1>3. /\ a \in AgentRecord /\ AgentInv(fabric, p, a, generations)
      /\ fabric.id # 0 => Backing(fabric, late, p, a)
  BY <1>2, LiveAgent
<1>4. a.report # None /\ a.report.phase = ph /\ a.report \in Reports
  BY <1>1, <1>3, AgentFields DEF Reported, MaybeReport
<1>5. r \in Reports /\ r.phase = ph /\ ph \in ParticipantPhases
  BY <1>4, ReportFields
<1>6. r \in MaybeReport /\ Attempts \in Nat
  BY <1>5, AttemptsAssumption DEF MaybeReport
<1> HIDE DEF r
<1>7. b \in AgentRecord
  BY <1>3, <1>6 DEF AgentRecord
<1>8. /\ b.sent = r /\ b.pc = a.pc /\ b.native = a.native /\ b.arenas = a.arenas
      /\ b.registered = a.registered /\ b.plan = a.plan /\ b.view = a.view
      /\ b.inbox = a.inbox /\ b.report = a.report
  BY <1>3, SMT DEF AgentRecord
<1>9. b.enriching = FALSE
  BY <1>3 DEF AgentRecord
<1> HIDE DEF b, ph
<1>10. SentAs(a, ph, b)
  BY <1>5, <1>7, <1>8, <1>9 DEF SentAs, SameWorldView
<1>11. fabric.id = a.plan /\ <<ph, a.native>> \in NativeAt
  BY <1>1, <1>3, <1>4 DEF AgentInv, RecordInv, ph
<1>12. Backed(fabric, p, a, ph)
  <2>1. Claims(fabric, a, late, p, ph)
    BY <1>4, <1>11 DEF Claims
  <2> QED
    BY <1>1, <1>3, <1>5, <1>11, <2>1 DEF Backing
<1>13. Sends(fabric, p, a, a, ph)
  <2>1. SameWorldView(a, a)
    BY DEF SameWorldView
  <2>2. Reported(a) = ph
    BY DEF ph
  <2> QED
    BY <1>1, <1>3, <1>11, <1>12, <2>1, <2>2 DEF Sends, Backed
<1> QED
  BY <1>1, <1>2, <1>5, <1>10, <1>13, SentLocal

(* A step of one Agent of the kinds above, with what the daemon did first. *)
LEMMA CarryWorld ==
  ASSUME Inv, NEW p \in AgentProcs, Live(agent[p]), NEW b, Steps(agent[p], b),
         agent' = [agent EXCEPT ![p] = b],
         UNCHANGED <<alive, startups, book, broker, leases, forming, generations, sealed, closed, inst>>,
         fabric' \in Generations \cup {NoGeneration}, WorldStays, late' \in SUBSET Messages,
         \/ /\ Carries(p, b) /\ Progress(fabric', agent, late', alive, generations)
         \/ Progress(fabric', [agent EXCEPT ![p] = b], late', alive, generations)
  PROVE  Inv'
<1>1. Progress(fabric', [agent EXCEPT ![p] = b], late', alive, generations)
  BY DEF Carries
<1>2. Progress(fabric', agent', late', alive', generations')
  BY <1>1
<1>3. book' \in [Slots -> Registrations \cup {None}] /\ SameBook
  BY DEF Inv, TypeOK, SameBook
<1> QED
  BY <1>2, <1>3, AgentLocal

-----------------------------------------------------------------------------
(* The steps that turn the main thread.                                    *)

(* A turn of the main thread that touches only the Agent.                  *)
LEMMA TurnLocal ==
  ASSUME Inv, NEW p \in AgentProcs, Live(agent[p]), NEW b \in AgentRecord, Turned(agent[p], b),
         agent' = [agent EXCEPT ![p] = b], Daemon, UNCHANGED <<alive, late, inst>>
  PROVE  Inv'
  BY TurnCarries, CarryLocal

(* The Agent sees that its generation aborts.                              *)
LEMMA AbortObservedStep ==
  ASSUME Inv, NEW p \in AgentProcs, AbortObserved(p), UNCHANGED inst
  PROVE  Inv'
<1> DEFINE a == agent[p]
           b == [a EXCEPT !.failed = TRUE]
<1>1. /\ a.pc \in {"loop", "shut"} /\ agent' = [agent EXCEPT ![p] = b] /\ Daemon
      /\ UNCHANGED <<alive, late>>
  BY DEF AbortObserved, Advancing, Running, InLoop, Set, Quiet
<1>2. Live(a)
  BY <1>1 DEF Live, Dead
<1>3. a \in AgentRecord
  BY <1>2, LiveAgent
<1>4. b \in AgentRecord
  BY <1>3 DEF AgentRecord
<1>5. /\ b.plan = a.plan /\ b.view = a.view /\ b.inbox = a.inbox /\ b.report = a.report
      /\ b.native = a.native /\ b.arenas = a.arenas /\ b.sent = a.sent /\ b.pc = a.pc
  BY <1>3, SMT DEF AgentRecord
<1>6. b.enriching = a.enriching /\ b.registered = a.registered
  BY <1>3 DEF AgentRecord
<1> HIDE DEF b
<1>7. Turned(a, b)
  BY <1>5, <1>6 DEF Turned
<1> QED
  BY <1>1, <1>2, <1>4, <1>7, TurnLocal

(* A requested shutdown leaves the control loop.                           *)
LEMMA BeginShutdownStep ==
  ASSUME Inv, NEW p \in AgentProcs, BeginShutdown(p), UNCHANGED inst
  PROVE  Inv'
<1> DEFINE a == agent[p]
           pc == IF a.pc = "loop" /\ a.plan = 0 THEN "release" ELSE "shut"
           b == [a EXCEPT !.pc = pc, !.asked = FALSE]
<1>1. /\ a.pc = "loop" /\ a.sent = None /\ agent' = [agent EXCEPT ![p] = b] /\ Daemon
      /\ UNCHANGED <<alive, late>>
  BY DEF BeginShutdown, InLoop, Set, OnlyAgent, Local1, Quiet
<1>2. Live(a)
  BY <1>1 DEF Live, Dead
<1>3. a \in AgentRecord
  BY <1>2, LiveAgent
<1>4. pc \in {"shut", "release"} /\ pc \in AgentPcs
  BY Words
<1> HIDE DEF pc
<1>5. b \in AgentRecord
  BY <1>3, <1>4 DEF AgentRecord
<1>6. /\ b.plan = a.plan /\ b.view = a.view /\ b.inbox = a.inbox /\ b.report = a.report
      /\ b.native = a.native /\ b.arenas = a.arenas /\ b.sent = a.sent /\ b.pc = pc
  BY <1>3, SMT DEF AgentRecord
<1>7. b.enriching = a.enriching /\ b.registered = a.registered
  BY <1>3 DEF AgentRecord
<1> HIDE DEF b
<1>8. Turned(a, b)
  BY <1>1, <1>4, <1>6, <1>7 DEF Turned, Left
<1> QED
  BY <1>1, <1>2, <1>5, <1>8, TurnLocal

(* An Agent that has not joined leaves without its peers.                  *)
LEMMA LeavePreJoinStep ==
  ASSUME Inv, NEW p \in AgentProcs, LeavePreJoin(p), UNCHANGED inst
  PROVE  Inv'
<1> DEFINE a == agent[p]
           b == [a EXCEPT !.pc = "release"]
<1>1. /\ a.pc = "shut" /\ a.sent = None /\ agent' = [agent EXCEPT ![p] = b] /\ Daemon
      /\ UNCHANGED <<alive, late>>
  BY DEF LeavePreJoin, Set, OnlyAgent, Local1, Quiet
<1>2. Live(a)
  BY <1>1 DEF Live, Dead
<1>3. a \in AgentRecord
  BY <1>2, LiveAgent
<1>4. b \in AgentRecord
  BY <1>3, Words DEF AgentRecord
<1>5. /\ b.plan = a.plan /\ b.view = a.view /\ b.inbox = a.inbox /\ b.report = a.report
      /\ b.native = a.native /\ b.arenas = a.arenas /\ b.sent = a.sent /\ b.pc = "release"
  BY <1>3, SMT DEF AgentRecord
<1>6. b.enriching = a.enriching /\ b.registered = a.registered
  BY <1>3 DEF AgentRecord
<1> HIDE DEF b
<1>7. Turned(a, b)
  BY <1>1, <1>5, <1>6 DEF Turned, Left
<1> QED
  BY <1>1, <1>2, <1>4, <1>7, TurnLocal

(* shutdown_fabric asks the daemon to quiesce the generation.              *)
LEMMA AskQuiesceStep ==
  ASSUME Inv, NEW p \in AgentProcs, AskQuiesce(p), UNCHANGED inst
  PROVE  Inv'
<1> DEFINE a == agent[p]
           c == [a EXCEPT !.asked = TRUE]
<1>1. /\ a.pc = "shut" /\ a.sent = None
      /\ fabric' = IF QuiesceAccepted(p, a.plan) THEN quiesce(fabric) ELSE fabric
      /\ UNCHANGED <<alive, startups, book, broker, leases, forming, generations, sealed, closed, inst>>
      /\ UNCHANGED late
      /\ \/ agent' = [agent EXCEPT ![p] = c]
         \/ agent' = [agent EXCEPT ![p] = Raised(a, FALSE)]
  BY DEF AskQuiesce, request_fabric_quiesce, Set, Raise, Quiet
<1>2. Live(a) /\ a.pc # "form"
  BY <1>1 DEF Live, Dead
<1>3. a \in AgentRecord
  BY <1>2, LiveAgent
<1>4. /\ fabric' \in Generations \cup {NoGeneration} /\ WorldStays
      /\ Progress(fabric', agent, late, alive, generations)
  <2>1. CASE QuiesceAccepted(p, a.plan)
    <3>1. fabric \in Generations
      BY <2>1, StructureTypes DEF QuiesceAccepted, Inv
    <3>2. Moves(fabric, fabric')
      BY <1>1, <2>1, <3>1, QuiesceMoves
    <3> QED
      BY <3>1, <3>2, MovesWorld
  <2>2. CASE ~QuiesceAccepted(p, a.plan)
    BY <1>1, <2>2 DEF Inv, TypeOK, WorldStays
  <2> QED
    BY <2>1, <2>2
<1>5. c \in AgentRecord
  BY <1>3 DEF AgentRecord
<1>6. /\ c.plan = a.plan /\ c.view = a.view /\ c.inbox = a.inbox /\ c.report = a.report
      /\ c.native = a.native /\ c.arenas = a.arenas /\ c.sent = a.sent /\ c.pc = a.pc
  BY <1>3, SMT DEF AgentRecord
<1>7. c.enriching = a.enriching /\ c.registered = a.registered
  BY <1>3 DEF AgentRecord
<1>8. Steps(a, Raised(a, FALSE)) /\ Carries(p, Raised(a, FALSE))
  BY <1>2, <1>3, RaiseCarries
<1> HIDE DEF c
<1>9. Turned(a, c)
  BY <1>6, <1>7 DEF Turned
<1>10. Steps(a, c) /\ Carries(p, c)
  BY <1>2, <1>5, <1>9, TurnCarries
<1>11. late' \in SUBSET Messages
  BY <1>1 DEF Inv, TypeOK
<1>12. CASE agent' = [agent EXCEPT ![p] = c]
  BY <1>1, <1>2, <1>4, <1>10, <1>11, <1>12, CarryWorld
<1>13. CASE agent' = [agent EXCEPT ![p] = Raised(a, FALSE)]
  BY <1>1, <1>2, <1>4, <1>8, <1>11, <1>13, CarryWorld
<1> QED
  BY <1>1, <1>12, <1>13

(***************************************************************************)
(* A native call throws: the Agent records its failure, and ends in shut,  *)
(* release or retained.                                                    *)
(***************************************************************************)
LEMMA NativeFailureStep ==
  ASSUME Inv, NEW p \in AgentProcs, NativeFailure(p), UNCHANGED inst
  PROVE  Inv'
<1> DEFINE a == agent[p]
           native == IF a.pc = "join" THEN "closed" ELSE a.native
           c == [a EXCEPT !.native = native]
           x == a.pc # "release"
<1>1. /\ a.pc \in {"loop", "shut", "join", "finalize", "release"}
      /\ agent' = [agent EXCEPT ![p] = Raised(c, x)]
      /\ Daemon /\ UNCHANGED <<alive, late>>
  BY DEF NativeFailure, Advancing, Running, InLoop, Set, Quiet
<1>2. Live(a) /\ a.pc # "form"
  BY <1>1 DEF Live, Dead
<1>3. a \in AgentRecord
  BY <1>2, LiveAgent
<1>4. native \in Natives
  BY <1>3, AgentFields, Words
<1>5. native = a.native \/ (a.pc = "join" /\ native = "closed")
  OBVIOUS
<1> HIDE DEF native
<1>6. c \in AgentRecord
  BY <1>3, <1>4 DEF AgentRecord
<1>7. /\ c.plan = a.plan /\ c.view = a.view /\ c.inbox = a.inbox /\ c.report = a.report
      /\ c.native = native /\ c.arenas = a.arenas /\ c.pc = a.pc
  BY <1>3, SMT DEF AgentRecord
<1>8. c.registered = a.registered
  BY <1>3 DEF AgentRecord
<1>9. x \in BOOLEAN
  OBVIOUS
<1> HIDE DEF c, x
<1>10. Steps(a, Raised(c, x)) /\ Carries(p, Raised(c, x))
  BY <1>2, <1>5, <1>6, <1>7, <1>8, <1>9, RaiseCarries
<1> QED
  BY <1>1, <1>2, <1>10, CarryLocal

(* A step that sends nothing and keeps or forgets what was acknowledged.   *)
LEMMA CarriedLocal ==
  ASSUME Inv, NEW p \in AgentProcs, Live(agent[p]), NEW b \in AgentRecord, Live(b),
         AgentStays(agent[p], b), b.arenas = agent[p].arenas, b.sent = None, b.inbox = agent[p].inbox,
         \/ b.plan = agent[p].plan /\ b.view = agent[p].view /\ b.report = agent[p].report
         \/ b.plan = 0 /\ b.report = None,
         RecordInv(b), fabric.id # 0 => Firm(fabric, agent[p], b),
         b.pc = "finalize" => agent[p].view = "finalizing",
         Set(p, b), OnlyAgent, UNCHANGED inst
  PROVE  Inv'
<1> DEFINE a == agent[p]
<1>1. /\ a \in AgentRecord /\ p \in alive /\ generations \in Nat
      /\ agent \in [AgentProcs -> AgentRecord] /\ AgentInv(fabric, p, a, generations)
      /\ fabric.id # 0 => Backing(fabric, late, p, a)
  BY LiveAgent
<1>2. b.report # None => b.plan # 0 /\ fabric.id = b.plan /\ fabric.agents[slot[p]] = p
  BY <1>1 DEF AgentInv
<1>3. \A f \in {b.sent, b.report} : f # None /\ b.plan = fabric.id =>
        Claims(fabric, a, late, p, f.phase)
  BY DEF Claims
<1>4. /\ AgentInv(fabric, p, b, generations)
      /\ fabric.id # 0 => /\ Backing(fabric, late, p, b)
                          /\ SeesFinalizing(fabric, b) => SeesFinalizing(fabric, a)
  BY <1>1, <1>2, <1>3, CarriedOver, SMT
<1>5. Progress(fabric, agent, late, alive, generations) /\ late \in SUBSET Messages
  BY DEF Inv, TypeOK
<1>6. b.pc \notin {"off", "admit"}
  BY DEF Live, Dead
<1>7. fabric.id # 0 => /\ a.native = "active" /\ fabric.phase \in Early => b.native = "active"
                       /\ a.native \in Done => b.native \in Done
  BY DEF Firm
<1>8. Progress(fabric, [agent EXCEPT ![p] = b], late, alive, generations)
  BY <1>1, <1>4, <1>5, <1>6, <1>7, ProgressAgent
<1>9. /\ UNCHANGED <<alive, startups, book, broker, leases, forming, generations, sealed, closed, inst>>
      /\ UNCHANGED <<fabric, late>> /\ agent' = [agent EXCEPT ![p] = b]
  BY DEF OnlyAgent, Daemon, Local1, Quiet, Set
<1>10. Steps(a, b)
  BY DEF Steps
<1>11. fabric' \in Generations \cup {NoGeneration} /\ WorldStays /\ late' \in SUBSET Messages
  BY <1>9 DEF Inv, TypeOK, WorldStays
<1>12. Progress(fabric', [agent EXCEPT ![p] = b], late', alive, generations)
  BY <1>8, <1>9
<1> QED
  BY <1>9, <1>10, <1>11, <1>12, CarryWorld

(* The Agent enters the collective finalization, which its view allows.    *)
LEMMA FinalizeBeginStep ==
  ASSUME Inv, NEW p \in AgentProcs, FinalizeBegin(p), UNCHANGED inst
  PROVE  Inv'
<1> DEFINE a == agent[p]
           b == [a EXCEPT !.native = "finalizing", !.pc = "finalize"]
<1>1. At(p, "finalizing", {"drained"}) /\ Set(p, b) /\ OnlyAgent
  BY DEF FinalizeBegin
<1>a. Acts(p, "finalizing", {"drained"})
  BY <1>1, Acting
<1>b. "finalizing" \notin Early /\ "drained" \in PostQuiesce
  BY Retirement
<1>2. /\ Live(a) /\ a.pc \in {"loop", "shut"} /\ a.plan # 0
      /\ Reported(a) = "drained" /\ <<"drained", a.native>> \in NativeAt
      /\ a \in AgentRecord /\ a.sent = None /\ a.view = "finalizing"
  BY <1>a, <1>b, PastQuiesce
<1>3. a.native \in Done
  BY <1>2, NativeTable DEF Done
<1>4. b \in AgentRecord
  BY <1>2, Words DEF AgentRecord
<1>5. /\ b.plan = a.plan /\ b.view = a.view /\ b.inbox = a.inbox /\ b.report = a.report
      /\ b.native = "finalizing" /\ b.arenas = a.arenas /\ b.sent = a.sent /\ b.pc = "finalize"
  BY <1>2, SMT DEF AgentRecord
<1>6. b.registered = a.registered
  BY <1>2 DEF AgentRecord
<1> HIDE DEF b
<1>7. Reported(b) = Reported(a) /\ (PreJoin(b) <=> PreJoin(a))
  BY <1>5 DEF Reported, PreJoin
<1>8. RecordInv(b)
  BY <1>2, <1>5, <1>7, NativeTable DEF RecordInv
<1>9. Firm(fabric, a, b)
  BY <1>2, <1>3, <1>5, <1>7 DEF Firm, Done, Left
<1>10. Live(b) /\ AgentStays(a, b)
  <2>1. a.plan # 0 \/ a.arenas # "none" => a.registered
    BY <1>2, LiveAgent
  <2> QED
    BY <1>2, <1>5, <1>6, <2>1 DEF Live, AgentStays, Dead
<1> QED
  BY <1>1, <1>2, <1>4, <1>5, <1>8, <1>9, <1>10, CarriedLocal

(* A stopped generation lets the Agent go.                                 *)
LEMMA StoppedNormallyStep ==
  ASSUME Inv, NEW p \in AgentProcs, StoppedNormally(p), UNCHANGED inst
  PROVE  Inv'
<1> DEFINE a == agent[p]
           b == [a EXCEPT !.plan = 0, !.view = "none", !.report = None, !.pc = "release"]
<1>1. At(p, "stopped", {"finalized"}) /\ Set(p, b) /\ OnlyAgent
  BY DEF StoppedNormally
<1>a. Acts(p, "stopped", {"finalized"})
  BY <1>1, Acting
<1>b. "stopped" \notin Early /\ "finalized" \in PostQuiesce
  BY Retirement
<1>2. /\ Live(a) /\ a.pc \in {"loop", "shut"} /\ a.plan # 0
      /\ a \in AgentRecord /\ a.sent = None
  BY <1>a, <1>b, PastQuiesce
<1>3. 0 \in Nat /\ "none" \in Views /\ None \in MaybeReport /\ "release" \in AgentPcs
  BY Words, SMT DEF Views, MaybeReport
<1>4. b \in AgentRecord
  BY <1>2, <1>3 DEF AgentRecord
<1>5. /\ b.plan = 0 /\ b.inbox = a.inbox /\ b.report = None
      /\ b.native = a.native /\ b.arenas = a.arenas /\ b.sent = a.sent /\ b.pc = "release"
  BY <1>2, SMT DEF AgentRecord
<1>6. b.registered = a.registered
  BY <1>2 DEF AgentRecord
<1> HIDE DEF b
<1>7. RecordInv(b)
  BY <1>2, <1>5 DEF RecordInv
<1>8. fabric.id # 0 => Firm(fabric, a, b)
  BY <1>5 DEF Firm, Left
<1>9. Live(b) /\ AgentStays(a, b)
  <2>1. a.plan # 0 \/ a.arenas # "none" => a.registered
    BY <1>2, LiveAgent
  <2> QED
    BY <1>2, <1>5, <1>6, <2>1 DEF Live, AgentStays, Dead
<1> QED
  BY <1>1, <1>2, <1>4, <1>5, <1>7, <1>8, <1>9, CarriedLocal

-----------------------------------------------------------------------------
(* Snapshots: the Agent's deeds stay, its view or its inbox changes.       *)
SameDeeds(a, b) ==
  /\ b.plan = a.plan /\ b.report = a.report /\ b.sent = a.sent /\ b.enriching = a.enriching
  /\ b.native = a.native /\ b.arenas = a.arenas /\ b.pc = a.pc /\ b.registered = a.registered

(***************************************************************************)
(* A step that changes only the view or the inbox keeps Progress, if the   *)
(* snapshot is not ahead of the generation.                                *)
(***************************************************************************)
LEMMA DeedsStay ==
  ASSUME Inv, NEW p \in AgentProcs, Live(agent[p]), NEW b \in AgentRecord, SameDeeds(agent[p], b),
         b.inbox # None => b.inbox.id <= generations,
         b.plan # 0 /\ b.plan = fabric.id => Behind(b.view, fabric.phase),
         b.inbox # None /\ b.inbox.id # 0 /\ b.inbox.id = fabric.id => Behind(b.inbox.phase, fabric.phase),
         fabric.id # 0 /\ SeesFinalizing(fabric, b) =>
           SeesFinalizing(fabric, agent[p]) \/ fabric.phase = "finalizing"
  PROVE  /\ Steps(agent[p], b)
         /\ Progress(fabric, [agent EXCEPT ![p] = b], late, alive, generations)
<1> DEFINE a == agent[p]
<1>1. /\ a \in AgentRecord /\ p \in alive /\ generations \in Nat
      /\ agent \in [AgentProcs -> AgentRecord] /\ AgentInv(fabric, p, a, generations)
      /\ a.plan # 0 \/ a.arenas # "none" => a.registered
  BY LiveAgent
<1>2. fabric.id # 0 => Backing(fabric, late, p, a)
  BY LiveAgent
<1>3. Reported(b) = Reported(a) /\ (PreJoin(b) <=> PreJoin(a))
  BY DEF SameDeeds, Reported, PreJoin
<1>4. RecordInv(b)
  <2>1. RecordInv(a)
    BY <1>1 DEF AgentInv
  <2>2. SentFits(a) => SentFits(b)
    BY <1>3 DEF SentFits, SameDeeds
  <2> QED
    BY <1>3, <2>1, <2>2 DEF RecordInv, SameDeeds
<1>5. AgentInv(fabric, p, b, generations)
  BY <1>1, <1>4 DEF AgentInv, SameDeeds
<1>6. fabric.id # 0 => Backing(fabric, late, p, b)
  <2>1. \A ph : Claims(fabric, b, late, p, ph) => Claims(fabric, a, late, p, ph)
    BY DEF Claims, SameDeeds
  <2>2. \A ph : Backed(fabric, p, a, ph) => Backed(fabric, p, b, ph)
    BY <1>3 DEF Backed, SameDeeds
  <2> QED
    BY <1>2, <2>1, <2>2 DEF Backing
<1>7. Progress(fabric, agent, late, alive, generations) /\ late \in SUBSET Messages
  BY DEF Inv, TypeOK
<1>8. Live(b) /\ b.pc \notin {"off", "admit"}
  BY DEF Live, Dead, SameDeeds
<1>9. b.native = a.native
  BY DEF SameDeeds
<1>10. Progress(fabric, [agent EXCEPT ![p] = b], late, alive, generations)
  BY <1>1, <1>5, <1>6, <1>7, <1>8, <1>9, ProgressAgent
<1>11. Steps(a, b)
  BY <1>1, <1>8 DEF Steps, AgentStays, SameDeeds, Live, Dead
<1> QED
  BY <1>10, <1>11

(* The heartbeat thread leaves the newest snapshot in the inbox.           *)
LEMMA HeartbeatStep ==
  ASSUME Inv, NEW p \in AgentProcs, Heartbeat(p), UNCHANGED inst
  PROVE  Inv'
<1> DEFINE a == agent[p]
           b == [a EXCEPT !.inbox = Snapshot]
<1>1. /\ a.pc \in {"loop", "join", "finalize", "shut", "retained"}
      /\ Owns(p) /\ book' = [book EXCEPT ![slot[p]].fresh = TRUE]
      /\ agent' = [agent EXCEPT ![p] = b] /\ UNCHANGED <<fabric, late>>
      /\ UNCHANGED <<alive, startups, broker, leases, forming, generations, sealed, closed, inst>>
  BY DEF Heartbeat, heartbeat, Beating, Set, Local1, Quiet
<1>2. Live(a)
  BY <1>1 DEF Live, Dead
<1>3. a \in AgentRecord /\ AgentInv(fabric, p, a, generations)
  BY <1>2, LiveAgent
<1>4. fabric.id \in Nat /\ fabric.phase \in Views
  <2>1. fabric \in Generations => fabric.id \in Nat /\ fabric.phase \in Views
    BY GenerationFields DEF Views
  <2>2. NoGeneration.id \in Nat /\ NoGeneration.phase \in Views
    BY SMT DEF NoGeneration, Views
  <2> QED
    BY <2>1, <2>2 DEF Inv, TypeOK
<1>5. /\ Snapshot \in Snapshots /\ Snapshot.id = fabric.id /\ Snapshot.phase = fabric.phase
  BY <1>4, SMT DEF Snapshot, Snapshots
<1>6. b \in AgentRecord
  BY <1>3, <1>5 DEF AgentRecord
<1>7. /\ b.plan = a.plan /\ b.view = a.view /\ b.inbox = Snapshot /\ b.report = a.report
      /\ b.native = a.native /\ b.arenas = a.arenas /\ b.sent = a.sent /\ b.pc = a.pc
  BY <1>3, SMT DEF AgentRecord
<1>8. b.enriching = a.enriching /\ b.registered = a.registered
  BY <1>3 DEF AgentRecord
<1> HIDE DEF b
<1>9. SameDeeds(a, b)
  BY <1>7, <1>8 DEF SameDeeds
<1>10. fabric.id <= generations
  BY DEF Inv, Progress
<1>11. Behind(fabric.phase, fabric.phase)
  BY DEF Behind
<1>12. SeesFinalizing(fabric, b) => SeesFinalizing(fabric, a) \/ fabric.phase = "finalizing"
  BY <1>5, <1>7 DEF SeesFinalizing
<1>13. /\ Steps(a, b)
       /\ Progress(fabric, [agent EXCEPT ![p] = b], late, alive, generations)
  BY <1>2, <1>3, <1>5, <1>6, <1>7, <1>9, <1>10, <1>11, <1>12, DeedsStay DEF AgentInv
<1>14. book' \in [Slots -> Registrations \cup {None}] /\ SameBook
  <2> DEFINE s == slot[p]
             r == [book[s] EXCEPT !.fresh = TRUE]
  <2>1. /\ s \in Slots /\ book[s] # None /\ book[s] \in Registrations
        /\ book \in [Slots -> Registrations \cup {None}]
    BY <1>1, StructureTypes DEF Owns, Inv, TypeOK
  <2>2. r \in Registrations
    BY <2>1 DEF Registrations
  <2>3. r.proc = book[s].proc /\ r # None
    BY <2>1, <2>2, NoneAssumption DEF Registrations
  <2>4. book' = [book EXCEPT ![s] = r]
    BY <1>1
  <2> HIDE DEF r, s
  <2>5. book'[s] = r /\ \A t \in Slots : t # s => book'[t] = book[t]
    BY <2>1, <2>4
  <2> QED
    BY <2>1, <2>2, <2>3, <2>4, <2>5 DEF SameBook
<1>15. /\ fabric' \in Generations \cup {NoGeneration} /\ WorldStays /\ late' \in SUBSET Messages
       /\ Progress(fabric', agent', late', alive', generations')
  BY <1>1, <1>13 DEF Inv, TypeOK, WorldStays
<1> QED
  BY <1>1, <1>2, <1>13, <1>14, <1>15, AgentLocal

(* The main thread takes the snapshot from the inbox.                      *)
LEMMA TakeSnapshotStep ==
  ASSUME Inv, NEW p \in AgentProcs, TakeSnapshot(p), UNCHANGED inst
  PROVE  Inv'
<1> DEFINE a == agent[p]
           c == [a EXCEPT !.inbox = None]
           b == handle_heartbeat_response(a)
<1>1. /\ a.pc \in {"loop", "shut", "retained"} /\ a.sent = None /\ a.inbox # None
      /\ UNCHANGED <<alive, late>> /\ Daemon
      /\ \/ Foreign(a) /\ agent' = [agent EXCEPT ![p] = Raised(c, FALSE)]
         \/ ~Foreign(a) /\ agent' = [agent EXCEPT ![p] = b]
  BY DEF TakeSnapshot, Set, Quiet
<1>2. Live(a) /\ a.pc # "form"
  BY <1>1 DEF Live, Dead
<1>3. a \in AgentRecord /\ AgentInv(fabric, p, a, generations)
  BY <1>2, LiveAgent
<1>4. CASE Foreign(a)
  <2>1. c \in AgentRecord
    BY <1>3 DEF AgentRecord
  <2>2. /\ c.plan = a.plan /\ c.view = a.view /\ c.inbox = None /\ c.report = a.report
        /\ c.native = a.native /\ c.arenas = a.arenas /\ c.pc = a.pc
    BY <1>3, SMT DEF AgentRecord
  <2>3. c.registered = a.registered
    BY <1>3 DEF AgentRecord
  <2> HIDE DEF c
  <2>4. Steps(a, Raised(c, FALSE)) /\ Carries(p, Raised(c, FALSE))
    BY <1>2, <2>1, <2>2, <2>3, RaiseCarries
  <2>5. agent' = [agent EXCEPT ![p] = Raised(c, FALSE)]
    BY <1>1, <1>4
  <2> QED
    BY <1>1, <1>2, <2>4, <2>5, CarryLocal
<1>5. CASE ~Foreign(a)
  <2>1. b = [a EXCEPT !.inbox = None, !.view = a.inbox.phase]
    BY DEF handle_heartbeat_response
  <2>2. a.inbox.phase \in Views
    <3>1. a.inbox \in Snapshots
      BY <1>1, <1>3, AgentFields
    <3> QED
      BY <3>1, SMT DEF Snapshots
  <2>3. [a EXCEPT !.inbox = None, !.view = a.inbox.phase] \in AgentRecord
    BY <1>3, <2>2 DEF AgentRecord
  <2>4. /\ b.plan = a.plan /\ b.view = a.inbox.phase /\ b.inbox = None /\ b.report = a.report
        /\ b.native = a.native /\ b.arenas = a.arenas /\ b.sent = a.sent /\ b.pc = a.pc
    BY <1>3, <2>1, SMT DEF AgentRecord
  <2>5. [a EXCEPT !.inbox = None, !.view = a.inbox.phase].enriching = a.enriching /\
        [a EXCEPT !.inbox = None, !.view = a.inbox.phase].registered = a.registered
    BY <1>3 DEF AgentRecord
  <2>6. b \in AgentRecord /\ b.enriching = a.enriching /\ b.registered = a.registered
    BY <2>1, <2>3, <2>5
  <2> HIDE DEF b
  <2>7. SameDeeds(a, b)
    BY <2>4, <2>6 DEF SameDeeds
  <2>8. a.plan # 0 => a.inbox.id = a.plan
    BY <1>5 DEF Foreign
  <2>9. b.plan # 0 /\ b.plan = fabric.id => Behind(b.view, fabric.phase)
    BY <1>1, <1>3, <2>4, <2>8 DEF AgentInv
  <2>10. fabric.id # 0 /\ SeesFinalizing(fabric, b) => SeesFinalizing(fabric, a)
    BY <1>1, <2>4, <2>8 DEF SeesFinalizing
  <2>11. /\ Steps(a, b)
         /\ Progress(fabric, [agent EXCEPT ![p] = b], late, alive, generations)
    BY <1>2, <2>4, <2>6, <2>7, <2>9, <2>10, DeedsStay
  <2>12. agent' = [agent EXCEPT ![p] = b]
    BY <1>1, <1>5
  <2>13. /\ UNCHANGED <<alive, startups, book, broker, leases, forming, generations, sealed, closed, inst>>
         /\ fabric' \in Generations \cup {NoGeneration} /\ WorldStays /\ late' \in SUBSET Messages
         /\ Progress(fabric', [agent EXCEPT ![p] = b], late', alive, generations)
    BY <1>1, <2>11 DEF Inv, TypeOK, WorldStays, Daemon
  <2> QED
    BY <1>2, <2>11, <2>12, <2>13, CarryWorld
<1> QED
  BY <1>4, <1>5

(* Plan acquisition: no report of this process names the generation yet.   *)
LEMMA AcquirePlanStep ==
  ASSUME Inv, NEW p \in AgentProcs, AcquirePlan(p), UNCHANGED inst
  PROVE  Inv'
<1> DEFINE a == agent[p]
           b == [a EXCEPT !.plan = fabric.id, !.view = "preparing_join"]
<1>1. /\ a.pc = "loop" /\ a.sent = None /\ a.registered /\ a.plan = 0 /\ fabric.id # 0
      /\ agent' = [agent EXCEPT ![p] = b]
      /\ UNCHANGED <<alive, startups, book, broker, leases, forming, generations, sealed, closed, inst>>
      /\ UNCHANGED <<fabric, late>>
  BY DEF AcquirePlan, Running, InLoop, Set, OnlyAgent, Daemon, Local1, Quiet
<1>2. Live(a)
  BY <1>1 DEF Live, Dead
<1>3. /\ a \in AgentRecord /\ p \in alive /\ generations \in Nat
      /\ agent \in [AgentProcs -> AgentRecord] /\ AgentInv(fabric, p, a, generations)
      /\ Backing(fabric, late, p, a)
  BY <1>1, <1>2, LiveAgent
<1>4. a.report = None /\ a.native = "empty"
  BY <1>1, <1>3 DEF AgentInv, RecordInv
<1>5. fabric.id \in Nat /\ "preparing_join" \in Views /\ "preparing_join" \in Early
  BY <1>1, StructureTypes, GenerationFields DEF Inv, Views, GenerationPhases, StartPhases, Early
<1>6. b \in AgentRecord
  BY <1>3, <1>5 DEF AgentRecord
<1>7. /\ b.plan = fabric.id /\ b.view = "preparing_join" /\ b.inbox = a.inbox /\ b.report = a.report
      /\ b.native = a.native /\ b.arenas = a.arenas /\ b.sent = a.sent /\ b.pc = a.pc
  BY <1>3, SMT DEF AgentRecord
<1>8. b.registered = a.registered
  BY <1>3 DEF AgentRecord
<1> HIDE DEF b
<1>9. fabric.id <= generations /\ Progress(fabric, agent, late, alive, generations) /\ late \in SUBSET Messages
  BY DEF Inv, Progress, TypeOK
<1>10. RecordInv(b)
  <2>1. Reported(b) = "none" /\ <<"none", "empty">> \in NativeAt
    BY <1>4, <1>7 DEF Reported, NativeAt
  <2> QED
    BY <1>1, <1>4, <1>7, <2>1 DEF RecordInv
<1>11. Behind("preparing_join", fabric.phase)
  BY <1>5 DEF Behind
<1>12. AgentInv(fabric, p, b, generations)
  BY <1>3, <1>4, <1>7, <1>9, <1>10, <1>11 DEF AgentInv
<1>13. Backing(fabric, late, p, b)
  <2> SUFFICES ASSUME NEW ph \in ParticipantPhases, Claims(fabric, b, late, p, ph)
               PROVE  FALSE
    BY DEF Backing
  <2>1. Claims(fabric, a, late, p, ph)
    BY <1>1, <1>4, <1>7 DEF Claims
  <2>2. Backed(fabric, p, a, ph)
    BY <1>3, <2>1 DEF Backing
  <2> QED
    BY <1>1, <2>2 DEF Backed
<1>14. SeesFinalizing(fabric, b) => SeesFinalizing(fabric, a)
  BY <1>1, <1>7 DEF SeesFinalizing
<1>15. b.pc \notin {"off", "admit"} /\ Live(b)
  BY <1>1, <1>7 DEF Live, Dead
<1>16. Progress(fabric, [agent EXCEPT ![p] = b], late, alive, generations)
  BY <1>3, <1>6, <1>7, <1>9, <1>12, <1>13, <1>14, <1>15, ProgressAgent
<1>17. Steps(a, b)
  BY <1>1, <1>6, <1>7, <1>8, <1>15 DEF Steps, AgentStays, Live, Dead
<1>18. /\ fabric' \in Generations \cup {NoGeneration} /\ WorldStays /\ late' \in SUBSET Messages
       /\ Progress(fabric', [agent EXCEPT ![p] = b], late', alive, generations)
  BY <1>1, <1>16 DEF Inv, TypeOK, WorldStays
<1> QED
  BY <1>1, <1>2, <1>17, <1>18, CarryWorld

-----------------------------------------------------------------------------
(* The reports.                                                            *)

(* Who sends a report.                                                     *)
LEMMA Sender ==
  ASSUME Inv, NEW p \in AgentProcs, agent[p].sent # None
  PROVE  /\ Live(agent[p]) /\ agent[p].pc # "form" /\ agent[p].plan # 0 /\ agent[p] \in AgentRecord
         /\ agent[p].sent \in Reports /\ RecordInv(agent[p]) /\ SentFits(agent[p]) /\ p \in alive
<1>1. Live(agent[p])
  BY NothingLeft
<1>2. agent[p] \in AgentRecord /\ p \in alive /\ RecordInv(agent[p])
  BY <1>1, LiveAgent DEF AgentInv
<1>3. SentFits(agent[p])
  BY <1>2 DEF RecordInv
<1>4. agent[p].sent \in Reports
  BY <1>2, AgentFields DEF MaybeReport
<1> QED
  BY <1>1, <1>2, <1>3, <1>4 DEF SentFits, RecordInv

(* A failed attempt is repeated, dropped, or becomes an exception.         *)
LEMMA RetryCarries ==
  ASSUME Inv, NEW p \in AgentProcs, agent[p].sent # None, Retry(p) \/ GiveUp(p)
  PROVE  \E b : Steps(agent[p], b) /\ Carries(p, b) /\ agent' = [agent EXCEPT ![p] = b]
<1> DEFINE a == agent[p]
           c == [a EXCEPT !.tries = a.tries - 1]
           d == [a EXCEPT !.sent = None, !.tries = 0]
<1>1. Live(a) /\ a.pc # "form" /\ a \in AgentRecord
  BY Sender
<1>2. \/ a.tries > 1 /\ agent' = [agent EXCEPT ![p] = c]
      \/ agent' = [agent EXCEPT ![p] = d]
      \/ agent' = [agent EXCEPT ![p] = Raised(a, TRUE)]
  BY DEF Retry, GiveUp, Set, Raise
<1>3. CASE a.tries > 1 /\ agent' = [agent EXCEPT ![p] = c]
  <2>1. a.tries - 1 \in Nat
    <3>1. a.tries \in Nat
      BY <1>1, AgentFields
    <3> QED
      BY <1>3, <3>1, SMT
  <2>2. c \in AgentRecord
    BY <1>1, <2>1 DEF AgentRecord
  <2>3. /\ c.plan = a.plan /\ c.view = a.view /\ c.inbox = a.inbox /\ c.report = a.report
        /\ c.native = a.native /\ c.arenas = a.arenas /\ c.sent = a.sent /\ c.pc = a.pc
    BY <1>1, SMT DEF AgentRecord
  <2>4. c.enriching = a.enriching /\ c.registered = a.registered
    BY <1>1 DEF AgentRecord
  <2> HIDE DEF c
  <2>5. Turned(a, c)
    BY <2>3, <2>4 DEF Turned
  <2> QED
    BY <1>1, <1>3, <2>2, <2>5, TurnCarries
<1>4. CASE agent' = [agent EXCEPT ![p] = d]
  <2>1. 0 \in Nat /\ None \in MaybeReport
    BY SMT DEF MaybeReport
  <2>2. d \in AgentRecord
    BY <1>1, <2>1 DEF AgentRecord
  <2>3. /\ d.plan = a.plan /\ d.view = a.view /\ d.inbox = a.inbox /\ d.report = a.report
        /\ d.native = a.native /\ d.arenas = a.arenas /\ d.sent = None /\ d.pc = a.pc
    BY <1>1, SMT DEF AgentRecord
  <2>4. d.enriching = a.enriching /\ d.registered = a.registered
    BY <1>1 DEF AgentRecord
  <2> HIDE DEF d
  <2>5. Turned(a, d)
    BY <2>3, <2>4 DEF Turned
  <2> QED
    BY <1>1, <1>4, <2>2, <2>5, TurnCarries
<1>5. CASE agent' = [agent EXCEPT ![p] = Raised(a, TRUE)]
  <2>1. TRUE \in BOOLEAN
    OBVIOUS
  <2>2. Steps(a, Raised(a, TRUE)) /\ Carries(p, Raised(a, TRUE))
    BY <1>1, <2>1, RaiseCarries
  <2> QED
    BY <1>5, <2>2
<1> QED
  BY <1>2, <1>3, <1>4, <1>5

(* record_fabric_participant, for a report that its Agent has made.        *)
LEMMA OutcomeWorld ==
  ASSUME Inv, NEW p \in AgentProcs, NEW id, NEW r \in Reports,
         fabric' = ParticipantOutcome(p, id, r).g,
         fabric.id # 0 /\ fabric.id = id => Claims(fabric, agent[p], late, p, r.phase)
  PROVE  /\ fabric' \in Generations \cup {NoGeneration} /\ WorldStays
         /\ Progress(fabric', agent, late, alive, generations)
         /\ ParticipantOutcome(p, id, r).ok =>
              fabric' \in Generations /\ fabric'.id = id /\ fabric'.agents[slot[p]] = p
<1> DEFINE pe == slot[p]
           o == ParticipantOutcome(p, id, r)
<1>1. pe \in Pes /\ (fabric.id # 0 => fabric \in Generations)
  BY StructureTypes DEF Inv
<1>2. CASE fabric.id = 0
  <2>1. o = [g |-> fabric, ok |-> FALSE]
    BY <1>2 DEF ParticipantOutcome
  <2>a. fabric' = fabric
    BY <2>1, SMT
  <2>b. ~o.ok
    BY <2>1, SMT
  <2>2. fabric' = fabric /\ ~o.ok
    BY <2>a, <2>b
  <2> QED
    BY <2>2 DEF Inv, TypeOK, WorldStays
<1>3. CASE /\ fabric.id # 0
           /\ ~Owns(p) \/ fabric.agents[pe] # p \/ p \notin alive \/ id # fabric.id
  <2>1. o = [g |-> reject_report(fabric), ok |-> FALSE]
    BY <1>3 DEF ParticipantOutcome
  <2>a. fabric' = reject_report(fabric)
    BY <2>1, SMT
  <2>b. ~o.ok
    BY <2>1, SMT
  <2>2. fabric' = reject_report(fabric) /\ ~o.ok
    BY <2>a, <2>b
  <2>3. Moves(fabric, fabric')
    BY <1>1, <1>3, <2>2, FailureMoves
  <2> QED
    BY <1>1, <1>3, <2>2, <2>3, MovesWorld
<1>4. CASE fabric.id # 0 /\ fabric.agents[pe] = p /\ id = fabric.id /\ Owns(p) /\ p \in alive
  <2>1. o = record_participant(fabric, pe, r)
    BY <1>4 DEF ParticipantOutcome
  <2>2. Moves(fabric, fabric') \/ Accepts(fabric, pe, r, fabric')
    BY <1>1, <1>4, <2>1, RecordedReport
  <2>3. Claims(fabric, agent[fabric.agents[pe]], late, fabric.agents[pe], r.phase)
    BY <1>4
  <2>4. /\ fabric' \in Generations /\ WorldStays
        /\ Progress(fabric', agent, late, alive, generations)
    BY <1>1, <1>4, <2>2, <2>3, MovesWorld, AcceptsWorld
  <2>5. SameWorld(fabric, fabric')
    BY <2>2 DEF Moves, Accepts
  <2> QED
    BY <1>4, <2>4, <2>5 DEF SameWorld
<1> QED
  BY <1>2, <1>3, <1>4

(* An acknowledged report.                                                 *)
LEMMA AckCarries ==
  ASSUME Inv, NEW p \in AgentProcs, agent[p].sent # None, NEW g \in Generations,
         g.id = agent[p].plan, g.agents[slot[p]] = p, Progress(g, agent, late, alive, generations)
  PROVE  /\ Steps(agent[p], Acknowledged(agent[p]))
         /\ Progress(g, [agent EXCEPT ![p] = Acknowledged(agent[p])], late, alive, generations)
<1> DEFINE a == agent[p]
           b == Acknowledged(a)
           joins == a.sent.phase = "joining" /\ a.pc = "loop" /\ ~a.enriching
<1>1. /\ Live(a) /\ a.pc # "form" /\ a.plan # 0 /\ a \in AgentRecord /\ a.sent \in Reports
      /\ RecordInv(a) /\ SentFits(a) /\ p \in alive
  BY Sender
<1>2. /\ generations \in Nat /\ agent \in [AgentProcs -> AgentRecord]
      /\ a.plan # 0 \/ a.arenas # "none" => a.registered
  BY <1>1, LiveAgent
<1>3. /\ b \in AgentRecord /\ b.report = a.sent /\ b.sent = None
      /\ b.registered = a.registered /\ b.plan = a.plan /\ b.view = a.view
      /\ b.inbox = a.inbox /\ b.arenas = a.arenas
      /\ joins => b.pc = "join" /\ b.native = "joining"
      /\ ~joins => b.pc = a.pc /\ b.native = a.native
  BY <1>1, AcknowledgedFields
<1> HIDE DEF b
<1>4. Reported(b) = a.sent.phase /\ b.report # None /\ a.sent.phase \in ParticipantPhases
  BY <1>1, <1>3, ReportFields DEF Reported
<1>5. joins => Reported(a) = "join_ready" /\ a.native = "empty"
  <2>1. joins => Reported(a) = "join_ready"
    BY <1>1 DEF SentFits
  <2> QED
    BY <1>1, <2>1, NativeTable DEF RecordInv
<1>6. RecordInv(b)
  <2>1. <<Reported(b), b.native>> \in NativeAt
    <3>1. CASE joins
      <4>1. <<"joining", "joining">> \in NativeAt
        BY DEF NativeAt
      <4> QED
        BY <1>3, <1>4, <3>1, <4>1
    <3>2. CASE ~joins /\ a.sent.phase = "joining"
      <4>1. Reported(a) = "joining"
        BY <1>1, <3>2 DEF SentFits
      <4> QED
        BY <1>1, <1>3, <1>4, <3>2, <4>1 DEF RecordInv
    <3>3. CASE a.sent.phase # "joining"
      BY <1>1, <1>3, <1>4, <3>3 DEF SentFits
    <3> QED
      BY <3>1, <3>2, <3>3
  <2>2. b.pc = "join" => joins
    BY <1>1, <1>3 DEF RecordInv
  <2>3. b.pc # "finalize" /\ b.pc # "form"
    BY <1>1, <1>3 DEF RecordInv
  <2> QED
    BY <1>1, <1>3, <1>4, <2>1, <2>2, <2>3 DEF RecordInv
<1>7. /\ a.native = "active" => b.native = "active"
      /\ a.native \in Done => b.native \in Done
  BY <1>3, <1>5 DEF Done
<1>8. Firm(g, a, b)
  <2>1. ~PreJoin(a) => ~PreJoin(b)
    <3>1. a.sent.phase # "none"
      BY <1>4 DEF ParticipantPhases
    <3> QED
      BY <1>1, <1>4, <3>1 DEF PreJoin, SentFits
  <2> QED
    BY <1>3, <1>7, <2>1 DEF Firm
<1>9. AgentInv(g, p, a, generations) /\ Backing(g, late, p, a)
  <2>1. g.id # 0
    BY <1>1
  <2> QED
    BY <1>1, <2>1 DEF Progress, Backing
<1>10. \A f \in {b.sent, b.report} : f # None /\ b.plan = g.id => Claims(g, a, late, p, f.phase)
  BY <1>3 DEF Claims
<1>11. b.pc = "finalize" => a.pc = "finalize"
  BY <1>3
<1>12. /\ AgentInv(g, p, b, generations)
       /\ g.id # 0 => /\ Backing(g, late, p, b)
                      /\ SeesFinalizing(g, b) => SeesFinalizing(g, a)
  BY <1>1, <1>2, <1>3, <1>6, <1>8, <1>9, <1>10, <1>11, CarriedOver, SMT
<1>13. Live(b) /\ b.pc \notin {"off", "admit"}
  BY <1>1, <1>3 DEF Live, Dead
<1>14. late \in SUBSET Messages
  BY DEF Inv, TypeOK
<1>15. Progress(g, [agent EXCEPT ![p] = b], late, alive, generations)
  BY <1>1, <1>2, <1>3, <1>7, <1>12, <1>13, <1>14, ProgressAgent
<1>16. Steps(a, b)
  <2>1. b.pc # "form"
    BY <1>1, <1>3
  <2>2. AgentStays(a, b)
    BY <1>1, <1>2, <1>3, <1>13, <2>1 DEF AgentStays, Live, Dead
  <2> QED
    BY <1>3, <1>13, <2>2 DEF Steps
<1> QED
  BY <1>15, <1>16 DEF b

(* A report reaches the daemon and its answer the Agent.                   *)
LEMMA ReportDeliveredStep ==
  ASSUME Inv, NEW p \in AgentProcs, ReportDelivered(p), UNCHANGED inst
  PROVE  Inv'
<1> DEFINE a == agent[p]
           o == ParticipantOutcome(p, a.plan, a.sent)
<1>1. /\ a.sent # None /\ fabric' = o.g
      /\ UNCHANGED <<alive, startups, book, broker, leases, forming, generations, sealed, closed, inst>>
      /\ UNCHANGED late
      /\ \/ o.ok /\ agent' = [agent EXCEPT ![p] = Acknowledged(a)]
         \/ GiveUp(p)
  BY DEF ReportDelivered, record_fabric_participant, Set, Quiet
<1>2. Live(a) /\ a.plan # 0 /\ a.sent \in Reports
  BY <1>1, Sender
<1>3. fabric.id = a.plan => Claims(fabric, a, late, p, a.sent.phase)
  BY <1>1 DEF Claims
<1>4. /\ fabric' \in Generations \cup {NoGeneration} /\ WorldStays
      /\ Progress(fabric', agent, late, alive, generations)
      /\ o.ok => fabric' \in Generations /\ fabric'.id = a.plan /\ fabric'.agents[slot[p]] = p
  BY <1>1, <1>2, <1>3, OutcomeWorld
<1>5. late' \in SUBSET Messages /\ late' = late
  BY <1>1 DEF Inv, TypeOK
<1>6. CASE o.ok /\ agent' = [agent EXCEPT ![p] = Acknowledged(a)]
  <2>1. /\ Steps(a, Acknowledged(a))
        /\ Progress(fabric', [agent EXCEPT ![p] = Acknowledged(a)], late, alive, generations)
    BY <1>1, <1>4, <1>6, AckCarries
  <2> QED
    BY <1>1, <1>2, <1>4, <1>5, <1>6, <2>1, CarryWorld
<1>7. CASE GiveUp(p)
  <2>1. PICK b : Steps(a, b) /\ Carries(p, b) /\ agent' = [agent EXCEPT ![p] = b]
    BY <1>1, <1>7, RetryCarries
  <2> QED
    BY <1>1, <1>2, <1>4, <1>5, <2>1, CarryWorld
<1> QED
  BY <1>1, <1>6, <1>7

(* The daemon takes a report whose answer is lost: the Agent repeats it.   *)
LEMMA ReportAnswerLostStep ==
  ASSUME Inv, NEW p \in AgentProcs, ReportAnswerLost(p), UNCHANGED inst
  PROVE  Inv'
<1> DEFINE a == agent[p]
           o == ParticipantOutcome(p, a.plan, a.sent)
<1>1. /\ a.sent # None /\ fabric' = o.g /\ Retry(p)
      /\ UNCHANGED <<alive, startups, book, broker, leases, forming, generations, sealed, closed, inst>>
      /\ UNCHANGED late
  BY DEF ReportAnswerLost, record_fabric_participant, Quiet
<1>2. Live(a) /\ a.plan # 0 /\ a.sent \in Reports
  BY <1>1, Sender
<1>3. fabric.id = a.plan => Claims(fabric, a, late, p, a.sent.phase)
  BY <1>1 DEF Claims
<1>4. /\ fabric' \in Generations \cup {NoGeneration} /\ WorldStays
      /\ Progress(fabric', agent, late, alive, generations)
  BY <1>1, <1>2, <1>3, OutcomeWorld
<1>5. late' \in SUBSET Messages /\ late' = late
  BY <1>1 DEF Inv, TypeOK
<1>6. PICK b : Steps(a, b) /\ Carries(p, b) /\ agent' = [agent EXCEPT ![p] = b]
  BY <1>1, RetryCarries
<1> QED
  BY <1>1, <1>2, <1>4, <1>5, <1>6, CarryWorld

(* A report is lost on its way.                                            *)
LEMMA ReportLostStep ==
  ASSUME Inv, NEW p \in AgentProcs, ReportLost(p), UNCHANGED inst
  PROVE  Inv'
<1>1. agent[p].sent # None /\ Retry(p) /\ Daemon /\ UNCHANGED <<alive, late>>
  BY DEF ReportLost, Quiet
<1>2. Live(agent[p])
  BY <1>1, Sender
<1>3. PICK b : Steps(agent[p], b) /\ Carries(p, b) /\ agent' = [agent EXCEPT ![p] = b]
  BY <1>1, RetryCarries
<1> QED
  BY <1>1, <1>2, <1>3, CarryLocal

(***************************************************************************)
(* A report is delayed: the Agent repeats it, and the daemon gets it       *)
(* later.                                                                  *)
(***************************************************************************)
LEMMA ReportDelayedStep ==
  ASSUME Inv, NEW p \in AgentProcs, ReportDelayed(p), UNCHANGED inst
  PROVE  Inv'
<1> DEFINE a == agent[p]
           m == [by |-> p, id |-> a.plan, report |-> a.sent]
<1>1. /\ a.sent # None /\ Retry(p) /\ late' = late \cup {m} /\ UNCHANGED fabric
      /\ UNCHANGED <<alive, startups, book, broker, leases, forming, generations, sealed, closed, inst>>
  BY DEF ReportDelayed, Daemon
<1>2. Live(a) /\ a.sent \in Reports /\ a \in AgentRecord
  BY <1>1, Sender
<1>3. a.plan \in Nat
  BY <1>2, AgentFields
<1>4. m \in Messages /\ m.by = p /\ m.id = a.plan /\ m.report = a.sent
  BY <1>2, <1>3 DEF Messages
<1> HIDE DEF m
<1>5. late' \in SUBSET Messages
  BY <1>1, <1>4 DEF Inv, TypeOK
<1>6. a.pc \notin {"off", "admit"}
  BY <1>2 DEF Live, Dead
<1>7. Progress(fabric, agent, late, alive, generations)
  BY DEF Inv
<1>8. Progress(fabric, agent, late \cup {m}, alive, generations)
  BY <1>1, <1>4, <1>6, <1>7, ProgressLate
<1>9. PICK b : Steps(a, b) /\ Carries(p, b) /\ agent' = [agent EXCEPT ![p] = b]
  BY <1>1, RetryCarries
<1>10. fabric' \in Generations \cup {NoGeneration} /\ WorldStays
  BY <1>1 DEF Inv, TypeOK, WorldStays
<1>11. Progress(fabric', agent, late', alive, generations)
  BY <1>1, <1>8
<1> QED
  BY <1>1, <1>2, <1>5, <1>9, <1>10, <1>11, CarryWorld

(* A delayed report reaches the daemon.                                    *)
LEMMA LateReportStep ==
  ASSUME Inv, LateReport, UNCHANGED inst
  PROVE  Inv'
<1>1. PICK m \in late :
        /\ late' = late \ {m} /\ fabric' = ParticipantOutcome(m.by, m.id, m.report).g
        /\ UNCHANGED <<agent, alive, startups, book, broker, leases, forming, generations, sealed, closed>>
  BY DEF LateReport, record_fabric_participant
<1>2. TypeOK /\ CloseInv /\ late \in SUBSET Messages
  BY DEF Inv, Structure, TypeOK
<1>3. m.by \in AgentProcs /\ m.report \in Reports
  BY <1>2, SMT DEF Messages
<1>4. m.report.phase \in ParticipantPhases
  BY <1>3, ReportFields
<1>5. fabric.id = m.id => Claims(fabric, agent[m.by], late, m.by, m.report.phase)
  BY DEF Claims
<1>6. /\ fabric' \in Generations \cup {NoGeneration} /\ WorldStays
      /\ Progress(fabric', agent, late, alive, generations)
  BY <1>1, <1>3, <1>5, OutcomeWorld
<1>7. late' \in SUBSET late /\ late' \in SUBSET Messages
  BY <1>1, <1>2
<1>8. Progress(fabric', agent, late', alive, generations)
  BY <1>6, <1>7, ProgressLate
<1>9. /\ book' \in [Slots -> Registrations \cup {None}] /\ SameBook
      /\ sealed' \in BOOLEAN /\ closed' \in BOOLEAN
  BY <1>1, <1>2 DEF TypeOK, SameBook
<1>10. CloseInv'
  BY <1>1, <1>2 DEF CloseInv
<1> QED
  BY <1>1, <1>6, <1>7, <1>8, <1>9, <1>10, DaemonKeeps

(* The record of an AtnAgent whose arenas move on.                         *)
LEMMA ArenasTurn ==
  ASSUME NEW a \in AgentRecord, NEW x \in {"dormant", "drained"}
  PROVE  LET c == [a EXCEPT !.arenas = x] IN
         /\ c \in AgentRecord /\ c.arenas = x /\ c.native = a.native /\ c.pc = a.pc
         /\ SameWorldView(a, c) /\ c.sent = a.sent
<1> DEFINE c == [a EXCEPT !.arenas = x]
<1>1. c \in AgentRecord
  BY DEF AgentRecord
<1>2. c.arenas = x /\ c.native = a.native /\ c.pc = a.pc /\ c.sent = a.sent
  BY SMT DEF AgentRecord
<1>3. c.plan = a.plan /\ c.view = a.view /\ c.inbox = a.inbox /\ c.report = a.report
  BY SMT DEF AgentRecord
<1>4. c.registered = a.registered
  BY DEF AgentRecord
<1> HIDE DEF c
<1>5. SameWorldView(a, c)
  BY <1>3, <1>4 DEF SameWorldView
<1> QED
  BY <1>1, <1>2, <1>5 DEF c

(* An AtnAgent reports quiesced once nobody leases its arenas.             *)
LEMMA QuiesceAtnStep ==
  ASSUME Inv, NEW p \in AgentProcs, QuiesceAtn(p), UNCHANGED inst
  PROVE  Inv'
<1> DEFINE a == agent[p]
           c == [a EXCEPT !.arenas = "drained"]
           b == Sending(c, "quiesced")
<1>1. /\ slot[p] \in Atn /\ quiesce_atnagent_transport_leases(p) /\ UNCHANGED <<alive, late>>
      /\ LeasesInUse(slot[p]) = {} => Set(p, b)
      /\ LeasesInUse(slot[p]) # {} => UNCHANGED agent
      /\ \/ At(p, "quiescing", {"active"})
         \/ At(p, "aborting", {"joined", "execution_ready", "active"})
  BY DEF QuiesceAtn, Local1, Quiet
<1>a. Acts(p, "quiescing", {"active"}) \/ Acts(p, "aborting", {"joined", "execution_ready", "active"})
  BY <1>1, Acting
<1>2. /\ Live(a) /\ a.pc \in {"loop", "shut"} /\ a.plan # 0
      /\ Reported(a) \in {"joined", "execution_ready", "active"}
      /\ <<Reported(a), a.native>> \in NativeAt /\ a \in AgentRecord
  BY <1>a DEF Acts
<1>3. CASE LeasesInUse(slot[p]) # {}
  BY <1>1, <1>2, <1>3, AdmissionOnly
<1>4. CASE LeasesInUse(slot[p]) = {}
  <2>1. /\ c \in AgentRecord /\ c.arenas = "drained" /\ c.native = a.native /\ c.pc = a.pc
        /\ SameWorldView(a, c)
    BY <1>2, ArenasTurn
  <2>0. Set(p, b)
    BY <1>1, <1>4
  <2> HIDE DEF c
  <2>2. a.native \in {"joined", "active"}
    BY <1>2, NativeTable
  <2>3. <<"quiesced", a.native>> \in NativeAt
    BY <2>2, NativeTable
  <2>4. ~PreJoin(a)
    BY <1>2 DEF PreJoin
  <2>5. Sends(fabric, p, a, c, "quiesced")
    BY <1>2, <2>1, <2>3, <2>4 DEF Sends
  <2>6. "quiesced" \in ParticipantPhases
    BY Retirement
  <2>7. SentAs(c, "quiesced", b)
    BY <2>1, <2>6, SendingFields
  <2>8. /\ Live(b) /\ AgentStays(a, b)
        /\ Progress(fabric, [agent EXCEPT ![p] = b], late, alive, generations)
    BY <1>2, <2>5, <2>6, <2>7, SendProgress
  <2>9. b \in AgentRecord /\ b.arenas = "drained"
    BY <2>1, <2>7 DEF SentAs
  <2> HIDE DEF b
  <2>10. /\ broker' \in [Atn -> Publications \cup {None}] /\ BrokerStays
         /\ broker'[slot[p]] # None => ~broker'[slot[p]].accepting
         /\ UNCHANGED <<startups, book, leases, fabric, forming, generations, sealed, closed>>
    BY <1>1, AdmissionEnds
  <2>11. Idles(p)
    BY <1>4, <2>10, NoLessees DEF Idles
  <2>12. TypeOK
    BY DEF Inv
  <2>13. FormingStays /\ SameBook /\ WorldStays /\ SameOwners
    BY <2>10, <2>12, FormingSame DEF SameBook, WorldStays, BrokerStays
  <2>14. /\ book' \in [Slots -> Registrations \cup {None}] /\ late' \in SUBSET Messages
         /\ fabric' \in Generations \cup {NoGeneration}
    BY <1>1, <2>10, <2>12 DEF TypeOK
  <2>15. agent' = [agent EXCEPT ![p] = b]
    BY <2>0 DEF Set
  <2>16. AgentMoves(p, b)
    <3>1. UNCHANGED <<alive, startups, leases, generations, sealed, closed, inst>>
      BY <1>1, <2>10
    <3> QED
      BY <1>2, <2>8, <2>9, <2>10, <2>13, <2>14, <2>15, <3>1 DEF AgentMoves
  <2>17. Progress(fabric', agent', late', alive', generations')
    BY <1>1, <2>8, <2>10, <2>15
  <2> QED
    BY <2>9, <2>10, <2>11, <2>16, <2>17, AgentKeeps
<1> QED
  BY <1>3, <1>4

(* What an Agent that has not reported for its plan may do to its arenas.  *)
LEMMA UnreportedProgress ==
  ASSUME Inv, NEW p \in AgentProcs, Acts(p, "preparing_join", {"none"}), NEW c \in AgentRecord,
         SameWorldView(agent[p], c), c.native = agent[p].native, c.pc = agent[p].pc,
         c.sent = agent[p].sent
  PROVE  /\ Live(c) /\ AgentStays(agent[p], c)
         /\ Progress(fabric, [agent EXCEPT ![p] = c], late, alive, generations)
<1> DEFINE a == agent[p]
<1>1. /\ Live(a) /\ a.pc \in {"loop", "shut"} /\ a.plan # 0 /\ Reported(a) = "none" /\ a.sent = None
      /\ <<Reported(a), a.native>> \in NativeAt
  BY DEF Acts
<1>2. /\ a \in AgentRecord /\ p \in alive /\ generations \in Nat
      /\ agent \in [AgentProcs -> AgentRecord] /\ AgentInv(fabric, p, a, generations)
      /\ fabric.id # 0 => Backing(fabric, late, p, a)
      /\ a.plan # 0 \/ a.arenas # "none" => a.registered
  BY <1>1, LiveAgent
<1>3. /\ c.registered = a.registered /\ c.plan = a.plan /\ c.view = a.view
      /\ c.inbox = a.inbox /\ c.report = a.report
  BY DEF SameWorldView
<1>4. Live(c) /\ AgentStays(a, c)
  BY <1>1, <1>2, <1>3 DEF AgentStays, Live, Dead
<1>5. Reported(c) = "none" /\ PreJoin(a) /\ PreJoin(c) /\ c.sent = None
  BY <1>1, <1>3 DEF Reported, PreJoin
<1>6. RecordInv(c)
  BY <1>1, <1>3, <1>5 DEF RecordInv
<1>7. fabric.id # 0 => Firm(fabric, a, c)
  BY <1>1, <1>3, <1>5 DEF Firm, Left
<1>8. fabric.id # 0 => \A f \in {c.sent, c.report} : f # None /\ c.plan = fabric.id =>
        Claims(fabric, a, late, p, f.phase) \/ Backed(fabric, p, c, f.phase)
  BY <1>3, <1>5 DEF Claims
<1>9. c.report # None => c.plan # 0 /\ fabric.id = c.plan /\ fabric.agents[slot[p]] = p
  BY <1>2, <1>3 DEF AgentInv
<1>10. c.pc # "finalize" /\ c.pc \notin {"off", "admit"}
  BY <1>1
<1>11. /\ AgentInv(fabric, p, c, generations)
       /\ fabric.id # 0 => /\ Backing(fabric, late, p, c)
                           /\ SeesFinalizing(fabric, c) => SeesFinalizing(fabric, a)
  BY <1>2, <1>3, <1>6, <1>7, <1>8, <1>9, <1>10, CarriedOver, SMT
<1>12. Progress(fabric, agent, late, alive, generations) /\ late \in SUBSET Messages
  BY DEF Inv, TypeOK
<1>13. Progress(fabric, [agent EXCEPT ![p] = c], late, alive, generations)
  BY <1>2, <1>10, <1>11, <1>12, ProgressAgent
<1> QED
  BY <1>4, <1>13

(* An Agent publishes arenas.                                              *)
LEMMA Publishes ==
  ASSUME Inv, NEW p \in AgentProcs, slot[p] \in Atn, NEW n \in SUBSET Ranks,
         upsert_atnagent_transport_arenas(p, n)
  PROVE  /\ broker' \in [Atn -> Publications \cup {None}] /\ SameOwners
         /\ \A a \in Atn : a # slot[p] => broker'[a] = broker[a]
         /\ Owns(p) /\ broker[slot[p]] # None /\ broker[slot[p]].owner = p
         /\ UNCHANGED <<startups, book, leases, fabric, forming, generations, sealed, closed>>
<1> DEFINE a == slot[p]
           m == [broker[a] EXCEPT !.published = @ \cup n]
<1>1. /\ broker' = [broker EXCEPT ![a].published = @ \cup n]
      /\ UNCHANGED <<startups, book, leases, fabric, forming, generations, sealed, closed>>
      /\ Owns(p) /\ broker[a].owner = p
  BY DEF upsert_atnagent_transport_arenas
<1>2. TypeOK /\ BrokerInv /\ broker \in [Atn -> Publications \cup {None}]
  BY DEF Inv, Structure, TypeOK
<1>3. broker[a] # None /\ broker[a] \in Publications
  BY <1>1, <1>2 DEF Owns, BrokerInv
<1>4. broker' = [broker EXCEPT ![a] = m]
  BY <1>1
<1>5. m \in Publications
  BY <1>3 DEF Publications
<1>6. m.owner = broker[a].owner
  BY <1>3, SMT DEF Publications
<1> HIDE DEF m
<1>7. broker'[a] = m /\ \A e \in Atn : e # a => broker'[e] = broker[e]
  BY <1>2, <1>4
<1>8. m # None
  BY <1>5, NoneAssumption
<1>9. SameOwners
  BY <1>3, <1>6, <1>7, <1>8 DEF SameOwners
<1>10. broker' \in [Atn -> Publications \cup {None}]
  BY <1>2, <1>4, <1>5
<1> QED
  BY <1>1, <1>3, <1>7, <1>9, <1>10

(* ... and has dormant arenas afterwards.                                  *)
LEMMA PublishesKeeps ==
  ASSUME Inv, NEW p \in AgentProcs, slot[p] \in Atn, NEW b, AgentMoves(p, b), b.arenas = "dormant",
         Owns(p), broker[slot[p]].owner = p,
         \A a \in Atn : a # slot[p] => broker'[a] = broker[a],
         UNCHANGED <<book, fabric, forming>>,
         Progress(fabric', agent', late', alive', generations')
  PROVE  Inv'
<1>1. TypeOK /\ ProcInv /\ RosterInv /\ BrokerInv
  BY DEF Inv, Structure
<1>2. /\ agent'[p] = b /\ \A q \in AgentProcs : q # p => agent'[q] = agent[q]
      /\ TypeOK' /\ ProcInv' /\ AdmitInv' /\ AllStay
      /\ RosterInv' /\ OwnInv' /\ CloseInv'
  BY AgentWorld
<1>3. UNCHANGED alive /\ SameOwners /\ Live(b)
  BY DEF AgentMoves
<1>4. LeaseInv'
  BY AgentLends
<1>5. MembersKept /\ agent'[p].pc # "exited"
  BY <1>1, <1>2, <1>3, MembersStay DEF Live, Dead
<1>6. BrokerInv'
  <2>1. ASSUME NEW a \in Atn
        PROVE  /\ book'[a] # None => broker'[a] # None
               /\ broker'[a] # None => MemberNext(a, broker'[a].owner)
    <3>1. book[a] # None => broker[a] # None
      BY <1>1 DEF BrokerInv
    <3>2. broker[a] # None => Member(a, broker[a].owner) /\ broker[a].owner \in Procs
      BY <1>1, StructureTypes DEF BrokerInv
    <3> QED
      BY <1>3, <1>5, <3>1, <3>2 DEF SameOwners, MembersKept
  <2>2. ASSUME NEW q \in AgentProcs \cap alive', slot[q] \in Atn, broker'[slot[q]] # None,
               broker'[slot[q]].owner = q
        PROVE  /\ broker'[slot[q]].published # {} => agent'[q].arenas # "none"
               /\ agent'[q].arenas = "drained" => ~broker'[slot[q]].accepting
    <3>1. CASE q = p
      BY <1>2, <3>1
    <3>2. CASE q # p
      <4>1. broker[slot[q]] # None /\ broker[slot[q]].owner = q
        BY <1>3, <2>2 DEF SameOwners
      <4>2. slot[q] # slot[p]
        BY <3>2, <4>1
      <4>3. broker'[slot[q]] = broker[slot[q]] /\ agent'[q] = agent[q] /\ q \in alive
        BY <1>2, <1>3, <2>2, <3>2, <4>2
      <4> QED
        BY <1>1, <2>2, <4>1, <4>3 DEF BrokerInv
    <3> QED
      BY <3>1, <3>2
  <2>3. ASSUME NEW a \in Atn, fabric'.id # 0, agent'[fabric'.agents[a]].pc = "exited",
               fabric'.phase \in Early
        PROVE  SpentNext(a)
    <3> DEFINE q == fabric.agents[a]
    <3>1. fabric.id # 0 /\ fabric.phase \in Early /\ a \in Pes /\ agent'[q].pc = "exited"
      BY <1>1, <2>3, StructureTypes
    <3>2. Member(a, q) /\ book[a] # None /\ book[a].proc = q /\ q \in Procs
      BY <1>1, <3>1, StructureTypes DEF RosterInv
    <3>3. q # p /\ slot[q] = a /\ q \in AgentProcs
      BY <1>1, <1>5, <3>1, <3>2, StructureTypes DEF Member
    <3>4. a # slot[p]
      BY <3>2, <3>3 DEF Owns
    <3>5. broker'[a] = broker[a] /\ agent[q].pc = "exited"
      BY <1>2, <3>1, <3>3, <3>4
    <3>6. Spent(a)
      BY <1>1, <3>1, <3>5 DEF BrokerInv
    <3> QED
      BY <3>5, <3>6 DEF Spent, SpentNext
  <2>4. ASSUME NEW a \in Atn, forming' # None, forming'.probed, forming'.current,
               agent'[forming'.agents[a]].pc = "exited"
        PROVE  SpentNext(a)
    <3> DEFINE q == forming.agents[a]
    <3>1. /\ forming # None /\ forming.probed /\ forming.current /\ a \in Pes
          /\ agent'[q].pc = "exited"
      BY <1>1, <2>4, StructureTypes
    <3>2. Member(a, q) /\ book[a] # None /\ book[a].proc = q /\ q \in Procs
      BY <1>1, <3>1, StructureTypes DEF RosterInv
    <3>3. q # p /\ slot[q] = a /\ q \in AgentProcs
      BY <1>1, <1>5, <3>1, <3>2, StructureTypes DEF Member
    <3>4. a # slot[p]
      BY <3>2, <3>3 DEF Owns
    <3>5. broker'[a] = broker[a] /\ agent[q].pc = "exited"
      BY <1>2, <3>1, <3>3, <3>4
    <3>6. Spent(a)
      BY <1>1, <3>1, <3>5 DEF BrokerInv
    <3> QED
      BY <3>5, <3>6 DEF Spent, SpentNext
  <2> QED
    BY <2>1, <2>2, <2>3, <2>4 DEF BrokerInv, Member, MemberNext, Spent, SpentNext
<1> QED
  BY <1>2, <1>4, <1>6 DEF Inv, Structure

(* prepare_fabric_join of an AtnAgent.                                     *)
LEMMA PrepareAtnStep ==
  ASSUME Inv, NEW p \in AgentProcs, PrepareAtn(p), UNCHANGED inst
  PROVE  Inv'
<1> DEFINE a == agent[p]
           n == {r \in Local(slot[p]) : book[r] # None}
           c == [a EXCEPT !.arenas = "dormant"]
           s == Sending(c, "join_ready")
           all == n = Local(slot[p])
<1>1. /\ slot[p] \in Atn /\ At(p, "preparing_join", {"none"})
      /\ upsert_atnagent_transport_arenas(p, n) /\ UNCHANGED <<alive, late>>
      /\ all => Set(p, s)
      /\ ~all => Set(p, c)
  BY DEF PrepareAtn, Local1, Quiet
<1>2. n \in SUBSET Ranks
  BY DEF Local
<1> HIDE DEF n, all
<1>3. /\ broker' \in [Atn -> Publications \cup {None}] /\ SameOwners
      /\ \A e \in Atn : e # slot[p] => broker'[e] = broker[e]
      /\ Owns(p) /\ broker[slot[p]].owner = p
      /\ UNCHANGED <<startups, book, leases, fabric, forming, generations, sealed, closed>>
  BY <1>1, <1>2, Publishes
<1>4. Acts(p, "preparing_join", {"none"})
  BY <1>1, Acting
<1>5. /\ Live(a) /\ a.pc \in {"loop", "shut"} /\ a.plan # 0 /\ Reported(a) = "none"
      /\ <<Reported(a), a.native>> \in NativeAt /\ a \in AgentRecord
  BY <1>4 DEF Acts
<1>6. /\ c \in AgentRecord /\ c.arenas = "dormant" /\ c.native = a.native /\ c.pc = a.pc
      /\ SameWorldView(a, c) /\ c.sent = a.sent
  BY <1>5, ArenasTurn
<1>7. (all => agent' = [agent EXCEPT ![p] = s]) /\ (~all => agent' = [agent EXCEPT ![p] = c])
  BY <1>1 DEF Set
<1> HIDE DEF c
<1>8. /\ Live(c) /\ AgentStays(a, c)
      /\ Progress(fabric, [agent EXCEPT ![p] = c], late, alive, generations)
  BY <1>4, <1>6, UnreportedProgress
<1>9. SentAs(c, "join_ready", s) /\ "join_ready" \in ParticipantPhases
  <2>1. "join_ready" \in ParticipantPhases
    BY DEF ParticipantPhases
  <2> QED
    BY <1>6, <2>1, SendingFields
<1> HIDE DEF s
<1>10. /\ Live(s) /\ AgentStays(a, s)
       /\ Progress(fabric, [agent EXCEPT ![p] = s], late, alive, generations)
  <2>1. a.native = "empty" /\ <<"join_ready", "empty">> \in NativeAt
    BY <1>5, NativeTable
  <2>2. PreJoin(a)
    BY <1>5 DEF PreJoin
  <2>3. Sends(fabric, p, a, c, "join_ready")
    BY <1>5, <1>6, <2>1, <2>2 DEF Sends, PostQuiesce, Done
  <2> QED
    BY <1>5, <1>9, <2>3, SendProgress
<1>11. s \in AgentRecord /\ s.arenas = "dormant"
  BY <1>6, <1>9 DEF SentAs
<1>12. PICK b : /\ agent' = [agent EXCEPT ![p] = b] /\ b \in AgentRecord /\ b.arenas = "dormant"
                /\ Live(b) /\ AgentStays(a, b)
                /\ Progress(fabric, [agent EXCEPT ![p] = b], late, alive, generations)
  BY <1>6, <1>7, <1>8, <1>10, <1>11
<1>13. TypeOK
  BY DEF Inv
<1>14. FormingStays /\ SameBook /\ WorldStays
  BY <1>3, <1>13, FormingSame DEF SameBook, WorldStays
<1>15. /\ book' \in [Slots -> Registrations \cup {None}] /\ late' \in SUBSET Messages
       /\ fabric' \in Generations \cup {NoGeneration}
  BY <1>1, <1>3, <1>13 DEF TypeOK
<1>16. AgentMoves(p, b)
  <2>1. UNCHANGED <<alive, startups, leases, generations, sealed, closed, inst>>
    BY <1>1, <1>3
  <2> QED
    BY <1>3, <1>5, <1>12, <1>14, <1>15, <2>1 DEF AgentMoves
<1>17. Progress(fabric', agent', late', alive', generations')
  BY <1>1, <1>3, <1>12
<1> QED
  BY <1>1, <1>3, <1>12, <1>16, <1>17, PublishesKeeps
=============================================================================
