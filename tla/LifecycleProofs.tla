--------------------------- MODULE LifecycleProofs --------------------------
(***************************************************************************)
(* The registration of an Agent, and the theorems: the invariant of        *)
(* LifecycleInvariant holds initially, every step of Next keeps it, and it *)
(* implies the four safety properties of Lifecycle.                        *)
(***************************************************************************)
EXTENDS LifecycleDaemonProofs, LifecycleAgentProofs

USE ZenonT(40)

-----------------------------------------------------------------------------
(* The registration of an Agent.                                           *)

(* The registration call of an Agent forms the plan.                       *)
LEMMA FormPlanStep ==
  ASSUME Inv, NEW p \in AgentProcs, FormPlan(p), UNCHANGED inst
  PROVE  Inv'
<1>1. /\ agent[p].pc = "form" /\ forming = None /\ capture_membership(p)
      /\ IF FormationEnds THEN Set(p, Registered(agent[p])) ELSE UNCHANGED agent
      /\ UNCHANGED <<alive, late>>
  BY DEF FormPlan, Local1, Quiet
<1>2. TypeOK /\ Progress(fabric, agent, late, alive, generations) /\ p \in Procs
  BY DEF Inv, AgentProcs
<1>3. CASE ~FormationEnds
  BY <1>1, <1>2, <1>3, CaptureStep
<1>4. CASE FormationEnds
  <2> DEFINE b == Registered(agent[p])
  <2>1. /\ agent' = [agent EXCEPT ![p] = b] /\ UNCHANGED forming
        /\ UNCHANGED <<startups, book, broker, leases, fabric, generations, sealed, closed>>
    BY <1>1, <1>4 DEF capture_membership, Set
  <2>2. Live(agent[p])
    BY <1>1 DEF Live, Dead
  <2>3. agent[p] \in AgentRecord /\ RecordInv(agent[p])
    BY <2>2, LiveAgent DEF AgentInv
  <2>4. b \in AgentRecord /\ Turned(agent[p], b)
    BY <1>1, <2>3, RegisteredFields
  <2> HIDE DEF b
  <2>5. Steps(agent[p], b) /\ Carries(p, b)
    BY <2>2, <2>4, TurnCarries
  <2>6. /\ book' \in [Slots -> Registrations \cup {None}] /\ SameBook
        /\ fabric' \in Generations \cup {NoGeneration} /\ WorldStays /\ late' \in SUBSET Messages
        /\ fabric \in Generations \cup {NoGeneration} /\ late \in SUBSET Messages
    BY <1>1, <1>2, <2>1 DEF TypeOK, SameBook, WorldStays
  <2>7. Progress(fabric, [agent EXCEPT ![p] = b], late, alive, generations)
    BY <1>2, <2>5, <2>6 DEF Carries
  <2>8. Progress(fabric', agent', late', alive', generations')
    BY <1>1, <2>1, <2>7
  <2> QED
    BY <1>1, <2>1, <2>2, <2>5, <2>6, <2>8, AgentLocal
<1> QED
  BY <1>3, <1>4

(* What an Agent that has not registered brings to its registration.       *)
LEMMA Newcomer ==
  ASSUME Inv, NEW p \in AgentProcs, agent[p].pc = "loop", ~agent[p].registered
  PROVE  /\ agent[p].plan = 0 /\ agent[p].arenas = "none" /\ agent[p].report = None
         /\ agent[p].sent = None /\ agent[p].native = "empty" /\ ~Owns(p) /\ startups[slot[p]] = p
         /\ p \in alive /\ ~closed /\ Live(agent[p]) /\ agent[p] \in AgentRecord
<1>1. TypeOK /\ ProcInv /\ AdmitInv /\ OwnInv /\ CloseInv
  BY DEF Inv, Structure
<1>2. Live(agent[p]) /\ agent[p].pc \notin Dead /\ agent[p].pc # "form"
  BY DEF Live, Dead
<1>3. agent[p] \in AgentRecord /\ p \in alive /\ RecordInv(agent[p])
  BY <1>2, LiveAgent DEF AgentInv
<1>4. ~Owns(p)
  BY <1>1, <1>2 DEF OwnInv
<1>5. agent[p].plan = 0 /\ agent[p].arenas = "none"
  BY <1>1 DEF OwnInv
<1>6. agent[p].report = None /\ agent[p].sent = None /\ agent[p].native = "empty"
  BY <1>3, <1>5 DEF RecordInv
<1>7. startups[slot[p]] = p /\ slot[p] \in Pes
  BY <1>1, <1>2, StructureTypes DEF AdmitInv, Live
<1>8. ~closed
  BY <1>1, <1>3, <1>7 DEF CloseInv
<1> QED
  BY <1>2, <1>3, <1>4, <1>5, <1>6, <1>7, <1>8

(* The generation after a registration, whatever its outcome.              *)
LEMMA RegisterWorld ==
  ASSUME Inv, NEW p \in AgentProcs, register_agent(p)
  PROVE  /\ fabric' \in Generations \cup {NoGeneration} /\ WorldStays
         /\ Progress(fabric', agent, late, alive, generations)
<1> DEFINE g == retire_terminal_generation(fabric)
           s == slot[p]
<1>1. fabric' = IF startups[s] = p /\ Replaces(g, p) THEN abort(record_owner_failure(g)) ELSE g
  BY DEF register_agent
<1>2. TypeOK
  BY DEF Inv
<1>3. CASE startups[s] = p /\ Replaces(g, p)
  <2>1. g = fabric /\ fabric \in Generations
    BY <1>2, <1>3, RetiredFields DEF Replaces
  <2>2. Moves(fabric, fabric')
    BY <1>1, <1>3, <2>1, FailureMoves
  <2> QED
    BY <2>1, <2>2, MovesWorld
<1>4. CASE ~(startups[s] = p /\ Replaces(g, p))
  <2>1. fabric' = g
    BY <1>1, <1>4
  <2> QED
    BY <2>1, RetiresWorld
<1> QED
  BY <1>3, <1>4

(* A registration that is refused.                                         *)
LEMMA RegisterRefused ==
  ASSUME Inv, NEW p \in AgentProcs, RegisterAgent(p), RegisterOutcome(p) # "ok", UNCHANGED inst
  PROVE  Inv'
<1>1. /\ register_agent(p) /\ agent[p].pc = "loop" /\ UNCHANGED <<alive, late>>
      /\ IF RegisterOutcome(p) = "not_ready" THEN UNCHANGED <<agent, stopping>> ELSE Raise(p, FALSE)
  BY DEF RegisterAgent, Quiet, Running, InLoop
<1>2. UNCHANGED <<startups, book, broker, leases, forming, generations, sealed, closed>>
  BY <1>1 DEF register_agent
<1>3. /\ fabric' \in Generations \cup {NoGeneration} /\ WorldStays
      /\ Progress(fabric', agent, late, alive, generations)
  BY <1>1, RegisterWorld
<1>4. TypeOK /\ CloseInv
  BY DEF Inv, Structure
<1>5. /\ book' \in [Slots -> Registrations \cup {None}] /\ SameBook /\ late' \in SUBSET Messages
      /\ late \in SUBSET Messages /\ sealed' \in BOOLEAN /\ closed' \in BOOLEAN
  BY <1>1, <1>2, <1>4 DEF TypeOK, SameBook
<1>6. CASE RegisterOutcome(p) = "not_ready"
  <2>1. UNCHANGED agent
    BY <1>1, <1>6
  <2>2. CloseInv'
    BY <1>1, <1>2, <1>4 DEF CloseInv
  <2>3. Progress(fabric', agent, late', alive, generations)
    BY <1>1, <1>3
  <2> QED
    BY <1>1, <1>2, <1>3, <1>5, <2>1, <2>2, <2>3, DaemonKeeps
<1>7. CASE RegisterOutcome(p) # "not_ready"
  <2> DEFINE b == Raised(agent[p], FALSE)
  <2>1. agent' = [agent EXCEPT ![p] = b]
    BY <1>1, <1>7 DEF Raise
  <2>2. Live(agent[p]) /\ agent[p].pc # "form"
    BY <1>1 DEF Live, Dead
  <2>3. agent[p] \in AgentRecord
    BY <2>2, LiveAgent
  <2>4. Steps(agent[p], b) /\ Carries(p, b)
    BY <2>2, <2>3, RaiseCarries
  <2> HIDE DEF b
  <2>5. Progress(fabric', [agent EXCEPT ![p] = b], late, alive, generations)
    BY <1>3, <1>5, <2>4 DEF Carries
  <2>6. Progress(fabric', agent', late', alive', generations')
    BY <1>1, <1>2, <2>1, <2>5
  <2> QED
    BY <1>1, <1>2, <1>3, <1>5, <2>1, <2>2, <2>4, <2>6, AgentLocal
<1> QED
  BY <1>6, <1>7

(***************************************************************************)
(* What a registration that is accepted does: no generation is retained,   *)
(* the place had no live owner, and the Agent's record in the broker is    *)
(* its own and empty.                                                      *)
(***************************************************************************)
Enters(p, b) ==
  /\ b \in AgentRecord /\ b.pc = "form" /\ b.arenas = "none" /\ b.plan = 0
  /\ agent' = [agent EXCEPT ![p] = b]
  /\ fabric' \in Generations \cup {NoGeneration} /\ WorldStays /\ fabric'.id = 0
  /\ book' \in [Slots -> Registrations \cup {None}]
  /\ book'[slot[p]] # None /\ book'[slot[p]].proc = p
  /\ \A s \in Slots : s # slot[p] => book'[s] = book[s]
  /\ book[slot[p]] # None => book[slot[p]].proc \notin alive \ {p}
  /\ broker' \in [Atn -> Publications \cup {None}]
  /\ slot[p] \in Atn => /\ broker'[slot[p]] # None /\ broker'[slot[p]].owner = p
                        /\ broker'[slot[p]].published = {}
  /\ \A a \in Atn : a # slot[p] => broker'[a] = broker[a]
  /\ FormingStays /\ (forming' # None => ~forming'.current)
  /\ UNCHANGED <<alive, startups, leases, generations, sealed, closed, inst, late>>

(* The book after a new registration.                                      *)
LEMMA BookEnters ==
  ASSUME TypeOK, NEW p \in Procs, book' = [book EXCEPT ![slot[p]] = Registration(p)]
  PROVE  /\ book' \in [Slots -> Registrations \cup {None}]
         /\ book'[slot[p]] # None /\ book'[slot[p]].proc = p
         /\ \A s \in Slots : s # slot[p] => book'[s] = book[s]
<1> DEFINE n == Registration(p)
<1>1. book \in [Slots -> Registrations \cup {None}] /\ slot[p] \in Slots
  BY StructureTypes DEF TypeOK
<1>2. n \in Registrations /\ n.proc = p
  BY DEF Registrations, Registration
<1> HIDE DEF n
<1>3. n # None
  BY <1>2, NoneAssumption
<1>4. book' = [book EXCEPT ![slot[p]] = n]
  BY DEF n
<1>5. book'[slot[p]] = n /\ \A s \in Slots : s # slot[p] => book'[s] = book[s]
  BY <1>1, <1>4
<1>6. book' \in [Slots -> Registrations \cup {None}]
  BY <1>1, <1>2, <1>4
<1> QED
  BY <1>2, <1>3, <1>5, <1>6

(* The broker after a new registration.                                    *)
LEMMA BrokerEnters ==
  ASSUME Inv, NEW p \in AgentProcs, p \in alive, agent[p].arenas = "none",
         broker' = IF slot[p] \in Ffn \/ (broker[slot[p]] # None /\ broker[slot[p]].owner = p)
                     THEN broker
                     ELSE [broker EXCEPT ![slot[p]] = [owner |-> p, published |-> {},
                                                       accepting |-> TRUE]]
  PROVE  /\ broker' \in [Atn -> Publications \cup {None}]
         /\ slot[p] \in Atn => /\ broker'[slot[p]] # None /\ broker'[slot[p]].owner = p
                               /\ broker'[slot[p]].published = {}
         /\ \A a \in Atn : a # slot[p] => broker'[a] = broker[a]
<1> DEFINE n == [owner |-> p, published |-> {}, accepting |-> TRUE]
           s == slot[p]
<1>1. /\ broker \in [Atn -> Publications \cup {None}] /\ BrokerInv /\ p \in Procs
      /\ Atn \cap Ffn = {} /\ Pes = Atn \cup Ffn /\ s \in Pes
  BY PlacesAssumption DEF Inv, Structure, TypeOK, AgentProcs
<1>2. CASE slot[p] \in Ffn
  BY <1>1, <1>2
<1>3. CASE slot[p] \notin Ffn /\ broker[s] # None /\ broker[s].owner = p
  <2>1. broker' = broker /\ s \in Atn
    BY <1>1, <1>3
  <2>2. broker[s].published = {}
    BY <1>1, <1>3, <2>1 DEF BrokerInv
  <2> QED
    BY <1>1, <1>3, <2>1, <2>2
<1>4. CASE slot[p] \notin Ffn /\ ~(broker[s] # None /\ broker[s].owner = p)
  <2>1. n \in Publications
    BY <1>1 DEF Publications
  <2>2. n.owner = p /\ n.published = {}
    BY SMT
  <2>3. broker' = [broker EXCEPT ![s] = n] /\ s \in Atn
    BY <1>1, <1>4
  <2> HIDE DEF n
  <2>4. n # None
    BY <2>1, NoneAssumption
  <2>5. broker'[s] = n /\ \A a \in Atn : a # s => broker'[a] = broker[a]
    BY <1>1, <2>3
  <2>6. broker' \in [Atn -> Publications \cup {None}]
    BY <1>1, <2>1, <2>3
  <2> QED
    BY <2>2, <2>4, <2>5, <2>6
<1> QED
  BY <1>2, <1>3, <1>4

(* An accepted registration brings the Agent in.                           *)
LEMMA RegisterEnters ==
  ASSUME Inv, NEW p \in AgentProcs, RegisterAgent(p), RegisterOutcome(p) = "ok", UNCHANGED inst
  PROVE  /\ Enters(p, [agent[p] EXCEPT !.pc = "form"])
         /\ Progress(fabric', agent', late, alive, generations)
<1> DEFINE g == retire_terminal_generation(fabric)
           b == [agent[p] EXCEPT !.pc = "form"]
<1>1. /\ register_agent(p) /\ agent[p].pc = "loop" /\ ~agent[p].registered
      /\ UNCHANGED <<alive, late>> /\ agent' = [agent EXCEPT ![p] = b]
  BY DEF RegisterAgent, Quiet, Running, InLoop, Set
<1>2. /\ agent[p].plan = 0 /\ agent[p].arenas = "none" /\ agent[p].report = None
      /\ agent[p].sent = None /\ agent[p].native = "empty" /\ ~Owns(p) /\ startups[slot[p]] = p
      /\ p \in alive /\ agent[p] \in AgentRecord
  BY <1>1, Newcomer
<1>3. /\ book' = Installed(slot[p], p)
      /\ broker' = IF slot[p] \in Ffn \/ (broker[slot[p]] # None /\ broker[slot[p]].owner = p)
                     THEN broker
                     ELSE [broker EXCEPT ![slot[p]] = [owner |-> p, published |-> {},
                                                       accepting |-> TRUE]]
      /\ forming' = Outdated
      /\ UNCHANGED <<startups, leases, generations, sealed, closed>>
  BY <1>1, <1>2 DEF register_agent
<1>4. ~Replaces(g, p) /\ (book[slot[p]] # None => book[slot[p]].proc \notin alive \ {p})
  BY <1>2 DEF RegisterOutcome
<1>5. fabric' = g
  BY <1>1, <1>4 DEF register_agent
<1>6. /\ TypeOK /\ RosterInv /\ p \in Procs /\ slot[p] \in Pes
      /\ agent \in [AgentProcs -> AgentRecord] /\ late \in SUBSET Messages /\ generations \in Nat
  BY DEF Inv, Structure, TypeOK, AgentProcs
<1>7. fabric'.id = 0
  <2> SUFFICES ASSUME fabric'.id # 0
               PROVE  Owns(p)
    BY <1>2
  <2>1. g = fabric /\ fabric.id # 0
    BY <1>5, <1>6, RetiredFields
  <2>2. fabric.agents[slot[p]] = p
    BY <1>4, <2>1 DEF Replaces
  <2> QED
    BY <1>6, <2>1, <2>2 DEF RosterInv, Owns
<1>8. /\ fabric' \in Generations \cup {NoGeneration} /\ WorldStays
      /\ Progress(fabric', agent, late, alive, generations)
  BY <1>1, RegisterWorld
<1>9. /\ book' \in [Slots -> Registrations \cup {None}]
      /\ book'[slot[p]] # None /\ book'[slot[p]].proc = p
      /\ \A s \in Slots : s # slot[p] => book'[s] = book[s]
  <2>1. book' = [book EXCEPT ![slot[p]] = Registration(p)]
    BY <1>2, <1>3 DEF Installed, Owns
  <2> QED
    BY <1>6, <2>1, BookEnters
<1>10. /\ broker' \in [Atn -> Publications \cup {None}]
       /\ slot[p] \in Atn => /\ broker'[slot[p]] # None /\ broker'[slot[p]].owner = p
                             /\ broker'[slot[p]].published = {}
       /\ \A a \in Atn : a # slot[p] => broker'[a] = broker[a]
  BY <1>2, <1>3, BrokerEnters
<1>11. FormingStays /\ (forming' # None => ~forming'.current)
  <2>1. FormingStays
    BY <1>3, <1>6, OutdatedStays
  <2>2. forming # None => [forming EXCEPT !.current = FALSE].current = FALSE
    <3>1. forming # None => forming \in Rosters
      BY <1>6 DEF TypeOK
    <3> QED
      BY <3>1 DEF Rosters
  <2> QED
    BY <1>3, <2>1, <2>2 DEF Outdated
<1>12. "form" \in AgentPcs
  BY DEF AgentPcs
<1>13. b \in AgentRecord
  BY <1>2, <1>12 DEF AgentRecord
<1>14. /\ b.pc = "form" /\ b.plan = agent[p].plan /\ b.arenas = agent[p].arenas
       /\ b.report = agent[p].report /\ b.sent = agent[p].sent /\ b.inbox = agent[p].inbox
       /\ b.native = agent[p].native
  BY <1>2, SMT DEF AgentRecord
<1> HIDE DEF b, g
<1>15. AgentInv(fabric', p, b, generations)
  <2>1. AgentInv(fabric', p, agent[p], generations)
    BY <1>8 DEF Progress
  <2>2. RecordInv(b)
    BY <1>2, <1>14 DEF RecordInv
  <2> QED
    BY <1>2, <1>14, <2>1, <2>2 DEF AgentInv
<1>16. Progress(fabric', agent', late, alive, generations)
  <2>1. b.pc \notin {"off", "admit"}
    BY <1>14
  <2> QED
    BY <1>1, <1>6, <1>7, <1>8, <1>13, <1>15, <2>1, ProgressAgent
<1>17. Enters(p, b)
  <2>1. UNCHANGED <<alive, startups, leases, generations, sealed, closed, inst, late>>
    BY <1>1, <1>3
  <2>2. b.pc = "form" /\ b.arenas = "none" /\ b.plan = 0
    BY <1>2, <1>14
  <2> QED
    BY <1>1, <1>4, <1>7, <1>8, <1>9, <1>10, <1>11, <1>13, <2>1, <2>2 DEF Enters
<1> QED
  BY <1>16, <1>17 DEF b

(* Nobody else has registered for the place of p.                          *)
LEMMA NobodyElse ==
  ASSUME Inv, NEW p \in AgentProcs, NEW b, Enters(p, b), NEW q \in AgentProcs, q # p, slot[q] = slot[p]
  PROVE  agent[q].pc # "form" /\ agent[q].registered = FALSE
<1>1. TypeOK /\ ProcInv /\ OwnInv
  BY DEF Inv, Structure
<1>2. book[slot[p]] # None => book[slot[p]].proc \notin alive \ {p}
  BY DEF Enters
<1>3. agent[q] \in AgentRecord
  BY <1>1, StructureTypes
<1>4. agent[q].registered \in BOOLEAN
  BY <1>3, AgentFields
<1> SUFFICES ASSUME agent[q].pc = "form" \/ agent[q].registered
             PROVE  FALSE
  BY <1>4
<1>5. Owns(q)
  BY <1>1 DEF OwnInv
<1>6. q \notin alive
  BY <1>2, <1>5 DEF Owns
<1>7. agent[q].pc \in Dead
  BY <1>1, <1>6 DEF ProcInv
<1>8. ~Live(agent[q]) /\ agent[q].pc # "form"
  BY <1>7 DEF Live, Dead
<1> QED
  BY <1>8, NothingLeft

(* Nobody is attached: a rank that is keeps its generation retained.       *)
LEMMA NobodyAttached ==
  ASSUME Inv, WorldStays, fabric'.id = 0
  PROVE  \A q \in InstanceProcs : ~Attached(q)
<1>1. TypeOK /\ ProcInv /\ LeaseInv
  BY DEF Inv, Structure
<1> SUFFICES ASSUME NEW q \in InstanceProcs, Attached(q)
             PROVE  FALSE
  OBVIOUS
<1>2. fabric.id # 0 /\ fabric.instances[slot[q]] = q
  BY <1>1 DEF LeaseInv
<1>3. Owners(fabric) \cap alive = {}
  BY <1>2 DEF WorldStays, SameWorld
<1>4. slot[q] \in Ranks
  BY <1>1, StructureTypes
<1>5. q \in Owners(fabric)
  BY <1>2, <1>4 DEF Owners
<1>6. q \in alive
  <2>1. inst[q].pc \in Dead => inst[q] = [NoInstance EXCEPT !.pc = inst[q].pc]
    BY <1>1 DEF ProcInv
  <2>2. [NoInstance EXCEPT !.pc = inst[q].pc].arena = None
    BY SMT DEF NoInstance
  <2>3. inst[q].pc \notin Dead
    BY <2>1, <2>2 DEF Attached, Dead
  <2> QED
    BY <1>1, <2>3 DEF ProcInv
<1> QED
  BY <1>3, <1>5, <1>6

(* The Agents and the book after an accepted registration.                 *)
LEMMA EntersBooks ==
  ASSUME Inv, NEW p \in AgentProcs, NEW b, Enters(p, b), p \in alive, startups[slot[p]] = p
  PROVE  ProcInv' /\ AdmitInv' /\ MembersKept /\ RosterInv' /\ CloseInv'
<1>1. TypeOK /\ ProcInv /\ AdmitInv /\ RosterInv /\ CloseInv
  BY DEF Inv, Structure
<1>2. /\ UNCHANGED <<alive, startups, sealed, closed, inst>> /\ b.pc = "form" /\ p \in Procs
      /\ slot[p] \in Pes /\ slot[p] \in Slots
  BY <1>1, StructureTypes DEF Enters
<1>3. agent'[p] = b /\ \A q \in AgentProcs : q # p => agent'[q] = agent[q]
  BY <1>1 DEF Enters, TypeOK
<1>4. "form" \notin Dead \cup {"admit"} /\ "form" \notin {"off", "admit"}
  BY DEF Dead
<1>5. ProcInv'
  <2>1. ASSUME NEW q \in AgentProcs
        PROVE  /\ q \in alive' <=> agent'[q].pc \notin Dead
               /\ agent'[q].pc \in Dead \cup {"admit"} => agent'[q] = Gone(agent'[q].pc)
    <3>1. CASE q = p
      <4>1. agent'[q].pc = "form" /\ q \in alive'
        BY <1>2, <1>3, <3>1
      <4> QED
        BY <1>4, <4>1
    <3>2. CASE q # p
      BY <1>1, <1>2, <1>3, <3>2 DEF ProcInv
    <3> QED
      BY <3>1, <3>2
  <2> QED
    BY <1>1, <1>2, <2>1 DEF ProcInv
<1>6. AdmitInv'
  <2>1. ASSUME NEW s \in Pes, startups[s] # None
        PROVE  slot[startups[s]] = s /\ agent'[startups[s]].pc \notin {"off", "admit"}
    <3>0. startups[s] \in Procs
      BY <1>1, <2>1 DEF TypeOK
    <3>1. slot[startups[s]] = s /\ agent[startups[s]].pc \notin {"off", "admit"}
      BY <1>1, <2>1 DEF AdmitInv
    <3>2. startups[s] \in AgentProcs
      BY <3>0, <3>1 DEF AgentProcs
    <3> QED
      BY <1>2, <1>3, <1>4, <3>1, <3>2
  <2>2. \A q \in AgentProcs : agent'[q].pc \notin Dead \cup {"admit"} => startups[slot[q]] = q
    BY <1>1, <1>3 DEF AdmitInv
  <2> QED
    BY <1>2, <2>1, <2>2 DEF AdmitInv
<1>7. MembersKept
  <2> SUFFICES ASSUME NEW s, NEW q \in Procs, Member(s, q)
               PROVE  MemberNext(s, q)
    BY DEF MembersKept
  <2>1. s \in Pes => agent'[q].pc \notin {"off", "admit"}
    <3> SUFFICES ASSUME s \in Pes
                 PROVE  agent'[q].pc \notin {"off", "admit"}
      OBVIOUS
    <3>1. q \in AgentProcs /\ agent[q].pc \notin {"off", "admit"}
      BY <1>1, StructureTypes DEF Member
    <3> QED
      BY <1>2, <1>3, <1>4, <3>1
  <2> QED
    BY <1>2, <2>1 DEF Member, MemberNext
<1>8. RosterInv'
  <2>1. ASSUME NEW s \in Slots, book'[s] # None
        PROVE  MemberNext(s, book'[s].proc)
    <3>1. CASE s = slot[p]
      <4>1. book'[s].proc = p /\ agent'[p].pc \notin {"off", "admit"} /\ slot[p] \notin Ranks
        BY <1>1, <1>2, <1>3, <1>4, <3>1, StructureTypes DEF Enters
      <4> QED
        BY <3>1, <4>1 DEF MemberNext
    <3>2. CASE s # slot[p]
      <4>1. book'[s] = book[s]
        BY <3>2 DEF Enters
      <4>2. book[s] # None /\ book[s].proc \in Procs
        BY <1>1, <2>1, <4>1, StructureTypes
      <4> QED
        BY <1>1, <1>7, <4>1, <4>2 DEF RosterInv, MembersKept
    <3> QED
      BY <3>1, <3>2
  <2>2. BookTurns /\ FormingStays /\ WorldStays
    BY <2>1 DEF BookTurns, Enters
  <2> QED
    BY <1>1, <1>7, <2>2, RosterTurns
<1>9. CloseInv'
  BY <1>1, <1>2 DEF CloseInv
<1> QED
  BY <1>5, <1>6, <1>7, <1>8, <1>9

(* The ownership part survives an Agent that comes in.                     *)
LEMMA EntersOwns ==
  ASSUME Inv, NEW p \in AgentProcs, NEW b, Enters(p, b)
  PROVE  OwnInv'
<1>1. TypeOK /\ OwnInv
  BY DEF Inv, Structure
<1>2. /\ b.pc = "form" /\ b.plan = 0 /\ b.arenas = "none" /\ inst' = inst
      /\ book'[slot[p]] # None /\ book'[slot[p]].proc = p
      /\ slot[p] \in Atn => broker'[slot[p]] # None /\ broker'[slot[p]].owner = p
  BY DEF Enters
<1>3. agent'[p] = b /\ \A q \in AgentProcs : q # p => agent'[q] = agent[q]
  BY <1>1 DEF Enters, TypeOK
<1>4. /\ \A s \in Slots : s # slot[p] => book'[s] = book[s]
      /\ \A a \in Atn : a # slot[p] => broker'[a] = broker[a]
  BY DEF Enters
<1>5. ASSUME NEW q \in AgentProcs
      PROVE  /\ agent'[q].pc \notin Dead /\ Owns(q)' => agent'[q].pc = "form" \/ agent'[q].registered
             /\ agent'[q].pc = "form" \/ agent'[q].registered =>
                  /\ Owns(q)'
                  /\ slot[q] \in Atn => broker'[slot[q]] # None /\ broker'[slot[q]].owner = q
             /\ agent'[q].plan # 0 \/ agent'[q].arenas # "none" => agent'[q].registered
  <2>1. CASE q = p
    BY <1>2, <1>3, <2>1 DEF Owns
  <2>2. CASE q # p /\ slot[q] = slot[p]
    <3>1. agent'[q] = agent[q] /\ agent[q].pc # "form" /\ agent[q].registered = FALSE
      BY <1>3, <2>2, NobodyElse
    <3>2. ~Owns(q)'
      BY <1>2, <2>2 DEF Owns
    <3>3. agent[q].plan = 0 /\ agent[q].arenas = "none"
      BY <1>1, <3>1 DEF OwnInv
    <3>4. agent'[q].pc # "form" /\ agent'[q].registered = FALSE
      BY <3>1
    <3>5. agent'[q].plan = 0 /\ agent'[q].arenas = "none"
      BY <3>1, <3>3
    <3> QED
      BY <3>2, <3>4, <3>5
  <2>3. CASE q # p /\ slot[q] # slot[p]
    <3>1. agent'[q] = agent[q] /\ slot[q] \in Slots
      BY <1>1, <1>3, <2>3, StructureTypes
    <3>2. book'[slot[q]] = book[slot[q]] /\ (slot[q] \in Atn => broker'[slot[q]] = broker[slot[q]])
      BY <1>4, <2>3, <3>1
    <3>3. Owns(q)' <=> Owns(q)
      BY <3>2 DEF Owns
    <3> QED
      BY <1>1, <3>1, <3>2, <3>3 DEF OwnInv
  <2> QED
    BY <2>1, <2>2, <2>3
<1>6. \A q \in InstanceProcs : Owns(q)' <=> Owns(q)
  <2>1. \A q \in InstanceProcs : slot[q] \in Slots /\ slot[q] # slot[p]
    BY <1>1, StructureTypes
  <2> QED
    BY <1>4, <2>1 DEF Owns
<1> QED
  BY <1>1, <1>2, <1>5, <1>6 DEF OwnInv

(* The broker part survives it: its publications start empty.              *)
LEMMA EntersBroker ==
  ASSUME Inv, NEW p \in AgentProcs, NEW b, Enters(p, b), MembersKept
  PROVE  BrokerInv'
<1>1. TypeOK /\ BrokerInv
  BY DEF Inv, Structure
<1>2. /\ b.pc = "form" /\ b.arenas = "none" /\ UNCHANGED <<alive, inst>>
      /\ slot[p] \in Atn => /\ broker'[slot[p]] # None /\ broker'[slot[p]].owner = p
                            /\ broker'[slot[p]].published = {}
      /\ fabric'.id = 0 /\ (forming' # None => ~forming'.current)
  BY DEF Enters
<1>3. agent'[p] = b /\ \A q \in AgentProcs : q # p => agent'[q] = agent[q]
  BY <1>1 DEF Enters, TypeOK
<1>4. /\ \A s \in Slots : s # slot[p] => book'[s] = book[s]
      /\ \A a \in Atn : a # slot[p] => broker'[a] = broker[a]
  BY DEF Enters
<1>5. Atn \subseteq Slots /\ Atn \subseteq Pes /\ slot[p] \notin Ranks
  BY <1>1, StructureTypes
<1>6. ASSUME NEW a \in Atn
      PROVE  /\ book'[a] # None => broker'[a] # None
             /\ broker'[a] # None => MemberNext(a, broker'[a].owner)
  <2>1. CASE a = slot[p]
    <3>1. broker'[a] # None /\ broker'[a].owner = p
      BY <1>2, <2>1
    <3>2. MemberNext(slot[p], p)
      BY <1>2, <1>3, <1>5 DEF MemberNext
    <3> QED
      BY <2>1, <3>1, <3>2
  <2>2. CASE a # slot[p]
    <3>1. broker'[a] = broker[a] /\ book'[a] = book[a]
      BY <1>4, <1>5, <2>2
    <3>2. /\ book[a] # None => broker[a] # None
          /\ broker[a] # None => Member(a, broker[a].owner) /\ broker[a].owner \in Procs
      BY <1>1, StructureTypes DEF BrokerInv
    <3> QED
      BY <3>1, <3>2 DEF MembersKept
  <2> QED
    BY <2>1, <2>2
<1>7. ASSUME NEW q \in AgentProcs \cap alive, slot[q] \in Atn, broker'[slot[q]] # None,
             broker'[slot[q]].owner = q
      PROVE  /\ broker'[slot[q]].published # {} => agent'[q].arenas # "none"
             /\ agent'[q].arenas = "drained" => ~broker'[slot[q]].accepting
  <2>1. CASE q = p
    BY <1>2, <1>3, <1>7, <2>1
  <2>2. CASE q # p
    <3>1. slot[q] # slot[p]
      BY <1>2, <1>7, <2>2
    <3>2. broker'[slot[q]] = broker[slot[q]] /\ agent'[q] = agent[q]
      BY <1>3, <1>4, <1>7, <2>2, <3>1
    <3> QED
      BY <1>1, <1>7, <3>2 DEF BrokerInv
  <2> QED
    BY <2>1, <2>2
<1> QED
  BY <1>2, <1>6, <1>7 DEF BrokerInv, MemberNext, Member

(* register_agent, in each of its outcomes.                                *)
LEMMA RegisterAgentStep ==
  ASSUME Inv, NEW p \in AgentProcs, RegisterAgent(p), UNCHANGED inst
  PROVE  Inv'
<1>1. CASE RegisterOutcome(p) # "ok"
  BY <1>1, RegisterRefused
<1>2. CASE RegisterOutcome(p) = "ok"
  <2> DEFINE b == [agent[p] EXCEPT !.pc = "form"]
  <2>1. Enters(p, b) /\ Progress(fabric', agent', late, alive, generations)
    BY <1>2, RegisterEnters
  <2> HIDE DEF b
  <2>2. agent[p].pc = "loop" /\ ~agent[p].registered
    BY DEF RegisterAgent, Running, InLoop
  <2>3. p \in alive /\ startups[slot[p]] = p
    BY <2>2, Newcomer
  <2>4. ProcInv' /\ AdmitInv' /\ MembersKept /\ RosterInv' /\ CloseInv'
    BY <2>1, <2>3, EntersBooks
  <2>5. OwnInv' /\ BrokerInv'
    BY <2>1, <2>4, EntersOwns, EntersBroker
  <2>6. /\ UNCHANGED <<alive, startups, leases, generations, sealed, closed, inst, late>>
        /\ WorldStays /\ fabric'.id = 0
    BY <2>1 DEF Enters
  <2>7. LeaseInv'
    <3>1. \A q \in InstanceProcs : ~Attached(q)
      BY <2>6, NobodyAttached
    <3>2. \A q \in InstanceProcs : ~Attached(q)'
      BY <2>6, <3>1 DEF Attached
    <3> QED
      BY <3>2 DEF LeaseInv
  <2>8. TypeOK'
    <3>1. TypeOK
      BY DEF Inv
    <3>2. /\ fabric' \in Generations \cup {NoGeneration} /\ forming' \in Rosters \cup {None}
          /\ book' \in [Slots -> Registrations \cup {None}]
          /\ broker' \in [Atn -> Publications \cup {None}]
      BY <2>1 DEF Enters, FormingStays
    <3>3. agent' \in [AgentProcs -> AgentRecord]
      BY <2>1, <3>1 DEF Enters, TypeOK
    <3> QED
      BY <2>6, <3>1, <3>2, <3>3 DEF TypeOK
  <2>9. Progress(fabric', agent', late', alive', generations')
    BY <2>1, <2>6
  <2> QED
    BY <2>4, <2>5, <2>7, <2>8, <2>9 DEF Inv, Structure
<1> QED
  BY <1>1, <1>2

-----------------------------------------------------------------------------
(* The first state: nothing runs and the daemon knows nobody.              *)
LEMMA InitInv ==
  ASSUME Init
  PROVE  Inv
<1>1. /\ alive = {} /\ generations = 0 /\ sealed = FALSE /\ closed = FALSE
      /\ startups = [s \in Pes |-> None] /\ book = [s \in Slots |-> None]
      /\ broker = [a \in Atn |-> None] /\ leases = [r \in Ranks |-> None]
      /\ fabric = NoGeneration /\ forming = None /\ late = {}
      /\ agent = [p \in AgentProcs |-> Idle] /\ inst = [p \in InstanceProcs |-> NoInstance]
  BY DEF Init, ControlInit, AgentsInit, InstancesInit
<1>2. "off" \in AgentPcs /\ "off" \in InstancePcs /\ "off" \in Dead
  BY DEF AgentPcs, InstancePcs, Dead
<1>3. Idle = Gone("off")
  <2>1. Idle.pc = "off"
    BY DEF Idle
  <2>2. Idle = [Idle EXCEPT !.pc = Idle.pc]
    BY DEF Idle
  <2> QED
    BY <2>1, <2>2 DEF Gone
<1>4. /\ Idle \in AgentRecord /\ Idle.pc = "off" /\ Idle.plan = 0 /\ Idle.report = None
      /\ Idle.sent = None /\ Idle.inbox = None /\ Idle.arenas = "none" /\ Idle.native = "empty"
      /\ Idle.registered = FALSE
  BY <1>2, <1>3, GoneFields
<1>5. NoInstance.pc = "off" /\ NoInstance.arena = None /\ NoInstance.plan = 0
  BY SMT DEF NoInstance
<1>6. NoInstance.registered = FALSE
  BY DEF NoInstance
<1>7. NoInstance \in InstanceRecord
  BY <1>2 DEF InstanceRecord, NoInstance
<1>8. NoInstance = [NoInstance EXCEPT !.pc = NoInstance.pc]
  BY DEF NoInstance
<1>9. NoGeneration.id = 0
  BY SMT DEF NoGeneration
<1>10. /\ \A p \in AgentProcs : agent[p] = Idle
       /\ \A p \in InstanceProcs : inst[p] = NoInstance
       /\ \A s \in Pes : startups[s] = None
       /\ \A s \in Slots : book[s] = None
       /\ \A a \in Atn : broker[a] = None
  BY <1>1
<1>11. TypeOK
  <2>1. alive \subseteq Procs /\ sealed \in BOOLEAN /\ closed \in BOOLEAN
    BY <1>1
  <2>0. generations \in Nat
    BY <1>1, SMT
  <2>2. /\ startups \in [Pes -> Procs \cup {None}] /\ leases \in [Ranks -> Procs \cup {None}]
        /\ book \in [Slots -> Registrations \cup {None}]
        /\ broker \in [Atn -> Publications \cup {None}]
    BY <1>1
  <2>3. agent \in [AgentProcs -> AgentRecord] /\ inst \in [InstanceProcs -> InstanceRecord]
    BY <1>1, <1>4, <1>7
  <2>4. /\ fabric \in Generations \cup {NoGeneration} /\ forming \in Rosters \cup {None}
        /\ late \subseteq Messages
    BY <1>1
  <2> QED
    BY <2>0, <2>1, <2>2, <2>3, <2>4 DEF TypeOK
<1>12. ProcInv
  <2>1. ASSUME NEW p \in AgentProcs
        PROVE  /\ p \notin alive /\ agent[p].pc \in Dead /\ agent[p] = Gone(agent[p].pc)
    BY <1>1, <1>2, <1>3, <1>4, <1>10
  <2>2. ASSUME NEW p \in InstanceProcs
        PROVE  /\ p \notin alive /\ inst[p].pc \in Dead
               /\ inst[p] = [NoInstance EXCEPT !.pc = inst[p].pc]
    BY <1>1, <1>2, <1>5, <1>8, <1>10
  <2> QED
    BY <2>1, <2>2 DEF ProcInv
<1>13. AdmitInv
  BY <1>2, <1>4, <1>10 DEF AdmitInv
<1>14. RosterInv
  BY <1>1, <1>9, <1>10 DEF RosterInv
<1>15. OwnInv
  <2>1. \A p \in AgentProcs : agent[p].pc \in Dead /\ agent[p].pc # "form" /\ ~agent[p].registered
    BY <1>2, <1>4, <1>10
  <2>2. \A p \in AgentProcs : agent[p].plan = 0 /\ agent[p].arenas = "none"
    BY <1>4, <1>10
  <2>3. \A p \in InstanceProcs : inst[p].pc = "off" /\ ~inst[p].registered /\ inst[p].arena = None
    BY <1>5, <1>6, <1>10
  <2> QED
    BY <2>1, <2>2, <2>3 DEF OwnInv
<1>16. CloseInv
  BY <1>1 DEF CloseInv
<1>17. BrokerInv
  <2>1. \A a \in Atn : book[a] = None /\ broker[a] = None
    BY <1>10, PlacesAssumption DEF Slots
  <2> QED
    BY <1>1, <1>9, <2>1 DEF BrokerInv
<1>18. LeaseInv
  BY <1>5, <1>10 DEF LeaseInv, Attached
<1>19. Progress(fabric, agent, late, alive, generations)
  <2>1. ASSUME NEW p \in AgentProcs
        PROVE  AgentInv(fabric, p, agent[p], generations)
    <3>1. RecordInv(Idle)
      BY <1>4 DEF RecordInv
    <3>2. Idle.plan <= 0
      BY <1>4, SMT
    <3> QED
      BY <1>1, <1>4, <1>10, <3>1, <3>2 DEF AgentInv
  <2>2. fabric.id = 0 /\ fabric.id <= generations
    BY <1>1, <1>9, SMT
  <2> QED
    BY <1>1, <2>1, <2>2 DEF Progress
<1> QED
  BY <1>11, <1>12, <1>13, <1>14, <1>15, <1>16, <1>17, <1>18, <1>19 DEF Inv, Structure

(* The steps of a live Agent's two threads.                                *)
LEMMA AgentStepInv ==
  ASSUME Inv, NEW p \in AgentProcs, AgentStep(p), UNCHANGED inst
  PROVE  Inv'
<1>1. CASE \/ StartAgent(p) \/ AdmitStartup(p) \/ RegisterAgent(p) \/ FormPlan(p) \/ AcquirePlan(p)
           \/ ReportDelivered(p)
  BY <1>1, StartAgentStep, AdmitStartupStep, RegisterAgentStep, FormPlanStep, AcquirePlanStep,
     ReportDeliveredStep
<1>2. CASE \/ PrepareFfn(p) \/ PrepareAtn(p) \/ Joining(p) \/ Joined(p) \/ PrepareExecution(p)
           \/ Activate(p)
  BY <1>2, PrepareFfnStep, PrepareAtnStep, JoiningStep, JoinedStep, PrepareExecutionStep, ActivateStep
<1>3. CASE \/ QuiesceAtn(p) \/ QuiesceFfn(p) \/ DrainAsync(p) \/ Drained(p) \/ FinalizeBegin(p)
           \/ FinalizeEnd(p)
  BY <1>3, QuiesceAtnStep, QuiesceFfnStep, DrainAsyncStep, DrainedStep, FinalizeBeginStep,
     FinalizeEndStep
<1>4. CASE AbortObserved(p) \/ StoppedNormally(p) \/ StoppedFailed(p) \/ ReportInvocationFailure(p)
  BY <1>4, AbortObservedStep, StoppedNormallyStep, StoppedFailedStep, InvocationReportStep
<1>5. CASE BeginShutdown(p) \/ AskQuiesce(p) \/ LeavePreJoin(p) \/ ReleaseArenas(p) \/ ReleaseRole(p)
  BY <1>5, BeginShutdownStep, AskQuiesceStep, LeavePreJoinStep, ReleaseArenasStep, ReleaseRoleStep
<1>6. CASE TakeSnapshot(p) \/ Heartbeat(p)
  BY <1>6, TakeSnapshotStep, HeartbeatStep
<1> QED
  BY <1>1, <1>2, <1>3, <1>4, <1>5, <1>6 DEF AgentStep, MainStep

(* The steps of an Instance rank.                                          *)
LEMMA InstanceStepInv ==
  ASSUME Inv, NEW p \in InstanceProcs, InstanceStep(p), UNCHANGED agentVars
  PROVE  Inv'
<1>1. CASE StartInstance(p) \/ RegisterInstance(p) \/ FormPlanForInstance(p) \/ WaitForExecutable(p)
  BY <1>1, StartInstanceStep, RegisterInstanceStep, FormPlanForInstanceStep, WaitForExecutableStep
<1>2. CASE AcquireArena(p) \/ AcquireFails(p) \/ AttachArena(p) \/ PublishInitialized(p)
  BY <1>2, AcquireArenaStep, AcquireFailsStep, AttachArenaStep, PublishInitializedStep
<1>3. CASE WaitForReady(p) \/ DetachArena(p) \/ Deregister(p) \/ InstanceBeats(p) \/ KillFailed(p)
  BY <1>3, WaitForReadyStep, DetachArenaStep, DeregisterStep, InstanceBeatsStep, KillFailedStep
<1> QED
  BY <1>1, <1>2, <1>3 DEF InstanceStep, WorkerStep

(* What the operator does.                                                 *)
LEMMA OperatorInv ==
  ASSUME Inv, Operator
  PROVE  Inv'
<1>1. CASE begin_close /\ UNCHANGED <<agentVars, inst>>
  <2>1. /\ UNCHANGED <<agent, inst, alive, startups, broker, leases, forming, generations>>
        /\ UNCHANGED <<fabric, late, closed, book>> /\ sealed' = TRUE
    BY <1>1 DEF begin_close, agentVars
  <2> QED
    BY <2>1, SealStep
<1>2. ASSUME NEW p \in AgentProcs, SignalAgent(p), UNCHANGED <<agentVars, inst>>
      PROVE  Inv'
  <2>1. /\ UNCHANGED <<agent, inst, alive, startups, broker, leases, forming, generations>>
        /\ UNCHANGED <<fabric, late, closed, book>> /\ sealed' = sealed
    BY <1>2 DEF SignalAgent, Daemon, agentVars
  <2> QED
    BY <2>1, SealStep
<1>3. ASSUME NEW p \in InstanceProcs, EndService(p), UNCHANGED agentVars
      PROVE  Inv'
  BY <1>3, EndServiceStep
<1> QED
  BY <1>1, <1>2, <1>3 DEF Operator

(* The faults.                                                             *)
LEMMA FaultsInv ==
  ASSUME Inv, Faults
  PROVE  Inv'
<1>1. ASSUME NEW p \in AgentProcs, AgentFault(p), UNCHANGED inst
      PROVE  Inv'
  BY <1>1, ReportAnswerLostStep, ReportLostStep, ReportDelayedStep, CrashAgentStep,
     NativeFailureStep DEF AgentFault
<1>2. ASSUME NEW p \in InstanceProcs, InstanceFault(p), UNCHANGED agentVars
      PROVE  Inv'
  BY <1>2, KillFailedStep, DetachFailsStep DEF InstanceFault
<1>3. CASE InvocationFails /\ UNCHANGED inst
  <2>1. /\ UNCHANGED <<agent, inst, alive, startups, broker, leases, forming, generations>>
        /\ UNCHANGED <<fabric, late, closed, book>> /\ sealed' = sealed
    BY <1>3 DEF InvocationFails, Daemon, Local1
  <2> QED
    BY <2>1, SealStep
<1>4. CASE PhaseTimeout
  <2>1. watchdog(TRUE) /\ UNCHANGED <<agentVars, inst>>
    BY <1>4 DEF PhaseTimeout
  <2> QED
    BY <2>1, WatchdogStep
<1>5. ASSUME NEW s \in Slots, HeartbeatStale(s)
      PROVE  Inv'
  BY <1>5, HeartbeatStaleStep
<1> QED
  BY <1>1, <1>2, <1>3, <1>4, <1>5 DEF Faults

(* Every step keeps the invariant.                                         *)
LEMMA NextInv ==
  ASSUME Inv, [Next]_vars
  PROVE  Inv'
<1>1. ASSUME NEW p \in AgentProcs, AgentStep(p), UNCHANGED inst
      PROVE  Inv'
  BY <1>1, AgentStepInv
<1>2. ASSUME NEW p \in InstanceProcs, InstanceStep(p), UNCHANGED agentVars
      PROVE  Inv'
  BY <1>2, InstanceStepInv
<1>3. CASE LateReport /\ UNCHANGED inst
  BY <1>3, LateReportStep
<1>4. CASE ProbeMembers \/ CommitPlan
  BY <1>4, ProbeMembersStep, CommitPlanStep
<1>5. CASE Watchdog
  <2>1. watchdog(FALSE) /\ UNCHANGED <<agentVars, inst>>
    BY <1>5 DEF Watchdog
  <2> QED
    BY <2>1, WatchdogStep
<1>6. CASE Close \/ Operator \/ Faults
  BY <1>6, CloseStep, OperatorInv, FaultsInv
<1>7. CASE UNCHANGED vars
  <2>1. /\ UNCHANGED <<agent, inst, alive, startups, broker, leases, forming, generations>>
        /\ UNCHANGED <<fabric, late, closed, book>> /\ sealed' = sealed
    BY <1>7 DEF vars, daemonVars, agentVars
  <2> QED
    BY <2>1, SealStep
<1> QED
  BY <1>1, <1>2, <1>3, <1>4, <1>5, <1>6, <1>7 DEF Next

-----------------------------------------------------------------------------
(* What the invariant says of the properties.                              *)

(* What a report the daemon holds says of the Agent that made it.          *)
LEMMA ReportsBacked ==
  ASSUME Inv, fabric.id # 0, NEW pe \in Pes, fabric.agents[pe] \in alive,
         fabric.participants[pe] # None
  PROVE  Backed(fabric, fabric.agents[pe], agent[fabric.agents[pe]], fabric.participants[pe].phase)
<1> DEFINE q == fabric.agents[pe]
           ph == fabric.participants[pe].phase
<1>1. TypeOK /\ Progress(fabric, agent, late, alive, generations)
  BY DEF Inv
<1>2. q \in AgentProcs /\ slot[q] = pe
  BY <1>1 DEF Progress, Placed
<1>3. fabric \in Generations
  BY <1>1, StructureTypes
<1>4. fabric.participants[pe] \in Reports
  BY <1>3, SMT DEF Generations, MaybeReport
<1>5. ph \in ParticipantPhases
  BY <1>4, ReportFields
<1>6. Claims(fabric, agent[q], late, q, ph)
  BY <1>2 DEF Claims
<1> QED
  BY <1>1, <1>2, <1>5, <1>6 DEF Progress

(***************************************************************************)
(* The retirement is ordered: a lender has not left, reports are backed,   *)
(* and only a drained world is seen finalizing.                            *)
(***************************************************************************)
LEMMA OrderedByInv ==
  ASSUME Inv
  PROVE  RetirementOrdered
<1>1. TypeOK /\ LeaseInv /\ Progress(fabric, agent, late, alive, generations)
  BY DEF Inv, Structure
<1>2. ASSUME NEW p \in InstanceProcs, inst[p].arena # None
      PROVE  agent[inst[p].arena].pc # "exited"
  <2>1. Attached(p)
    BY <1>2 DEF Attached
  <2>2. inst[p].arena = leases[slot[p]] /\ agent[leases[slot[p]]].pc # "exited"
    BY <1>1, <1>2, <2>1 DEF LeaseInv
  <2> QED
    BY <2>2
<1>3. ASSUME fabric.id # 0, fabric.phase \in {"draining", "finalizing"}, NEW a \in Atn,
             fabric.agents[a] \in alive
      PROVE  agent[fabric.agents[a]].arenas = "drained"
  <2>1. AllPast(fabric) /\ Placed(fabric)
    BY <1>1, <1>3 DEF Progress, GenerationInv
  <2>2. a \in Pes
    BY <1>1, StructureTypes
  <2>3. fabric.participants[a] # None /\ fabric.participants[a].phase \in PostQuiesce
    BY <2>1, <2>2 DEF AllPast
  <2>4. slot[fabric.agents[a]] = a
    BY <2>1, <2>2 DEF Placed
  <2>5. Backed(fabric, fabric.agents[a], agent[fabric.agents[a]], fabric.participants[a].phase)
    BY <1>3, <2>2, <2>3, ReportsBacked
  <2> QED
    BY <2>3, <2>4, <2>5 DEF Backed
<1>4. ASSUME NEW p \in AgentProcs, agent[p].pc = "finalize", NEW pe \in Pes,
             fabric.agents[pe] \in alive
      PROVE  agent[fabric.agents[pe]].native \in {"drained", "finalizing", "closed"}
  <2>1. AgentInv(fabric, p, agent[p], generations)
    BY <1>1 DEF Progress
  <2>2. Reported(agent[p]) = "drained"
    BY <1>4, <2>1 DEF AgentInv, RecordInv
  <2>3. agent[p].report # None
    BY <2>2 DEF Reported
  <2>4. fabric.id # 0 /\ fabric.id = agent[p].plan
    BY <2>1, <2>3 DEF AgentInv
  <2>5. SeesFinalizing(fabric, agent[p])
    BY <1>4, <2>4 DEF SeesFinalizing
  <2> QED
    BY <1>1, <1>4, <2>4, <2>5 DEF Progress, GenerationInv, Done
<1> QED
  BY <1>2, <1>3, <1>4 DEF RetirementOrdered

(***************************************************************************)
(* An Agent with a native world has reported to the generation that is     *)
(* retained; and an admitted Agent owns its place.                         *)
(***************************************************************************)
LEMMA OneWorldByInv ==
  ASSUME Inv
  PROVE  OneWorld
<1>1. ProcInv /\ AdmitInv /\ Progress(fabric, agent, late, alive, generations)
  BY DEF Inv, Structure
<1>2. ASSUME NEW p \in AgentProcs, agent[p].plan # 0, agent[p].native # "empty"
      PROVE  fabric.id = agent[p].plan
  <2>1. AgentInv(fabric, p, agent[p], generations)
    BY <1>1 DEF Progress
  <2>2. <<Reported(agent[p]), agent[p].native>> \in NativeAt
    BY <1>2, <2>1 DEF AgentInv, RecordInv
  <2>3. Reported(agent[p]) # "none"
    BY <1>2, <2>2, NativeTable
  <2>4. agent[p].report # None
    BY <2>3 DEF Reported
  <2> QED
    BY <2>1, <2>4 DEF AgentInv
<1>3. ASSUME NEW p \in AgentProcs \cap alive, agent[p].pc # "admit"
      PROVE  startups[slot[p]] = p
  BY <1>1, <1>3 DEF ProcInv, AdmitInv
<1> QED
  BY <1>2, <1>3 DEF OneWorld

(***************************************************************************)
(* After close the startups and the book name nobody who runs, and an      *)
(* attached rank is in the book.                                           *)
(***************************************************************************)
LEMMA ClosedByInv ==
  ASSUME Inv
  PROVE  ClosedIsEmpty
<1>1. TypeOK /\ ProcInv /\ AdmitInv /\ OwnInv /\ CloseInv
  BY DEF Inv, Structure
<1>2. ASSUME closed, NEW p \in AgentProcs \cap alive, agent[p].pc # "admit"
      PROVE  FALSE
  <2>1. startups[slot[p]] = p
    BY <1>1, <1>2 DEF ProcInv, AdmitInv
  <2>2. slot[p] \in Pes
    BY DEF AgentProcs
  <2> QED
    BY <1>1, <1>2, <2>1, <2>2 DEF CloseInv
<1>3. ASSUME closed, NEW p \in InstanceProcs \cap alive, inst[p].arena # None
      PROVE  FALSE
  <2>1. Owns(p)
    BY <1>1, <1>3 DEF OwnInv
  <2>2. slot[p] \in Slots
    BY DEF InstanceProcs, Slots
  <2> QED
    BY <1>1, <1>3, <2>1, <2>2 DEF CloseInv, Owns
<1> QED
  BY <1>2, <1>3 DEF ClosedIsEmpty

(* The generation's part of Progress says it.                              *)
LEMMA ActiveByInv ==
  ASSUME Inv
  PROVE  ExecutableIsActive
  BY DEF Inv, Progress, GenerationInv, ExecutableIsActive

(***************************************************************************)
(* The invariant holds in every reachable state of the deployment,         *)
(* whatever the numbers of devices, ranks, processes, generations and      *)
(* faults.                                                                 *)
(***************************************************************************)
THEOREM InvSafe == Spec => []Inv
<1>1. Init => Inv
  BY InitInv
<1>2. Inv /\ [Next]_vars => Inv'
  BY NextInv
<1> QED
  BY <1>1, <1>2, PTL DEF Spec

(***************************************************************************)
(* A generation is retired in order (RetirementOrdered): no arena is       *)
(* destroyed under an attached rank, the Fabric drains only after every    *)
(* AtnAgent has, and nobody enters the collective finalization beside      *)
(* outstanding device work.                                                *)
(***************************************************************************)
THEOREM RetirementSafe == Spec => []RetirementOrdered
<1>1. Inv => RetirementOrdered
  BY OrderedByInv
<1> QED
  BY <1>1, InvSafe, PTL

(***************************************************************************)
(* EXECUTABLE is published only over active participants                   *)
(* (ExecutableIsActive).                                                   *)
(***************************************************************************)
THEOREM ExecutableSafe == Spec => []ExecutableIsActive
<1>1. Inv => ExecutableIsActive
  BY ActiveByInv
<1> QED
  BY <1>1, InvSafe, PTL

(***************************************************************************)
(* A generation is retained while an Agent of its world runs, and a device *)
(* has one owner (OneWorld).                                               *)
(***************************************************************************)
THEOREM OneWorldSafe == Spec => []OneWorld
<1>1. Inv => OneWorld
  BY OneWorldByInv
<1> QED
  BY <1>1, InvSafe, PTL

(***************************************************************************)
(* close returns only when no admitted Agent runs and no rank is attached  *)
(* (ClosedIsEmpty).                                                        *)
(***************************************************************************)
THEOREM ClosedSafe == Spec => []ClosedIsEmpty
<1>1. Inv => ClosedIsEmpty
  BY ClosedByInv
<1> QED
  BY <1>1, InvSafe, PTL
=============================================================================
