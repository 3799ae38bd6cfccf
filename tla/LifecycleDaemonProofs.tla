------------------------ MODULE LifecycleDaemonProofs -----------------------
(***************************************************************************)
(* The steps of the daemon's own threads, of the Instance ranks and of     *)
(* plan formation keep the invariant of LifecycleInvariant.                *)
(***************************************************************************)
EXTENDS LifecycleInvariant

USE ZenonT(40)

-----------------------------------------------------------------------------
(* The steps of the daemon.                                                *)

(* What a process that is not alive has not reported.                      *)
LEMMA ReportersLive ==
  ASSUME Inv
  PROVE  \A p \in AgentProcs : agent[p].report # None => p \in alive
<1> SUFFICES ASSUME NEW p \in AgentProcs, agent[p].report # None
             PROVE  p \in alive
  OBVIOUS
<1>1. Live(agent[p])
  BY NothingLeft
<1> QED
  BY <1>1, LiveAgent

(* A generation that was moved on, or stopped, may be retired at once.     *)
LEMMA Retired ==
  ASSUME Inv, fabric \in Generations, NEW d, Moves(fabric, d),
         NEW f, Moves(d, f) \/ Halts(d, f, alive), fabric' = retire_terminal_generation(f)
  PROVE  /\ fabric' \in Generations \cup {NoGeneration} /\ WorldStays
         /\ Progress(fabric', agent, late, alive, generations)
<1>1. SameWorld(fabric, d) /\ SameWorld(d, f) /\ d \in Generations /\ f \in Generations
  BY DEF Moves, Halts, SameWorld
<1>2. Progress(d, agent, late, alive, generations)
  BY ProgressMoves DEF Inv
<1>3. Progress(f, agent, late, alive, generations)
  BY <1>1, <1>2, ProgressMoves
<1>4. f.phase \in Early => fabric.phase \in Early
  BY DEF Moves, Halts, Onward, Early, StartPhases
<1>5. SameWorld(fabric, f)
  BY <1>1 DEF SameWorld
<1>6. CASE fabric' = f
  BY <1>1, <1>3, <1>4, <1>5, <1>6 DEF WorldStays
<1>7. CASE fabric' # f
  <2>1. fabric' = NoGeneration /\ Owners(f) \cap alive = {}
    BY <1>7 DEF retire_terminal_generation
  <2>2. Owners(fabric) = Owners(f)
    BY <1>5 DEF Owners, SameWorld
  <2>3. generations \in Nat
    BY DEF Inv, TypeOK
  <2>4. Progress(NoGeneration, agent, late, alive, generations)
    BY <1>1, <1>3, <2>1, <2>3, ReportersLive, ProgressRetires
  <2> QED
    BY <2>1, <2>2, <2>4 DEF WorldStays
<1> QED
  BY <1>6, <1>7

(* The stages of the watchdog's pass.                                      *)
LEMMA WatchMoves ==
  ASSUME NEW g \in Generations
  PROVE  /\ Moves(g, WatchAgents(g)) /\ Moves(g, WatchInstances(g))
         /\ \A expired \in BOOLEAN : Moves(g, WatchDeadline(g, expired))
         /\ Moves(g, WatchAbort(g)) \/ Halts(g, WatchAbort(g), alive)
<1>1. Moves(g, g)
  BY MovesNot
<1>2. /\ Moves(g, abort(record_owner_failure(g))) /\ Moves(g, abort(record_control_failure(g)))
      /\ Moves(g, quiesce(record_owner_failure(g)))
  BY FailureMoves
<1>3. Moves(g, WatchAgents(g))
  BY <1>1, <1>2 DEF WatchAgents
<1>4. Moves(g, WatchInstances(g))
  BY <1>1, <1>2 DEF WatchInstances
<1>5. \A expired \in BOOLEAN : Moves(g, WatchDeadline(g, expired))
  BY <1>1, <1>2 DEF WatchDeadline
<1>6. Moves(g, WatchAbort(g)) \/ Halts(g, WatchAbort(g), alive)
  <2>1. CASE WatchAbort(g) = g
    BY <1>1, <2>1
  <2>2. CASE WatchAbort(g) # g
    <3>1. /\ WatchAbort(g) = transition(g, "stopped") /\ g.phase = "aborting"
          /\ \A r \in Ranks : g.instances[r] \notin alive
      BY <2>2 DEF WatchAbort
    <3>2. "stopped" \in GenerationPhases
      BY DEF GenerationPhases, RetiringPhases
    <3>3. /\ SameWorld(g, WatchAbort(g)) /\ WatchAbort(g).participants = g.participants
          /\ WatchAbort(g).phase \in {g.phase, "stopped"}
      BY <3>1, <3>2, TransitionFields
    <3> QED
      BY <3>1, <3>3 DEF Moves, Halts, Onward
  <2> QED
    BY <2>1, <2>2
<1> QED
  BY <1>3, <1>4, <1>5, <1>6

(***************************************************************************)
(* The watchdog's pass (watchdog), with or without an expired deadline,    *)
(* keeps the invariant.                                                    *)
(***************************************************************************)
LEMMA WatchdogStep ==
  ASSUME Inv, NEW expired \in BOOLEAN, watchdog(expired), UNCHANGED <<agentVars, inst>>
  PROVE  Inv'
<1>1. /\ UNCHANGED <<agent, inst, alive, startups, broker, leases, forming, generations>>
      /\ UNCHANGED <<late, sealed, closed>>
      /\ book' = [s \in Slots |-> IF book[s] = None THEN None
                                  ELSE [book[s] EXCEPT !.up = @ /\ book[s].proc \in alive]]
  BY DEF watchdog, agentVars
<1>2. book' \in [Slots -> Registrations \cup {None}] /\ SameBook
  <2> DEFINE u(s) == [book[s] EXCEPT !.up = @ /\ book[s].proc \in alive]
  <2>1. ASSUME NEW s \in Slots, book[s] # None
        PROVE  u(s) \in Registrations /\ u(s) # None /\ u(s).proc = book[s].proc
    <3>1. book[s] \in Registrations
      BY <2>1, StructureTypes DEF Inv
    <3>2. (book[s].up /\ book[s].proc \in alive) \in BOOLEAN
      OBVIOUS
    <3>3. u(s) \in Registrations
      BY <3>1, <3>2 DEF Registrations
    <3>4. u(s).proc = book[s].proc
      BY <3>1 DEF Registrations
    <3> QED
      BY <3>3, <3>4, NoneAssumption
  <2>2. book' = [s \in Slots |-> IF book[s] = None THEN None ELSE u(s)]
    BY <1>1
  <2> HIDE DEF u
  <2>3. \A s \in Slots : book'[s] = IF book[s] = None THEN None ELSE u(s)
    BY <2>2
  <2>4. SameBook
    BY <2>1, <2>3 DEF SameBook
  <2>5. \A s \in Slots : (IF book[s] = None THEN None ELSE u(s)) \in Registrations \cup {None}
    BY <2>1
  <2> QED
    BY <2>2, <2>4, <2>5
<1>3. /\ fabric' \in Generations \cup {NoGeneration} /\ WorldStays
      /\ Progress(fabric', agent, late, alive, generations)
  <2>1. CASE fabric.id = 0
    <3>1. fabric' = fabric
      BY <2>1 DEF watchdog
    <3> QED
      BY <3>1 DEF Inv, TypeOK, WorldStays
  <2>2. CASE fabric.id # 0
    <3> DEFINE a == WatchAgents(fabric)
               i == WatchInstances(a)
               d == WatchDeadline(i, expired)
               f == WatchAbort(d)
    <3>1. fabric \in Generations
      BY <2>2, StructureTypes DEF Inv
    <3>2. fabric' = retire_terminal_generation(f)
      BY <2>2 DEF watchdog
    <3>3. Moves(fabric, a) /\ a \in Generations
      BY <3>1, WatchMoves DEF Moves, SameWorld
    <3> HIDE DEF a
    <3>4. Moves(a, i) /\ i \in Generations
      BY <3>3, WatchMoves DEF Moves, SameWorld
    <3> HIDE DEF i
    <3>5. Moves(i, d) /\ d \in Generations
      BY <3>4, WatchMoves DEF Moves, SameWorld
    <3> HIDE DEF d
    <3>6. Moves(d, f) \/ Halts(d, f, alive)
      BY <3>5, WatchMoves
    <3> HIDE DEF f
    <3>7. Moves(fabric, i)
      BY <3>1, <3>3, <3>4, MovesCompose
    <3>8. Moves(fabric, d)
      BY <3>1, <3>5, <3>7, MovesCompose
    <3> QED
      BY <3>1, <3>2, <3>6, <3>8, Retired
  <2> QED
    BY <2>1, <2>2
<1>4. CloseInv'
  BY <1>1, <1>2, CloseStays DEF Inv, Structure
<1>5. sealed' \in BOOLEAN /\ closed' \in BOOLEAN /\ late' \in SUBSET Messages
  BY <1>1 DEF Inv, TypeOK
<1>6. Progress(fabric', agent, late', alive, generations)
  BY <1>1, <1>3
<1> QED
  BY <1>1, <1>2, <1>3, <1>4, <1>5, <1>6, DaemonKeeps

(* Nothing of the invariant's variables but the book moves.                *)
LEMMA BookStep ==
  ASSUME Inv, UNCHANGED <<agent, inst, alive, startups, broker, leases, forming, generations>>,
         UNCHANGED <<fabric, late, closed>>, sealed' \in BOOLEAN, sealed => sealed',
         book' \in [Slots -> Registrations \cup {None}], SameBook
  PROVE  Inv'
<1>1. /\ fabric' \in Generations \cup {NoGeneration} /\ WorldStays /\ late' \in SUBSET Messages
      /\ closed' \in BOOLEAN /\ Progress(fabric', agent, late', alive, generations)
  BY DEF Inv, TypeOK, WorldStays
<1>2. CloseInv'
  BY DEF Inv, Structure, CloseInv, SameBook
<1> QED
  BY <1>1, <1>2, DaemonKeeps

(* A heartbeat that stays away only makes its registration stale.          *)
LEMMA HeartbeatStaleStep ==
  ASSUME Inv, NEW s \in Slots, HeartbeatStale(s)
  PROVE  Inv'
<1> DEFINE r == [book[s] EXCEPT !.fresh = FALSE]
<1>1. /\ UNCHANGED <<agent, inst, alive, startups, broker, leases, forming, generations>>
      /\ UNCHANGED <<fabric, late, sealed, closed>>
      /\ book[s] # None /\ book' = [book EXCEPT ![s] = r]
  BY DEF HeartbeatStale, agentVars
<1>2. book[s] \in Registrations /\ book \in [Slots -> Registrations \cup {None}]
  BY <1>1, StructureTypes DEF Inv, TypeOK
<1>3. r \in Registrations
  BY <1>2 DEF Registrations
<1>4. r.proc = book[s].proc /\ r # None
  BY <1>2, <1>3, NoneAssumption DEF Registrations
<1> HIDE DEF r
<1>5. book'[s] = r /\ \A t \in Slots : t # s => book'[t] = book[t]
  BY <1>1, <1>2
<1>6. book' \in [Slots -> Registrations \cup {None}] /\ SameBook
  BY <1>1, <1>2, <1>3, <1>4, <1>5 DEF SameBook
<1>7. sealed' \in BOOLEAN /\ (sealed => sealed')
  BY <1>1 DEF Inv, TypeOK
<1> QED
  BY <1>1, <1>6, <1>7, BookStep

(* begin_close, an operator's signal, a device failure, a stutter.         *)
LEMMA SealStep ==
  ASSUME Inv, UNCHANGED <<agent, inst, alive, startups, broker, leases, forming, generations>>,
         UNCHANGED <<fabric, late, closed, book>>, sealed' = sealed \/ sealed' = TRUE
  PROVE  Inv'
<1>1. book' \in [Slots -> Registrations \cup {None}] /\ SameBook /\ sealed' \in BOOLEAN
      /\ (sealed => sealed')
  BY DEF Inv, TypeOK, SameBook
<1> QED
  BY <1>1, BookStep

(* close: everybody the daemon knows is gone when it returns.              *)
LEMMA CloseStep ==
  ASSUME Inv, Close
  PROVE  Inv'
<1>1. /\ UNCHANGED <<agent, inst, alive, startups, broker, leases, forming, generations>>
      /\ UNCHANGED <<late, sealed, book>> /\ sealed
      /\ fabric' = IF fabric.id # 0 /\ InstanceOwners \cap alive = {} THEN quiesce(fabric) ELSE fabric
      /\ closed' = (KnownOwners \cap alive = {})
  BY DEF Close, close, agentVars
<1>2. /\ fabric' \in Generations \cup {NoGeneration} /\ WorldStays
      /\ Progress(fabric', agent, late, alive, generations)
  <2>1. CASE fabric' = fabric
    BY <2>1 DEF Inv, TypeOK, WorldStays
  <2>2. CASE fabric' # fabric
    <3>1. fabric \in Generations
      BY <1>1, <2>2, StructureTypes DEF Inv
    <3>2. Moves(fabric, fabric')
      BY <1>1, <2>2, <3>1, QuiesceMoves
    <3> QED
      BY <3>1, <3>2, MovesWorld
  <2> QED
    BY <2>1, <2>2
<1>3. book' \in [Slots -> Registrations \cup {None}] /\ SameBook /\ sealed' \in BOOLEAN
      /\ closed' \in BOOLEAN /\ late' \in SUBSET Messages
  BY <1>1 DEF Inv, TypeOK, SameBook
<1>4. CloseInv'
  <2> SUFFICES ASSUME closed'
               PROVE  /\ sealed' /\ \A s \in Pes : startups'[s] \notin alive'
                      /\ \A s \in Slots : book'[s] # None => book'[s].proc \notin alive'
    BY DEF CloseInv
  <2>1. KnownOwners \cap alive = {}
    BY <1>1
  <2>2. None \notin alive
    BY PlacesAssumption DEF Inv, TypeOK
  <2>3. \A s \in Pes : startups[s] \notin alive
    BY <2>1, <2>2 DEF KnownOwners
  <2>4. \A s \in Slots : book[s] # None => book[s].proc \notin alive
    BY <2>1 DEF KnownOwners
  <2> QED
    BY <1>1, <2>3, <2>4
<1>5. Progress(fabric', agent, late', alive, generations)
  BY <1>1, <1>2
<1> QED
  BY <1>1, <1>2, <1>3, <1>4, <1>5, DaemonKeeps

-----------------------------------------------------------------------------
(* The steps of the Instance ranks.                                        *)

(* j is a record with this pc, arena and registration.                     *)
Edited(j, x, r, v) == j \in InstanceRecord /\ j.pc = x /\ j.arena = r /\ j.registered = v

(* The edits of a rank's record that its steps make.                       *)
LEMMA InstanceEdits ==
  ASSUME NEW i \in InstanceRecord, NEW x \in InstancePcs, NEW f \in BOOLEAN
  PROVE  /\ Edited([i EXCEPT !.pc = x], x, i.arena, i.registered)
         /\ Edited([i EXCEPT !.failed = TRUE, !.pc = x], x, i.arena, i.registered)
         /\ Edited([i EXCEPT !.failed = f], i.pc, i.arena, i.registered)
         /\ Edited([i EXCEPT !.pc = x, !.registered = f], x, i.arena, f)
         /\ \A n \in Nat : Edited([i EXCEPT !.pc = x, !.plan = n], x, i.arena, i.registered)
         /\ \A r \in Procs \cup {None} :
              Edited([i EXCEPT !.pc = x, !.arena = r], x, r, i.registered)
<1>1. Edited([i EXCEPT !.pc = x], x, i.arena, i.registered)
  BY DEF Edited, InstanceRecord
<1>2. Edited([i EXCEPT !.failed = TRUE, !.pc = x], x, i.arena, i.registered)
  BY DEF Edited, InstanceRecord
<1>3. Edited([i EXCEPT !.failed = f], i.pc, i.arena, i.registered)
  BY DEF Edited, InstanceRecord
<1>4. Edited([i EXCEPT !.pc = x, !.registered = f], x, i.arena, f)
  BY DEF Edited, InstanceRecord
<1>5. \A n \in Nat : Edited([i EXCEPT !.pc = x, !.plan = n], x, i.arena, i.registered)
  BY DEF Edited, InstanceRecord
<1>6. \A r \in Procs \cup {None} :
              Edited([i EXCEPT !.pc = x, !.arena = r], x, r, i.registered)
  BY DEF Edited, InstanceRecord
<1> QED
  BY <1>1, <1>2, <1>3, <1>4, <1>5, <1>6

(* The types of a rank's fields.                                           *)
LEMMA InstanceFields ==
  ASSUME NEW i \in InstanceRecord
  PROVE  /\ i.pc \in InstancePcs /\ i.registered \in BOOLEAN /\ i.plan \in Nat
         /\ i.arena \in Procs \cup {None} /\ i.failed \in BOOLEAN
  BY SMT DEF InstanceRecord

(* The places of a rank's main thread, and its first record.               *)
LEMMA InstanceWords ==
  /\ {"off", "exited", "crashed", "register", "form", "wait", "acquire", "attach", "init", "ready",
      "serving", "detach", "deregister", "held"} \subseteq InstancePcs
  /\ NoInstance \in InstanceRecord
<1>1. {"off", "exited", "crashed", "register", "form", "wait", "acquire", "attach", "init", "ready",
       "serving", "detach", "deregister", "held"} \subseteq InstancePcs
  BY DEF InstancePcs, Dead
<1>2. 0 \in Nat
  OBVIOUS
<1>3. NoInstance \in InstanceRecord
  BY <1>1, <1>2 DEF NoInstance, InstanceRecord
<1> QED
  BY <1>1, <1>3

(* What the invariant says of a rank.                                      *)
LEMMA RankFacts ==
  ASSUME Inv, NEW p \in InstanceProcs
  PROVE  /\ inst[p] \in InstanceRecord /\ inst \in [InstanceProcs -> InstanceRecord]
         /\ p \in Procs /\ slot[p] \in Ranks /\ slot[p] \in Slots
         /\ inst[p].pc \in Waiting \/ inst[p].arena # None => inst[p].registered
         /\ inst[p].pc = "form" \/ inst[p].registered => Owns(p)
         /\ inst[p].pc = "deregister" => inst[p].arena = None
         /\ p \in alive <=> inst[p].pc \notin Dead
         /\ inst[p].pc = "attach" => inst[p].registered
<1>1. /\ inst[p] \in InstanceRecord /\ inst \in [InstanceProcs -> InstanceRecord]
      /\ p \in Procs /\ slot[p] \in Ranks /\ slot[p] \in Slots
  BY StructureTypes DEF Inv, TypeOK
<1>2. /\ inst[p].pc \in Waiting \/ inst[p].arena # None => inst[p].registered
      /\ inst[p].pc = "form" \/ inst[p].registered => Owns(p)
      /\ inst[p].pc = "deregister" => inst[p].arena = None
  BY DEF Inv, Structure, OwnInv, Waiting
<1>3. p \in alive <=> inst[p].pc \notin Dead
  BY DEF Inv, Structure, ProcInv
<1>4. inst[p].pc = "attach" => inst[p].registered
  BY <1>2 DEF Waiting
<1> QED
  BY <1>1, <1>2, <1>3, <1>4

(* A live rank moves on, and does not attach anew.                         *)
LEMMA RankKeeps ==
  ASSUME Inv, NEW p \in InstanceProcs, NEW j, NEW x, NEW r, NEW v, Edited(j, x, r, v),
         inst[p].pc \notin Dead, x \notin Dead \cup {"register"},
         x = "form" \/ v => inst[p].pc = "form" \/ inst[p].registered,
         x \in Waiting \/ r # None => v, x = "deregister" => r = None,
         x = "attach" \/ r # None => Attached(p) /\ r \in {None, inst[p].arena, leases[slot[p]]},
         inst' = [inst EXCEPT ![p] = j], FormingStays,
         UNCHANGED <<agent, alive, startups, broker, leases, generations>>,
         UNCHANGED <<late, sealed, closed>>,
         book' \in [Slots -> Registrations \cup {None}], SameBook,
         fabric' \in Generations \cup {NoGeneration}, WorldStays,
         Progress(fabric', agent, late, alive, generations)
  PROVE  Inv'
<1>1. inst[p] \in InstanceRecord /\ inst \in [InstanceProcs -> InstanceRecord] /\ p \in alive
  BY RankFacts
<1>2. j \in InstanceRecord /\ j.pc = x /\ j.arena = r /\ j.registered = v
  BY DEF Edited
<1>3. inst'[p] = j /\ \A q \in InstanceProcs : q # p => inst'[q] = inst[q]
  BY <1>1
<1>4. inst' \in [InstanceProcs -> InstanceRecord]
  BY <1>1, <1>2
<1>5. InstanceStays(inst[p], j)
  <2>1. j.pc # "off"
    BY <1>2 DEF Dead
  <2> QED
    BY <1>2, <2>1 DEF InstanceStays
<1>6. \A q \in InstanceProcs : InstanceStays(inst[q], inst'[q])
  BY <1>3, <1>5, InstancesIdle
<1>7. FrameMoves
  <2>1. /\ alive' \in SUBSET Procs /\ sealed' \in BOOLEAN /\ closed' \in BOOLEAN
        /\ leases' \in [Ranks -> Procs \cup {None}] /\ late' \in SUBSET Messages
    BY DEF Inv, TypeOK
  <2> QED
    BY <1>4, <1>6, <2>1 DEF FrameMoves
<1>8. ProcInv'
  <2>1. ProcInv
    BY DEF Inv, Structure
  <2>2. ASSUME NEW q \in InstanceProcs
        PROVE  /\ q \in alive <=> inst'[q].pc \notin Dead
               /\ inst'[q].pc \in Dead \cup {"register"} => inst'[q] = [NoInstance EXCEPT !.pc = inst'[q].pc]
    <3>1. CASE q = p
      BY <1>1, <1>2, <1>3, <3>1
    <3>2. CASE q # p
      BY <1>3, <2>1, <3>2 DEF ProcInv
    <3> QED
      BY <3>1, <3>2
  <2> QED
    BY <2>1, <2>2 DEF ProcInv
<1>9. FewerAttached
  <2> SUFFICES ASSUME NEW q \in InstanceProcs, AttachedNext(q)
               PROVE  /\ Attached(q) /\ leases'[slot[q]] = leases[slot[q]]
                      /\ inst'[q].arena \in {None, inst[q].arena, leases[slot[q]]}
    BY DEF FewerAttached
  <2>1. CASE q = p
    BY <1>2, <1>3, <2>1 DEF AttachedNext
  <2>2. CASE q # p
    BY <1>3, <2>2 DEF AttachedNext, Attached
  <2> QED
    BY <2>1, <2>2
<1>10. CloseInv'
  BY CloseStays DEF Inv, Structure
<1>11. Progress(fabric', agent', late', alive', generations')
  OBVIOUS
<1> QED
  BY <1>7, <1>8, <1>9, <1>10, <1>11, FrameKeeps

(* ... and the daemon does nothing.                                        *)
LEMMA RankLocal ==
  ASSUME Inv, NEW p \in InstanceProcs, NEW j, NEW x, NEW r, NEW v, Edited(j, x, r, v),
         inst[p].pc \notin Dead, x \notin Dead \cup {"register"},
         x = "form" \/ v => inst[p].pc = "form" \/ inst[p].registered,
         x \in Waiting \/ r # None => v, x = "deregister" => r = None,
         x = "attach" \/ r # None => Attached(p) /\ r \in {None, inst[p].arena, leases[slot[p]]},
         inst' = [inst EXCEPT ![p] = j], DaemonKept, UNCHANGED <<agent, late, alive>>
  PROVE  Inv'
<1>1. /\ UNCHANGED <<agent, alive, startups, broker, leases, forming, generations>>
      /\ UNCHANGED <<late, sealed, closed, book, fabric>>
  BY DEF DaemonKept
<1>2. /\ book' \in [Slots -> Registrations \cup {None}] /\ SameBook
      /\ fabric' \in Generations \cup {NoGeneration} /\ WorldStays
      /\ Progress(fabric', agent, late, alive, generations)
  BY <1>1 DEF Inv, TypeOK, SameBook, WorldStays
<1>3. FormingStays
  BY <1>1, FormingSame DEF Inv
<1> QED
  BY <1>1, <1>2, <1>3, RankKeeps

(* A rank fails, or goes on with what it has, the attachment included.     *)
LEMMA RankTurns ==
  ASSUME Inv, NEW p \in InstanceProcs, NEW j, NEW x \in {"detach", "held", "acquire", "ready", "serving"},
         Edited(j, x, inst[p].arena, inst[p].registered),
         inst[p].pc \notin Dead, x \in {"acquire", "ready", "serving"} => inst[p].registered,
         inst' = [inst EXCEPT ![p] = j], DaemonKept, UNCHANGED <<agent, late, alive>>
  PROVE  Inv'
<1>1. x \notin Dead \cup {"register"} /\ x # "form" /\ x # "deregister" /\ x # "attach"
  BY DEF Dead
<1>2. x \in Waiting \/ inst[p].arena # None => inst[p].registered
  BY RankFacts DEF Waiting
<1>3. inst[p].arena # None => Attached(p)
  BY DEF Attached
<1> QED
  BY <1>1, <1>2, <1>3, RankLocal

(* wait_for_executable: the rank takes the plan, or fails.                 *)
LEMMA WaitForExecutableStep ==
  ASSUME Inv, NEW p \in InstanceProcs, WaitForExecutable(p), UNCHANGED agentVars
  PROVE  Inv'
<1> DEFINE i == inst[p]
<1>1. /\ i.pc = "wait" /\ DaemonKept /\ UNCHANGED <<agent, late, alive>>
      /\ \/ inst' = [inst EXCEPT ![p] = [i EXCEPT !.pc = "acquire", !.plan = fabric.id]]
         \/ inst' = [inst EXCEPT ![p] = [i EXCEPT !.failed = TRUE, !.pc = "detach"]]
  BY DEF WaitForExecutable, At0, SetInstance, Failing, Kept, agentVars
<1>2. i \in InstanceRecord /\ i.registered
  BY <1>1, RankFacts DEF Waiting
<1>3. fabric.id \in Nat
  <2>1. fabric \in Generations => fabric.id \in Nat
    BY GenerationFields
  <2>2. NoGeneration.id \in Nat
    BY SMT DEF NoGeneration
  <2> QED
    BY <2>1, <2>2 DEF Inv, TypeOK
<1>4. /\ Edited([i EXCEPT !.pc = "acquire", !.plan = fabric.id], "acquire", i.arena, i.registered)
      /\ Edited([i EXCEPT !.failed = TRUE, !.pc = "detach"], "detach", i.arena, i.registered)
  BY <1>2, <1>3, InstanceEdits, InstanceWords
<1>5. i.pc \notin Dead
  BY <1>1 DEF Dead
<1> QED
  BY <1>1, <1>2, <1>4, <1>5, RankTurns

(* The acquisition of the arena runs into its deadline.                    *)
LEMMA AcquireFailsStep ==
  ASSUME Inv, NEW p \in InstanceProcs, AcquireFails(p), UNCHANGED agentVars
  PROVE  Inv'
<1> DEFINE i == inst[p]
<1>1. /\ i.pc = "acquire" /\ DaemonKept /\ UNCHANGED <<agent, late, alive>>
      /\ inst' = [inst EXCEPT ![p] = [i EXCEPT !.failed = TRUE, !.pc = "detach"]]
  BY DEF AcquireFails, At0, SetInstance, Failing, Kept, agentVars
<1>2. Edited([i EXCEPT !.failed = TRUE, !.pc = "detach"], "detach", i.arena, i.registered)
  BY RankFacts, InstanceEdits, InstanceWords
<1>3. i.pc \notin Dead
  BY <1>1 DEF Dead
<1> QED
  BY <1>1, <1>2, <1>3, RankTurns

(* The rank attaches to the arena that its lease names.                    *)
LEMMA AttachArenaStep ==
  ASSUME Inv, NEW p \in InstanceProcs, AttachArena(p), UNCHANGED agentVars
  PROVE  Inv'
<1> DEFINE i == inst[p]
           r == leases[slot[p]]
<1>1. /\ i.pc = "attach" /\ DaemonKept /\ UNCHANGED <<agent, late, alive>>
      /\ inst' = [inst EXCEPT ![p] = [i EXCEPT !.pc = "init", !.arena = r]]
  BY DEF AttachArena, At0, SetInstance, Kept, agentVars
<1>2. i \in InstanceRecord /\ i.registered /\ slot[p] \in Ranks
  BY <1>1, RankFacts
<1>3. r \in Procs \cup {None}
  BY <1>2 DEF Inv, TypeOK
<1>4. Edited([i EXCEPT !.pc = "init", !.arena = r], "init", r, i.registered)
  BY <1>2, <1>3, InstanceEdits, InstanceWords
<1>5. i.pc \notin Dead /\ "init" \notin Dead \cup {"register"} /\ Attached(p)
  BY <1>1 DEF Dead, Attached
<1> DEFINE j == [i EXCEPT !.pc = "init", !.arena = r]
<1>6. Edited(j, "init", r, i.registered) /\ inst' = [inst EXCEPT ![p] = j]
  BY <1>1, <1>4
<1>7. r \in {None, i.arena, leases[slot[p]]}
  OBVIOUS
<1> HIDE DEF j, r
<1> QED
  BY <1>1, <1>2, <1>5, <1>6, <1>7, RankLocal

(* publish_instance_initialized, accepted or refused.                      *)
LEMMA PublishInitializedStep ==
  ASSUME Inv, NEW p \in InstanceProcs, PublishInitialized(p), UNCHANGED agentVars
  PROVE  Inv'
<1> DEFINE i == inst[p]
           j == [i EXCEPT !.pc = "ready"]
<1>1. /\ i.pc = "init" /\ UNCHANGED <<agent, late, alive>>
      /\ \/ /\ publish_instance_initialized(p, i.plan)
            /\ inst' = [inst EXCEPT ![p] = j]
         \/ /\ DaemonKept
            /\ inst' = [inst EXCEPT ![p] = [i EXCEPT !.failed = TRUE, !.pc = "held"]]
  BY DEF PublishInitialized, At0, SetInstance, Kept, agentVars
<1>2. i \in InstanceRecord /\ i.registered /\ slot[p] \in Ranks
  BY <1>1, RankFacts DEF Waiting
<1>3. i.pc \notin Dead
  BY <1>1 DEF Dead
<1>4. /\ Edited(j, "ready", i.arena, i.registered)
      /\ Edited([i EXCEPT !.failed = TRUE, !.pc = "held"], "held", i.arena, i.registered)
  BY <1>2, InstanceEdits, InstanceWords
<1>5. CASE DaemonKept /\ inst' = [inst EXCEPT ![p] = [i EXCEPT !.failed = TRUE, !.pc = "held"]]
  BY <1>1, <1>2, <1>3, <1>4, <1>5, RankTurns
<1>6. CASE publish_instance_initialized(p, i.plan) /\ inst' = [inst EXCEPT ![p] = j]
  <2>1. /\ UNCHANGED <<agent, alive, startups, broker, leases, forming, generations>>
        /\ UNCHANGED <<late, sealed, closed, book>>
        /\ fabric.id # 0 /\ fabric' = record_initialized(fabric, slot[p])
    BY <1>1, <1>6 DEF publish_instance_initialized, InitializedAccepted, CanInitialize
  <2>2. fabric \in Generations
    BY <2>1, StructureTypes DEF Inv
  <2>3. Moves(fabric, fabric')
    BY <1>2, <2>1, <2>2, FailureMoves
  <2>4. fabric' \in Generations /\ WorldStays /\ Progress(fabric', agent, late, alive, generations)
    BY <2>2, <2>3, MovesWorld
  <2>5. book' \in [Slots -> Registrations \cup {None}] /\ SameBook
    BY <2>1 DEF Inv, TypeOK, SameBook
  <2>6. "ready" \notin Dead \cup {"register"} /\ (i.arena # None => Attached(p))
    BY DEF Dead, Attached
  <2>7. FormingStays
    BY <2>1, FormingSame DEF Inv
  <2> HIDE DEF j
  <2> QED
    BY <1>2, <1>3, <1>4, <1>6, <2>1, <2>4, <2>5, <2>6, <2>7, RankKeeps
<1> QED
  BY <1>1, <1>5, <1>6

(* The rank waits for System Ready.                                        *)
LEMMA WaitForReadyStep ==
  ASSUME Inv, NEW p \in InstanceProcs, WaitForReady(p), UNCHANGED agentVars
  PROVE  Inv'
<1> DEFINE i == inst[p]
<1>1. /\ i.pc = "ready" /\ DaemonKept /\ UNCHANGED <<agent, late, alive>>
      /\ \/ inst' = [inst EXCEPT ![p] = [i EXCEPT !.pc = "serving"]]
         \/ inst' = [inst EXCEPT ![p] = [i EXCEPT !.failed = TRUE, !.pc = "held"]]
  BY DEF WaitForReady, At0, SetInstance, Kept, agentVars
<1>2. i \in InstanceRecord /\ i.registered
  BY <1>1, RankFacts DEF Waiting
<1>3. /\ Edited([i EXCEPT !.pc = "serving"], "serving", i.arena, i.registered)
      /\ Edited([i EXCEPT !.failed = TRUE, !.pc = "held"], "held", i.arena, i.registered)
  BY <1>2, InstanceEdits, InstanceWords
<1>4. i.pc \notin Dead
  BY <1>1 DEF Dead
<1> QED
  BY <1>1, <1>2, <1>3, <1>4, RankTurns

(* The operator ends a serving rank.                                       *)
LEMMA EndServiceStep ==
  ASSUME Inv, NEW p \in InstanceProcs, EndService(p), UNCHANGED agentVars
  PROVE  Inv'
<1> DEFINE i == inst[p]
<1>1. /\ i.pc = "serving" /\ DaemonKept /\ UNCHANGED <<agent, late, alive>>
      /\ inst' = [inst EXCEPT ![p] = [i EXCEPT !.pc = "detach"]]
  BY DEF EndService, At0, SetInstance, Kept, agentVars
<1>2. Edited([i EXCEPT !.pc = "detach"], "detach", i.arena, i.registered)
  BY RankFacts, InstanceEdits, InstanceWords
<1>3. i.pc \notin Dead
  BY <1>1 DEF Dead
<1> QED
  BY <1>1, <1>2, <1>3, RankTurns

(* A detach that fails keeps the attachment.                               *)
LEMMA DetachFailsStep ==
  ASSUME Inv, NEW p \in InstanceProcs, DetachFails(p), UNCHANGED agentVars
  PROVE  Inv'
<1> DEFINE i == inst[p]
<1>1. /\ i.pc = "detach" /\ DaemonKept /\ UNCHANGED <<agent, late, alive>>
      /\ inst' = [inst EXCEPT ![p] = [i EXCEPT !.failed = TRUE, !.pc = "held"]]
  BY DEF DetachFails, At0, SetInstance, agentVars
<1>2. Edited([i EXCEPT !.failed = TRUE, !.pc = "held"], "held", i.arena, i.registered)
  BY RankFacts, InstanceEdits, InstanceWords
<1>3. i.pc \notin Dead
  BY <1>1 DEF Dead
<1> QED
  BY <1>1, <1>2, <1>3, RankTurns

(* A detach gives the attachment up.                                       *)
LEMMA DetachArenaStep ==
  ASSUME Inv, NEW p \in InstanceProcs, DetachArena(p), UNCHANGED agentVars
  PROVE  Inv'
<1> DEFINE i == inst[p]
<1>1. /\ i.pc = "detach" /\ DaemonKept /\ UNCHANGED <<agent, late, alive>>
      /\ inst' = [inst EXCEPT ![p] = [i EXCEPT !.pc = "deregister", !.arena = None]]
  BY DEF DetachArena, At0, SetInstance, Kept, agentVars
<1>2. Edited([i EXCEPT !.pc = "deregister", !.arena = None], "deregister", None, i.registered)
  BY RankFacts, InstanceEdits, InstanceWords
<1>3. i.pc \notin Dead /\ "deregister" \notin Dead \cup {"register"} /\ "deregister" \notin Waiting
  BY <1>1 DEF Dead, Waiting
<1> QED
  BY <1>1, <1>2, <1>3, RankLocal

(* The book after a heartbeat.                                             *)
LEMMA BookFresh ==
  ASSUME Inv, NEW s \in Slots, book[s] # None, book' = [book EXCEPT ![s].fresh = TRUE]
  PROVE  book' \in [Slots -> Registrations \cup {None}] /\ SameBook
<1> DEFINE r == [book[s] EXCEPT !.fresh = TRUE]
<1>1. book[s] \in Registrations /\ book \in [Slots -> Registrations \cup {None}]
  BY StructureTypes DEF Inv, TypeOK
<1>2. r \in Registrations
  BY <1>1 DEF Registrations
<1>3. r.proc = book[s].proc /\ r # None
  BY <1>1, <1>2, NoneAssumption DEF Registrations
<1>4. book' = [book EXCEPT ![s] = r]
  OBVIOUS
<1> HIDE DEF r
<1>5. book'[s] = r /\ \A t \in Slots : t # s => book'[t] = book[t]
  BY <1>1, <1>4
<1> QED
  BY <1>1, <1>2, <1>3, <1>4, <1>5 DEF SameBook

(***************************************************************************)
(* The heartbeat of a rank refreshes its registration, and fails the rank  *)
(* when the generation is lost.                                            *)
(***************************************************************************)
LEMMA InstanceBeatsStep ==
  ASSUME Inv, NEW p \in InstanceProcs, InstanceBeats(p), UNCHANGED agentVars
  PROVE  Inv'
<1> DEFINE i == inst[p]
           f == fabric.phase \in {"aborting", "stopped"}
<1>1. /\ i.registered /\ i.pc \notin {"deregister", "off", "exited", "crashed"}
      /\ Owns(p) /\ book' = [book EXCEPT ![slot[p]].fresh = TRUE]
      /\ UNCHANGED <<agent, alive, startups, broker, leases, forming, generations>>
      /\ UNCHANGED <<late, sealed, closed, fabric>>
      /\ inst' = [inst EXCEPT ![p] = [i EXCEPT !.failed = f]]
  BY DEF InstanceBeats, heartbeat, SetInstance, Kept, agentVars
<1>2. i \in InstanceRecord /\ slot[p] \in Slots
  BY RankFacts
<1>3. f \in BOOLEAN
  BY SMT
<1> HIDE DEF f
<1>4. "held" \in InstancePcs
  BY InstanceWords
<1>5. Edited([i EXCEPT !.failed = f], i.pc, i.arena, i.registered)
  BY <1>2, <1>3, <1>4, InstanceEdits
<1>6. book' \in [Slots -> Registrations \cup {None}] /\ SameBook
  BY <1>1, <1>2, BookFresh DEF Owns
<1>7. /\ fabric' \in Generations \cup {NoGeneration} /\ WorldStays
      /\ Progress(fabric', agent, late, alive, generations)
  BY <1>1 DEF Inv, TypeOK, WorldStays
<1>8. i.pc \notin Dead /\ i.pc # "register"
  <2>1. i.pc \notin Dead
    BY <1>1 DEF Dead
  <2>2. i.pc = "register" => i = [NoInstance EXCEPT !.pc = "register"]
    BY DEF Inv, Structure, ProcInv
  <2>3. ~[NoInstance EXCEPT !.pc = "register"].registered
    BY DEF NoInstance
  <2> QED
    BY <1>1, <2>1, <2>2, <2>3
<1>9. i.pc = "attach" \/ i.arena # None => Attached(p) /\ i.arena \in {None, i.arena, leases[slot[p]]}
  BY DEF Attached
<1>10. /\ i.pc \in Waiting \/ i.arena # None => i.registered
       /\ i.pc = "deregister" => i.arena = None
       /\ i.pc = "form" \/ i.registered => i.pc = "form" \/ i.registered
       /\ i.pc \notin Dead \cup {"register"}
  BY <1>1, <1>8
<1> DEFINE j == [i EXCEPT !.failed = f]
<1>11. Edited(j, i.pc, i.arena, i.registered) /\ inst' = [inst EXCEPT ![p] = j]
  BY <1>1, <1>5
<1>12. FormingStays
  BY <1>1, FormingSame DEF Inv
<1> HIDE DEF j
<1> QED
  BY <1>1, <1>6, <1>7, <1>8, <1>9, <1>10, <1>11, <1>12, RankKeeps

(* What a rank has left when it is gone.                                   *)
LEMMA InstanceGone ==
  ASSUME NEW x \in InstancePcs
  PROVE  Edited([NoInstance EXCEPT !.pc = x], x, None, FALSE)
<1>1. NoInstance \in InstanceRecord
  BY InstanceWords
<1>2. Edited([NoInstance EXCEPT !.pc = x], x, NoInstance.arena, NoInstance.registered)
  BY <1>1, InstanceEdits
<1>3. NoInstance.arena = None /\ NoInstance.registered = FALSE
  BY DEF NoInstance
<1> QED
  BY <1>2, <1>3

(* A rank starts, or ends, while the daemon does nothing.                  *)
LEMMA RankComes ==
  ASSUME Inv, NEW p \in InstanceProcs, NEW x \in {"register", "exited", "crashed"},
         inst' = [inst EXCEPT ![p] = [NoInstance EXCEPT !.pc = x]],
         inst[p].pc # "off" => x # "register",
         IF x = "register" THEN alive' = alive \cup {p} ELSE alive' = alive \ {p},
         DaemonKept, UNCHANGED <<agent, late>>, CloseInv',
         Progress(fabric, agent, late, alive', generations)
  PROVE  Inv'
<1> DEFINE j == [NoInstance EXCEPT !.pc = x]
<1>1. Edited(j, x, None, FALSE)
  BY InstanceGone, InstanceWords
<1>2. j \in InstanceRecord /\ j.pc = x /\ j.arena = None /\ j.registered = FALSE
  BY <1>1 DEF Edited
<1>3. /\ inst \in [InstanceProcs -> InstanceRecord] /\ p \in Procs /\ slot[p] \in Ranks
  BY RankFacts
<1>4. inst'[p] = j /\ \A q \in InstanceProcs : q # p => inst'[q] = inst[q]
  BY <1>3
<1>5. inst' \in [InstanceProcs -> InstanceRecord]
  BY <1>2, <1>3
<1>6. \A q \in InstanceProcs : InstanceStays(inst[q], inst'[q])
  <2>1. InstanceStays(inst[p], j)
    BY <1>2 DEF InstanceStays, Waiting
  <2> QED
    BY <1>4, <2>1, InstancesIdle
<1>7. /\ UNCHANGED <<startups, book, broker, leases, fabric, forming, generations, sealed, closed>>
      /\ TypeOK /\ ProcInv
  BY DEF DaemonKept, Inv, Structure
<1>8. FrameMoves
  <2>1. alive' \in SUBSET Procs
    BY <1>3, <1>7 DEF TypeOK
  <2>2. /\ sealed' \in BOOLEAN /\ closed' \in BOOLEAN /\ SameBook /\ WorldStays
        /\ book' \in [Slots -> Registrations \cup {None}]
        /\ leases' \in [Ranks -> Procs \cup {None}] /\ late' \in SUBSET Messages
        /\ fabric' \in Generations \cup {NoGeneration}
    BY <1>7 DEF TypeOK, SameBook, WorldStays
  <2>3. FormingStays
    BY <1>7, FormingSame
  <2> QED
    BY <1>5, <1>6, <1>7, <2>1, <2>2, <2>3 DEF FrameMoves
<1>a. \A q : q # p => (q \in alive' <=> q \in alive)
  <2>1. CASE x = "register"
    BY <2>1
  <2>2. CASE x # "register"
    BY <2>2
  <2> QED
    BY <2>1, <2>2
<1>b. p \in alive' <=> x \notin Dead
  <2>1. CASE x = "register"
    BY <2>1 DEF Dead
  <2>2. CASE x # "register"
    BY <2>2 DEF Dead
  <2> QED
    BY <2>1, <2>2
<1>9. ProcInv'
  <2>1. ASSUME NEW q \in InstanceProcs
        PROVE  /\ q \in alive' <=> inst'[q].pc \notin Dead
               /\ inst'[q].pc \in Dead \cup {"register"} => inst'[q] = [NoInstance EXCEPT !.pc = inst'[q].pc]
    <3>1. CASE q = p
      BY <1>2, <1>4, <1>b, <3>1
    <3>2. CASE q # p
      BY <1>4, <1>7, <1>a, <3>2 DEF ProcInv
    <3> QED
      BY <3>1, <3>2
  <2>2. \A q \in AgentProcs : q # p
    BY <1>3, StructureTypes, <1>7
  <2> QED
    BY <1>7, <1>a, <2>1, <2>2 DEF ProcInv
<1>10. FewerAttached
  <2> SUFFICES ASSUME NEW q \in InstanceProcs, AttachedNext(q)
               PROVE  /\ Attached(q) /\ leases'[slot[q]] = leases[slot[q]]
                      /\ inst'[q].arena \in {None, inst[q].arena, leases[slot[q]]}
    BY DEF FewerAttached
  <2>1. CASE q = p
    BY <1>2, <1>4, <2>1 DEF AttachedNext
  <2>2. CASE q # p
    BY <1>4, <1>7, <2>2 DEF AttachedNext, Attached
  <2> QED
    BY <2>1, <2>2
<1>11. Progress(fabric', agent', late', alive', generations')
  BY <1>7
<1> QED
  BY <1>8, <1>9, <1>10, <1>11, FrameKeeps

(* A rank process starts, which nobody knows.                              *)
LEMMA StartInstanceStep ==
  ASSUME Inv, NEW p \in InstanceProcs, StartInstance(p), UNCHANGED agentVars
  PROVE  Inv'
<1>1. /\ inst[p].pc = "off" /\ alive' = alive \cup {p} /\ DaemonKept
      /\ inst' = [inst EXCEPT ![p] = [NoInstance EXCEPT !.pc = "register"]]
      /\ UNCHANGED <<agent, late>>
  BY DEF StartInstance, SetInstance, At0, agentVars
<1>2. /\ TypeOK /\ RosterInv /\ AdmitInv /\ CloseInv
      /\ Progress(fabric, agent, late, alive, generations)
  BY DEF Inv, Structure
<1>3. slot[p] \in Ranks /\ p \in Procs /\ slot[p] \notin Pes
  BY <1>2, StructureTypes
<1>4. \A s : ~Member(s, p)
  BY <1>1, <1>3 DEF Member
<1>5. CloseInv'
  <2>1. \A s \in Pes : startups[s] # p
    <3>1. p # None
      BY <1>3, PlacesAssumption
    <3>2. \A s \in Pes : startups[s] # None => slot[startups[s]] = s
      BY <1>2 DEF AdmitInv
    <3> QED
      BY <1>3, <3>1, <3>2
  <2>2. \A s \in Slots : book[s] # None => book[s].proc # p
    BY <1>2, <1>4 DEF RosterInv
  <2> QED
    <3>1. UNCHANGED <<closed, sealed, startups, book>>
      BY <1>1 DEF DaemonKept
    <3> SUFFICES ASSUME closed
                 PROVE  /\ sealed /\ \A s \in Pes : startups[s] \notin alive'
                        /\ \A s \in Slots : book[s] # None => book[s].proc \notin alive'
      BY <3>1 DEF CloseInv
    <3>2. /\ sealed /\ \A s \in Pes : startups[s] \notin alive
          /\ \A s \in Slots : book[s] # None => book[s].proc \notin alive
      BY <1>2 DEF CloseInv
    <3> QED
      BY <1>1, <2>1, <2>2, <3>2
<1>6. Progress(fabric, agent, late, alive', generations)
  <2>1. fabric.id # 0 => /\ \A pe \in Pes : fabric.agents[pe] # p
                         /\ \A r \in Ranks : fabric.instances[r] # p
    BY <1>2, <1>4 DEF RosterInv
  <2>2. p \notin AgentProcs
    BY <1>3 DEF AgentProcs
  <2> QED
    BY <1>1, <1>2, <2>1, <2>2, ProgressStart
<1> QED
  BY <1>1, <1>5, <1>6, RankComes

(* The exit of a rank keeps the invariant, whatever it was attached to.    *)
LEMMA RankExits ==
  ASSUME Inv, NEW p \in InstanceProcs, NEW x \in {"exited", "crashed"}, ExitInstance(p, x),
         DaemonKept, UNCHANGED <<agent, late>>
  PROVE  Inv'
<1>1. /\ alive' = alive \ {p} /\ inst' = [inst EXCEPT ![p] = [NoInstance EXCEPT !.pc = x]]
  BY DEF ExitInstance, SetInstance
<1>2. TypeOK /\ CloseInv /\ Progress(fabric, agent, late, alive, generations)
  BY DEF Inv, Structure
<1>3. CloseInv'
  <2>1. SameBook /\ closed' = closed /\ sealed' = sealed /\ startups' = startups
    BY DEF SameBook, DaemonKept
  <2> QED
    BY <1>1, <1>2, <2>1, CloseStays
<1>4. Progress(fabric, agent, late, alive', generations)
  BY <1>1, <1>2, ProgressFewer
<1> QED
  BY <1>1, <1>3, <1>4, RankComes

(* A rank is killed by its parent, or crashes.                             *)
LEMMA KillFailedStep ==
  ASSUME Inv, NEW p \in InstanceProcs, KillFailed(p) \/ CrashInstance(p), UNCHANGED agentVars
  PROVE  Inv'
  BY RankExits DEF KillFailed, CrashInstance, agentVars

-----------------------------------------------------------------------------
(* A rank enters the book, or leaves it.                                   *)

(* A roster that is dropped or falls out of date.                          *)
LEMMA OutdatedStays ==
  ASSUME TypeOK, forming' \in {None, forming, Outdated}
  PROVE  FormingStays
<1>1. CASE forming' = None
  BY <1>1 DEF FormingStays
<1>2. CASE forming' = forming
  BY <1>2, FormingSame
<1>3. CASE forming # None /\ forming' = [forming EXCEPT !.current = FALSE]
  <2>1. forming \in Rosters
    BY <1>3 DEF TypeOK
  <2>2. [forming EXCEPT !.current = FALSE] \in Rosters
    BY <2>1 DEF Rosters
  <2>3. /\ [forming EXCEPT !.current = FALSE].agents = forming.agents
        /\ [forming EXCEPT !.current = FALSE].instances = forming.instances
    BY <2>1, SMT DEF Rosters
  <2>4. /\ [forming EXCEPT !.current = FALSE].current = FALSE
        /\ [forming EXCEPT !.current = FALSE].probed = forming.probed
    BY <2>1 DEF Rosters
  <2> QED
    BY <1>3, <2>2, <2>3, <2>4 DEF FormingStays
<1> QED
  BY <1>1, <1>2, <1>3 DEF Outdated

(* Nobody else has registered for the place of p.                          *)
Alone(p) ==
  \A q \in InstanceProcs : q # p /\ slot[q] = slot[p] => ~(inst[q].pc = "form" \/ inst[q].registered)

RankMoves(p, j, o) ==
  /\ inst' = [inst EXCEPT ![p] = j] /\ book' = [book EXCEPT ![slot[p]] = o]
  /\ leases' \in [Ranks -> Procs \cup {None}]
  /\ \A r \in Ranks : r # slot[p] => leases'[r] = leases[r]
  /\ UNCHANGED <<agent, startups, broker, generations, late, sealed, closed>>
  /\ alive' \in SUBSET alive /\ FormingStays
  /\ fabric' \in Generations \cup {NoGeneration} /\ WorldStays

(* A rank that has no arena registers or deregisters.                      *)
LEMMA RankBooks ==
  ASSUME Inv, NEW p \in InstanceProcs, NEW j, NEW x, NEW v, Edited(j, x, None, v),
         NEW o, o = None \/ (o \in Registrations /\ o.proc = p /\ ~closed),
         x \notin Waiting \cup {"off"}, x = "form" \/ v => o # None,
         Alone(p), RankMoves(p, j, o), ProcInv',
         Progress(fabric', agent, late, alive', generations)
  PROVE  Inv'
<1>1. j \in InstanceRecord /\ j.pc = x /\ j.arena = None /\ j.registered = v
  BY DEF Edited
<1>2. /\ inst \in [InstanceProcs -> InstanceRecord] /\ p \in Procs /\ slot[p] \in Ranks
      /\ slot[p] \in Slots
  BY RankFacts
<1>3. /\ TypeOK /\ ProcInv /\ AdmitInv /\ RosterInv /\ OwnInv /\ CloseInv /\ BrokerInv /\ LeaseInv
  BY DEF Inv, Structure
<1>4. /\ UNCHANGED <<agent, startups, broker, generations, late, sealed, closed>>
      /\ alive' \subseteq alive /\ FormingStays /\ WorldStays
      /\ \A r \in Ranks : r # slot[p] => leases'[r] = leases[r]
  BY DEF RankMoves
<1>5. inst'[p] = j /\ \A q \in InstanceProcs : q # p => inst'[q] = inst[q]
  BY <1>2 DEF RankMoves
<1>6. book'[slot[p]] = o /\ \A s \in Slots : s # slot[p] => book'[s] = book[s]
  BY <1>2, <1>3 DEF RankMoves, TypeOK
<1>7. TypeOK'
  <2>1. inst' \in [InstanceProcs -> InstanceRecord]
    BY <1>1, <1>2 DEF RankMoves
  <2>2. book' \in [Slots -> Registrations \cup {None}]
    BY <1>2, <1>3 DEF RankMoves, TypeOK
  <2>3. /\ alive' \subseteq Procs /\ forming' \in Rosters \cup {None}
        /\ leases' \in [Ranks -> Procs \cup {None}] /\ fabric' \in Generations \cup {NoGeneration}
    BY <1>3, <1>4 DEF RankMoves, TypeOK, FormingStays
  <2> QED
    BY <1>3, <1>4, <2>1, <2>2, <2>3 DEF TypeOK
<1>8. AdmitInv'
  BY <1>3, <1>4 DEF AdmitInv
<1>9. MembersKept
  <2> SUFFICES ASSUME NEW s, NEW q \in Procs, Member(s, q)
               PROVE  MemberNext(s, q)
    BY DEF MembersKept
  <2>1. s \in Ranks => inst'[q].pc # "off"
    <3> SUFFICES ASSUME s \in Ranks
                 PROVE  inst'[q].pc # "off"
      OBVIOUS
    <3>1. q \in InstanceProcs /\ inst[q].pc # "off"
      BY <1>3, StructureTypes DEF Member
    <3> QED
      BY <1>1, <1>5, <3>1
  <2> QED
    BY <1>4, <2>1 DEF Member, MemberNext
<1>10. RosterInv'
  <2>0. slot[p] \notin Pes
    BY <1>2, <1>3, StructureTypes
  <2>1. ASSUME NEW s \in Slots, book'[s] # None
        PROVE  MemberNext(s, book'[s].proc)
    <3>1. CASE s = slot[p]
      <4>1. book'[s].proc = p /\ inst'[p].pc # "off"
        BY <1>1, <1>5, <1>6, <2>1, <3>1
      <4> QED
        BY <2>0, <3>1, <4>1 DEF MemberNext
    <3>2. CASE s # slot[p]
      <4>1. book[s] # None /\ book[s].proc = book'[s].proc /\ book[s].proc \in Procs
        BY <1>3, <1>6, <2>1, <3>2, StructureTypes
      <4> QED
        BY <1>3, <1>9, <4>1 DEF RosterInv, MembersKept
    <3> QED
      BY <3>1, <3>2
  <2>2. \A pe \in Pes : book'[pe] = book[pe]
    BY <1>3, <1>6, <2>0, StructureTypes
  <2>3. BookTurns
    BY <2>1, <2>2 DEF BookTurns
  <2> QED
    BY <1>3, <1>4, <1>9, <2>3, RosterTurns
<1>11. OwnInv'
  <2>1. \A q \in AgentProcs : Owns(q)' <=> Owns(q)
    <3>1. \A q \in AgentProcs : slot[q] \in Slots /\ slot[q] # slot[p]
      BY <1>2, <1>3, StructureTypes
    <3> QED
      BY <1>6, <3>1 DEF Owns
  <2>2. ASSUME NEW q \in InstanceProcs
        PROVE  /\ inst'[q].pc = "form" \/ inst'[q].registered => Owns(q)'
               /\ inst'[q].pc \in Waiting \/ inst'[q].arena # None => inst'[q].registered
               /\ inst'[q].pc = "deregister" => inst'[q].arena = None
    <3>1. CASE q = p
      <4>1. inst'[q].pc = x /\ inst'[q].arena = None /\ inst'[q].registered = v
        BY <1>1, <1>5, <3>1
      <4>2. o # None => Owns(q)'
        BY <1>6, <3>1 DEF Owns
      <4> QED
        BY <4>1, <4>2
    <3>2. CASE q # p /\ slot[q] = slot[p]
      <4>1. inst'[q] = inst[q] /\ ~(inst[q].pc = "form" \/ inst[q].registered)
        BY <1>5, <3>2 DEF Alone
      <4>2. ~(inst[q].pc \in Waiting \/ inst[q].arena # None)
        BY <1>3, <4>1 DEF OwnInv, Waiting
      <4>3. /\ ~(inst'[q].pc = "form" \/ inst'[q].registered)
            /\ ~(inst'[q].pc \in Waiting \/ inst'[q].arena # None)
        BY <4>1, <4>2
      <4> QED
        BY <4>3
    <3>3. CASE q # p /\ slot[q] # slot[p]
      <4>1. slot[q] \in Slots
        BY <1>3, StructureTypes
      <4>2. Owns(q)' <=> Owns(q)
        BY <1>6, <3>3, <4>1 DEF Owns
      <4> QED
        BY <1>3, <1>5, <3>3, <4>2 DEF OwnInv, Waiting
    <3> QED
      BY <3>1, <3>2, <3>3
  <2> QED
    BY <1>3, <1>4, <2>1, <2>2 DEF OwnInv, Waiting
<1>12. CloseInv'
  BY <1>3, <1>4, <1>6 DEF CloseInv
<1>13. BrokerInv'
  <2>1. AgentsStay
    BY <1>3, <1>4 DEF AgentsStay, AgentStays, OwnInv, Dead
  <2>2. \A a \in Atn : book'[a] # None => book[a] # None
    BY <1>2, <1>3, <1>6, StructureTypes
  <2>3. BrokerStays
    BY <1>3, <1>4, BrokerSame
  <2>4. ArenasStay
    BY <1>4 DEF ArenasStay
  <2>5. ExitsSpent
    BY <1>4 DEF ExitsSpent
  <2> QED
    BY <1>3, <1>4, <1>9, <2>1, <2>2, <2>3, <2>4, <2>5, BrokerInvStays
<1>14. LeaseInv'
  <2>1. ASSUME NEW q \in InstanceProcs, AttachedNext(q)
        PROVE  /\ Attached(q) /\ leases'[slot[q]] = leases[slot[q]]
               /\ inst'[q].arena \in {None, inst[q].arena, leases[slot[q]]}
               /\ LendsNext(leases[slot[q]])
    <3>1. q # p
      BY <1>1, <1>5, <2>1 DEF AttachedNext, Waiting
    <3>2. Attached(q) /\ inst'[q] = inst[q]
      BY <1>5, <2>1, <3>1 DEF Attached, AttachedNext
    <3>3. slot[q] # slot[p]
      <4>1. inst[q].registered
        BY <1>3, <3>2 DEF Attached, OwnInv
      <4> QED
        BY <3>1, <4>1 DEF Alone
    <3>4. leases'[slot[q]] = leases[slot[q]]
      BY <1>3, <1>4, <3>3, StructureTypes
    <3>5. LendsNext(leases[slot[q]])
      <4>1. LET w == leases[slot[q]] IN
            /\ agent[w].pc \notin {"off", "exited"}
            /\ w \in alive => agent[w].arenas \notin {"none", "drained"}
        BY <1>3, <3>2 DEF LeaseInv
      <4> QED
        BY <1>4, <4>1 DEF LendsNext
    <3> QED
      BY <3>2, <3>4, <3>5
  <2> QED
    BY <1>3, <1>4, <2>1, LeaseStays
<1>15. Progress(fabric', agent', late', alive', generations')
  BY <1>4
<1> QED
  BY <1>7, <1>8, <1>10, <1>11, <1>12, <1>13, <1>14, <1>15 DEF Inv, Structure

(* The generation after retire_terminal_generation, and what may follow.   *)
LEMMA RetiresWorld ==
  ASSUME Inv, fabric' = retire_terminal_generation(fabric)
  PROVE  /\ fabric' \in Generations \cup {NoGeneration} /\ WorldStays
         /\ Progress(fabric', agent, late, alive, generations)
<1>1. CASE fabric \in Generations
  BY <1>1, MovesNot, Retired
<1>2. CASE fabric = NoGeneration
  <2>1. NoGeneration.id = 0
    BY DEF NoGeneration
  <2>2. fabric' = fabric
    BY <1>2, <2>1 DEF retire_terminal_generation
  <2> QED
    BY <1>2, <2>2 DEF WorldStays, Inv
<1> QED
  BY <1>1, <1>2 DEF Inv, TypeOK

(***************************************************************************)
(* What retire_terminal_generation leaves is the generation itself, or     *)
(* none.                                                                   *)
(***************************************************************************)
LEMMA RetiredFields ==
  ASSUME TypeOK
  PROVE  LET g == retire_terminal_generation(fabric) IN
         g.id # 0 => g = fabric /\ fabric \in Generations
<1>1. NoGeneration.id = 0
  BY DEF NoGeneration
<1> QED
  BY <1>1, StructureTypes DEF retire_terminal_generation

(* register_instance, in each of its outcomes.                             *)
LEMMA RegisterInstanceStep ==
  ASSUME Inv, NEW p \in InstanceProcs, RegisterInstance(p), UNCHANGED agentVars
  PROVE  Inv'
<1> DEFINE g == retire_terminal_generation(fabric)
           ok == RegisterInstanceOutcome(p) = "ok"
           s == slot[p]
<1>0. /\ inst \in [InstanceProcs -> InstanceRecord] /\ p \in Procs /\ s \in Ranks /\ s \in Slots
      /\ inst[p] \in InstanceRecord /\ (p \in alive <=> inst[p].pc \notin Dead)
  BY RankFacts
<1>1. /\ inst[p].pc = "register" /\ register_instance(p) /\ UNCHANGED <<alive, agent, late>>
      /\ inst' = [inst EXCEPT ![p] = IF ok THEN [inst[p] EXCEPT !.pc = "form"] ELSE Failing(inst[p])]
  BY DEF RegisterInstance, SetInstance, At0, agentVars, Kept
<1>2. /\ UNCHANGED <<startups, broker, generations, sealed, closed>>
      /\ fabric' = IF ~sealed /\ g.id # 0 /\ g.instances[s] # p
                     THEN quiesce(record_owner_failure(g)) ELSE g
  BY <1>1 DEF register_instance
<1>3. TypeOK /\ ProcInv /\ OwnInv /\ CloseInv
  BY DEF Inv, Structure
<1>4. /\ fabric' \in Generations \cup {NoGeneration} /\ WorldStays
      /\ Progress(fabric', agent, late, alive, generations)
  <2>1. CASE ~sealed /\ g.id # 0 /\ g.instances[s] # p
    <3>1. g = fabric /\ fabric \in Generations
      BY <1>3, <2>1, RetiredFields
    <3>2. Moves(fabric, fabric')
      BY <1>2, <2>1, <3>1, FailureMoves
    <3> QED
      BY <3>1, <3>2, MovesWorld
  <2>2. CASE ~(~sealed /\ g.id # 0 /\ g.instances[s] # p)
    <3>1. fabric' = g
      BY <1>2, <2>2
    <3> QED
      BY <3>1, RetiresWorld
  <2> QED
    BY <2>1, <2>2
<1> HIDE DEF g
<1>5. CASE ~ok
  <2> DEFINE j == Failing(inst[p])
  <2>1. Edited(j, "detach", inst[p].arena, inst[p].registered)
    BY <1>0, InstanceEdits, InstanceWords DEF Failing
  <2>2. inst' = [inst EXCEPT ![p] = j]
    BY <1>1, <1>5
  <2>3. UNCHANGED <<book, leases, forming>>
    BY <1>1, <1>5 DEF register_instance
  <2>4. /\ FormingStays /\ book' \in [Slots -> Registrations \cup {None}] /\ SameBook
    BY <1>3, <2>3, FormingSame DEF SameBook, TypeOK
  <2>5. inst[p].pc \notin Dead /\ "detach" \notin Dead \cup {"register"} /\ "detach" \notin Waiting
    BY <1>1 DEF Dead, Waiting
  <2>6. inst[p].arena # None => inst[p].registered /\ Attached(p)
    BY <1>3 DEF OwnInv, Attached
  <2> HIDE DEF j
  <2> QED
    BY <1>1, <1>2, <1>4, <2>1, <2>2, <2>3, <2>4, <2>5, <2>6, RankKeeps
<1>6. CASE ok
  <2> DEFINE j == [inst[p] EXCEPT !.pc = "form"]
             o == book'[s]
  <2>1. inst[p] = [NoInstance EXCEPT !.pc = "register"]
    BY <1>1, <1>3 DEF ProcInv
  <2>2. inst[p].arena = None /\ inst[p].registered = FALSE
    <3>1. Edited([NoInstance EXCEPT !.pc = "register"], "register", None, FALSE)
      BY InstanceGone, InstanceWords
    <3> QED
      BY <2>1, <3>1 DEF Edited
  <2>3. Edited(j, "form", None, FALSE)
    BY <1>0, <2>2, InstanceEdits, InstanceWords
  <2>4. /\ ~sealed /\ ~(book[s] # None /\ book[s].proc \in alive \ {p})
    BY <1>6 DEF RegisterInstanceOutcome
  <2>5. ~closed
    BY <1>3, <2>4 DEF CloseInv
  <2>6. Alone(p)
    <3> SUFFICES ASSUME NEW q \in InstanceProcs, q # p, slot[q] = s, inst[q].pc = "form" \/ inst[q].registered
                 PROVE  FALSE
      BY DEF Alone
    <3>1. book[s] # None /\ book[s].proc = q
      <4>1. Owns(q)
        BY <1>3 DEF OwnInv
      <4> QED
        BY <4>1 DEF Owns
    <3>2. q \notin alive
      BY <2>4, <3>1
    <3>3. inst[q].pc \in Dead /\ inst[q] = [NoInstance EXCEPT !.pc = inst[q].pc]
      BY <1>3, <3>2 DEF ProcInv
    <3>4. inst[q].registered = FALSE
      BY <3>3, InstanceGone, InstanceWords DEF Edited, Dead
    <3> QED
      BY <3>3, <3>4 DEF Dead
  <2>7. book' = Installed(s, p)
    BY <1>1, <1>6 DEF register_instance
  <2>8. /\ o \in Registrations /\ o.proc = p /\ book' = [book EXCEPT ![s] = o]
    <3>1. book \in [Slots -> Registrations \cup {None}]
      BY <1>3 DEF TypeOK
    <3>2. CASE book[s] # None /\ book[s].proc = p
      <4> DEFINE n == [book[s] EXCEPT !.fresh = TRUE]
      <4>1. book' = [book EXCEPT ![s] = n]
        BY <2>7, <3>2 DEF Installed
      <4>2. book[s] \in Registrations
        BY <1>0, <3>1, <3>2
      <4>3. n \in Registrations
        BY <4>2 DEF Registrations
      <4>4. n.proc = book[s].proc
        BY <4>2, SMT DEF Registrations
      <4> HIDE DEF n
      <4>5. o = n
        BY <1>0, <3>1, <4>1
      <4> QED
        BY <3>2, <4>1, <4>3, <4>4, <4>5
    <3>3. CASE ~(book[s] # None /\ book[s].proc = p)
      <4> DEFINE n == Registration(p)
      <4>1. book' = [book EXCEPT ![s] = n]
        BY <2>7, <3>3 DEF Installed
      <4>3. n \in Registrations /\ n.proc = p
        BY <1>0 DEF Registrations, Registration
      <4> HIDE DEF n
      <4>5. o = n
        BY <1>0, <3>1, <4>1
      <4> QED
        BY <4>1, <4>3, <4>5
    <3> QED
      BY <3>2, <3>3
  <2>9. o # None
    BY <2>8, NoneAssumption
  <2>10. leases' \in {leases, [leases EXCEPT ![s] = None]} /\ forming' \in {forming, Outdated}
    BY <1>1, <1>6 DEF register_instance
  <2>11. /\ leases' \in [Ranks -> Procs \cup {None}]
         /\ \A r \in Ranks : r # s => leases'[r] = leases[r]
    BY <1>0, <1>3, <2>10 DEF TypeOK
  <2>12. FormingStays
    BY <1>3, <2>10, OutdatedStays
  <2>13. inst' = [inst EXCEPT ![p] = j]
    BY <1>1, <1>6
  <2>e. j.pc = "form"
    BY <2>3 DEF Edited
  <2> HIDE DEF j, o
  <2>14. RankMoves(p, j, o)
    BY <1>1, <1>2, <1>4, <2>8, <2>11, <2>12, <2>13 DEF RankMoves
  <2>15. ProcInv'
    <3>1. inst'[p].pc = "form" /\ \A q \in InstanceProcs : q # p => inst'[q] = inst[q]
      BY <1>0, <2>13, <2>e
    <3>2. \A q \in InstanceProcs :
            /\ q \in alive <=> inst'[q].pc \notin Dead
            /\ inst'[q].pc \in Dead \cup {"register"} => inst'[q] = [NoInstance EXCEPT !.pc = inst'[q].pc]
      BY <1>0, <1>1, <1>3, <3>1 DEF ProcInv, Dead
    <3> QED
      BY <1>1, <1>3, <3>2 DEF ProcInv
  <2>16. "form" \notin Waiting \cup {"off"}
    BY DEF Waiting
  <2> QED
    BY <1>1, <1>4, <2>3, <2>5, <2>6, <2>8, <2>9, <2>14, <2>15, <2>16, RankBooks
<1> QED
  BY <1>5, <1>6

(* A rank in the book leaves it and then waits for its parent, or exits.   *)
LEMMA DeregisterStep ==
  ASSUME Inv, NEW p \in InstanceProcs, Deregister(p), UNCHANGED agentVars
  PROVE  Inv'
<1> DEFINE s == slot[p]
<1>0. /\ inst \in [InstanceProcs -> InstanceRecord] /\ p \in Procs /\ s \in Ranks /\ s \in Slots
      /\ inst[p] \in InstanceRecord
  BY RankFacts
<1>1. /\ inst[p].pc = "deregister" /\ UNCHANGED <<agent, late>>
      /\ IF inst[p].registered /\ Owns(p) THEN deregister_instance(p) ELSE DaemonKept
      /\ IF inst[p].failed
           THEN /\ inst' = [inst EXCEPT ![p] = [inst[p] EXCEPT !.pc = "held", !.registered = FALSE]]
                /\ UNCHANGED alive
           ELSE ExitInstance(p, "exited")
  BY DEF Deregister, SetInstance, At0, agentVars
<1>2. TypeOK /\ ProcInv /\ OwnInv
  BY DEF Inv, Structure
<1>3. inst[p].arena = None /\ p \in alive
  BY <1>1, RankFacts DEF Dead
<1>4. Edited([inst[p] EXCEPT !.pc = "held", !.registered = FALSE], "held", None, FALSE)
  BY <1>0, <1>3, InstanceEdits, InstanceWords
<1>5. CASE ~(inst[p].registered /\ Owns(p))
  <2>1. DaemonKept
    BY <1>1, <1>5
  <2>2. CASE inst[p].failed
    <3> DEFINE j == [inst[p] EXCEPT !.pc = "held", !.registered = FALSE]
    <3>1. inst' = [inst EXCEPT ![p] = j] /\ UNCHANGED alive
      BY <1>1, <2>2
    <3>2. inst[p].pc \notin Dead /\ "held" \notin Dead \cup {"register"} /\ "held" \notin Waiting
      BY <1>1 DEF Dead, Waiting
    <3> HIDE DEF j
    <3> QED
      BY <1>1, <1>4, <2>1, <3>1, <3>2, RankLocal DEF j
  <2>3. CASE ~inst[p].failed
    <3>1. ExitInstance(p, "exited")
      BY <1>1, <2>3
    <3> QED
      BY <1>1, <2>1, <3>1, RankExits
  <2> QED
    BY <2>2, <2>3
<1>6. CASE inst[p].registered /\ Owns(p)
  <2>1. deregister_instance(p)
    BY <1>1, <1>6
  <2>2. /\ book' = [book EXCEPT ![s] = None] /\ leases' = [leases EXCEPT ![s] = None]
        /\ forming' = Outdated /\ fabric' = instance_departed(fabric, s, LeasesQuiescing(s))
        /\ UNCHANGED <<startups, broker, generations, sealed, closed>>
    BY <2>1 DEF deregister_instance
  <2>3. Alone(p)
    <3> SUFFICES ASSUME NEW q \in InstanceProcs, q # p, slot[q] = s, inst[q].pc = "form" \/ inst[q].registered
                 PROVE  FALSE
      BY DEF Alone
    <3>1. Owns(q)
      BY <1>2 DEF OwnInv
    <3> QED
      BY <1>6, <3>1 DEF Owns
  <2>4. /\ fabric' \in Generations \cup {NoGeneration} /\ WorldStays
        /\ Progress(fabric', agent, late, alive, generations)
    <3>1. CASE fabric \in Generations
      <4>1. LeasesQuiescing(s) \in BOOLEAN
        BY DEF LeasesQuiescing
      <4>2. Moves(fabric, fabric')
        BY <1>0, <2>2, <3>1, <4>1, FailureMoves
      <4> QED
        BY <3>1, <4>2, MovesWorld
    <3>2. CASE fabric = NoGeneration
      <4>1. fabric' = fabric
        BY <1>2, <2>2, <3>2, StructureTypes DEF instance_departed
      <4> QED
        BY <3>2, <4>1 DEF WorldStays, Inv
    <3> QED
      BY <1>2, <3>1, <3>2 DEF TypeOK
  <2>5. /\ leases' \in [Ranks -> Procs \cup {None}]
        /\ \A r \in Ranks : r # s => leases'[r] = leases[r]
    BY <1>0, <1>2, <2>2 DEF TypeOK
  <2>6. FormingStays
    BY <1>2, <2>2, OutdatedStays
  <2>7. CASE inst[p].failed
    <3> DEFINE j == [inst[p] EXCEPT !.pc = "held", !.registered = FALSE]
    <3>1. inst' = [inst EXCEPT ![p] = j] /\ UNCHANGED alive
      BY <1>1, <2>7
    <3>2. "held" \notin Waiting \cup {"off"}
      BY DEF Waiting
    <3>3. Edited(j, "held", None, FALSE)
      BY <1>4
    <3>4. j.pc = "held"
      BY <3>3 DEF Edited
    <3> HIDE DEF j
    <3>5. RankMoves(p, j, None)
      BY <1>1, <2>2, <2>4, <2>5, <2>6, <3>1 DEF RankMoves
    <3>6. ProcInv'
      <4>1. inst'[p].pc = "held" /\ \A q \in InstanceProcs : q # p => inst'[q] = inst[q]
        BY <1>0, <3>1, <3>4
      <4>2. \A q \in InstanceProcs :
              /\ q \in alive <=> inst'[q].pc \notin Dead
              /\ inst'[q].pc \in Dead \cup {"register"} => inst'[q] = [NoInstance EXCEPT !.pc = inst'[q].pc]
        BY <1>2, <1>3, <4>1 DEF ProcInv, Dead
      <4> QED
        BY <1>1, <1>2, <3>1, <4>2 DEF ProcInv
    <3> QED
      BY <2>3, <2>4, <3>1, <3>2, <3>3, <3>5, <3>6, RankBooks
  <2>8. CASE ~inst[p].failed
    <3> DEFINE j == [NoInstance EXCEPT !.pc = "exited"]
    <3>1. inst' = [inst EXCEPT ![p] = j] /\ alive' = alive \ {p}
      BY <1>1, <2>8 DEF ExitInstance, SetInstance
    <3>2. "exited" \notin Waiting \cup {"off"}
      BY DEF Waiting
    <3>3. Edited(j, "exited", None, FALSE)
      BY InstanceGone, InstanceWords
    <3>4. j.pc = "exited" /\ j = [NoInstance EXCEPT !.pc = j.pc]
      BY <3>3 DEF Edited
    <3> HIDE DEF j
    <3>5. RankMoves(p, j, None)
      BY <1>1, <2>2, <2>4, <2>5, <2>6, <3>1 DEF RankMoves
    <3>6. ProcInv'
      <4>1. inst'[p] = j /\ \A q \in InstanceProcs : q # p => inst'[q] = inst[q]
        BY <1>0, <3>1
      <4>2. ASSUME NEW q \in InstanceProcs
            PROVE  /\ q \in alive' <=> inst'[q].pc \notin Dead
                   /\ inst'[q].pc \in Dead \cup {"register"} => inst'[q] = [NoInstance EXCEPT !.pc = inst'[q].pc]
        <5>1. CASE q = p
          BY <3>1, <3>4, <4>1, <5>1 DEF Dead
        <5>2. CASE q # p
          BY <1>2, <3>1, <4>1, <5>2 DEF ProcInv
        <5> QED
          BY <5>1, <5>2
      <4>3. \A q \in AgentProcs : q # p
        BY <1>0, <1>2, StructureTypes
      <4> QED
        BY <1>1, <1>2, <3>1, <4>2, <4>3 DEF ProcInv
    <3>7. Progress(fabric', agent, late, alive', generations)
      BY <2>4, <3>1, ProgressFewer
    <3> QED
      BY <2>3, <3>2, <3>3, <3>5, <3>6, <3>7, RankBooks
  <2> QED
    BY <2>7, <2>8
<1> QED
  BY <1>5, <1>6

(***************************************************************************)
(* A rank takes a lease: the broker gives it away only for an Agent that   *)
(* has published, accepts leases and is in the generation.                 *)
(***************************************************************************)
LEMMA AcquireArenaStep ==
  ASSUME Inv, NEW p \in InstanceProcs, AcquireArena(p), UNCHANGED agentVars
  PROVE  Inv'
<1> DEFINE s == slot[p]
           a == device[s]
           w == book[a].proc
           j == [inst[p] EXCEPT !.pc = "attach"]
<1>0. /\ inst \in [InstanceProcs -> InstanceRecord] /\ p \in Procs /\ s \in Ranks /\ s \in Slots
      /\ inst[p] \in InstanceRecord
  BY RankFacts
<1>1. /\ inst[p].pc = "acquire" /\ acquire_instance_transport_arena(p)
      /\ inst' = [inst EXCEPT ![p] = j] /\ UNCHANGED <<agent, late, alive>>
  BY DEF AcquireArena, SetInstance, At0, agentVars, Kept
<1>2. /\ Owns(p) /\ book[a] # None
      /\ fabric.id # 0 /\ fabric.phase = "executable" /\ fabric.instances[s] = p
      /\ broker[a].owner = w /\ broker[a].accepting /\ s \in broker[a].published
      /\ leases[s] \in {None, w} /\ leases' = [leases EXCEPT ![s] = w]
      /\ UNCHANGED <<startups, book, broker, fabric, forming, generations, sealed, closed>>
  BY <1>1 DEF acquire_instance_transport_arena, Online
<1>3. /\ TypeOK /\ ProcInv /\ RosterInv /\ OwnInv /\ CloseInv /\ BrokerInv /\ LeaseInv
      /\ Progress(fabric, agent, late, alive, generations)
  BY DEF Inv, Structure
<1>u. UNCHANGED <<startups, book, fabric, sealed, closed, agent, alive>>
  BY <1>1, <1>2
<1>v. broker[a].accepting /\ s \in broker[a].published
  BY <1>2
<1>4. a \in Atn /\ a \in Pes /\ a \in Slots
  BY <1>0, <1>3, PlacesAssumption, StructureTypes
<1>5. /\ w \in Procs /\ slot[w] = a /\ agent[w].pc # "off" /\ fabric.agents[a] = w
  BY <1>2, <1>3, <1>4, StructureTypes DEF RosterInv, Member
<1>6. w \in AgentProcs /\ w # None
  BY <1>3, <1>4, <1>5, StructureTypes, PlacesAssumption
<1>7. broker[a] # None
  BY <1>2, <1>3, <1>4 DEF BrokerInv
<1>8. agent[w].pc # "exited"
  <2> SUFFICES ASSUME agent[w].pc = "exited"
               PROVE  FALSE
    OBVIOUS
  <2>1. "executable" \in Early
    BY DEF Early
  <2>2. Spent(a)
    BY <1>2, <1>3, <1>4, <1>5, <2>1 DEF BrokerInv
  <2> QED
    BY <1>v, <1>7, <2>2 DEF Spent
<1>9. w \in alive => agent[w].arenas \notin {"none", "drained"}
  BY <1>2, <1>3, <1>4, <1>5, <1>6, <1>7 DEF BrokerInv
<1>10. inst[p].arena \in {None, w}
  BY <1>2, <1>3 DEF LeaseInv, Attached
<1>11. inst[p].registered
  BY <1>1, <1>3 DEF OwnInv
<1>12. Edited(j, "attach", inst[p].arena, inst[p].registered)
  BY <1>0, InstanceEdits, InstanceWords
<1>13. j \in InstanceRecord /\ j.pc = "attach" /\ j.arena = inst[p].arena /\ j.registered
  BY <1>11, <1>12 DEF Edited
<1> HIDE DEF j
<1>14. inst'[p] = j /\ \A q \in InstanceProcs : q # p => inst'[q] = inst[q]
  BY <1>0, <1>1
<1>15. FrameMoves
  <2>1. inst' \in [InstanceProcs -> InstanceRecord]
    BY <1>0, <1>1, <1>13
  <2>2. \A q \in InstanceProcs : InstanceStays(inst[q], inst'[q])
    <3>1. InstanceStays(inst[p], j)
      BY <1>11, <1>13 DEF InstanceStays
    <3> QED
      BY <1>14, <3>1, InstancesIdle
  <2>3. leases' \in [Ranks -> Procs \cup {None}]
    BY <1>0, <1>2, <1>3, <1>5 DEF TypeOK
  <2>4. /\ alive' \in SUBSET Procs /\ sealed' \in BOOLEAN /\ closed' \in BOOLEAN
        /\ SameBook /\ WorldStays /\ book' \in [Slots -> Registrations \cup {None}]
        /\ late' \in SUBSET Messages /\ fabric' \in Generations \cup {NoGeneration}
    BY <1>1, <1>2, <1>3 DEF TypeOK, SameBook, WorldStays
  <2>5. FormingStays
    BY <1>2, <1>3, FormingSame
  <2> QED
    BY <1>1, <1>2, <2>1, <2>2, <2>3, <2>4, <2>5 DEF FrameMoves
<1>16. ProcInv'
  <2>1. ASSUME NEW q \in InstanceProcs
        PROVE  /\ q \in alive <=> inst'[q].pc \notin Dead
               /\ inst'[q].pc \in Dead \cup {"register"} => inst'[q] = [NoInstance EXCEPT !.pc = inst'[q].pc]
    <3>1. CASE q = p
      BY <1>1, <1>3, <1>13, <1>14, <3>1 DEF ProcInv, Dead
    <3>2. CASE q # p
      BY <1>3, <1>14, <3>2 DEF ProcInv
    <3> QED
      BY <3>1, <3>2
  <2> QED
    BY <1>1, <1>3, <2>1 DEF ProcInv
<1>17. TypeOK' /\ AdmitInv' /\ RosterInv' /\ OwnInv' /\ BrokerInv'
  BY <1>15, <1>16, FrameWorld
<1>18. CloseInv'
  BY <1>u, <1>3 DEF CloseInv
<1>19. LeaseInv'
  <2> SUFFICES ASSUME NEW q \in InstanceProcs, AttachedNext(q)
               PROVE  LET o == leases'[slot[q]] IN
                      /\ o \in AgentProcs /\ inst'[q].arena \in {None, o} /\ slot[o] = device[slot[q]]
                      /\ agent[o].pc \notin {"off", "exited"}
                      /\ o \in alive => agent[o].arenas \notin {"none", "drained"}
                      /\ fabric.id # 0 /\ fabric.instances[slot[q]] = q
    BY <1>u DEF LeaseInv, Attached, AttachedNext
  <2>1. CASE q = p
    <3>1. leases'[slot[q]] = w
      BY <1>0, <1>2, <1>3, <2>1 DEF TypeOK
    <3> QED
      BY <1>2, <1>5, <1>6, <1>8, <1>9, <1>10, <1>13, <1>14, <2>1, <3>1
  <2>2. CASE q # p
    <3>1. Attached(q) /\ inst'[q] = inst[q]
      BY <1>14, <2>2 DEF AttachedNext, Attached
    <3>2. Owns(q)
      BY <1>3, <3>1 DEF OwnInv, Attached
    <3>3. slot[q] # s
      BY <1>2, <2>2, <3>2 DEF Owns
    <3>4. leases'[slot[q]] = leases[slot[q]]
      BY <1>2, <1>3, <3>3, StructureTypes DEF TypeOK
    <3> QED
      BY <1>3, <3>1, <3>4 DEF LeaseInv
  <2> QED
    BY <2>1, <2>2
<1> QED
  BY <1>1, <1>2, <1>3, <1>16, <1>17, <1>18, <1>19 DEF Inv, Structure

-----------------------------------------------------------------------------
(* The formation of a plan.                                                *)

(* A roster of members of the book, none of which has left once probed.    *)
LEMMA FormingKeeps ==
  ASSUME Inv, UNCHANGED <<agent, inst, alive, startups, book, broker, leases, fabric, generations>>,
         UNCHANGED <<late, sealed, closed>>, forming' \in Rosters, fabric.id = 0,
         \A pe \in Pes : Member(pe, forming'.agents[pe]),
         \A r \in Ranks : Member(r, forming'.instances[r]),
         forming'.current => \A pe \in Pes : book[pe] # None /\ book[pe].proc = forming'.agents[pe],
         forming'.probed => \A a \in Atn : agent[forming'.agents[a]].pc # "exited"
  PROVE  Inv'
<1>1. /\ TypeOK /\ ProcInv /\ AdmitInv /\ RosterInv /\ OwnInv /\ CloseInv /\ BrokerInv /\ LeaseInv
      /\ Progress(fabric, agent, late, alive, generations)
  BY DEF Inv, Structure
<1>2. TypeOK'
  BY <1>1 DEF TypeOK
<1>3. ProcInv' /\ AdmitInv' /\ CloseInv'
  BY <1>1 DEF ProcInv, AdmitInv, CloseInv
<1>4. OwnInv'
  BY <1>1 DEF OwnInv, Owns
<1>5. LeaseInv'
  BY <1>1 DEF LeaseInv, Attached
<1>6. RosterInv'
  BY <1>1 DEF RosterInv, Member
<1>7. BrokerInv'
  BY <1>1 DEF BrokerInv, Member, Spent
<1>8. Progress(fabric', agent', late', alive', generations')
  BY <1>1
<1> QED
  BY <1>2, <1>3, <1>4, <1>5, <1>6, <1>7, <1>8 DEF Inv, Structure

(* ensure_fabric_plan captures the membership that the book lists.         *)
LEMMA CaptureStep ==
  ASSUME Inv, NEW p \in Procs, capture_membership(p), ~FormationEnds,
         UNCHANGED <<agent, inst, alive, late>>
  PROVE  Inv'
<1> DEFINE A == [pe \in Pes |-> book[pe].proc]
           I == [r \in Ranks |-> book[r].proc]
           f == [by |-> p, current |-> TRUE, probed |-> FALSE, agents |-> A, instances |-> I]
<1>1. /\ forming' = f
      /\ UNCHANGED <<startups, book, broker, leases, fabric, generations, sealed, closed>>
  BY DEF capture_membership
<1>2. fabric.id = 0 /\ \A s \in Slots : book[s] # None
  BY DEF FormationEnds, Complete
<1>3. TypeOK /\ RosterInv
  BY DEF Inv, Structure
<1>4. \A s \in Slots : book[s].proc \in Procs /\ Member(s, book[s].proc)
  BY <1>2, <1>3, StructureTypes DEF RosterInv
<1>5. /\ A \in [Pes -> Procs] /\ \A pe \in Pes : A[pe] = book[pe].proc
      /\ I \in [Ranks -> Procs] /\ \A r \in Ranks : I[r] = book[r].proc
  BY <1>3, <1>4, StructureTypes
<1> HIDE DEF A, I
<1>6. f \in Rosters
  BY <1>5 DEF Rosters
<1>7. f.agents = A /\ f.instances = I /\ f.probed = FALSE
  OBVIOUS
<1> HIDE DEF f
<1>8. /\ \A pe \in Pes : book[pe] # None /\ Member(pe, A[pe]) /\ book[pe].proc = A[pe]
      /\ \A r \in Ranks : Member(r, I[r])
  BY <1>2, <1>3, <1>4, <1>5, StructureTypes
<1> QED
  BY <1>1, <1>2, <1>6, <1>7, <1>8, FormingKeeps

(* The registration call of an Agent returns.                              *)
LEMMA RegisteredFields ==
  ASSUME NEW a \in AgentRecord, a.pc = "form", RecordInv(a)
  PROVE  /\ Registered(a) \in AgentRecord /\ Turned(a, Registered(a))
         /\ Registered(a).pc = "loop" /\ Registered(a).registered /\ Registered(a).arenas = a.arenas
<1> DEFINE b == [a EXCEPT !.pc = "loop", !.registered = TRUE]
<1>1. b \in AgentRecord
  <2>1. "loop" \in AgentPcs
    BY SMT DEF AgentPcs
  <2> QED
    BY <2>1 DEF AgentRecord
<1>2. /\ b.pc = "loop" /\ b.plan = a.plan /\ b.view = a.view /\ b.inbox = a.inbox
      /\ b.report = a.report /\ b.native = a.native /\ b.arenas = a.arenas /\ b.sent = a.sent
  BY SMT DEF AgentRecord
<1>3. b.registered = TRUE /\ b.enriching = a.enriching
  BY DEF AgentRecord
<1> HIDE DEF b
<1>4. a.sent = None
  BY DEF RecordInv
<1>5. Turned(a, b)
  BY <1>2, <1>3, <1>4 DEF Turned
<1> QED
  BY <1>1, <1>2, <1>3, <1>5 DEF Registered, b

(* What the return leaves as it was.                                       *)
Returned ==
  /\ agent' \in [AgentProcs -> AgentRecord] /\ inst' \in [InstanceProcs -> InstanceRecord]
  /\ ProcInv' /\ AdmitInv' /\ AllStay /\ OwnInv' /\ CloseInv'
  /\ \A p \in AgentProcs : /\ agent'[p].arenas = agent[p].arenas
                           /\ agent'[p].pc = "exited" => agent[p].pc = "exited"
  /\ \A p \in InstanceProcs : /\ inst'[p].arena = inst[p].arena
                              /\ inst'[p].pc = "attach" => inst[p].pc = "attach"
  /\ Progress(fabric, agent', late, alive, generations)

(***************************************************************************)
(* The return of the registration call moves only the caller's main        *)
(* thread.                                                                 *)
(***************************************************************************)
LEMMA ReturnsWorld ==
  ASSUME Inv, NEW q \in Procs, Returns(q),
         UNCHANGED <<alive, startups, book, broker, sealed, closed>>
  PROVE  Returned
<1>1. /\ TypeOK /\ ProcInv /\ AdmitInv /\ RosterInv /\ OwnInv /\ CloseInv
      /\ Progress(fabric, agent, late, alive, generations)
  BY DEF Inv, Structure
<1>2. SameBook /\ SameOwners
  BY <1>1, BrokerSame DEF SameBook
<1>3. /\ agent \in [AgentProcs -> AgentRecord] /\ inst \in [InstanceProcs -> InstanceRecord]
      /\ fabric \in Generations \cup {NoGeneration} /\ late \in SUBSET Messages
  BY <1>1 DEF TypeOK
<1>4. q \in AgentProcs => q \notin InstanceProcs
  BY <1>1, StructureTypes
<1>5. CASE q \in AgentProcs /\ agent[q].pc = "form"
  <2> DEFINE b == Registered(agent[q])
  <2>1. agent' = [agent EXCEPT ![q] = b] /\ inst' = inst
    BY <1>4, <1>5 DEF Returns
  <2>2. Live(agent[q]) /\ agent[q] \in AgentRecord /\ RecordInv(agent[q])
    <3>1. Live(agent[q])
      BY <1>5 DEF Live, Dead
    <3> QED
      BY <1>5, <3>1, LiveAgent DEF AgentInv
  <2>3. b \in AgentRecord /\ Turned(agent[q], b) /\ b.pc = "loop" /\ b.arenas = agent[q].arenas
    BY <1>5, <2>2, RegisteredFields
  <2> HIDE DEF b
  <2>4. Steps(agent[q], b) /\ Carries(q, b)
    BY <1>5, <2>2, <2>3, TurnCarries
  <2>5. /\ agent'[q] = b /\ \A p \in AgentProcs : p # q => agent'[p] = agent[p]
        /\ agent' \in [AgentProcs -> AgentRecord]
        /\ ProcInv' /\ AdmitInv' /\ AllStay /\ OwnInv' /\ CloseInv'
    BY <1>2, <1>5, <2>1, <2>2, <2>3, <2>4, AgentShell DEF Steps
  <2>6. Progress(fabric, agent', late, alive, generations)
    BY <1>1, <1>3, <2>1, <2>4 DEF Carries
  <2>7. \A p \in AgentProcs : /\ agent'[p].arenas = agent[p].arenas
                              /\ agent'[p].pc = "exited" => agent[p].pc = "exited"
    BY <2>3, <2>5
  <2> QED
    BY <1>3, <2>1, <2>5, <2>6, <2>7 DEF Returned
<1>6. CASE ~(q \in AgentProcs /\ agent[q].pc = "form")
  <2>1. agent' = agent
    BY <1>6 DEF Returns
  <2>2. AgentsStay
    BY <1>1, <2>1 DEF AgentsStay, AgentStays, OwnInv, Dead
  <2>3. AdmitInv'
    BY <1>1, <2>1 DEF AdmitInv
  <2>4. CloseInv'
    BY <1>1, <1>2, CloseStays
  <2>5. CASE q \in InstanceProcs /\ inst[q].pc = "form"
    <3> DEFINE j == [inst[q] EXCEPT !.pc = "wait", !.registered = TRUE]
    <3>1. inst' = [inst EXCEPT ![q] = j]
      BY <2>5 DEF Returns, InstanceRegistered
    <3>2. Edited(j, "wait", inst[q].arena, TRUE)
      BY <1>3, <2>5, InstanceEdits, InstanceWords
    <3>3. j \in InstanceRecord /\ j.pc = "wait" /\ j.arena = inst[q].arena /\ j.registered
      BY <3>2 DEF Edited
    <3> HIDE DEF j
    <3>4. inst'[q] = j /\ \A p \in InstanceProcs : p # q => inst'[p] = inst[p]
      BY <1>3, <2>5, <3>1
    <3>5. inst' \in [InstanceProcs -> InstanceRecord]
      BY <1>3, <3>1, <3>3
    <3>6. \A p \in InstanceProcs : InstanceStays(inst[p], inst'[p])
      <4>1. InstanceStays(inst[q], j)
        BY <2>5, <3>3 DEF InstanceStays
      <4> QED
        BY <3>4, <4>1, InstancesIdle
    <3>7. ProcInv'
      <4>1. ASSUME NEW p \in InstanceProcs
            PROVE  /\ p \in alive <=> inst'[p].pc \notin Dead
                   /\ inst'[p].pc \in Dead \cup {"register"} => inst'[p] = [NoInstance EXCEPT !.pc = inst'[p].pc]
        <5>1. CASE p = q
          BY <1>1, <2>5, <3>3, <3>4, <5>1 DEF ProcInv, Dead
        <5>2. CASE p # q
          BY <1>1, <3>4, <5>2 DEF ProcInv
        <5> QED
          BY <5>1, <5>2
      <4> QED
        BY <1>1, <2>1, <4>1 DEF ProcInv
    <3>8. AllStay
      BY <2>2, <3>6 DEF AllStay
    <3>9. OwnInv'
      BY <1>1, <1>2, <3>8, OwnStays
    <3>10. \A p \in InstanceProcs : /\ inst'[p].arena = inst[p].arena
                                    /\ inst'[p].pc = "attach" => inst[p].pc = "attach"
      BY <3>3, <3>4
    <3> QED
      BY <1>1, <1>3, <2>1, <2>3, <2>4, <3>5, <3>7, <3>8, <3>9, <3>10 DEF Returned
  <2>6. CASE ~(q \in InstanceProcs /\ inst[q].pc = "form")
    <3>1. inst' = inst
      BY <2>6 DEF Returns
    <3>2. AllStay
      BY <2>2, <3>1, InstancesIdle DEF AllStay
    <3>3. ProcInv'
      BY <1>1, <2>1, <3>1 DEF ProcInv
    <3>4. OwnInv'
      BY <1>1, <1>2, <3>2, OwnStays
    <3> QED
      BY <1>1, <1>3, <2>1, <2>3, <2>4, <3>1, <3>2, <3>3, <3>4 DEF Returned
  <2> QED
    BY <2>5, <2>6
<1> QED
  BY <1>5, <1>6

(* The roster is dropped and the call returns.                             *)
LEMMA ReturnsStep ==
  ASSUME Inv, NEW q \in Procs, Returns(q), forming' = None,
         UNCHANGED <<alive, startups, book, broker, leases, fabric, generations, sealed, closed, late>>
  PROVE  Inv'
<1>1. /\ TypeOK /\ ProcInv /\ RosterInv /\ BrokerInv /\ LeaseInv
  BY DEF Inv, Structure
<1>2. Returned
  BY ReturnsWorld
<1>3. /\ agent' \in [AgentProcs -> AgentRecord] /\ inst' \in [InstanceProcs -> InstanceRecord]
      /\ ProcInv' /\ AdmitInv' /\ AllStay /\ OwnInv' /\ CloseInv' /\ AgentsStay
      /\ Progress(fabric, agent', late, alive, generations)
  BY <1>2 DEF Returned, AllStay
<1>4. /\ \A p \in AgentProcs : /\ agent'[p].arenas = agent[p].arenas
                               /\ agent'[p].pc = "exited" => agent[p].pc = "exited"
      /\ \A p \in InstanceProcs : /\ inst'[p].arena = inst[p].arena
                                  /\ inst'[p].pc = "attach" => inst[p].pc = "attach"
  BY <1>2 DEF Returned
<1>5. FormingStays /\ WorldStays /\ SameBook
  BY DEF FormingStays, WorldStays, SameBook
<1>6. TypeOK'
  BY <1>1, <1>3 DEF TypeOK
<1>7. RosterInv'
  BY <1>1, <1>3, <1>5, RosterStays
<1>8. BrokerInv'
  <2>1. MembersKept
    BY <1>1, <1>3, MembersStay
  <2>2. BrokerStays
    BY <1>1, BrokerSame
  <2>3. ArenasStay
    BY <1>4 DEF ArenasStay
  <2>4. ExitsSpent
    BY <1>4 DEF ExitsSpent
  <2> QED
    BY <1>1, <1>3, <1>5, <2>1, <2>2, <2>3, <2>4, BrokerInvStays
<1>9. LeaseInv'
  <2>1. ASSUME NEW p \in InstanceProcs, AttachedNext(p)
        PROVE  /\ Attached(p) /\ leases'[slot[p]] = leases[slot[p]]
               /\ inst'[p].arena \in {None, inst[p].arena, leases[slot[p]]}
               /\ LendsNext(leases[slot[p]])
    <3>1. Attached(p) /\ inst'[p].arena = inst[p].arena
      BY <1>4, <2>1 DEF Attached, AttachedNext
    <3>2. leases[slot[p]] \in AgentProcs /\ agent[leases[slot[p]]].pc # "exited"
      BY <1>1, <3>1 DEF LeaseInv
    <3>3. LendsNext(leases[slot[p]])
      BY <1>1, <1>3, <1>4, <3>1, <3>2, LendersStay
    <3> QED
      BY <3>1, <3>3
  <2> QED
    BY <1>1, <1>5, <2>1, LeaseStays
<1>10. Progress(fabric', agent', late', alive', generations')
  BY <1>3
<1> QED
  BY <1>3, <1>6, <1>7, <1>8, <1>9, <1>10 DEF Inv, Structure

(* What a roster under way says.                                           *)
LEMMA RosterFacts ==
  ASSUME Inv, forming # None
  PROVE  /\ forming \in Rosters /\ forming.by \in Procs /\ fabric.id = 0
         /\ forming.agents \in [Pes -> Procs] /\ forming.instances \in [Ranks -> Procs]
         /\ \A pe \in Pes : /\ Member(pe, forming.agents[pe])
                            /\ forming.agents[pe] \in AgentProcs /\ slot[forming.agents[pe]] = pe
         /\ \A r \in Ranks : Member(r, forming.instances[r])
         /\ forming.current => \A pe \in Pes : book[pe] # None /\ book[pe].proc = forming.agents[pe]
<1>1. TypeOK /\ RosterInv
  BY DEF Inv, Structure
<1>2. forming \in Rosters
  BY <1>1 DEF TypeOK
<1>3. /\ forming.by \in Procs /\ forming.agents \in [Pes -> Procs]
      /\ forming.instances \in [Ranks -> Procs]
  BY <1>2, SMT DEF Rosters
<1>4. /\ fabric.id = 0 /\ \A pe \in Pes : Member(pe, forming.agents[pe])
      /\ \A r \in Ranks : Member(r, forming.instances[r])
      /\ forming.current => \A pe \in Pes : book[pe] # None /\ book[pe].proc = forming.agents[pe]
  BY <1>1 DEF RosterInv
<1>5. \A pe \in Pes : forming.agents[pe] \in AgentProcs /\ slot[forming.agents[pe]] = pe
  BY <1>3, <1>4 DEF Member, AgentProcs
<1> QED
  BY <1>2, <1>3, <1>4, <1>5

(* The captured members are probed, outside the lock.                      *)
LEMMA ProbeMembersStep ==
  ASSUME Inv, ProbeMembers
  PROVE  Inv'
<1>1. /\ forming # None /\ UNCHANGED <<alive, late>>
      /\ forming' = IF MembersAlive THEN [forming EXCEPT !.probed = TRUE] ELSE None
      /\ IF MembersAlive THEN UNCHANGED <<agent, inst>> ELSE Returns(forming.by)
      /\ UNCHANGED <<startups, book, broker, leases, fabric, generations, sealed, closed>>
  BY DEF ProbeMembers, probe_membership
<1>2. /\ forming \in Rosters /\ forming.by \in Procs /\ fabric.id = 0
      /\ \A pe \in Pes : /\ Member(pe, forming.agents[pe])
                         /\ forming.agents[pe] \in AgentProcs /\ slot[forming.agents[pe]] = pe
      /\ \A r \in Ranks : Member(r, forming.instances[r])
      /\ forming.current => \A pe \in Pes : book[pe] # None /\ book[pe].proc = forming.agents[pe]
  BY <1>1, RosterFacts
<1>3. CASE MembersAlive
  <2> DEFINE f == [forming EXCEPT !.probed = TRUE]
  <2>1. f \in Rosters
    BY <1>2 DEF Rosters
  <2>2. f.agents = forming.agents /\ f.instances = forming.instances
    BY <1>2, SMT DEF Rosters
  <2>3. f.current = forming.current
    BY <1>2 DEF Rosters
  <2>4. forming' = f /\ UNCHANGED <<agent, inst>>
    BY <1>1, <1>3
  <2> HIDE DEF f
  <2>5. \A a \in Atn : agent[forming.agents[a]].pc # "exited"
    <3> TAKE a \in Atn
    <3>1. a \in Pes
      BY StructureTypes DEF Inv
    <3>2. forming.agents[a] \in alive
      BY <1>3, <3>1 DEF MembersAlive, Owners
    <3> QED
      BY <1>2, <3>1, <3>2 DEF Inv, Structure, ProcInv, Dead
  <2> QED
    BY <1>1, <1>2, <2>1, <2>2, <2>3, <2>4, <2>5, FormingKeeps
<1>4. CASE ~MembersAlive
  <2>1. forming' = None /\ Returns(forming.by)
    BY <1>1, <1>4
  <2> QED
    BY <1>1, <1>2, <2>1, ReturnsStep
<1> QED
  BY <1>3, <1>4

NewGeneration(h, n, A, I) ==
  /\ h \in Generations /\ h.id = n + 1 /\ h.phase = "preparing_join"
  /\ h.agents = A /\ h.instances = I /\ h.participants = [pe \in Pes |-> None]

(* A new generation has the captured members and no report.                *)
LEMMA InstallFields ==
  ASSUME NEW n \in Nat, NEW A \in [Pes -> Procs], NEW I \in [Ranks -> Procs]
  PROVE  NewGeneration(install(n + 1, A, I), n, A, I)
<1>0. "preparing_join" \in GenerationPhases
  BY DEF GenerationPhases, StartPhases
<1>1. n + 1 \in Nat \ {0}
  BY SMT
<1>2. [pe \in Pes |-> None] \in [Pes -> MaybeReport]
  BY DEF MaybeReport
<1> DEFINE m == n + 1
           P == [pe \in Pes |-> None]
<1> HIDE DEF m, P
<1>3. install(m, A, I) \in Generations
  BY <1>0, <1>1, <1>2 DEF install, Generations, m, P
<1>4. /\ install(m, A, I).id = m /\ install(m, A, I).phase = "preparing_join"
      /\ install(m, A, I).agents = A /\ install(m, A, I).instances = I
      /\ install(m, A, I).participants = P
  BY DEF install, P
<1> QED
  BY <1>3, <1>4 DEF NewGeneration, m, P

(***************************************************************************)
(* A plan is committed: nobody is attached, since no generation was        *)
(* retained, and no member that has left can be leased from.               *)
(***************************************************************************)
LEMMA CommitPlanStep ==
  ASSUME Inv, CommitPlan
  PROVE  Inv'
<1>1. /\ forming # None /\ forming.probed /\ forming' = None /\ UNCHANGED <<alive, late>>
      /\ Returns(forming.by) /\ UNCHANGED <<startups, book, broker, leases, sealed, closed>>
      /\ IF Committable
           THEN /\ fabric' = install(generations + 1, forming.agents, forming.instances)
                /\ generations' = generations + 1
           ELSE UNCHANGED <<fabric, generations>>
  BY DEF CommitPlan, commit_plan
<1>2. /\ forming.by \in Procs /\ fabric.id = 0
      /\ forming.agents \in [Pes -> Procs] /\ forming.instances \in [Ranks -> Procs]
      /\ \A pe \in Pes : /\ Member(pe, forming.agents[pe])
                         /\ forming.agents[pe] \in AgentProcs /\ slot[forming.agents[pe]] = pe
      /\ \A r \in Ranks : Member(r, forming.instances[r])
      /\ forming.current => \A pe \in Pes : book[pe] # None /\ book[pe].proc = forming.agents[pe]
  BY <1>1, RosterFacts
<1>3. CASE ~Committable
  <2>1. UNCHANGED <<fabric, generations>>
    BY <1>1, <1>3
  <2> QED
    BY <1>1, <1>2, <2>1, ReturnsStep
<1>4. CASE Committable
  <2>1. /\ TypeOK /\ ProcInv /\ RosterInv /\ BrokerInv /\ LeaseInv
    BY DEF Inv, Structure
  <2>2. Returned
    BY <1>1, <1>2, ReturnsWorld
  <2>3. /\ agent' \in [AgentProcs -> AgentRecord] /\ inst' \in [InstanceProcs -> InstanceRecord]
        /\ ProcInv' /\ AdmitInv' /\ AllStay /\ OwnInv' /\ CloseInv' /\ AgentsStay
        /\ Progress(fabric, agent', late, alive, generations)
    BY <2>2 DEF Returned, AllStay
  <2>4. /\ \A p \in AgentProcs : /\ agent'[p].arenas = agent[p].arenas
                                 /\ agent'[p].pc = "exited" => agent[p].pc = "exited"
        /\ \A p \in InstanceProcs : /\ inst'[p].arena = inst[p].arena
                                    /\ inst'[p].pc = "attach" => inst[p].pc = "attach"
    BY <2>2 DEF Returned
  <2>5. generations \in Nat /\ late \in SUBSET Messages
    BY <2>1 DEF TypeOK
  <2>6. /\ fabric' = install(generations + 1, forming.agents, forming.instances)
        /\ generations' = generations + 1 /\ forming.current
    BY <1>1, <1>4 DEF Committable
  <2>7. /\ fabric' \in Generations /\ fabric'.id = generations + 1 /\ fabric'.phase = "preparing_join"
        /\ fabric'.agents = forming.agents /\ fabric'.instances = forming.instances
        /\ fabric'.participants = [pe \in Pes |-> None]
    <3>1. NewGeneration(fabric', generations, forming.agents, forming.instances)
      BY <1>2, <2>5, <2>6, InstallFields
    <3> QED
      BY <3>1 DEF NewGeneration
  <2>8. TypeOK'
    <3>1. generations' \in Nat
      BY <2>5, <2>6, SMT
    <3> QED
      BY <1>1, <2>1, <2>3, <2>7, <3>1 DEF TypeOK
  <2>9. MembersKept
    BY <2>1, <2>3, MembersStay
  <2>10. RosterInv'
    <3>1. \A s \in Slots : book[s] # None => MemberNext(s, book[s].proc)
      BY <2>1, <2>9, StructureTypes DEF RosterInv, MembersKept
    <3>2. /\ \A pe \in Pes : MemberNext(pe, forming.agents[pe])
          /\ \A r \in Ranks : MemberNext(r, forming.instances[r])
      BY <1>2, <2>9 DEF MembersKept
    <3>3. \A pe \in Pes : book[pe] # None /\ book[pe].proc = forming.agents[pe]
      BY <1>2, <2>6
    <3>4. forming' = None /\ book' = book
      BY <1>1
    <3>5. /\ \A pe \in Pes : /\ MemberNext(pe, fabric'.agents[pe])
                              /\ book'[pe] # None /\ book'[pe].proc = fabric'.agents[pe]
          /\ \A r \in Ranks : MemberNext(r, fabric'.instances[r])
      BY <2>7, <3>2, <3>3, <3>4
    <3> QED
      BY <3>1, <3>4, <3>5 DEF RosterInv, Member, MemberNext
  <2>11. BrokerInv'
    <3>0. broker' = broker /\ book' = book /\ alive' = alive /\ forming' = None
      BY <1>1
    <3>1. \A a \in Atn : /\ book[a] # None => broker[a] # None
                         /\ broker[a] # None => MemberNext(a, broker[a].owner)
      <4>1. \A a \in Atn : /\ book[a] # None => broker[a] # None
                           /\ broker[a] # None => Member(a, broker[a].owner)
        BY <2>1 DEF BrokerInv
      <4> QED
        BY <2>1, <2>9, <4>1, StructureTypes DEF MembersKept
    <3>2. \A p \in AgentProcs \cap alive :
            slot[p] \in Atn /\ broker[slot[p]] # None /\ broker[slot[p]].owner = p =>
              /\ broker[slot[p]].published # {} => agent'[p].arenas # "none"
              /\ agent'[p].arenas = "drained" => ~broker[slot[p]].accepting
      BY <2>1, <2>4 DEF BrokerInv
    <3>3. ASSUME NEW a \in Atn, agent'[forming.agents[a]].pc = "exited"
          PROVE  Spent(a)
      <4>1. forming.agents[a] \in AgentProcs
        BY <1>2, <2>1, StructureTypes
      <4>2. agent[forming.agents[a]].pc = "exited"
        BY <2>4, <3>3, <4>1
      <4> QED
        BY <1>1, <2>1, <2>6, <4>2 DEF BrokerInv
    <3>4. \A a \in Atn : agent'[fabric'.agents[a]].pc = "exited" => Spent(a)
      BY <2>7, <3>3
    <3> QED
      BY <3>0, <3>1, <3>2, <3>4 DEF BrokerInv, Member, MemberNext, Spent
  <2>12. LeaseInv'
    <3>1. \A p \in InstanceProcs : ~Attached(p)
      BY <1>2, <2>1 DEF LeaseInv
    <3> QED
      BY <2>4, <3>1 DEF LeaseInv, Attached
  <2>13. Progress(fabric', agent', late', alive', generations')
    <3>1. Placed(fabric')
      BY <1>2, <2>7 DEF Placed
    <3>2. Progress(fabric', agent', late, alive, generations + 1)
      BY <1>2, <2>3, <2>5, <2>7, <3>1, ProgressInstalls
    <3> QED
      BY <1>1, <2>6, <3>2
  <2> QED
    BY <2>3, <2>8, <2>10, <2>11, <2>12, <2>13 DEF Inv, Structure
<1> QED
  BY <1>3, <1>4

(* The registration call of a rank forms the plan.                         *)
LEMMA FormPlanForInstanceStep ==
  ASSUME Inv, NEW p \in InstanceProcs, FormPlanForInstance(p), UNCHANGED agentVars
  PROVE  Inv'
<1>1. /\ inst[p].pc = "form" /\ forming = None /\ capture_membership(p)
      /\ IF FormationEnds THEN inst' = [inst EXCEPT ![p] = InstanceRegistered(inst[p])] ELSE UNCHANGED inst
      /\ UNCHANGED <<alive, agent, late>>
  BY DEF FormPlanForInstance, At0, SetInstance, Kept, agentVars
<1>2. inst[p] \in InstanceRecord /\ p \in Procs
  BY RankFacts
<1>3. CASE FormationEnds
  <2> DEFINE j == InstanceRegistered(inst[p])
  <2>1. Edited(j, "wait", inst[p].arena, TRUE)
    BY <1>2, InstanceEdits, InstanceWords DEF InstanceRegistered
  <2>2. DaemonKept /\ inst' = [inst EXCEPT ![p] = j]
    BY <1>1, <1>3 DEF capture_membership, DaemonKept
  <2>3. inst[p].pc \notin Dead /\ "wait" \notin Dead \cup {"register"}
    BY <1>1 DEF Dead
  <2>4. inst[p].arena # None => Attached(p)
    BY DEF Attached
  <2> HIDE DEF j
  <2> QED
    BY <1>1, <2>1, <2>2, <2>3, <2>4, RankLocal
<1>4. CASE ~FormationEnds
  BY <1>1, <1>2, <1>4, CaptureStep
<1> QED
  BY <1>3, <1>4
=============================================================================
