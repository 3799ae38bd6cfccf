-------------------------- MODULE DaemonScopeProofs --------------------------
(***************************************************************************)
(* Proofs about the daemon process and the MPS controller it owns.  The    *)
(* invariant Inv of DaemonScope is inductive for any sets of Agents,       *)
(* Instance ranks and servers; one lemma per group of actions.             *)
(***************************************************************************)
EXTENDS DaemonScope, TLAPS

(* The fields of the scope that a step leaves alone.                       *)
ScopeKept ==
  /\ ctl' \in Fields /\ ctl'.scope = ctl.scope /\ ctl'.identity = ctl.identity
  /\ ctl'.scope_closed = ctl.scope_closed /\ ctl'.closed = ctl.closed

(* The state the daemon starts from satisfies the invariant.               *)
LEMMA InitInv == Init => Inv
<1> SUFFICES ASSUME Init PROVE Inv
  OBVIOUS
<1> USE DEF Init, Idle
<1>1. TypeOK
  BY DEF TypeOK, Fields, Call
<1>2. LockInv /\ PhaseInv
  BY Zenon DEF LockInv, PhaseInv, Stopping
<1>3. ClientInv /\ CheckInv
  BY DEF ClientInv, CheckInv
<1>4. ReleaseInv
  BY Zenon DEF ReleaseInv, Halted, ControllerRuns
<1>5. TermInv /\ TerminationHolds
  BY DEF TermInv, TerminationHolds
<1> QED
  BY <1>1, <1>2, <1>3, <1>4, <1>5 DEF Inv

(* A step that leaves the processes, the servers and the phases of stop    *)
(* alone keeps what the invariant says of the clients.                     *)
LEMMA ClientsKept ==
  ASSUME Inv, UNCHANGED <<owner, live, ctx, cleanup, late>>, ctl'.todo = ctl.todo,
         ctrl' = "none" => ctrl = "none"
  PROVE  ClientInv' /\ CheckInv'
<1>1. Retained' = Retained
  BY DEF Retained
<1> QED
  BY <1>1, Zenon DEF Inv, ClientInv, CheckInv

(* begin_close seals, and may mark the scope as retiring.                  *)
LEMMA BeginClose ==
  ASSUME NEW c \in Fields
  PROVE  /\ begin_close(c) \in Fields /\ begin_close(c).sealed
         /\ begin_close(c).scope = c.scope /\ begin_close(c).identity = c.identity
         /\ begin_close(c).scope_closed = c.scope_closed /\ begin_close(c).closed = c.closed
         /\ begin_close(c).lock = c.lock /\ begin_close(c).todo = c.todo
  BY Zenon DEF begin_close, Fields

(* Signals, failures and the deadline only seal (handle_exit, record,      *)
(* deadline_passes, startup_raises).                                       *)
LEMMA SealingKeeps ==
  ASSUME Inv, handle_exit \/ record \/ deadline_passes \/ startup_raises
  PROVE  Inv'
<1>1. ctl \in Fields
  BY DEF Inv, TypeOK
<1>2. /\ ScopeKept /\ ctl'.lock = ctl.lock /\ ctl'.todo = ctl.todo
      /\ ctl.sealed \/ main' # main => ctl'.sealed
  <2>1. CASE handle_exit \/ record \/ startup_raises
    <3>1. ctl' = begin_close(ctl)
      BY <2>1, Zenon DEF handle_exit, record, startup_raises
    <3> QED
      BY <1>1, <3>1, BeginClose, Zenon DEF ScopeKept
  <2>2. CASE deadline_passes
    BY <1>1, <2>2, Zenon DEF deadline_passes, ScopeKept
  <2> QED
    BY <2>1, <2>2
<1>3. /\ main' # main => Starting /\ main' = "close"
      /\ UNCHANGED <<cleanup, term, folder, owner, proven, ctrl, live, spawned, ctx, poisoned, late>>
      /\ clock' \in {clock, "running", "expired"}
  BY DEF handle_exit, record, deadline_passes, startup_raises, Sealing, mps
<1>4. TypeOK'
  BY <1>2, <1>3, ZenonT(40) DEF Inv, TypeOK, ScopeKept
<1>5. LockInv'
  BY <1>2, <1>3, Zenon DEF Inv, LockInv, Stopping
<1>6. PhaseInv'
  BY <1>2, <1>3, Zenon DEF Inv, PhaseInv, ScopeKept, Starting
<1>7. ClientInv' /\ CheckInv'
  BY <1>2, <1>3, ClientsKept, Zenon
<1>8. ReleaseInv'
  BY <1>2, <1>3, Zenon DEF Inv, ReleaseInv, ScopeKept, Starting, Halted, ControllerRuns
<1>9. TermInv' /\ TerminationHolds'
  BY <1>3, Zenon DEF Inv, TermInv, TerminationHolds
<1> QED
  BY <1>4, <1>5, <1>6, <1>7, <1>8, <1>9, Zenon DEF Inv

(* The scope is created, and its directory made and claimed.               *)
LEMMA ClaimKeeps ==
  ASSUME Inv, ((create_scope \/ make_directory) /\ ~ctl.sealed) \/ claim_directory
  PROVE  Inv'
<1>1. ctl \in Fields /\ folder \in {"absent", "old", "own", "foreign", "raced"}
  BY Zenon DEF Inv, TypeOK
<1>2. /\ UNCHANGED <<clock, cleanup, term, owner, proven, ctrl, live, spawned, ctx, poisoned, late>>
      /\ ctl' \in Fields /\ ctl'.sealed = ctl.sealed /\ ctl'.closed = ctl.closed
      /\ ctl'.scope_closed = ctl.scope_closed /\ ctl'.lock = ctl.lock /\ ctl'.todo = ctl.todo
      /\ \/ main = "scope" /\ main' = "claim" /\ ctl'.scope /\ ctl'.identity = ctl.identity /\ folder' = folder
         \/ /\ main = "claim" /\ main' = "identify" /\ ctl'.scope = ctl.scope
            /\ ctl'.identity = ctl.identity /\ folder' = "own"
         \/ /\ main = "identify" /\ main' = "log" /\ ctl'.scope = ctl.scope
            /\ ctl'.identity = folder /\ folder \in {"own", "raced"} /\ folder' = folder
  <2>1. CASE create_scope /\ ~ctl.sealed
    BY <1>1, <2>1, Zenon DEF create_scope, mps, Fields
  <2>2. CASE make_directory /\ ~ctl.sealed
    BY <1>1, <2>2, Zenon DEF make_directory, mps
  <2>3. CASE claim_directory
    <3>1. main = "identify" /\ folder \in {"own", "raced"}
      BY <2>3, Zenon DEF claim_directory, Inv, ReleaseInv
    <3>2. ctl' = [ctl EXCEPT !.identity = folder]
      BY <2>3, Zenon DEF claim_directory
    <3>3. /\ ctl' \in Fields /\ ctl'.sealed = ctl.sealed /\ ctl'.closed = ctl.closed
          /\ ctl'.scope_closed = ctl.scope_closed /\ ctl'.lock = ctl.lock /\ ctl'.todo = ctl.todo
          /\ ctl'.scope = ctl.scope /\ ctl'.identity = folder
      BY <1>1, <3>1, <3>2, Zenon DEF Fields
    <3> QED
      BY <2>3, <3>1, <3>3, Zenon DEF claim_directory, mps
  <2> QED
    BY <2>1, <2>2, <2>3
<1>3. cleanup = "idle" /\ ~ctl.scope_closed
  BY <1>2, Zenon DEF Inv, PhaseInv
<1>4. TypeOK' /\ LockInv'
  BY <1>1, <1>2, ZenonT(40) DEF Inv, TypeOK, LockInv, Stopping
<1>5. PhaseInv'
  BY <1>2, ZenonT(40) DEF Inv, PhaseInv
<1>6. ClientInv' /\ CheckInv'
  BY <1>2, ClientsKept, Zenon
<1>7. ReleaseInv'
  BY <1>2, <1>3, ZenonT(40) DEF Inv, ReleaseInv
<1>8. TermInv' /\ TerminationHolds'
  BY <1>2, Zenon DEF Inv, TermInv, TerminationHolds
<1> QED
  BY <1>4, <1>5, <1>6, <1>7, <1>8, Zenon DEF Inv

(* The other steps of startup and the end of the server's thread.          *)
LEMMA ServerKeeps ==
  ASSUME Inv,
         \/ start \/ ((create_scope \/ make_directory) /\ ctl.sealed) \/ open_log \/ launch_controller
         \/ await_controller \/ on_tick \/ server_returns
  PROVE  Inv'
<1>1. CASE launch_controller
  <2>1. /\ main = "popen" /\ main' = "probe" /\ ctrl' = "booting"
        /\ UNCHANGED <<ctl, clock, cleanup, term, folder, owner, proven, live, spawned, ctx, poisoned, late>>
    BY <1>1, Zenon DEF launch_controller
  <2>2. TypeOK' /\ LockInv'
    BY <2>1, Zenon DEF Inv, TypeOK, LockInv, Stopping
  <2>3. PhaseInv' /\ ReleaseInv'
    BY <2>1, Zenon DEF Inv, PhaseInv, ReleaseInv, Halted, ControllerRuns
  <2>4. ClientInv' /\ CheckInv'
    BY <2>1, ClientsKept, Zenon
  <2>5. TermInv' /\ TerminationHolds'
    BY <2>1, Zenon DEF Inv, TermInv, TerminationHolds
  <2> QED
    BY <2>2, <2>3, <2>4, <2>5, Zenon DEF Inv
<1>2. CASE ~launch_controller
  <2>1. /\ UNCHANGED <<ctl, clock, cleanup, term, folder, owner, proven, ctrl, live, spawned, ctx, poisoned, late>>
        /\ \/ main \in {"start", "scope", "claim", "log", "probe"} /\ main' = "serve"
           \/ main = "start" /\ main' = "scope"
           \/ main = "log" /\ main' = "popen"
           \/ main = "serve" /\ main' = "close" /\ ctl.sealed
           \/ main = "close" /\ main' = "exited" /\ ctl.closed
    BY <1>2, ZenonT(40) DEF start, create_scope, make_directory, open_log, await_controller, on_tick,
       server_returns, mps
  <2>2. TypeOK'
    BY <2>1 DEF Inv, TypeOK
  <2>3. LockInv'
    BY <2>1, Zenon DEF Inv, LockInv, Stopping
  <2>4. PhaseInv'
    <3>1. CASE main' \in {"serve", "scope", "popen"}
      BY <2>1, <3>1, Zenon DEF Inv, PhaseInv
    <3>2. CASE main' \in {"close", "exited"}
      BY <2>1, <3>2, Zenon DEF Inv, PhaseInv
    <3> QED
      BY <2>1, <3>1, <3>2, Zenon
  <2>5. ClientInv' /\ CheckInv'
    BY <2>1, ClientsKept, Zenon
  <2>6. ReleaseInv'
    BY <2>1, Zenon DEF Inv, ReleaseInv, Halted, ControllerRuns
  <2>7. TermInv' /\ TerminationHolds'
    BY <2>1, Zenon DEF Inv, TermInv, TerminationHolds
  <2> QED
    BY <2>2, <2>3, <2>4, <2>5, <2>6, <2>7, Zenon DEF Inv
<1> QED
  BY <1>1, <1>2

(* Agents are probed and admitted, Instance ranks register and deregister, *)
(* and processes exit.                                                     *)
LEMMA OwnerKeeps ==
  ASSUME NEW o \in Owners, Inv,
         \/ admit_probes(o) \/ admit_agent_startup(o) \/ register_instance(o)
         \/ deregister_instance(o) \/ owner_exits(o)
  PROVE  Inv'
<1>1. /\ UNCHANGED <<main, ctl, clock, cleanup, term, folder, proven, ctrl, live, spawned, poisoned, late>>
      /\ \E s \in {"new", "probed", "admitted", "registered", "refused", "exited"} :
           /\ owner' = [owner EXCEPT ![o] = s]
           /\ s \in {"admitted", "registered"} => ~ctl.sealed
      /\ ctx' = ctx \/ ctx' = [ctx EXCEPT ![o] = {}]
  BY Zenon DEF admit_probes, admit_agent_startup, register_instance, deregister_instance,
     owner_exits, mps
<1>2. /\ owner \in [Owners -> {"new", "probed", "admitted", "registered", "refused", "exited"}]
      /\ ctx \in [Owners -> SUBSET Servers]
  BY DEF Inv, TypeOK
<1>3. /\ owner' \in [Owners -> {"new", "probed", "admitted", "registered", "refused", "exited"}]
      /\ ctx' \in [Owners -> SUBSET Servers]
      /\ \A p \in Owners : ctx'[p] = ctx[p] \/ ctx'[p] = {}
      /\ \A p \in Owners : owner'[p] \in {"admitted", "registered"} => p \in Retained \/ ~ctl.sealed
  BY <1>1, <1>2 DEF Retained
<1>4. TypeOK' /\ LockInv'
  <2>1. TypeOK'
    BY <1>1, <1>3 DEF Inv, TypeOK
  <2>2. LockInv'
    BY <1>1, Zenon DEF Inv, LockInv, Stopping
  <2> QED
    BY <2>1, <2>2
<1>5. PhaseInv' /\ ReleaseInv'
  BY <1>1, Zenon DEF Inv, PhaseInv, ReleaseInv, Halted, ControllerRuns
<1>6. cleanup # "idle" => ctl.sealed
  BY Zenon DEF Inv, PhaseInv
<1>7. cleanup \notin {"idle", "look"} => Retained' = {}
  BY <1>3, <1>6 DEF Inv, ClientInv, Retained
<1>8. ClientInv' /\ CheckInv'
  BY <1>1, <1>3, <1>7 DEF Inv, ClientInv, CheckInv
<1>9. TermInv' /\ TerminationHolds'
  BY <1>1, <1>3 DEF Inv, TypeOK, TermInv, TerminationHolds
<1> QED
  BY <1>4, <1>5, <1>8, <1>9, Zenon DEF Inv

(* A process that is not being terminated opens a context: its own, and    *)
(* later than the client list that misses it.                              *)
LEMMA ConnectKeeps ==
  ASSUME NEW o \in Owners, NEW v \in Servers, Inv, connect(o, v)
  PROVE  Inv'
<1>1. /\ UNCHANGED <<main, ctl, clock, cleanup, term, folder, owner, proven, ctrl, poisoned>>
      /\ ctrl = "online" /\ o \notin poisoned /\ term.target # o
      /\ ctx' = [ctx EXCEPT ![o] = @ \cup {v}]
      /\ live' = live \cup {v} /\ spawned' = spawned \cup {v}
      /\ late' = IF Since(v) THEN late \cup {<<o, v>>} ELSE late
  BY Zenon DEF connect, Online
<1>2. /\ ctx \in [Owners -> SUBSET Servers] /\ live \subseteq Servers /\ spawned \subseteq Servers
      /\ late \subseteq Owners \X Servers
  BY DEF Inv, TypeOK
<1>3. /\ ctx' \in [Owners -> SUBSET Servers] /\ live' \subseteq Servers /\ spawned' \subseteq Servers
      /\ late' \subseteq Owners \X Servers
  BY <1>1, <1>2
<1>4. TypeOK' /\ LockInv'
  <2>1. TypeOK'
    BY <1>1, <1>3 DEF Inv, TypeOK
  <2>2. LockInv'
    BY <1>1, Zenon DEF Inv, LockInv, Stopping
  <2> QED
    BY <2>1, <2>2
<1>5. PhaseInv' /\ ReleaseInv'
  <2>1. ~Halted
    BY <1>1 DEF Halted, ControllerRuns
  <2> QED
    BY <1>1, <2>1, Zenon DEF Inv, PhaseInv, ReleaseInv
<1>6. ClientInv'
  <2>1. Retained' = Retained
    BY <1>1 DEF Retained
  <2>2. \A p \in Owners : ctx'[p] \subseteq live'
    BY <1>1, <1>2 DEF Inv, ClientInv
  <2> QED
    BY <1>1, <2>1, <2>2, Zenon DEF Inv, ClientInv
<1>7. CheckInv'
  <2>1. ASSUME cleanup \in {"clients", "quit"}, NEW p \in Owners, NEW w \in ctx'[p]
        PROVE  w \in ctl.todo \/ <<p, w>> \in late'
    <3>1. CASE p = o /\ w = v
      BY <1>1, <2>1, <3>1 DEF Since
    <3>2. CASE ~(p = o /\ w = v)
      <4>1. w \in ctx[p]
        BY <1>1, <1>2, <2>1, <3>2
      <4>2. w \in ctl.todo \/ <<p, w>> \in late
        BY <2>1, <4>1, Zenon DEF Inv, CheckInv
      <4> QED
        BY <1>1, <4>2
    <3> QED
      BY <3>1, <3>2
  <2> QED
    BY <1>1, <2>1, Zenon DEF Inv, CheckInv
<1>8. TermInv'
  <2>1. term.pc = "each" => ctx'[term.target] = ctx[term.target]
    BY <1>1, <1>2 DEF Inv, TermInv
  <2> QED
    BY <1>1, <2>1, Zenon DEF Inv, TermInv
<1>9. TerminationHolds'
  <2>1. \A p \in proven : p \in Owners /\ p # o
    BY <1>1, Zenon DEF Inv, TypeOK, TermInv
  <2> QED
    BY <1>1, <1>2, <2>1 DEF Inv, TerminationHolds
<1> QED
  BY <1>4, <1>5, <1>6, <1>7, <1>8, <1>9, Zenon DEF Inv

(* A step of the cleanup thread, by what it may do: it keeps the fields    *)
(* of the scope and the lock's meaning, and reaches a phase only with what *)
(* the invariant asks of it.                                               *)
Holding(phase) == phase \in {"observe", "clients", "quit", "group", "remove", "rmtree", "release"}

Unlisted == \A o \in Owners : \A v \in ctx[o] : v \in ctl'.todo \/ <<o, v>> \in late'

CleanupStep ==
  /\ ScopeKept /\ ctl'.sealed = ctl.sealed
  /\ UNCHANGED <<main, clock, term, folder, owner, proven, live, spawned, ctx, poisoned>>
  /\ ctrl' = ctrl \/ (ctrl = "online" /\ ctrl' = "exited")
  /\ late' = late \/ late' = {}
  /\ cleanup' \in {"look", "stop", "observe", "clients", "quit", "group", "remove", "rmtree", "release",
                   "finish", "done"}
  /\ main \in {"close", "exited"}
  /\ ctl'.lock = "stop" <=> Holding(cleanup')
  /\ ctl'.lock = "terminate" <=> ctl.lock = "terminate"
  /\ cleanup' = "done" <=> ctl.closed
  /\ cleanup' # "look" => Retained = {}
  /\ cleanup' \in {"clients", "quit"} => Unlisted
  /\ cleanup' = "quit" => ctl'.todo = {}
  /\ cleanup' = "rmtree" => folder \in {"own", "raced"} /\ ctl.identity # None
  /\ cleanup' \in {"remove", "rmtree"} => Halted
  /\ cleanup' \in {"release", "finish", "done"} => Halted /\ folder # "own"

(* Such a step keeps the invariant.                                        *)
LEMMA CleanupInv ==
  ASSUME Inv, CleanupStep
  PROVE  Inv'
<1>1. late' \subseteq Owners \X Servers
  BY DEF Inv, TypeOK, CleanupStep
<1>2. TypeOK'
  BY <1>1, ZenonT(40) DEF Inv, TypeOK, CleanupStep, ScopeKept
<1>3. LockInv'
  BY Zenon DEF Inv, LockInv, CleanupStep, Holding, Stopping
<1>4. PhaseInv'
  BY Zenon DEF Inv, PhaseInv, CleanupStep, ScopeKept
<1>5. ClientInv' /\ CheckInv'
  <2>1. Retained' = Retained
    BY DEF CleanupStep, Retained
  <2> QED
    BY <2>1, Zenon DEF Inv, ClientInv, CheckInv, CleanupStep, Unlisted
<1>6. Halted => Halted'
  BY Zenon DEF Halted, ControllerRuns, CleanupStep
<1>7. ReleaseInv'
  BY <1>6, Zenon DEF Inv, PhaseInv, ReleaseInv, CleanupStep, ScopeKept
<1>8. TermInv' /\ TerminationHolds'
  BY Zenon DEF Inv, TermInv, TerminationHolds, CleanupStep
<1> QED
  BY <1>2, <1>3, <1>4, <1>5, <1>7, <1>8, Zenon DEF Inv

(* What the invariant says of the cleanup thread.                          *)
Cleaning ==
  /\ ctl \in Fields /\ (cleanup # "idle" => main \in {"close", "exited"})
  /\ (ctl.lock = "stop" <=> Holding(cleanup)) /\ (ctl.closed <=> cleanup = "done")
  /\ (cleanup \notin {"idle", "look"} => Retained = {})
  /\ (cleanup \in {"remove", "rmtree"} => Halted)
  /\ (cleanup \in {"release", "finish"} => Halted /\ folder # "own")

LEMMA CleaningInv ==
  ASSUME Inv
  PROVE  Cleaning
BY Zenon DEF Cleaning, Inv, TypeOK, LockInv, PhaseInv, ClientInv, ReleaseInv, Stopping, Holding

(* When stop returns its lock is free and its observations are gone.       *)
LEMMA ReturnedFields ==
  ASSUME NEW phase, ctl \in Fields, Returned(phase)
  PROVE  /\ ScopeKept /\ ctl'.sealed = ctl.sealed /\ ctl'.lock = "free"
         /\ late' = {} /\ cleanup' = phase
<1>1. ctl' = [ctl EXCEPT !.lock = "free", !.servers = {}, !.todo = {}] /\ late' = {} /\ cleanup' = phase
  BY Zenon DEF Returned
<1>2. {} \in SUBSET Servers
  OBVIOUS
<1> QED
  BY <1>1, <1>2, Zenon DEF ScopeKept, Fields

(* The cleanup thread up to the controller's end (ControlPlane.close and   *)
(* the first half of MpsScope.stop).                                       *)
LEMMA StopKeeps ==
  ASSUME Inv,
         \/ close \/ close_looks \/ stop \/ stop_raises \/ observe_servers
         \/ (\E v \in Servers : stop_checks_clients(v)) \/ stop_checks_descendants \/ quit
  PROVE  Inv'
<1> SUFFICES CleanupStep
  BY CleanupInv, Zenon
<1>1. Cleaning
  BY CleaningInv
<1> USE DEF Cleaning
<1>2. /\ ~ctl.scope /\ cleanup = "look" => Halted /\ folder # "own"
      /\ ctl.scope_closed => Halted /\ folder # "own"
      /\ ctrl = "none" => Halted
  <2>1. ctrl = "none" => Halted
    BY Zenon DEF Inv, ClientInv, Halted, ControllerRuns
  <2>2. ~ctl.scope => ctrl = "none" /\ ctl.identity = None
    BY Zenon DEF Inv, PhaseInv
  <2>3. ~ctl.scope /\ cleanup = "look" => folder # "own"
    BY <1>1, <2>2, NoneAssumption DEF Inv, ReleaseInv
  <2> QED
    BY <2>1, <2>2, <2>3, Zenon DEF Inv, ReleaseInv
<1>3. CASE close
  BY <1>1, <1>3, Zenon DEF close, CleanupStep, ScopeKept, Holding, mps
<1>4. CASE close_looks
  BY <1>1, <1>2, <1>4, Zenon DEF close_looks, CleanupStep, ScopeKept, Holding, mps
<1>5. CASE stop
  <2>1. ScopeKept /\ ctl'.sealed = ctl.sealed /\ ctl'.lock = "stop" /\ ctl.lock = "free"
    BY <1>1, <1>5, Zenon DEF stop, ScopeKept, Fields
  <2> QED
    BY <1>1, <1>2, <1>5, <2>1, Zenon DEF stop, CleanupStep, Holding, mps
<1>6. CASE stop_raises
  <2>1. /\ ScopeKept /\ ctl'.sealed = ctl.sealed /\ ctl'.lock = "free"
        /\ late' = {} /\ cleanup' = "look"
    BY <1>1, <1>6, ReturnedFields, Zenon DEF stop_raises
  <2> QED
    BY <1>1, <1>6, <2>1, Zenon DEF stop_raises, Stopping, CleanupStep, Holding
<1>7. CASE observe_servers
  <2>1. live \in SUBSET Servers
    BY DEF Inv, TypeOK
  <2>2. ScopeKept /\ ctl'.sealed = ctl.sealed /\ ctl'.lock = ctl.lock /\ ctl'.todo = live
    BY <1>1, <1>7, <2>1, Zenon DEF observe_servers, ScopeKept, Fields
  <2>3. Unlisted
    BY <2>2 DEF Inv, ClientInv, Unlisted
  <2> QED
    BY <1>1, <1>7, <2>2, <2>3, Zenon DEF observe_servers, CleanupStep, Holding, mps
<1>8. ASSUME NEW v \in Servers, stop_checks_clients(v) PROVE CleanupStep
  <2>1. ctl.todo \ {v} \in SUBSET Servers
    BY <1>1 DEF Fields
  <2>2. ScopeKept /\ ctl'.sealed = ctl.sealed /\ ctl'.lock = ctl.lock /\ ctl'.todo = ctl.todo \ {v}
    BY <1>1, <1>8, <2>1, Zenon DEF stop_checks_clients, ScopeKept, Fields
  <2>3. late' = late /\ \A o \in Owners : v \notin ctx[o]
    BY <1>8 DEF stop_checks_clients, Clients, mps
  <2>4. cleanup = "clients" /\ \A o \in Owners : \A w \in ctx[o] : w \in ctl.todo \/ <<o, w>> \in late
    BY <1>8, Zenon DEF stop_checks_clients, Inv, CheckInv
  <2>5. Unlisted
    BY <2>2, <2>3, <2>4 DEF Unlisted
  <2> QED
    BY <1>1, <1>8, <2>2, <2>5, Zenon DEF stop_checks_clients, CleanupStep, Holding, mps
<1>9. CASE stop_checks_descendants
  <2>1. Unlisted
    BY <1>9, Zenon DEF stop_checks_descendants, Inv, CheckInv, Unlisted, mps
  <2> QED
    BY <1>1, <1>9, <2>1, Zenon DEF stop_checks_descendants, CleanupStep, ScopeKept, Holding, mps
<1>10. CASE quit
  <2>1. /\ ScopeKept /\ ctl'.sealed = ctl.sealed
        /\ \/ ctl'.lock = ctl.lock /\ cleanup' = "group" /\ late' = late
           \/ ctl'.lock = "free" /\ cleanup' = "look" /\ late' = {}
    BY <1>1, <1>10, ReturnedFields, Zenon DEF quit, ScopeKept
  <2> QED
    BY <1>1, <1>10, <2>1, Zenon DEF quit, Online, CleanupStep, Holding
<1> QED
  BY <1>3, <1>4, <1>5, <1>6, <1>7, <1>8, <1>9, <1>10, Zenon

(* The directory is removed, or there was none: the scope is closed.       *)
LEMMA ScopeCloses ==
  ASSUME Inv, remove_directory \/ (check_directory /\ ctl.identity = None)
  PROVE  Inv'
<1>1. Cleaning
  BY CleaningInv
<1> USE DEF Cleaning
<1>2. /\ ctl' \in Fields /\ ctl'.sealed = ctl.sealed /\ ctl'.scope = ctl.scope
      /\ ctl'.identity = None /\ ctl'.scope_closed /\ ctl'.closed = ctl.closed
      /\ ctl'.lock = ctl.lock /\ ctl'.todo = ctl.todo
  BY <1>1, Zenon DEF remove_directory, check_directory, Fields
<1>3. /\ cleanup \in {"remove", "rmtree"} /\ cleanup' = "release"
      /\ folder' \in {"absent", folder}
      /\ UNCHANGED <<main, clock, term, owner, proven, ctrl, live, spawned, ctx, poisoned, late>>
  BY Zenon DEF remove_directory, check_directory, mps
<1>4. folder' # "own"
  <2>1. CASE remove_directory
    BY <2>1 DEF remove_directory
  <2>2. CASE check_directory /\ ctl.identity = None
    <3>1. main # "identify" /\ folder' = folder
      BY <1>1, <2>2 DEF check_directory
    <3>2. ctl.identity # "own"
      BY <2>2, NoneAssumption
    <3> QED
      BY <3>1, <3>2, Zenon DEF Inv, ReleaseInv
  <2> QED
    BY <2>1, <2>2
<1>5. TypeOK'
  BY <1>2, <1>3, ZenonT(40) DEF Inv, TypeOK
<1>6. LockInv' /\ PhaseInv'
  BY <1>2, <1>3, Zenon DEF Inv, LockInv, PhaseInv, Stopping
<1>7. ClientInv' /\ CheckInv'
  <2>1. Retained' = Retained
    BY <1>3 DEF Retained
  <2> QED
    BY <1>3, <2>1, Zenon DEF Inv, ClientInv, CheckInv
<1>8. ReleaseInv'
  BY <1>1, <1>2, <1>3, <1>4, Zenon DEF Inv, PhaseInv, ReleaseInv, Halted, ControllerRuns
<1>9. TermInv' /\ TerminationHolds'
  BY <1>3, Zenon DEF Inv, TermInv, TerminationHolds
<1> QED
  BY <1>5, <1>6, <1>7, <1>8, <1>9, Zenon DEF Inv

(* The rest of the cleanup thread, from the empty process group to         *)
(* closure.                                                                *)
LEMMA ReleaseKeeps ==
  ASSUME Inv,
         \/ group_gone \/ (check_directory /\ ctl.identity # None) \/ release_lock \/ close_finishes
  PROVE  Inv'
<1>1. Cleaning
  BY CleaningInv
<1> USE DEF Cleaning
<1>2. CASE group_gone
  BY <1>1, <1>2, CleanupInv, Zenon DEF group_gone, CleanupStep, ScopeKept, Holding, Halted,
     ControllerRuns, mps
<1>3. CASE check_directory /\ ctl.identity # None
  <2>1. folder \in {"own", "raced"}
    BY <1>1, <1>3 DEF check_directory, Fields
  <2> QED
    BY <1>1, <1>3, <2>1, CleanupInv, Zenon DEF check_directory, CleanupStep, ScopeKept, Holding, mps
<1>4. CASE release_lock
  <2>1. /\ ScopeKept /\ ctl'.sealed = ctl.sealed /\ ctl'.lock = "free"
        /\ late' = {} /\ cleanup' = "finish"
    BY <1>1, <1>4, ReturnedFields, Zenon DEF release_lock
  <2> QED
    BY <1>1, <1>4, <2>1, CleanupInv, Zenon DEF release_lock, CleanupStep, Holding
<1>5. CASE close_finishes
  <2>1. /\ ctl' \in Fields /\ ctl'.sealed = ctl.sealed /\ ctl'.scope = ctl.scope /\ ctl'.closed
        /\ ctl'.identity = ctl.identity /\ ctl'.scope_closed = ctl.scope_closed
        /\ ctl'.lock = ctl.lock
    BY <1>1, <1>5, Zenon DEF close_finishes, Fields
  <2>2. /\ cleanup = "finish" /\ cleanup' = "done"
        /\ UNCHANGED <<main, clock, term, folder, owner, proven, ctrl, live, spawned, ctx, poisoned, late>>
    BY <1>5, Zenon DEF close_finishes, mps
  <2>3. TypeOK'
    BY <2>1, <2>2, Zenon DEF Inv, TypeOK
  <2>4. LockInv' /\ PhaseInv'
    BY <2>1, <2>2, Zenon DEF Inv, LockInv, PhaseInv, Stopping
  <2>5. ClientInv' /\ CheckInv'
    <3>1. Retained' = Retained
      BY <2>2 DEF Retained
    <3> QED
      BY <2>2, <3>1, Zenon DEF Inv, ClientInv, CheckInv
  <2>6. ReleaseInv'
    BY <1>1, <2>1, <2>2, Zenon DEF Inv, ReleaseInv, Halted, ControllerRuns
  <2>7. TermInv' /\ TerminationHolds'
    BY <2>2, Zenon DEF Inv, TermInv, TerminationHolds
  <2> QED
    BY <2>3, <2>4, <2>5, <2>6, <2>7, Zenon DEF Inv
<1> QED
  BY <1>2, <1>3, <1>4, <1>5, Zenon

(* The termination of one client's contexts, but for its walk over the     *)
(* servers: what it has yet to visit includes the target's contexts.       *)
LEMMA TerminateKeeps ==
  ASSUME Inv,
         \/ \E o \in Owners : terminate_serving_client(o)
         \/ terminate_client \/ terminate_observes \/ terminate_returns \/ terminate_raises
  PROVE  Inv'
<1> DEFINE Kept == /\ ScopeKept /\ ctl'.sealed = ctl.sealed /\ ctl'.todo = ctl.todo /\ term' \in Call
                   /\ UNCHANGED <<main, clock, cleanup, folder, owner, ctrl, live, spawned, ctx, poisoned, late>>
                   /\ ctl'.lock = "stop" <=> ctl.lock = "stop"
                   /\ ctl'.lock = "terminate" <=> term'.pc \in {"observe", "each"}
                   /\ term'.pc # "idle" => term'.target \in Owners
                   /\ term'.pc = "each" => ctx[term'.target] \subseteq term'.servers
                   /\ ~term'.matched
                   /\ \/ proven' = proven
                      \/ /\ term.target \in poisoned /\ ctx[term.target] = {}
                         /\ proven' = proven \cup {term.target}
<1>1. /\ ctl \in Fields /\ term \in Call /\ Idle \in Call /\ live \in SUBSET Servers
      /\ ctl.lock = "terminate" <=> term.pc \in {"observe", "each"}
      /\ term.pc # "idle" => term.target \in Owners
      /\ term.matched => term.pc = "each" /\ term.target \in poisoned
  BY DEF Inv, TypeOK, LockInv, TermInv, Idle, Call
<1>2. Kept
  <2>1. ASSUME NEW o \in Owners, terminate_serving_client(o) PROVE Kept
    <3>1. term' \in Call /\ term'.pc = "lock" /\ term'.target = o /\ ~term'.matched
      BY <2>1, Zenon DEF terminate_serving_client, Idle, Call
    <3> QED
      BY <1>1, <2>1, <3>1, Zenon DEF terminate_serving_client, ScopeKept, mps
  <2>2. CASE terminate_client
    <3>1. UNCHANGED <<main, clock, cleanup, folder, owner, proven, ctrl, live, spawned, ctx, poisoned, late>>
      BY <2>2, Zenon DEF terminate_client, mps
    <3>2. CASE term' = Idle /\ UNCHANGED ctl
      BY <1>1, <2>2, <3>1, <3>2, Zenon DEF terminate_client, ScopeKept, Idle
    <3>3. CASE ~(term' = Idle /\ UNCHANGED ctl)
      <4>1. /\ term.pc = "lock" /\ ctl.lock = "free"
            /\ term' = [term EXCEPT !.pc = "observe"] /\ ctl' = [ctl EXCEPT !.lock = "terminate"]
        BY <2>2, <3>3, Zenon DEF terminate_client
      <4>2. term' \in Call /\ term'.pc = "observe" /\ term'.target = term.target /\ term'.matched = term.matched
        BY <1>1, <4>1, Zenon DEF Call
      <4>3. ScopeKept /\ ctl'.sealed = ctl.sealed /\ ctl'.todo = ctl.todo /\ ctl'.lock = "terminate"
        BY <1>1, <4>1, Zenon DEF Fields, ScopeKept
      <4> QED
        BY <1>1, <3>1, <4>1, <4>2, <4>3, Zenon
    <3> QED
      BY <3>2, <3>3
  <2>3. CASE terminate_observes
    <3>1. /\ term.pc = "observe" /\ term' = [term EXCEPT !.pc = "each", !.servers = live]
          /\ UNCHANGED <<main, ctl, clock, cleanup, folder, owner, proven, ctrl, live, spawned, ctx, poisoned, late>>
      BY <2>3, Zenon DEF terminate_observes, mps
    <3>2. /\ term' \in Call /\ term'.pc = "each" /\ term'.target = term.target
          /\ term'.matched = term.matched /\ term'.servers = live
      BY <1>1, <3>1, Zenon DEF Call
    <3>3. ctx[term.target] \subseteq live
      BY <1>1, <3>1, Zenon DEF Inv, ClientInv
    <3> QED
      BY <1>1, <3>1, <3>2, <3>3, Zenon DEF ScopeKept
  <2>4. CASE terminate_returns
    <3>1. ScopeKept /\ ctl'.sealed = ctl.sealed /\ ctl'.todo = ctl.todo /\ ctl'.lock = "free" /\ term' = Idle
      BY <1>1, <2>4, Zenon DEF terminate_returns, Fields, ScopeKept
    <3>2. UNCHANGED <<main, clock, cleanup, folder, owner, ctrl, live, spawned, ctx, poisoned, late>>
      BY <2>4, Zenon DEF terminate_returns, mps
    <3>3. ctx[term.target] = {} /\ ctl.lock = "terminate"
      BY <1>1, <2>4 DEF terminate_returns, Inv, TermInv
    <3>4. \/ proven' = proven
          \/ term.target \in poisoned /\ proven' = proven \cup {term.target}
      BY <1>1, <2>4, Zenon DEF terminate_returns
    <3> QED
      BY <1>1, <3>1, <3>2, <3>3, <3>4, Zenon DEF Idle
  <2>5. CASE terminate_raises
    <3>1. /\ ScopeKept /\ ctl'.sealed = ctl.sealed /\ ctl'.todo = ctl.todo /\ term' = Idle
          /\ ctl'.lock = IF term.pc = "lock" THEN ctl.lock ELSE "free"
      BY <1>1, <2>5, Zenon DEF terminate_raises, Fields, ScopeKept
    <3>2. UNCHANGED <<main, clock, cleanup, folder, owner, proven, ctrl, live, spawned, ctx, poisoned, late>>
      BY <2>5, Zenon DEF terminate_raises, mps
    <3>3. CASE term.pc = "lock"
      BY <1>1, <3>1, <3>2, <3>3, Zenon DEF Idle
    <3>4. CASE term.pc # "lock"
      <4>1. ctl.lock = "terminate"
        BY <1>1, <2>5, <3>4, Zenon DEF terminate_raises, Call
      <4> QED
        BY <1>1, <3>1, <3>2, <3>4, <4>1, Zenon DEF Idle
    <3> QED
      BY <3>3, <3>4
  <2> QED
    BY <2>1, <2>2, <2>3, <2>4, <2>5, Zenon
<1>3. proven' \subseteq Owners /\ proven' \subseteq poisoned' /\ TerminationHolds'
  BY <1>2 DEF Inv, TypeOK, TermInv, TerminationHolds
<1>4. TypeOK'
  BY <1>2, <1>3 DEF Inv, TypeOK, ScopeKept
<1>5. LockInv' /\ PhaseInv'
  BY <1>2, Zenon DEF Inv, LockInv, PhaseInv, ScopeKept, Stopping
<1>6. ClientInv' /\ CheckInv'
  BY <1>2, ClientsKept, Zenon
<1>7. ReleaseInv'
  BY <1>2, Zenon DEF Inv, ReleaseInv, ScopeKept, Halted, ControllerRuns
<1>8. TermInv'
  BY <1>2, <1>3, Zenon DEF TermInv
<1> QED
  BY <1>3, <1>4, <1>5, <1>6, <1>7, <1>8, Zenon DEF Inv

(* A context is terminated at one server, or the server exits.             *)
LEMMA ServersKeep ==
  ASSUME NEW v \in Servers, Inv, terminate_at(v) \/ server_exits(v)
  PROVE  Inv'
<1>1. /\ term \in Call /\ ctx \in [Owners -> SUBSET Servers]
      /\ term.pc # "idle" => term.target \in Owners
      /\ term.pc = "each" => ctx[term.target] \subseteq term.servers
      /\ term.matched => term.pc = "each" /\ term.target \in poisoned
      /\ \A o \in Owners : ctx[o] \subseteq live
  BY Zenon DEF Inv, TypeOK, TermInv, ClientInv
<1>2. /\ UNCHANGED <<main, ctl, clock, cleanup, folder, owner, proven, ctrl, spawned, late>>
      /\ live' \subseteq live
      /\ ctx' \in [Owners -> SUBSET Servers]
      /\ \A o \in Owners : ctx'[o] \subseteq ctx[o] /\ ctx'[o] \subseteq live'
      /\ term' \in Call /\ term'.pc = term.pc /\ term'.target = term.target
      /\ term.pc = "each" => ctx'[term.target] \subseteq term'.servers
      /\ poisoned \subseteq poisoned' /\ poisoned' \subseteq poisoned \cup Owners
      /\ term'.matched => term.pc = "each" /\ term.target \in poisoned'
  <2>1. CASE terminate_at(v)
    <3>1. /\ UNCHANGED <<main, ctl, clock, cleanup, folder, owner, proven, ctrl, live, spawned, late>>
          /\ term.pc = "each"
      BY <2>1, Zenon DEF terminate_at
    <3>2. CASE term.target \in Clients(v)
      <4>1. /\ ctx' = [ctx EXCEPT ![term.target] = @ \ {v}]
            /\ poisoned' = poisoned \cup {term.target}
            /\ term' = [term EXCEPT !.servers = @ \ {v}, !.matched = TRUE]
        BY <2>1, <3>2, Zenon DEF terminate_at
      <4>2. /\ term' \in Call /\ term'.pc = term.pc /\ term'.target = term.target
            /\ term'.servers = term.servers \ {v}
        BY <1>1, <4>1 DEF Call
      <4>3. /\ ctx' \in [Owners -> SUBSET Servers] /\ \A o \in Owners : ctx'[o] \subseteq ctx[o]
            /\ ctx'[term.target] = ctx[term.target] \ {v}
        BY <1>1, <3>1, <4>1
      <4> QED
        BY <1>1, <3>1, <4>1, <4>2, <4>3
    <3>3. CASE term.target \notin Clients(v)
      <4>1. ctx' = ctx /\ poisoned' = poisoned /\ term' = [term EXCEPT !.servers = @ \ {v}]
        BY <2>1, <3>3, Zenon DEF terminate_at
      <4>2. /\ term' \in Call /\ term'.pc = term.pc /\ term'.target = term.target
            /\ term'.servers = term.servers \ {v} /\ term'.matched = term.matched
        BY <1>1, <4>1 DEF Call
      <4>3. v \notin ctx[term.target]
        BY <1>1, <3>1, <3>3, Zenon DEF Clients
      <4> QED
        BY <1>1, <3>1, <4>1, <4>2, <4>3
    <3> QED
      BY <3>2, <3>3
  <2>2. CASE server_exits(v)
    <3>1. /\ live' = live \ {v} /\ ctx' = [o \in Owners |-> ctx[o] \ {v}]
          /\ UNCHANGED <<main, ctl, clock, cleanup, term, folder, owner, proven, ctrl, spawned, poisoned, late>>
      BY <2>2, Zenon DEF server_exits
    <3> QED
      BY <1>1, <3>1
  <2> QED
    BY <2>1, <2>2
<1>3. TypeOK'
  BY <1>2 DEF Inv, TypeOK
<1>4. LockInv' /\ PhaseInv'
  BY <1>2, Zenon DEF Inv, LockInv, PhaseInv, Stopping
<1>5. ClientInv' /\ CheckInv'
  <2>1. Retained' = Retained
    BY <1>2 DEF Retained
  <2> QED
    BY <1>2, <2>1 DEF Inv, ClientInv, CheckInv
<1>6. ReleaseInv'
  BY <1>2 DEF Inv, ReleaseInv, Halted, ControllerRuns
<1>7. TermInv' /\ TerminationHolds'
  BY <1>1, <1>2 DEF Inv, TypeOK, TermInv, TerminationHolds
<1> QED
  BY <1>3, <1>4, <1>5, <1>6, <1>7, Zenon DEF Inv

(* What the controller process and the directory do on their own.          *)
LEMMA ExternalKeeps ==
  ASSUME Inv, controller_boots \/ controller_exits \/ directory_replaced
  PROVE  Inv'
<1>1. /\ UNCHANGED <<main, ctl, clock, cleanup, term, owner, proven, live, spawned, ctx, poisoned, late>>
      /\ \/ ctrl = "booting" /\ ctrl' = "online" /\ folder' = folder
         \/ ControllerRuns /\ ctrl' = "exited" /\ folder' = folder
         \/ /\ ctrl' = ctrl /\ folder' \in {"raced", "foreign"}
            /\ main = "identify" \/ cleanup = "rmtree" => folder' = "raced"
  BY Zenon DEF controller_boots, controller_exits, directory_replaced, mps
<1>2. TypeOK'
  BY <1>1 DEF Inv, TypeOK
<1>3. LockInv' /\ PhaseInv'
  BY <1>1, Zenon DEF Inv, LockInv, PhaseInv, Stopping, ControllerRuns
<1>4. ClientInv' /\ CheckInv'
  BY <1>1, ClientsKept, Zenon DEF ControllerRuns
<1>5. ReleaseInv'
  BY <1>1, Zenon DEF Inv, ReleaseInv, Halted, ControllerRuns
<1>6. TermInv' /\ TerminationHolds'
  BY <1>1, Zenon DEF Inv, TermInv, TerminationHolds
<1> QED
  BY <1>2, <1>3, <1>4, <1>5, <1>6, Zenon DEF Inv

(* Every step of the system keeps the invariant.                           *)
LEMMA NextInv == Inv /\ [Next]_vars => Inv'
<1> SUFFICES ASSUME Inv, [Next]_vars PROVE Inv'
  OBVIOUS
<1>1. CASE UNCHANGED vars
  <2>1. /\ UNCHANGED <<main, ctl, clock, cleanup, term, folder, ctrl, live, spawned, owner, ctx, poisoned>>
        /\ UNCHANGED <<late, proven>>
    BY <1>1 DEF vars
  <2>2. TypeOK' /\ LockInv' /\ PhaseInv'
    BY <2>1 DEF Inv, TypeOK, LockInv, PhaseInv, Stopping
  <2>3. ClientInv' /\ CheckInv'
    BY <2>1, ClientsKept, Zenon
  <2>4. ReleaseInv' /\ TermInv' /\ TerminationHolds'
    BY <2>1, Zenon DEF Inv, ReleaseInv, TermInv, TerminationHolds, Halted, ControllerRuns
  <2> QED
    BY <2>2, <2>3, <2>4, Zenon DEF Inv
<1>2. CASE Next
  <2>1. CASE \/ handle_exit \/ record \/ deadline_passes \/ startup_raises \/ start \/ create_scope
             \/ make_directory \/ claim_directory \/ open_log \/ launch_controller \/ await_controller
             \/ on_tick \/ server_returns
    BY <2>1, SealingKeeps, ClaimKeeps, ServerKeeps, Zenon
  <2>2. ASSUME NEW o \in Owners,
               \/ admit_probes(o) \/ admit_agent_startup(o) \/ owner_exits(o) \/ register_instance(o)
               \/ deregister_instance(o) \/ terminate_serving_client(o)
               \/ \E v \in Servers : connect(o, v)
        PROVE  Inv'
    BY <2>2, OwnerKeeps, ConnectKeeps, TerminateKeeps, Zenon
  <2>3. CASE \/ close \/ close_looks \/ stop \/ stop_raises \/ observe_servers
             \/ stop_checks_descendants \/ quit
    BY <2>3, StopKeeps, Zenon
  <2>4. CASE group_gone \/ check_directory \/ remove_directory \/ release_lock \/ close_finishes
    BY <2>4, ScopeCloses, ReleaseKeeps, Zenon
  <2>5. CASE \/ terminate_client \/ terminate_observes \/ terminate_returns \/ terminate_raises
             \/ controller_boots \/ controller_exits \/ directory_replaced
    BY <2>5, TerminateKeeps, ExternalKeeps, Zenon
  <2>6. ASSUME NEW v \in Servers, stop_checks_clients(v) \/ terminate_at(v) \/ server_exits(v)
        PROVE  Inv'
    BY <2>6, StopKeeps, ServersKeep, Zenon
  <2> QED
    BY <1>2, <2>1, <2>2, <2>3, <2>4, <2>5, <2>6, Zenon DEF Next
<1> QED
  BY <1>1, <1>2

(* The invariant holds in every reachable state, for any Agents, ranks and *)
(* servers.                                                                *)
THEOREM Invariance == Spec => []Inv
<1> QED
  BY InitInv, NextInv, PTL DEF Spec

(***************************************************************************)
(* When the controller is told to quit, every process that close waits for *)
(* has gone, and any context still open was opened by a process outside    *)
(* the admission after the client list of its server had been taken: stop  *)
(* overlooks nothing it could have seen (ControlPlane.close,               *)
(* MpsScope.stop).                                                         *)
(***************************************************************************)
THEOREM QuitSafe == Spec => []QuitUnconnected
<1>1. Inv => QuitUnconnected
  <2> SUFFICES ASSUME Inv, cleanup = "quit"
               PROVE  Retained = {} /\ \A o \in Owners : \A v \in ctx[o] : <<o, v>> \in late
    BY Zenon DEF QuitUnconnected
  <2>1. Retained = {}
    BY DEF Inv, ClientInv
  <2>2. ctl.todo = {} /\ \A o \in Owners : \A v \in ctx[o] : v \in ctl.todo \/ <<o, v>> \in late
    BY Zenon DEF Inv, CheckInv
  <2> QED
    BY <2>1, <2>2
<1> QED
  BY <1>1, Invariance, PTL

(***************************************************************************)
(* The daemon says no more than is true and removes only what it last saw  *)
(* to be its own: contexts it reported terminated stay so on every server, *)
(* a closed daemon has nothing left, whoever connected while it stopped,   *)
(* and a directory of somebody else is kept unless it took the place of    *)
(* the scope's own between a look and the step that relies on it           *)
(* (MpsScope.terminate_client, MpsScope.stop, ControlPlane.close).         *)
(***************************************************************************)
THEOREM HonestSafe == Spec => ScopeHonest
<1>1. Inv => TerminationHolds /\ ClosedReleased
  <2> SUFFICES ASSUME Inv PROVE TerminationHolds /\ ClosedReleased
    OBVIOUS
  <2>1. main = "exited" => ctl.closed
    BY Zenon DEF Inv, PhaseInv
  <2>2. ctl.closed => ~ControllerRuns /\ live = {} /\ folder # "own"
    BY Zenon DEF Inv, PhaseInv, ReleaseInv, Halted
  <2>3. ctl.closed => \A o \in Owners : ctx[o] = {}
    BY <2>2 DEF Inv, ClientInv
  <2> QED
    BY <2>1, <2>2, <2>3, Zenon DEF Inv, ClosedReleased
<1>2. Inv /\ [Next]_vars => [(folder \in {"old", "foreign"}) => UNCHANGED folder]_vars
  <2> SUFFICES ASSUME Inv, [Next]_vars, folder \in {"old", "foreign"} PROVE UNCHANGED folder
    BY Zenon
  <2>1. folder \notin {"absent", "own", "raced"} /\ cleanup # "rmtree"
    BY DEF Inv, ReleaseInv
  <2> QED
    BY <2>1, ZenonT(60) DEF Next, vars, mps, handle_exit, record, deadline_passes, startup_raises, start,
       create_scope, make_directory, claim_directory, open_log, launch_controller, await_controller,
       on_tick, server_returns, admit_probes, admit_agent_startup, register_instance,
       deregister_instance, connect, owner_exits, terminate_serving_client, close, close_looks, stop,
       stop_raises, observe_servers, stop_checks_clients, stop_checks_descendants, quit, group_gone,
       check_directory, remove_directory, release_lock, close_finishes, terminate_client,
       terminate_observes, terminate_returns, terminate_raises, terminate_at, server_exits,
       controller_boots, controller_exits, directory_replaced
<1> QED
  BY <1>1, <1>2, Invariance, PTL DEF Spec, ScopeHonest, ForeignKept
=============================================================================
