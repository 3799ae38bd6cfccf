--------------------------- MODULE ServingShutdown ---------------------------
(***************************************************************************)
(* The serving owner of one Instance: the engine's root process, which     *)
(* launches weight-cache exporters, schedulers and, under data             *)
(* parallelism, a controller that launches the schedulers, and which is    *)
(* the only one to retire them.  Signals reach it at every point of the    *)
(* launch.  A device process may be killed only once its MPS context is    *)
(* gone, an exporter only after its consumers.                             *)
(*                                                                         *)
(* own holds the fields of ShutdownHookSet; clock is its one deadline:     *)
(* "open", "cooperative" once the share left to cooperation is used up,    *)
(* "expired".  pc is the root's place: a launch step, "launched" (before   *)
(* the engine's own signal handlers are installed), "serving", a step of   *)
(* around_kill_process_tree, "exited" or "retained" (retain_owner).  ctx   *)
(* is the device context of a process as MPS sees it: "fresh" before it is *)
(* created, "held" by a listed client, "released" by the process itself,   *)
(* "terminated" by the MPS controller.  doomed are processes that were     *)
(* sent a fatal signal; hurt and early are the processes killed with a     *)
(* live context and the exporters killed under a live consumer.            *)
(***************************************************************************)
EXTENDS Naturals, FiniteSets

CONSTANTS Caches, Schedulers, Dp, MaxSignals

VARIABLES own, pc, clock, alive, ctx, inbox, controller, worker, asked, kill, doomed, hurt, early, signals

vars == <<own, pc, clock, alive, ctx, inbox, controller, worker, asked, kill, doomed, hurt, early, signals>>

Root == "root"
Controller == "controller"
Factory == IF Dp THEN {Controller} ELSE Schedulers
Devices == Caches \cup Schedulers \cup {Root}
Procs == Devices \cup {Controller}

Init ==
  /\ own = [cancelled |-> FALSE, launching |-> FALSE, creating |-> FALSE, unconfirmed |-> FALSE,
            failed |-> FALSE, retiring |-> FALSE, requested |-> FALSE,
            handlers |-> "startup", schedulers |-> {}, controllers |-> {}, caches |-> {}, terminated |-> {}]
  /\ pc = "begin" /\ clock = "unset"
  /\ alive = {Root}
  /\ ctx = [p \in Devices |-> "fresh"]
  /\ inbox = {}
  /\ controller = "none"
  /\ worker = [s \in Schedulers |-> "none"]
  /\ asked = FALSE
  /\ kill = [parent |-> FALSE, targets |-> {}, clients |-> {}, todo |-> {}]
  /\ doomed = {} /\ hurt = {} /\ early = {}
  /\ signals = 0

processes == <<alive, ctx, controller, worker, asked, doomed, hurt, early>>

begin_retirement == clock' = IF clock = "unset" THEN "open" ELSE clock

(***************************************************************************)
(* Launch.  A raise in the launch unwinds to around_launch_subprocesses.   *)
(***************************************************************************)
around_launch_subprocesses ==
  /\ pc = "begin"
  /\ own' = [own EXCEPT !.launching = TRUE]
  /\ pc' = "launch"
  /\ UNCHANGED <<clock, inbox, kill, signals, processes>>

create(what) ==
  /\ pc = "launch"
  /\ ~own.creating
  /\ IF what = "cache" THEN own.caches # Caches
     ELSE own.caches = Caches /\ own.schedulers = {} /\ own.controllers = {}
  /\ IF own.cancelled THEN pc' = "unwind" /\ UNCHANGED own
     ELSE pc' = what /\ own' = [own EXCEPT !.creating = TRUE]
  /\ UNCHANGED <<clock, inbox, kill, signals, processes>>

(* The child runs before its factory returns its handle.                   *)
start_child(p) ==
  /\ p \notin alive /\ p \notin doomed
  /\ \/ pc = "cache" /\ p \in Caches \ own.caches /\ alive \cap Caches \subseteq own.caches
     \/ pc = "scheduler" /\ p \in Factory
     \/ p \in Schedulers /\ Dp /\ controller = "launching" /\ worker[p] = "none"
  /\ alive' = alive \cup {p}
  /\ worker' = IF p \in Schedulers THEN [worker EXCEPT ![p] = "running"] ELSE worker
  /\ controller' = IF p = Controller THEN "launching" ELSE controller
  /\ UNCHANGED <<own, pc, clock, ctx, inbox, asked, kill, doomed, hurt, early, signals>>

After == IF own.cancelled THEN "unwind" ELSE "launch"

around_spawn_weight_cache_daemon ==
  /\ pc = "cache"
  /\ \E c \in (alive \cap Caches) \ own.caches : own' = [own EXCEPT !.caches = @ \cup {c}, !.creating = FALSE]
  /\ pc' = After
  /\ UNCHANGED <<clock, inbox, kill, signals, processes>>

around_launch_scheduler_processes ==
  /\ pc = "scheduler"
  /\ Factory \subseteq alive
  /\ own' = IF Dp THEN [own EXCEPT !.controllers = Factory, !.creating = FALSE]
            ELSE [own EXCEPT !.schedulers = Factory, !.creating = FALSE]
  /\ pc' = IF own.cancelled THEN "unwind" ELSE "ready"
  /\ UNCHANGED <<clock, inbox, kill, signals, processes>>

(* A factory that raises leaves it open whether a child was started.       *)
creation_raises ==
  /\ pc \in {"cache", "scheduler"}
  /\ own' = [own EXCEPT !.unconfirmed = TRUE, !.creating = FALSE]
  /\ pc' = "unwind"
  /\ UNCHANGED <<clock, inbox, kill, signals, processes>>

(* The ready replies: all schedulers run, or a dead child raises.          *)
launch_returns ==
  /\ pc = "ready"
  /\ \A s \in Schedulers : ctx[s] # "fresh"
  /\ Dp => controller = "ready"
  /\ IF Dp /\ ~ Schedulers \subseteq alive
     THEN pc' = "retained" /\ own' = [own EXCEPT !.launching = FALSE, !.retiring = TRUE]
     ELSE /\ own' = [own EXCEPT !.launching = FALSE, !.schedulers = Schedulers]
          /\ pc' = "launched"
  /\ UNCHANGED <<clock, inbox, kill, signals, processes>>

launch_raises ==
  /\ pc \in {"launch", "ready"}
  /\ pc' = "unwind"
  /\ UNCHANGED <<own, clock, inbox, kill, signals, processes>>

handlers_installed ==
  /\ pc = "launched"
  /\ pc' = "serving"
  /\ own' = [own EXCEPT !.handlers = "engine"]
  /\ UNCHANGED <<clock, inbox, kill, signals, processes>>

Killing(parent) == kill' = [kill EXCEPT !.parent = parent, !.todo = {}]

launch_failed ==
  /\ pc = "unwind"
  /\ own' = [own EXCEPT !.launching = FALSE, !.failed = TRUE]
  /\ pc' = "enter" /\ Killing(FALSE)
  /\ UNCHANGED <<clock, inbox, signals, processes>>

(***************************************************************************)
(* Signals.  The handlers run between two steps of the root.               *)
(***************************************************************************)
deliver(sig) ==
  /\ signals < MaxSignals
  /\ Root \in alive
  /\ signals' = signals + 1
  /\ inbox' = inbox \cup {sig}
  /\ UNCHANGED <<own, pc, clock, kill, processes>>

Retiring == pc \in {"enter", "cooperate", "list", "confirm", "kill", "consumers", "exporters", "drain", "parent", "final"}
Launching == pc \in {"launch", "cache", "scheduler", "ready", "unwind"}

startup_signal(sig) ==
  /\ sig \in inbox
  /\ inbox' = inbox \ {sig}
  /\ Launching \/ pc = "launched" \/ (Retiring /\ own.handlers = "startup")
  /\ own' = [own EXCEPT !.cancelled = TRUE, !.failed = @ \/ sig = "QUIT"]
  /\ begin_retirement
  /\ IF Retiring \/ own.creating \/ pc = "unwind" THEN UNCHANGED <<pc, kill>>
     ELSE IF own.launching THEN pc' = "unwind" /\ UNCHANGED kill
     ELSE pc' = "enter" /\ Killing(FALSE)
  /\ UNCHANGED <<signals, processes>>

(* The engine drains its requests, sends ShutdownReq and kills the tree.   *)
around_sigterm_handler ==
  /\ pc \in {"serving", "draining"} \/ (Retiring /\ own.handlers = "engine")
  /\ "TERM" \in inbox
  /\ inbox' = inbox \ {"TERM"}
  /\ begin_retirement
  /\ pc' = IF pc = "serving" THEN "draining" ELSE pc
  /\ UNCHANGED <<own, kill, signals, processes>>

around_dispatch_to_scheduler ==
  /\ pc = "draining"
  /\ \E sent \in BOOLEAN : asked' = (asked \/ sent)
  /\ own' = [own EXCEPT !.requested = TRUE]
  /\ pc' = "enter" /\ Killing(TRUE)
  /\ UNCHANGED <<clock, inbox, signals, alive, ctx, controller, worker, doomed, hurt, early>>

around_sigquit_handler ==
  /\ pc \in {"serving", "draining"} \/ (Retiring /\ own.handlers = "engine")
  /\ "QUIT" \in inbox
  /\ inbox' = inbox \ {"QUIT"}
  /\ own' = [own EXCEPT !.failed = TRUE]
  /\ begin_retirement
  /\ pc' = "enter" /\ Killing(TRUE)
  /\ UNCHANGED <<signals, processes>>

(* Engine.shutdown without a signal.                                       *)
around_terminate_weight_cache_daemons ==
  /\ pc = "serving"
  /\ own.caches # {}
  /\ pc' = "enter" /\ Killing(FALSE)
  /\ UNCHANGED <<own, clock, inbox, signals, processes>>

(***************************************************************************)
(* around_kill_process_tree.                                               *)
(***************************************************************************)
retain_owner == pc' = "retained" /\ own' = [own EXCEPT !.retiring = TRUE] /\ UNCHANGED kill

Sealed ==
  /\ ~own.launching /\ ~own.creating /\ ~own.unconfirmed
  /\ own.controllers # {} => own.schedulers # {}

request_scheduler_shutdown ==
  IF own.requested THEN UNCHANGED asked ELSE \E sent \in BOOLEAN : asked' = (asked \/ sent)

enter_kill ==
  /\ pc = "enter"
  /\ begin_retirement
  /\ IF ~Sealed THEN retain_owner /\ UNCHANGED asked
     ELSE /\ request_scheduler_shutdown
          /\ own' = [own EXCEPT !.retiring = TRUE, !.requested = TRUE]
          /\ kill' = [kill EXCEPT !.targets = alive \ {Root}]
          /\ pc' = "cooperate"
  /\ UNCHANGED <<inbox, signals, alive, ctx, controller, worker, doomed, hurt, early>>

cooperate ==
  /\ pc = "cooperate"
  /\ own.failed \/ kill.targets \cap own.schedulers \cap alive = {} \/ clock # "open"
  /\ pc' = "list"
  /\ UNCHANGED <<own, clock, inbox, kill, signals, processes>>

(* confirm_context_termination: one look at the clients, then one target   *)
(* after the other, exporters last.                                        *)
list_clients ==
  /\ pc = "list"
  /\ \/ /\ clock # "expired"
        /\ pc' = "confirm"
        /\ kill' = [kill EXCEPT !.clients = {p \in Devices \cap alive : ctx[p] = "held"},
                                !.todo = @ \cup kill.targets \cup {Root}]
        /\ UNCHANGED own
     \/ retain_owner
  /\ UNCHANGED <<clock, inbox, signals, processes>>

Due(p) == p \in kill.todo /\ (p \in own.caches => kill.todo \subseteq own.caches)
Settled(p) == p \notin alive \/ p \in own.terminated
Detached(p) == ~Settled(p) /\ p \notin kill.clients
(* Mutant: a scheduler that is no client at the look is passed over.       *)
CachesRetire(p) == p \in own.caches
MustRetire(p) == p \in own.schedulers \cup own.caches

skip_target(p) ==
  /\ pc = "confirm" /\ Due(p)
  /\ Settled(p) \/ (Detached(p) /\ ~MustRetire(p))
  /\ kill' = [kill EXCEPT !.todo = @ \ {p}]
  /\ UNCHANGED <<own, pc, clock, inbox, signals, processes>>

detached_expires(p) ==
  /\ pc = "confirm" /\ Due(p)
  /\ Detached(p) /\ MustRetire(p)
  /\ clock = "expired"
  /\ retain_owner
  /\ UNCHANGED <<clock, inbox, signals, processes>>

(* The daemon's answer; a client that left since the look is an error, and *)
(* a lost answer leaves a terminated context unconfirmed.                  *)
terminate_serving_client(p) ==
  /\ pc = "confirm" /\ Due(p)
  /\ ~Settled(p) /\ ~Detached(p)
  /\ \/ /\ ctx[p] = "held" /\ clock # "expired"
        /\ ctx' = [ctx EXCEPT ![p] = "terminated"]
        /\ \/ /\ own' = [own EXCEPT !.terminated = @ \cup {p}]
              /\ kill' = [kill EXCEPT !.todo = @ \ {p}]
              /\ UNCHANGED pc
           \/ retain_owner
     \/ retain_owner /\ UNCHANGED ctx
  /\ UNCHANGED <<clock, inbox, signals, alive, controller, worker, asked, doomed, hurt, early>>

confirmed ==
  /\ pc = "confirm" /\ kill.todo = {}
  /\ pc' = "kill"
  /\ UNCHANGED <<own, clock, inbox, kill, signals, processes>>

Consumers == kill.targets \ own.caches
Exporters == kill.targets \cap own.caches

(* A fatal signal to the live processes of ps.                             *)
Signalled(ps) ==
  /\ doomed' = doomed \cup (ps \cap alive)
  /\ hurt' = hurt \cup {p \in ps \cap alive \cap Devices : ctx[p] = "held"}
  /\ early' = early \cup {p \in ps \cap alive \cap Caches : alive \cap (Schedulers \cup {Controller}) # {}}

kill_consumers ==
  /\ pc = "kill"
  /\ Signalled(Consumers)
  /\ pc' = "consumers"
  /\ UNCHANGED <<own, clock, inbox, kill, signals, alive, ctx, controller, worker, asked>>

(* The waits for the host processes end with them or with their bound.     *)
consumers_gone ==
  /\ pc = "consumers"
  /\ IF Consumers \cap alive = {} THEN pc' = "exporters" /\ UNCHANGED <<own, kill>>
     ELSE retain_owner
  /\ UNCHANGED <<clock, inbox, signals, processes>>

terminate_exporters ==
  /\ pc = "exporters"
  /\ Signalled(Exporters)
  /\ pc' = "drain"
  /\ UNCHANGED <<own, clock, inbox, kill, signals, alive, ctx, controller, worker, asked>>

exporters_gone ==
  /\ pc = "drain"
  /\ \/ Exporters \cap alive = {} /\ UNCHANGED <<doomed, hurt, early>>
     \/ Exporters \cap alive # {} /\ Signalled(Exporters)
  /\ pc' = IF kill.parent THEN "parent" ELSE "final"
  /\ UNCHANGED <<own, clock, inbox, kill, signals, alive, ctx, controller, worker, asked>>

(* The root ends by its own signal, or returns to an engine that exits.    *)
RootEnds ==
  /\ Signalled({Root})
  /\ alive' = alive \ {Root}
  /\ pc' = "exited"
  /\ UNCHANGED <<own, kill>>

kill_parent ==
  /\ pc = "parent"
  /\ RootEnds
  /\ UNCHANGED <<clock, inbox, signals, ctx, controller, worker, asked>>

targets_gone ==
  /\ pc = "final"
  /\ IF kill.targets \cap alive # {}
     THEN retain_owner /\ UNCHANGED <<alive, doomed, hurt, early>>
     ELSE RootEnds
  /\ UNCHANGED <<clock, inbox, signals, ctx, controller, worker, asked>>

time_passes ==
  /\ clock \in {"open", "cooperative"}
  /\ clock' = IF clock = "open" THEN "cooperative" ELSE "expired"
  /\ UNCHANGED <<own, pc, inbox, kill, signals, processes>>

(***************************************************************************)
(* The children: WorkerLifecycle and run_data_parallel_controller_process. *)
(***************************************************************************)
Running(p) == p \in alive \ doomed

opens_context(p) ==
  /\ p \in Devices /\ Running(p) /\ ctx[p] = "fresh"
  /\ p \in Schedulers => worker[p] = "running"
  /\ p = Root => pc \in {"launch", "ready", "launched", "serving"}
  /\ ctx' = [ctx EXCEPT ![p] = "held"]
  /\ UNCHANGED <<own, pc, clock, alive, inbox, controller, worker, asked, kill, doomed, hurt, early, signals>>

(* First failure: QUIT to the parent; the worker stays for its owner.      *)
NotifyParent ==
  IF Dp
  THEN /\ controller' = IF controller = "launching" THEN "interrupted"
                        ELSE IF controller = "ready" THEN "forwarding" ELSE controller
       /\ UNCHANGED inbox
  ELSE UNCHANGED controller /\ inbox' = IF Root \in alive THEN inbox \cup {"QUIT"} ELSE inbox

fail(s) ==
  /\ Running(s) /\ worker[s] \in {"running", "looped"}
  /\ worker' = [worker EXCEPT ![s] = "failed"]
  /\ NotifyParent
  /\ UNCHANGED <<own, pc, clock, alive, ctx, asked, kill, doomed, hurt, early, signals>>

(* A terminal device result: the context is lost, the worker exits.        *)
fail_terminal(s) ==
  /\ Running(s) /\ worker[s] \in {"running", "looped", "failed"}
  /\ worker' = [worker EXCEPT ![s] = "exited"]
  /\ alive' = alive \ {s}
  /\ ctx' = [ctx EXCEPT ![s] = IF @ = "terminated" THEN @ ELSE "released"]
  /\ IF worker[s] = "failed" THEN UNCHANGED <<controller, inbox>> ELSE NotifyParent
  /\ UNCHANGED <<own, pc, clock, asked, kill, doomed, hurt, early, signals>>

loop_returns(s) ==
  /\ Running(s) /\ worker[s] = "running" /\ asked
  /\ ctx[s] \in {"held", "terminated"}
  /\ worker' = [worker EXCEPT ![s] = "looped"]
  /\ ctx' = [ctx EXCEPT ![s] = IF @ = "held" THEN "released" ELSE @]
  /\ UNCHANGED <<own, pc, clock, alive, inbox, controller, asked, kill, doomed, hurt, early, signals>>

finish(s) ==
  /\ Running(s) /\ worker[s] = "looped"
  /\ worker' = [worker EXCEPT ![s] = "exited"]
  /\ alive' = alive \ {s}
  /\ UNCHANGED <<own, pc, clock, ctx, inbox, controller, asked, kill, doomed, hurt, early, signals>>

(* launch_dp_attention_schedulers seals the creation, or an interrupted    *)
(* one forwards its failure only when the list is complete.                *)
around_launch_dp_attention_schedulers ==
  /\ Running(Controller)
  /\ \/ /\ controller = "launching"
        /\ \A s \in Schedulers : worker[s] # "none"
        /\ controller' = "ready"
     \/ /\ controller = "interrupted"
        /\ controller' = IF \A s \in Schedulers : worker[s] # "none" THEN "forwarding" ELSE "retained"
  /\ UNCHANGED <<own, pc, clock, alive, ctx, inbox, worker, asked, kill, doomed, hurt, early, signals>>

forward_signal ==
  /\ Running(Controller) /\ controller = "forwarding"
  /\ controller' = "ready"
  /\ inbox' = IF Root \in alive THEN inbox \cup {"QUIT"} ELSE inbox
  /\ UNCHANGED <<own, pc, clock, alive, ctx, worker, asked, kill, doomed, hurt, early, signals>>

dies(p) ==
  /\ p \in alive \cap doomed
  /\ alive' = alive \ {p}
  /\ UNCHANGED <<own, pc, clock, ctx, inbox, controller, worker, asked, kill, doomed, hurt, early, signals>>

(* Upstream kills the children of a process that has died.                 *)
parent_death(p) ==
  /\ Running(p) /\ p # Root
  /\ IF Dp /\ p \in Schedulers THEN Controller \notin alive ELSE Root \notin alive
  /\ Signalled({p})
  /\ UNCHANGED <<own, pc, clock, alive, ctx, inbox, controller, worker, asked, kill, signals>>

Next ==
  \/ around_launch_subprocesses \/ around_spawn_weight_cache_daemon \/ around_launch_scheduler_processes
  \/ creation_raises \/ launch_returns \/ launch_raises \/ handlers_installed \/ launch_failed
  \/ \E what \in {"cache", "scheduler"} : create(what)
  \/ \E p \in Procs : start_child(p)
  \/ \E sig \in {"TERM", "QUIT"} : deliver(sig) \/ startup_signal(sig)
  \/ around_sigterm_handler \/ around_dispatch_to_scheduler \/ around_sigquit_handler
  \/ around_terminate_weight_cache_daemons
  \/ enter_kill \/ cooperate \/ list_clients \/ confirmed
  \/ \E p \in Procs : skip_target(p) \/ detached_expires(p) \/ (p \in Devices /\ terminate_serving_client(p))
  \/ kill_consumers \/ consumers_gone \/ terminate_exporters \/ exporters_gone
  \/ kill_parent \/ targets_gone \/ time_passes
  \/ \E p \in Devices : opens_context(p)
  \/ \E s \in Schedulers : fail(s) \/ fail_terminal(s) \/ loop_returns(s) \/ finish(s)
  \/ around_launch_dp_attention_schedulers \/ forward_signal
  \/ \E p \in Procs : dies(p) \/ parent_death(p)

Spec == Init /\ [][Next]_vars

(***************************************************************************)
(* No process is killed while it holds a device context that the MPS       *)
(* controller has not terminated: neither by the owner's signals nor by    *)
(* the death of its parent.                                                *)
(***************************************************************************)
ContextsRetiredFirst == hurt = {}

(***************************************************************************)
(* A weight-cache exporter is signalled only when no scheduler, and no     *)
(* controller that could still run one, is alive.                          *)
(***************************************************************************)
ExportersLast == early = {}
=============================================================================
