----------------------------- MODULE DaemonScope -----------------------------
(***************************************************************************)
(* The life of the daemon process and of the one CUDA MPS controller it    *)
(* owns: startup inside the server's lifespan, the signals and failures    *)
(* that seal admission at any point of it, the cleanup thread that waits   *)
(* for every owner before it stops the controller, and the handler that    *)
(* terminates the contexts of one client meanwhile.                        *)
(*                                                                         *)
(* main is the server's thread, cleanup the thread of ControlPlane.close,  *)
(* term the handler of terminate_serving_client.  ctl holds the fields of  *)
(* ControlPlane and of its scope; clock is the cleanup deadline.  folder   *)
(* is what lies at the endpoint's address: nothing, a directory that was   *)
(* there before, the one this scope made, another put in its place, or one *)
(* put there between a look at the directory and the step that relies on   *)
(* it.  ctrl is the controller process, live its servers, ctx the servers  *)
(* on which a process holds a context.  An Agent is admitted before it     *)
(* opens one; an Instance rank needs no admission and may have contexts    *)
(* before it registers, and after it deregisters.                          *)
(*                                                                         *)
(* poisoned are the processes that lost a context to a termination, and so *)
(* open no other (the error is sticky); late, a history variable, the      *)
(* contexts opened since stop took the client list of their server.        *)
(***************************************************************************)
EXTENDS FiniteSets

CONSTANTS Agents, Ranks, Servers, None

(* No identity is a value of its own.                                      *)
ASSUME NoneAssumption == None \notin {"own", "raced"}

VARIABLES main, ctl, clock, cleanup, term, folder, ctrl, live, spawned, owner, ctx, poisoned, late, proven

vars == <<main, ctl, clock, cleanup, term, folder, ctrl, live, spawned, owner, ctx, poisoned, late, proven>>

mps == <<ctrl, live, spawned, ctx, poisoned, late>>

Owners == Agents \cup Ranks

Idle == [pc |-> "idle", target |-> None, servers |-> {}, matched |-> FALSE]

Init ==
  /\ main = "start"
  /\ ctl = [sealed |-> FALSE, scope |-> FALSE, retiring |-> FALSE, identity |-> None,
            servers |-> {}, todo |-> {}, lock |-> "free", scope_closed |-> FALSE, closed |-> FALSE]
  /\ clock = "unset"
  /\ cleanup = "idle" /\ term = Idle
  /\ folder \in {"absent", "old"}
  /\ ctrl = "none" /\ live = {} /\ spawned = {}
  /\ owner = [o \in Owners |-> "new"]
  /\ ctx = [o \in Owners |-> {}]
  /\ poisoned = {} /\ late = {} /\ proven = {}

(* The processes that run device code, and those close waits for.          *)
Running == {o \in Owners : owner[o] \in {"admitted", "registered"}} \cup {o \in Ranks : owner[o] = "new"}
Retained == {o \in Owners : owner[o] \in {"admitted", "registered"}}

Online == ctrl = "online"
ControllerRuns == ctrl \in {"booting", "online"}

(***************************************************************************)
(* Retirement triggers.                                                    *)
(***************************************************************************)
begin_close(c) == [c EXCEPT !.sealed = TRUE, !.retiring = @ \/ c.scope]
Sealing == clock' = IF clock = "unset" THEN "running" ELSE clock

handle_exit ==
  /\ main # "exited" /\ ~ctl.sealed
  /\ ctl' = begin_close(ctl)
  /\ Sealing
  /\ UNCHANGED <<main, cleanup, term, folder, owner, proven, mps>>

(* A background task ends with an error; on_tick sees it.                  *)
record ==
  /\ main = "serve" /\ ~ctl.sealed
  /\ ctl' = begin_close(ctl)
  /\ Sealing
  /\ UNCHANGED <<main, cleanup, term, folder, owner, proven, mps>>

deadline_passes ==
  /\ clock = "running"
  /\ clock' = "expired"
  /\ UNCHANGED <<main, ctl, cleanup, term, folder, owner, proven, mps>>

(***************************************************************************)
(* Startup.  Every step may raise, which the lifespan records.             *)
(***************************************************************************)
Starting == main \in {"start", "scope", "claim", "log", "popen", "probe"}  \* lstat does not fail here

startup_raises ==
  /\ Starting
  /\ main' = "close"
  /\ ctl' = begin_close(ctl)
  /\ Sealing
  /\ UNCHANGED <<cleanup, term, folder, owner, proven, mps>>

start ==
  /\ main = "start"
  /\ main' = IF ctl.sealed THEN "serve" ELSE "scope"
  /\ UNCHANGED <<ctl, clock, cleanup, term, folder, owner, proven, mps>>

create_scope ==
  /\ main = "scope"
  /\ IF ctl.sealed THEN main' = "serve" /\ UNCHANGED ctl
     ELSE main' = "claim" /\ ctl' = [ctl EXCEPT !.scope = TRUE]
  /\ UNCHANGED <<clock, cleanup, term, folder, owner, proven, mps>>

(* mkdir without exist_ok: a directory that is there already raises.  The  *)
(* identity is looked up in a second step.                                 *)
make_directory ==
  /\ main = "claim"
  /\ IF ctl.sealed THEN main' = "serve" /\ UNCHANGED folder
     ELSE folder = "absent" /\ folder' = "own" /\ main' = "identify"
  /\ UNCHANGED <<ctl, clock, cleanup, term, owner, proven, mps>>

claim_directory ==
  /\ main = "identify"
  /\ ctl' = [ctl EXCEPT !.identity = folder]
  /\ main' = "log"
  /\ UNCHANGED <<clock, cleanup, term, folder, owner, proven, mps>>

open_log ==
  /\ main = "log"
  /\ main' = IF ctl.retiring THEN "serve" ELSE "popen"
  /\ UNCHANGED <<ctl, clock, cleanup, term, folder, owner, proven, mps>>

(* The controller and its identity are published with signals deferred.    *)
launch_controller ==
  /\ main = "popen"
  /\ ctrl' = "booting"
  /\ main' = "probe"
  /\ UNCHANGED <<ctl, clock, cleanup, term, folder, owner, proven, live, spawned, ctx, poisoned, late>>

await_controller ==
  /\ main = "probe"
  /\ ctl.retiring \/ Online
  /\ main' = "serve"
  /\ UNCHANGED <<ctl, clock, cleanup, term, folder, owner, proven, mps>>

on_tick ==
  /\ main = "serve"
  /\ ctl.sealed
  /\ main' = "close"
  /\ UNCHANGED <<ctl, clock, cleanup, term, folder, owner, proven, mps>>

server_returns ==
  /\ main = "close" /\ ctl.closed
  /\ main' = "exited"
  /\ UNCHANGED <<ctl, clock, cleanup, term, folder, owner, proven, mps>>

(***************************************************************************)
(* admit_agent_startup: the controller is probed outside the lock, and the *)
(* admission is checked again before the owner is retained.  An Instance   *)
(* rank registers while admission is open, and deregisters at any time     *)
(* (here: one that no Fabric generation retains).                          *)
(***************************************************************************)
Serving == main \in {"serve", "close"}

admit_probes(o) ==
  /\ o \in Agents /\ Serving /\ owner[o] = "new"
  /\ ~ctl.sealed /\ ctl.scope /\ Online
  /\ owner' = [owner EXCEPT ![o] = "probed"]
  /\ UNCHANGED <<main, ctl, clock, cleanup, term, folder, proven, mps>>

admit_agent_startup(o) ==
  /\ owner[o] = "probed"
  /\ owner' = [owner EXCEPT ![o] = IF ctl.sealed THEN "refused" ELSE "admitted"]
  /\ UNCHANGED <<main, ctl, clock, cleanup, term, folder, proven, mps>>

register_instance(o) ==
  /\ o \in Ranks /\ Serving /\ owner[o] = "new"
  /\ ~ctl.sealed /\ ctl.scope
  /\ owner' = [owner EXCEPT ![o] = "registered"]
  /\ UNCHANGED <<main, ctl, clock, cleanup, term, folder, proven, mps>>

deregister_instance(o) ==
  /\ Serving /\ owner[o] = "registered"
  /\ owner' = [owner EXCEPT ![o] = "new"]
  /\ UNCHANGED <<main, ctl, clock, cleanup, term, folder, proven, mps>>

(***************************************************************************)
(* ControlPlane.close and MpsScope.stop.  An error returns to "look".      *)
(***************************************************************************)
close ==
  /\ main = "close" /\ cleanup = "idle"
  /\ cleanup' = IF ctl.closed THEN "done" ELSE "look"
  /\ UNCHANGED <<main, ctl, clock, term, folder, owner, proven, mps>>

close_looks ==
  /\ cleanup = "look"
  /\ Retained = {}
  /\ ~(clock = "expired" /\ ctl.scope /\ ControllerRuns)
  /\ cleanup' = IF ctl.scope THEN "stop" ELSE "finish"
  /\ UNCHANGED <<main, ctl, clock, term, folder, owner, proven, mps>>

stop ==
  /\ cleanup = "stop" /\ ctl.lock = "free"
  /\ ctl' = [ctl EXCEPT !.lock = "stop", !.retiring = TRUE]
  /\ cleanup' = IF ctl.scope_closed THEN "release"
                ELSE IF ctrl = "none" THEN "remove"
                ELSE IF ControllerRuns THEN "observe" ELSE "group"
  /\ UNCHANGED <<main, clock, term, folder, owner, proven, mps>>

Stopping == cleanup \in {"observe", "clients", "quit", "group", "remove", "rmtree"}

(* stop gives its lock back; what it had observed is gone with the call.   *)
Returned(phase) ==
  /\ ctl' = [ctl EXCEPT !.lock = "free", !.servers = {}, !.todo = {}]
  /\ late' = {}
  /\ cleanup' = phase

stop_raises ==
  /\ Stopping
  /\ Returned("look")
  /\ UNCHANGED <<main, clock, term, folder, owner, proven, ctrl, live, spawned, ctx, poisoned>>

observe_servers ==
  /\ cleanup = "observe"
  /\ Online /\ clock # "expired"
  /\ ctl' = [ctl EXCEPT !.servers = live, !.todo = live]
  /\ cleanup' = "clients"
  /\ UNCHANGED <<main, clock, term, folder, owner, proven, mps>>

Clients(v) == {o \in Owners : v \in ctx[o]}

(* The client list of one server after the other; a client raises.         *)
stop_checks_clients(v) ==
  /\ cleanup = "clients" /\ v \in ctl.todo
  /\ Online /\ clock # "expired" /\ v \in live
  /\ Clients(v) = {}
  /\ ctl' = [ctl EXCEPT !.todo = @ \ {v}]
  /\ UNCHANGED <<main, clock, cleanup, term, folder, owner, proven, mps>>

stop_checks_descendants ==
  /\ cleanup = "clients" /\ ctl.todo = {}
  /\ ControllerRuns /\ live = ctl.servers
  /\ cleanup' = "quit"
  /\ UNCHANGED <<main, ctl, clock, term, folder, owner, proven, mps>>

quit ==
  /\ cleanup = "quit"
  /\ Online /\ clock # "expired"
  /\ ctrl' = "exited"
  /\ \/ cleanup' = "group" /\ UNCHANGED <<ctl, late>>
     \/ Returned("look")
  /\ UNCHANGED <<main, clock, term, folder, owner, proven, live, spawned, ctx, poisoned>>

(* The isolated process group, then every retained server identity.        *)
group_gone ==
  /\ cleanup = "group"
  /\ ctrl = "exited" /\ live = {}
  /\ cleanup' = "remove"
  /\ UNCHANGED <<main, ctl, clock, term, folder, owner, proven, mps>>

(* lstat must still find the directory that was claimed; then rmtree.      *)
check_directory ==
  /\ cleanup = "remove"
  /\ IF ctl.identity = None
     THEN cleanup' = "release" /\ ctl' = [ctl EXCEPT !.scope_closed = TRUE]
     ELSE folder = ctl.identity /\ cleanup' = "rmtree" /\ UNCHANGED ctl
  /\ UNCHANGED <<main, clock, term, folder, owner, proven, mps>>

remove_directory ==
  /\ cleanup = "rmtree"
  /\ folder' = "absent"
  /\ ctl' = [ctl EXCEPT !.identity = None, !.scope_closed = TRUE]
  /\ cleanup' = "release"
  /\ UNCHANGED <<main, clock, term, owner, proven, mps>>

release_lock ==
  /\ cleanup = "release"
  /\ Returned("finish")
  /\ UNCHANGED <<main, clock, term, folder, owner, proven, ctrl, live, spawned, ctx, poisoned>>

close_finishes ==
  /\ cleanup = "finish"
  /\ ctl' = [ctl EXCEPT !.closed = TRUE]
  /\ cleanup' = "done"
  /\ UNCHANGED <<main, clock, term, folder, owner, proven, mps>>

(***************************************************************************)
(* terminate_serving_client and MpsScope.terminate_client.  The target may *)
(* be any live process; its owner has stopped it from creating resources   *)
(* before it asks (the precondition of terminate_client).                  *)
(***************************************************************************)
terminate_serving_client(o) ==
  /\ Serving /\ term.pc = "idle"
  /\ ctl.scope /\ ~ctl.closed
  /\ o \in Running
  /\ term' = [Idle EXCEPT !.pc = "lock", !.target = o]
  /\ UNCHANGED <<main, ctl, clock, cleanup, folder, owner, proven, mps>>

terminate_client ==
  /\ term.pc = "lock" /\ ctl.lock = "free" /\ clock # "expired"
  /\ IF ctl.scope_closed \/ ~ControllerRuns \/ ctl.identity = None \/ folder # ctl.identity
        \/ owner[term.target] = "exited"
     THEN term' = Idle /\ UNCHANGED ctl
     ELSE term' = [term EXCEPT !.pc = "observe"] /\ ctl' = [ctl EXCEPT !.lock = "terminate"]
  /\ UNCHANGED <<main, clock, cleanup, folder, owner, proven, mps>>

terminate_observes ==
  /\ term.pc = "observe"
  /\ Online /\ clock # "expired"
  /\ term' = [term EXCEPT !.pc = "each", !.servers = live]
  /\ UNCHANGED <<main, ctl, clock, cleanup, folder, owner, proven, mps>>

terminate_at(v) ==
  /\ term.pc = "each" /\ v \in term.servers
  /\ Online /\ clock # "expired" /\ v \in live
  /\ IF term.target \in Clients(v)
     THEN /\ ctx' = [ctx EXCEPT ![term.target] = @ \ {v}]
          /\ poisoned' = poisoned \cup {term.target}
          /\ term' = [term EXCEPT !.servers = @ \ {v}, !.matched = TRUE]
     ELSE UNCHANGED <<ctx, poisoned>> /\ term' = [term EXCEPT !.servers = @ \ {v}]
  /\ UNCHANGED <<main, ctl, clock, cleanup, folder, owner, proven, ctrl, live, spawned, late>>

(* Mutant: success is answered without a context that matched.             *)
ReturnUnmatched ==
  /\ term.pc = "each" /\ term.servers = {}
  /\ proven' = proven \cup {term.target}
  /\ term' = Idle
  /\ ctl' = [ctl EXCEPT !.lock = "free"]
  /\ UNCHANGED <<main, clock, cleanup, folder, owner, mps>>

terminate_returns ==
  /\ term.pc = "each" /\ term.servers = {}
  /\ proven' = IF term.matched THEN proven \cup {term.target} ELSE proven
  /\ term' = Idle
  /\ ctl' = [ctl EXCEPT !.lock = "free"]
  /\ UNCHANGED <<main, clock, cleanup, folder, owner, mps>>

(* No success, a command that fails, or the deadline.                      *)
terminate_raises ==
  /\ term.pc # "idle"
  /\ term' = Idle
  /\ ctl' = [ctl EXCEPT !.lock = IF term.pc = "lock" THEN @ ELSE "free"]
  /\ UNCHANGED <<main, clock, cleanup, folder, owner, proven, mps>>

(***************************************************************************)
(* The controller, its servers, the owners and the directory (external).   *)
(***************************************************************************)
controller_boots ==
  /\ ctrl = "booting"
  /\ ctrl' = "online"
  /\ UNCHANGED <<main, ctl, clock, cleanup, term, folder, owner, proven, live, spawned, ctx, poisoned, late>>

controller_exits ==
  /\ ControllerRuns
  /\ ctrl' = "exited"
  /\ UNCHANGED <<main, ctl, clock, cleanup, term, folder, owner, proven, live, spawned, ctx, poisoned, late>>

(* A process opens a context on a server, which the first one starts.      *)
Since(v) == cleanup \in {"clients", "quit"} /\ v \notin ctl.todo

connect(o, v) ==
  /\ o \in Running /\ o \notin poisoned /\ term.target # o /\ v \notin ctx[o]
  /\ Online /\ v \in live \cup (Servers \ spawned)
  /\ ctx' = [ctx EXCEPT ![o] = @ \cup {v}]
  /\ live' = live \cup {v} /\ spawned' = spawned \cup {v}
  /\ late' = IF Since(v) THEN late \cup {<<o, v>>} ELSE late
  /\ UNCHANGED <<main, ctl, clock, cleanup, term, folder, owner, proven, ctrl, poisoned>>

server_exits(v) ==
  /\ v \in live
  /\ live' = live \ {v}
  /\ ctx' = [o \in Owners |-> ctx[o] \ {v}]
  /\ UNCHANGED <<main, ctl, clock, cleanup, term, folder, owner, proven, ctrl, spawned, poisoned, late>>

owner_exits(o) ==
  /\ o \in Running
  /\ owner' = [owner EXCEPT ![o] = "exited"]
  /\ ctx' = [ctx EXCEPT ![o] = {}]
  /\ UNCHANGED <<main, ctl, clock, cleanup, term, folder, proven, ctrl, live, spawned, poisoned, late>>

directory_replaced ==
  /\ folder \in {"own", "raced"}
  /\ folder' = IF main = "identify" \/ cleanup = "rmtree" THEN "raced" ELSE "foreign"
  /\ UNCHANGED <<main, ctl, clock, cleanup, term, owner, proven, mps>>

Next ==
  \/ handle_exit \/ record \/ deadline_passes \/ startup_raises
  \/ start \/ create_scope \/ make_directory \/ claim_directory \/ open_log \/ launch_controller
  \/ await_controller \/ on_tick \/ server_returns
  \/ \E o \in Owners : \/ admit_probes(o) \/ admit_agent_startup(o) \/ owner_exits(o)
                       \/ register_instance(o) \/ deregister_instance(o)
                       \/ terminate_serving_client(o) \/ \E v \in Servers : connect(o, v)
  \/ close \/ close_looks \/ stop \/ stop_raises \/ observe_servers \/ stop_checks_descendants \/ quit
  \/ group_gone \/ check_directory \/ remove_directory \/ release_lock \/ close_finishes
  \/ terminate_client \/ terminate_observes \/ terminate_returns \/ terminate_raises
  \/ \E v \in Servers : stop_checks_clients(v) \/ terminate_at(v) \/ server_exits(v)
  \/ controller_boots \/ controller_exits \/ directory_replaced

Spec == Init /\ [][Next]_vars

(***************************************************************************)
(* A daemon that reports closure, and so one whose server returned, has no *)
(* controller, no server, no client context and no directory of its own    *)
(* left, whoever connected meanwhile (ControlPlane.close, MpsScope.stop,   *)
(* DaemonServeCommand.run).                                                *)
(***************************************************************************)
ClosedReleased ==
  /\ main = "exited" => ctl.closed
  /\ ctl.closed => ~ControllerRuns /\ live = {} /\ folder # "own" /\ \A o \in Owners : ctx[o] = {}

(***************************************************************************)
(* When the controller is told to quit, no process the daemon has to wait  *)
(* for runs, and a context that is open was opened by a process it does    *)
(* not know, after stop had taken the client list of that server: the      *)
(* check is no fence, but nothing older slips through it (MpsScope.stop,   *)
(* ControlPlane.close).                                                    *)
(***************************************************************************)
QuitUnconnected ==
  cleanup = "quit" => /\ Retained = {}
                      /\ \A o \in Owners : \A v \in ctx[o] : <<o, v>> \in late

(***************************************************************************)
(* The answer that a client's contexts were terminated is true of every    *)
(* server and never wrong later (MpsScope.terminate_client).               *)
(***************************************************************************)
TerminationHolds == \A o \in proven : ctx[o] = {}

(***************************************************************************)
(* A directory that was there before the scope, or that took the place of  *)
(* its own, is never removed.  The exception is one that takes its place   *)
(* between mkdir and the look at its identity, or between the last look    *)
(* and rmtree (MpsScope.start, MpsScope.stop).                             *)
(***************************************************************************)
ForeignKept == [][(folder \in {"old", "foreign"}) => UNCHANGED folder]_vars

(* The three together: what the daemon says is true, and what it removes   *)
(* is what it last saw to be its own.                                      *)
ScopeHonest == [](TerminationHolds /\ ClosedReleased) /\ ForeignKept

(***************************************************************************)
(* The inductive invariant.  TypeOK is the type invariant.  The scope's    *)
(* lock is held by one of stop and terminate_client; the phases of the     *)
(* server's thread and of the cleanup thread follow each other; a context  *)
(* belongs to a running process and a live server, and is later than the   *)
(* client list that misses it; what stop has released stays released; what *)
(* a termination has yet to visit includes the target's contexts.          *)
(***************************************************************************)
Fields ==
  [sealed : BOOLEAN, scope : BOOLEAN, retiring : BOOLEAN,
   identity : {None, "own", "raced"}, servers : SUBSET Servers, todo : SUBSET Servers,
   lock : {"free", "stop", "terminate"}, scope_closed : BOOLEAN, closed : BOOLEAN]

Call ==
  [pc : {"idle", "lock", "observe", "each"}, target : Owners \cup {None}, servers : SUBSET Servers,
   matched : BOOLEAN]

TypeOK ==
  /\ main \in {"start", "scope", "claim", "identify", "log", "popen", "probe", "serve", "close", "exited"}
  /\ ctl \in Fields
  /\ clock \in {"unset", "running", "expired"}
  /\ cleanup \in {"idle", "look", "stop", "observe", "clients", "quit", "group", "remove", "rmtree",
                  "release", "finish", "done"}
  /\ term \in Call
  /\ folder \in {"absent", "old", "own", "foreign", "raced"}
  /\ ctrl \in {"none", "booting", "online", "exited"}
  /\ live \subseteq Servers /\ spawned \subseteq Servers
  /\ owner \in [Owners -> {"new", "probed", "admitted", "registered", "refused", "exited"}]
  /\ ctx \in [Owners -> SUBSET Servers]
  /\ poisoned \subseteq Owners /\ late \subseteq Owners \X Servers /\ proven \subseteq Owners

LockInv ==
  /\ ctl.lock = "stop" <=> Stopping \/ cleanup = "release"
  /\ ctl.lock = "terminate" <=> term.pc \in {"observe", "each"}

PhaseInv ==
  /\ main \in {"start", "scope", "claim", "identify", "log", "popen"} => ctrl = "none"
  /\ main \in {"claim", "identify", "log", "popen", "probe"} => ctl.scope
  /\ ctrl # "none" \/ ctl.identity # None => ctl.scope
  /\ main \in {"close", "exited"} => ctl.sealed
  /\ cleanup # "idle" \/ ctl.scope_closed => main \in {"close", "exited"}
  /\ main = "exited" => ctl.closed
  /\ ctl.closed <=> cleanup = "done"

ClientInv ==
  /\ \A o \in Owners : ctx[o] \subseteq live
  /\ cleanup \notin {"idle", "look"} => Retained = {}
  /\ ctrl = "none" => live = {}

CheckInv ==
  /\ cleanup \in {"clients", "quit"} => \A o \in Owners : \A v \in ctx[o] : v \in ctl.todo \/ <<o, v>> \in late
  /\ cleanup = "quit" => ctl.todo = {}

Halted == ~ControllerRuns /\ live = {}

ReleaseInv ==
  /\ folder = "own" => ctl.identity = "own" \/ main = "identify"
  /\ main = "identify" => folder \in {"own", "raced"}
  /\ cleanup = "rmtree" => folder \in {"own", "raced"} /\ ctl.identity # None
  /\ cleanup \in {"remove", "rmtree"} => Halted
  /\ cleanup \in {"release", "finish", "done"} \/ ctl.scope_closed => Halted /\ folder # "own"

TermInv ==
  /\ term.pc # "idle" => term.target \in Owners
  /\ term.pc = "each" => ctx[term.target] \subseteq term.servers
  /\ term.matched => term.pc = "each" /\ term.target \in poisoned
  /\ proven \subseteq poisoned

Inv ==
  /\ TypeOK /\ LockInv /\ PhaseInv /\ ClientInv /\ CheckInv /\ ReleaseInv /\ TermInv
  /\ TerminationHolds
=============================================================================
