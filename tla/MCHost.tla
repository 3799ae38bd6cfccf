------------------------------- MODULE MCHost -------------------------------
(***************************************************************************)
(* The owners of host processes, one of them in each behaviour while the   *)
(* others stay in an initial state: the task runner, with two tasks that   *)
(* share a pool of two devices under one event ("pair") or under the loss  *)
(* of a supervisor and of a startup ("rollback"), or one task that takes   *)
(* both under two events ("solo"); the daemon with its MPS controller, an  *)
(* Agent, an Instance rank and one server ("daemon"), or a rank and two    *)
(* ("servers"); and the serving owner of an Instance, with schedulers of   *)
(* its own ("serving") or a data-parallel controller ("dp").  Then the     *)
(* tools that own whole worlds of processes: the memory profiler           *)
(* ("profile"), the owner of a local deployment with two models            *)
(* ("system"), the benchmark runner (with two repetitions of each case and *)
(* one fault, "bench", or continued twice under two, "continued") and the  *)
(* benchmark worker ("measure").                                           *)
(***************************************************************************)
EXTENDS DaemonScope, FiniteSets

CONSTANT Kinds

VARIABLES pool,
  \* TaskScope
  task, pending, free, lease, runner, baseline, waiting, failures, events,
  \* ServingShutdown
  own, pc, watch, alive, context, inbox, controller, worker, asked, kill, doomed, hurt, early, signals,
  \* ProfileWorld
  run, uid, part, up, down, scope, measured,
  \* ServingSystem
  caller, boot, op, tear, proc, ep, root,
  \* BenchRun
  disk, bench, lock, runs,
  \* Measurement
  group, req, queue, unfinished, log, window, torn, verdict,
  \* the faults of a tool
  faults

Pair == INSTANCE TaskScope WITH
  Tasks <- {"a", "b"}, Devices <- {1, 2}, need <- [t \in {"a", "b"} |-> 1], MaxEvents <- 1,
  Kinds <- {"root", "survive"}
Rollback == INSTANCE TaskScope WITH
  Tasks <- {"a", "b"}, Devices <- {1, 2}, need <- [t \in {"a", "b"} |-> 1], MaxEvents <- 2,
  Kinds <- {"supervisor", "startup"}
Solo == INSTANCE TaskScope WITH
  Tasks <- {"a"}, Devices <- {1, 2}, need <- [t \in {"a"} |-> 2], MaxEvents <- 2

Engine == INSTANCE ServingShutdown WITH
  clock <- watch, ctx <- context, Caches <- {"c"}, Schedulers <- {"s"}, Dp <- FALSE, MaxSignals <- 1
Parallel == INSTANCE ServingShutdown WITH
  clock <- watch, ctx <- context, Caches <- {}, Schedulers <- {"s", "t"}, Dp <- TRUE, MaxSignals <- 0

Profile == INSTANCE ProfileWorld WITH
  AtnCount <- 1, FfnCount <- 1, Worlds <- 2, MaxFaults <- 2,
  Faults <- {"cancel", "timeout", "error", "sampler", "crash", "uid", "scope"}
System == INSTANCE ServingSystem WITH
  Models <- <<"m1", "m2">>, MaxFaults <- 2,
  Faults <- {"bind", "spawn", "timeout", "cancel", "log", "crash", "port", "seal"}
Bench == INSTANCE BenchRun WITH
  run <- bench, Cases <- <<"c1", "c2">>, Repetitions <- 2, MaxRuns <- 2, MaxFaults <- 1,
  Faults <- {"cleanup", "prepare", "start", "unsafe", "worker", "raise", "cancel", "crash", "write"}
Continued == INSTANCE BenchRun WITH
  run <- bench, Cases <- <<"c1", "c2">>, Repetitions <- 1, MaxRuns <- 3, MaxFaults <- 2,
  Faults <- {"cleanup", "prepare", "start", "unsafe", "worker", "raise", "cancel", "crash", "write"}
Measure == INSTANCE Measurement WITH
  Requests <- <<"r1", "r2", "r3">>, InFlight <- 2, MaxFaults <- 2,
  Faults <- {"record", "send", "close", "system", "signal", "crash"}

taskVars == <<task, pending, free, lease, runner, baseline, waiting, failures, events>>
servingVars == <<own, pc, watch, alive, context, inbox, controller, worker, asked, kill, doomed, hurt,
                 early, signals>>
hostVars == <<taskVars, vars, servingVars>>
profileVars == <<run, uid, part, up, down, scope, measured>>
systemVars == <<caller, boot, op, tear, proc, ep, root>>
benchVars == <<disk, bench, lock, runs>>
measureVars == <<group, req, queue, unfinished, log, window, torn, verdict>>
toolVars == <<profileVars, systemVars, benchVars, measureVars, faults>>

HostInit ==
  /\ pool \in {"pair", "rollback", "solo", "daemon", "servers", "serving", "dp",
              "profile", "system", "bench", "continued", "measure"}
  /\ IF pool \in {"pair", "rollback"} THEN Pair!Init ELSE Solo!Init
  /\ Init /\ (pool # "daemon" => folder = "absent")
  /\ IF pool = "dp" THEN Parallel!Init ELSE Engine!Init
  /\ Profile!ProfileInit /\ System!ServingInit /\ Measure!MeasurementInit
  /\ IF pool = "bench" THEN Bench!BenchInit ELSE Continued!BenchInit

Tasks == UNCHANGED <<pool, vars, servingVars, toolVars>>
(* The events of "rollback" fall while a task starts or while both run.    *)
Contended == runner.pc = "starting" \/ \A t \in {"a", "b"} : task[t].state = "running"

Daemon == UNCHANGED <<pool, taskVars, servingVars, toolVars>>
Instance == UNCHANGED <<pool, taskVars, vars, toolVars>>
Tool(kept) == UNCHANGED <<pool, hostVars, kept>>

HostNext ==
  \/ pool = "pair" /\ Tasks /\ Pair!Next
  \/ pool = "rollback" /\ Tasks /\ Rollback!Next /\ (events' # events => Contended)
  \/ pool = "solo" /\ Tasks /\ Solo!Next
  \/ pool = "daemon" /\ Daemon /\ Next /\ spawned' \subseteq {"v1"}
  \/ pool = "servers" /\ Daemon /\ Next /\ owner'["a"] = "new"
  \/ pool = "serving" /\ Instance /\ Engine!Next
  \/ pool = "dp" /\ Instance /\ Parallel!Next
  \/ pool = "profile" /\ Tool(<<systemVars, benchVars, measureVars>>) /\ Profile!ProfileNext
  \/ pool = "system" /\ Tool(<<profileVars, benchVars, measureVars>>) /\ System!ServingNext
  \/ pool = "bench" /\ Tool(<<profileVars, systemVars, measureVars>>) /\ Bench!BenchNext
  \/ pool = "continued" /\ Tool(<<profileVars, systemVars, measureVars>>) /\ Continued!BenchNext
  \/ pool = "measure" /\ Tool(<<profileVars, systemVars, benchVars>>) /\ Measure!MeasurementNext

HostSpec == HostInit /\ [][HostNext]_<<pool, hostVars, toolVars>>

(***************************************************************************)
(* Leases are disjoint and account for the pool, and a lease is back in    *)
(* it only when the task's domain is empty and its resources are proved    *)
(* released; the handshakes this rests on never cross                      *)
(* (TaskScope!LeaseProof, TaskScope!NoCrossedHandshake).                   *)
(***************************************************************************)
LeaseProof ==
  /\ pool = "pair" => Pair!LeaseProof /\ Pair!NoCrossedHandshake
  /\ pool = "rollback" => Rollback!LeaseProof /\ Rollback!NoCrossedHandshake
  /\ pool = "solo" => Solo!LeaseProof /\ Solo!NoCrossedHandshake

(***************************************************************************)
(* Nothing is ended under a device context that its owner should have seen *)
(* first.  No generic signal reaches a task's domain that holds resources, *)
(* but for one that lost its supervisor during a startup that is rolled    *)
(* back (TaskScope!NoBlindSignal); no serving process is killed with a     *)
(* context the MPS controller has not terminated, no exporter under a live *)
(* consumer (ServingShutdown!ContextsRetiredFirst, ExportersLast); and     *)
(* when the controller is told to quit, no process the daemon waits for    *)
(* runs, and a context that is open is younger than the list of clients    *)
(* that was checked (DaemonScope!QuitUnconnected).                         *)
(***************************************************************************)
NoBlindSignal ==
  /\ pool = "pair" => Pair!NoBlindSignal
  /\ pool = "rollback" => Rollback!NoBlindSignal
  /\ pool = "solo" => Solo!NoBlindSignal
  /\ Engine!ContextsRetiredFirst /\ Engine!ExportersLast
  /\ QuitUnconnected

(***************************************************************************)
(* A calibration world is retired whole: its MPS scope outlives all its    *)
(* processes, nobody finalizes a world that was joined in part, and a      *)
(* world that is accepted was measured on every device                     *)
(* (ProfileWorld!ScopeStoppedLast, FinalizedTogether, AcceptedWhole).      *)
(***************************************************************************)
ProfileRetires == Profile!ScopeStoppedLast /\ Profile!FinalizedTogether /\ Profile!AcceptedWhole

(***************************************************************************)
(* A deployment is retired from the clients down, also when it is closed   *)
(* in the middle of its startup: the daemon is told to end after the last  *)
(* server, endpoints come back after their processes, and a closed owner   *)
(* owns nothing (ServingSystem!ServersFirst, EndpointsLast,                *)
(* ClosedOwnsNothing).                                                     *)
(***************************************************************************)
ServingOrdered == System!ServersFirst /\ System!EndpointsLast /\ System!ClosedOwnsNothing

(***************************************************************************)
(* A recorded verdict rests on whole evidence, over interrupted and        *)
(* continued invocations of the tool: each repetition of a successful run  *)
(* has a sealed success, and a sealed repetition accounts for each planned *)
(* request exactly once (BenchRun!VerdictWhole, SuccessFinal,              *)
(* MarkerHonest; Measurement!Accounted, VerdictMeasured, WindowComplete).  *)
(***************************************************************************)
EvidenceHonest ==
  /\ pool = "bench" => Bench!VerdictWhole /\ Bench!SuccessFinal
  /\ pool = "continued" => Continued!VerdictWhole /\ Continued!SuccessFinal
  /\ Bench!MarkerHonest
  /\ Measure!Accounted /\ Measure!VerdictMeasured /\ Measure!WindowComplete
=============================================================================
