# CrossPool in TLA+

CrossPool serves several language models from one pool of GPUs. Attention runs
in Instances (SGLang engines with the CrossPool integration) on attention
devices; the FFN layers of all models run on FFN devices; a daemon owns the
control plane. This directory models the parts of the program that are hard to
test: what happens when processes, kernels, signals and failures interleave.
It checks the models with TLC on small instances, and proves the central safety
properties with TLAPS for every value of the constants.

Files: `X.tla` models a component, `XProofs.tla` holds theorems about it (the
proofs about `Lifecycle` take four modules), `MCx.tla` and the `.cfg` files are
the instances for TLC. `PROJECT.json` maps every definition to the source lines it stands for.

## The system and its modules

| part | source | module |
| --- | --- | --- |
| Capacity policy of the daemon and its counterpart in the ranks | `service/daemon/ecs.py`, `integrations/sglang/ecs/capacity.py` | `EcsCapacity` |
| Shared-memory channel between them | `cext/ecs/channel.cpp` | `EcsChannel`, implements `EcsRegisters` |
| KV memory of a rank | `integrations/sglang/ecs/*.py`, `hooks/ecs.py` | `KvLayout`, `RankMemory`, `ElasticMemory` |
| Transport between an Instance rank and its AtnAgent | `cext/transport/*` | `Transport`, implements `FfnCall` |
| FFN Fabric on the devices | `cext/fabric/*`, `cext/ffnagent/*` | `Fabric` |
| Control plane, Agents, Instance ranks | `service/daemon/*.py`, `runtime/*.py` | `FabricGeneration`, `ControlPlane`, `Agents`, `Instances`, composed in `Lifecycle` |
| Daemon process and MPS controller | `utils/mps.py`, `service/daemon/app.py`, `cli/subcommands/daemon.py` | `DaemonScope` |
| Processes of one serving engine | `integrations/sglang/hooks/shutdown.py`, `worker.py` | `ServingShutdown` |
| Placement of FFN layers | `service/daemon/ffn_placement.py`, `runtime/ffnagent/device_memory.py` | `FfnPlacement` |
| Weight loading and execution of an FfnAgent | `runtime/ffnagent/loader.py`, `registry.py`, `agent.py` | `WeightLoader`, `FfnRegistry` |
| Task runner of the developer tools | `xpool-dev/xkit/*.py` | `TaskScope` |
| Offline memory profiler of an FfnAgent | `runtime/ffnagent/memory_profile/runner.py` | `ProfileWorld` |
| Owner of a local serving deployment | `xkit/serving/sglang/system.py`, `xkit/serving/cluster.py` | `ServingSystem` |
| Benchmark invocations and their worker | `xbench/harness/serving/*.py`, `xkit/results.py` | `BenchRun`, `Measurement` |

How they meet: `Lifecycle` brings a Fabric generation up and down; inside one,
Instances call FFN layers through `Transport`, whose Resident kernel calls
`Fabric`, whose Lanes run what `FfnRegistry` captured from the weights
`WeightLoader` loaded where `FfnPlacement` put them. Meanwhile `EcsCapacity`
lends KV memory between Instances on a device over `EcsChannel`, and
`ElasticMemory` is what a rank does with its share. `DaemonScope`,
`ServingShutdown` and `TaskScope` own operating-system processes that hold
device contexts, and must not end them in the wrong order.

### Elastic context state

`EcsCapacity`. The daemon's state keeps its names (`active_quotas`,
`operations`, `pool_capacity_bytes`, ...), and so do the ranks (`charged`,
`limit`, `accepted`, `completed`). One pass of `CapacityPolicy.step` is two
actions, `retire_operations` and `dispatch`, because a pass reads what ranks
publish in between; `dispatch` takes the groups whose demand could be read, so
a torn read is a smaller set. A rank's actions are the points where it meets
its peers or the channel: `request_broadcast`, `vote_ready`, `all_reduce`,
`adopt`, `reclaim`, `finish_retirement`, `finish_scheduling`. Bytes are counted
in granules; `MaxSequence` and `MaxTime` bound commands and the clock, and the
daemon dispatches nothing to a group at its bound.

`EcsChannel` refines one publication of `EcsCapacity` into accesses: a cell is
words and a revision that is odd while its writer stores. Each action is one
sequentially consistent load or store. The exhaustion of the revision word is
reached because `MaxRevision` is a constant. `EcsRegisters` is the abstract
specification, one atomic register per cell.

`KvLayout` is the geometry of compound KV storage, as functions; `RankMemory`
gives the operations on one rank's bundles, pages and quota as operators from
one memory to the next; `ElasticMemory` runs them in the engine's scheduling
pass with TP ranks that meet in collectives, requests that share prefixes,
retraction, commands, and a driver that refuses or fails. `try_map` charges all
missing bundles, acquires them one by one and gives back what it did not reach;
an allocation keeps a journal of receipts, over which `rollback` returns what a
batch had taken before it missed. The order in which a decode miss releases
requests is free, and the prefill delayer may refuse a request (`Delay`).

### Transport and Fabric

`Transport` has one action per access to memory that both sides share: claim,
staging, publication, evaluation and result of a request on the Instance side;
the block's loop, rejection, failure publication, drain and close on the
Resident side; activation, drain and release on the host. Instances crash
anywhere, calls time out, Fabric fails, requests are rejected. `FfnCall` is what
a call promises: it is executed at most once and a successful return carries its
own result.

`Fabric` has the execute kernel of each AtnAgent, the Coordinator with its
scheduler and the Lane kernels of the FFN devices. A record and the signal that
announces it are one step, a payload is another. Claim and publication of a
failure are merged, sequences and leases do not wrap, looks of the Coordinator
that find nothing to do are left out, and a deadline passes either as an event
or when what it waits for can no longer come.

### Lifecycle

`FabricGeneration` is the record of one generation and the functions of
`FabricController` on it; `ControlPlane` has the daemon's handlers, plan
formation in its three steps (capture, probe, commit), watchdog and close;
`Agents` and `Instances` have the processes with their heartbeat threads, the
retries of reports, coordinated shutdown and retention. Handlers are atomic
because the one thing they read outside the lock, whether a process is alive,
changes in one direction only. The collectives of NVSHMEM need all PEs alive.
Lost acknowledgements, late duplicates, crashes, device failures, timeouts,
signals and replacement processes are events, at most `MaxEvents` of them.

### Host processes

`DaemonScope`: the server's thread starts the MPS controller step by step while
signals and failures may seal the daemon; a cleanup thread waits for the owners
it retains, observes servers, takes their client lists one after the other,
compares the controller's children, tells it to quit and removes the directory;
a handler terminates one client's contexts server by server. The MPS processes,
their clients and the directory act on their own. An Agent is admitted before it
opens a context; an Instance rank needs no admission, so it may connect before
it registers, after it deregisters and while the controller is being stopped.
`mkdir` and the look at the new directory are two steps, and so are the last look
and `rmtree`, and somebody may replace the directory between them. That look at a
directory just made is assumed not to fail: if it did, the directory would stay.
A client whose contexts the controller terminated opens no new ones, which is
CUDA's sticky error, and does not connect while its owner has it terminated,
which `terminate_client` requires of its caller. `ServingShutdown`: the root of an engine launches exporters, schedulers
or a data-parallel controller, and retires them under one deadline;
`around_kill_process_tree` is cut at every look at MPS, signal and wait.
`TaskScope`: runner, supervisor and task root with their pipes; time passes by
events. A startup that fails is rolled back over every process the runner adopted
since the startup began; a rollback that cannot prove its domain empty retains
the lease.

`ProfileWorld`: the profiler's owner starts a Host with the bootstrap UID, an
MPS scope and one process per PE, leads them over pipes through facts, plan,
join, execution and finalization, and retires them, once for each calibration
world. Messages under way, what the owner knows and what the participants do
are separate, so an answer may meet a timeout, a cancellation or a crash.
`ServingSystem`: the startup worker of a deployment against callers that close
it meanwhile. A look at the cancellation flag is one step and the acquisition
after it another; the one close operation joins the worker, retires servers,
then the cluster with its own close operation, then endpoints. A daemon that
cannot bind its port exits, a server fails.
`BenchRun`: what a benchmark invocation writes to its durable entry, one write
per step, the process that may die between any two of them, and a later
invocation that continues from what is on disk. The last write of `run.json` may
fail and the entry is completed all the same, so the completion marker says that
the run has released what it held, beside a `run.json` that is finished or has no
result code. `Measurement`: inside one
repetition, the producer, the senders and the observer of a task group, whose
first failure cancels the others, and the runner that judges what they left.

### FFN side

`FfnPlacement`: classes of equal layers, the solver's constraints, its
objectives in order, the decomposition of counts into TP groups by perfect
matchings, and the audit. Sizes are small numbers with the same rounding. The
CP-SAT solver answers any optimum, none, or runs out of time. `WeightLoader`:
which units of which checkpoint tensor each rank reads, as relations, and the
readers with their pinned slots, any of which may fail to open its shard.
`FfnRegistry`: signatures, Lanes, capture
pairs and source caches until the native execution is installed, and the order
in which everything is given back.

## Runs

| run | what it checks |
| --- | --- |
| `ecs_teams` | two TP groups of two ranks on two devices: `PermissionWithinBudget`, `ReserveKept`, `QuotaBounds`, `NoCheckFails`, `OnlyDonorShrinks`, `GroupsAgree` |
| `ecs_live` | two single-rank Instances: `OperationsComplete`, `BorrowersServed` |
| `ecs_channel` | a daemon and two ranks word by word: `NoCheckFails`, and `AtomicPublications` (implements `EcsRegisters`) |
| `memory` | KV memory (`PagesBacked`, `ChargesExact`, `OwnersExact`), placement (`PlacementExact`), loading (`LoadingExact`), FFN execution (`ExecutionBacked`) |
| `transport_safe` | two arenas: `OwnOutput`, `NoStatusAbort`, `NoUseAfterFree`, and `CallPromise` (implements `FfnCall`) |
| `lifecycle` | `RetirementOrdered`, `ExecutableIsActive`, `OneWorld`, `ClosedIsEmpty` |
| `fabric`, `fabric_live` | `PayloadsOwn`, `FailureAgreed`; `CallsReturn`, `DrainStops` |
| `host` | task runner (`LeaseProof`), no context ended under its holder (`NoBlindSignal`), an honest daemon (`ScopeHonest`), calibration worlds (`ProfileRetires`), deployments (`ServingOrdered`), benchmark evidence (`EvidenceHonest`) |
| `live` | `DrainCompletes`, `RequestAnswered` (Transport), `QuiescingRetires`, `CloseCompletes`, `StartupSettles` (Lifecycle), `RunReturnsDevices` (TaskScope) |
| `transport_closed`, `agent_snapshot` | two disagreements between code and its own statements, below |

`memory`, `host` and `live` hold several components; one of them runs in each
behaviour and the others stay where they are, so the run is the union of the
components' own runs.

### Bounds

Bounds are chosen so that every action fires and the interesting cases happen.

* Capacity: two groups competing for a device are the least for which borrowing
  needs a donor; two ranks are the least for which a vote can differ. A group
  takes two or three commands, enough for startup, a shrink and a growth.
  DP groups (several groups of one Instance) and larger topologies are left to
  the proofs. The branch that rejects the pools when a device is too small is
  not reached in the runs.
* Channel: a command is published twice, so that a reader can meet two writers'
  generations of one cell, and a third publication exhausts the revision.
* Memory: pages of four bytes on bundles of three, so that pages straddle
  bundles; one page shares a pinned bundle; two requests with a common prefix;
  one driver fault (382,437 states with the FFN side).
* Transport: one arena takes two calls, so that a mailbox is reused, under
  expired waits and fabric failures; the Instance of the other may crash
  (1,755,048 states). Rejections are in `live` and `transport_closed`; the proofs
  cover every fault on every arena.
* Lifecycle: one event of any kind.
* Task runner: one task with two devices under two events of ten kinds; two tasks
  that share a pool, under one event of a task's own, or under the loss of a
  supervisor and of a startup, which fall while a task starts or both run. Each
  kind of event happens at most once.
* Serving: one scheduler and one exporter under one signal, or two schedulers
  under a controller. Checked once: two signals, two schedulers and exporters
  (1,907,962 states), a controller with exporters and signals (3,259,733).
* Daemon: an Agent and an Instance rank with one MPS server, and a rank with two.
* Profiler: one attention and one FFN device, two worlds, two faults of seven
  kinds. Deployment: two models, two faults of eight kinds. Benchmark: two cases
  of two repetitions, an invocation and a continuation, one fault; two cases of
  one repetition continued twice, two faults; a worker with three requests of
  which two may be in flight, two faults. `host` has 986,520 states in all.
* Placement: one or two models, two or three agents, limits that admit, refuse
  or force uneven splits. Loader: one layer of each kind. Registry: two
  Instances that share a layout, two Lanes; a larger plan (418,378 states) was
  checked once.

Several configurations say `CHECK_DEADLOCK FALSE`: there a component really may
stop (a process exits, an owner is retained for good, calls run out). `ecs_*`
runs check deadlock.

### Fairness

* `EcsCapacity`: the timer of the daemon and the scheduling boundaries of each
  rank recur (weak fairness); a chunk ends, requests finish so that backing
  becomes free, a torn read does not repeat for ever (strong fairness). A vote
  of several ranks would need them to poll together, so the liveness run has
  single-rank groups.
* `Transport` and `Fabric`: launched kernels run. The Resident is a cooperative
  grid and the Lanes are resident, so every block makes progress.
* `Lifecycle`: every thread of a live process and the daemon's watchdog run; the
  owner of a serving process ends it sooner or later.
* `TaskScope`: whoever can take a step, some process does; no process repeats a
  step for ever.

### Disagreements found

* `agent_snapshot` / `DeploymentServes`. An Agent's main thread acquires the
  plan while its heartbeat slot still holds a response the daemon built before
  the plan was admitted. Applying it raises, and a startup without any fault
  fails, where `docs/designs/control-plane.md` calls startup monotonic.
* `transport_closed` / `CloseExplained`. After a local rejection the Instance
  closes its mailbox itself. A next call finds it closed with neither failure
  nor shutdown, and the assertion in `cext/transport/instance.cu` fires.

The rollback of a startup is a third disagreement, without a run of its own.
`docs/designs/tooling.md` says of a supervisor lost during a protected task that
scheduling is sealed, the allocation and the living owners are retained, and that
this "does not trigger device-blind fallback signals". `abort_startup`
(`xkit/supervisor.py:632`) spares only the children the runner had when the
startup began. If a protected task loses its supervisor during another task's
startup that then fails, its tree is adopted after that, and
`drain_unprotected_subreaper_descendants` terminates and kills it. `NoBlindSignal`
names this exception: such a domain has lost its supervisor and was not in the
baseline (`resources = "rolled"`). Everything else the design says of blind
signals holds in the run.

Three more properties are stated but in no run: `Lifecycle!SurvivorsExit`,
`TaskScope!UnprotectedExpiryBounded` and `Fabric!ConvergenceReached`. TLC refutes each
of them on a small instance: survivors of a failed generation are retained where
the design says they exit, a drained task whose protection was never committed
may be retained, and members of a group that time out before the first failure
reaches them return their own.

## Proofs

All theorems hold for every value of the constants that the named assumptions
admit (any number of Instances, devices, groups, ranks, arenas, calls, words).

### Capacity (`EcsCapacityProofs`)

`Spec => []Inv`, and from it `BudgetSafe`, `ReserveSafe`, `QuotaSafe`,
`ChecksPass`, `DonorSafe`, `GroupsSafe`, `TypeCorrect`, and the action property
`CommandsSafe`. Assumptions: every Instance has one rank on every attention
device (`TopologyAssumption`), and floors fit a device beside what else it holds
(`SizeAssumption`).

`PermissionWithinBudget` is not inductive: a publication keeps it only if the
daemon's idea of what is in force is right. `Inv` adds that commands, accepted
and completed sequences are at most one apart (`SequenceInv`); that a rank's
limit covers its charge and is the quota of the command it completed
(`LedgerInv`); that a ready vote stays true until it is acted on and a group
adopts whole (`BallotInv`); what the pools were frozen to (`BudgetInv`); quotas
between floor and ceiling (`QuotaInv`); demands of the current command ask for
growth (`DemandInv`); and that only a donor shrinks. The module begins with
lemmas about sums over the groups of a device: a sum is the cardinality of a set
of bytes, so that monotonicity, update at one group and equal shares follow from
facts about finite sets and need no induction. Then there is one lemma per
action, of the daemon's dispatch and of the ranks and pools.

### Channel (`EcsChannelProofs`)

`Spec => []Inv`, `ReadsAreWhole`, `ChecksPass`, and `Refinement`: every step of
the cells is a step of the registers or changes none of them. The invariant says
which words of a cell under publication are new (`CellInv`), that what a reader
has copied is the current record as long as the revision has not moved
(`ReadInv`), and that daemon and ranks are at most one command apart
(`HandshakeInv`), which is why the re-read checks cannot fail.

### Transport (`TransportProofs`)

`Spec => []Inv`, and `OutputSafe`, `StatusSafe`, `FreeSafe`; `Refinement` shows
that `Transport` implements `FfnCall`. `StatusInv` ties the mailbox's status to
where both sides are, `PayloadInv` says which call the request and the output in
an arena belong to, `FailureInv` and `ReturnInv` follow the failure code and the
caller, `HostInv` says that leases end before the drain and blocks before the
release. One lemma per action shows that it keeps the invariant of its own
arena; the others' arenas do not change.

### Lifecycle (`LifecycleInvariant`, `LifecycleDaemonProofs`, `LifecycleAgentProofs`, `LifecycleProofs`)

`Spec => []Inv`, and from it the four invariants of the run: `RetirementSafe`,
`ExecutableSafe`, `OneWorldSafe`, `ClosedSafe`, for any devices, ranks,
processes and replacements, any number of events of every kind and of report
attempts. Assumptions: every process is started for one place
(`PlacesAssumption`), a report is attempted at least once (`AttemptsAssumption`),
and the value `None` is none of the values it stands beside (`NoneAssumption`,
`ReportAssumption`).

None of the four is inductive. What the daemon decides rests on reports, and a
report may be lost, repeated by a retry, or arrive after its sender has gone on;
what the Agents do rests on snapshots of the generation that may be old. `Inv`
therefore has two parts.

* `Structure` relates processes, books, broker and leases: a live Agent past
  admission owns its place (`AdmitInv`); the book, a captured roster and the
  generation list members, and the book keeps the Agents of a retained
  generation (`RosterInv`); what a process registered stays its own while it
  lives (`OwnInv`); nobody the daemon knows runs once it has closed (`CloseInv`);
  the publications of an Agent that has left cannot be leased (`BrokerInv`); and a
  rank that is attached, or about to be, leases from an Agent of its device that
  has neither left nor drained, in a generation that is retained for it
  (`LeaseInv`).
* `Progress` relates the generation to the Agents: the native state fits what
  the Agent reported last (`NativeAt`, `RecordInv`); a snapshot is never ahead of
  the generation (`Behind`); whatever report the daemon has recorded or may still
  receive, retained, sent or late, what it says is so (`Claims` implies `Backed`);
  and each phase implies what its barrier waited for (`GenerationInv`).

`LifecycleInvariant` states `Inv`, shows what each of the daemon's functions may
do to a generation (`Moves`, `Accepts`, `Halts`) and that such a change keeps
`Progress`; it also has the steps with which Agents come and go.
`LifecycleDaemonProofs` has the daemon's own threads, plan formation and the
Instance ranks, `LifecycleAgentProofs` the Agents' control loop, reports and
shutdown. `LifecycleProofs` has the registration of Agents, and puts the steps
together.
TLC checked `Inv` on the instance of the run before it was proved.

### Daemon and MPS scope (`DaemonScopeProofs`)

`Spec => []Inv`, `QuitSafe` and `HonestSafe` (`ScopeHonest`), for any Agents,
ranks and servers; the one assumption is that `None` is no identity
(`NoneAssumption`).

`stop` takes client lists while ranks may connect, so nobody can show that a
controller that quits has no client, and `docs/designs/control-plane.md` claims
no such fence. `QuitSafe` says what the code does ensure: every process that
`close` waits for has gone, and a context that is open is younger than the client
list of its server. The history variable `late` records such contexts and
`CheckInv` is the induction over the servers still to be listed. That a closed
daemon has no context left all the same follows from the group and the server
identities `stop` waits for afterwards. `HonestSafe` also says that a directory
of somebody else is kept, except one that takes the place of the scope's own
inside one of the two windows.

The invariant says who holds the scope's lock (`LockInv`), which phases of the
server's and of the cleanup thread go together (`PhaseInv`), that a context
belongs to a live server and that nobody retained runs once cleanup has begun to
stop (`ClientInv`), what is already released at each step (`ReleaseInv`), and
that a termination under way has the target's contexts among the servers it has
yet to visit (`TermInv`).

### Only model-checked

* Liveness under fairness, and what depends on ENABLED.
* The memory and FFN modules (`ElasticMemory`, `FfnPlacement`, `WeightLoader`,
  `FfnRegistry`), `TaskScope`, `ProfileWorld`, `BenchRun` and `Measurement`:
  their operators are folds and sums over data, or over a queue of messages, and
  what those compute for every input needs an induction that the provers do not
  do.
* `Fabric`, `ServingShutdown` and `ServingSystem`. Their invariants are not inductive either, and
  the strengthening (for `Fabric`, over every slot, Lane lease and failure record
  of a group at once) has not been worked out.

Conversely, the type invariants and `CommandsImmutable` are proved and in no
run.

## Not modelled

* Crash and restart of the daemon: nothing is persisted, Agents and Instances
  fail with it. Its close deadline, the serving-health monitor and the gate that
  checks memory profiles.
* HTTP encoding, configuration, reports, observers and the test harness.
* Profiler: what is measured and the fitting of coefficients. Benchmarks:
  workloads, metrics and reports; a repetition is its exit code and the state of
  its evidence. Deployment: one Agent stands for all.
* Lifecycle: geometry and ABI conflicts of registrations, idempotent
  republication, timeouts of the Instance's startup barrier. Enrichment of an
  arena is one step for its two attempts, and attaching to an arena does not
  fail. Why a generation failed is left out: it has failed or not. A
  registration is one step of the daemon.
* EcsChannel: a revision word that wraps; the writer's refusal before that is
  modelled.
* ElasticMemory: ranks of a group run in lockstep between collectives; which
  requests the engine selects is free; the least recently used cache node is
  the earliest request's.
* TaskScope: item windows are an expiry event; a supervisor that does not exit
  after its last message, and a relay to the root that fails to be written, are
  not modelled.
* ServingShutdown: the engine's own draining is one step, and the wait without a
  limit is the wait with one that does not expire.
* FfnRegistry: an Agent whose generation is quiescing when it fails takes the
  normal path.
* CUDA, NVSHMEM, NCCL, BLAS, CP-SAT, SGLang and MPS are external, modelled by what
  the code relies on.
