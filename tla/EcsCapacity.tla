---------------------------- MODULE EcsCapacity ----------------------------
(***************************************************************************)
(* Elastic Context State: how one Fabric Generation lends physical KV      *)
(* memory between co-located Instances.                                    *)
(*                                                                         *)
(* A Capacity Group is one (Instance, DP rank); it owns one partition on   *)
(* each of its TP ranks' devices.  The daemon's CapacityPolicy freezes one *)
(* budget per device, then moves byte permission between groups with at    *)
(* most one unfinished command per group.  Every rank holds a MemoryQuota  *)
(* and adopts a command only when all ranks of its group vote ready.  The  *)
(* two sides talk through a shared-memory channel whose publications are   *)
(* read atomically or not at all (the seqlock of module EcsChannel).       *)
(*                                                                         *)
(* Byte counts are natural numbers in allocation granules.                 *)
(***************************************************************************)
EXTENDS Integers, FiniteSets, Sequences

CONSTANTS
    Instances,      \* the models of the configuration
    Devices,        \* the attention devices
    Groups,         \* group indices, in directory order
    InstanceOf,     \* [Groups -> Instances]
    DevicesOf,      \* [Groups -> SUBSET Devices], one device per TP rank
    Floor,          \* pinned bytes of each partition
    Reservation,    \* virtual reservation of each partition
    DeviceTotal,    \* physical bytes of each device
    DeviceOther,    \* bytes of a device used by weights, graphs, contexts
    Utilization,    \* atn.device_memory_utilization, in percent
    Headroom,       \* declared runtime headroom of each partition
    ChunkedPrefill, \* the groups whose scheduler splits long Prefills
    TtftBudget,     \* the deadline of a blocked request, ticks after receipt
    MaxSequence,    \* bound on the command sequence of each group
    MaxTime         \* bound on the clock

Partitions == {p \in Groups \X Devices : p[2] \in DevicesOf[p[1]]}
GroupsOn(d) == {g \in Groups : d \in DevicesOf[g]}
Ranks(g) == {<<g, d>> : d \in DevicesOf[g]}

\* The bytes of device d that the ledger f hands out, and how many they are.
Bytes(f, d) == UNION {{g} \X (1 .. f[<<g, d>>]) : g \in GroupsOn(d)}
Sum(f, d) == Cardinality(Bytes(f, d))

ASSUME TopologyAssumption ==
    /\ IsFiniteSet(Groups) /\ Groups \subseteq Nat
    /\ IsFiniteSet(Instances) /\ Instances # {}
    /\ IsFiniteSet(Devices)
    /\ InstanceOf \in [Groups -> Instances]
    /\ DevicesOf \in [Groups -> (SUBSET Devices) \ {{}}]
    \* every Instance has exactly one rank on every attention device
    /\ \A d \in Devices : \A i \in Instances :
          \E g \in GroupsOn(d) : InstanceOf[g] = i
    /\ \A d \in Devices : \A g, h \in GroupsOn(d) :
          InstanceOf[g] = InstanceOf[h] => g = h

ASSUME SizeAssumption ==
    /\ Floor \in [Partitions -> Nat] /\ Reservation \in [Partitions -> Nat]
    /\ \A p \in Partitions : Floor[p] <= Reservation[p]
    /\ DeviceTotal \in [Devices -> Nat] /\ DeviceOther \in [Devices -> Nat]
    \* the floors are mapped beside everything else the device holds
    /\ \A d \in Devices : DeviceOther[d] + Sum(Floor, d) <= DeviceTotal[d]
    /\ Utilization \in 0 .. 100 /\ Headroom \in [Partitions -> Nat]
    /\ ChunkedPrefill \subseteq Groups
    /\ TtftBudget \in Nat /\ MaxTime \in Nat
    /\ MaxSequence \in [Groups -> Nat]

-----------------------------------------------------------------------------
VARIABLES
    (* the ranks: MemoryQuota, CapacityReconciler, scheduler *)
    charged,            \* MemoryQuota.charged_bytes
    limit,              \* MemoryQuota.limit_bytes
    retiring,           \* bytes of the pending SglangReclaimPlan
    accepted,           \* the rank's retained QuotaCommand
    adopted,            \* active_quota_bytes
    completed,          \* completed_sequence
    ballot,             \* where the rank stands in its group's vote
    chunk,              \* groups with has_chunk_owner, common to their ranks
    (* the channel *)
    initial_backing, device_free, command, completion, demand,
    (* the daemon: CapacityPolicy *)
    step,               \* which half of CapacityPolicy.step comes next
    pool_capacity_bytes, active_quotas, service_ceilings, applied_sequences,
    operations,         \* the groups whose operation is not None
    demands, completed_grant_orders, next_grant_order, funding_attempt,
    failed,             \* some consistency check of either side raised
    now                 \* perf_counter_ns, shared by daemon and ranks

rankVars == <<charged, limit, retiring, accepted, adopted, completed, ballot,
              chunk>>
poolVars == <<pool_capacity_bytes, active_quotas, service_ceilings>>
grantVars == <<applied_sequences, operations, completed_grant_orders,
               next_grant_order>>
fundVars == <<demands, funding_attempt>>
startVars == <<initial_backing, device_free>>
vars == <<rankVars, startVars, command, completion, demand, step, poolVars,
          grantVars, fundVars, failed, now>>

Absent == -1        \* a channel word or policy slot that is still None

Vector(g) == [DevicesOf[g] -> Nat]
Zero(g) == [d \in DevicesOf[g] |-> 0]
FloorOf(g) == [d \in DevicesOf[g] |-> Floor[<<g, d>>]]
Larger(a, b) == IF a >= b THEN a ELSE b
Smaller(a, b) == IF a <= b THEN a ELSE b

Init ==
    /\ charged = [p \in Partitions |-> 0]
    /\ limit = Floor
    /\ retiring = [p \in Partitions |-> 0]
    /\ accepted = [p \in Partitions |->
                      [sequence |-> 0, quota_bytes |-> Zero(p[1])]]
    /\ adopted = [p \in Partitions |-> Zero(p[1])]
    /\ completed = [p \in Partitions |-> 0]
    /\ ballot = [p \in Partitions |-> "none"]
    /\ chunk = {}
    /\ initial_backing = [p \in Partitions |-> Absent]
    /\ device_free = [d \in Devices |-> Absent]
    /\ command = [g \in Groups |-> [sequence |-> 0, quota_bytes |-> Zero(g)]]
    /\ completion = [p \in Partitions |-> [sequence |-> 0, backed_bytes |-> 0]]
    /\ demand = [g \in Groups |-> [sequence |-> 0, required |-> Zero(g),
                                   deadline |-> Absent]]
    /\ step = "unfrozen"
    /\ pool_capacity_bytes = [d \in Devices |-> 0]
    /\ active_quotas = [g \in Groups |-> Zero(g)]
    /\ service_ceilings = [g \in Groups |-> Zero(g)]
    /\ applied_sequences = [g \in Groups |-> 0]
    /\ operations = {}
    /\ demands = demand
    /\ completed_grant_orders = [g \in Groups |-> Absent]
    /\ next_grant_order = 0
    /\ funding_attempt = {}
    /\ failed = FALSE
    /\ now = 0

-----------------------------------------------------------------------------
(* Startup: floors, post-capture publication, device observation. *)

\* around_init_pools maps every pinned floor under a limit equal to it.
init_pools(p) ==
    /\ charged[p] = 0 /\ initial_backing[p] = Absent
    /\ charged' = [charged EXCEPT ![p] = Floor[p]]
    /\ UNCHANGED <<limit, retiring, accepted, adopted, completed, ballot,
                   chunk, startVars, command, completion, demand, step,
                   poolVars, grantVars, fundVars, failed, now>>

\* finalize_after_capture publishes what the rank really backs.
publish_initial_backing(p) ==
    /\ charged[p] = Floor[p] /\ initial_backing[p] = Absent
    /\ initial_backing' = [initial_backing EXCEPT ![p] = charged[p]]
    /\ UNCHANGED <<rankVars, device_free, command, completion, demand, step,
                   poolVars, grantVars, fundVars, failed, now>>

\* The AtnAgent measures its device once every local capture is complete.
publish_device_memory(d) ==
    /\ device_free[d] = Absent
    /\ \A g \in GroupsOn(d) : initial_backing[<<g, d>>] # Absent
    /\ device_free' = [device_free EXCEPT ![d] =
                          DeviceTotal[d] - DeviceOther[d] - Sum(charged, d)]
    /\ UNCHANGED <<rankVars, initial_backing, command, completion, demand,
                   step, poolVars, grantVars, fundVars, failed, now>>

-----------------------------------------------------------------------------
(* The daemon's arithmetic. *)

Reserve(d) ==
    Larger(DeviceTotal[d] - (DeviceTotal[d] * Utilization) \div 100,
           Sum(Headroom, d))

\* Faulty: the reserve is forgotten.
BudgetWithoutReserve(d) == device_free[d] + Sum(initial_backing, d)

budget(d) == device_free[d] + Sum(initial_backing, d) - Reserve(d)

\* Faulty: every Instance is given the whole rest.
UndividedTarget(g) ==
    [d \in DevicesOf[g] |->
        Smaller(Reservation[<<g, d>>],
                Floor[<<g, d>>] + pool_capacity_bytes[d] - Sum(Floor, d))]

\* Every Instance starts with its floor and an equal share of the rest.
initial_target(g) ==
    [d \in DevicesOf[g] |->
        Smaller(Reservation[<<g, d>>],
                Floor[<<g, d>>] + (pool_capacity_bytes[d] - Sum(Floor, d))
                                     \div Cardinality(Instances))]

\* All of a device's budget but the other Instances' floors.
service_ceiling(g, capacity) ==
    [d \in DevicesOf[g] |->
        Smaller(Reservation[<<g, d>>],
                capacity[d] - (Sum(Floor, d) - Floor[<<g, d>>]))]

\* What a group may be using: both vectors until its operation is complete.
permission ==
    [p \in Partitions |->
        IF p[1] \in operations
        THEN Larger(active_quotas[p[1]][p[2]], command[p[1]].quota_bytes[p[2]])
        ELSE active_quotas[p[1]][p[2]]]

pool_free_bytes(d) == pool_capacity_bytes[d] - Sum(permission, d)

\* publish_operation, with the checks of the channel's publish_command.  The
\* daemon's own record of an operation is the command it published.
publish_operation(g, quota) ==
    IF \/ g \in operations
       \/ command[g].sequence # applied_sequences[g]
       \/ command[g].sequence # 0
          /\ \E p \in Ranks(g) : completion[p].sequence # command[g].sequence
    THEN failed' = TRUE /\ UNCHANGED <<command, operations>>
    ELSE /\ command' = [command EXCEPT ![g] =
                           [sequence |-> applied_sequences[g] + 1,
                            quota_bytes |-> quota]]
         /\ operations' = operations \cup {g}
         /\ UNCHANGED failed

-----------------------------------------------------------------------------
(* CapacityPolicy.step, first half: freeze, then credit completions. *)

Observed ==
    /\ \A p \in Partitions : initial_backing[p] # Absent
    /\ \A d \in Devices : device_free[d] # Absent

freeze_pools ==
    /\ step = "unfrozen" /\ Observed
    /\ IF \E p \in Partitions : initial_backing[p] # Floor[p]
       THEN failed' = TRUE /\ UNCHANGED <<step, poolVars>>
       ELSE IF \E d \in Devices : budget(d) < Sum(Floor, d)
       THEN step' = "rejected" /\ UNCHANGED <<failed, poolVars>>
       ELSE /\ step' = "dispatch"
            /\ pool_capacity_bytes' = [d \in Devices |-> budget(d)]
            /\ active_quotas' = [g \in Groups |-> FloorOf(g)]
            /\ service_ceilings' =
                  [g \in Groups |-> service_ceiling(g, pool_capacity_bytes')]
            /\ UNCHANGED failed
    /\ UNCHANGED <<rankVars, startVars, command, completion, demand,
                   grantVars, fundVars, now>>

Retired == {g \in Groups :
    g \in operations /\ \A p \in Ranks(g) :
                        completion[p].sequence = command[g].sequence}

\* Retired groups whose operation, other than the initial one, was a growth.
Granted == {g \in Retired :
    /\ command[g].sequence # 1
    /\ \E d \in DevicesOf[g] : command[g].quota_bytes[d] > active_quotas[g][d]}

\* Faulty: a retired donor is not noted.
RetireWithoutNote ==
    /\ step = "collect"
    /\ step' = "dispatch"
    /\ active_quotas' = [g \in Groups |->
          IF g \in Retired THEN command[g].quota_bytes ELSE active_quotas[g]]
    /\ applied_sequences' = [g \in Groups |->
          IF g \in Retired THEN command[g].sequence ELSE applied_sequences[g]]
    /\ operations' = operations \ Retired
    /\ UNCHANGED <<rankVars, startVars, command, completion, demand, failed,
                   pool_capacity_bytes, service_ceilings, fundVars, now,
                   completed_grant_orders, next_grant_order>>

retire_operations ==
    /\ step = "collect"
    /\ step' = "dispatch"
    /\ IF \E g \in Retired : \E d \in DevicesOf[g] :
             ~ /\ Floor[<<g, d>>] <= completion[<<g, d>>].backed_bytes
               /\ completion[<<g, d>>].backed_bytes <= command[g].quota_bytes[d]
       THEN /\ failed' = TRUE
            /\ UNCHANGED <<active_quotas, grantVars, funding_attempt>>
       ELSE /\ active_quotas' = [g \in Groups |->
                  IF g \in Retired THEN command[g].quota_bytes
                                   ELSE active_quotas[g]]
            /\ applied_sequences' = [g \in Groups |->
                  IF g \in Retired THEN command[g].sequence
                                   ELSE applied_sequences[g]]
            /\ operations' = operations \ Retired
            /\ completed_grant_orders' = [g \in Groups |->
                  IF g \in Granted
                  THEN next_grant_order + Cardinality({h \in Granted : h < g})
                  ELSE completed_grant_orders[g]]
            /\ next_grant_order' = next_grant_order + Cardinality(Granted)
            \* note_retired_donor
            /\ funding_attempt' = {[a EXCEPT
                  !.attempted = @ \cup (a.donor \cap Retired),
                  !.donor = @ \ Retired] : a \in funding_attempt}
            /\ UNCHANGED failed
    /\ UNCHANGED <<rankVars, startVars, command, completion, demand,
                   pool_capacity_bytes, service_ceilings, demands, now>>

-----------------------------------------------------------------------------
(* CapacityPolicy.step, second half: publish at most one operation.  The   *)
(* parameter k is the daemon's demand snapshot after consume_demands.      *)

consume_demands(visible) ==
    [g \in Groups |-> IF g \in visible /\ demand[g].sequence # 0
                      THEN demand[g] ELSE demands[g]]

\* required_bytes and deadline_monotonic_ns are None together.
present(m) == m.deadline # Absent

last_issued_sequence(g) ==
    IF g \in operations THEN command[g].sequence ELSE applied_sequences[g]

demand_invalid(g) ==
    \/ demand[g].sequence > last_issued_sequence(g)
    \/ /\ present(demand[g]) /\ demand[g].sequence = applied_sequences[g]
       /\ \E d \in DevicesOf[g] :
             demand[g].required[d] < active_quotas[g][d]

eligible_demand(k, g) ==
    /\ g \notin operations
    /\ present(k[g]) /\ k[g].sequence = applied_sequences[g]
    /\ \A d \in DevicesOf[g] :
          active_quotas[g][d] <= k[g].required[d]
          /\ k[g].required[d] <= service_ceilings[g][d]
    /\ k[g].required # active_quotas[g]

overdue(k) == {g \in Groups : eligible_demand(k, g) /\ k[g].deadline <= now}
protected(k) == UNION {DevicesOf[g] : g \in overdue(k)}

borrowers(k) ==
    overdue(k) \cup {g \in Groups : eligible_demand(k, g) /\ k[g].deadline > now
                                    /\ DevicesOf[g] \cap protected(k) = {}}

\* Lexicographic order on sort keys of one length, as Python tuples compare.
Before(s, t) == \E i \in 1 .. Len(s) :
                   s[i] < t[i] /\ \A j \in 1 .. i - 1 : s[j] = t[j]

grant_order(g) == completed_grant_orders[g]

\* ordered_borrowers: overdue ones by least recent grant, then by deadline.
borrower_key(k, g) ==
    IF g \in overdue(k)
    THEN <<0, IF grant_order(g) = Absent THEN 0 ELSE 1,
           Larger(grant_order(g), 0), k[g].deadline, g>>
    ELSE <<1, k[g].deadline, g, 0, 0>>

new_attempt(k, g) ==
    [borrower |-> g, sequence |-> k[g].sequence, target |-> k[g].required,
     deadline |-> k[g].deadline, attempted |-> {}, donor |-> {}]

attempt_is_current(k, a) ==
    /\ eligible_demand(k, a.borrower)
    /\ k[a.borrower].sequence = a.sequence
    /\ k[a.borrower].required = a.target
    /\ k[a.borrower].deadline = a.deadline

growth_bytes(g, target, d) == target[d] - active_quotas[g][d]

fits(g, target) ==
    \A d \in DevicesOf[g] : growth_bytes(g, target, d) <= pool_free_bytes(d)

shortage(a, d) ==
    IF d \in DevicesOf[a.borrower]
    THEN Larger(0, growth_bytes(a.borrower, a.target, d) - pool_free_bytes(d))
    ELSE 0

\* A donor gives up what is short on its devices, but never its floor.
donor_target(a, h) ==
    [d \in DevicesOf[h] |->
        Larger(Floor[<<h, d>>], active_quotas[h][d] - shortage(a, d))]

donors(k, a) == {h \in Groups \ ({a.borrower} \cup a.attempted) :
    /\ h \notin operations
    /\ k[h].sequence = applied_sequences[h]
    /\ donor_target(a, h) # active_quotas[h]}

\* Prefer a donor without demand, then the latest deadline and grant.
donor_key(k, h) ==
    <<IF present(k[h]) THEN 1 ELSE 0,
      IF present(k[h]) THEN -k[h].deadline ELSE 0,
      -grant_order(h), h>>

can_advance(k, a) == fits(a.borrower, a.target) \/ donors(k, a) # {}

\* Faulty: the attempt forgets which donor it waits for.
AdvanceWithoutDonor(k, a) ==
    \/ /\ fits(a.borrower, a.target)
       /\ publish_operation(a.borrower, a.target)
       /\ funding_attempt' = {}
    \/ /\ ~fits(a.borrower, a.target)
       /\ \E h \in donors(k, a) :
             /\ publish_operation(h, donor_target(a, h))
             /\ funding_attempt' = {a}

advance_attempt(k, a) ==
    \/ /\ fits(a.borrower, a.target)
       /\ publish_operation(a.borrower, a.target)
       /\ funding_attempt' = {}
    \/ /\ ~fits(a.borrower, a.target)
       /\ \E h \in donors(k, a) :
             /\ \A x \in donors(k, a) \ {h} :
                   Before(donor_key(k, h), donor_key(k, x))
             /\ publish_operation(h, donor_target(a, h))
             /\ funding_attempt' = {[a EXCEPT !.donor = {h}]}

\* While a donor drains, groups on unrelated devices may use free bytes.
fund_beside(k, a) ==
    LET reserved == UNION {DevicesOf[g] : g \in {a.borrower} \cup a.donor}
        side == {g \in borrowers(k) : /\ DevicesOf[g] \cap reserved = {}
                                      /\ fits(g, k[g].required)}
    IN /\ \/ side = {} /\ UNCHANGED <<command, operations, failed>>
          \/ \E g \in side :
                /\ \A x \in side \ {g} :
                      Before(borrower_key(k, g), borrower_key(k, x))
                /\ publish_operation(g, k[g].required)
       /\ UNCHANGED funding_attempt

fund(k) ==
    LET waiting == {a \in funding_attempt : a.donor # {}}
        resumable == {a \in funding_attempt :
                         attempt_is_current(k, a) /\ can_advance(k, a)}
        startable == {g \in borrowers(k) : can_advance(k, new_attempt(k, g))}
    IN \/ \E a \in waiting : fund_beside(k, a)
       \/ waiting = {} /\ \E a \in resumable : advance_attempt(k, a)
       \/ /\ waiting = {} /\ resumable = {}
          /\ \E g \in startable :
                /\ \A x \in startable \ {g} :
                      Before(borrower_key(k, g), borrower_key(k, x))
                /\ advance_attempt(k, new_attempt(k, g))
       \/ /\ waiting = {} /\ resumable = {} /\ startable = {}
          /\ funding_attempt' = {}
          /\ UNCHANGED <<command, operations, failed>>

\* One startup grant at a time, without consulting the free bytes.
publish_next_initial_operation ==
    \/ operations # {}
       /\ UNCHANGED <<command, operations, failed>>
    \/ /\ operations = {}
       /\ \E g \in Groups :
             /\ applied_sequences[g] = 0
             /\ \A h \in Groups : h < g => applied_sequences[h] # 0
             /\ publish_operation(g, initial_target(g))

\* The code compares the free bytes with zero when it prices an attempt; here
\* every dispatch does.
dispatch(visible) ==
    /\ step = "dispatch"
    /\ \A g \in Groups : applied_sequences[g] < MaxSequence[g]
    /\ step' = "collect"
    /\ IF \E g \in Groups : applied_sequences[g] = 0
       THEN publish_next_initial_operation /\ UNCHANGED fundVars
       ELSE IF (\E g \in visible : demand[g].sequence # 0 /\ demand_invalid(g))
               \/ (\E d \in Devices : pool_free_bytes(d) < 0)
       THEN failed' = TRUE /\ UNCHANGED <<command, operations, fundVars>>
       ELSE /\ demands' = consume_demands(visible)
            /\ fund(consume_demands(visible))
    /\ UNCHANGED <<rankVars, startVars, completion, demand, poolVars,
                   applied_sequences, completed_grant_orders,
                   next_grant_order, now>>

-----------------------------------------------------------------------------
(* The ranks: CapacityReconciler on top of MemoryQuota.  A rank is blocked *)
(* in a collective while its ballot is not "none".                         *)

idle(p) == ballot[p] = "none"
serving(g) == \A p \in Ranks(g) : completed[p] # 0 /\ idle(p)

channelVars == <<startVars, command, completion, demand>>
daemonVars == <<step, poolVars, grantVars, fundVars>>

newer(p) == command[p[1]].sequence > completed[p]
            /\ command[p[1]].sequence > accepted[p].sequence

command_invalid(p) ==
    \/ newer(p) /\ accepted[p].sequence > completed[p]
    \/ /\ command[p[1]].sequence > completed[p]
       /\ command[p[1]].sequence = accepted[p].sequence
       /\ command[p[1]].quota_bytes # accepted[p].quota_bytes

accept_command(P) ==
    /\ \E p \in P : newer(p) \/ command_invalid(p)
    /\ IF \E p \in P : command_invalid(p)
       THEN failed' = TRUE /\ UNCHANGED accepted
       ELSE /\ accepted' = [p \in Partitions |->
                  IF p \in P /\ newer(p) THEN command[p[1]] ELSE accepted[p]]
            /\ UNCHANGED failed
    /\ UNCHANGED <<charged, limit, retiring, adopted, completed, ballot,
                   chunk, channelVars, daemonVars, now>>

\* At startup each rank polls alone; afterwards the TP leader's snapshot
\* reaches all ranks of the group in one request broadcast.
finalize_after_capture(p) ==
    completed[p] = 0 /\ idle(p) /\ initial_backing[p] # Absent
    /\ accept_command({p})

request_broadcast(g) == serving(g) /\ accept_command(Ranks(g))

pending(p) == accepted[p].sequence > completed[p]

draining(p) ==
    /\ pending(p) /\ completed[p] # 0
    /\ \E d \in DevicesOf[p[1]] : accepted[p].quota_bytes[d] < adopted[p][d]

\* state.finish_retirement: the device confirmed the release of n bytes, which
\* is what refunds their charge.
refund(p, n) ==
    /\ charged' = [charged EXCEPT ![p] = @ - n]
    /\ retiring' = [retiring EXCEPT ![p] = @ - n]

\* Faulty: a rank votes ready while it still charges more than the target.
VoteWithoutCharge(p, n) ==
    /\ idle(p) /\ pending(p)
    /\ refund(p, n)
    /\ ballot' = [ballot EXCEPT ![p] =
          IF ~(draining(p) /\ p[1] \in chunk) /\ retiring'[p] = 0
          THEN "ready" ELSE "blocked"]
    /\ UNCHANGED <<limit, accepted, adopted, completed, chunk, channelVars,
                   daemonVars, failed, now>>

\* Faulty: a rank with a pending command does not poll its retirement.
VoteWithoutPoll(p, n) ==
    /\ idle(p) /\ pending(p)
    /\ ballot' = [ballot EXCEPT ![p] =
          IF /\ ~(draining(p) /\ p[1] \in chunk)
             /\ retiring[p] = 0
             /\ charged[p] <= accepted[p].quota_bytes[p[2]]
          THEN "ready" ELSE "blocked"]
    /\ UNCHANGED <<charged, retiring, limit, accepted, adopted, completed, chunk,
                   channelVars, daemonVars, failed, now>>

\* begin_scheduling with a pending command: after polling the retirement, of
\* which n bytes are done, the rank enters the all-ready vote.
vote_ready(p, n) ==
    /\ idle(p) /\ pending(p)
    /\ refund(p, n)
    /\ ballot' = [ballot EXCEPT ![p] =
          IF /\ ~(draining(p) /\ p[1] \in chunk)
             /\ retiring'[p] = 0
             /\ charged'[p] <= accepted[p].quota_bytes[p[2]]
          THEN "ready" ELSE "blocked"]
    /\ UNCHANGED <<limit, accepted, adopted, completed, chunk, channelVars,
                   daemonVars, failed, now>>

\* Faulty: every rank acts on its own vote.
OwnVerdict(g) ==
    /\ \A p \in Ranks(g) : ballot[p] \in {"ready", "blocked"}
    /\ ballot' = [p \in Partitions |->
          IF p \notin Ranks(g) THEN ballot[p]
          ELSE IF ballot[p] = "ready" THEN "adopt" ELSE "retry"]
    /\ UNCHANGED <<charged, limit, retiring, accepted, adopted, completed,
                   chunk, channelVars, daemonVars, failed, now>>

\* The MIN all-reduce: every rank leaves it with the same outcome.
all_reduce(g) ==
    /\ \A p \in Ranks(g) : ballot[p] \in {"ready", "blocked"}
    /\ ballot' = [p \in Partitions |->
          IF p \notin Ranks(g) THEN ballot[p]
          ELSE IF \A q \in Ranks(g) : ballot[q] = "ready" THEN "adopt"
          ELSE "retry"]
    /\ UNCHANGED <<charged, limit, retiring, accepted, adopted, completed,
                   chunk, channelVars, daemonVars, failed, now>>

\* set_limit and publish_completion, with the checks of both.
adopt(p) ==
    /\ ballot[p] = "adopt"
    /\ ballot' = [ballot EXCEPT ![p] = "none"]
    /\ IF \/ accepted[p].quota_bytes[p[2]] < charged[p]
          \/ command[p[1]].sequence # accepted[p].sequence
          \/ completion[p].sequence >= accepted[p].sequence
       THEN failed' = TRUE /\ UNCHANGED <<limit, adopted, completed, completion>>
       ELSE /\ limit' = [limit EXCEPT ![p] = accepted[p].quota_bytes[p[2]]]
            /\ adopted' = [adopted EXCEPT ![p] = accepted[p].quota_bytes]
            /\ completion' = [completion EXCEPT ![p] =
                  [sequence |-> accepted[p].sequence,
                   backed_bytes |-> charged[p]]]
            /\ completed' = [completed EXCEPT ![p] = accepted[p].sequence]
            /\ UNCHANGED failed
    /\ UNCHANGED <<charged, retiring, accepted, chunk, startVars, command,
                   demand, daemonVars, now>>

\* Faulty: the pinned floor may be retired.
RetirableFloor(p) ==
    IF retiring[p] = 0 /\ p[1] \notin chunk THEN charged[p] ELSE 0

\* Empty backing a rank may start to retire; it stays charged meanwhile.
retirable(p) ==
    IF retiring[p] = 0 /\ p[1] \notin chunk THEN charged[p] - Floor[p] ELSE 0

\* A failed vote on a command below the charge reclaims towards it; at
\* startup there is no scheduler and the rank only polls again.
reclaim(p, n) ==
    /\ ballot[p] = "retry"
    /\ n <= (IF /\ completed[p] # 0
                /\ charged[p] > accepted[p].quota_bytes[p[2]]
             THEN retirable(p) ELSE 0)
    /\ ballot' = [ballot EXCEPT ![p] = "none"]
    /\ retiring' = [retiring EXCEPT ![p] = @ + n]
    /\ UNCHANGED <<charged, limit, accepted, adopted, completed, chunk,
                   channelVars, daemonVars, failed, now>>

\* A Decode or Prefill forecast above the limit reclaims without a command.
reclaim_requirement(p, n) ==
    /\ idle(p) /\ completed[p] # 0
    /\ 0 < n /\ n <= retirable(p)
    /\ retiring' = [retiring EXCEPT ![p] = n]
    /\ UNCHANGED <<charged, limit, accepted, adopted, completed, ballot, chunk,
                   channelVars, daemonVars, failed, now>>

\* begin_scheduling without a pending command only polls the retirement.
finish_retirement(p) ==
    /\ idle(p) /\ ~pending(p) /\ retiring[p] > 0
    /\ refund(p, retiring[p])
    /\ UNCHANGED <<limit, accepted, adopted, completed, ballot, chunk,
                   channelVars, daemonVars, failed, now>>

\* prepare_allocation maps bundles after MemoryQuota.try_reserve.
try_reserve(p, n) ==
    /\ idle(p) /\ completed[p] # 0
    /\ 0 < n /\ n <= limit[p] - charged[p]
    /\ charged' = [charged EXCEPT ![p] = @ + n]
    /\ UNCHANGED <<limit, retiring, accepted, adopted, completed, ballot,
                   chunk, channelVars, daemonVars, failed, now>>

\* A chunked Prefill starts only outside a drain and ends when it likes.
set_chunk_owner(g) ==
    /\ g \in ChunkedPrefill /\ serving(g)
    /\ g \in chunk \/ \A p \in Ranks(g) : ~draining(p)
    /\ chunk' = IF g \in chunk THEN chunk \ {g} ELSE chunk \cup {g}
    /\ UNCHANGED <<charged, limit, retiring, accepted, adopted, completed,
                   ballot, channelVars, daemonVars, failed, now>>

\* The witness vectors record_requirement keeps: at least every rank's limit,
\* within the service ceiling, different from the active quota.
Witnesses(g) ==
    {v \in [DevicesOf[g] -> UNION {0 .. service_ceilings[g][d] :
                                      d \in DevicesOf[g]}] :
        /\ \A d \in DevicesOf[g] : limit[<<g, d>>] <= v[d]
                                   /\ v[d] <= service_ceilings[g][d]
        /\ \A p \in Ranks(g) : v # adopted[p]}

Publications(g, s) ==
    {[sequence |-> s, required |-> Zero(g), deadline |-> Absent]}
    \cup {[sequence |-> s, required |-> v, deadline |-> t + TtftBudget] :
             v \in Witnesses(g), t \in 0 .. now}

\* The TP leader publishes the earliest unresolved witness, or its absence.
finish_scheduling(g) ==
    /\ serving(g)
    /\ \E p \in Ranks(g) : \E m \in Publications(g, completed[p]) :
          /\ m # demand[g]
          /\ IF demand[g].sequence > m.sequence
             THEN failed' = TRUE /\ UNCHANGED demand
             ELSE demand' = [demand EXCEPT ![g] = m] /\ UNCHANGED failed
    /\ UNCHANGED <<rankVars, startVars, command, completion, daemonVars, now>>

tick ==
    /\ now < MaxTime /\ now' = now + 1
    /\ UNCHANGED <<rankVars, channelVars, daemonVars, failed>>

-----------------------------------------------------------------------------
RankNext(p) ==
    \/ init_pools(p) \/ publish_initial_backing(p)
    \/ finalize_after_capture(p) \/ adopt(p) \/ finish_retirement(p)
    \/ \E n \in {0, retiring[p]} : vote_ready(p, n)
    \/ \E n \in 0 .. Reservation[p] :
          reclaim(p, n) \/ reclaim_requirement(p, n) \/ try_reserve(p, n)

GroupNext(g) ==
    request_broadcast(g) \/ all_reduce(g) \/ set_chunk_owner(g)
    \/ finish_scheduling(g)

DaemonNext ==
    freeze_pools \/ retire_operations
    \/ \E torn \in SUBSET {g \in Groups : demand[g] # demands[g]} :
          dispatch(Groups \ torn)

Next ==
    /\ ~failed
    /\ \/ \E p \in Partitions : RankNext(p)
       \/ \E g \in Groups : GroupNext(g)
       \/ \E d \in Devices : publish_device_memory(d)
       \/ DaemonNext
       \/ tick

Spec == Init /\ [][Next]_vars

(* What scheduling guarantees.  Every rank keeps entering scheduling        *)
(* boundaries, a device event and a chunked Prefill end, requests finish so *)
(* that some backing above a pending target becomes empty, and the leader   *)
(* publishes after each adoption.  The daemon's timer keeps calling step,   *)
(* and a demand read is torn only while one publication is in progress.     *)
RankFairness(p) ==
    /\ WF_vars(init_pools(p) \/ publish_initial_backing(p)
               \/ finalize_after_capture(p) \/ vote_ready(p, 0) \/ adopt(p)
               \/ reclaim(p, 0))
    /\ SF_vars(\/ finish_retirement(p)
               \/ retiring[p] > 0 /\ vote_ready(p, retiring[p]))
    /\ SF_vars(\E n \in 1 .. Reservation[p] : reclaim(p, n))

GroupFairness(g) ==
    /\ SF_vars(request_broadcast(g) \/ all_reduce(g))
    /\ SF_vars(g \in chunk /\ set_chunk_owner(g))
    /\ SF_vars(demand[g].sequence < command[g].sequence /\ finish_scheduling(g))

DaemonFairness ==
    WF_vars(freeze_pools \/ retire_operations) /\ SF_vars(dispatch(Groups))

Fairness ==
    /\ \A p \in Partitions : RankFairness(p)
    /\ \A g \in Groups : GroupFairness(g)
    /\ \A d \in Devices : WF_vars(publish_device_memory(d))
    /\ DaemonFairness

LiveSpec == Spec /\ Fairness

-----------------------------------------------------------------------------
(* Properties. *)

Steps == {"unfrozen", "rejected", "collect", "dispatch"}
frozen == step \in {"collect", "dispatch"}

Command(g) == [sequence : Nat, quota_bytes : Vector(g)]
Demand(g) == [sequence : Nat, required : Vector(g),
              deadline : Nat \cup {Absent}]
Attempt(g) == [borrower : {g}, sequence : Nat, target : Vector(g),
               deadline : Nat, attempted : SUBSET Groups, donor : SUBSET Groups]

\* The values of the ranks, the channel, the policy and its funding records.
RankType ==
    /\ charged \in [Partitions -> Nat] /\ limit \in [Partitions -> Nat]
    /\ retiring \in [Partitions -> Nat]
    /\ DOMAIN accepted = Partitions
    /\ \A p \in Partitions : accepted[p] \in Command(p[1])
    /\ DOMAIN adopted = Partitions
    /\ \A p \in Partitions : adopted[p] \in Vector(p[1])
    /\ completed \in [Partitions -> Nat]
    /\ ballot \in [Partitions -> {"none", "ready", "blocked", "adopt", "retry"}]
    /\ chunk \subseteq Groups

ChannelType ==
    /\ initial_backing \in [Partitions -> Nat \cup {Absent}]
    /\ device_free \in [Devices -> Int]
    /\ DOMAIN command = Groups /\ \A g \in Groups : command[g] \in Command(g)
    /\ completion \in [Partitions -> [sequence : Nat, backed_bytes : Nat]]
    /\ DOMAIN demand = Groups /\ \A g \in Groups : demand[g] \in Demand(g)

PolicyType ==
    /\ step \in Steps
    /\ pool_capacity_bytes \in [Devices -> Int]
    /\ DOMAIN active_quotas = Groups
    /\ \A g \in Groups : active_quotas[g] \in Vector(g)
    /\ DOMAIN service_ceilings = Groups
    /\ \A g \in Groups : service_ceilings[g] \in [DevicesOf[g] -> Int]
    /\ applied_sequences \in [Groups -> Nat]
    /\ operations \subseteq Groups
    /\ completed_grant_orders \in [Groups -> Nat \cup {Absent}]
    /\ next_grant_order \in Nat

FundType ==
    /\ DOMAIN demands = Groups /\ \A g \in Groups : demands[g] \in Demand(g)
    /\ \A a \in funding_attempt : a.borrower \in Groups
                                  /\ a \in Attempt(a.borrower)

\* Every variable has the type of the field of MemoryQuota,
\* CapacityReconciler, the channel layout or CapacityPolicy it stands for.
TypeOK ==
    /\ RankType /\ ChannelType /\ PolicyType /\ FundType
    /\ failed \in BOOLEAN /\ now \in Nat

\* The permission the daemon has handed out, charging the larger of the old
\* and the new vector of every unfinished operation, fits every device budget:
\* what pool_free_bytes raises about cannot happen, not even during the startup
\* grants, which never look at the free bytes.
PermissionWithinBudget ==
    frozen => \A d \in Devices : Sum(permission, d) <= pool_capacity_bytes[d]

\* However commands, votes, adoptions, mappings and retirements interleave, the
\* memory that is physically free on a device never falls below its reserve.
ReserveKept ==
    frozen => \A d \in Devices :
        DeviceTotal[d] - DeviceOther[d] - Sum(charged, d) >= Reserve(d)

\* No Instance loses its floor, neither the bytes nor the permission for them,
\* no command asks for it, and no rank charges above its adopted limit or its
\* service ceiling.
QuotaBounds ==
    frozen => \A g \in Groups : \A d \in DevicesOf[g] :
        /\ Floor[<<g, d>>] <= charged[<<g, d>>]
        /\ charged[<<g, d>>] <= limit[<<g, d>>]
        /\ limit[<<g, d>>] <= service_ceilings[g][d]
        /\ Floor[<<g, d>>] <= active_quotas[g][d]
        /\ g \in operations => Floor[<<g, d>>] <= command[g].quota_bytes[d]

\* None of the consistency checks that abort a Generation can fire: completion
\* bounds, implicit shrink, unpublished operation, superseded or mutated
\* command, limit below the charge, stale completion, overdrawn pool.
NoCheckFails == ~failed

\* Only the donor of the current funding attempt is ever asked to shrink, so a
\* group that is not being negotiated with keeps all its permission.
OnlyDonorShrinks ==
    \A g \in Groups :
        g \in operations /\ (\E d \in DevicesOf[g] :
                             command[g].quota_bytes[d] < active_quotas[g][d])
            => \E a \in funding_attempt : g \in a.donor

\* Outside a vote the ranks of a group have completed the same command, and
\* their limits are one whole vector of the daemon, the active one or the
\* commanded one, never a mixture: the all-ready vote keeps TP ranks in step.
GroupsAgree ==
    frozen => \A g \in Groups : serving(g) =>
        /\ \A p, r \in Ranks(g) : completed[p] = completed[r]
        /\ \/ \A p \in Ranks(g) : limit[p] = active_quotas[g][p[2]]
           \/ \A p \in Ranks(g) : limit[p] = command[g].quota_bytes[p[2]]

\* A command replaces another only after every rank of the group adopted it.
CommandsImmutable ==
    [][\A g \in Groups : command'[g] # command[g] =>
          \A p \in Ranks(g) : completed[p] = command[g].sequence]_vars

\* A published operation is retired unless its ranks keep more backing than
\* it grants: a vote, a chunk owner or a retirement never blocks it for good.
OperationsComplete ==
    \A g \in Groups : ~<>[](g \in operations /\ \A p \in Ranks(g) :
                               charged[p] <= command[g].quota_bytes[p[2]])

\* A witness the daemon could serve does not wait for ever, unless one donor
\* for ever fails to drain: no attempt is left behind or forgotten.
BorrowersServed ==
    \A g \in Groups :
        <>[](eligible_demand(demand, g)
             /\ \A h \in Groups : applied_sequences[h] < MaxSequence[h])
          => \E h \in Groups : <>[](h \in operations)

-----------------------------------------------------------------------------
(* The inductive invariant behind the safety properties. *)

CurrentQuota(p) == IF frozen THEN active_quotas[p[1]][p[2]] ELSE Floor[p]
Extra(d) == (pool_capacity_bytes[d] - Sum(Floor, d)) \div Cardinality(Instances)

\* Daemon, channel and ranks agree on how far each group has come.
SequenceInv ==
    /\ \A g \in Groups :
          /\ command[g].sequence =
                applied_sequences[g] + (IF g \in operations THEN 1 ELSE 0)
          /\ command[g].sequence > 0 => frozen
    /\ \A p \in Partitions :
          /\ applied_sequences[p[1]] <= completed[p]
          /\ completed[p] <= accepted[p].sequence
          /\ accepted[p].sequence <= command[p[1]].sequence
          /\ accepted[p].sequence = command[p[1]].sequence
                => accepted[p].quota_bytes = command[p[1]].quota_bytes
          /\ completion[p].sequence = completed[p]

\* A rank charges within its limit, and its limit is one of the two vectors
\* the daemon charges the group for.
RankLedger(p) ==
    /\ limit[p] = IF completed[p] = applied_sequences[p[1]]
                  THEN CurrentQuota(p)
                  ELSE command[p[1]].quota_bytes[p[2]]
    /\ charged[p] <= limit[p]
    /\ charged[p] = 0 \/ Floor[p] + retiring[p] <= charged[p]
    /\ retiring[p] > 0 => Floor[p] + retiring[p] <= charged[p]
    /\ initial_backing[p] \in {Absent, Floor[p]}
    /\ initial_backing[p] # Absent => Floor[p] <= charged[p]
    /\ completed[p] = 0 => charged[p] \in {0, Floor[p]}
    /\ completed[p] = command[p[1]].sequence /\ p[1] \in operations =>
          /\ Floor[p] <= completion[p].backed_bytes
          /\ completion[p].backed_bytes <= command[p[1]].quota_bytes[p[2]]

LedgerInv == \A p \in Partitions : RankLedger(p)

\* A ready vote is still true when it is acted on, and a group adopts whole.
BallotInv ==
    \A p \in Partitions :
        /\ ballot[p] # "none" => pending(p)
        /\ ballot[p] \in {"ready", "adopt"} =>
              charged[p] <= accepted[p].quota_bytes[p[2]]
        /\ ballot[p] = "adopt" => \A q \in Ranks(p[1]) :
              ballot[q] = "adopt" \/ completed[q] = command[p[1]].sequence
        /\ \A q \in Ranks(p[1]) :
              completed[p] < completed[q] => ballot[p] = "adopt"

\* The frozen budget is what the device can give beside its reserve, and the
\* permission fits it; until the last startup grant it is at most equal shares.
BudgetInv ==
    /\ \A d \in Devices : device_free[d] # Absent =>
          /\ \A g \in GroupsOn(d) : initial_backing[<<g, d>>] # Absent
          /\ device_free[d] = DeviceTotal[d] - DeviceOther[d] - Sum(Floor, d)
    /\ frozen =>
          /\ Observed
          /\ \A d \in Devices :
                /\ pool_capacity_bytes[d] =
                      DeviceTotal[d] - DeviceOther[d] - Reserve(d)
                /\ Sum(Floor, d) <= pool_capacity_bytes[d]
                /\ Sum(permission, d) <= pool_capacity_bytes[d]
          /\ (\E g \in Groups : applied_sequences[g] = 0) =>
                \A p \in Partitions : permission[p] <= Floor[p] + Extra(p[2])

\* Both vectors of a group lie between its floors and its service ceilings.
QuotaInv ==
    frozen => \A g \in Groups :
        /\ applied_sequences[g] = 0 => active_quotas[g] = FloorOf(g)
        /\ service_ceilings[g] = service_ceiling(g, pool_capacity_bytes)
        /\ \A d \in DevicesOf[g] :
              /\ Floor[<<g, d>>] <= active_quotas[g][d]
              /\ active_quotas[g][d] <= service_ceilings[g][d]
              /\ g \in operations =>
                    /\ Floor[<<g, d>>] <= command[g].quota_bytes[d]
                    /\ command[g].quota_bytes[d] <= service_ceilings[g][d]

\* A published witness never asks for less than the quota it was made under.
DemandInv ==
    \A g \in Groups :
        /\ \A p \in Ranks(g) : demand[g].sequence <= completed[p]
        /\ present(demand[g]) => demand[g].sequence > 0
        /\ present(demand[g]) => \A d \in DevicesOf[g] :
              /\ demand[g].sequence = applied_sequences[g]
                    => active_quotas[g][d] <= demand[g].required[d]
              /\ demand[g].sequence = command[g].sequence
                    => limit[<<g, d>>] <= demand[g].required[d]

Inv ==
    /\ TypeOK /\ NoCheckFails /\ SequenceInv /\ LedgerInv /\ BallotInv
    /\ BudgetInv /\ QuotaInv /\ DemandInv /\ OnlyDonorShrinks
=============================================================================
