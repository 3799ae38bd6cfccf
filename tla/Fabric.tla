------------------------------- MODULE Fabric -------------------------------
(***************************************************************************)
(* One generation of the FFN Fabric on the devices: the AtnAgents' execute *)
(* kernels, the Coordinator kernel with its scheduler, and the resident    *)
(* Lane graphs of the FfnAgents, talking through NVSHMEM publications.     *)
(*                                                                         *)
(* A publication is a record written before the signal that announces it;  *)
(* both are one step here, and a payload put before them is a step of its  *)
(* own.  An invocation is named by its key <<instance, sequence>>; every   *)
(* other field of a record is a function of the key, so a record holds the *)
(* key and, on a Lane, the lease.  A buffer holds the key of the           *)
(* invocation whose data it holds.  The leader thread of a block acts for  *)
(* the block.  Sequences and leases are far from 2^64.                     *)
(***************************************************************************)
EXTENDS Naturals, Sequences, FiniteSets, SequencesExt, FiniteSetsExt

CONSTANTS
  Atns, Ffns,    \* the PEs of AtnAgents and FfnAgents
  coordinator,   \* the first FfnAgent PE
  Count,         \* instances, numbered in config order
  LaneCount,     \* Executor Lanes
  group,         \* atnagent_pes: the PEs of an instance, by AtnAgent rank
  Policy,        \* the scheduler's: "fifo" or "random"
  team,          \* ffnagent_pes: the PEs of a layer of an instance, by TP rank
  shape,         \* InstanceEntry: tp, dp, group_sum, decode and prefill rows
  Routed,        \* the layers <<i, n>> that are MoE layers
  LaneRows,      \* rows a Lane's payload storage holds
  Plans,         \* bound: what the ranks of every instance may submit, call by call
  Kinds,         \* kinds of events: "timeout" and "abort"
  MaxEvents      \* bound: events in a behaviour

Instances == 1..Count
Lanes == 1..LaneCount
Pes == Atns \cup Ffns
NoKey == <<0, 0>>
Members(i) == Range(group[i])

ASSUME FabricAssumption ==
  /\ coordinator \in Ffns /\ Atns \cap Ffns = {}
  /\ \A i \in Instances : Members(i) \subseteq Atns /\ Len(group[i]) = shape[i].tp * shape[i].dp
  /\ MaxEvents \in Nat /\ Kinds \subseteq {"timeout", "abort"}

VARIABLES
  plan,       \* the submissions of each call of each instance, by rank
  atn,        \* the execute kernel of each AtnAgent PE and instance
  lane,       \* the Lane graph of each FfnAgent PE and Lane
  coord,      \* the Coordinator: where it stands and what it publishes
  entry,      \* its scheduler entries
  tickets,    \* its FIFO counter
  leases,     \* its copy of each Lane's last lease
  subs, adms, execs, inputs, routes, partials, dones, commits, acks,  \* publications
  inbuf, partbuf, outbuf,   \* payload buffers: FfnAgent input, partial; AtnAgent output
  failure,    \* the canonical failure at the Coordinator PE
  seen,       \* the PEs at which the failure is published
  phase,      \* the generation's: "run", "draining" or "aborting"
  shutdown,   \* the PEs whose shutdown was requested
  trap,       \* a failed abort_if, or "none"
  events

publications == <<subs, adms, execs, inputs, routes, partials, dones, commits, acks>>
buffers == <<inbuf, partbuf, outbuf>>
scheduler == <<entry, tickets, leases>>
vars == <<plan, atn, lane, coord, scheduler, publications, buffers, failure, seen,
          phase, shutdown, trap, events>>

Kernels == {<<a, i>> \in Atns \X Instances : a \in Members(i)}
Slots == Ffns \X Lanes
Rank(s, x) == CHOOSE n \in 1..Len(s) : s[n] = x
First(k) == plan[k[1]][k[2]][1]
Team(k) == team[k[1]][First(k).layer]
Idle == [state |-> "idle", seq |-> 0, ticket |-> 0, lane |-> 0, completed |-> 0,
         committed |-> 0]
NoFailure == [code |-> "none", origin |-> 0, key |-> NoKey]

Init ==
  /\ plan \in Plans
  /\ atn = [k \in Kernels |-> [pc |-> "idle", seq |-> 0, lane |-> 0, lease |-> 0,
                               todo |-> {}, code |-> "none", got |-> {}]]
  /\ lane = [s \in Slots |-> [pc |-> "wait", last |-> 0, lease |-> 0, key |-> NoKey, todo |-> {}]]
  /\ coord = [pc |-> "top", i |-> 1, todo |-> {}, key |-> NoKey]
  /\ entry = [i \in Instances |-> Idle] /\ tickets = 0 /\ leases = [l \in Lanes |-> 0]
  /\ subs = [k \in Kernels |-> 0] /\ adms = [k \in Kernels |-> [seq |-> 0, lane |-> 0, lease |-> 0]]
  /\ commits = [k \in Kernels |-> 0] /\ acks = [k \in Kernels |-> 0]
  /\ execs = [s \in Slots |-> [lease |-> 0, key |-> NoKey]]
  /\ inputs = execs /\ routes = execs /\ dones = execs
  /\ partials = [s \in Ffns \X Slots |-> [lease |-> 0, key |-> NoKey]]
  /\ inbuf = [s \in Slots |-> NoKey] /\ partbuf = inbuf
  /\ outbuf = [s \in Atns \X Lanes |-> <<>>]
  /\ failure = NoFailure /\ seen = {} /\ phase = "run" /\ shutdown = {} /\ trap = "none" /\ events = MaxEvents

-----------------------------------------------------------------------------
(* Failure::try_publish by PE pe: the first claim writes the payload and   *)
(* publishes it at the Coordinator.                                        *)
try_publish(pe, code, key) ==
  IF failure.code = "none"
    THEN failure' = [code |-> code, origin |-> pe, key |-> key] /\ seen' = seen \cup {coordinator}
    ELSE UNCHANGED <<failure, seen>>

Cancelled(pe) == pe \in shutdown \/ pe \in seen
cancellation_result(pe) == IF pe \in seen THEN failure.code ELSE "shutdown"

(* A wait returns Ready before Cancelled and Cancelled before TimedOut.    *)
NoEvent == UNCHANGED events
(* A deadline passes because the run is slow, which is an event, or        *)
(* because what the wait needs will never come.                            *)
TimesOut(pe, ready, hopeless) ==
  /\ ~ready /\ ~Cancelled(pe)
  /\ IF hopeless THEN NoEvent
     ELSE "timeout" \in Kinds /\ events > 0 /\ events' = events - 1

Hopeless(i) ==
  \/ coord.pc = "stopped"
  \/ \E s \in Slots : lane[s].pc = "stopped"
  \/ \E a \in Members(i) : atn[<<a, i>>].pc = "idle" /\ atn[<<a, i>>].code \notin {"none", "ok"}

delivery_variant(k) ==
  IF First(k).requirement = "per_rank" THEN "replicated"
  ELSE IF Len(Team(k)) <= Len(group[k[1]]) THEN "direct" ELSE "single"

-----------------------------------------------------------------------------
(***************************************************************************)
(* atnagent.cu: execute, for the kernel k = <<a, i>>.                      *)
(***************************************************************************)
Key(k) == <<k[2], atn[k].seq>>
MyRank(k) == Rank(group[k[2]], k[1])
SetAtn(k, r) == atn' = [atn EXCEPT ![k] = r]
OnlyAtn == UNCHANGED <<plan, lane, coord, scheduler, phase, shutdown>>
NoFault == UNCHANGED <<failure, seen, trap>>

(* The call returns its code to the Transport Resident.                    *)
Return(r, code) == [r EXCEPT !.pc = "idle", !.code = code, !.todo = {}]

(* The context of a call for a layer the instance does not have, or whose  *)
(* rows do not fit, ends it before it submits.                             *)
Fits(i, s) == s.layer <= Len(team[i]) /\ s.rows <= LaneRows /\ s.rankRows <= s.rows

execute(k) ==
  LET n == atn[k].seq + 1 IN
  /\ atn[k].pc = "idle" /\ atn[k].code \in {"none", "ok"} /\ n <= Len(plan[k[2]])
  /\ phase # "draining" /\ k[1] \notin shutdown
  /\ IF Fits(k[2], plan[k[2]][n][MyRank(k)])
       THEN /\ SetAtn(k, [atn[k] EXCEPT !.pc = "admission", !.seq = n, !.code = "none", !.got = {}])
            /\ subs' = [subs EXCEPT ![k] = n]
       ELSE SetAtn(k, Return(atn[k], "mismatch")) /\ UNCHANGED subs
  /\ UNCHANGED <<adms, execs, inputs, routes, partials, dones, commits, acks>>
  /\ OnlyAtn /\ NoFault /\ NoEvent /\ UNCHANGED buffers

(* The destinations of this rank's input: TP ranks paired modulo A.        *)
InputTargets(k) ==
  {Team(Key(k))[r] : r \in {q \in DOMAIN Team(Key(k)) :
                              (q - 1) % Len(group[k[2]]) = MyRank(k) - 1}}

AdmissionReady(k) == adms[k].seq >= atn[k].seq

AwaitAdmission(k) ==
  /\ atn[k].pc = "admission" /\ AdmissionReady(k)
  /\ SetAtn(k, IF adms[k].seq = atn[k].seq
                 THEN [atn[k] EXCEPT !.pc = IF InputTargets(k) = {} THEN "commit" ELSE "input",
                                     !.lane = adms[k].lane, !.lease = adms[k].lease,
                                     !.todo = InputTargets(k) \X {"payload", "record"}]
                 ELSE [atn[k] EXCEPT !.pc = "mismatch"])
  /\ OnlyAtn /\ NoFault /\ NoEvent /\ UNCHANGED <<publications, buffers>>

(* Mutant: the record is published before the payload has arrived.         *)
RecordFirst(k) ==
  LET f == (CHOOSE t \in atn[k].todo : TRUE)[1]  s == <<f, atn[k].lane>>
      record == <<f, "record">> \in atn[k].todo
      rest == atn[k].todo \ {<<f, IF record THEN "record" ELSE "payload">>}
  IN
  /\ atn[k].pc = "input"
  /\ SetAtn(k, [atn[k] EXCEPT !.todo = rest, !.pc = IF rest = {} THEN "commit" ELSE @])
  /\ IF record
       THEN inputs' = [inputs EXCEPT ![s] = [lease |-> atn[k].lease, key |-> Key(k)]]
            /\ UNCHANGED inbuf
       ELSE inbuf' = [inbuf EXCEPT ![s] = Key(k)] /\ UNCHANGED inputs
  /\ UNCHANGED <<subs, adms, execs, routes, partials, dones, commits, acks, partbuf, outbuf>>
  /\ OnlyAtn /\ NoFault /\ NoEvent

(* publish_payload: the payload is put before the record that announces it.*)
PublishInput(k) ==
  LET f == (CHOOSE t \in atn[k].todo : TRUE)[1]  s == <<f, atn[k].lane>>
      payload == <<f, "payload">> \in atn[k].todo
      rest == atn[k].todo \ {<<f, IF payload THEN "payload" ELSE "record">>}
  IN
  /\ atn[k].pc = "input"
  /\ SetAtn(k, [atn[k] EXCEPT !.todo = rest, !.pc = IF rest = {} THEN "commit" ELSE @])
  /\ IF payload
       THEN inbuf' = [inbuf EXCEPT ![s] = Key(k)] /\ UNCHANGED inputs
       ELSE inputs' = [inputs EXCEPT ![s] = [lease |-> atn[k].lease, key |-> Key(k)]]
            /\ UNCHANGED inbuf
  /\ UNCHANGED <<subs, adms, execs, routes, partials, dones, commits, acks, partbuf, outbuf>>
  /\ OnlyAtn /\ NoFault /\ NoEvent

CommitReady(k) == commits[k] >= atn[k].seq

(* The delivery view of this rank: the parts of the output it receives.    *)
Readers(k) == {r \in DOMAIN Team(k) : r <= First(k).rows}
Receives(k) ==
  LET variant == delivery_variant(Key(k)) IN
  CASE variant = "replicated" -> Readers(Key(k))
    [] variant = "direct" -> {MyRank(k)} \cap DOMAIN Team(Key(k))
    [] variant = "single" -> IF MyRank(k) = 1 THEN Readers(Key(k)) ELSE {}

(* Copy the output out of the Lane (got: the invocations it stems from),   *)
(* then acknowledge.                                                       *)
Materialize(k) ==
  LET out == outbuf[<<k[1], atn[k].lane>>] IN
  {IF r \in DOMAIN out THEN out[r] ELSE NoKey : r \in Receives(k)}

AwaitCommit(k) ==
  /\ atn[k].pc = "commit" /\ CommitReady(k)
  /\ IF commits[k] = atn[k].seq
       THEN /\ SetAtn(k, [Return(atn[k], "ok") EXCEPT !.got = Materialize(k)])
            /\ acks' = [acks EXCEPT ![k] = atn[k].seq]
       ELSE SetAtn(k, [atn[k] EXCEPT !.pc = "mismatch"]) /\ UNCHANGED acks
  /\ UNCHANGED <<subs, adms, execs, inputs, routes, partials, dones, commits>>
  /\ OnlyAtn /\ NoFault /\ NoEvent /\ UNCHANGED buffers

Waiting(k) == atn[k].pc \in {"admission", "commit"}
Ready(k) == IF atn[k].pc = "admission" THEN AdmissionReady(k) ELSE CommitReady(k)

WaitCancelled(k) ==
  /\ Waiting(k) /\ ~Ready(k) /\ Cancelled(k[1])
  /\ SetAtn(k, Return(atn[k], cancellation_result(k[1])))
  /\ OnlyAtn /\ NoFault /\ NoEvent /\ UNCHANGED <<publications, buffers>>

(* Mutant: the wait for the Admission has no deadline.                     *)
CommitTimesOut(k) ==
  /\ atn[k].pc = "commit" /\ TimesOut(k[1], Ready(k), Hopeless(k[2]))
  /\ SetAtn(k, [atn[k] EXCEPT !.pc = "timeout"])
  /\ OnlyAtn /\ NoFault /\ UNCHANGED <<publications, buffers>>

WaitTimesOut(k) ==
  /\ Waiting(k) /\ TimesOut(k[1], Ready(k), Hopeless(k[2]))
  /\ SetAtn(k, [atn[k] EXCEPT !.pc = "timeout"])
  /\ OnlyAtn /\ NoFault /\ UNCHANGED <<publications, buffers>>

(* Mutant: the caller returns the failure it detected, not the canonical.  *)
ReturnOwnFailure(k) ==
  /\ atn[k].pc \in {"timeout", "mismatch"}
  /\ try_publish(k[1], atn[k].pc, Key(k))
  /\ SetAtn(k, Return(atn[k], atn[k].pc))
  /\ OnlyAtn /\ NoEvent /\ UNCHANGED <<publications, buffers, trap>>

(* converge_failure: claim the failure, then wait for the canonical one.   *)
ClaimFailure(k) ==
  /\ atn[k].pc \in {"timeout", "mismatch"}
  /\ try_publish(k[1], atn[k].pc, Key(k))
  /\ SetAtn(k, [atn[k] EXCEPT !.pc = "converge"])
  /\ OnlyAtn /\ NoEvent /\ UNCHANGED <<publications, buffers, trap>>

Converged(k) ==
  /\ atn[k].pc = "converge" /\ k[1] \in seen
  /\ SetAtn(k, Return(atn[k], failure.code))
  /\ OnlyAtn /\ NoFault /\ NoEvent /\ UNCHANGED <<publications, buffers>>

(* Its deadline passes only if no Coordinator is left to publish.          *)
ConvergeExpires(k) ==
  /\ atn[k].pc = "converge" /\ k[1] \notin seen /\ coord.pc = "stopped"
  /\ trap' = "converge"
  /\ SetAtn(k, [atn[k] EXCEPT !.pc = "trapped"])
  /\ OnlyAtn /\ NoEvent /\ UNCHANGED <<publications, buffers, failure, seen>>

AtnStep(k) ==
  \/ execute(k) \/ AwaitAdmission(k) \/ PublishInput(k) \/ AwaitCommit(k)
  \/ WaitCancelled(k) \/ ClaimFailure(k) \/ Converged(k)
  \/ ConvergeExpires(k)

-----------------------------------------------------------------------------
(***************************************************************************)
(* coordinator.cu.  s gives the submission of each rank of instance i.     *)
(***************************************************************************)
inspect_submission_rows(i, s) ==
  LET tp == shape[i].tp  dp == shape[i].dp
      rows == s[1].rows  layout == s[1].layout
      lead(d) == s[(d - 1) * tp + 1]
      Modes == {lead(d).mode : d \in 1..dp}
      RankAgrees(d) ==
        CASE layout = "none" -> lead(d).mode # "idle" /\ lead(d).rankRows = rows
          [] layout = "packed" -> (lead(d).mode = "idle") <=> (lead(d).rankRows = 0)
          [] layout = "uniform" -> lead(d).rankRows # 0 /\ lead(d).rankRows * dp = rows
      ReplicasAgree(d) == \A t \in 1..(tp - 1) : LET r == s[(d - 1) * tp + 1 + t] IN
                            r.rankRows = lead(d).rankRows /\ r.mode = lead(d).mode
      packed == FoldFunction(+, 0, [d \in 1..dp |-> lead(d).rankRows])
  IN  IF /\ (dp = 1) <=> (layout = "none")
         /\ \A d \in 1..dp : RankAgrees(d) /\ ReplicasAgree(d)
         /\ layout = "packed" => packed = rows
         /\ Modes # {"idle"}
        THEN IF "prefill" \in Modes THEN "prefill" ELSE "decode"
        ELSE "none"

(* Intrinsic validity of a submission, then agreement, then capacity.      *)
Valid(u) == u.rows # 0 /\ u.rankRows <= u.rows

Agrees(i, s) ==
  LET c == s[1]  mode == inspect_submission_rows(i, s) IN
  /\ \A r \in DOMAIN s : /\ Valid(s[r])
                         /\ s[r].layer = c.layer /\ s[r].rows = c.rows
                         /\ s[r].requirement = c.requirement /\ s[r].layout = c.layout
  /\ c.layer \in DOMAIN team[i]
  /\ c.requirement = "group_sum" => shape[i].groupSum
  /\ mode # "none"
  /\ c.rows <= (IF mode = "prefill" THEN shape[i].prefill ELSE shape[i].decode)
  /\ c.rows <= LaneRows

inspect_submission_rendezvous(i, n) ==
  IF \E a \in Members(i) : subs[<<a, i>>] < n THEN "pending"
  ELSE IF \A a \in Members(i) : subs[<<a, i>>] = n /\ Agrees(i, plan[i][n]) THEN "ready"
  ELSE "mismatch"

SetCoord(c) == coord' = c
At(pc) == [coord EXCEPT !.pc = pc, !.i = 1, !.todo = {}]
OnlyCoord == UNCHANGED <<plan, atn, lane, buffers, phase, shutdown, events>>
Silent == UNCHANGED publications

(* The sections of the loop.  A section looks at the entries it is about,  *)
(* one instance after the other, and is passed over when there is none;    *)
(* after it the code goes on only if no failure is published.              *)
In(e, state) == {i \in Instances : e[i].state = state}

IdleLanes(e) == {l \in Lanes : \A i \in In(e, "active") : e[i].lane # l}

Schedule(e) == At(IF IdleLanes(e) = {} \/ In(e, "ready") = {} THEN "top" ELSE "schedule")
Progress(e) ==
  IF In(e, "active") = {} THEN Schedule(e) ELSE [At("progress") EXCEPT !.i = Min(In(e, "active"))]
Discover(e) ==
  IF In(e, "idle") = {} THEN Progress(e) ELSE [At("discover") EXCEPT !.i = Min(In(e, "idle"))]

Onward(rest, after) ==
  LET later == {i \in rest : i > coord.i} IN
  IF later # {} THEN [coord EXCEPT !.i = Min(later)]
  ELSE IF coordinator \in seen THEN At("top") ELSE after

(* publish_canonical_failure, and the return to the top of the loop.       *)
Fails(key) ==
  /\ try_publish(coordinator, "mismatch", key)
  /\ SetCoord(At("top"))
  /\ Silent /\ UNCHANGED <<scheduler, trap>>

LoopTop ==
  /\ coord.pc = "top"
  /\ SetCoord(IF coordinator \in seen THEN [At("broadcast") EXCEPT !.todo = Pes \ {coordinator}]
              ELSE IF coordinator \in shutdown THEN At("stopped")
              ELSE Discover(entry))
  /\ Silent /\ NoFault /\ OnlyCoord /\ UNCHANGED scheduler

publish_to_all ==
  /\ coord.pc = "broadcast"
  /\ LET pe == CHOOSE q \in coord.todo : TRUE IN
     /\ SetCoord(IF coord.todo = {pe} THEN At("stopped") ELSE [coord EXCEPT !.todo = @ \ {pe}])
     /\ seen' = seen \cup {pe}
  /\ Silent /\ OnlyCoord /\ UNCHANGED <<scheduler, failure, trap>>

(* enqueue, with its abort_if.                                             *)
enqueue(i, n) ==
  IF n = entry[i].completed + 1
    THEN /\ tickets' = tickets + 1
         /\ entry' = [entry EXCEPT ![i] = [@ EXCEPT !.state = "ready", !.seq = n,
                                                    !.ticket = tickets + 1]]
         /\ UNCHANGED <<leases, trap>>
    ELSE trap' = "enqueue" /\ UNCHANGED scheduler

discover_invocations ==
  LET i == coord.i  n == entry[i].committed + 1
      status == IF n > Len(plan[i]) THEN "pending" ELSE inspect_submission_rendezvous(i, n)
  IN
  /\ coord.pc = "discover"
  /\ IF status = "mismatch" THEN Fails(<<i, n>>)
     ELSE /\ IF status = "ready" THEN enqueue(i, n) ELSE UNCHANGED <<scheduler, trap>>
          /\ SetCoord(Onward(In(entry, "idle"), Progress(entry')))
          /\ Silent /\ UNCHANGED <<failure, seen>>
  /\ OnlyCoord

(* What the Coordinator finds when it looks for publications p of value v: *)
(* some missing, one that contradicts it, or all of them.                  *)
Found(p, missing, wrong) ==
  IF \E s \in p : ~missing[s] /\ wrong[s] THEN "mismatch"
  ELSE IF \E s \in p : missing[s] THEN "pending" ELSE "ready"

inspect_completions(key, l) ==
  Found(Range(Team(key)) \X {l},
        [s \in Slots |-> dones[s].lease < leases[l]],
        [s \in Slots |-> dones[s] # [lease |-> leases[l], key |-> key]])

inspect_acknowledgements(key) ==
  Found(Members(key[1]) \X {key[1]},
        [k \in Kernels |-> acks[k] < key[2]], [k \in Kernels |-> acks[k] # key[2]])

release(i) ==
  entry' = [entry EXCEPT ![i] = [Idle EXCEPT !.completed = entry[i].seq,
                                             !.committed = entry[i].committed]]

Progressed(e) == [Onward(In(entry, "active"), Schedule(e)) EXCEPT
                    !.pc = IF @ = "commit" THEN "progress" ELSE @, !.todo = {}]

progress_active_invocations ==
  LET i == coord.i  e == entry[i]  key == <<i, e.seq>>
      waiting == e.committed # e.seq
      status == IF waiting THEN inspect_completions(key, e.lane)
                ELSE inspect_acknowledgements(key)
  IN
  /\ coord.pc = "progress"
  /\ CASE status = "mismatch" -> Fails(key)
       [] status = "pending" -> SetCoord(Progressed(entry)) /\ UNCHANGED entry /\ NoFault
       [] status = "ready" /\ waiting /\ coordinator \in seen ->
            SetCoord(At("top")) /\ UNCHANGED entry /\ NoFault
       [] status = "ready" /\ waiting /\ coordinator \notin seen ->
            /\ entry' = [entry EXCEPT ![i].committed = e.seq]
            /\ SetCoord([coord EXCEPT !.pc = "commit", !.todo = Members(i)]) /\ NoFault
       [] status = "ready" /\ ~waiting ->
            release(i) /\ SetCoord(Progressed(entry')) /\ NoFault
  /\ Silent /\ OnlyCoord /\ UNCHANGED <<tickets, leases>>

PublishCommit ==
  /\ coord.pc = "commit"
  /\ LET a == CHOOSE q \in coord.todo : TRUE IN
     /\ SetCoord(IF coord.todo = {a} THEN Progressed(entry) ELSE [coord EXCEPT !.todo = @ \ {a}])
     /\ commits' = [commits EXCEPT ![<<a, coord.i>>] = entry[coord.i].seq]
  /\ UNCHANGED <<subs, adms, execs, inputs, routes, partials, dones, acks>>
  /\ NoFault /\ OnlyCoord /\ UNCHANGED scheduler

Eligible ==
  LET ready == In(entry, "ready") IN
  IF Policy = "fifo"
    THEN {i \in ready : \A j \in ready : entry[i].ticket <= entry[j].ticket}
    ELSE ready

try_schedule ==
  /\ coord.pc = "schedule"
  /\ \E i \in Eligible :
       /\ entry' = [entry EXCEPT ![i].state = "active", ![i].lane = Min(IdleLanes(entry))]
       /\ SetCoord([coord EXCEPT !.pc = "admit", !.i = i, !.todo = Members(i),
                                 !.key = <<i, entry[i].seq>>])
  /\ Silent /\ NoFault /\ OnlyCoord /\ UNCHANGED <<tickets, leases>>

(* publish_scheduled_invocation: Admission to the AtnAgents, then          *)
(* LaneExecution to the FfnAgents.                                         *)
PublishAdmission ==
  LET i == coord.i  l == entry[i].lane IN
  /\ coord.pc = "admit"
  /\ LET a == CHOOSE q \in coord.todo : TRUE IN
     /\ adms' = [adms EXCEPT ![<<a, i>>] = [seq |-> coord.key[2], lane |-> l,
                                            lease |-> leases[l] + 1]]
     /\ IF coord.todo = {a}
          THEN /\ SetCoord([coord EXCEPT !.pc = "launch", !.todo = Range(Team(coord.key))])
               /\ leases' = [leases EXCEPT ![l] = @ + 1]
          ELSE SetCoord([coord EXCEPT !.todo = @ \ {a}]) /\ UNCHANGED leases
  /\ UNCHANGED <<subs, execs, inputs, routes, partials, dones, commits, acks, entry, tickets>>
  /\ NoFault /\ OnlyCoord

PublishLaneExecution ==
  LET l == entry[coord.i].lane IN
  /\ coord.pc = "launch"
  /\ LET f == CHOOSE q \in coord.todo : TRUE IN
     /\ SetCoord(IF coord.todo = {f} THEN [At("top") EXCEPT !.key = NoKey]
                 ELSE [coord EXCEPT !.todo = @ \ {f}])
     /\ execs' = [execs EXCEPT ![<<f, l>>] = [lease |-> leases[l], key |-> coord.key]]
  /\ UNCHANGED <<subs, adms, inputs, routes, partials, dones, commits, acks, scheduler>>
  /\ NoFault /\ OnlyCoord

CoordStep ==
  \/ LoopTop \/ publish_to_all \/ discover_invocations \/ progress_active_invocations
  \/ PublishCommit \/ try_schedule \/ PublishAdmission \/ PublishLaneExecution

-----------------------------------------------------------------------------
(***************************************************************************)
(* ffnagent/runtime.cu and delivery.cu: the Lane graph of slot s = <<f, l>>.*)
(***************************************************************************)
SetLane(s, r) == lane' = [lane EXCEPT ![s] = r]
OnlyLane == UNCHANGED <<plan, atn, coord, scheduler, phase, shutdown, trap>>
Stopped(r) == [r EXCEPT !.pc = "stopped", !.todo = {}]
TpRank(s) == Rank(Team(lane[s].key), s[1])
Mine(s) == [lease |-> lane[s].lease, key |-> lane[s].key]

(* terminate_lane with a failure of its own.                               *)
Terminate(s, code) ==
  /\ try_publish(s[1], code, lane[s].key)
  /\ SetLane(s, Stopped(lane[s]))

ObserveExecution(s) ==
  LET e == execs[s]  r == [lane[s] EXCEPT !.lease = e.lease, !.key = e.key] IN
  /\ lane[s].pc = "wait" /\ e.lease >= lane[s].last + 1
  /\ IF s[1] \in Range(Team(e.key))
       THEN SetLane(s, [r EXCEPT !.pc = "payload"]) /\ UNCHANGED <<failure, seen>>
       ELSE try_publish(s[1], "mismatch", e.key) /\ SetLane(s, Stopped(r))
  /\ OnlyLane /\ NoEvent /\ UNCHANGED <<publications, buffers>>

NeedsRouting(s) == <<lane[s].key[1], First(lane[s].key).layer>> \in Routed /\ TpRank(s) # 1

PayloadsReady(s) ==
  /\ inputs[s].lease >= lane[s].lease
  /\ NeedsRouting(s) => routes[s].lease >= lane[s].lease

PayloadsContradict(s) ==
  \/ inputs[s].lease >= lane[s].lease /\ inputs[s] # Mine(s)
  \/ NeedsRouting(s) /\ routes[s].lease >= lane[s].lease /\ routes[s] # Mine(s)

AwaitPayloads(s) ==
  /\ lane[s].pc = "payload"
  /\ IF PayloadsContradict(s) THEN Terminate(s, "mismatch")
     ELSE /\ PayloadsReady(s)
          /\ SetLane(s, [lane[s] EXCEPT !.pc = "compute"]) /\ UNCHANGED <<failure, seen>>
  /\ OnlyLane /\ NoEvent /\ UNCHANGED <<publications, buffers>>

(* bind_compute and the compute graph; the router's owner publishes the    *)
(* routing metadata on the way.                                            *)
Compute(s) ==
  LET k == lane[s].key
      peers == IF <<k[1], First(k).layer>> \in Routed /\ TpRank(s) = 1
                 THEN (Range(Team(k)) \ {s[1]}) \X {s[2]} ELSE {}
  IN
  /\ lane[s].pc = "compute" /\ ~Cancelled(s[1])
  /\ partbuf' = [partbuf EXCEPT ![s] = inbuf[s]]
  /\ routes' = [q \in Slots |-> IF q \in peers THEN Mine(s) ELSE routes[q]]
  /\ SetLane(s, [lane[s] EXCEPT !.pc = "deliver"])
  /\ OnlyLane /\ NoEvent
  /\ UNCHANGED <<subs, adms, execs, inputs, partials, dones, commits, acks, inbuf, outbuf, failure, seen>>

(* prepare_delivery: which branch delivers, and who reads this partial.    *)
Outputs(s) ==
  LET k == lane[s].key  variant == delivery_variant(k) IN
  CASE variant = "direct" -> {group[k[1]][TpRank(s)]}
    [] variant = "replicated" -> IF TpRank(s) \in Readers(k) THEN Members(k[1]) ELSE {}
    [] variant = "single" -> IF TpRank(s) \in Readers(k) THEN {group[k[1]][1]} ELSE {}

prepare_delivery(s) ==
  LET k == lane[s].key
      readers == IF delivery_variant(k) = "direct" THEN {}
                 ELSE {Team(k)[r] : r \in Readers(k)}
  IN
  /\ lane[s].pc = "deliver" /\ ~Cancelled(s[1])
  /\ partials' = [q \in Ffns \X Slots |->
                    IF q[1] \in readers \ {s[1]} /\ q[2] = s THEN Mine(s) ELSE partials[q]]
  /\ SetLane(s, [lane[s] EXCEPT !.pc = IF s[1] \notin readers THEN "send"
                                       ELSE IF Len(Team(k)) > 1 THEN "partials" ELSE "reduce",
                                !.todo = Outputs(s)])
  /\ OnlyLane /\ NoEvent
  /\ UNCHANGED <<subs, adms, execs, inputs, routes, dones, commits, acks, buffers, failure, seen>>

Peers(s) == {<<s[1], <<f, s[2]>>>> : f \in Range(Team(lane[s].key)) \ {s[1]}}
PartialsReady(s) == \A q \in Peers(s) : partials[q].lease >= lane[s].lease
PartialsContradict(s) ==
  \E q \in Peers(s) : partials[q].lease >= lane[s].lease /\ partials[q] # Mine(s)

probe_peer_partials(s) ==
  /\ lane[s].pc = "partials"
  /\ IF PartialsContradict(s) THEN Terminate(s, "mismatch") /\ UNCHANGED inbuf
     ELSE /\ PartialsReady(s)
          /\ SetLane(s, [lane[s] EXCEPT !.pc = "reduce"]) /\ UNCHANGED <<failure, seen, inbuf>>
  /\ OnlyLane /\ NoEvent /\ UNCHANGED <<publications, partbuf, outbuf>>

(* reduce_tp_partials: the peers' partials, summed into the staging buffer,*)
(* which is the input buffer.                                              *)
Reduce(s) ==
  LET k == lane[s].key  read == {partbuf[<<f, s[2]>>] : f \in Range(Team(k))} IN
  /\ lane[s].pc = "reduce" /\ ~Cancelled(s[1])
  /\ inbuf' = [inbuf EXCEPT ![s] = IF Len(Team(k)) = 1 THEN @
                                        ELSE IF read = {k} THEN k ELSE NoKey]
  /\ SetLane(s, [lane[s] EXCEPT !.pc = "send"])
  /\ OnlyLane /\ NoEvent /\ UNCHANGED <<publications, partbuf, outbuf, failure, seen>>

(* The puts do not block: they arrive one by one before the quiet.         *)
Deliver(s) ==
  LET k == lane[s].key
      source == IF delivery_variant(k) = "direct" \/ Len(Team(k)) = 1 THEN partbuf[s] ELSE inbuf[s]
  IN
  /\ lane[s].pc = "send"
  /\ \E a \in lane[s].todo :
       /\ outbuf' = [outbuf EXCEPT ![<<a, s[2]>>] = (TpRank(s) :> source) @@ @]
       /\ SetLane(s, [lane[s] EXCEPT !.todo = @ \ {a}])
  /\ OnlyLane /\ NoEvent /\ UNCHANGED <<publications, inbuf, partbuf, failure, seen>>

complete_lane_execution(s) ==
  /\ lane[s].pc = "send" /\ lane[s].todo = {} /\ ~Cancelled(s[1])
  /\ dones' = [dones EXCEPT ![s] = Mine(s)]
  /\ SetLane(s, [lane[s] EXCEPT !.pc = "wait", !.last = lane[s].lease])
  /\ OnlyLane /\ NoEvent
  /\ UNCHANGED <<subs, adms, execs, inputs, routes, partials, commits, acks, buffers, failure, seen>>

LaneReady(s) ==
  CASE lane[s].pc = "wait" -> execs[s].lease >= lane[s].last + 1
    [] lane[s].pc = "payload" -> PayloadsReady(s) \/ PayloadsContradict(s)
    [] lane[s].pc = "partials" -> PartialsReady(s) \/ PartialsContradict(s)
    [] lane[s].pc = "send" -> lane[s].todo # {}
    [] OTHER -> FALSE

(* Mutant: a Lane looks for a failure only.                                *)
LaneFailed(s) ==
  /\ lane[s].pc # "stopped" /\ ~LaneReady(s) /\ s[1] \in seen
  /\ SetLane(s, Stopped(lane[s]))
  /\ OnlyLane /\ NoEvent /\ UNCHANGED <<publications, buffers, failure, seen>>

(* Every kernel of the graph looks for shutdown or failure; outstanding    *)
(* puts are completed first.                                               *)
LaneCancelled(s) ==
  /\ lane[s].pc # "stopped" /\ ~LaneReady(s) /\ Cancelled(s[1])
  /\ SetLane(s, Stopped(lane[s]))
  /\ OnlyLane /\ NoEvent /\ UNCHANGED <<publications, buffers, failure, seen>>

LaneTimesOut(s) ==
  /\ lane[s].pc \in {"payload", "partials"} /\ TimesOut(s[1], LaneReady(s), Hopeless(lane[s].key[1]))
  /\ Terminate(s, "timeout")
  /\ OnlyLane /\ UNCHANGED <<publications, buffers>>

LaneStep(s) ==
  \/ ObserveExecution(s) \/ AwaitPayloads(s) \/ Compute(s) \/ prepare_delivery(s)
  \/ probe_peer_partials(s) \/ Reduce(s) \/ Deliver(s) \/ complete_lane_execution(s)
  \/ LaneCancelled(s)

-----------------------------------------------------------------------------
(***************************************************************************)
(* How a generation ends.  Draining starts when every Transport Resident   *)
(* has drained, and then reaches every PE.  A fail-stop abort has no such  *)
(* barrier: an FfnAgent requests its shutdown on its own, an AtnAgent once *)
(* its own Resident has drained.                                           *)
(***************************************************************************)
Kept == UNCHANGED <<plan, atn, lane, coord, scheduler, publications, buffers, failure, seen, trap>>
Drained(a) == \A k \in Kernels : k[1] = a => atn[k].pc \in {"idle", "trapped"}

(* A group is between two calls.                                           *)
Settled(i) == \A a, b \in Members(i) : atn[<<a, i>>].seq = atn[<<b, i>>].seq

BeginDraining ==
  /\ phase = "run" /\ \A a \in Atns : Drained(a)
  /\ \A i \in Instances : Settled(i) \/ Hopeless(i)
  /\ phase' = "draining" /\ Kept /\ UNCHANGED <<shutdown, events>>

BeginAborting ==
  /\ phase = "run" /\ "abort" \in Kinds /\ events > 0 /\ events' = events - 1
  /\ phase' = "aborting" /\ Kept /\ UNCHANGED shutdown

request_shutdown(pe) ==
  /\ pe \notin shutdown
  /\ \/ phase = "draining"
     \/ phase = "aborting" /\ (pe \in Atns => Drained(pe))
  /\ shutdown' = shutdown \cup {pe} /\ Kept /\ UNCHANGED <<phase, events>>

Next ==
  \/ \E k \in Kernels : AtnStep(k) \/ WaitTimesOut(k)
  \/ CoordStep
  \/ \E s \in Slots : LaneStep(s) \/ LaneTimesOut(s)
  \/ BeginDraining \/ BeginAborting \/ \E pe \in Pes : request_shutdown(pe)

Spec == Init /\ [][Next]_vars

(* Every kernel is resident and keeps running; its deadlines pass.         *)
Fairness ==
  /\ \A k \in Kernels : WF_vars(AtnStep(k)) /\ WF_vars(WaitTimesOut(k) /\ Hopeless(k[2]))
  /\ WF_vars(CoordStep)
  /\ \A s \in Slots : /\ WF_vars(LaneStep(s))
                      /\ WF_vars(LaneTimesOut(s) /\ Hopeless(lane[s].key[1]))
  /\ \A pe \in Pes : WF_vars(request_shutdown(pe))

FairSpec == Spec /\ Fairness

-----------------------------------------------------------------------------
(***************************************************************************)
(* Although Lanes and their buffers are reused, every reader finds the     *)
(* data of its own invocation: a Lane computes on the input it was         *)
(* launched for and reduces partials of this invocation only, and a call   *)
(* that succeeds returns nothing but its own output.                       *)
(***************************************************************************)
PayloadsOwn ==
  /\ \A s \in Slots :
       /\ lane[s].pc = "compute" => inbuf[s] = lane[s].key
       /\ lane[s].pc = "reduce" => \A f \in Range(Team(lane[s].key)) :
                                     partbuf[<<f, s[2]>>] = lane[s].key
  /\ \A k \in Kernels : atn[k].code = "ok" => atn[k].got \subseteq {Key(k)}

(***************************************************************************)
(* Callers that are told of a failure are told the same one, whoever       *)
(* detected it, except for a call that never got into the Fabric; and a    *)
(* mismatch they are told of is their own fault: no interleaving of the    *)
(* kernels makes one of the checks on a record fail for agreeing calls.    *)
(* The scheduler's own checks never fail.                                  *)
(***************************************************************************)
FailureAgreed ==
  /\ \A k \in Kernels :
       atn[k].code \in {"timeout", "mismatch"} =>
         \/ atn[k].code = failure.code
         \/ atn[k].seq < Len(plan[k[2]]) /\ ~Fits(k[2], plan[k[2]][atn[k].seq + 1][MyRank(k)])
  /\ failure.code = "mismatch" => ~Agrees(failure.key[1], plan[failure.key[1]][failure.key[2]])
  /\ trap # "enqueue"

(***************************************************************************)
(* converge_failure's own deadline is never reached: the Coordinator       *)
(* publishes every claimed failure to the claimant.                        *)
(***************************************************************************)
ConvergenceReached == trap # "converge"

(* Every call returns, with a result or with a failure.                    *)
CallsReturn ==
  \A k \in Kernels : (atn[k].pc # "idle") ~> (atn[k].pc \in {"idle", "trapped"})

(* Once draining starts, every resident kernel stops.                      *)
DrainStops ==
  (phase = "draining") ~>
    (coord.pc = "stopped" /\ \A s \in Slots : lane[s].pc = "stopped")
=============================================================================
