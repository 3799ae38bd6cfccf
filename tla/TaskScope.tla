------------------------------ MODULE TaskScope ------------------------------
(***************************************************************************)
(* The supervised task domain of the developer tools: one runner that      *)
(* admits tasks against a pool of devices, and for every task a supervisor *)
(* (a child subreaper) and a task root with its descendants.  Runner and   *)
(* supervisor, runner and root are joined by pipes.  A root that starts    *)
(* device resources first has its protection committed by the supervisor;  *)
(* from then on nobody may signal the domain before the root has proved    *)
(* its cleanup.                                                            *)
(*                                                                         *)
(* task[t] holds the runner's SupervisedTaskScope (state, res, due: a      *)
(* cleanup deadline is set, chan: the root connection is open), the four   *)
(* directions of the pipes, the supervisor (sup, event, timed, answer) and *)
(* the domain: the root's program counter and TaskRoot fields, a           *)
(* descendant (helper) and the device resources.  "lost" resources are     *)
(* resources whose owners were signalled while they held them, by a drain  *)
(* of their own supervisor or by the runner's fallback; "rolled" ones by   *)
(* the rollback of another task's startup.                                 *)
(*                                                                         *)
(* An exception that leaves a runner operation is the field raised; bad    *)
(* records one the protocol calls impossible.  Time passes by events:      *)
(* "deadline" and "item" expire an execution limit, "expire" the cleanup   *)
(* deadline.                                                               *)
(***************************************************************************)
EXTENDS Naturals, Sequences, FiniteSets, SequencesExt

CONSTANTS Tasks, Devices, need, Kinds, MaxEvents

VARIABLES task, pending, free, lease, runner, baseline, waiting, failures, events

vars == <<task, pending, free, lease, runner, baseline, waiting, failures, events>>

Nobody == "none"

Fresh ==
  [state |-> "pending", res |-> "inactive", due |-> FALSE, chan |-> TRUE,
   raised |-> FALSE, bad |-> FALSE, expired |-> FALSE, stuck |-> FALSE,
   toSup |-> <<>>, fromSup |-> <<>>, toRoot |-> <<>>, fromRoot |-> <<>>,
   sup |-> Nobody, event |-> Nobody, timed |-> TRUE, answer |-> Nobody,
   root |-> Nobody, sealed |-> FALSE, asked |-> Nobody, acked |-> Nobody, reader |-> TRUE,
   told |-> FALSE, helper |-> FALSE, resources |-> Nobody]

Init ==
  /\ task = [t \in Tasks |-> Fresh]
  /\ pending = SetToSeq(Tasks)
  /\ free = Devices
  /\ lease = [t \in Tasks |-> {}]
  /\ runner = [pc |-> "loop", cur |-> Nobody, open |-> TRUE, cancel |-> FALSE]
  /\ baseline = {} /\ waiting = {} /\ failures = FALSE
  /\ events = <<>>

SupAlive(k) == k.sup \notin {Nobody, "dead"}
RootAlive(k) == k.root \notin {Nobody, "exited"}
Empty(k) == ~RootAlive(k) /\ ~k.helper
RunnerAlive == runner.pc # "dead"
ToSup(k, m) == [k EXCEPT !.toSup = Append(@, m)]
FromSup(k, m) == IF RunnerAlive THEN [k EXCEPT !.fromSup = Append(@, m)] ELSE k
Raise(k) == [k EXCEPT !.raised = TRUE]
Fail(k) == [k EXCEPT !.raised = TRUE, !.state = "failed"]
Impossible(k) == [Fail(k) EXCEPT !.bad = TRUE]

(***************************************************************************)
(* SupervisedTaskScope: what the runner does with one scope.               *)
(***************************************************************************)
is_protected(k) == k.res \in {"activating", "active", "retiring"}

ToRoot(k, m) == IF RootAlive(k) THEN [k EXCEPT !.toRoot = Append(@, m)] ELSE Raise(k)

request_retirement(k) ==
  LET h == [k EXCEPT !.due = TRUE]
  IN  IF ~h.chan \/ ~is_protected(h) THEN h
      ELSE IF RootAlive(h) THEN ToRoot(h, "cancel") ELSE [h EXCEPT !.chan = FALSE]

RelayActive(k) ==
  IF k.res # "inactive" THEN Impossible(k)
  ELSE IF k.due THEN ToRoot(k, "cancel")
  ELSE IF SupAlive(k) THEN [ToSup(k, "active") EXCEPT !.res = "activating"]
  ELSE [Fail(k) EXCEPT !.res = "activating"]

RelayCleaned(k) ==
  IF ~is_protected(k) /\ ~k.due THEN Impossible(k)
  ELSE IF k.res = "inactive" THEN ToRoot([k EXCEPT !.res = "cleaned"], "ack_cleaned")
  ELSE IF SupAlive(k) THEN [ToSup(k, "cleaned") EXCEPT !.res = "retiring"]
  ELSE [k EXCEPT !.res = "retiring", !.state = "failed"]

Relay(k, update) ==
  IF k.raised THEN k
  ELSE LET h == [k EXCEPT !.fromRoot = Tail(@)]
       IN  IF update = "cancel"
             THEN LET r == request_retirement(h) IN IF SupAlive(r) THEN ToSup(r, "cancel") ELSE r
           ELSE IF update = "active" THEN RelayActive(h)
           ELSE RelayCleaned(h)

service_root_control(k) ==
  IF ~k.chan \/ (is_protected(k) /\ ~SupAlive(k)) THEN k
  ELSE LET h == FoldLeft(Relay, k, k.fromRoot)
       IN  IF ~h.raised /\ ~RootAlive(h) THEN [h EXCEPT !.chan = FALSE] ELSE h

AcceptAcknowledgement(k, m) ==
  IF m = "ack_active"
    THEN IF k.res = "retiring" THEN k
         ELSE IF k.res # "activating" THEN Impossible(k)
         ELSE LET h == [k EXCEPT !.res = "active"]
              IN  IF h.due THEN request_retirement(h)
                  ELSE IF h.chan THEN ToRoot(h, m) ELSE h
  ELSE IF k.res # "retiring" THEN Impossible(k)
  ELSE LET h == [k EXCEPT !.res = "cleaned"]
       IN  IF h.chan THEN ToRoot(h, m) ELSE h

accept_message(k) ==
  IF k.fromSup = <<>> THEN Fail(k)
  ELSE LET h == [k EXCEPT !.fromSup = Tail(@)]
           m == Head(k.fromSup)
       IN  IF m \in {"ack_active", "ack_cleaned"} THEN AcceptAcknowledgement(h, m)
           ELSE IF m = "cancel" THEN request_retirement(h)
           ELSE IF m = "failed" \/ is_protected(h) THEN Fail(h)
           ELSE [h EXCEPT !.state = m]

Readable(k) == k.fromSup # <<>> \/ ~SupAlive(k)

(* The rest of poll, once the root's updates are relayed.                  *)
poll(served) ==
  IF served.raised THEN served
  ELSE IF is_protected(served) /\ served.due /\ served.expired THEN Fail(served)
  ELSE IF Readable(served) THEN accept_message(served)
  ELSE served

(***************************************************************************)
(* The domain under a signal of the generic drains.                        *)
(***************************************************************************)
Signalled(k) == IF k.resources = "held" THEN [k EXCEPT !.resources = "lost"] ELSE k

Terminated(k) ==
  [Signalled(k) EXCEPT !.sealed = @ \/ RootAlive(k),
                       !.root = IF @ \in {"run", "activating"} THEN "finishing"
                                ELSE IF @ = "live" THEN "closing" ELSE @]

Killed(k) ==
  [Signalled(k) EXCEPT !.root = IF @ = Nobody THEN @ ELSE "exited", !.helper = FALSE]

Orphaned(k) == k.sup = "dead" /\ ~Empty(k)

(***************************************************************************)
(* TaskScheduler and DevicePool.                                           *)
(***************************************************************************)
Happens(kind) ==
  /\ kind \in Kinds /\ Len(events) < MaxEvents /\ kind \notin Range(events)
  /\ events' = Append(events, kind)

Fits(t) == need[t] <= Cardinality(free)

Lowest(n) ==
  CHOOSE s \in SUBSET free :
    Cardinality(s) = n /\ \A d \in s, e \in free \ s : d < e

(* start: the lease is taken, the direct children are captured and the     *)
(* supervisor is spawned.                                                  *)
start ==
  /\ runner.pc = "loop" /\ runner.open /\ ~runner.cancel
  /\ \E i \in DOMAIN pending :
       LET t == pending[i] IN
       /\ Fits(t) /\ \A j \in 1..(i - 1) : ~Fits(pending[j])
       /\ pending' = RemoveAt(pending, i)
       /\ lease' = [lease EXCEPT ![t] = Lowest(need[t])]
       /\ free' = free \ Lowest(need[t])
       /\ baseline' = {u \in Tasks : Orphaned(task[u])}
       /\ runner' = [runner EXCEPT !.pc = "starting", !.cur = t]
       /\ task' = [task EXCEPT ![t].sup = "launching"]
  /\ UNCHANGED <<waiting, failures, events>>

started ==
  /\ runner.pc = "starting"
  /\ LET t == runner.cur IN
     /\ task[t].fromSup # <<>>
     /\ task' = [task EXCEPT ![t].fromSup = Tail(@), ![t].state = "running"]
     /\ runner' = [runner EXCEPT !.pc = "loop", !.cur = Nobody]
  /\ UNCHANGED <<pending, free, lease, baseline, waiting, failures, events>>

(* abort_startup: the supervisor is killed and every tree the runner       *)
(* adopted since the baseline is drained.                                  *)
RolledBack(k) == [Killed(k) EXCEPT !.resources = IF k.resources = "held" THEN "rolled" ELSE @]

Aborted(state) ==
  LET h == [task EXCEPT ![runner.cur].sup = "dead", ![runner.cur].state = state, ![runner.cur].chan = FALSE]
  IN  [u \in Tasks |-> IF Orphaned(h[u]) /\ u \notin baseline THEN RolledBack(h[u]) ELSE h[u]]

(* TaskStartFailure: the lease returns; the benchmark goes on, the suite   *)
(* cancels.                                                                *)
abort_startup ==
  /\ runner.pc = "starting"
  /\ Happens("startup")
  /\ task' = Aborted("closed")
  /\ free' = free \cup lease[runner.cur]
  /\ lease' = [lease EXCEPT ![runner.cur] = {}]
  /\ \E cancels \in BOOLEAN :
       /\ runner' = [runner EXCEPT !.pc = "loop", !.cur = Nobody,
                                  !.open = @ /\ ~cancels, !.cancel = @ \/ cancels]
       /\ pending' = IF cancels THEN <<>> ELSE pending
  /\ UNCHANGED <<baseline, waiting, failures>>

(* The attempted domain is not proved empty: its root survives, the lease  *)
(* is retained and the exception cancels the run.                          *)
abort_startup_fails ==
  /\ runner.pc = "starting"
  /\ Happens("startup")
  /\ task' = [Aborted("abandoned") EXCEPT ![runner.cur].root = task[runner.cur].root]
  /\ runner' = [runner EXCEPT !.pc = "loop", !.cur = Nobody, !.open = FALSE, !.cancel = TRUE]
  /\ pending' = <<>>
  /\ UNCHANGED <<free, lease, baseline, waiting, failures>>

Active == {t \in Tasks : task[t].state \in {"running", "failed"}}

(* run/poll: a completion is retired, an exception leaves the loop.        *)
poll_active(t) ==
  /\ runner.pc = "loop" /\ ~runner.cancel
  /\ task[t].state = "running"
  /\ \E served \in {service_root_control(task[t])} : \E h \in {poll(served)} :
     /\ h # task[t]
     /\ task' = [task EXCEPT ![t] = [h EXCEPT !.raised = FALSE]]
     /\ runner' = IF h.raised
                    THEN [runner EXCEPT !.open = FALSE, !.cancel = TRUE]
                  ELSE IF h.state = "completed"
                    THEN [runner EXCEPT !.pc = "closing", !.cur = t]
                  ELSE runner
     /\ pending' = IF h.raised THEN <<>> ELSE pending
  /\ UNCHANGED <<free, lease, baseline, waiting, failures, events>>

Closable(k) == k.state \in {"completed", "drained"} /\ k.sup = "dead"

(* retire: close the scope, then return its lease.                         *)
retire ==
  /\ runner.pc = "closing"
  /\ LET t == runner.cur IN
     /\ Closable(task[t])
     /\ task' = [task EXCEPT ![t].state = "closed", ![t].chan = FALSE]
     /\ free' = free \cup lease[t]
     /\ lease' = [lease EXCEPT ![t] = {}]
     /\ runner' = [runner EXCEPT !.pc = "loop", !.cur = Nobody]
  /\ UNCHANGED <<pending, baseline, waiting, failures, events>>

request_cancel ==
  /\ runner.pc = "loop" /\ ~runner.cancel
  /\ Happens("cancel")
  /\ runner' = [runner EXCEPT !.open = FALSE, !.cancel = TRUE]
  /\ pending' = <<>>
  /\ UNCHANGED <<task, free, lease, baseline, waiting, failures>>

finish_run ==
  /\ runner.pc = "loop" /\ ~runner.cancel
  /\ pending = <<>> /\ Active = {}
  /\ runner' = [runner EXCEPT !.pc = "done"]
  /\ UNCHANGED <<task, pending, free, lease, baseline, waiting, failures, events>>

(***************************************************************************)
(* cancel_active: terminate_all's fan-out, its wait, the fallback, and the *)
(* retirement of every proven scope.                                       *)
(***************************************************************************)
Retired(k) == [request_retirement(k) EXCEPT !.state = "failed", !.raised = FALSE]

(* The fan-out to one scope from its relayed, its asked and its polled     *)
(* record.                                                                 *)
FanOut(served, asked, polled) ==
  IF served.raised THEN Retired(served)
  ELSE IF asked.state = "failed" THEN asked
  ELSE IF polled.raised THEN Retired(polled)
  ELSE IF polled.state = "completed" THEN polled
  ELSE ToSup(polled, "terminate")

terminate_all ==
  /\ runner.pc = "loop" /\ runner.cancel
  /\ \E served \in {[t \in Active |-> service_root_control(task[t])]} :
     \E asked \in {[t \in Active |-> request_retirement(served[t])]} :
     \E again \in {[t \in Active |-> service_root_control(asked[t])]} :
     \E polled \in {[t \in Active |-> poll(again[t])]} :
     \E h \in {[t \in Active |-> FanOut(served[t], asked[t], polled[t])]} :
       /\ task' = h @@ task
       /\ failures' = \E t \in Active : h[t].state = "failed"
  /\ waiting' = Active
  /\ runner' = [runner EXCEPT !.pc = "cancelling"]
  /\ UNCHANGED <<pending, free, lease, baseline, events>>

CancelRead(served) ==
  IF served.raised \/ served.fromSup = <<>> THEN served ELSE accept_message(served)

(* The response bound passes only where the supervisor cannot answer.      *)
CancelVerdict(read) ==
  IF read.raised THEN "failed"
  ELSE IF read.state \in {"drained", "completed"} THEN read.state
  ELSE IF ~SupAlive(read) \/ (read.sup = "retained" /\ ~is_protected(read)) THEN "failed"
  ELSE read.state

await_cancelled(t) ==
  /\ runner.pc = "cancelling" /\ t \in waiting
  /\ \E served \in {service_root_control(task[t])} : \E read \in {CancelRead(served)} :
     \E h \in {[read EXCEPT !.state = CancelVerdict(read), !.raised = FALSE]} :
       /\ task' = [task EXCEPT ![t] = h]
       /\ waiting' = IF \/ h.state \in {"drained", "completed"}
                        \/ h.state = "failed" /\ ~is_protected(h)
                       THEN waiting \ {t} ELSE waiting
       /\ failures' = (failures \/ h.state = "failed")
  /\ UNCHANGED <<pending, free, lease, runner, baseline, events>>

cancelled ==
  /\ runner.pc = "cancelling" /\ waiting = {}
  /\ runner' = [runner EXCEPT !.pc = IF failures THEN "fallback" ELSE "retiring"]
  /\ UNCHANGED <<task, pending, free, lease, baseline, waiting, failures, events>>

RetainedClock ==
  \E t \in Tasks : /\ task[t].state \in {"completed", "drained", "failed"}
                   /\ task[t].res # "inactive" /\ task[t].due /\ task[t].expired

ProvenExit(k) == k.state \in {"completed", "drained"} => k.sup = "dead"

Recovered(k) == [k EXCEPT !.state = IF @ = "failed" THEN "drained" ELSE @]

(* reap_task_supervisors and drain_unprotected_subreaper_descendants: the  *)
(* failed scopes' supervisors are killed and everything adopted is         *)
(* drained, unless a retained clock has run out: then both only wait.      *)
Reaped(k) == IF k.state = "failed" /\ SupAlive(k) THEN [k EXCEPT !.sup = "dead"] ELSE k
Drained(k) == IF Orphaned(k) THEN Killed(k) ELSE k

fallback ==
  /\ runner.pc = "fallback"
  /\ \A t \in Tasks : ProvenExit(task[t])
  /\ RetainedClock => \A t \in Tasks : task[t].state = "failed"
                                         => task[t].sup = "dead" /\ Empty(task[t])
  /\ task' = [t \in Tasks |->
                IF RetainedClock THEN Recovered(task[t]) ELSE Recovered(Drained(Reaped(task[t])))]
  /\ runner' = [runner EXCEPT !.pc = "retiring"]
  /\ UNCHANGED <<pending, free, lease, baseline, waiting, failures, events>>

(* Something survives SIGKILL: the failed scopes keep their leases.        *)
fallback_fails ==
  /\ runner.pc = "fallback"
  /\ ~RetainedClock
  /\ Happens("survive")
  /\ task' = [t \in Tasks |->
                LET k == Reaped(task[t]) IN IF Orphaned(k) THEN [Signalled(k) EXCEPT !.root = "exited"] ELSE k]
  /\ runner' = [runner EXCEPT !.pc = "retiring"]
  /\ UNCHANGED <<pending, free, lease, baseline, waiting, failures>>

retire_cancelled ==
  /\ runner.pc = "retiring"
  /\ \A t \in Tasks : ProvenExit(task[t])
  /\ LET proven == {t \in Tasks : Closable(task[t])} IN
     /\ task' = [t \in Tasks |->
                   IF t \in proven THEN [task[t] EXCEPT !.state = "closed", !.chan = FALSE]
                                   ELSE Drained(task[t])]
     /\ free' = free \cup UNION {lease[t] : t \in proven}
     /\ lease' = [t \in Tasks |-> IF t \in proven THEN {} ELSE lease[t]]
  /\ runner' = [runner EXCEPT !.pc = "done"]
  /\ UNCHANGED <<pending, baseline, waiting, failures, events>>

runner_crash ==
  /\ RunnerAlive /\ Happens("runner")
  /\ runner' = [runner EXCEPT !.pc = "dead"]
  /\ UNCHANGED <<task, pending, free, lease, baseline, waiting, failures>>

Runner ==
  \/ start \/ started \/ abort_startup \/ abort_startup_fails \/ retire \/ request_cancel \/ finish_run
  \/ terminate_all \/ cancelled \/ fallback \/ fallback_fails \/ retire_cancelled
  \/ \E t \in Tasks : poll_active(t) \/ await_cancelled(t)

(***************************************************************************)
(* The supervisor of one task.                                             *)
(***************************************************************************)
Only(t, k) ==
  /\ task' = [task EXCEPT ![t] = k]
  /\ UNCHANGED <<pending, free, lease, runner, baseline, waiting, failures>>

run_task_supervisor(t) ==
  /\ task[t].sup = "launching"
  /\ Only(t, FromSup([task[t] EXCEPT !.sup = "watching", !.root = "run"], "started"))
  /\ UNCHANGED events

(* Every way out of supervise_task: what is drained how, and the answer.   *)
Leave(k, answer) ==
  IF k.event = "active"
    THEN [FromSup(k, "cancel") EXCEPT !.sup = "cleanup", !.answer = answer]
  ELSE [k EXCEPT !.sup = IF k.event = "cleaned" THEN "retiring" ELSE "draining", !.answer = answer]

commit(k, event) ==
  IF (event = "active" /\ k.event # Nobody) \/ (event = "cleaned" /\ k.event # "active")
    THEN Impossible(k)
    ELSE FromSup([k EXCEPT !.event = event], IF event = "active" THEN "ack_active" ELSE "ack_cleaned")

supervise_task(t) ==
  LET k == task[t]
      h == [k EXCEPT !.toSup = Tail(@)]
      m == Head(k.toSup)
  IN  /\ k.sup = "watching" /\ k.toSup # <<>>
      /\ Only(t, IF m \in {"active", "cleaned"} THEN commit(h, m)
                 ELSE IF m = "cancel" THEN [h EXCEPT !.timed = FALSE]
                 ELSE Leave(h, "drained"))
      /\ UNCHANGED events

(* Mutant: the exit of the root completes the task, whatever it left.      *)
CompleteOnExit(t) ==
  LET k == task[t] IN
  /\ k.sup = "watching" /\ k.toSup = <<>> /\ ~RootAlive(k)
  /\ IF k.event # "active"
       THEN Only(t, [FromSup(k, "completed") EXCEPT !.sup = "dead"])
       ELSE Only(t, Leave(k, "completed"))
  /\ UNCHANGED events

(* The supervisor's view of the domain once no command is waiting.         *)
observe_exit(t) ==
  LET k == task[t] IN
  /\ k.sup = "watching" /\ k.toSup = <<>> /\ ~RootAlive(k)
  /\ IF k.event # "active" /\ Empty(k)
       THEN Only(t, [FromSup(k, "completed") EXCEPT !.sup = "dead"])
       ELSE Only(t, Leave(k, "completed"))
  /\ UNCHANGED events

task_expires(t) ==
  LET k == task[t] IN
  /\ k.sup = "watching" /\ k.toSup = <<>> /\ RootAlive(k) /\ k.timed
  /\ Happens("deadline")
  /\ Only(t, IF k.event = "active" THEN Leave(k, "completed")
             ELSE [k EXCEPT !.sup = "draining", !.answer = "completed"])

item_expires(t) ==
  LET k == task[t] IN
  /\ k.sup = "watching" /\ k.toSup = <<>> /\ k.event # Nobody /\ k.timed
  /\ Happens("item")
  /\ Only(t, Leave(FromSup(k, "cancel"), "completed"))

(* The runner is gone: the exception path of run_task_supervisor.          *)
lose_runner(t) ==
  LET k == task[t] IN
  /\ k.sup = "watching" /\ k.toSup = <<>> /\ ~RunnerAlive
  /\ Only(t, IF k.event = Nobody THEN [k EXCEPT !.sup = "recovering"] ELSE Leave(k, "completed"))
  /\ UNCHANGED events

(* Mutant: the proof is acknowledged, but not taken for the end.           *)
CleanupWaitsOn(t) ==
  LET k == task[t]
      h == [k EXCEPT !.toSup = Tail(@)]
      m == Head(k.toSup)
  IN  /\ k.sup = "cleanup" /\ k.toSup # <<>>
      /\ Only(t, IF m \in {"active", "cleaned"} THEN commit(h, m)
                 ELSE IF m = "terminate" THEN FromSup(h, "cancel")
                 ELSE h)
      /\ UNCHANGED events

wait_for_task_cleanup(t) ==
  LET k == task[t]
      h == [k EXCEPT !.toSup = Tail(@)]
      m == Head(k.toSup)
  IN  /\ k.sup = "cleanup" /\ k.toSup # <<>>
      /\ Only(t, IF m = "cleaned" THEN [commit(h, m) EXCEPT !.sup = "retiring"]
                 ELSE IF m = "active" THEN commit(h, m)
                 ELSE IF m = "terminate" THEN FromSup(h, "cancel")
                 ELSE h)
      /\ UNCHANGED events

(* drain_task_scope: TERM, then KILL, then the reaped domain is empty.  An *)
(* expired retirement clock leaves drain_retired_task_scope no signals.    *)
Draining(k) ==
  \/ k.sup \in {"draining", "recovering"}
  \/ k.sup = "retiring" /\ ~k.expired

drain_terminate(t) ==
  /\ Draining(task[t]) /\ ~Empty(task[t])
  /\ Terminated(task[t]) # task[t]
  /\ Only(t, Terminated(task[t]))
  /\ UNCHANGED events

drain_kill(t) ==
  /\ Draining(task[t]) /\ ~Empty(task[t])
  /\ Only(t, Killed(task[t]))
  /\ UNCHANGED events

drained(t) ==
  LET k == task[t] IN
  /\ k.sup \in {"draining", "recovering", "retiring", "retained"} /\ Empty(k)
  /\ Only(t, [FromSup(k, IF k.sup = "recovering" THEN "completed" ELSE k.answer)
                EXCEPT !.sup = "dead"])
  /\ UNCHANGED events

(* A process survives SIGKILL, or the clock allowed no signal.             *)
Undrained(k) ==
  IF k.sup = "retiring" THEN [k EXCEPT !.sup = "retained"]
  ELSE IF k.sup = "draining" THEN [k EXCEPT !.sup = "recovering"]
  ELSE [FromSup(k, "failed") EXCEPT !.sup = "dead"]

drain_survived(t) ==
  /\ Draining(task[t]) /\ task[t].helper
  /\ Happens("survive")
  /\ Only(t, Undrained([Signalled(task[t]) EXCEPT !.root = "exited"]))

drain_retained(t) ==
  /\ task[t].sup = "retiring" /\ task[t].expired /\ ~Empty(task[t])
  /\ Only(t, Undrained(task[t]))
  /\ UNCHANGED events

supervisor_crash(t) ==
  /\ SupAlive(task[t]) /\ task[t].sup # "launching"
  /\ Happens("supervisor")
  /\ Only(t, [task[t] EXCEPT !.sup = "dead", !.toSup = <<>>])

Supervisor(t) ==
  \/ run_task_supervisor(t) \/ supervise_task(t) \/ observe_exit(t) \/ lose_runner(t)
  \/ wait_for_task_cleanup(t) \/ drain_terminate(t) \/ drain_kill(t) \/ drained(t)
  \/ drain_retained(t)

(***************************************************************************)
(* The task root.                                                          *)
(***************************************************************************)
Open(k) == RunnerAlive /\ k.chan
Tell(k, m) == IF Open(k) THEN [k EXCEPT !.fromRoot = Append(@, m)] ELSE k

(* register_scope and activate's request.                                  *)
activate(t) ==
  LET k == task[t] IN
  /\ k.root = "run" /\ ~k.sealed
  /\ Only(t, [Tell(k, "active") EXCEPT !.asked = "active",
                                       !.root = IF Open(k) THEN "activating" ELSE "finishing"])
  /\ UNCHANGED events

Committed(k) == k.acked = "active" /\ ~k.sealed

(* XpoolCluster.start: the acknowledged root starts its processes.         *)
start_resources(t) ==
  /\ task[t].root = "activating" /\ Committed(task[t])
  /\ Only(t, [task[t] EXCEPT !.root = "live", !.resources = "held", !.helper = TRUE])
  /\ UNCHANGED events

(* The program ends, or its cancellation unwinds it.                       *)
unwind(t) ==
  LET k == task[t] IN
  /\ \/ k.root \in {"run", "live"}
     \/ k.root = "activating" /\ (k.sealed \/ ~k.reader)
  /\ Only(t, [k EXCEPT !.root = IF k.root = "live" THEN "closing" ELSE "finishing"])
  /\ UNCHANGED events

(* XpoolCluster.retire: the daemon has exited and the groups are empty.    *)
release_resources(t) ==
  /\ task[t].root = "closing" /\ ~task[t].stuck
  /\ \E helper \in BOOLEAN :
       Only(t, [task[t] EXCEPT !.root = "finishing", !.helper = helper /\ @,
                               !.resources = IF @ = "held" THEN "released" ELSE @])
  /\ UNCHANGED events

report_expiry(t) ==
  /\ task[t].root = "closing" /\ task[t].expired /\ ~task[t].told
  /\ Only(t, [Tell(task[t], "cancel") EXCEPT !.told = TRUE, !.sealed = TRUE])
  /\ UNCHANGED events

(* finish: seal, publish the deadline, then prove the cleanup.             *)
finish(t) ==
  LET k == task[t] IN
  /\ k.root = "finishing"
  /\ Only(t, IF k.asked = Nobody THEN [k EXCEPT !.sealed = TRUE, !.root = "exited"]
             ELSE [Tell(k, "cancel") EXCEPT !.sealed = TRUE, !.root = "proving"])
  /\ UNCHANGED events

prove_cleanup(t) ==
  LET k == task[t] IN
  /\ k.root = "proving" /\ k.reader /\ Open(k)
  /\ Only(t, [Tell(k, "cleaned") EXCEPT !.asked = "cleaned", !.root = "proved"])
  /\ UNCHANGED events

exit(t) ==
  /\ task[t].root = "proved" /\ task[t].acked = "cleaned"
  /\ Only(t, [task[t] EXCEPT !.root = "exited"])
  /\ UNCHANGED events

read_control(t) ==
  LET k == task[t]
      h == [k EXCEPT !.toRoot = Tail(@)]
      m == Head(k.toRoot)
      event == IF m = "ack_active" THEN "active" ELSE "cleaned"
  IN  /\ RootAlive(k) /\ k.reader
      /\ IF k.toRoot # <<>>
           THEN Only(t, IF m = "cancel" THEN [h EXCEPT !.sealed = TRUE]
                        ELSE IF event # k.asked THEN [h EXCEPT !.reader = FALSE, !.bad = TRUE]
                        ELSE [h EXCEPT !.acked = event])
           ELSE ~Open(k) /\ Only(t, [k EXCEPT !.sealed = TRUE, !.reader = FALSE])
      /\ UNCHANGED events

helper_exits(t) ==
  /\ task[t].helper /\ ~RootAlive(task[t]) /\ task[t].resources # "held"
  /\ Only(t, [task[t] EXCEPT !.helper = FALSE])
  /\ UNCHANGED events

root_crash(t) ==
  /\ RootAlive(task[t]) /\ Happens("root")
  /\ Only(t, [task[t] EXCEPT !.root = "exited"])

cleanup_fails(t) ==
  /\ task[t].root = "closing" /\ ~task[t].stuck /\ Happens("stuck")
  /\ Only(t, [task[t] EXCEPT !.stuck = TRUE])

cleanup_expires(t) ==
  /\ task[t].due /\ ~task[t].expired /\ Happens("expire")
  /\ Only(t, [task[t] EXCEPT !.expired = TRUE])

Root(t) ==
  \/ activate(t) \/ start_resources(t) \/ unwind(t) \/ release_resources(t)
  \/ report_expiry(t) \/ finish(t) \/ prove_cleanup(t) \/ exit(t)

Environment ==
  \/ runner_crash
  \/ \E t \in Tasks : \/ task_expires(t) \/ item_expires(t) \/ drain_survived(t)
                      \/ supervisor_crash(t) \/ root_crash(t) \/ cleanup_fails(t)
                      \/ cleanup_expires(t)

Next ==
  \/ Runner
  \/ \E t \in Tasks : Supervisor(t) \/ Root(t) \/ read_control(t) \/ helper_exits(t)
  \/ Environment

Spec == Init /\ [][Next]_vars

(***************************************************************************)
(* Leases are disjoint and account for the pool, and a lease is back in    *)
(* it only when the task's domain is empty and its resources are proved    *)
(* released: both proofs precede the return of the allocation.             *)
(***************************************************************************)
LeaseProof ==
  /\ \A t, u \in Tasks : t # u => lease[t] \cap lease[u] = {}
  /\ free = Devices \ UNION {lease[t] : t \in Tasks}
  /\ \A t \in Tasks :
       lease[t] = {} /\ need[t] > 0 => Empty(task[t]) /\ task[t].resources \notin {"held", "lost", "rolled"}

(***************************************************************************)
(* A generic signal reaches a domain that holds resources in one case      *)
(* only: another task's startup is rolled back, and the domain's own       *)
(* supervisor died after that startup had recorded the children to spare   *)
(* (abort_startup).  A domain orphaned before is spared, and neither a     *)
(* supervisor nor the runner's fallback sends such a signal: while         *)
(* resources are held the supervisor has committed the activation and the  *)
(* runner has seen no proof of cleanup.                                    *)
(***************************************************************************)
NoBlindSignal ==
  \A t \in Tasks :
    /\ task[t].resources # "lost"
    /\ task[t].resources = "held" => task[t].event = "active" /\ is_protected(task[t])
    /\ task[t].resources = "rolled" => task[t].sup = "dead" /\ t \notin baseline

(***************************************************************************)
(* The handshakes never cross: no acknowledgement answers a request that   *)
(* was not made, nothing activates twice and no proof is unexpected.       *)
(***************************************************************************)
NoCrossedHandshake == \A t \in Tasks : ~task[t].bad

(***************************************************************************)
(* Fairness: some process that has a step to take takes one, the runner in *)
(* its polling loop, the supervisor in its own, the root and its reader    *)
(* thread.  No process repeats a step for ever, so this weak form is       *)
(* enough; a root's program is taken to end.                               *)
(***************************************************************************)
Work ==
  \/ start \/ started \/ retire \/ finish_run
  \/ terminate_all \/ cancelled \/ fallback \/ retire_cancelled
  \/ \E t \in Tasks : \/ poll_active(t) \/ await_cancelled(t) \/ Supervisor(t) \/ Root(t)
                      \/ read_control(t) \/ helper_exits(t)

FairSpec == Spec /\ WF_vars(Work)

(***************************************************************************)
(* An invocation that meets nothing but cancellations and expired items    *)
(* ends with every device back in the pool.                                *)
(***************************************************************************)
RunReturnsDevices ==
  <>(\/ runner.pc = "done" /\ free = Devices
     \/ ToSet(events) \ {"cancel", "item"} # {})

(***************************************************************************)
(* The expiry of a task whose protection was never committed is a bounded  *)
(* action: the drained task is retired and its lease returned.             *)
(***************************************************************************)
UnprotectedExpiryBounded ==
  \A t \in Tasks : task[t].sup = "draining" ~> task[t].state = "closed"
=============================================================================
