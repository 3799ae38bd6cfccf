---------------------------- MODULE ProfileWorld ----------------------------
(***************************************************************************)
(* The offline memory profiler (ffnagent/memory_profile/runner.py).  An    *)
(* owner runs one calibration world after the other.  In a world it starts *)
(* a Host process that owns the bootstrap UID, an MPS scope, and one       *)
(* process per PE; it leads them through facts, plan, join, execution and  *)
(* finalization over pipes, and retires them.  run is what run_world knows *)
(* (pc, the loop index i, and its flags), part the participants, up and    *)
(* down the messages under way, uid the UID owner.  What is measured, and  *)
(* the fitting of coefficients, are left out.                              *)
(***************************************************************************)
EXTENDS Naturals, Sequences, FiniteSets

CONSTANTS AtnCount, FfnCount,   \* PEs 1..AtnCount are attention devices, the others FFN devices
          Worlds,               \* calibration worlds that are measured in turn
          MaxFaults, Faults     \* faults and signals that may happen, and their kinds

Pes == 1..(AtnCount + FfnCount)
Ffns == (AtnCount + 1)..(AtnCount + FfnCount)

VARIABLES run, uid, part, up, down, scope, measured, faults

profileVars == <<run, uid, part, up, down, scope, measured, faults>>

Fresh == [pc |-> "uid_start", i |-> 1, command |-> "", unwinding |-> FALSE,
          cancelled |-> FALSE, deadline |-> FALSE, expired |-> FALSE,
          failure |-> FALSE, raised |-> FALSE, failed |-> {}, unconfirmed |-> {},
          join_started |-> FALSE, retirement_started |-> FALSE, stopped |-> FALSE,
          uid_ready |-> FALSE, joined |-> {}, eligible |-> TRUE, rows |-> {}, world |-> FALSE]

Unborn == [pc |-> "none", code |-> 0, sampler |-> "none", failure |-> FALSE,
           join_started |-> FALSE, joined |-> FALSE, finalize_started |-> FALSE,
           collective |-> FALSE, finalized |-> FALSE]

World == /\ run' = Fresh /\ uid' = "none" /\ scope' = "new"
         /\ part' = [p \in Pes |-> Unborn]
         /\ up' = [p \in Pes |-> <<>>] /\ down' = [p \in Pes |-> <<>>]

ProfileInit ==
  /\ run = Fresh /\ uid = "none" /\ scope = "new"
  /\ part = [p \in Pes |-> Unborn]
  /\ up = [p \in Pes |-> <<>>] /\ down = [p \in Pes |-> <<>>]
  /\ measured = 0 /\ faults = 0

Fault(kind) == kind \in Faults /\ faults < MaxFaults /\ faults' = faults + 1
Calm == UNCHANGED faults

Message(tag, ready) == [tag |-> tag, ready |-> ready]
Alive(p) == part[p].pc \notin {"none", "exited"}
Spawned == {p \in Pes : part[p].pc # "none"}

-----------------------------------------------------------------------------
(* A participant.                                                          *)

Become(p, c) == part' = [part EXCEPT ![p] = c]
Say(p, m) == up' = [up EXCEPT ![p] = Append(@, m)]
Quiet == UNCHANGED up
OwnerKept == UNCHANGED <<run, uid, scope, measured>>
Exits(c, code) == [c EXCEPT !.pc = "exited", !.code = code]
Hears(p, command) == down[p] # <<>> /\ Head(down[p]) = command
Takes(p) == down[p] # <<>> /\ down' = [down EXCEPT ![p] = Tail(@)]

(***************************************************************************)
(* The exception handler.  A terminal device error ends the process at     *)
(* once.  Otherwise the sampler is closed; a participant that has joined   *)
(* and not begun to finalize waits for the coordinated finalization, one   *)
(* that entered a collective it cannot leave is retained, and any other    *)
(* exits.                                                                  *)
(***************************************************************************)
fail(p, c) ==
  \E terminal \in BOOLEAN :
    LET ready == c.joined /\ ~c.finalize_started
        d == [c EXCEPT !.failure = TRUE, !.sampler = IF @ = "none" THEN @ ELSE "closed"]
    IN  IF terminal
          THEN /\ Say(p, Message("failure", FALSE))
               /\ Become(p, Exits(c, 1))
          ELSE /\ Say(p, Message("failure", ready))
               /\ Become(p, IF ready THEN [d EXCEPT !.pc = "await_retire"]
                            ELSE IF c.join_started /\ ~c.finalized THEN [d EXCEPT !.pc = "retained"]
                            ELSE Exits(d, 1))

(* PhaseRecorder.begin, finish and close raise what made the sampler fail. *)
Sampled(p, c, Then) ==
  IF c.sampler = "failed" THEN fail(p, c) ELSE Then

prepare(p) ==
  /\ part[p].pc = "prepare"
  /\ Say(p, Message("facts", FALSE))
  /\ Become(p, [part[p] EXCEPT !.pc = "await_plan"])
  /\ UNCHANGED down

receive_plan(p) ==
  /\ part[p].pc = "await_plan" /\ Takes(p)
  /\ \/ /\ Hears(p, "stop")
        /\ Say(p, Message("stopped", FALSE)) /\ Become(p, Exits(part[p], 0))
     \/ /\ Hears(p, "plan") /\ Quiet
        /\ Become(p, [part[p] EXCEPT !.pc = "load", !.sampler = IF p \in Ffns THEN "on" ELSE @])

materialize(p) ==
  /\ part[p].pc = "load" /\ UNCHANGED down
  /\ Sampled(p, part[p], /\ Say(p, Message("prepared", FALSE))
                         /\ Become(p, [part[p] EXCEPT !.pc = "await_join"]))

receive_join(p) ==
  /\ part[p].pc = "await_join" /\ Takes(p)
  /\ \/ /\ Hears(p, "stop")
        /\ Sampled(p, part[p], /\ Say(p, Message("stopped", FALSE)) /\ Become(p, Exits(part[p], 0)))
     \/ /\ Hears(p, "join")
        /\ Sampled(p, part[p],
             Quiet /\ Become(p, [part[p] EXCEPT !.pc = "join", !.join_started = TRUE]))

(* The native join returns when every PE has entered it.                   *)
join(p) ==
  /\ part[p].pc = "join" /\ UNCHANGED down
  /\ \A q \in Pes : part[q].join_started
  /\ LET c == [part[p] EXCEPT !.joined = TRUE,
                              !.pc = IF p \in Ffns THEN "await_execute" ELSE "await_finalize"]
     IN  Sampled(p, c, Say(p, Message("joined", FALSE)) /\ Become(p, c))

receive_execute(p) ==
  /\ part[p].pc = "await_execute" /\ Takes(p) /\ Quiet
  /\ \/ Hears(p, "execute") /\ Become(p, [part[p] EXCEPT !.pc = "execute"])
     \/ Hears(p, "finalize") /\ Become(p, [part[p] EXCEPT !.pc = "close"])

(* Capture and installation, the sampler's end, and the evidence.          *)
execute(p) ==
  /\ part[p].pc = "execute" /\ UNCHANGED down
  /\ Sampled(p, part[p], /\ Say(p, Message("execution", FALSE))
                         /\ Become(p, [part[p] EXCEPT !.pc = "await_finalize", !.sampler = "closed"]))

receive_finalize(p) ==
  /\ part[p].pc = "await_finalize" /\ Hears(p, "finalize") /\ Takes(p) /\ Quiet
  /\ Become(p, [part[p] EXCEPT !.pc = "close"])

close_recorder(p) ==
  /\ part[p].pc = "close" /\ UNCHANGED down
  /\ Sampled(p, part[p],
       /\ Quiet
       /\ Become(p, [part[p] EXCEPT !.pc = "drain", !.finalize_started = TRUE,
                                    !.sampler = IF @ = "none" THEN @ ELSE "closed"]))

(* A failed participant that is ready obeys the same command.              *)
receive_retirement(p) ==
  /\ part[p].pc = "await_retire" /\ down[p] # <<>> /\ Takes(p)
  /\ IF Hears(p, "finalize")
       THEN Quiet /\ Become(p, [part[p] EXCEPT !.pc = "drain", !.finalize_started = TRUE])
       ELSE /\ Say(p, Message("failure", FALSE))
            /\ Become(p, [part[p] EXCEPT !.pc = "retained"])

drain(p) ==
  /\ part[p].pc = "drain" /\ UNCHANGED down /\ Quiet
  /\ Become(p, [part[p] EXCEPT !.pc = "finalize", !.collective = TRUE])

(* The native finalization returns when every PE has entered it.           *)
finalize(p) ==
  /\ part[p].pc = "finalize" /\ UNCHANGED down
  /\ \A q \in Pes : part[q].collective
  /\ Say(p, Message("stopped", FALSE))
  /\ Become(p, Exits([part[p] EXCEPT !.finalized = TRUE], IF part[p].failure THEN 1 ELSE 0))

participant_child(p) ==
  /\ \/ prepare(p) \/ receive_plan(p) \/ materialize(p) \/ receive_join(p) \/ join(p)
     \/ receive_execute(p) \/ execute(p) \/ receive_finalize(p) \/ close_recorder(p)
     \/ receive_retirement(p) \/ drain(p) \/ finalize(p)
  /\ OwnerKept /\ Calm

Works(p) == part[p].pc \in {"prepare", "load", "join", "execute", "drain", "finalize"}

participant_raises(p) ==
  /\ Works(p) /\ fail(p, part[p])
  /\ OwnerKept /\ UNCHANGED down /\ Fault("error")

sample_loop_fails(p) ==
  /\ Alive(p) /\ part[p].sampler = "on"
  /\ Become(p, [part[p] EXCEPT !.sampler = "failed"])
  /\ OwnerKept /\ UNCHANGED <<up, down>> /\ Fault("sampler")

participant_dies(p) ==
  /\ Alive(p) /\ Become(p, Exits(part[p], 9))
  /\ OwnerKept /\ UNCHANGED <<up, down>> /\ Fault("crash")

-----------------------------------------------------------------------------
(* The owner.                                                              *)

record_failure(r) == [r EXCEPT !.failure = TRUE, !.deadline = TRUE]
(* An exception reaches the finally clause; one raised there retains all.  *)
Raise(r) == [r EXCEPT !.raised = TRUE, !.pc = IF r.unwinding THEN "retained" ELSE "cleanup"]
To(r, pc, i) == [r EXCEPT !.pc = pc, !.i = i]
Step(r, pc) == IF r.i < AtnCount + FfnCount THEN [r EXCEPT !.i = @ + 1] ELSE To(r, pc, 1)
Unhurt(r) == ~r.failure /\ ~r.cancelled

OwnerStep == UNCHANGED <<uid, part, scope, measured>>
NoMail == UNCHANGED <<up, down>>

(***************************************************************************)
(* receive: cancellation interrupts the early waits, an expired deadline   *)
(* every wait.  A failure is recorded and returned; a pre-join child may   *)
(* still say facts or prepared to an owner that waits for stopped; a wrong *)
(* answer, or the end of a child that has said nothing, raises.            *)
(***************************************************************************)
Interrupted(expected) ==
  run.expired \/ (run.cancelled /\ expected \in {"facts", "prepared"})

Received(tag, expected) ==
  IF tag = "failure" THEN "failure"
  ELSE IF expected = "stopped" /\ tag \in {"facts", "prepared"} /\ ~run.join_started THEN "early"
  ELSE IF tag # expected THEN "wrong"
  ELSE "answer"

receive(p, expected, Got(_, _), Lost) ==
  /\ UNCHANGED down
  /\ IF Interrupted(expected) THEN run' = Lost /\ Quiet /\ Calm
     ELSE IF up[p] # <<>>
       THEN LET m == Head(up[p]) IN
            /\ up' = [up EXCEPT ![p] = Tail(@)] /\ Calm
            /\ run' = CASE Received(m.tag, expected) = "failure" -> Got(record_failure(run), m)
                        [] Received(m.tag, expected) = "early" -> run
                        [] Received(m.tag, expected) = "wrong" -> Lost
                        [] Received(m.tag, expected) = "answer" -> Got(run, m)
       ELSE /\ run' = Lost /\ Quiet
            /\ IF Alive(p) THEN Fault("timeout") ELSE Calm

(* A send to a child that has gone raises.                                 *)
send(p, m, Sent, Lost) ==
  /\ Quiet /\ Calm
  /\ IF Alive(p) THEN down' = [down EXCEPT ![p] = Append(@, m)] /\ run' = Sent
     ELSE UNCHANGED down /\ run' = Lost

Retiring(r, command) ==
  LET s == [r EXCEPT !.retirement_started = TRUE, !.deadline = TRUE, !.command = command]
  IN  IF Spawned = {} THEN [s EXCEPT !.stopped = TRUE, !.pc = IF r.unwinding THEN "uid_stop" ELSE "result"]
      ELSE To(s, "retire_send", 1)

(* The loops of retire_participants go over the processes started.         *)
RetireStep(r, pc) == IF r.i < Cardinality(Spawned) THEN [r EXCEPT !.i = @ + 1] ELSE To(r, pc, 1)

start_uid ==
  /\ run.pc = "uid_start" /\ NoMail /\ Calm
  /\ IF run.cancelled THEN run' = Raise(run) /\ UNCHANGED uid
     ELSE run' = To(run, "uid", 1) /\ uid' = "boot"
  /\ UNCHANGED <<part, scope, measured>>

receive_uid ==
  /\ run.pc = "uid" /\ OwnerStep /\ NoMail
  /\ \/ /\ run.cancelled \/ run.expired \/ uid = "dead"
        /\ run' = Raise(run) /\ Calm
     \/ /\ ~run.cancelled /\ ~run.expired /\ uid = "boot" /\ Fault("timeout")
        /\ run' = Raise(run)
     \/ /\ ~run.cancelled /\ ~run.expired /\ uid = "serving" /\ Calm
        /\ run' = To([run EXCEPT !.uid_ready = TRUE], "scope_start", 1)

start_scope ==
  /\ run.pc = "scope_start" /\ NoMail
  /\ \/ /\ run.cancelled /\ run' = Raise(run) /\ UNCHANGED scope /\ Calm
     \/ /\ ~run.cancelled /\ run' = To(run, "spawn", 1) /\ scope' = "on" /\ Calm
     \/ /\ ~run.cancelled /\ run' = Raise(run) /\ UNCHANGED scope /\ Fault("scope")
  /\ UNCHANGED <<uid, part, measured>>

start_participant ==
  /\ run.pc = "spawn" /\ NoMail /\ Calm
  /\ IF run.cancelled THEN run' = Raise(run) /\ UNCHANGED part
     ELSE run' = Step(run, "facts") /\ Become(run.i, [Unborn EXCEPT !.pc = "prepare"])
  /\ UNCHANGED <<uid, scope, measured>>

(* A failure that claims to have joined before the command raises.         *)
Early(r, m, next) ==
  IF m.tag = "failure" /\ m.ready THEN Raise([r EXCEPT !.failed = @ \cup {r.i}, !.join_started = TRUE])
  ELSE Step(IF m.tag = "failure" THEN [r EXCEPT !.failed = @ \cup {r.i}] ELSE r, next)

collect_facts ==
  /\ run.pc = "facts" /\ OwnerStep
  /\ LET Got(r, m) == Early(r, m, "gate_plan") IN receive(run.i, "facts", Got, Raise(run))

(* The facts of the participants may not make a plan.                      *)
gate_plan ==
  /\ run.pc = "gate_plan" /\ OwnerStep /\ NoMail
  /\ \/ Calm /\ run' = To(run, IF Unhurt(run) THEN "plan" ELSE "gate_join", 1)
     \/ Unhurt(run) /\ Fault("error") /\ run' = Raise(run)

send_plan ==
  /\ run.pc = "plan" /\ OwnerStep
  /\ send(run.i, "plan", Step(run, "prepared"), Raise(run))

collect_prepared ==
  /\ run.pc = "prepared" /\ OwnerStep
  /\ LET Got(r, m) == Early(r, m, "gate_join") IN receive(run.i, "prepared", Got, Raise(run))

gate_join ==
  /\ run.pc = "gate_join" /\ OwnerStep /\ NoMail /\ Calm
  /\ run' = IF Unhurt(run) THEN To([run EXCEPT !.join_started = TRUE], "join", 1)
            ELSE Retiring(run, "stop")

send_join ==
  /\ run.pc = "join" /\ OwnerStep
  /\ send(run.i, "join", Step(run, "joined"), Raise(run))

collect_joined ==
  /\ run.pc = "joined" /\ OwnerStep
  /\ LET Got(r, m) ==
           LET s == [r EXCEPT !.failed = IF m.tag = "failure" THEN @ \cup {r.i} ELSE @,
                              !.joined = IF m.tag = "failure" /\ ~m.ready THEN @ ELSE @ \cup {r.i}]
           IN  IF r.i = AtnCount + FfnCount /\ s.joined # Pes THEN Raise(s) ELSE Step(s, "gate_execute")
     IN  receive(run.i, "joined", Got, Raise(run))

gate_execute ==
  /\ run.pc = "gate_execute" /\ OwnerStep /\ NoMail /\ Calm
  /\ run' = IF Unhurt(run) THEN To(run, "execute", AtnCount + 1) ELSE Retiring(run, "finalize")

send_execute ==
  /\ run.pc = "execute" /\ OwnerStep
  /\ LET sent == Step(run, "execution") IN
     send(run.i, "execute", IF sent.pc = "execution" THEN To(sent, "execution", AtnCount + 1) ELSE sent,
          Raise(run))

Eligible(r, m) == r.eligible /\ (m.tag = "failure" => m.ready)

collect_execution ==
  /\ run.pc = "execution" /\ OwnerStep
  /\ LET Got(r, m) ==
           LET s == [r EXCEPT !.failed = IF m.tag = "failure" THEN @ \cup {r.i} ELSE @,
                              !.eligible = Eligible(r, m),
                              !.rows = IF m.tag = "failure" THEN @ ELSE @ \cup {r.i}]
           IN  IF r.i < AtnCount + FfnCount THEN Step(s, "execution")
               ELSE IF ~s.eligible THEN Raise(s) ELSE Retiring(s, "finalize")
     IN  receive(run.i, "execution", Got, Raise(run))

-----------------------------------------------------------------------------
(* retire_participants: every process is told, answers and exits.          *)

Lose(r) == record_failure([r EXCEPT !.failed = @ \cup {r.i}])

send_retirement ==
  /\ run.pc = "retire_send" /\ OwnerStep
  /\ IF run.command = "stop" /\ run.i \in run.failed
       THEN run' = RetireStep(run, "retire_ack") /\ NoMail /\ Calm
       ELSE send(run.i, run.command, RetireStep(run, "retire_ack"),
                 IF run.command = "stop" THEN RetireStep(Lose(run), "retire_ack") ELSE Raise(run))

collect_stopped ==
  /\ run.pc = "retire_ack" /\ OwnerStep
  /\ IF run.command = "stop" /\ run.i \in run.failed
       THEN run' = RetireStep(run, "retire_wait") /\ NoMail /\ Calm
       ELSE LET Got(r, m) ==
                  IF m.tag # "failure" THEN RetireStep(r, "retire_wait")
                  ELSE IF run.command = "stop" THEN RetireStep(Lose(r), "retire_wait")
                  ELSE Raise(Lose(r))
            IN  receive(run.i, "stopped", Got,
                        IF run.command = "stop" THEN RetireStep(Lose(run), "retire_wait") ELSE Raise(run))

(* Mutant: a process that has reported its failure is not waited for.      *)
ConfirmedByAnswers(r) == r.unconfirmed \subseteq r.failed

(* Only the exit of every process confirms the retirement.                 *)
Confirmed(r) == r.unconfirmed = {}

join_participant ==
  /\ run.pc = "retire_wait" /\ OwnerStep /\ NoMail /\ Calm
  /\ ~Alive(run.i) \/ run.expired
  /\ LET p == run.i
         bad == ~Alive(p) /\ part[p].code # 0 /\ ~(p \in run.failed /\ part[p].code = 1)
         r == IF Alive(p) THEN [run EXCEPT !.unconfirmed = @ \cup {p}]
              ELSE IF bad THEN record_failure(run) ELSE run
     IN  run' = IF bad /\ run.command = "finalize" THEN Raise(run)
                ELSE IF p < Cardinality(Spawned) THEN RetireStep(r, "retire_wait")
                ELSE IF ~Confirmed(r) THEN Raise(r)
                ELSE [r EXCEPT !.stopped = TRUE, !.pc = IF r.unwinding THEN "uid_stop" ELSE "result"]

build_world ==
  /\ run.pc = "result" /\ OwnerStep /\ NoMail /\ Calm
  /\ run' = IF ~Unhurt(run) THEN To(run, "cleanup", 1)
            ELSE IF run.rows # Ffns THEN Raise(run)
            ELSE To([run EXCEPT !.world = TRUE], "cleanup", 1)

(* The finally clause: a world that is not known to have ended is retained.*)
begin_cleanup ==
  /\ run.pc = "cleanup" /\ OwnerStep /\ NoMail /\ Calm
  /\ LET r == [run EXCEPT !.deadline = TRUE, !.unwinding = TRUE] IN
     run' = IF r.stopped THEN To(r, "uid_stop", 1)
            ELSE IF ~r.join_started /\ ~r.retirement_started THEN Retiring(r, "stop")
            ELSE [r EXCEPT !.pc = "retained"]

UidFailed(r) == IF r.uid_ready /\ uid = "dead" THEN record_failure(r) ELSE r

stop_uid ==
  /\ run.pc = "uid_stop" /\ NoMail /\ Calm
  /\ \/ /\ uid \in {"none", "stopped", "dead"}
        /\ run' = To(UidFailed(run), "scope_stop", 1) /\ UNCHANGED uid
     \/ /\ uid \in {"boot", "serving"} /\ ~run.uid_ready
        /\ \/ run' = To(run, "scope_stop", 1)
           \/ run.expired /\ run' = [run EXCEPT !.pc = "retained"]
        /\ uid' = "dead"
     \/ /\ uid = "serving" /\ run.uid_ready
        /\ run' = To(run, "uid_ack", 1) /\ uid' = "stopping"
  /\ UNCHANGED <<part, scope, measured>>

collect_uid_stopped ==
  /\ run.pc = "uid_ack" /\ OwnerStep /\ NoMail
  /\ \/ /\ ~run.expired /\ uid = "stopped" /\ Calm /\ run' = To(run, "scope_stop", 1)
     \/ /\ (run.expired \/ uid = "dead") /\ Calm /\ run' = [run EXCEPT !.pc = "retained"]
     \/ /\ ~run.expired /\ uid = "stopping" /\ Fault("timeout") /\ run' = [run EXCEPT !.pc = "retained"]

stop_scope ==
  /\ run.pc = "scope_stop" /\ NoMail
  /\ \/ run' = To(run, "ended", 1) /\ scope' = "off" /\ Calm
     \/ run' = [run EXCEPT !.pc = "retained"] /\ UNCHANGED scope /\ Fault("scope")
  /\ UNCHANGED <<uid, part, measured>>

Accepted(r) == Unhurt(r) /\ ~r.raised /\ r.world

(* run_world returns, and profile_ffn_memory goes on to the next world.    *)
next_world ==
  /\ run.pc = "ended" /\ Calm
  /\ IF Accepted(run) /\ measured + 1 < Worlds THEN World
     ELSE /\ run' = To(run, IF Accepted(run) THEN "returned" ELSE "raised", 1)
          /\ UNCHANGED <<uid, scope, part, up, down>>
  /\ measured' = IF Accepted(run) THEN measured + 1 ELSE measured

run_world ==
  \/ start_uid \/ receive_uid \/ start_scope \/ start_participant
  \/ collect_facts \/ gate_plan \/ send_plan \/ collect_prepared
  \/ gate_join \/ send_join \/ collect_joined
  \/ gate_execute \/ send_execute \/ collect_execution
  \/ send_retirement \/ collect_stopped \/ join_participant
  \/ build_world \/ begin_cleanup \/ stop_uid \/ collect_uid_stopped \/ stop_scope
  \/ next_world

-----------------------------------------------------------------------------
(* The UID owner, and what happens to a world from outside.                *)

uid_child ==
  /\ \/ uid = "boot" /\ uid' = "serving" /\ Calm
     \/ uid = "stopping" /\ uid' = "stopped" /\ Calm
     \/ uid \in {"boot", "serving", "stopping"} /\ uid' = "dead" /\ Fault("uid")
  /\ UNCHANGED <<run, part, up, down, scope, measured>>

Over == {"ended", "returned", "raised", "retained"}

record_cancellation ==
  /\ run.pc \notin Over /\ ~run.cancelled
  /\ run' = [run EXCEPT !.cancelled = TRUE, !.deadline = TRUE]
  /\ Fault("cancel") /\ NoMail /\ UNCHANGED <<uid, part, scope, measured>>

deadline_passes ==
  /\ run.pc \notin Over /\ run.deadline /\ ~run.expired
  /\ run' = [run EXCEPT !.expired = TRUE]
  /\ Calm /\ NoMail /\ UNCHANGED <<uid, part, scope, measured>>

ProfileNext ==
  \/ run_world \/ uid_child \/ record_cancellation \/ deadline_passes
  \/ \E p \in Pes : \/ participant_child(p) \/ participant_raises(p)
                    \/ sample_loop_fails(p) \/ participant_dies(p)

ProfileSpec == ProfileInit /\ [][ProfileNext]_profileVars

-----------------------------------------------------------------------------
(***************************************************************************)
(* The MPS scope of a world outlives every process that may be its client: *)
(* it is stopped only after all participants and the UID owner have gone,  *)
(* whatever failed, was cancelled or timed out on the way.                 *)
(***************************************************************************)
ScopeStoppedLast ==
  scope = "off" => (\A p \in Pes : ~Alive(p)) /\ uid \notin {"boot", "serving", "stopping"}

(***************************************************************************)
(* Finalization is collective: once one participant has begun it, every    *)
(* other one that runs has joined and has no work outstanding.  A world    *)
(* that was joined in part is never finalized.                             *)
(***************************************************************************)
FinalizedTogether ==
  \A p, q \in Pes : part[p].finalize_started /\ Alive(q) =>
    part[q].joined /\ part[q].pc # "execute"

(***************************************************************************)
(* A world that is accepted was measured whole: every FFN device reported, *)
(* every participant left the collective and exited well, and nothing of   *)
(* the world is left.                                                      *)
(***************************************************************************)
AcceptedWhole ==
  run.pc = "ended" /\ Accepted(run) =>
    /\ run.rows = Ffns /\ scope = "off" /\ uid = "stopped"
    /\ \A p \in Pes : part[p].pc = "exited" /\ part[p].code = 0 /\ part[p].finalized
=============================================================================
