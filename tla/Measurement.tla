---------------------------- MODULE Measurement -----------------------------
(***************************************************************************)
(* One measured repetition (xbench/harness/serving/client.py) and its      *)
(* finalization by the runner that outlives it (runner.py).  The worker    *)
(* process runs a producer, InFlight senders and an observer in one task   *)
(* group: the first task that fails cancels the others.  req is how far    *)
(* each planned request has come, log its lines in requests.jsonl, window  *)
(* the kind sealed in repetition.json, torn the evidence files that a      *)
(* failed write or a crash has damaged.  What a response says is its       *)
(* outcome, and time is left out.                                          *)
(***************************************************************************)
EXTENDS Naturals, Sequences, FiniteSets, FiniteSetsExt

CONSTANTS Requests,              \* a sequence: the scheduled requests, in arrival order
          InFlight,              \* max_inflight
          MaxFaults, Faults

Planned == {Requests[k] : k \in DOMAIN Requests}
Signalled == 130
Killed == 9

VARIABLES group, req, queue, unfinished, log, window, torn, verdict, faults

measureVars == <<group, req, queue, unfinished, log, window, torn, verdict, faults>>

MeasurementInit ==
  /\ group = [pc |-> "run", producer |-> 1, lost |-> FALSE, failed |-> FALSE, code |-> 0]
  /\ req = [r \in Planned |-> "planned"] /\ queue = <<>> /\ unfinished = 0
  /\ log = [r \in Planned |-> <<>>] /\ window = "none" /\ torn = {} /\ verdict = "none" /\ faults = 0

Fault(kind) == kind \in Faults /\ faults < MaxFaults /\ faults' = faults + 1
Calm == UNCHANGED faults

In(s) == {r \in Planned : req[r] = s}
Sealing == Len(Requests) + 1     \* the producer has seen the queue drained
Done == Len(Requests) + 2
Live == group.pc \in {"run", "raised", "cancel"}
Sending == In("sent") \cup In("closing") \cup In("raising")

(* Before its first cancellation is delivered a task still takes the step  *)
(* it was scheduled for.                                                   *)
Going == group.pc \in {"run", "raised"}
Raised(g) == IF g.pc = "run" THEN [g EXCEPT !.pc = "raised", !.code = 2] ELSE g

-----------------------------------------------------------------------------
(* The recorder.  A write that fails leaves a damaged file and is never    *)
(* repeated; a window is sealed once as complete.                          *)

seal_window(kind) == window' = IF window = "complete" THEN window ELSE kind

Record(r, outcome) == log' = [log EXCEPT ![r] = Append(@, outcome)]

-----------------------------------------------------------------------------
(* produce.                                                                *)

Interrupt(g) == [g EXCEPT !.producer = Done]

produce_request ==
  /\ Going /\ group.producer \in DOMAIN Requests
  /\ LET r == Requests[group.producer] IN
     \/ /\ req' = [req EXCEPT ![r] = "queued"] /\ queue' = Append(queue, r) /\ unfinished' = unfinished + 1
        /\ group' = [group EXCEPT !.producer = @ + 1]
        /\ UNCHANGED <<window, torn>> /\ Calm
     \/ /\ Fault("record") /\ torn' = torn \cup {"events"} /\ seal_window("interrupted")
        /\ group' = [Interrupt(Raised(group)) EXCEPT !.lost = TRUE]
        /\ UNCHANGED <<req, queue, unfinished>>
  /\ UNCHANGED <<log, verdict>>

(* queue.join returned: the step it wakes comes before the cancellation    *)
(* that the last sender's own failure causes.                              *)
produce_end ==
  /\ Going /\ group.producer = Sealing
  /\ unfinished = 0
  /\ seal_window("complete") /\ group' = [group EXCEPT !.producer = Done]
  /\ UNCHANGED <<req, queue, unfinished, log, torn, verdict>> /\ Calm

produce_cancelled ==
  /\ group.pc = "cancel" /\ group.producer # Done
  /\ seal_window("interrupted") /\ group' = Interrupt(group)
  /\ UNCHANGED <<req, queue, unfinished, log, torn, verdict>> /\ Calm

-----------------------------------------------------------------------------
(* work and send_request.                                                  *)

take_request ==
  /\ Going /\ queue # <<>> /\ Cardinality(Sending) < InFlight
  /\ queue' = Tail(queue)
  /\ \/ /\ req' = [req EXCEPT ![Head(queue)] = "sent"]
        /\ UNCHANGED <<group, unfinished, torn>> /\ Calm
     \/ /\ Fault("record") /\ torn' = torn \cup {"events"}
        /\ req' = [req EXCEPT ![Head(queue)] = "lost"] /\ unfinished' = unfinished - 1
        /\ group' = [Raised(group) EXCEPT !.lost = TRUE]
  /\ UNCHANGED <<log, window, verdict>>

(* The terminal record is flushed before the response is closed.           *)
Terminate(r, outcome) ==
  \/ /\ Record(r, outcome) /\ req' = [req EXCEPT ![r] = "closing"]
     /\ UNCHANGED <<group, unfinished, torn>> /\ Calm
  \/ /\ Fault("record")
     /\ \E file \in {"events", "requests"} : torn' = torn \cup {file}
     /\ req' = [req EXCEPT ![r] = "lost"] /\ unfinished' = unfinished - 1
     /\ group' = [Raised(group) EXCEPT !.lost = TRUE] /\ UNCHANGED log

respond(r) ==
  /\ Going /\ req[r] = "sent"
  /\ \E outcome \in {"success", "failed"} : Terminate(r, outcome)
  /\ UNCHANGED <<queue, window, verdict>>

cancel_request(r) ==
  /\ group.pc = "cancel" /\ req[r] = "sent" /\ Terminate(r, "cancelled")
  /\ UNCHANGED <<queue, window, verdict>>

(* An exception that send_request does not handle leaves no record.        *)
send_raises(r) ==
  /\ Going /\ req[r] = "sent" /\ req' = [req EXCEPT ![r] = "raising"]
  /\ UNCHANGED <<group, queue, unfinished, log, window, torn, verdict>> /\ Fault("send")

(* aclose, then task_done.  A close that fails fails the sender, and so    *)
(* does the exception that led to it.                                      *)
close_response(r) ==
  /\ Live /\ req[r] \in {"closing", "raising"} /\ unfinished' = unfinished - 1
  /\ req' = [req EXCEPT ![r] = IF @ = "closing" THEN "done" ELSE "broken"]
  /\ \/ req[r] = "closing" /\ UNCHANGED group /\ Calm
     \/ req[r] = "closing" /\ group' = Raised(group) /\ Fault("close")
     \/ req[r] = "raising" /\ group' = Raised(group) /\ Calm
  /\ UNCHANGED <<queue, log, window, torn, verdict>>

-----------------------------------------------------------------------------
(* The group.                                                              *)

observe_system ==
  /\ group.pc = "run" /\ window # "complete" /\ Fault("system")
  /\ group' = Raised(group)
  /\ UNCHANGED <<req, queue, unfinished, log, window, torn, verdict>>

deliver_cancellation ==
  /\ group.pc = "raised" /\ group' = [group EXCEPT !.pc = "cancel"]
  /\ UNCHANGED <<req, queue, unfinished, log, window, torn, verdict>> /\ Calm

signal_worker ==
  /\ group.pc = "run" /\ Fault("signal")
  /\ group' = [group EXCEPT !.pc = "cancel", !.code = Signalled]
  /\ UNCHANGED <<req, queue, unfinished, log, window, torn, verdict>>

group_ends ==
  /\ Live /\ group.producer = Done /\ Sending = {}
  /\ group.pc # "run" \/ window = "complete"
  /\ group' = [group EXCEPT !.pc = "account"]
  /\ UNCHANGED <<req, queue, unfinished, log, window, torn, verdict>> /\ Calm

(* Every request that is not accounted for gets its record, unless the     *)
(* recorder has lost one.                                                  *)
account(r) ==
  /\ group.pc = "account" /\ ~group.lost /\ log[r] = <<>>
  /\ \/ Record(r, IF req[r] \in {"planned", "queued"} THEN "not_sent" ELSE "missing")
        /\ UNCHANGED <<group, torn>> /\ Calm
     \/ /\ Fault("record") /\ torn' = torn \cup {"requests"} /\ UNCHANGED log
        /\ group' = [group EXCEPT !.pc = "exited", !.lost = TRUE, !.code = IF @ = Signalled THEN @ ELSE 2]
  /\ UNCHANGED <<req, queue, unfinished, window, verdict>>

worker_exits ==
  /\ group.pc = "account" /\ (group.lost \/ \A r \in Planned : log[r] # <<>>)
  /\ group' = [group EXCEPT !.pc = "exited"]
  /\ UNCHANGED <<req, queue, unfinished, log, window, torn, verdict>> /\ Calm

(* What was flushed survives; the buffered tail of a file may be cut.      *)
worker_dies ==
  /\ group.pc \in {"run", "raised", "cancel", "account"} /\ Fault("crash")
  /\ \E cut \in SUBSET {"events", "requests"} : torn' = torn \cup cut
  /\ group' = [group EXCEPT !.pc = "exited", !.code = Killed]
  /\ UNCHANGED <<req, queue, unfinished, log, window, verdict>>

-----------------------------------------------------------------------------
(* finalize_repetition, in the runner.                                     *)

Missing == {r \in Planned : log[r] = <<>>}

(* Records that lie beyond the damage, or that the retained events do not  *)
(* prove, are replaced.                                                    *)
Unproved == IF torn = {} THEN {{}} ELSE SUBSET (Planned \ Missing)

Reconciled(replaced) ==
  [r \in Planned |-> IF r \in Missing \cup replaced THEN <<"missing">> ELSE log[r]]

Damaged == torn # {} \/ Missing # {} \/ group.code \notin {0, Signalled} \/ window # "complete"

finalize_repetition ==
  /\ group.pc = "exited" /\ verdict = "none" /\ Calm
  /\ \E replaced \in Unproved : log' = Reconciled(replaced)
  /\ verdict' = IF group.code = Signalled THEN "signalled"
                ELSE IF Damaged THEN "infrastructure"
                ELSE IF \E r \in Planned : log[r] # <<"success">> THEN "failures" ELSE "success"
  /\ UNCHANGED <<group, req, queue, unfinished, window, torn>>

MeasurementNext ==
  \/ produce_request \/ produce_end \/ produce_cancelled \/ take_request
  \/ \E r \in Planned : respond(r) \/ cancel_request(r) \/ send_raises(r) \/ close_response(r) \/ account(r)
  \/ observe_system \/ deliver_cancellation \/ signal_worker \/ group_ends
  \/ worker_exits \/ worker_dies \/ finalize_repetition

MeasurementSpec == MeasurementInit /\ [][MeasurementNext]_measureVars

-----------------------------------------------------------------------------
(***************************************************************************)
(* However the worker ends, each planned request has one terminal record   *)
(* when the repetition is sealed, and never more than one.                 *)
(***************************************************************************)
Accounted ==
  \A r \in Planned : Len(log[r]) <= 1 /\ (verdict # "none" => Len(log[r]) = 1)

(***************************************************************************)
(* Only a measurement that ran to its end has a verdict on its requests:   *)
(* success and failures mean that the window is complete and that every    *)
(* request was sent and answered.                                          *)
(***************************************************************************)
VerdictMeasured ==
  verdict \in {"success", "failures"} =>
    /\ window = "complete"
    /\ \A r \in Planned : req[r] = "done" /\ log[r][1] \in {"success", "failed"}

(***************************************************************************)
(* A window is complete only when no request waits to be sent or answered, *)
(* even if the last sender has failed.                                     *)
(***************************************************************************)
WindowComplete == window = "complete" => \A r \in Planned : req[r] \in {"done", "lost", "broken"}
=============================================================================
