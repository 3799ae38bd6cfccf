------------------------------ MODULE BenchRun ------------------------------
(***************************************************************************)
(* A benchmark invocation and its continuations                            *)
(* (xbench/harness/serving/runner.py) over a durable result entry          *)
(* (xkit/results.py).  disk is what survives: the physical attempts of     *)
(* each repetition, the effective attempt that case.json names, the cases  *)
(* prepared, run.json, and the completion marker.  run is the process that *)
(* holds the entry; it may die between any two writes, and a later one     *)
(* continues from disk.  lock is the entry's lock, which retention cleanup *)
(* takes too.  A repetition is a case and a number; how a worker measures  *)
(* is its exit code and the state of its evidence.                         *)
(***************************************************************************)
EXTENDS Naturals, Sequences, FiniteSets, FiniteSetsExt

CONSTANTS Cases,                 \* a sequence: the selected cases
          Repetitions,           \* repetitions of each case
          MaxRuns,               \* invocations of the tool on the entry
          MaxFaults, Faults

CaseSet == {Cases[k] : k \in DOMAIN Cases}
Tasks == CaseSet \X (1..Repetitions)

Cancelled == 130
Unset == 255

VARIABLES disk, run, lock, runs, faults

benchVars == <<disk, run, lock, runs, faults>>

Idle == [pc |-> "off", case |-> 1, task |-> <<>>, result |-> 0, cancelled |-> FALSE, aborting |-> FALSE,
         open |-> TRUE, queue |-> {}, active |-> {}, retained |-> FALSE, skipped |-> {}, fast_fail |-> FALSE]

BenchInit ==
  /\ disk = [exists |-> FALSE, attempts |-> [t \in Tasks |-> <<>>], effective |-> [t \in Tasks |-> 0],
             prepared |-> {}, finished |-> FALSE, code |-> Unset, completed |-> FALSE]
  /\ run = Idle /\ lock = "free" /\ runs = 0 /\ faults = 0

Fault(kind) == kind \in Faults /\ faults < MaxFaults /\ faults' = faults + 1
Calm == UNCHANGED faults
Steady == UNCHANGED <<lock, runs>>
Unsealed == [sealed |-> FALSE, code |-> Unset, whole |-> FALSE]
Higher(a, b) == IF a > b THEN a ELSE b

-----------------------------------------------------------------------------
(* The entry.  start and acquire hold the cleanup lock while they take the *)
(* entry's own, so neither overlaps a cleanup.                             *)

start_run ==
  /\ run.pc = "off" /\ ~disk.exists /\ runs = 0 /\ lock = "free"
  /\ disk' = [disk EXCEPT !.exists = TRUE] /\ lock' = "runner" /\ runs' = 1
  /\ \E fast \in BOOLEAN : run' = [Idle EXCEPT !.pc = "init", !.fast_fail = fast]
  /\ Calm

begin_cleanup ==
  /\ disk.exists /\ lock = "free" /\ lock' = "cleanup"
  /\ UNCHANGED <<disk, run, runs>> /\ Fault("cleanup")

end_cleanup ==
  /\ lock = "cleanup" /\ lock' = "free"
  /\ \E removed \in BOOLEAN : disk' = [disk EXCEPT !.exists = ~removed]
  /\ UNCHANGED <<run, runs>> /\ Calm

-----------------------------------------------------------------------------
(* continue_benchmarks.                                                    *)

Attempted == {t \in Tasks : disk.effective[t] # 0}
Effective(t) == disk.attempts[t][disk.effective[t]]

(* Mutant: a sealed attempt with whole evidence is kept whatever its code. *)
ReusableWhenSealed(a) == a.sealed /\ a.whole

Reusable(a) == a.sealed /\ a.code = 0 /\ a.whole

RetainedCode(a) ==
  LET code == IF a.sealed /\ a.code # 0 THEN a.code ELSE 2
  IN  IF a.sealed /\ a.whole THEN code ELSE Higher(code, 2)

continue_benchmarks(rerun, fast) ==
  /\ run.pc = "off" /\ disk.exists /\ lock = "free" /\ 0 < runs /\ runs < MaxRuns
  /\ disk.prepared = CaseSet
  /\ LET reusable == {t \in Attempted : Reusable(Effective(t))}
         skipped == IF rerun THEN reusable ELSE Attempted
         codes == {RetainedCode(Effective(t)) : t \in skipped \ reusable}
     IN  /\ ~(reusable = Tasks /\ disk.finished /\ disk.code = 0 /\ disk.completed)
         /\ run' = [Idle EXCEPT !.pc = "reopen", !.fast_fail = fast, !.skipped = skipped,
                                !.result = Max(codes \cup {0})]
  /\ lock' = "runner" /\ runs' = runs + 1
  /\ UNCHANGED disk /\ Calm

reopen ==
  /\ run.pc = "reopen" /\ run' = [run EXCEPT !.pc = "init"]
  /\ disk' = [disk EXCEPT !.completed = FALSE]
  /\ Steady /\ Calm

-----------------------------------------------------------------------------
(* BenchmarkRunner.                                                        *)

write_run ==
  /\ run.pc = "init" /\ run' = [run EXCEPT !.pc = "prepare"]
  /\ disk' = [disk EXCEPT !.finished = FALSE, !.code = Unset]
  /\ Steady /\ Calm

(* The next repetition of a case that is not skipped.                      *)
Following(c, after, skipped) ==
  LET left == {<<c, n>> : n \in (after + 1)..Repetitions} \ skipped
  IN  IF left = {} THEN {} ELSE {<<c, Min({t[2] : t \in left})>>}

(* TaskScheduler.stop_admission drops what is queued.                      *)
Closing(r) == [r EXCEPT !.open = FALSE, !.queue = {}]

(* A case is prepared unless it was before, and its first repetition is    *)
(* queued.                                                                 *)
prepare_case ==
  /\ run.pc = "prepare" /\ Steady
  /\ LET c == Cases[run.case] IN
     \/ /\ run.case > Len(Cases) \/ ~run.open
        /\ run' = [run EXCEPT !.pc = "loop"] /\ UNCHANGED disk /\ Calm
     \/ /\ run.case <= Len(Cases) /\ run.open /\ Calm
        /\ disk' = [disk EXCEPT !.prepared = @ \cup {c}]
        /\ run' = [run EXCEPT !.case = @ + 1, !.queue = @ \cup Following(c, 0, run.skipped)]
     \/ /\ run.case <= Len(Cases) /\ run.open /\ Fault("prepare")
        /\ run' = [Closing(run) EXCEPT !.pc = "loop", !.result = 2] /\ UNCHANGED disk

(* start_repetition: a fresh attempt, its reference, then the worker.      *)
make_attempt ==
  /\ run.pc = "loop" /\ run.open /\ Steady /\ Calm
  /\ \E t \in run.queue :
       /\ run' = [run EXCEPT !.pc = "refer", !.task = t, !.queue = @ \ {t}]
       /\ disk' = [disk EXCEPT !.attempts[t] = Append(@, Unsealed)]

refer_to_attempt ==
  /\ run.pc = "refer" /\ run' = [run EXCEPT !.pc = "launch"]
  /\ disk' = [disk EXCEPT !.effective[run.task] = Len(disk.attempts[run.task])]
  /\ Steady /\ Calm

Seal(t, code, whole) ==
  disk' = [disk EXCEPT !.attempts[t][Len(disk.attempts[t])] =
             [sealed |-> TRUE, code |-> code, whole |-> whole]]

(* What follows a repetition that has ended: with fast-fail an unsuccessful*)
(* one ends admission, otherwise the case goes on while admission is open. *)
Progress(t, code) ==
  LET r == [run EXCEPT !.result = Higher(@, code), !.active = @ \ {t}, !.pc = "loop", !.task = <<>>]
  IN  IF run.fast_fail /\ code # 0 THEN Closing(r)
      ELSE IF ~run.open THEN r
      ELSE [r EXCEPT !.queue = @ \cup Following(t[1], t[2], run.skipped)]

(* An error ends the run, and what is active is retired first.             *)
Abort(r) == [Closing(r) EXCEPT !.pc = "loop", !.task = <<>>, !.result = 2, !.aborting = TRUE]

(* The worker starts; it is known not to have started; or its domain and   *)
(* its devices are retained.                                               *)
launch_worker ==
  /\ run.pc = "launch" /\ Steady
  /\ \/ /\ run' = [run EXCEPT !.pc = "loop", !.task = <<>>, !.active = @ \cup {run.task}]
        /\ UNCHANGED disk /\ Calm
     \/ Seal(run.task, 2, FALSE) /\ run' = Progress(run.task, 2) /\ Fault("start")
     \/ UNCHANGED disk /\ run' = [Abort(run) EXCEPT !.retained = TRUE] /\ Fault("unsafe")

(* finalize_repetition's verdict: a signal, a loss, a failed request, or   *)
(* success.                                                                *)
Verdict(worker, evidence) ==
  IF worker = Cancelled THEN Cancelled
  ELSE IF worker # 0 \/ evidence = "damaged" THEN 2
  ELSE IF evidence = "failures" THEN 1 ELSE 0

complete_repetition(t) ==
  /\ run.pc = "loop" /\ t \in run.active /\ Steady
  /\ \E worker \in {0, 2, Cancelled}, evidence \in {"success", "failures", "damaged"} :
       /\ IF \/ worker = 0 /\ evidence = "success"
             \/ worker = Cancelled /\ run.cancelled
             \/ worker = 2 /\ run.aborting
            THEN Calm ELSE Fault("worker")
       /\ Seal(t, Verdict(worker, evidence), evidence # "damaged")
       /\ run' = Progress(t, Verdict(worker, evidence))

finalize_raises(t) ==
  /\ run.pc = "loop" /\ t \in run.active
  /\ run' = [Abort(run) EXCEPT !.active = @ \ {t}]
  /\ UNCHANGED disk /\ Steady /\ Fault("raise")

(* A domain that cannot be drained stays active.                           *)
drain_fails ==
  /\ run.pc = "loop" /\ run.active # {} /\ (run.cancelled \/ run.aborting)
  /\ run' = [run EXCEPT !.pc = "finish", !.result = 2]
  /\ UNCHANGED disk /\ Steady /\ Fault("unsafe")

request_cancel ==
  /\ run.pc \in {"init", "prepare", "loop", "refer", "launch"} /\ ~run.cancelled
  /\ run' = [Closing(run) EXCEPT !.cancelled = TRUE]
  /\ UNCHANGED disk /\ Steady /\ Fault("cancel")

end_loop ==
  /\ run.pc = "loop" /\ run.active = {} /\ run.queue = {}
  /\ run' = [run EXCEPT !.pc = "finish"]
  /\ UNCHANGED disk /\ Steady /\ Calm

(* The run is finished only if all its resources can be released.  A write *)
(* that fails leaves the run.json of write_run, and the entry is completed *)
(* all the same.                                                           *)
finish_run ==
  /\ run.pc = "finish" /\ Steady
  /\ LET safe == run.active = {} /\ ~run.retained IN
     /\ \/ /\ disk' = [disk EXCEPT !.finished = safe, !.code = IF run.cancelled THEN Cancelled ELSE run.result]
           /\ Calm
        \/ UNCHANGED disk /\ Fault("write")
     /\ run' = [run EXCEPT !.pc = IF safe THEN "mark" ELSE "abandon"]

complete_entry ==
  /\ run.pc \in {"mark", "abandon"} /\ run' = Idle /\ lock' = "free"
  /\ disk' = [disk EXCEPT !.completed = run.pc = "mark"]
  /\ UNCHANGED runs /\ Calm

runner_dies ==
  /\ run.pc # "off" /\ run' = Idle /\ lock' = "free"
  /\ UNCHANGED <<disk, runs>> /\ Fault("crash")

BenchNext ==
  \/ start_run \/ begin_cleanup \/ end_cleanup
  \/ \E rerun, fast \in BOOLEAN : continue_benchmarks(rerun, fast)
  \/ reopen \/ write_run \/ prepare_case \/ make_attempt \/ refer_to_attempt \/ launch_worker
  \/ \E t \in Tasks : complete_repetition(t) \/ finalize_raises(t)
  \/ drain_fails \/ request_cancel \/ end_loop \/ finish_run \/ complete_entry \/ runner_dies

BenchSpec == BenchInit /\ [][BenchNext]_benchVars

-----------------------------------------------------------------------------
(***************************************************************************)
(* A run that is recorded as finished with code 0 is a success in every    *)
(* selected repetition, over however many interrupted invocations: each    *)
(* has an effective attempt that was sealed with code 0 on whole evidence. *)
(***************************************************************************)
VerdictWhole ==
  disk.finished /\ disk.code = 0 =>
    Attempted = Tasks /\ \A t \in Tasks : Effective(t) = [sealed |-> TRUE, code |-> 0, whole |-> TRUE]

(***************************************************************************)
(* A success is final: no attempt follows a successful one, and it stays   *)
(* the effective one.                                                      *)
(***************************************************************************)
SuccessFinal ==
  \A t \in Tasks : \A k \in DOMAIN disk.attempts[t] :
    LET a == disk.attempts[t][k] IN
    a.sealed /\ a.code = 0 => k = Len(disk.attempts[t]) /\ k = disk.effective[t]

(***************************************************************************)
(* The completion marker says that a run has released all it held, not     *)
(* that run.json is final: beside it stands a finished run.json, or, when  *)
(* the last write of that file failed, one without a result code, which a  *)
(* report refuses (retained_repetitions); never the code of a run that     *)
(* retained resources, and never an entry in use.  An entry in use is      *)
(* neither removed nor shared.                                             *)
(***************************************************************************)
MarkerHonest ==
  /\ disk.completed => (disk.finished \/ disk.code = Unset) /\ run.pc \in {"off", "reopen"}
  /\ run.pc # "off" => disk.exists /\ lock = "runner"
=============================================================================
