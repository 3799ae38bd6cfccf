----------------------------- MODULE Transport -----------------------------
(***************************************************************************)
(* The rank-local Transport between Instance ranks and their AtnAgent.      *)
(*                                                                         *)
(* Every arena holds one single-producer/single-consumer mailbox.  On one  *)
(* side runs the Instance's request kernel, a synchronous call per FFN      *)
(* layer; on the other one block per arena of the AtnAgent's cooperative    *)
(* Resident kernel, which serves requests through Fabric until it drains.   *)
(* Each action is one access to memory that the two sides share.            *)
(***************************************************************************)
EXTENDS Naturals

CONSTANTS
    Arenas,         \* the arenas of one AtnAgent, one per Instance
    MaxCalls,       \* bound on the FFN calls through each arena
    Faults          \* what may go wrong at each arena

AllFaults == {"crash", "timeout", "fabric", "reject"}

ASSUME CallsAssumption == MaxCalls \in [Arenas -> Nat]
ASSUME FaultsAssumption == Faults \in [Arenas -> SUBSET AllFaults]

VARIABLES
    (* each arena *)
    status, result_code, request,       \* its Mailbox
    output_payload, generation_failure_code, shutdown,
    (* the AtnAgent process *)
    drain_requested,                    \* ResidentState, shared by all blocks
    block, result,                      \* each block's pc and register
    host,                               \* where the AtnAgent's host code is
    fabric_failure,                     \* the canonical failure at this PE
    (* each Instance rank *)
    caller, call, returned, output, aborted

mailboxVars == <<status, result_code, request>>
arenaVars == <<mailboxVars, output_payload, generation_failure_code, shutdown>>
residentVars == <<drain_requested, block, result>>
instanceVars == <<caller, call, returned, output, aborted>>
vars == <<arenaVars, residentVars, host, fabric_failure, instanceVars>>

MailboxStatus == {"Dormant", "Idle", "Staging", "Published", "Evaluated", "Closed"}
Codes == {"ProtocolMismatch", "Timeout"}
ResultCode == Codes \cup {"Ok", "Shutdown"}

Init ==
    /\ status = [a \in Arenas |-> "Dormant"]
    /\ result_code = [a \in Arenas |-> "Ok"]
    /\ request = [a \in Arenas |-> 0]
    /\ output_payload = [a \in Arenas |-> 0]
    /\ generation_failure_code = [a \in Arenas |-> "Ok"]
    /\ shutdown = [a \in Arenas |-> FALSE]
    /\ drain_requested = FALSE
    /\ block = [a \in Arenas |-> "none"]
    /\ result = [a \in Arenas |-> "none"]
    /\ host = "created"
    /\ fabric_failure = "Ok"
    /\ caller = [a \in Arenas |-> "attaching"]
    /\ call = [a \in Arenas |-> 0]
    /\ returned = [a \in Arenas |-> "Ok"]
    /\ output = [a \in Arenas |-> 0]
    /\ aborted = [a \in Arenas |-> "no"]

Set(f, a, v) == [f EXCEPT ![a] = v]

-----------------------------------------------------------------------------
(* The Instance's request kernel. *)

At(a, pc) == caller[a] = pc
Goto(a, pc) == caller' = Set(caller, a, pc) /\ UNCHANGED <<call, returned, output, aborted>>

\* The kernel ends; every failure fills the output with NaN.
Return(a, code) ==
    /\ caller' = Set(caller, a, "ready")
    /\ returned' = Set(returned, a, code)
    /\ UNCHANGED <<call, output, aborted>>

\* abort_if: the device traps and the Instance process is lost.
Abort(a, why) ==
    /\ caller' = Set(caller, a, "trapped")
    /\ aborted' = Set(aborted, a, why)
    /\ UNCHANGED <<call, returned, output>>

agentVars == <<residentVars, host, fabric_failure>>
failed(a) == generation_failure_code[a] # "Ok"

\* Attachment::attach waits for Idle and rejects anything later.
attach(a) ==
    /\ At(a, "attaching") /\ status[a] # "Dormant"
    /\ Goto(a, IF status[a] = "Idle" THEN "ready" ELSE "detached")
    /\ UNCHANGED <<arenaVars, agentVars>>

\* Attachment::detach synchronizes the device first: no kernel is running.
detach(a) ==
    /\ At(a, "ready") /\ Goto(a, "detached")
    /\ UNCHANGED <<arenaVars, agentVars>>

\* The process is lost, and its mailbox stays as it is.
crash(a) ==
    /\ "crash" \in Faults[a] /\ caller[a] \notin {"detached", "dead"}
    /\ Goto(a, "dead")
    /\ UNCHANGED <<arenaVars, agentVars>>

submit(a) ==
    /\ At(a, "ready") /\ call[a] < MaxCalls[a]
    /\ caller' = Set(caller, a, "claim_failure")
    /\ call' = Set(call, a, call[a] + 1)
    /\ returned' = Set(returned, a, "pending")
    /\ UNCHANGED <<output, aborted, arenaVars, agentVars>>

\* Phase Claim.
claim(a) ==
    /\ \/ /\ At(a, "claim_failure")
          /\ IF failed(a) THEN Return(a, generation_failure_code[a])
                          ELSE Goto(a, "claim_shutdown")
          /\ UNCHANGED status
       \/ /\ At(a, "claim_shutdown")
          /\ IF shutdown[a] THEN Return(a, "Shutdown")
                            ELSE Goto(a, "try_begin_staging")
          /\ UNCHANGED status
       \/ /\ At(a, "try_begin_staging")
          /\ IF status[a] = "Idle"
             THEN status' = Set(status, a, "Staging") /\ Goto(a, "stage")
             ELSE UNCHANGED status /\ Goto(a, "terminal")
    /\ UNCHANGED <<result_code, request, output_payload,
                   generation_failure_code, shutdown, agentVars>>

\* The mailbox was not Idle: it must be Closed, and for a published reason.
claim_terminal(a) ==
    /\ \/ /\ At(a, "terminal")
          /\ IF status[a] = "Closed" THEN Goto(a, "terminal_failure")
                                     ELSE Abort(a, "status")
       \/ /\ At(a, "terminal_failure")
          /\ IF failed(a) THEN Return(a, generation_failure_code[a])
                          ELSE Goto(a, "terminal_shutdown")
       \/ /\ At(a, "terminal_shutdown")
          /\ IF shutdown[a] THEN Return(a, "Shutdown")
                            ELSE Abort(a, "unexplained")
    /\ UNCHANGED <<arenaVars, agentVars>>

\* Phase Stage: the payload, then rows and metadata.
stage(a) ==
    /\ At(a, "stage") /\ Goto(a, "publish_failure")
    /\ request' = Set(request, a, call[a])
    /\ UNCHANGED <<status, result_code, output_payload,
                   generation_failure_code, shutdown, agentVars>>

\* Phase Publish.
publish_check(a) ==
    /\ \/ /\ At(a, "publish_failure")
          /\ Goto(a, IF failed(a) THEN "close_failed" ELSE "publish_shutdown")
       \/ /\ At(a, "publish_shutdown")
          /\ Goto(a, IF shutdown[a] THEN "close_shutdown" ELSE "publish_request")
    /\ UNCHANGED <<arenaVars, agentVars>>

close_staging(a) ==
    /\ caller[a] \in {"close_failed", "close_shutdown"}
    /\ LET code == IF At(a, "close_failed") THEN generation_failure_code[a]
                                            ELSE "Shutdown"
       IN /\ result_code' = Set(result_code, a, code)
          /\ IF status[a] = "Staging"
             THEN status' = Set(status, a, "Closed") /\ Return(a, code)
             ELSE UNCHANGED status /\ Abort(a, "status")
    /\ UNCHANGED <<request, output_payload, generation_failure_code, shutdown,
                   agentVars>>

publish_request(a) ==
    /\ At(a, "publish_request")
    /\ IF status[a] = "Staging"
       THEN status' = Set(status, a, "Published") /\ Goto(a, "evaluate")
       ELSE UNCHANGED status /\ Abort(a, "status")
    /\ UNCHANGED <<result_code, request, output_payload,
                   generation_failure_code, shutdown, agentVars>>

\* Phase Evaluate: wait for the result, or for the deadline.
evaluate(a) ==
    /\ At(a, "evaluate") /\ status[a] \in {"Evaluated", "Closed"}
    /\ IF status[a] = "Evaluated" THEN Goto(a, "result") ELSE Abort(a, "status")
    /\ UNCHANGED <<arenaVars, agentVars>>

time_out(a) ==
    /\ "timeout" \in Faults[a] /\ At(a, "evaluate") /\ Goto(a, "timed_out")
    /\ UNCHANGED <<arenaVars, agentVars>>

timed_out(a) ==
    /\ At(a, "timed_out")
    /\ IF failed(a) THEN Return(a, generation_failure_code[a])
                    ELSE Abort(a, "timeout")
    /\ UNCHANGED <<arenaVars, agentVars>>

\* The code that the kernel goes by: a canonical failure replaces any failure.
observed_result(a) ==
    IF result_code[a] = "Ok" \/ ~failed(a) THEN result_code[a]
    ELSE generation_failure_code[a]

\* Faulty: the output is not copied.
ObserveWithoutCopy(a) ==
    /\ At(a, "result")
    /\ IF observed_result(a) = "Ok" THEN Goto(a, "check_shutdown")
       ELSE /\ caller' = Set(caller, a, "close_evaluated")
            /\ returned' = Set(returned, a, observed_result(a))
            /\ UNCHANGED <<call, output, aborted>>
    /\ UNCHANGED <<arenaVars, agentVars>>

observe_result(a) ==
    /\ At(a, "result")
    /\ IF observed_result(a) = "Ok" THEN Goto(a, "copy")
       ELSE /\ caller' = Set(caller, a, "close_evaluated")
            /\ returned' = Set(returned, a, observed_result(a))
            /\ UNCHANGED <<call, output, aborted>>
    /\ UNCHANGED <<arenaVars, agentVars>>

\* Phase Acknowledge: copy, then Idle, or Closed after a shutdown.
copy_output(a) ==
    /\ At(a, "copy")
    /\ output' = Set(output, a, output_payload[a])
    /\ caller' = Set(caller, a, "check_shutdown")
    /\ UNCHANGED <<call, returned, aborted, arenaVars, agentVars>>

check_shutdown(a) ==
    /\ At(a, "check_shutdown")
    /\ IF ~shutdown[a] THEN Goto(a, "acknowledge")
       ELSE /\ caller' = Set(caller, a, "close_evaluated")
            /\ returned' = Set(returned, a, "Ok")
            /\ UNCHANGED <<call, output, aborted>>
    /\ UNCHANGED <<arenaVars, agentVars>>

acknowledge(a) ==
    /\ \/ /\ At(a, "acknowledge")
          /\ IF status[a] = "Evaluated"
             THEN /\ result_code' = Set(result_code, a, "ProtocolMismatch")
                  /\ request' = Set(request, a, 0)
                  /\ Goto(a, "release")
             ELSE UNCHANGED <<result_code, request>> /\ Abort(a, "status")
          /\ UNCHANGED status
       \/ /\ At(a, "release")
          /\ status' = Set(status, a, "Idle") /\ Return(a, "Ok")
          /\ UNCHANGED <<result_code, request>>
    /\ UNCHANGED <<output_payload, generation_failure_code, shutdown, agentVars>>

\* Faulty: a call that closes its mailbox reports Shutdown, whatever its result.
CloseWithoutResult(a) ==
    /\ At(a, "close_evaluated")
    /\ status' = Set(status, a, "Closed") /\ Return(a, "Shutdown")
    /\ UNCHANGED <<result_code, request, output_payload,
                   generation_failure_code, shutdown, agentVars>>

close_evaluated(a) ==
    /\ At(a, "close_evaluated")
    /\ IF status[a] = "Evaluated"
       THEN status' = Set(status, a, "Closed") /\ Return(a, returned[a])
       ELSE UNCHANGED status /\ Abort(a, "status")
    /\ UNCHANGED <<result_code, request, output_payload,
                   generation_failure_code, shutdown, agentVars>>

KernelStep(a) ==
    \/ claim(a) \/ claim_terminal(a) \/ stage(a) \/ publish_check(a)
    \/ close_staging(a) \/ publish_request(a) \/ evaluate(a) \/ timed_out(a)
    \/ observe_result(a) \/ copy_output(a) \/ check_shutdown(a)
    \/ acknowledge(a) \/ close_evaluated(a)

-----------------------------------------------------------------------------
(* The Resident block of an arena. *)

In(a, pc) == block[a] = pc
Jump(a, pc) == block' = Set(block, a, pc) /\ UNCHANGED result
JumpWith(a, pc, code) == block' = Set(block, a, pc) /\ result' = Set(result, a, code)
outside == <<host, fabric_failure, instanceVars>>

\* Startup: all mailboxes are opened between two grid barriers.
open(a) ==
    /\ In(a, "open")
    /\ IF status[a] = "Dormant"
       THEN status' = Set(status, a, "Idle") /\ Jump(a, "fabric")
       ELSE UNCHANGED status /\ Jump(a, "trapped")
    /\ UNCHANGED <<result_code, request, output_payload,
                   generation_failure_code, shutdown, drain_requested, outside>>

\* publish_fabric_failure returned false.
unpublished(a) ==
    IF result[a] = "none" THEN Jump(a, "draining")
    ELSE IF result[a] \in Codes THEN Jump(a, "request_drain")
    ELSE JumpWith(a, "fabric", "none")

\* publish_fabric_failure, at the top of the loop (result "none") and after
\* an execution: a completed request keeps its Ok result.
publish_fabric_failure(a) ==
    /\ \/ /\ In(a, "fabric") /\ \A b \in Arenas : ~In(b, "open")
          /\ IF fabric_failure = "Ok" THEN unpublished(a)
                                      ELSE Jump(a, "mailbox_status")
          /\ UNCHANGED generation_failure_code
       \/ /\ In(a, "mailbox_status")
          /\ Jump(a, IF status[a] = "Evaluated" THEN "mailbox_result"
                                                ELSE "publish_failure")
          /\ UNCHANGED generation_failure_code
       \/ /\ In(a, "mailbox_result")
          /\ IF result_code[a] = "Ok" THEN unpublished(a)
                                      ELSE Jump(a, "publish_failure")
          /\ UNCHANGED generation_failure_code
       \/ /\ In(a, "publish_failure")
          /\ IF generation_failure_code[a] \in {"Ok", fabric_failure}
             THEN /\ generation_failure_code' =
                        Set(generation_failure_code, a, fabric_failure)
                  /\ Jump(a, "request_drain")
             ELSE UNCHANGED generation_failure_code /\ Jump(a, "trapped")
    /\ UNCHANGED <<mailboxVars, output_payload, shutdown, drain_requested, outside>>

request_drain(a) ==
    /\ In(a, "request_drain")
    /\ drain_requested' = TRUE
    /\ IF result[a] = "none" THEN Jump(a, "draining")
                             ELSE JumpWith(a, "fabric", "none")
    /\ UNCHANGED <<arenaVars, outside>>

\* The leader samples the drain word, then the mailbox.
sample(a) ==
    /\ \/ /\ In(a, "draining")
          /\ Jump(a, IF drain_requested THEN "publish_shutdown" ELSE "observe")
       \/ /\ In(a, "observe")
          /\ \/ status[a] = "Closed" /\ JumpWith(a, "request_drain", "Closed")
             \/ status[a] = "Published" /\ Jump(a, "execute")
             \/ status[a] \notin {"Closed", "Published"} /\ Jump(a, "fabric")
    /\ UNCHANGED <<arenaVars, drain_requested, outside>>

\* execute_request: rejected here, executed by Fabric, or failed with it.
execute_request(a) ==
    /\ In(a, "execute")
    /\ \/ "reject" \in Faults[a]
          /\ JumpWith(a, "publish_result", "ProtocolMismatch")
          /\ UNCHANGED output_payload
       \/ JumpWith(a, "publish_result", "Ok")
          /\ output_payload' = Set(output_payload, a, request[a])
       \/ fabric_failure # "Ok"
          /\ JumpWith(a, "publish_result", fabric_failure)
          /\ UNCHANGED output_payload
    /\ UNCHANGED <<mailboxVars, generation_failure_code, shutdown,
                   drain_requested, outside>>

publish_result(a) ==
    /\ block[a] \in {"publish_result", "finish_result"}
    /\ IF status[a] = "Published"
       THEN /\ result_code' = Set(result_code, a, result[a])
            /\ status' = Set(status, a, "Evaluated")
            /\ Jump(a, IF In(a, "publish_result") THEN "fabric" ELSE "exit")
       ELSE UNCHANGED <<result_code, status>> /\ Jump(a, "trapped")
    /\ UNCHANGED <<request, output_payload, generation_failure_code, shutdown,
                   drain_requested, outside>>

publish_shutdown(a) ==
    /\ In(a, "publish_shutdown") /\ Jump(a, "finish")
    /\ shutdown' = Set(shutdown, a, TRUE)
    /\ UNCHANGED <<mailboxVars, output_payload, generation_failure_code,
                   drain_requested, outside>>

\* Faulty: an Idle mailbox is closed without a compare-exchange.
CloseIdleBlindly(a) ==
    /\ \/ /\ In(a, "finish")
          /\ Jump(a, CASE status[a] = "Idle" -> "try_close_idle"
                       [] status[a] = "Published" -> "finish_failure"
                       [] OTHER -> "exit")
          /\ UNCHANGED status
       \/ /\ In(a, "try_close_idle")
          /\ status' = Set(status, a, "Closed") /\ Jump(a, "exit")
       \/ /\ In(a, "finish_failure")
          /\ JumpWith(a, "finish_result", "Shutdown") /\ UNCHANGED status
    /\ UNCHANGED <<result_code, request, output_payload,
                   generation_failure_code, shutdown, drain_requested, outside>>

\* Faulty: the block waits until the Instance has finished staging.
FinishAwaitsStaging(a) ==
    /\ \/ /\ In(a, "finish") /\ status[a] # "Staging"
          /\ Jump(a, CASE status[a] = "Idle" -> "try_close_idle"
                       [] status[a] = "Published" -> "finish_failure"
                       [] OTHER -> "exit")
          /\ UNCHANGED status
       \/ /\ In(a, "try_close_idle")
          /\ IF status[a] = "Idle"
             THEN status' = Set(status, a, "Closed") /\ Jump(a, "exit")
             ELSE UNCHANGED status /\ Jump(a, "finish")
       \/ /\ In(a, "finish_failure")
          /\ JumpWith(a, "finish_result", "Shutdown") /\ UNCHANGED status
    /\ UNCHANGED <<result_code, request, output_payload,
                   generation_failure_code, shutdown, drain_requested, outside>>

\* Faulty: a drain takes a visible request for the Instance's business.
FinishIgnoresRequest(a) ==
    /\ \/ /\ In(a, "finish")
          /\ Jump(a, IF status[a] = "Idle" THEN "try_close_idle" ELSE "exit")
          /\ UNCHANGED status
       \/ /\ In(a, "try_close_idle")
          /\ IF status[a] = "Idle"
             THEN status' = Set(status, a, "Closed") /\ Jump(a, "exit")
             ELSE UNCHANGED status /\ Jump(a, "finish")
    /\ UNCHANGED <<result_code, request, output_payload,
                   generation_failure_code, shutdown, drain_requested, outside>>

finish_terminal_mailbox(a) ==
    /\ \/ /\ In(a, "finish")
          /\ \/ status[a] = "Idle" /\ Jump(a, "try_close_idle")
             \/ status[a] = "Published" /\ Jump(a, "finish_failure")
             \/ status[a] = "Dormant" /\ Jump(a, "trapped")
             \/ status[a] \in {"Staging", "Evaluated", "Closed"} /\ Jump(a, "exit")
          /\ UNCHANGED status
       \/ /\ In(a, "try_close_idle")
          /\ IF status[a] = "Idle"
             THEN status' = Set(status, a, "Closed") /\ Jump(a, "exit")
             ELSE UNCHANGED status /\ Jump(a, "finish")
       \/ /\ In(a, "finish_failure")
          /\ JumpWith(a, "finish_result",
                      IF failed(a) THEN generation_failure_code[a] ELSE "Shutdown")
          /\ UNCHANGED status
    /\ UNCHANGED <<result_code, request, output_payload,
                   generation_failure_code, shutdown, drain_requested, outside>>

\* All blocks meet at the grid barrier and the kernel completes.
complete ==
    /\ \A a \in Arenas : In(a, "exit")
    /\ block' = [a \in Arenas |-> "done"]
    /\ UNCHANGED <<arenaVars, result, drain_requested, outside>>

BlockStep(a) ==
    \/ open(a) \/ publish_fabric_failure(a) \/ request_drain(a) \/ sample(a)
    \/ execute_request(a) \/ publish_result(a) \/ publish_shutdown(a)
    \/ finish_terminal_mailbox(a)

-----------------------------------------------------------------------------
(* The AtnAgent's host code, and Fabric. *)

\* AtnAgentRuntime::activate launches the Resident over all arenas.
activate ==
    /\ host = "created" /\ host' = "active"
    /\ block' = [a \in Arenas |-> "open"]
    /\ UNCHANGED <<arenaVars, result, drain_requested, fabric_failure, instanceVars>>

\* quiesce_leases waits until no Instance rank holds a lease; a lease ends with
\* the Instance's departure or its death.
leases == {a \in Arenas : caller[a] \notin {"detached", "dead"}}

\* Faulty: the drain does not wait for the leases.
DrainWithLeases ==
    /\ host = "active"
    /\ host' = "draining" /\ drain_requested' = TRUE
    /\ UNCHANGED <<arenaVars, block, result, fabric_failure, instanceVars>>

drain_async ==
    /\ host = "active" /\ leases = {}
    /\ host' = "draining" /\ drain_requested' = TRUE
    /\ UNCHANGED <<arenaVars, block, result, fabric_failure, instanceVars>>

\* drain_pending returns false and releases the Resident.
drain_pending ==
    /\ host = "draining" /\ \A a \in Arenas : In(a, "done")
    /\ host' = "released"
    /\ UNCHANGED <<arenaVars, residentVars, fabric_failure, instanceVars>>

\* Preactivation rollback, or close_role after the drain.
destroy_arenas ==
    /\ host \in {"created", "released"} /\ leases = {}
    /\ host' = "destroyed"
    /\ UNCHANGED <<arenaVars, residentVars, fabric_failure, instanceVars>>

\* Some participant's failure becomes canonical and reaches this PE.
fabric_fails ==
    /\ \E a \in Arenas : "fabric" \in Faults[a]
    /\ host \in {"active", "draining"} /\ fabric_failure = "Ok"
    /\ fabric_failure' \in Codes
    /\ UNCHANGED <<arenaVars, residentVars, host, instanceVars>>

Next ==
    \/ \E a \in Arenas :
          \/ attach(a) \/ detach(a) \/ crash(a) \/ submit(a) \/ time_out(a)
          \/ KernelStep(a) \/ BlockStep(a)
    \/ complete \/ activate \/ drain_async \/ drain_pending \/ destroy_arenas
    \/ fabric_fails

Spec == Init /\ [][Next]_vars

(* Kernels that are launched run: the Resident is a cooperative grid, so that *)
(* every block makes progress, and Fabric answers or fails.                   *)
Fairness ==
    /\ \A a \in Arenas : WF_vars(KernelStep(a)) /\ WF_vars(BlockStep(a))
    /\ WF_vars(complete)

LiveSpec == Spec /\ Fairness

-----------------------------------------------------------------------------
(* Properties. *)

\* A call that returns Ok returns the output of its own request, however often
\* the mailbox is reused and whatever drains or fails meanwhile.
OwnOutput ==
    \A a \in Arenas : returned[a] = "Ok" => output[a] = call[a]

\* No transition of the mailbox finds it in a status its precondition excludes:
\* the two compare-exchanges on Idle are all the locking the two sides need.
NoStatusAbort ==
    \A a \in Arenas : aborted[a] # "status" /\ block[a] # "trapped"

\* The AtnAgent frees device state only when no kernel of either side can still
\* touch it.
NoUseAfterFree ==
    host \in {"released", "destroyed"} =>
        leases = {} /\ \A a \in Arenas : block[a] \in {"none", "done"}

\* Transport implements synchronous calls that run at most once.
Promise == INSTANCE FfnCall WITH
    Failures <- Codes \cup {"Shutdown"},
    called <- call, executed <- output_payload, returned <- returned
CallPromise == Promise!Spec

\* Once a drain is requested the whole Resident completes, even if Instances
\* die while they stage, wait or copy.
DrainCompletes ==
    drain_requested /\ (\A a \in Arenas : ~In(a, "trapped"))
        ~> \A a \in Arenas : block[a] = "done"

\* A request published before its block leaves is answered, whether the block
\* serves, fails or drains and whatever becomes of the Instance.
RequestAnswered ==
    \A a \in Arenas :
        status[a] = "Published" /\ block[a] \notin {"exit", "done", "trapped"}
            ~> status[a] # "Published"

\* A mailbox that a claim finds Closed was closed for a reason that the claim
\* can see.
CloseExplained == \A a \in Arenas : aborted[a] # "unexplained"

-----------------------------------------------------------------------------
(* The inductive invariant. *)

Claiming == {"claim_failure", "claim_shutdown", "try_begin_staging", "terminal",
             "terminal_failure", "terminal_shutdown", "stage"}
Publishing == {"publish_failure", "publish_shutdown", "close_failed", "close_shutdown",
               "publish_request"}
Waiting == {"evaluate", "timed_out"}
Receiving == {"result", "copy", "check_shutdown", "acknowledge", "release"}
CallerPc == Claiming \cup Publishing \cup Waiting \cup Receiving \cup
            {"attaching", "ready", "close_evaluated", "detached", "dead", "trapped"}
BlockPc == {"none", "open", "fabric", "mailbox_status", "mailbox_result",
            "publish_failure", "request_drain", "draining", "observe", "execute",
            "publish_result", "publish_shutdown", "finish", "try_close_idle",
            "finish_failure", "finish_result", "exit", "done"}

\* Neither a block that traps nor a status abort has a value here.
TypeOK ==
    /\ status \in [Arenas -> MailboxStatus] /\ result_code \in [Arenas -> ResultCode]
    /\ request \in [Arenas -> Nat] /\ output_payload \in [Arenas -> Nat]
    /\ generation_failure_code \in [Arenas -> Codes \cup {"Ok"}]
    /\ shutdown \in [Arenas -> BOOLEAN] /\ drain_requested \in BOOLEAN
    /\ block \in [Arenas -> BlockPc]
    /\ result \in [Arenas -> ResultCode \cup {"none", "Closed"}]
    /\ host \in {"created", "active", "draining", "released", "destroyed"}
    /\ fabric_failure \in Codes \cup {"Ok"}
    /\ caller \in [Arenas -> CallerPc] /\ call \in [Arenas -> Nat]
    /\ returned \in [Arenas -> ResultCode \cup {"pending"}]
    /\ output \in [Arenas -> Nat]
    /\ aborted \in [Arenas -> {"no", "unexplained", "timeout"}]

\* Who holds the mailbox: between the two compare-exchanges its status tells
\* where the one side is, and the other side leaves it alone.  A request that
\* its caller gave up stays where it is, and then the failure is published.
StatusInv(a) ==
    /\ status[a] = "Dormant" <=> block[a] \in {"none", "open"}
    /\ caller[a] = "attaching" => status[a] \in {"Dormant", "Idle", "Closed"}
    /\ caller[a] \in {"ready", "claim_failure"} =>
          /\ status[a] \in {"Idle", "Published", "Evaluated", "Closed"}
          /\ status[a] \in {"Published", "Evaluated"} => failed(a)
    /\ caller[a] \in {"claim_shutdown", "try_begin_staging"} => status[a] \in {"Idle", "Closed"}
    /\ caller[a] \in {"terminal", "terminal_failure", "terminal_shutdown"} =>
          status[a] = "Closed"
    /\ caller[a] \in Publishing \cup {"stage"} => status[a] = "Staging"
    /\ caller[a] \in Waiting => status[a] \in {"Published", "Evaluated"}
    /\ caller[a] \in Receiving \cup {"close_evaluated"} => status[a] = "Evaluated"
    /\ block[a] \in {"execute", "publish_result", "finish_failure", "finish_result"} =>
          status[a] = "Published"

\* A generation failure is the canonical one.
FailureInv(a) ==
    /\ failed(a) => generation_failure_code[a] = fabric_failure
    /\ block[a] \in {"mailbox_status", "mailbox_result", "publish_failure"} =>
          fabric_failure # "Ok"
    /\ caller[a] = "close_failed" => failed(a)

\* Which call the request and the output belong to.
PayloadInv(a) ==
    /\ request[a] <= call[a] /\ output_payload[a] <= call[a]
    /\ caller[a] \in Claiming => request[a] < call[a] /\ output_payload[a] < call[a]
    /\ caller[a] \in Publishing => output_payload[a] < call[a]
    /\ caller[a] \in Publishing \cup Waiting \cup {"result", "copy"} => request[a] = call[a]
    /\ status[a] = "Published" /\ block[a] # "publish_result" =>
          output_payload[a] < request[a]
    /\ block[a] = "publish_result" => result[a] \in Codes \cup {"Ok"}
    /\ block[a] = "publish_result" /\ result[a] = "Ok" => output_payload[a] = request[a]
    /\ block[a] = "finish_result" => result[a] \in Codes \cup {"Shutdown"}
    /\ caller[a] \in Waiting \cup {"result"} /\ status[a] = "Evaluated" /\ result_code[a] = "Ok" =>
          output_payload[a] = call[a]
    /\ caller[a] \in Receiving \ {"result"} => output_payload[a] = call[a]
    /\ caller[a] \in {"check_shutdown", "acknowledge", "release"} => output[a] = call[a]

\* A call is pending until its outcome is decided.
ReturnInv(a) ==
    /\ caller[a] \in Claiming \cup Publishing \cup Waiting \cup Receiving =>
          returned[a] = "pending"
    /\ caller[a] \in {"attaching", "ready", "close_evaluated"} => returned[a] # "pending"
    /\ returned[a] = "Ok" => output[a] = call[a]

\* Leases only end, and the host waits for them and for the kernel.
HostInv ==
    /\ host = "created" => \A a \in Arenas : block[a] = "none"
    /\ host \in {"draining", "released", "destroyed"} => leases = {}
    /\ host \in {"released", "destroyed"} => \A a \in Arenas : block[a] \in {"none", "done"}

ArenaInv(a) == StatusInv(a) /\ FailureInv(a) /\ PayloadInv(a) /\ ReturnInv(a)
Inv == TypeOK /\ HostInv /\ \A a \in Arenas : ArenaInv(a)
=============================================================================
