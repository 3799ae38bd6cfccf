--------------------------- MODULE TransportProofs ---------------------------
(***************************************************************************)
(* Proofs about Transport, for any set of arenas, any number of calls and  *)
(* any faults: the inductive invariant Inv, the safety properties that the *)
(* runs check, and that Transport implements FfnCall.                      *)
(*                                                                         *)
(* The lemma of an action first says what the step does to its own arena,  *)
(* then derives the invariant there from these values alone.               *)
(***************************************************************************)
EXTENDS Transport, TLAPS

-----------------------------------------------------------------------------
(* Steps of Instances. *)

(* What a step leaves alone at an arena. *)
MailboxKept(a) ==
  status'[a] = status[a] /\ result_code'[a] = result_code[a] /\ request'[a] = request[a]
FailureKept(a) ==
  /\ generation_failure_code'[a] = generation_failure_code[a]
  /\ fabric_failure' = fabric_failure
PayloadKept(a) == output_payload'[a] = output_payload[a]
BlockKept(a) == block'[a] = block[a] /\ result'[a] = result[a]
CallKept(a) ==
  call'[a] = call[a] /\ returned'[a] = returned[a] /\ output'[a] = output[a]

(* The step leaves every other arena, its caller and its block alone. *)
Only(a) ==
  \A b \in Arenas \ {a} :
    /\ MailboxKept(b) /\ FailureKept(b) /\ PayloadKept(b) /\ BlockKept(b) /\ CallKept(b)
    /\ caller'[b] = caller[b]

(* A step of the caller at an arena, and one of its block. *)
CallerStep(a) ==
  /\ Only(a) /\ FailureKept(a) /\ PayloadKept(a) /\ BlockKept(a)
  /\ caller[a] \notin {"detached", "dead"} /\ UNCHANGED <<host, block>>
ServerStep(a) ==
  /\ Only(a) /\ request'[a] = request[a] /\ CallKept(a) /\ UNCHANGED fabric_failure
  /\ block[a] \notin {"none", "done"} /\ UNCHANGED <<host, caller>>

(* What the invariant says of the arena at which a step happens. *)
Here(a) ==
  /\ TypeOK /\ ArenaInv(a)
  /\ call[a] \in Nat /\ request[a] \in Nat /\ output_payload[a] \in Nat

(* Inv holds at every arena. *)
LEMMA Locally ==
  ASSUME NEW a \in Arenas, Inv
  PROVE  Here(a)
BY DEF Inv, Here, TypeOK

(* The invariant speaks of one arena at a time: a step at arena a keeps it *)
(* at every other arena.                                                   *)
LEMMA OthersKept ==
  ASSUME NEW a \in Arenas, Only(a), \A b \in Arenas : ArenaInv(b)
  PROVE  \A b \in Arenas \ {a} : ArenaInv(b)'
<1> SUFFICES ASSUME NEW b \in Arenas \ {a} PROVE ArenaInv(b)'
  OBVIOUS
<1>1. /\ MailboxKept(b) /\ FailureKept(b) /\ PayloadKept(b) /\ BlockKept(b) /\ CallKept(b)
      /\ caller'[b] = caller[b] /\ ArenaInv(b)
  BY DEF Only
<1> USE DEF MailboxKept, FailureKept, PayloadKept, BlockKept, CallKept, ArenaInv
<1>2. StatusInv(b)'
  BY <1>1 DEF StatusInv, failed
<1>3. FailureInv(b)'
  BY <1>1 DEF FailureInv, failed
<1>4. PayloadInv(b)'
  BY <1>1 DEF PayloadInv
<1>5. ReturnInv(b)'
  BY <1>1 DEF ReturnInv
<1> QED
  BY <1>2, <1>3, <1>4, <1>5

(* A caller that takes a step holds a lease, and a drain waits for it.     *)
LEMMA CallerInv ==
  ASSUME NEW a \in Arenas, Inv, CallerStep(a), TypeOK', ArenaInv(a)'
  PROVE  Inv'
<1>1. HostInv'
  BY DEF Inv, CallerStep, HostInv, leases
<1> QED
  BY <1>1, OthersKept DEF Inv, CallerStep

(* A block takes steps only while the host is active or draining.          *)
LEMMA ServerInv ==
  ASSUME NEW a \in Arenas, Inv, ServerStep(a), TypeOK', ArenaInv(a)'
  PROVE  Inv'
<1>1. HostInv'
  <2>1. HostInv /\ host' = host /\ leases' = leases
    BY DEF Inv, ServerStep, leases
  <2>2. host \in {"active", "draining"}
    BY <2>1 DEF Inv, TypeOK, HostInv, ServerStep
  <2> QED
    BY <2>1, <2>2 DEF HostInv
<1> QED
  BY <1>1, OthersKept DEF Inv, ServerStep

(* An Instance attaches to an open mailbox, or leaves. *)
LEMMA attach_keeps ==
  ASSUME NEW a \in Arenas, Inv, attach(a)
  PROVE  Inv'
<1>1. Here(a)
  BY Locally, Zenon
<1>2. /\ CallerStep(a)
      /\ MailboxKept(a) /\ CallKept(a) /\ caller[a] = "attaching"
      /\ \/ status[a] = "Idle" /\ caller'[a] = "ready"
         \/ caller'[a] = "detached"
  BY <1>1 DEF attach, Here, TypeOK, Set, CallerStep, Only, MailboxKept, FailureKept,
     PayloadKept, BlockKept, CallKept, At, Goto, agentVars, residentVars, arenaVars,
     mailboxVars
<1>3. ArenaInv(a)'
  <2>1. StatusInv(a)'
    BY <1>1, <1>2, Zenon DEF Here, ArenaInv, CallerStep, MailboxKept, FailureKept,
       BlockKept, Publishing, Waiting, Receiving, StatusInv, failed
  <2>2. FailureInv(a)'
    BY <1>1, <1>2, Zenon DEF Here, ArenaInv, CallerStep, FailureKept, BlockKept,
       FailureInv, failed
  <2>3. PayloadInv(a)'
    BY <1>1, <1>2, Zenon DEF Here, ArenaInv, CallerStep, MailboxKept, PayloadKept,
       BlockKept, CallKept, Claiming, Publishing, Waiting, Receiving, Codes,
       StatusInv, PayloadInv
  <2>4. ReturnInv(a)'
    BY <1>1, <1>2, Zenon DEF Here, ArenaInv, CallerStep, CallKept, Claiming,
       Publishing, Waiting, Receiving, Codes, PayloadInv, ReturnInv
  <2> QED
    BY <2>1, <2>2, <2>3, <2>4, Zenon DEF ArenaInv
<1>4. TypeOK'
  BY <1>1 DEF attach, Here, TypeOK, Set, CallerPc, Claiming, Publishing, Waiting,
     Receiving, At, Goto, agentVars, residentVars, arenaVars, mailboxVars
<1> QED
  BY <1>2, <1>3, <1>4, CallerInv, Zenon

(* A departed rank makes no claim on its mailbox. *)
LEMMA detach_keeps ==
  ASSUME NEW a \in Arenas, Inv, detach(a)
  PROVE  Inv'
<1>1. Here(a)
  BY Locally, Zenon
<1>2. /\ CallerStep(a)
      /\ MailboxKept(a) /\ CallKept(a) /\ caller'[a] = "detached"
  BY <1>1 DEF detach, Here, TypeOK, Set, CallerStep, Only, MailboxKept, FailureKept,
     PayloadKept, BlockKept, CallKept, At, Goto, agentVars, residentVars, arenaVars,
     mailboxVars
<1>3. ArenaInv(a)'
  <2>1. StatusInv(a)'
    BY <1>1, <1>2, Zenon DEF Here, ArenaInv, CallerStep, MailboxKept, FailureKept,
       BlockKept, Publishing, Waiting, Receiving, StatusInv, failed
  <2>2. FailureInv(a)'
    BY <1>1, <1>2, Zenon DEF Here, ArenaInv, CallerStep, FailureKept, BlockKept,
       FailureInv, failed
  <2>3. PayloadInv(a)'
    BY <1>1, <1>2, Zenon DEF Here, ArenaInv, CallerStep, MailboxKept, PayloadKept,
       BlockKept, CallKept, Claiming, Publishing, Waiting, Receiving, Codes,
       StatusInv, PayloadInv
  <2>4. ReturnInv(a)'
    BY <1>1, <1>2, Zenon DEF Here, ArenaInv, CallerStep, CallKept, Claiming,
       Publishing, Waiting, Receiving, Codes, PayloadInv, ReturnInv
  <2> QED
    BY <2>1, <2>2, <2>3, <2>4, Zenon DEF ArenaInv
<1>4. TypeOK'
  BY <1>1 DEF detach, Here, TypeOK, Set, CallerPc, Claiming, Publishing, Waiting,
     Receiving, At, Goto, agentVars, residentVars, arenaVars, mailboxVars
<1> QED
  BY <1>2, <1>3, <1>4, CallerInv, Zenon

(* Nor does a dead one. *)
LEMMA crash_keeps ==
  ASSUME NEW a \in Arenas, Inv, crash(a)
  PROVE  Inv'
<1>1. Here(a)
  BY Locally, Zenon
<1>2. /\ CallerStep(a)
      /\ MailboxKept(a) /\ CallKept(a) /\ caller'[a] = "dead"
  BY <1>1 DEF crash, Here, TypeOK, Set, CallerStep, Only, MailboxKept, FailureKept,
     PayloadKept, BlockKept, CallKept, Goto, agentVars, residentVars, arenaVars,
     mailboxVars
<1>3. ArenaInv(a)'
  <2>1. StatusInv(a)'
    BY <1>1, <1>2, Zenon DEF Here, ArenaInv, CallerStep, MailboxKept, FailureKept,
       BlockKept, Publishing, Waiting, Receiving, StatusInv, failed
  <2>2. FailureInv(a)'
    BY <1>1, <1>2, Zenon DEF Here, ArenaInv, CallerStep, FailureKept, BlockKept,
       FailureInv, failed
  <2>3. PayloadInv(a)'
    BY <1>1, <1>2, Zenon DEF Here, ArenaInv, CallerStep, MailboxKept, PayloadKept,
       BlockKept, CallKept, Claiming, Publishing, Waiting, Receiving, Codes,
       StatusInv, PayloadInv
  <2>4. ReturnInv(a)'
    BY <1>1, <1>2, Zenon DEF Here, ArenaInv, CallerStep, CallKept, Claiming,
       Publishing, Waiting, Receiving, Codes, PayloadInv, ReturnInv
  <2> QED
    BY <2>1, <2>2, <2>3, <2>4, Zenon DEF ArenaInv
<1>4. TypeOK'
  BY <1>1 DEF crash, Here, TypeOK, Set, CallerPc, Claiming, Publishing, Waiting,
     Receiving, Goto, agentVars, residentVars, arenaVars, mailboxVars
<1> QED
  BY <1>2, <1>3, <1>4, CallerInv, Zenon

(* A new call is later than every request and output so far. *)
LEMMA submit_keeps ==
  ASSUME NEW a \in Arenas, Inv, submit(a)
  PROVE  Inv'
<1>1. Here(a)
  BY Locally, Zenon
<1>2. /\ CallerStep(a)
      /\ MailboxKept(a) /\ output'[a] = output[a] /\ returned'[a] = "pending"
      /\ caller[a] = "ready" /\ caller'[a] = "claim_failure" /\ call'[a] = call[a] + 1
  BY <1>1 DEF submit, Here, TypeOK, Set, CallerStep, Only, MailboxKept, FailureKept,
     PayloadKept, BlockKept, CallKept, At, agentVars, residentVars, arenaVars,
     mailboxVars
<1>3. ArenaInv(a)'
  <2>1. StatusInv(a)'
    BY <1>1, <1>2, Zenon DEF Here, ArenaInv, CallerStep, MailboxKept, FailureKept,
       BlockKept, Publishing, Waiting, Receiving, StatusInv, failed
  <2>2. FailureInv(a)'
    BY <1>1, <1>2, Zenon DEF Here, ArenaInv, CallerStep, FailureKept, BlockKept,
       FailureInv, failed
  <2>3. PayloadInv(a)'
    BY <1>1, <1>2 DEF Here, ArenaInv, CallerStep, MailboxKept, PayloadKept, BlockKept,
       CallKept, Claiming, Publishing, Waiting, Receiving, Codes, StatusInv,
       PayloadInv
  <2>4. ReturnInv(a)'
    BY <1>1, <1>2, Zenon DEF Here, ArenaInv, CallerStep, CallKept, Claiming,
       Publishing, Waiting, Receiving, Codes, PayloadInv, ReturnInv
  <2> QED
    BY <2>1, <2>2, <2>3, <2>4, Zenon DEF ArenaInv
<1>4. TypeOK'
  BY <1>1 DEF submit, Here, TypeOK, Set, CallerPc, Claiming, Publishing, Waiting,
     Receiving, At, agentVars, residentVars, arenaVars, mailboxVars
<1> QED
  BY <1>2, <1>3, <1>4, CallerInv, Zenon

(* A caller that gives up leaves its request in the mailbox. *)
LEMMA time_out_keeps ==
  ASSUME NEW a \in Arenas, Inv, time_out(a)
  PROVE  Inv'
<1>1. Here(a)
  BY Locally, Zenon
<1>2. /\ CallerStep(a)
      /\ MailboxKept(a) /\ CallKept(a)
      /\ caller[a] = "evaluate" /\ caller'[a] = "timed_out"
  BY <1>1 DEF time_out, Here, TypeOK, Set, CallerStep, Only, MailboxKept,
     FailureKept, PayloadKept, BlockKept, CallKept, At, Goto, agentVars,
     residentVars, arenaVars, mailboxVars
<1>3. ArenaInv(a)'
  <2>1. StatusInv(a)'
    BY <1>1, <1>2, Zenon DEF Here, ArenaInv, CallerStep, MailboxKept, FailureKept,
       BlockKept, Publishing, Waiting, Receiving, StatusInv, failed
  <2>2. FailureInv(a)'
    BY <1>1, <1>2, Zenon DEF Here, ArenaInv, CallerStep, FailureKept, BlockKept,
       FailureInv, failed
  <2>3. PayloadInv(a)'
    BY <1>1, <1>2, Zenon DEF Here, ArenaInv, CallerStep, MailboxKept, PayloadKept,
       BlockKept, CallKept, Claiming, Publishing, Waiting, Receiving, Codes,
       StatusInv, PayloadInv
  <2>4. ReturnInv(a)'
    BY <1>1, <1>2, Zenon DEF Here, ArenaInv, CallerStep, CallKept, Claiming,
       Publishing, Waiting, Receiving, Codes, PayloadInv, ReturnInv
  <2> QED
    BY <2>1, <2>2, <2>3, <2>4, Zenon DEF ArenaInv
<1>4. TypeOK'
  BY <1>1 DEF time_out, Here, TypeOK, Set, CallerPc, Claiming, Publishing, Waiting,
     Receiving, At, Goto, agentVars, residentVars, arenaVars, mailboxVars
<1> QED
  BY <1>2, <1>3, <1>4, CallerInv, Zenon

(* A claim passes an abandoned request only if it sees no failure. *)
LEMMA claim_keeps ==
  ASSUME NEW a \in Arenas, Inv, claim(a)
  PROVE  Inv'
<1>1. Here(a)
  BY Locally, Zenon
<1>2. /\ CallerStep(a)
      /\ result_code'[a] = result_code[a] /\ request'[a] = request[a]
      /\ call'[a] = call[a] /\ output'[a] = output[a]
      /\ \/ /\ caller[a] = "claim_failure" /\ ~failed(a) /\ caller'[a] = "claim_shutdown"
            /\ status'[a] = status[a] /\ returned'[a] = returned[a]
         \/ /\ caller[a] \in {"claim_failure", "claim_shutdown"} /\ caller'[a] = "ready"
            /\ status'[a] = status[a] /\ returned'[a] \in Codes \cup {"Shutdown"}
         \/ /\ caller[a] = "claim_shutdown" /\ caller'[a] = "try_begin_staging"
            /\ status'[a] = status[a] /\ returned'[a] = returned[a]
         \/ /\ caller[a] = "try_begin_staging" /\ caller'[a] = "stage"
            /\ status[a] = "Idle" /\ status'[a] = "Staging" /\ returned'[a] = returned[a]
         \/ /\ caller[a] = "try_begin_staging" /\ caller'[a] = "terminal"
            /\ status[a] # "Idle" /\ status'[a] = status[a] /\ returned'[a] = returned[a]
  BY <1>1 DEF claim, Here, TypeOK, Set, Codes, CallerStep, Only, MailboxKept,
     FailureKept, PayloadKept, BlockKept, CallKept, At, Goto, Return, agentVars,
     residentVars, failed
<1>3. ArenaInv(a)'
  <2>1. StatusInv(a)'
    BY <1>1, <1>2, Zenon DEF Here, ArenaInv, CallerStep, MailboxKept, FailureKept,
       BlockKept, Publishing, Waiting, Receiving, StatusInv, failed
  <2>2. FailureInv(a)'
    BY <1>1, <1>2, Zenon DEF Here, ArenaInv, CallerStep, FailureKept, BlockKept,
       FailureInv, failed
  <2>3. PayloadInv(a)'
    BY <1>1, <1>2, Zenon DEF Here, ArenaInv, CallerStep, MailboxKept, PayloadKept,
       BlockKept, CallKept, Claiming, Publishing, Waiting, Receiving, Codes,
       StatusInv, PayloadInv
  <2>4. ReturnInv(a)'
    BY <1>1, <1>2, Zenon DEF Here, ArenaInv, CallerStep, CallKept, Claiming,
       Publishing, Waiting, Receiving, Codes, PayloadInv, ReturnInv
  <2> QED
    BY <2>1, <2>2, <2>3, <2>4, Zenon DEF ArenaInv
<1>4. TypeOK'
  BY <1>1 DEF claim, Here, TypeOK, Set, CallerPc, Claiming, Publishing, Waiting,
     Receiving, MailboxStatus, ResultCode, Codes, At, Goto, Return, agentVars,
     residentVars, failed
<1> QED
  BY <1>2, <1>3, <1>4, CallerInv, Zenon

(* A claim that finds the mailbox Closed returns the reason. *)
LEMMA claim_terminal_keeps ==
  ASSUME NEW a \in Arenas, Inv, claim_terminal(a)
  PROVE  Inv'
<1>1. Here(a)
  BY Locally, Zenon
<1>2. /\ CallerStep(a)
      /\ MailboxKept(a) /\ call'[a] = call[a] /\ output'[a] = output[a]
      /\ \/ /\ caller[a] \in {"terminal", "terminal_failure"} /\ returned'[a] = returned[a]
            /\ caller'[a] \in {"terminal_failure", "terminal_shutdown"}
         \/ /\ caller[a] \in {"terminal_failure", "terminal_shutdown"} /\ caller'[a] = "ready"
            /\ returned'[a] \in Codes \cup {"Shutdown"}
         \/ caller'[a] = "trapped" /\ returned'[a] = returned[a]
  BY <1>1 DEF claim_terminal, Here, TypeOK, Set, Codes, CallerStep, Only,
     MailboxKept, FailureKept, PayloadKept, BlockKept, CallKept, At, Goto, Return,
     Abort, agentVars, residentVars, arenaVars, mailboxVars, failed
<1>3. ArenaInv(a)'
  <2>1. StatusInv(a)'
    BY <1>1, <1>2 DEF Here, ArenaInv, CallerStep, MailboxKept, FailureKept, BlockKept,
       Publishing, Waiting, Receiving, StatusInv, failed
  <2>2. FailureInv(a)'
    BY <1>1, <1>2, Zenon DEF Here, ArenaInv, CallerStep, FailureKept, BlockKept,
       FailureInv, failed
  <2>3. PayloadInv(a)'
    BY <1>1, <1>2, Zenon DEF Here, ArenaInv, CallerStep, MailboxKept, PayloadKept,
       BlockKept, CallKept, Claiming, Publishing, Waiting, Receiving, Codes,
       StatusInv, PayloadInv
  <2>4. ReturnInv(a)'
    BY <1>1, <1>2, Zenon DEF Here, ArenaInv, CallerStep, CallKept, Claiming,
       Publishing, Waiting, Receiving, Codes, PayloadInv, ReturnInv
  <2> QED
    BY <2>1, <2>2, <2>3, <2>4, Zenon DEF ArenaInv
<1>4. TypeOK'
  BY <1>1 DEF claim_terminal, Here, TypeOK, Set, ArenaInv, StatusInv, CallerPc,
     Claiming, Publishing, Waiting, Receiving, ResultCode, Codes, At, Goto, Return,
     Abort, agentVars, residentVars, arenaVars, mailboxVars, failed
<1> QED
  BY <1>2, <1>3, <1>4, CallerInv, Zenon

(* Staging puts the call into the request. *)
LEMMA stage_keeps ==
  ASSUME NEW a \in Arenas, Inv, stage(a)
  PROVE  Inv'
<1>1. Here(a)
  BY Locally, Zenon
<1>2. /\ CallerStep(a)
      /\ status'[a] = status[a] /\ request'[a] = call[a] /\ CallKept(a)
      /\ caller[a] = "stage" /\ caller'[a] = "publish_failure"
  BY <1>1 DEF stage, Here, TypeOK, Set, CallerStep, Only, MailboxKept, FailureKept,
     PayloadKept, BlockKept, CallKept, At, Goto, agentVars, residentVars
<1>3. ArenaInv(a)'
  <2>1. StatusInv(a)'
    BY <1>1, <1>2, Zenon DEF Here, ArenaInv, CallerStep, MailboxKept, FailureKept,
       BlockKept, Publishing, Waiting, Receiving, StatusInv, failed
  <2>2. FailureInv(a)'
    BY <1>1, <1>2, Zenon DEF Here, ArenaInv, CallerStep, FailureKept, BlockKept,
       FailureInv, failed
  <2>3. PayloadInv(a)'
    BY <1>1, <1>2 DEF Here, ArenaInv, CallerStep, MailboxKept, PayloadKept, BlockKept,
       CallKept, Claiming, Publishing, Waiting, Receiving, Codes, StatusInv,
       PayloadInv
  <2>4. ReturnInv(a)'
    BY <1>1, <1>2, Zenon DEF Here, ArenaInv, CallerStep, CallKept, Claiming,
       Publishing, Waiting, Receiving, Codes, PayloadInv, ReturnInv
  <2> QED
    BY <2>1, <2>2, <2>3, <2>4, Zenon DEF ArenaInv
<1>4. TypeOK'
  BY <1>1 DEF stage, Here, TypeOK, Set, CallerPc, Claiming, Publishing, Waiting,
     Receiving, At, Goto, agentVars, residentVars
<1> QED
  BY <1>2, <1>3, <1>4, CallerInv, Zenon

(* The staged mailbox is closed only for a failure or a shutdown. *)
LEMMA publish_check_keeps ==
  ASSUME NEW a \in Arenas, Inv, publish_check(a)
  PROVE  Inv'
<1>1. Here(a)
  BY Locally, Zenon
<1>2. /\ CallerStep(a)
      /\ MailboxKept(a) /\ CallKept(a)
      /\ \/ caller[a] = "publish_failure" /\ failed(a) /\ caller'[a] = "close_failed"
         \/ /\ caller[a] \in {"publish_failure", "publish_shutdown"}
            /\ caller'[a] \in {"publish_shutdown", "close_shutdown", "publish_request"}
  BY <1>1 DEF publish_check, Here, TypeOK, Set, CallerStep, Only, MailboxKept,
     FailureKept, PayloadKept, BlockKept, CallKept, At, Goto, agentVars,
     residentVars, arenaVars, mailboxVars, failed
<1>3. ArenaInv(a)'
  <2>1. StatusInv(a)'
    BY <1>1, <1>2, Zenon DEF Here, ArenaInv, CallerStep, MailboxKept, FailureKept,
       BlockKept, Publishing, Waiting, Receiving, StatusInv, failed
  <2>2. FailureInv(a)'
    BY <1>1, <1>2, Zenon DEF Here, ArenaInv, CallerStep, FailureKept, BlockKept,
       FailureInv, failed
  <2>3. PayloadInv(a)'
    BY <1>1, <1>2, Zenon DEF Here, ArenaInv, CallerStep, MailboxKept, PayloadKept,
       BlockKept, CallKept, Claiming, Publishing, Waiting, Receiving, Codes,
       StatusInv, PayloadInv
  <2>4. ReturnInv(a)'
    BY <1>1, <1>2, Zenon DEF Here, ArenaInv, CallerStep, CallKept, Claiming,
       Publishing, Waiting, Receiving, Codes, PayloadInv, ReturnInv
  <2> QED
    BY <2>1, <2>2, <2>3, <2>4, Zenon DEF ArenaInv
<1>4. TypeOK'
  BY <1>1 DEF publish_check, Here, TypeOK, Set, CallerPc, Claiming, Publishing,
     Waiting, Receiving, At, Goto, agentVars, residentVars, arenaVars, mailboxVars,
     failed
<1> QED
  BY <1>2, <1>3, <1>4, CallerInv, Zenon

(* A caller that closes its staged mailbox returns a failure. *)
LEMMA close_staging_keeps ==
  ASSUME NEW a \in Arenas, Inv, close_staging(a)
  PROVE  Inv'
<1>1. Here(a)
  BY Locally, Zenon
<1>2. /\ CallerStep(a)
      /\ status[a] = "Staging" /\ status'[a] = "Closed" /\ request'[a] = request[a]
      /\ caller[a] \in {"close_failed", "close_shutdown"} /\ caller'[a] = "ready"
      /\ returned'[a] \in Codes \cup {"Shutdown"}
      /\ call'[a] = call[a] /\ output'[a] = output[a]
  BY <1>1 DEF close_staging, Here, TypeOK, Set, ArenaInv, StatusInv, FailureInv,
     Codes, Publishing, CallerStep, Only, MailboxKept, FailureKept, PayloadKept,
     BlockKept, CallKept, At, Return, Abort, agentVars, residentVars, failed
<1>3. ArenaInv(a)'
  <2>1. StatusInv(a)'
    BY <1>1, <1>2, Zenon DEF Here, ArenaInv, CallerStep, MailboxKept, FailureKept,
       BlockKept, Publishing, Waiting, Receiving, StatusInv, failed
  <2>2. FailureInv(a)'
    BY <1>1, <1>2, Zenon DEF Here, ArenaInv, CallerStep, FailureKept, BlockKept,
       FailureInv, failed
  <2>3. PayloadInv(a)'
    BY <1>1, <1>2, Zenon DEF Here, ArenaInv, CallerStep, MailboxKept, PayloadKept,
       BlockKept, CallKept, Claiming, Publishing, Waiting, Receiving, Codes,
       StatusInv, PayloadInv
  <2>4. ReturnInv(a)'
    BY <1>1, <1>2, Zenon DEF Here, ArenaInv, CallerStep, CallKept, Claiming,
       Publishing, Waiting, Receiving, Codes, PayloadInv, ReturnInv
  <2> QED
    BY <2>1, <2>2, <2>3, <2>4, Zenon DEF ArenaInv
<1>4. TypeOK'
  BY <1>1 DEF close_staging, Here, TypeOK, Set, ArenaInv, StatusInv, FailureInv,
     Publishing, CallerPc, Claiming, Waiting, Receiving, MailboxStatus, ResultCode,
     Codes, At, Return, Abort, agentVars, residentVars, failed
<1> QED
  BY <1>2, <1>3, <1>4, CallerInv, Zenon

(* The request is published as it was staged. *)
LEMMA publish_request_keeps ==
  ASSUME NEW a \in Arenas, Inv, publish_request(a)
  PROVE  Inv'
<1>1. Here(a)
  BY Locally, Zenon
<1>2. /\ CallerStep(a)
      /\ status[a] = "Staging" /\ status'[a] = "Published" /\ request'[a] = request[a]
      /\ caller[a] = "publish_request" /\ caller'[a] = "evaluate" /\ CallKept(a)
  BY <1>1 DEF publish_request, Here, TypeOK, Set, ArenaInv, StatusInv, Publishing,
     CallerStep, Only, MailboxKept, FailureKept, PayloadKept, BlockKept, CallKept,
     At, Goto, Abort, agentVars, residentVars
<1>3. ArenaInv(a)'
  <2>1. StatusInv(a)'
    BY <1>1, <1>2, Zenon DEF Here, ArenaInv, CallerStep, MailboxKept, FailureKept,
       BlockKept, Publishing, Waiting, Receiving, StatusInv, failed
  <2>2. FailureInv(a)'
    BY <1>1, <1>2, Zenon DEF Here, ArenaInv, CallerStep, FailureKept, BlockKept,
       FailureInv, failed
  <2>3. PayloadInv(a)'
    BY <1>1, <1>2, Zenon DEF Here, ArenaInv, CallerStep, MailboxKept, PayloadKept,
       BlockKept, CallKept, Claiming, Publishing, Waiting, Receiving, Codes,
       StatusInv, PayloadInv
  <2>4. ReturnInv(a)'
    BY <1>1, <1>2, Zenon DEF Here, ArenaInv, CallerStep, CallKept, Claiming,
       Publishing, Waiting, Receiving, Codes, PayloadInv, ReturnInv
  <2> QED
    BY <2>1, <2>2, <2>3, <2>4, Zenon DEF ArenaInv
<1>4. TypeOK'
  BY <1>1 DEF publish_request, Here, TypeOK, Set, ArenaInv, StatusInv, Publishing,
     CallerPc, Claiming, Waiting, Receiving, MailboxStatus, At, Goto, Abort,
     agentVars, residentVars
<1> QED
  BY <1>2, <1>3, <1>4, CallerInv, Zenon

(* A waiting caller finds Published or Evaluated, never Closed. *)
LEMMA evaluate_keeps ==
  ASSUME NEW a \in Arenas, Inv, evaluate(a)
  PROVE  Inv'
<1>1. Here(a)
  BY Locally, Zenon
<1>2. /\ CallerStep(a)
      /\ status[a] = "Evaluated" /\ MailboxKept(a) /\ CallKept(a)
      /\ caller[a] = "evaluate" /\ caller'[a] = "result"
  BY <1>1 DEF evaluate, Here, TypeOK, Set, ArenaInv, StatusInv, Waiting, CallerStep,
     Only, MailboxKept, FailureKept, PayloadKept, BlockKept, CallKept, At, Goto,
     Abort, agentVars, residentVars, arenaVars, mailboxVars
<1>3. ArenaInv(a)'
  <2>1. StatusInv(a)'
    BY <1>1, <1>2, Zenon DEF Here, ArenaInv, CallerStep, MailboxKept, FailureKept,
       BlockKept, Publishing, Waiting, Receiving, StatusInv, failed
  <2>2. FailureInv(a)'
    BY <1>1, <1>2, Zenon DEF Here, ArenaInv, CallerStep, FailureKept, BlockKept,
       FailureInv, failed
  <2>3. PayloadInv(a)'
    BY <1>1, <1>2, Zenon DEF Here, ArenaInv, CallerStep, MailboxKept, PayloadKept,
       BlockKept, CallKept, Claiming, Publishing, Waiting, Receiving, Codes,
       StatusInv, PayloadInv
  <2>4. ReturnInv(a)'
    BY <1>1, <1>2, Zenon DEF Here, ArenaInv, CallerStep, CallKept, Claiming,
       Publishing, Waiting, Receiving, Codes, PayloadInv, ReturnInv
  <2> QED
    BY <2>1, <2>2, <2>3, <2>4, Zenon DEF ArenaInv
<1>4. TypeOK'
  BY <1>1 DEF evaluate, Here, TypeOK, Set, ArenaInv, StatusInv, Waiting, CallerPc,
     Claiming, Publishing, Receiving, At, Goto, Abort, agentVars, residentVars,
     arenaVars, mailboxVars
<1> QED
  BY <1>2, <1>3, <1>4, CallerInv, Zenon

(* A caller gives a request up only when a failure is published. *)
LEMMA timed_out_keeps ==
  ASSUME NEW a \in Arenas, Inv, timed_out(a)
  PROVE  Inv'
<1>1. Here(a)
  BY Locally, Zenon
<1>2. /\ CallerStep(a)
      /\ MailboxKept(a) /\ call'[a] = call[a] /\ output'[a] = output[a]
      /\ caller[a] = "timed_out"
      /\ \/ failed(a) /\ caller'[a] = "ready" /\ returned'[a] \in Codes
         \/ caller'[a] = "trapped" /\ returned'[a] = returned[a]
  BY <1>1 DEF timed_out, Here, TypeOK, Set, Codes, CallerStep, Only, MailboxKept,
     FailureKept, PayloadKept, BlockKept, CallKept, At, Return, Abort, agentVars,
     residentVars, arenaVars, mailboxVars, failed
<1>3. ArenaInv(a)'
  <2>1. StatusInv(a)'
    BY <1>1, <1>2 DEF Here, ArenaInv, CallerStep, MailboxKept, FailureKept, BlockKept,
       Publishing, Waiting, Receiving, StatusInv, failed
  <2>2. FailureInv(a)'
    BY <1>1, <1>2, Zenon DEF Here, ArenaInv, CallerStep, FailureKept, BlockKept,
       FailureInv, failed
  <2>3. PayloadInv(a)'
    BY <1>1, <1>2, Zenon DEF Here, ArenaInv, CallerStep, MailboxKept, PayloadKept,
       BlockKept, CallKept, Claiming, Publishing, Waiting, Receiving, Codes,
       StatusInv, PayloadInv
  <2>4. ReturnInv(a)'
    BY <1>1, <1>2, Zenon DEF Here, ArenaInv, CallerStep, CallKept, Claiming,
       Publishing, Waiting, Receiving, Codes, PayloadInv, ReturnInv
  <2> QED
    BY <2>1, <2>2, <2>3, <2>4, Zenon DEF ArenaInv
<1>4. TypeOK'
  BY <1>1 DEF timed_out, Here, TypeOK, Set, CallerPc, Claiming, Publishing, Waiting,
     Receiving, ResultCode, Codes, At, Return, Abort, agentVars, residentVars,
     arenaVars, mailboxVars, failed
<1> QED
  BY <1>2, <1>3, <1>4, CallerInv, Zenon

(* The caller copies the output of an Ok result, or fails. *)
LEMMA observe_result_keeps ==
  ASSUME NEW a \in Arenas, Inv, observe_result(a)
  PROVE  Inv'
<1>1. Here(a)
  BY Locally, Zenon
<1>2. /\ CallerStep(a)
      /\ MailboxKept(a) /\ call'[a] = call[a] /\ output'[a] = output[a]
      /\ caller[a] = "result"
      /\ \/ result_code[a] = "Ok" /\ caller'[a] = "copy" /\ returned'[a] = returned[a]
         \/ caller'[a] = "close_evaluated" /\ returned'[a] \in Codes \cup {"Shutdown"}
  BY <1>1 DEF observe_result, observed_result, Here, TypeOK, Set, Codes, ResultCode,
     CallerStep, Only, MailboxKept, FailureKept, PayloadKept, BlockKept, CallKept,
     At, Goto, agentVars, residentVars, arenaVars, mailboxVars, failed
<1>3. ArenaInv(a)'
  <2>1. StatusInv(a)'
    BY <1>1, <1>2, Zenon DEF Here, ArenaInv, CallerStep, MailboxKept, FailureKept,
       BlockKept, Publishing, Waiting, Receiving, StatusInv, failed
  <2>2. FailureInv(a)'
    BY <1>1, <1>2, Zenon DEF Here, ArenaInv, CallerStep, FailureKept, BlockKept,
       FailureInv, failed
  <2>3. PayloadInv(a)'
    BY <1>1, <1>2, Zenon DEF Here, ArenaInv, CallerStep, MailboxKept, PayloadKept,
       BlockKept, CallKept, Claiming, Publishing, Waiting, Receiving, Codes,
       StatusInv, PayloadInv
  <2>4. ReturnInv(a)'
    BY <1>1, <1>2, Zenon DEF Here, ArenaInv, CallerStep, CallKept, Claiming,
       Publishing, Waiting, Receiving, Codes, PayloadInv, ReturnInv
  <2> QED
    BY <2>1, <2>2, <2>3, <2>4, Zenon DEF ArenaInv
<1>4. TypeOK'
  BY <1>1 DEF observe_result, observed_result, Here, TypeOK, Set, CallerPc,
     Claiming, Publishing, Waiting, Receiving, ResultCode, Codes, At, Goto,
     agentVars, residentVars, arenaVars, mailboxVars, failed
<1> QED
  BY <1>2, <1>3, <1>4, CallerInv, Zenon

(* The output that is copied belongs to this call. *)
LEMMA copy_output_keeps ==
  ASSUME NEW a \in Arenas, Inv, copy_output(a)
  PROVE  Inv'
<1>1. Here(a)
  BY Locally, Zenon
<1>2. /\ CallerStep(a)
      /\ MailboxKept(a) /\ call'[a] = call[a] /\ returned'[a] = returned[a]
      /\ caller[a] = "copy" /\ caller'[a] = "check_shutdown" /\ output'[a] = output_payload[a]
  BY <1>1 DEF copy_output, Here, TypeOK, Set, CallerStep, Only, MailboxKept,
     FailureKept, PayloadKept, BlockKept, CallKept, At, agentVars, residentVars,
     arenaVars, mailboxVars
<1>3. ArenaInv(a)'
  <2>1. StatusInv(a)'
    BY <1>1, <1>2, Zenon DEF Here, ArenaInv, CallerStep, MailboxKept, FailureKept,
       BlockKept, Publishing, Waiting, Receiving, StatusInv, failed
  <2>2. FailureInv(a)'
    BY <1>1, <1>2, Zenon DEF Here, ArenaInv, CallerStep, FailureKept, BlockKept,
       FailureInv, failed
  <2>3. PayloadInv(a)'
    BY <1>1, <1>2, Zenon DEF Here, ArenaInv, CallerStep, MailboxKept, PayloadKept,
       BlockKept, CallKept, Claiming, Publishing, Waiting, Receiving, Codes,
       StatusInv, PayloadInv
  <2>4. ReturnInv(a)'
    BY <1>1, <1>2, Zenon DEF Here, ArenaInv, CallerStep, CallKept, Claiming,
       Publishing, Waiting, Receiving, Codes, PayloadInv, ReturnInv
  <2> QED
    BY <2>1, <2>2, <2>3, <2>4, Zenon DEF ArenaInv
<1>4. TypeOK'
  BY <1>1 DEF copy_output, Here, TypeOK, Set, CallerPc, Claiming, Publishing,
     Waiting, Receiving, At, agentVars, residentVars, arenaVars, mailboxVars
<1> QED
  BY <1>2, <1>3, <1>4, CallerInv, Zenon

(* A shutdown does not take a result away. *)
LEMMA check_shutdown_keeps ==
  ASSUME NEW a \in Arenas, Inv, check_shutdown(a)
  PROVE  Inv'
<1>1. Here(a)
  BY Locally, Zenon
<1>2. /\ CallerStep(a)
      /\ MailboxKept(a) /\ call'[a] = call[a] /\ output'[a] = output[a]
      /\ caller[a] = "check_shutdown"
      /\ \/ caller'[a] = "acknowledge" /\ returned'[a] = returned[a]
         \/ caller'[a] = "close_evaluated" /\ returned'[a] = "Ok"
  BY <1>1 DEF check_shutdown, Here, TypeOK, Set, CallerStep, Only, MailboxKept,
     FailureKept, PayloadKept, BlockKept, CallKept, At, Goto, agentVars,
     residentVars, arenaVars, mailboxVars
<1>3. ArenaInv(a)'
  <2>1. StatusInv(a)'
    BY <1>1, <1>2 DEF Here, ArenaInv, CallerStep, MailboxKept, FailureKept, BlockKept,
       Publishing, Waiting, Receiving, StatusInv, failed
  <2>2. FailureInv(a)'
    BY <1>1, <1>2, Zenon DEF Here, ArenaInv, CallerStep, FailureKept, BlockKept,
       FailureInv, failed
  <2>3. PayloadInv(a)'
    BY <1>1, <1>2, Zenon DEF Here, ArenaInv, CallerStep, MailboxKept, PayloadKept,
       BlockKept, CallKept, Claiming, Publishing, Waiting, Receiving, Codes,
       StatusInv, PayloadInv
  <2>4. ReturnInv(a)'
    BY <1>1, <1>2, Zenon DEF Here, ArenaInv, CallerStep, CallKept, Claiming,
       Publishing, Waiting, Receiving, Codes, PayloadInv, ReturnInv
  <2> QED
    BY <2>1, <2>2, <2>3, <2>4, Zenon DEF ArenaInv
<1>4. TypeOK'
  BY <1>1 DEF check_shutdown, Here, TypeOK, Set, CallerPc, Claiming, Publishing,
     Waiting, Receiving, ResultCode, At, Goto, agentVars, residentVars, arenaVars,
     mailboxVars
<1> QED
  BY <1>2, <1>3, <1>4, CallerInv, Zenon

(* The mailbox is Idle again once its result is taken. *)
LEMMA acknowledge_keeps ==
  ASSUME NEW a \in Arenas, Inv, acknowledge(a)
  PROVE  Inv'
<1>1. Here(a)
  BY Locally, Zenon
<1>2. /\ CallerStep(a)
      /\ call'[a] = call[a] /\ output'[a] = output[a]
      /\ \/ /\ caller[a] = "acknowledge" /\ caller'[a] = "release" /\ returned'[a] = returned[a]
            /\ status'[a] = status[a] /\ request'[a] = 0
         \/ /\ caller[a] = "release" /\ caller'[a] = "ready" /\ returned'[a] = "Ok"
            /\ status'[a] = "Idle" /\ request'[a] = request[a]
  BY <1>1 DEF acknowledge, Here, TypeOK, Set, ArenaInv, StatusInv, Receiving,
     CallerStep, Only, MailboxKept, FailureKept, PayloadKept, BlockKept, CallKept,
     At, Goto, Return, Abort, agentVars, residentVars
<1>3. ArenaInv(a)'
  <2>1. StatusInv(a)'
    BY <1>1, <1>2 DEF Here, ArenaInv, CallerStep, MailboxKept, FailureKept, BlockKept,
       Publishing, Waiting, Receiving, StatusInv, failed
  <2>2. FailureInv(a)'
    BY <1>1, <1>2 DEF Here, ArenaInv, CallerStep, FailureKept, BlockKept, FailureInv,
       failed
  <2>3. PayloadInv(a)'
    BY <1>1, <1>2 DEF Here, ArenaInv, CallerStep, MailboxKept, PayloadKept, BlockKept,
       CallKept, Claiming, Publishing, Waiting, Receiving, Codes, StatusInv,
       PayloadInv
  <2>4. ReturnInv(a)'
    BY <1>1, <1>2, Zenon DEF Here, ArenaInv, CallerStep, CallKept, Claiming,
       Publishing, Waiting, Receiving, Codes, PayloadInv, ReturnInv
  <2> QED
    BY <2>1, <2>2, <2>3, <2>4, Zenon DEF ArenaInv
<1>4. TypeOK'
  BY <1>1 DEF acknowledge, Here, TypeOK, Set, ArenaInv, StatusInv, Receiving,
     CallerPc, Claiming, Publishing, Waiting, MailboxStatus, ResultCode, Codes, At,
     Goto, Return, Abort, agentVars, residentVars
<1> QED
  BY <1>2, <1>3, <1>4, CallerInv, Zenon

(* The caller closes an evaluated mailbox and keeps its result. *)
LEMMA close_evaluated_keeps ==
  ASSUME NEW a \in Arenas, Inv, close_evaluated(a)
  PROVE  Inv'
<1>1. Here(a)
  BY Locally, Zenon
<1>2. /\ CallerStep(a)
      /\ status'[a] = "Closed" /\ request'[a] = request[a] /\ CallKept(a)
      /\ caller[a] = "close_evaluated" /\ caller'[a] = "ready"
  BY <1>1 DEF close_evaluated, Here, TypeOK, Set, ArenaInv, StatusInv, CallerStep,
     Only, MailboxKept, FailureKept, PayloadKept, BlockKept, CallKept, At, Return,
     Abort, agentVars, residentVars
<1>3. ArenaInv(a)'
  <2>1. StatusInv(a)'
    BY <1>1, <1>2, Zenon DEF Here, ArenaInv, CallerStep, MailboxKept, FailureKept,
       BlockKept, Publishing, Waiting, Receiving, StatusInv, failed
  <2>2. FailureInv(a)'
    BY <1>1, <1>2, Zenon DEF Here, ArenaInv, CallerStep, FailureKept, BlockKept,
       FailureInv, failed
  <2>3. PayloadInv(a)'
    BY <1>1, <1>2, Zenon DEF Here, ArenaInv, CallerStep, MailboxKept, PayloadKept,
       BlockKept, CallKept, Claiming, Publishing, Waiting, Receiving, Codes,
       StatusInv, PayloadInv
  <2>4. ReturnInv(a)'
    BY <1>1, <1>2, Zenon DEF Here, ArenaInv, CallerStep, CallKept, Claiming,
       Publishing, Waiting, Receiving, Codes, PayloadInv, ReturnInv
  <2> QED
    BY <2>1, <2>2, <2>3, <2>4, Zenon DEF ArenaInv
<1>4. TypeOK'
  BY <1>1 DEF close_evaluated, Here, TypeOK, Set, ArenaInv, StatusInv, CallerPc,
     Claiming, Publishing, Waiting, Receiving, MailboxStatus, At, Return, Abort,
     agentVars, residentVars
<1> QED
  BY <1>2, <1>3, <1>4, CallerInv, Zenon

-----------------------------------------------------------------------------
(* Steps of the block and of the host. *)

(* The block opens a mailbox that nobody claims before. *)
LEMMA open_keeps ==
  ASSUME NEW a \in Arenas, Inv, open(a)
  PROVE  Inv'
<1>1. Here(a)
  BY Locally, Zenon
<1>2. /\ ServerStep(a)
      /\ status'[a] = "Idle" /\ result_code'[a] = result_code[a]
      /\ PayloadKept(a) /\ FailureKept(a)
      /\ block[a] = "open" /\ block'[a] = "fabric" /\ result'[a] = result[a]
  BY <1>1 DEF open, Here, TypeOK, Set, ArenaInv, StatusInv, ServerStep, Only,
     MailboxKept, FailureKept, PayloadKept, BlockKept, CallKept, In, Jump, outside,
     instanceVars
<1>3. ArenaInv(a)'
  <2>1. StatusInv(a)'
    BY <1>1, <1>2, Zenon DEF Here, ArenaInv, ServerStep, MailboxKept, FailureKept,
       BlockKept, Publishing, Waiting, Receiving, StatusInv, failed
  <2>2. FailureInv(a)'
    BY <1>1, <1>2, Zenon DEF Here, ArenaInv, ServerStep, FailureKept, BlockKept,
       FailureInv, failed
  <2>3. PayloadInv(a)'
    BY <1>1, <1>2, Zenon DEF Here, ArenaInv, ServerStep, MailboxKept, PayloadKept,
       BlockKept, CallKept, Claiming, Publishing, Waiting, Receiving, Codes,
       StatusInv, PayloadInv
  <2>4. ReturnInv(a)'
    BY <1>1, <1>2, Zenon DEF Here, ArenaInv, ServerStep, CallKept, Claiming,
       Publishing, Waiting, Receiving, Codes, PayloadInv, ReturnInv
  <2> QED
    BY <2>1, <2>2, <2>3, <2>4, Zenon DEF ArenaInv
<1>4. TypeOK'
  BY <1>1 DEF open, Here, TypeOK, Set, ArenaInv, StatusInv, BlockPc, MailboxStatus,
     In, Jump, outside, instanceVars
<1> QED
  BY <1>2, <1>3, <1>4, ServerInv, Zenon

(* What the block publishes is the canonical failure. *)
LEMMA publish_fabric_failure_keeps ==
  ASSUME NEW a \in Arenas, Inv, publish_fabric_failure(a)
  PROVE  Inv'
<1>1. Here(a)
  BY Locally, Zenon
<1>2. /\ ServerStep(a)
      /\ MailboxKept(a) /\ PayloadKept(a) /\ UNCHANGED fabric_failure
      /\ block[a] \in {"fabric", "mailbox_status", "mailbox_result", "publish_failure"}
      /\ \/ FailureKept(a) /\ block'[a] \in {"draining", "request_drain", "fabric"}
         \/ /\ FailureKept(a) /\ fabric_failure # "Ok"
            /\ block'[a] \in {"mailbox_status", "mailbox_result", "publish_failure"}
         \/ /\ fabric_failure # "Ok" /\ generation_failure_code'[a] = fabric_failure
            /\ block'[a] = "request_drain"
  BY <1>1 DEF publish_fabric_failure, unpublished, Here, TypeOK, Set, ArenaInv,
     FailureInv, ServerStep, Only, MailboxKept, FailureKept, PayloadKept, BlockKept,
     CallKept, In, Jump, JumpWith, outside, mailboxVars, instanceVars, failed
<1>3. ArenaInv(a)'
  <2>1. StatusInv(a)'
    BY <1>1, <1>2, Zenon DEF Here, ArenaInv, ServerStep, MailboxKept, FailureKept,
       BlockKept, Publishing, Waiting, Receiving, StatusInv, failed
  <2>2. FailureInv(a)'
    BY <1>1, <1>2, Zenon DEF Here, ArenaInv, ServerStep, FailureKept, BlockKept,
       FailureInv, failed
  <2>3. PayloadInv(a)'
    BY <1>1, <1>2, Zenon DEF Here, ArenaInv, ServerStep, MailboxKept, PayloadKept,
       BlockKept, CallKept, Claiming, Publishing, Waiting, Receiving, Codes,
       StatusInv, PayloadInv
  <2>4. ReturnInv(a)'
    BY <1>1, <1>2, Zenon DEF Here, ArenaInv, ServerStep, CallKept, Claiming,
       Publishing, Waiting, Receiving, Codes, PayloadInv, ReturnInv
  <2> QED
    BY <2>1, <2>2, <2>3, <2>4, Zenon DEF ArenaInv
<1>4. TypeOK'
  BY <1>1 DEF publish_fabric_failure, unpublished, Here, TypeOK, Set, ArenaInv,
     FailureInv, BlockPc, ResultCode, Codes, In, Jump, JumpWith, outside,
     mailboxVars, instanceVars, failed
<1> QED
  BY <1>2, <1>3, <1>4, ServerInv, Zenon

(* A block requests the drain of all. *)
LEMMA request_drain_keeps ==
  ASSUME NEW a \in Arenas, Inv, request_drain(a)
  PROVE  Inv'
<1>1. Here(a)
  BY Locally, Zenon
<1>2. /\ ServerStep(a)
      /\ MailboxKept(a) /\ PayloadKept(a) /\ FailureKept(a)
      /\ block[a] = "request_drain" /\ block'[a] \in {"draining", "fabric"}
  BY <1>1 DEF request_drain, Here, TypeOK, Set, ServerStep, Only, MailboxKept,
     FailureKept, PayloadKept, BlockKept, CallKept, In, Jump, JumpWith, outside,
     arenaVars, mailboxVars, instanceVars
<1>3. ArenaInv(a)'
  <2>1. StatusInv(a)'
    BY <1>1, <1>2, Zenon DEF Here, ArenaInv, ServerStep, MailboxKept, FailureKept,
       BlockKept, Publishing, Waiting, Receiving, StatusInv, failed
  <2>2. FailureInv(a)'
    BY <1>1, <1>2, Zenon DEF Here, ArenaInv, ServerStep, FailureKept, BlockKept,
       FailureInv, failed
  <2>3. PayloadInv(a)'
    BY <1>1, <1>2, Zenon DEF Here, ArenaInv, ServerStep, MailboxKept, PayloadKept,
       BlockKept, CallKept, Claiming, Publishing, Waiting, Receiving, Codes,
       StatusInv, PayloadInv
  <2>4. ReturnInv(a)'
    BY <1>1, <1>2, Zenon DEF Here, ArenaInv, ServerStep, CallKept, Claiming,
       Publishing, Waiting, Receiving, Codes, PayloadInv, ReturnInv
  <2> QED
    BY <2>1, <2>2, <2>3, <2>4, Zenon DEF ArenaInv
<1>4. TypeOK'
  BY <1>1 DEF request_drain, Here, TypeOK, Set, BlockPc, In, Jump, JumpWith,
     outside, arenaVars, mailboxVars, instanceVars
<1> QED
  BY <1>2, <1>3, <1>4, ServerInv, Zenon

(* A block that executes has found a published request. *)
LEMMA sample_keeps ==
  ASSUME NEW a \in Arenas, Inv, sample(a)
  PROVE  Inv'
<1>1. Here(a)
  BY Locally, Zenon
<1>2. /\ ServerStep(a)
      /\ MailboxKept(a) /\ PayloadKept(a) /\ FailureKept(a)
      /\ block[a] \in {"draining", "observe"}
      /\ \/ block'[a] \in {"publish_shutdown", "observe", "request_drain", "fabric"}
         \/ status[a] = "Published" /\ block'[a] = "execute"
  BY <1>1 DEF sample, Here, TypeOK, Set, ServerStep, Only, MailboxKept, FailureKept,
     PayloadKept, BlockKept, CallKept, In, Jump, JumpWith, outside, arenaVars,
     mailboxVars, instanceVars
<1>3. ArenaInv(a)'
  <2>1. StatusInv(a)'
    BY <1>1, <1>2, Zenon DEF Here, ArenaInv, ServerStep, MailboxKept, FailureKept,
       BlockKept, Publishing, Waiting, Receiving, StatusInv, failed
  <2>2. FailureInv(a)'
    BY <1>1, <1>2, Zenon DEF Here, ArenaInv, ServerStep, FailureKept, BlockKept,
       FailureInv, failed
  <2>3. PayloadInv(a)'
    BY <1>1, <1>2, Zenon DEF Here, ArenaInv, ServerStep, MailboxKept, PayloadKept,
       BlockKept, CallKept, Claiming, Publishing, Waiting, Receiving, Codes,
       StatusInv, PayloadInv
  <2>4. ReturnInv(a)'
    BY <1>1, <1>2, Zenon DEF Here, ArenaInv, ServerStep, CallKept, Claiming,
       Publishing, Waiting, Receiving, Codes, PayloadInv, ReturnInv
  <2> QED
    BY <2>1, <2>2, <2>3, <2>4, Zenon DEF ArenaInv
<1>4. TypeOK'
  BY <1>1 DEF sample, Here, TypeOK, Set, BlockPc, In, Jump, JumpWith, outside,
     arenaVars, mailboxVars, instanceVars
<1> QED
  BY <1>2, <1>3, <1>4, ServerInv, Zenon

(* An execution writes the output of the request in the mailbox. *)
LEMMA execute_request_keeps ==
  ASSUME NEW a \in Arenas, Inv, execute_request(a)
  PROVE  Inv'
<1>1. Here(a)
  BY Locally, Zenon
<1>2. /\ ServerStep(a)
      /\ MailboxKept(a) /\ FailureKept(a)
      /\ block[a] = "execute" /\ block'[a] = "publish_result"
      /\ \/ PayloadKept(a) /\ result'[a] \in Codes
         \/ output_payload'[a] = request[a] /\ result'[a] = "Ok"
  BY <1>1 DEF execute_request, Here, TypeOK, Set, Codes, ServerStep, Only,
     MailboxKept, FailureKept, PayloadKept, BlockKept, CallKept, In, JumpWith,
     outside, mailboxVars, instanceVars
<1>3. ArenaInv(a)'
  <2>1. StatusInv(a)'
    BY <1>1, <1>2, Zenon DEF Here, ArenaInv, ServerStep, MailboxKept, FailureKept,
       BlockKept, Publishing, Waiting, Receiving, StatusInv, failed
  <2>2. FailureInv(a)'
    BY <1>1, <1>2, Zenon DEF Here, ArenaInv, ServerStep, FailureKept, BlockKept,
       FailureInv, failed
  <2>3. PayloadInv(a)'
    <3>1. PayloadInv(a) /\ StatusInv(a)
      BY <1>1, Zenon DEF Here, ArenaInv
    <3>2. /\ request'[a] = request[a] /\ call'[a] = call[a] /\ output'[a] = output[a]
          /\ caller'[a] = caller[a]
          /\ status'[a] = status[a] /\ result_code'[a] = result_code[a]
      BY <1>2, Zenon DEF ServerStep, CallKept, MailboxKept
    <3>3. status[a] = "Published" /\ block'[a] = "publish_result" /\ "Ok" \notin Codes
      BY <1>2, <3>1, Zenon DEF StatusInv, Codes
    <3>4. caller[a] \notin Publishing \cup Receiving
      BY <3>1, <3>3, Zenon DEF StatusInv
    <3>5. CASE output_payload'[a] = output_payload[a] /\ result'[a] \in Codes
      BY <3>1, <3>2, <3>3, <3>5, Zenon DEF PayloadInv
    <3>6. CASE output_payload'[a] = request[a] /\ result'[a] = "Ok"
      BY <3>1, <3>2, <3>3, <3>4, <3>6, Zenon DEF PayloadInv, Receiving
    <3> QED
      BY <1>2, <3>5, <3>6, Zenon DEF PayloadKept
  <2>4. ReturnInv(a)'
    BY <1>1, <1>2, Zenon DEF Here, ArenaInv, ServerStep, CallKept, Claiming,
       Publishing, Waiting, Receiving, Codes, PayloadInv, ReturnInv
  <2> QED
    BY <2>1, <2>2, <2>3, <2>4, Zenon DEF ArenaInv
<1>4. TypeOK'
  BY <1>1 DEF execute_request, Here, TypeOK, Set, BlockPc, ResultCode, Codes, In,
     JumpWith, outside, mailboxVars, instanceVars
<1> QED
  BY <1>2, <1>3, <1>4, ServerInv, Zenon

(* The result goes to a request that is still published. *)
LEMMA publish_result_keeps ==
  ASSUME NEW a \in Arenas, Inv, publish_result(a)
  PROVE  Inv'
<1>1. Here(a)
  BY Locally, Zenon
<1>2. /\ ServerStep(a)
      /\ status'[a] = "Evaluated" /\ result_code'[a] = result[a]
      /\ PayloadKept(a) /\ FailureKept(a) /\ block'[a] \in {"fabric", "exit"}
      /\ block[a] \in {"publish_result", "finish_result"}
  BY <1>1 DEF publish_result, Here, TypeOK, Set, ArenaInv, StatusInv, ServerStep,
     Only, MailboxKept, FailureKept, PayloadKept, BlockKept, CallKept, In, Jump,
     outside, instanceVars
<1>3. ArenaInv(a)'
  <2>1. StatusInv(a)'
    BY <1>1, <1>2, Zenon DEF Here, ArenaInv, ServerStep, MailboxKept, FailureKept,
       BlockKept, Publishing, Waiting, Receiving, StatusInv, failed
  <2>2. FailureInv(a)'
    BY <1>1, <1>2, Zenon DEF Here, ArenaInv, ServerStep, FailureKept, BlockKept,
       FailureInv, failed
  <2>3. PayloadInv(a)'
    <3>1. PayloadInv(a) /\ StatusInv(a)
      BY <1>1, Zenon DEF Here, ArenaInv
    <3>2. /\ request'[a] = request[a] /\ output_payload'[a] = output_payload[a]
          /\ call'[a] = call[a] /\ output'[a] = output[a] /\ caller'[a] = caller[a]
      BY <1>2, Zenon DEF ServerStep, PayloadKept, CallKept
    <3>3. result[a] = "Ok" => output_payload[a] = request[a]
      BY <1>2, <3>1, Zenon DEF PayloadInv, Codes
    <3>4. caller[a] \in Waiting \cup {"result"} => request[a] = call[a]
      BY <3>1, Zenon DEF PayloadInv
    <3>5. /\ status'[a] = "Evaluated" /\ block'[a] \notin {"publish_result", "finish_result"}
          /\ result_code'[a] = result[a]
      BY <1>2, Zenon
    <3> QED
      BY <3>1, <3>2, <3>3, <3>4, <3>5, Zenon DEF PayloadInv
  <2>4. ReturnInv(a)'
    BY <1>1, <1>2, Zenon DEF Here, ArenaInv, ServerStep, CallKept, Claiming,
       Publishing, Waiting, Receiving, Codes, PayloadInv, ReturnInv
  <2> QED
    BY <2>1, <2>2, <2>3, <2>4, Zenon DEF ArenaInv
<1>4. TypeOK'
  BY <1>1 DEF publish_result, Here, TypeOK, Set, ArenaInv, StatusInv, PayloadInv,
     BlockPc, MailboxStatus, ResultCode, Codes, In, Jump, outside, instanceVars
<1> QED
  BY <1>2, <1>3, <1>4, ServerInv, Zenon

(* The shutdown word is published before the mailbox is closed. *)
LEMMA publish_shutdown_keeps ==
  ASSUME NEW a \in Arenas, Inv, publish_shutdown(a)
  PROVE  Inv'
<1>1. Here(a)
  BY Locally, Zenon
<1>2. /\ ServerStep(a)
      /\ MailboxKept(a) /\ PayloadKept(a) /\ FailureKept(a)
      /\ block[a] = "publish_shutdown" /\ block'[a] = "finish"
  BY <1>1 DEF publish_shutdown, Here, TypeOK, Set, ServerStep, Only, MailboxKept,
     FailureKept, PayloadKept, BlockKept, CallKept, In, Jump, outside, mailboxVars,
     instanceVars
<1>3. ArenaInv(a)'
  <2>1. StatusInv(a)'
    BY <1>1, <1>2, Zenon DEF Here, ArenaInv, ServerStep, MailboxKept, FailureKept,
       BlockKept, Publishing, Waiting, Receiving, StatusInv, failed
  <2>2. FailureInv(a)'
    BY <1>1, <1>2, Zenon DEF Here, ArenaInv, ServerStep, FailureKept, BlockKept,
       FailureInv, failed
  <2>3. PayloadInv(a)'
    BY <1>1, <1>2, Zenon DEF Here, ArenaInv, ServerStep, MailboxKept, PayloadKept,
       BlockKept, CallKept, Claiming, Publishing, Waiting, Receiving, Codes,
       StatusInv, PayloadInv
  <2>4. ReturnInv(a)'
    BY <1>1, <1>2, Zenon DEF Here, ArenaInv, ServerStep, CallKept, Claiming,
       Publishing, Waiting, Receiving, Codes, PayloadInv, ReturnInv
  <2> QED
    BY <2>1, <2>2, <2>3, <2>4, Zenon DEF ArenaInv
<1>4. TypeOK'
  BY <1>1 DEF publish_shutdown, Here, TypeOK, Set, BlockPc, In, Jump, outside,
     mailboxVars, instanceVars
<1> QED
  BY <1>2, <1>3, <1>4, ServerInv, Zenon

(* The block closes an Idle mailbox and answers a published request. *)
LEMMA finish_terminal_mailbox_keeps ==
  ASSUME NEW a \in Arenas, Inv, finish_terminal_mailbox(a)
  PROVE  Inv'
<1>1. Here(a)
  BY Locally, Zenon
<1>2. /\ ServerStep(a)
      /\ result_code'[a] = result_code[a] /\ PayloadKept(a) /\ FailureKept(a)
      /\ \/ /\ block[a] = "finish" /\ status'[a] = status[a]
            /\ block'[a] \in {"try_close_idle", "exit"}
         \/ /\ block[a] = "finish" /\ status[a] = "Published" /\ status'[a] = status[a]
            /\ block'[a] = "finish_failure"
         \/ /\ block[a] = "try_close_idle" /\ status[a] = "Idle" /\ status'[a] = "Closed"
            /\ block'[a] = "exit"
         \/ /\ block[a] = "try_close_idle" /\ status'[a] = status[a] /\ block'[a] = "finish"
         \/ /\ block[a] = "finish_failure" /\ status'[a] = status[a]
            /\ block'[a] = "finish_result" /\ result'[a] \in Codes \cup {"Shutdown"}
  BY <1>1 DEF finish_terminal_mailbox, Here, TypeOK, Set, ArenaInv, StatusInv,
     Codes, MailboxStatus, ServerStep, Only, MailboxKept, FailureKept, PayloadKept,
     BlockKept, CallKept, In, Jump, JumpWith, outside, instanceVars, failed
<1>3. ArenaInv(a)'
  <2>1. StatusInv(a)'
    BY <1>1, <1>2, Zenon DEF Here, ArenaInv, ServerStep, MailboxKept, FailureKept,
       BlockKept, Publishing, Waiting, Receiving, StatusInv, failed
  <2>2. FailureInv(a)'
    BY <1>1, <1>2, Zenon DEF Here, ArenaInv, ServerStep, FailureKept, BlockKept,
       FailureInv, failed
  <2>3. PayloadInv(a)'
    BY <1>1, <1>2, Zenon DEF Here, ArenaInv, ServerStep, MailboxKept, PayloadKept,
       BlockKept, CallKept, Claiming, Publishing, Waiting, Receiving, Codes,
       StatusInv, PayloadInv
  <2>4. ReturnInv(a)'
    BY <1>1, <1>2, Zenon DEF Here, ArenaInv, ServerStep, CallKept, Claiming,
       Publishing, Waiting, Receiving, Codes, PayloadInv, ReturnInv
  <2> QED
    BY <2>1, <2>2, <2>3, <2>4, Zenon DEF ArenaInv
<1>4. TypeOK'
  BY <1>1 DEF finish_terminal_mailbox, Here, TypeOK, Set, ArenaInv, StatusInv,
     MailboxStatus, BlockPc, ResultCode, Codes, In, Jump, JumpWith, outside,
     instanceVars, failed
<1> QED
  BY <1>2, <1>3, <1>4, ServerInv, Zenon

(* complete keeps the invariant: a block that exits has opened its mailbox. *)
LEMMA complete_keeps ==
  ASSUME Inv, complete
  PROVE  Inv'
<1>1. /\ TypeOK /\ HostInv /\ \A a \in Arenas : block[a] = "exit" /\ ArenaInv(a)
      /\ block' = [a \in Arenas |-> "done"]
      /\ UNCHANGED <<arenaVars, result, drain_requested, host, fabric_failure, instanceVars>>
  BY Zenon DEF complete, In, outside, Inv
<1>2. TypeOK'
  BY <1>1 DEF TypeOK, BlockPc, arenaVars, mailboxVars, instanceVars
<1>3. HostInv'
  BY <1>1 DEF HostInv, leases, instanceVars
<1>4. ASSUME NEW a \in Arenas PROVE ArenaInv(a)'
  <2>1. ArenaInv(a) /\ block[a] = "exit" /\ block'[a] = "done"
    BY <1>1
  <2>2. StatusInv(a)' /\ FailureInv(a)'
    BY <1>1, <2>1, Zenon DEF arenaVars, mailboxVars, instanceVars, ArenaInv,
       StatusInv,
       FailureInv, failed
  <2>3. PayloadInv(a)' /\ ReturnInv(a)'
    BY <1>1, <2>1, Zenon DEF arenaVars, mailboxVars, instanceVars, ArenaInv,
       PayloadInv,
       ReturnInv
  <2> QED
    BY <2>2, <2>3, Zenon DEF ArenaInv
<1> QED
  BY <1>2, <1>3, <1>4, Zenon DEF Inv

(* activate keeps the invariant: before it no block exists. *)
LEMMA activate_keeps ==
  ASSUME Inv, activate
  PROVE  Inv'
<1>1. /\ TypeOK /\ HostInv /\ host = "created" /\ host' = "active"
      /\ \A a \in Arenas : ArenaInv(a)
      /\ block' = [a \in Arenas |-> "open"]
      /\ UNCHANGED <<arenaVars, result, drain_requested, fabric_failure, instanceVars>>
  BY Zenon DEF activate, Inv
<1>2. TypeOK'
  BY <1>1 DEF TypeOK, BlockPc, arenaVars, mailboxVars, instanceVars
<1>3. HostInv'
  BY <1>1 DEF HostInv, leases, instanceVars
<1>4. ASSUME NEW a \in Arenas PROVE ArenaInv(a)'
  <2>1. ArenaInv(a) /\ block[a] = "none" /\ block'[a] = "open"
    BY <1>1 DEF HostInv
  <2>2. StatusInv(a)' /\ FailureInv(a)'
    BY <1>1, <2>1, Zenon DEF arenaVars, mailboxVars, instanceVars, ArenaInv,
       StatusInv,
       FailureInv, failed
  <2>3. PayloadInv(a)' /\ ReturnInv(a)'
    BY <1>1, <2>1, Zenon DEF arenaVars, mailboxVars, instanceVars, ArenaInv,
       PayloadInv,
       ReturnInv
  <2> QED
    BY <2>2, <2>3, Zenon DEF ArenaInv
<1> QED
  BY <1>2, <1>3, <1>4, Zenon DEF Inv

(* The steps of the host that touch no arena keep the invariant. *)
LEMMA host_keeps ==
  ASSUME Inv, drain_async \/ drain_pending \/ destroy_arenas
  PROVE  Inv'
<1>1. /\ TypeOK /\ HostInv /\ \A a \in Arenas : ArenaInv(a)
      /\ UNCHANGED <<arenaVars, block, result, fabric_failure, instanceVars>>
  BY Zenon DEF drain_async, drain_pending, destroy_arenas, Inv, residentVars
<1>2. TypeOK'
  <2>1. host' \in {"draining", "released", "destroyed"} /\ drain_requested' \in BOOLEAN
    BY <1>1, Zenon DEF drain_async, drain_pending, destroy_arenas, TypeOK,
       residentVars
  <2> QED
    BY <1>1, <2>1 DEF TypeOK, arenaVars, mailboxVars, instanceVars
<1>3. HostInv'
  <2>1. UNCHANGED leases
    BY <1>1, Zenon DEF leases, instanceVars
  <2>2. CASE drain_async
    BY <1>1, <2>1, <2>2 DEF HostInv, drain_async
  <2>3. CASE drain_pending
    BY <1>1, <2>1, <2>3 DEF HostInv, drain_pending, In
  <2>4. CASE destroy_arenas
    BY <1>1, <2>1, <2>4 DEF HostInv, destroy_arenas
  <2> QED
    BY <2>2, <2>3, <2>4, Zenon
<1>4. ASSUME NEW a \in Arenas PROVE ArenaInv(a)'
  BY <1>1, Zenon DEF arenaVars, mailboxVars, instanceVars, ArenaInv, StatusInv,
     FailureInv, PayloadInv, ReturnInv, failed
<1> QED
  BY <1>2, <1>3, <1>4, Zenon DEF Inv

(* A canonical failure keeps the invariant: none was published before it. *)
LEMMA fabric_fails_keeps ==
  ASSUME Inv, fabric_fails
  PROVE  Inv'
<1>1. /\ TypeOK /\ HostInv /\ \A a \in Arenas : ArenaInv(a)
      /\ fabric_failure = "Ok" /\ fabric_failure' \in Codes
      /\ UNCHANGED <<arenaVars, residentVars, host, instanceVars>>
  BY Zenon DEF fabric_fails, Inv
<1>2. TypeOK'
  BY <1>1 DEF TypeOK, arenaVars, mailboxVars, residentVars, instanceVars
<1>3. HostInv'
  BY <1>1 DEF HostInv, leases, instanceVars, residentVars
<1>4. ASSUME NEW a \in Arenas PROVE ArenaInv(a)'
  <2>1. ArenaInv(a) /\ fabric_failure' # "Ok"
    BY <1>1 DEF Codes
  <2>2. StatusInv(a)' /\ FailureInv(a)'
    BY <1>1, <2>1, Zenon DEF arenaVars, mailboxVars, residentVars, instanceVars,
       ArenaInv, StatusInv, FailureInv, failed
  <2>3. PayloadInv(a)'
    BY <1>1, <2>1 DEF arenaVars, mailboxVars, residentVars, instanceVars, ArenaInv,
       PayloadInv
  <2>4. ReturnInv(a)'
    BY <1>1, <2>1, Zenon DEF arenaVars, mailboxVars, residentVars, instanceVars,
       ArenaInv, ReturnInv
  <2> QED
    BY <2>2, <2>3, <2>4, Zenon DEF ArenaInv
<1> QED
  BY <1>2, <1>3, <1>4, Zenon DEF Inv

(* Inv is an invariant of Transport, whatever fails and however the two    *)
(* sides' accesses interleave.                                             *)
THEOREM Invariance == Spec => []Inv
<1>1. Init => Inv
  <2> SUFFICES ASSUME Init PROVE Inv
    OBVIOUS
  <2>1. TypeOK
    BY Zenon DEF Init, TypeOK, MailboxStatus, ResultCode, BlockPc, CallerPc
  <2>2. HostInv
    BY DEF Init, HostInv, leases
  <2>3. ASSUME NEW a \in Arenas PROVE ArenaInv(a)
    <3>1. /\ status[a] = "Dormant" /\ block[a] = "none" /\ ~failed(a)
          /\ caller[a] = "attaching" /\ returned[a] = "Ok"
          /\ request[a] = 0 /\ output_payload[a] = 0
          /\ call[a] = 0 /\ output[a] = 0
      BY DEF Init, failed
    <3> QED
      BY <3>1 DEF Codes, Claiming, Publishing, Waiting, Receiving, ArenaInv,
         StatusInv, FailureInv, PayloadInv, ReturnInv
  <2> QED
    BY <2>1, <2>2, <2>3 DEF Inv
<1>2. Inv /\ [Next]_vars => Inv'
  <2> SUFFICES ASSUME Inv, [Next]_vars PROVE Inv'
    OBVIOUS
  <2>1. ASSUME NEW a \in Arenas,
               attach(a) \/ detach(a) \/ crash(a) \/ submit(a) \/ time_out(a)
        PROVE  Inv'
    BY Zenon, <2>1, attach_keeps, detach_keeps, crash_keeps, submit_keeps, time_out_keeps
  <2>2. ASSUME NEW a \in Arenas, KernelStep(a) PROVE Inv'
    BY Zenon, <2>2, claim_keeps, claim_terminal_keeps, stage_keeps, publish_check_keeps,
       close_staging_keeps, publish_request_keeps, evaluate_keeps, timed_out_keeps,
       observe_result_keeps, copy_output_keeps, check_shutdown_keeps,
       acknowledge_keeps, close_evaluated_keeps DEF KernelStep
  <2>3. ASSUME NEW a \in Arenas, BlockStep(a) PROVE Inv'
    BY Zenon, <2>3, open_keeps, publish_fabric_failure_keeps, request_drain_keeps,
       sample_keeps, execute_request_keeps, publish_result_keeps,
       publish_shutdown_keeps, finish_terminal_mailbox_keeps DEF BlockStep
  <2>4. CASE UNCHANGED vars
    BY <2>4 DEF vars, arenaVars, mailboxVars, residentVars, instanceVars, Inv,
       TypeOK, HostInv, leases, ArenaInv, StatusInv,
                FailureInv, PayloadInv, ReturnInv, failed
  <2> QED
    BY <2>1, <2>2, <2>3, <2>4, complete_keeps, activate_keeps, host_keeps,
       fabric_fails_keeps DEF Next
<1> QED
  BY <1>1, <1>2, PTL DEF Spec

(* A call that returns Ok returns the output of its own request, for any   *)
(* number of arenas and calls: the mailbox is never acknowledged with the  *)
(* result of a request that its caller gave up.                            *)
THEOREM OutputSafe == Spec => []OwnOutput
<1>1. Inv => OwnOutput
  BY DEF Inv, ArenaInv, ReturnInv, OwnOutput
<1> QED
  BY <1>1, Invariance, PTL

(* No transition of a mailbox finds it in a status that its precondition   *)
(* excludes, on either side.                                               *)
THEOREM StatusSafe == Spec => []NoStatusAbort
<1>1. Inv => NoStatusAbort
  BY Zenon DEF Inv, TypeOK, NoStatusAbort, BlockPc
<1> QED
  BY <1>1, Invariance, PTL

(* Device state is freed only when no kernel of either side can touch it.  *)
THEOREM FreeSafe == Spec => []NoUseAfterFree
<1>1. Inv => NoUseAfterFree
  BY DEF Inv, HostInv, NoUseAfterFree
<1> QED
  BY <1>1, Invariance, PTL

(* The step ends a pending call with a failure, or with Ok once its request *)
(* was executed; or it changes nothing that a caller sees.                  *)
MayReturn(a) ==
  /\ returned[a] = "pending" /\ UNCHANGED <<call, output_payload>>
  /\ \/ UNCHANGED returned
     \/ \E code \in Codes \cup {"Shutdown", "Ok"} :
           /\ code = "Ok" => output_payload[a] = call[a]
           /\ returned' = Set(returned, a, code)

(* Such a step is one of the promise, or hidden. *)
LEMMA Returns ==
  ASSUME NEW a \in Arenas, MayReturn(a)
  PROVE  Promise!Next \/ UNCHANGED <<call, output_payload, returned>>
<1>1. CASE UNCHANGED returned
  BY <1>1 DEF MayReturn
<1>2. CASE ~UNCHANGED returned
  <2>1. PICK code \in Codes \cup {"Shutdown", "Ok"} :
          /\ code = "Ok" => output_payload[a] = call[a]
          /\ returned' = [returned EXCEPT ![a] = code]
    BY <1>2, Zenon DEF MayReturn, Set
  <2>2. returned[a] = "pending" /\ UNCHANGED <<call, output_payload>>
    BY Zenon DEF MayReturn
  <2> QED
    BY <2>1, <2>2, Zenon DEF Promise!Next, Promise!Return, Codes
<1> QED
  BY <1>1, <1>2, Zenon

(* Every step of an Instance's kernel is a step of the promise, or hidden. *)
LEMMA KernelMaps ==
  ASSUME NEW a \in Arenas, Inv, KernelStep(a)
  PROVE  Promise!Next \/ UNCHANGED <<call, output_payload, returned>>
<1>1. TypeOK /\ ArenaInv(a)
  BY Zenon DEF Inv
<1>2. caller[a] \in Claiming \cup Publishing \cup Waiting \cup Receiving
        => returned[a] = "pending"
  BY <1>1, Zenon DEF ArenaInv, ReturnInv
<1>3. CASE claim(a)
  <2>1. MayReturn(a)
    BY <1>1, <1>2, <1>3 DEF claim, Claiming, failed, MayReturn, TypeOK, Codes,
       ResultCode, At, Goto, Return, Abort, agentVars, residentVars, arenaVars,
       mailboxVars
  <2> QED
    BY <2>1, Returns, Zenon
<1>4. CASE claim_terminal(a)
  <2>1. MayReturn(a)
    BY <1>1, <1>2, <1>4 DEF claim_terminal, Claiming, failed, MayReturn, TypeOK,
       Codes, ResultCode, At, Goto, Return, Abort, agentVars, residentVars,
       arenaVars, mailboxVars
  <2> QED
    BY <2>1, Returns, Zenon
<1>5. CASE close_staging(a)
  <2>1. MayReturn(a)
    BY <1>1, <1>2, <1>5 DEF close_staging, Publishing, ArenaInv, FailureInv,
       failed, MayReturn, TypeOK, Codes, ResultCode, At, Goto, Return, Abort,
       agentVars, residentVars, arenaVars, mailboxVars
  <2> QED
    BY <2>1, Returns, Zenon
<1>6. CASE timed_out(a)
  <2>1. MayReturn(a)
    BY <1>1, <1>2, <1>6 DEF timed_out, Waiting, failed, MayReturn, TypeOK, Codes,
       ResultCode, At, Goto, Return, Abort, agentVars, residentVars, arenaVars,
       mailboxVars
  <2> QED
    BY <2>1, Returns, Zenon
<1>7. CASE observe_result(a)
  <2>1. MayReturn(a)
    BY <1>1, <1>2, <1>7 DEF observe_result, Receiving, observed_result, MayReturn,
       TypeOK, Codes, ResultCode, At, Goto, Return, Abort, agentVars,
       residentVars, arenaVars, mailboxVars
  <2> QED
    BY <2>1, Returns, Zenon
<1>8. CASE check_shutdown(a)
  <2>1. MayReturn(a)
    BY <1>1, <1>2, <1>8 DEF check_shutdown, Receiving, ArenaInv, PayloadInv,
       MayReturn, TypeOK, Codes,
       ResultCode, At, Goto, Return, Abort, agentVars, residentVars, arenaVars,
       mailboxVars
  <2> QED
    BY <2>1, Returns, Zenon
<1>9. CASE acknowledge(a)
  <2>1. MayReturn(a)
    BY <1>1, <1>2, <1>9 DEF acknowledge, Receiving, ArenaInv, PayloadInv,
       MayReturn, TypeOK, Codes, ResultCode, At, Goto, Return, Abort, agentVars,
       residentVars, arenaVars, mailboxVars
  <2> QED
    BY <2>1, Returns, Zenon
<1>10. CASE close_evaluated(a)
  BY <1>1, <1>10 DEF close_evaluated, Set, TypeOK, Return, Abort, At, Goto,
     agentVars, residentVars, arenaVars, mailboxVars
<1>11. CASE stage(a) \/ publish_check(a) \/ publish_request(a) \/ evaluate(a) \/ copy_output(a)
  BY <1>11 DEF stage, publish_check, publish_request, evaluate, copy_output, At,
     Goto,
     Abort, agentVars, residentVars, arenaVars, mailboxVars
<1> QED
  BY <1>3, <1>4, <1>5, <1>6, <1>7, <1>8, <1>9, <1>10, <1>11, Zenon DEF KernelStep

(* Every step of a block is hidden but the execution of a request, which   *)
(* was not executed before.                                                *)
LEMMA BlockMaps ==
  ASSUME NEW a \in Arenas, Inv, BlockStep(a)
  PROVE  Promise!Next \/ UNCHANGED <<call, output_payload, returned>>
<1>1. CASE execute_request(a)
  <2>1. TypeOK /\ StatusInv(a) /\ PayloadInv(a)
    BY DEF Inv, ArenaInv
  <2>2. UNCHANGED <<call, returned>>
    BY <1>1 DEF execute_request, In, Jump, JumpWith, outside, instanceVars
  <2>3. CASE output_payload' = Set(output_payload, a, request[a])
    <3>1. request[a] \in output_payload[a] + 1 .. call[a]
      BY <1>1, <2>1 DEF execute_request, In, TypeOK, StatusInv, PayloadInv,
         Claiming, Publishing, Waiting
    <3> QED
      BY <2>2, <2>3, <3>1, Zenon DEF Promise!Next, Promise!Execute, Set
  <2> QED
    BY <1>1, <2>2, <2>3 DEF execute_request, In, Jump, JumpWith, outside,
       instanceVars
<1>2. CASE ~execute_request(a)
  BY <1>2, Zenon DEF In, Jump, JumpWith, outside, instanceVars, arenaVars,
     mailboxVars, BlockStep, open, publish_fabric_failure, request_drain, sample,
              publish_result, publish_shutdown, finish_terminal_mailbox
<1> QED
  BY <1>1, <1>2

(* Transport implements synchronous calls that run at most once and that   *)
(* succeed only with their own result.                                     *)
THEOREM Refinement == Spec => CallPromise
<1>1. Init => Promise!Init
  BY DEF Init, Promise!Init
<1>2. Inv /\ [Next]_vars => [Promise!Next]_<<call, output_payload, returned>>
  <2> SUFFICES ASSUME Inv, [Next]_vars
               PROVE  Promise!Next \/ UNCHANGED <<call, output_payload, returned>>
    OBVIOUS
  <2>1. ASSUME NEW a \in Arenas, submit(a) PROVE Promise!Next
    <3>1. returned[a] # "pending"
      BY <2>1 DEF Inv, ArenaInv, ReturnInv, submit, At
    <3> QED
      BY <2>1, <3>1, Zenon DEF submit, At, Goto, agentVars, residentVars, arenaVars,
         mailboxVars, Promise!Next, Promise!Call, Set
  <2>2. ASSUME NEW a \in Arenas,
               attach(a) \/ detach(a) \/ crash(a) \/ time_out(a)
        PROVE  UNCHANGED <<call, output_payload, returned>>
    BY <2>2 DEF attach, detach, crash, time_out,
       At, Goto, Return, Abort, agentVars, residentVars, arenaVars, mailboxVars
  <2>3. CASE complete \/ activate \/ drain_async \/ drain_pending
             \/ destroy_arenas \/ fabric_fails
    BY <2>3 DEF complete, activate, drain_async, drain_pending, destroy_arenas,
                fabric_fails, outside, arenaVars, mailboxVars, residentVars, instanceVars
  <2>4. CASE UNCHANGED vars
    BY <2>4 DEF vars, arenaVars, mailboxVars, residentVars, instanceVars
  <2> QED
    BY <2>1, <2>2, <2>3, <2>4, KernelMaps, BlockMaps DEF Next
<1> QED
  BY <1>1, <1>2, Invariance, PTL DEF Spec, CallPromise, Promise!Spec
=============================================================================
