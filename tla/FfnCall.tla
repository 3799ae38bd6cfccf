------------------------------ MODULE FfnCall ------------------------------
(* What Transport promises an Instance rank: a synchronous FFN call that is  *)
(* executed at most once, and that succeeds only with its own result.        *)
EXTENDS Naturals

CONSTANT Arenas, Failures

VARIABLES
    called,     \* the number of calls made through each arena
    executed,   \* the last call that was executed
    returned    \* how each caller's last call ended, "pending" meanwhile

Init ==
    /\ called = [a \in Arenas |-> 0]
    /\ executed = [a \in Arenas |-> 0]
    /\ returned = [a \in Arenas |-> "Ok"]

Call(a) ==
    /\ returned[a] # "pending"
    /\ called' = [called EXCEPT ![a] = @ + 1]
    /\ returned' = [returned EXCEPT ![a] = "pending"]
    /\ UNCHANGED executed

\* Possibly after the caller gave up.
Execute(a) ==
    /\ \E n \in executed[a] + 1 .. called[a] :
          executed' = [executed EXCEPT ![a] = n]
    /\ UNCHANGED <<called, returned>>

Return(a) ==
    /\ returned[a] = "pending"
    /\ \E r \in Failures \cup {"Ok"} :
          /\ r = "Ok" => executed[a] = called[a]
          /\ returned' = [returned EXCEPT ![a] = r]
    /\ UNCHANGED <<called, executed>>

Next == \E a \in Arenas : Call(a) \/ Execute(a) \/ Return(a)

Spec == Init /\ [][Next]_<<called, executed, returned>>
=============================================================================
