---------------------------- MODULE MCTransport ----------------------------
(* One or two arenas of an AtnAgent; with two, one may drain because of the  *)
(* other.                                                                   *)
EXTENDS Transport, TLC

One == [a \in Arenas |-> 1]
Two == [a \in Arenas |-> 2]
TwoOne == "a" :> 2 @@ "b" :> 1

Mixed == "a" :> {"timeout", "fabric"} @@ "b" :> {"crash"}
RejectCrash == [a \in Arenas |-> {"reject", "crash"}]
Reject == [a \in Arenas |-> {"reject"}]
=============================================================================
