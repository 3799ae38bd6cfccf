---------------------------- MODULE MCEcsTeams ----------------------------
(* Two Instances, each one TP group of two ranks on the same two devices:   *)
(* every command is a vector.                                               *)
EXTENDS EcsCapacity, TLC

TeamsInstanceOf == 0 :> "a" @@ 1 :> "b"
TeamsDevicesOf == [g \in Groups |-> {"d1", "d2"}]
TeamsFloor == [p \in Partitions |-> 1]
TeamsReservation == <<0, "d1">> :> 2 @@ <<0, "d2">> :> 3 @@ <<1, "d1">> :> 1 @@ <<1, "d2">> :> 2
TeamsHeadroom == [p \in Partitions |-> 0]
TeamsTotal == "d1" :> 5 @@ "d2" :> 6
TeamsOther == "d1" :> 1 @@ "d2" :> 1
TeamsSequence == 0 :> 2 @@ 1 :> 2
=============================================================================
