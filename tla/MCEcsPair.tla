----------------------------- MODULE MCEcsPair -----------------------------
(* Two Instances, one rank each, that share one attention device. *)
EXTENDS EcsCapacity, TLC

PairInstanceOf == 0 :> "a" @@ 1 :> "b"
PairDevicesOf == 0 :> {"d1"} @@ 1 :> {"d1"}
PairFloor == <<0, "d1">> :> 1 @@ <<1, "d1">> :> 1
PairReservation == <<0, "d1">> :> 4 @@ <<1, "d1">> :> 3
LenderReservation == <<0, "d1">> :> 3 @@ <<1, "d1">> :> 2
PairHeadroom == <<0, "d1">> :> 0 @@ <<1, "d1">> :> 1
PairTotal == "d1" :> 8
PairOther == "d1" :> 2
PairSequence == [g \in Groups |-> 3]
LenderSequence == 0 :> 2 @@ 1 :> 3
=============================================================================
