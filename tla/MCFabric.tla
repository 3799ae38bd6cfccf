------------------------------ MODULE MCFabric ------------------------------
(***************************************************************************)
(* Two attention and two FFN devices.  Instance 1 spans both attention     *)
(* devices with two TP ranks and runs a MoE layer on both FFN devices;     *)
(* instance 2 has one rank and two dense layers, on the second FFN device  *)
(* and on both.                                                            *)
(***************************************************************************)
EXTENDS Fabric

CONSTANTS a1, a2, f1, f2

MCAtns == {a1, a2}
MCFfns == {f1, f2}
MCGroup == <<<<a1, a2>>, <<a1>>>>
MCTeam == <<<<<<f1, f2>>>>, <<<<f2>>, <<f2, f1>>>>>>
MCShape == <<[tp |-> 2, dp |-> 1, groupSum |-> TRUE, decode |-> 2, prefill |-> 2],
             [tp |-> 1, dp |-> 1, groupSum |-> TRUE, decode |-> 2, prefill |-> 2]>>
MCRouted == {<<1, 1>>}

Rows(n, requirement) ==
  [layer |-> 1, rows |-> n, requirement |-> requirement, layout |-> "none",
   rankRows |-> n, mode |-> "decode"]
Same(n, u) == [r \in 1..n |-> u]

Single == <<Same(1, Rows(1, "per_rank"))>>
Wide == <<Same(1, [Rows(2, "group_sum") EXCEPT !.layer = 2])>>

(* Both instances on the one Lane; instance 1 alone with a second call,    *)
(* with ranks that disagree, and with a rank that does not fit; instance 2 *)
(* alone on both FFN devices.                                              *)
MCPlans ==
  {<<<<Same(2, Rows(2, "per_rank"))>>, Single>>,
   <<<<Same(2, Rows(1, "per_rank")), Same(2, Rows(2, "group_sum"))>>, <<>>>>,
   <<<<<<Rows(1, "per_rank"), Rows(2, "per_rank")>>>>, <<>>>>,
   <<<<<<Rows(1, "per_rank"), Rows(3, "per_rank")>>>>, <<>>>>,
   <<<<>>, Wide>>}
SmallPlans == {p \in MCPlans : p[2] = <<>> \/ p[1] = <<>>}
=============================================================================
