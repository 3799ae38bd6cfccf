---------------------------- MODULE MCEcsChannel ----------------------------
(* A group of two ranks, two commands and three demands; the revision word  *)
(* is exhausted by the third publication of a cell.                         *)
EXTENDS EcsChannel, TLC

QuotaVectors == {<<1, 2>>, <<2, 1>>}
RequirementVectors == {<<2, 3>>}
=============================================================================
