---------------------------- MODULE MCLifecycle -----------------------------
(***************************************************************************)
(* One attention device, one FFN device and one Instance rank; the second  *)
(* process of a place is a replacement.                                    *)
(***************************************************************************)
EXTENDS Lifecycle

CONSTANTS a1, f1, r1, pa, pa2, pf, pr

MCAgents == {a1, f1}
MCAtn == {a1}
MCFfn == {f1}
MCRanks == {r1}
MCDevice == [r \in {r1} |-> a1]

First == {pa, pf, pr}
Both == {pa, pa2, pf, pr}
PlaceOf(p) == CASE p \in {pa, pa2} -> a1 [] p = pf -> f1 [] p = pr -> r1
FirstSlot == [p \in First |-> PlaceOf(p)]
BothSlot == [p \in Both |-> PlaceOf(p)]
MCSpares == {pa2}
NoSpares == {}
=============================================================================
