------------------------------ MODULE MCMemory ------------------------------
(***************************************************************************)
(* Who owns device memory, one part in each behaviour.  Two small          *)
(* Instances: "full" has two TP ranks and Full attention only, "both" one  *)
(* rank and two components.  Pages of four bytes lie on bundles of three:  *)
(* page 1 on bundles 1 and 2, where 1 is pinned, page 2 on 2 and 3, page 3 *)
(* on 4 and 5.  The second request shares the first one's prefix.          *)
(* "layout" enumerates geometries, held bundles and free pages.  On the    *)
(* FFN side, "placement" places models on two or three agents, "loader"    *)
(* loads one layer of each kind, and "registry" captures two Instances     *)
(* that share a layout on two Lanes.                                       *)
(***************************************************************************)
EXTENDS Integers, FiniteSets, Sequences, TLC

CONSTANTS None, MaxFaults

VARIABLES which,
          \* ElasticMemory
          mem, plan, work, status, prefix, locks, swaLocks, rows, decodes,
          phase, selected, wants, order, command, deferred, commands, faults,
          \* FfnPlacement
          request, placing, solution, class, residual, groups, outcome,
          \* WeightLoader
          layer, rank, view, loading, reads, reader, slots, content, messages, copying, copied,
          finished, failed, cancelled,
          \* FfnRegistry
          building, weights, signatures, layers, lanes, pairs, captures, native, installed

Layout(n) == [rows |-> n, row_bytes |-> 2, tokens_per_row |-> 1,
              page |-> 2, granularity |-> 3, buffers |-> 1]

Full == INSTANCE ElasticMemory WITH
  Layouts <- <<Layout(8)>>, Reqs <- 1 .. 2, TpSize <- 2, Need <- <<2, 1>>,
  Shares <- <<None, 1>>, ChunkLimit <- 1, Lookahead <- 0, Window <- 1, MaxDecode <- 1,
  Depth <- 1, Targets <- {6, 12, 18}, MaxCommands <- 2

Both == INSTANCE ElasticMemory WITH
  Layouts <- <<Layout(8), Layout(8)>>, Reqs <- 1 .. 2, TpSize <- 1, Need <- <<2, 1>>,
  Shares <- <<None, 1>>, ChunkLimit <- 1, Lookahead <- 0, Window <- 1, MaxDecode <- 1,
  Depth <- 1, Targets <- {12, 36}, MaxCommands <- 2

G == INSTANCE KvLayout

Geometries ==
  {l \in [rows : 3 .. 4, row_bytes : 1 .. 3, tokens_per_row : 1 .. 2, page : 1 .. 2,
          granularity : 1 .. 4, buffers : {1}] :
     G!KvVmmLayout(l) /\ G!PoolProfile(l).capacity <= 4}

(* A rank's storage of some geometry, in any state its own checks accept.  *)
Storage ==
  UNION {{[layout |-> l, held |-> (0 .. G!PoolProfile(l).floor - 1) \cup h, free |-> f] :
            h \in SUBSET (0 .. G!PoolProfile(l).capacity - 1), f \in SUBSET G!PageIds(l)} :
         l \in Geometries}

-----------------------------------------------------------------------------
Model(tp, kinds, n) == [tp |-> tp, kinds |-> kinds, rows |-> n]
Dense == "dense"
Moe == "moe"
PlacementRequests ==
  {[models |-> <<Model(tp, kinds, n)>>, free |-> free] :
     tp \in 0 .. 3, kinds \in {<<Dense, Dense>>, <<Moe, Dense>>, <<Moe, Moe>>}, n \in 1 .. 2,
     free \in {<<30, 30>>, <<60, 40>>, <<90, 90>>, <<200, 56>>}}
  \cup {[models |-> <<Model(2, kinds, 1)>>, free |-> free] :
     kinds \in {<<Moe, Moe>>, <<Dense, Dense, Dense>>}, free \in {<<40, 40, 40>>, <<50, 30, 90>>}}
  \cup {[models |-> <<Model(1, kinds, 2), Model(2, <<Dense>>, 1)>>, free |-> free] :
     kinds \in {<<Dense>>, <<Moe>>}, free \in {<<40, 40>>, <<60, 60>>}}
P == INSTANCE FfnPlacement WITH
  Requests <- PlacementRequests, Width <- 6, Quantum <- 2, Segment <- 4, Lanes <- 2, Margin <- 2,
  Calibrated <- TRUE, pc <- placing

Layer(kind, width, shared, quantized, biased, corrected, source, target) ==
  [kind |-> kind, width |-> width, routed |-> 1, shared |-> shared, quantized |-> quantized,
   biased |-> biased, corrected |-> corrected, source_order |-> source, target_order |-> target]
Parts == {"gate", "up", "down", "gate_up", "shared_gate", "shared_up", "shared_down", "router"}
Split == [p \in Parts |-> IF p \in {"down", "shared_up"} THEN "b" ELSE "a"]
Whole == [p \in Parts |-> "a"]
C == "concatenated"
I == "interleaved"
LayerRequests ==
  {[view |-> Split, layer |-> Layer("dense", 4, 0, FALSE, TRUE, FALSE, C, C)],
   [view |-> Whole, layer |-> Layer("stacked", 12, 0, TRUE, TRUE, FALSE, I, C)],
   [view |-> Split, layer |-> Layer("stacked", 4, 0, TRUE, FALSE, FALSE, I, I)],
   [view |-> Whole, layer |-> Layer("stacked", 2, 2, FALSE, TRUE, TRUE, C, I)],
   [view |-> Whole, layer |-> Layer("per_expert", 2, 1, FALSE, FALSE, TRUE, C, C)],
   [view |-> Whole, layer |-> Layer("per_expert", 3, 1, FALSE, FALSE, TRUE, C, C)]}
W == INSTANCE WeightLoader WITH
  Requests <- LayerRequests, Tp <- 2, Pack <- 2, Block <- 4, Parallelism <- 2,
  pc <- loading, work <- reads

Local(layout) == [local |-> TRUE, layout |-> layout]
Remote(layout) == [local |-> FALSE, layout |-> layout]
PlanInstances ==
  <<[rows |-> 1, layers |-> <<Local("x"), Local("y")>>],
    [rows |-> 2, layers |-> <<Remote("z"), Local("x")>>]>>
R == INSTANCE FfnRegistry WITH
  Instances <- PlanInstances, LaneCount <- 2, Keys <- {"blas"}, Addresses <- {1, 2},
  pc <- building

-----------------------------------------------------------------------------
Vars == <<mem, plan, work, status, prefix, locks, swaLocks, rows, decodes, phase,
          selected, wants, order, command, deferred, commands, faults>>
placementVars == <<request, placing, solution, class, residual, groups, outcome>>
loaderVars == <<layer, rank, view, loading, reads, reader, slots, content, messages, copying,
                copied, finished, failed, cancelled>>
registryVars == <<building, weights, signatures, layers, lanes, pairs, captures, native, installed>>

IdleMemory ==
  /\ plan = None /\ work = None /\ status = None /\ prefix = None /\ locks = None
  /\ swaLocks = None /\ rows = None /\ decodes = None /\ phase = None
  /\ selected = None /\ wants = None /\ order = None /\ command = None
  /\ deferred = None /\ commands = None /\ faults = None

IdlePlacement ==
  /\ request = None /\ placing = None /\ solution = None /\ class = None
  /\ residual = None /\ groups = None /\ outcome = None

IdleLoader ==
  /\ layer = None /\ rank = None /\ view = None /\ loading = None /\ reads = None
  /\ reader = None /\ slots = None /\ content = None /\ messages = None /\ copying = None
  /\ copied = None /\ finished = None /\ failed = None /\ cancelled = None

Init ==
  /\ which \in {"full", "both", "layout", "placement", "loader", "registry"}
  /\ CASE which = "full" -> Full!Init
       [] which = "both" -> Both!Init
       [] which = "layout" -> mem \in Storage /\ IdleMemory
       [] OTHER -> mem = None /\ IdleMemory
  /\ IF which = "placement" THEN P!Init ELSE IdlePlacement
  /\ IF which = "loader" THEN W!Init ELSE IdleLoader
  /\ R!Init

Next ==
  \/ which = "full" /\ Full!Next /\ UNCHANGED <<which, placementVars, loaderVars, registryVars>>
  \/ which = "both" /\ Both!Next /\ UNCHANGED <<which, placementVars, loaderVars, registryVars>>
  \/ which = "placement" /\ P!Next /\ UNCHANGED <<which, Vars, loaderVars, registryVars>>
  \/ which = "loader" /\ W!Next /\ UNCHANGED <<which, Vars, placementVars, registryVars>>
  \/ which = "registry" /\ R!Next /\ UNCHANGED <<which, Vars, placementVars, loaderVars>>

Spec == Init /\ [][Next]_<<which, Vars, placementVars, loaderVars, registryVars>>

(* Full!PagesBacked and Both!PagesBacked.                                  *)
PagesBacked ==
  /\ which = "full" => Full!PagesBacked
  /\ which = "both" => Both!PagesBacked

(* Full!OwnersExact and Both!OwnersExact, with what was prepared.          *)
OwnersExact ==
  /\ which = "full" => Full!OwnersExact /\ Full!PreparedSuffices
  /\ which = "both" => Both!OwnersExact /\ Both!PreparedSuffices

(***************************************************************************)
(* The counting by prefix sums is exact for every geometry, also when rows *)
(* straddle bundles and pages straddle rows: missing_bundle_counts counts  *)
(* the bundles of a page's bytes that are not held, and empty_bundles      *)
(* finds the unpinned bundles no owned page touches.                       *)
(***************************************************************************)
CountsExact ==
  which = "layout" =>
    LET l == mem.layout IN
      /\ G!empty_bundles(l, mem.held, mem.free) = G!Unowned(l, mem.held, mem.free)
      /\ \A p \in G!PageIds(l) :
           G!missing_bundle_counts(l, mem.held, p) =
             Cardinality({b \in 0 .. G!PoolProfile(l).capacity - 1 :
                            G!Touches(l, p, b) /\ b \notin mem.held})

(***************************************************************************)
(* What is charged is what is mapped (ElasticMemory!ChargesExact), and the *)
(* counts of bundles that charges are made of are exact.                   *)
(***************************************************************************)
ChargesExact ==
  /\ which = "full" => Full!ChargesExact
  /\ which = "both" => Both!ChargesExact
  /\ CountsExact

(***************************************************************************)
(* A placement that is answered fits every agent, in the memory recomputed *)
(* layer by layer, and takes the solver's counts apart exactly             *)
(* (FfnPlacement!PlacementExact).                                          *)
(***************************************************************************)
PlacementExact == which = "placement" => P!PlacementExact

(***************************************************************************)
(* A loaded shard holds exactly its part of the checkpoint, the ranks'     *)
(* shards add up, and the loading thread never waits for a message nobody  *)
(* will send (WeightLoader!ShardsExact, OwnerNeverStuck).                  *)
(***************************************************************************)
LoadingExact == which = "loader" => W!ShardsExact /\ W!OwnerNeverStuck

(***************************************************************************)
(* The native execution runs the graph of each layer's own layout and      *)
(* capacity, on backing that outlives it and caches that did not move      *)
(* (FfnRegistry!BackingHeld, LayersBound, SourcesStable).                  *)
(***************************************************************************)
ExecutionBacked == R!BackingHeld /\ R!LayersBound /\ R!SourcesStable
=============================================================================
