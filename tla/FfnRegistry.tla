---------------------------- MODULE FfnRegistry ----------------------------
(***************************************************************************)
(* One FfnAgent from the plan to the end of its process: it admits and     *)
(* loads the weights of its layers, joins the Fabric, captures one pair of *)
(* graphs per execution signature and Lane, installs them natively,        *)
(* releases what only the construction needed, serves, and gives back what *)
(* the native execution borrowed (runtime/ffnagent/registry.py, agent.py,  *)
(* capture_workspace.py).                                                  *)
(*                                                                         *)
(* CUDA, the BLAS libraries and the native execution are external: a call  *)
(* into them succeeds or raises, and a source cache that is looked at      *)
(* after a capture has whatever content the library gave it.               *)
(***************************************************************************)
EXTENDS Naturals, Sequences, FiniteSets, SequencesExt

CONSTANTS
    Instances,   \* per Instance of the plan: the row maximum of its profile, and its layers,
                 \* each with whether it is local and the layout its signatures depend on
    LaneCount,   \* executor_lane_count
    Keys,        \* identities of the source caches (BLAS workspaces) the contract declares
    Addresses,   \* places a source cache can have
    None

VARIABLES
    pc,         \* where the Agent's main thread is
    weights,    \* who owns the service weights: None, "agent" or "registry"
    signatures, \* construct_execution's signatures, in order of first appearance
    layers,     \* its native_layers
    lanes,      \* the Registry's capture_lanes
    pairs,      \* capture_weight_pairs: layout -> the layer that lends the primary weights
    captures,   \* lane_descriptors, the Lane under construction last
    native,     \* native execution: None, "joined", "installed", "retired"
    installed   \* the descriptor the native side consumed

vars == <<pc, weights, signatures, layers, lanes, pairs, captures, native, installed>>

held == <<weights, signatures, layers, lanes, pairs, captures, native, installed>>

NewLane == [stream |-> FALSE, pool |-> FALSE, graphs |-> 0, tensors |-> FALSE,
            sources |-> [k \in {} |-> None], sealed |-> FALSE]

Init ==
    /\ pc = "plan"
    /\ weights = None
    /\ signatures = <<>>
    /\ layers = <<>>
    /\ lanes = <<>>
    /\ pairs = [b \in {} |-> None]
    /\ captures = <<>>
    /\ native = None
    /\ installed = <<>>

----------------------------------------------------------------------------
\* Signatures

\* The increasing powers of two below the maximum, then the maximum.
derive_payload_row_capacities(maximum) ==
    SetToSortSeq({2 ^ i : i \in {j \in 0 .. maximum : 2 ^ j < maximum}}, <) \o <<maximum>>

\* The layers in the order construct_execution walks them, each with its place
\* in the plan, its layout and the signatures it needs.
LocalLayers ==
    LET OfInstance(i) ==
            LET places == SelectSeq([l \in DOMAIN Instances[i].layers |-> l],
                                    LAMBDA l : Instances[i].layers[l].local)
                rows   == derive_payload_row_capacities(Instances[i].rows)
            IN  [n \in DOMAIN places |->
                    [at |-> <<i, places[n]>>, layout |-> Instances[i].layers[places[n]].layout,
                     needs |-> [r \in DOMAIN rows |->
                                  <<Instances[i].layers[places[n]].layout, rows[r]>>]]]
    IN  FlattenSeq([i \in DOMAIN Instances |-> OfInstance(i)])

\* Probes are shared by all capacities of one layout.
capture_weight_pair_key(signature) == signature[1]

\* Equal signatures are captured once: a signature gets the next index when it
\* is new and keeps it for every later layer.
collapse(seen, layer) ==
    FoldLeft(LAMBDA s, need : IF need \in ToSet(s) THEN s ELSE Append(s, need), seen, layer.needs)

index_of(s, signature) == CHOOSE n \in DOMAIN s : s[n] = signature

\* The layer whose weights a signature was first met with.
representative(n) ==
    LocalLayers[CHOOSE l \in DOMAIN LocalLayers :
                    /\ signatures[n] \in ToSet(LocalLayers[l].needs)
                    /\ \A m \in 1 .. l - 1 : signatures[n] \notin ToSet(LocalLayers[m].needs)].at

----------------------------------------------------------------------------
\* Preparation of the join

\* Anything that raises before the join leaves only local owners: close_role
\* releases them and the Agent ends.
prejoin_fails ==
    /\ pc \in {"plan", "load", "join_ready"}
    /\ pc' = "exited"
    /\ weights' = None
    /\ UNCHANGED <<signatures, layers, lanes, pairs, captures, native, installed>>

\* Lane count, contract and free memory agree with the plan.
admit ==
    /\ pc = "plan"
    /\ pc' = "load"
    /\ UNCHANGED held

prepare_fabric_join ==
    /\ pc = "load"
    /\ weights' = "agent"
    /\ pc' = "join_ready"
    /\ UNCHANGED <<signatures, layers, lanes, pairs, captures, native, installed>>

join ==
    /\ pc = "join_ready"
    /\ native' = "joined"
    /\ pc' = "joined"
    /\ UNCHANGED <<weights, signatures, layers, lanes, pairs, captures, installed>>

----------------------------------------------------------------------------
\* Construction

\* An exception after the join: the Registry keeps what it has, and the Agent
\* takes part in the abort of the generation.
raises ==
    /\ pc \in {"joined", "construct", "lane", "initialize", "pool", "pair", "tensors", "primary",
               "control", "lane_done", "install", "release", "trim",
               "execution_ready", "active"}
    /\ pc' = "aborting"
    /\ UNCHANGED held

\* The Registry takes the weights over from the Agent and consumes its one
\* attempt.
prepare_fabric_execution ==
    /\ pc = "joined"
    /\ weights = "agent"
    /\ weights' = "registry"
    /\ pc' = "construct"
    /\ UNCHANGED <<signatures, layers, lanes, pairs, captures, native, installed>>

construct_execution ==
    /\ pc = "construct"
    /\ \E s \in {FoldLeft(collapse, <<>>, LocalLayers)} :
        /\ signatures' = s
        /\ layers' = [l \in DOMAIN LocalLayers |->
                        [at |-> LocalLayers[l].at,
                         execution_signature_indices |->
                            [n \in DOMAIN LocalLayers[l].needs |-> index_of(s, LocalLayers[l].needs[n])]]]
    /\ pc' = "lane"
    /\ UNCHANGED <<weights, lanes, pairs, captures, native, installed>>

Lane == lanes[Len(lanes)]

Signature == Len(captures[Len(captures)]) + 1

\* The Lane is retained before it acquires anything.
append_lane ==
    /\ pc = "lane"
    /\ lanes' = Append(lanes, NewLane)
    /\ captures' = Append(captures, <<>>)
    /\ pc' = IF signatures # <<>> THEN "initialize" ELSE "lane_done"
    /\ UNCHANGED <<weights, signatures, layers, pairs, native, installed>>

initialize_stream ==
    /\ pc = "initialize"
    /\ ~Lane.sealed
    /\ lanes' = [lanes EXCEPT ![Len(lanes)].stream = TRUE]
    /\ pc' = "pool"
    /\ UNCHANGED <<weights, signatures, layers, pairs, captures, native, installed>>

initialize_pool ==
    /\ pc = "pool"
    /\ lanes' = [lanes EXCEPT ![Len(lanes)].pool = TRUE]
    /\ pc' = "pair"
    /\ UNCHANGED <<weights, signatures, layers, pairs, captures, native, installed>>

\* The probe of a layout is allocated by the first signature that needs it,
\* on the first Lane, and the pair keeps the weights it was made for.
find_pair ==
    /\ pc = "pair"
    /\ \E key \in {capture_weight_pair_key(signatures[Signature])} :
        pairs' = IF key \in DOMAIN pairs THEN pairs
                 ELSE [k \in DOMAIN pairs \cup {key} |->
                            IF k = key THEN representative(Signature) ELSE pairs[k]]
    /\ pc' = "tensors"
    /\ UNCHANGED <<weights, signatures, layers, lanes, captures, native, installed>>

allocate_placeholders ==
    /\ pc = "tensors"
    /\ lanes' = [lanes EXCEPT ![Len(lanes)].tensors = TRUE]
    /\ pc' = "primary"
    /\ UNCHANGED <<weights, signatures, layers, pairs, captures, native, installed>>

\* What the library's cache may look like after a launch on the Lane's stream,
\* inside the declared limits: any declared caches, anywhere.
Caches == UNION {[ks -> Addresses] : ks \in SUBSET Keys}

\* Mutant: only the presence of the caches is compared.
SourcesPresent(before, observed) == DOMAIN before \subseteq DOMAIN observed

\* A cache that was there may neither vanish nor move.
snapshot_source_resources(before, observed) ==
    /\ DOMAIN before \subseteq DOMAIN observed
    /\ \A k \in DOMAIN before : observed[k] = before[k]

\* Warm-up, capture and observation of one graph, which uses some of the
\* caches; an observation the checks refuse raises with the graph retained.
capture_graph(record(_, _)) ==
    /\ Lane.pool /\ Lane.stream /\ ~Lane.sealed
    /\ \E observed \in Caches :
        IF snapshot_source_resources(Lane.sources, observed)
        THEN /\ lanes' = [lanes EXCEPT ![Len(lanes)].graphs = @ + 1,
                                       ![Len(lanes)].sources = observed]
             /\ \E used \in SUBSET DOMAIN observed : record(observed, used)
        ELSE /\ lanes' = [lanes EXCEPT ![Len(lanes)].graphs = @ + 1]
             /\ captures' = captures
             /\ pc' = "aborting"

capture_primary ==
    /\ pc = "primary"
    /\ capture_graph(
        LAMBDA observed, used :
            /\ captures' = [captures EXCEPT ![Len(captures)] =
                    Append(@, [signature |-> signatures[Signature],
                               primary |-> pairs[capture_weight_pair_key(signatures[Signature])],
                               ranges |-> [k \in used |-> observed[k]]])]
            /\ pc' = "control")
    /\ UNCHANGED <<weights, signatures, layers, pairs, native, installed>>

\* The two graphs of a pair must use the same caches.
capture_control ==
    /\ pc = "control"
    /\ capture_graph(
        LAMBDA observed, used :
            /\ captures' = captures
            /\ pc' = IF used # DOMAIN captures[Len(captures)][Signature - 1].ranges THEN "aborting"
                     ELSE IF Signature > Len(signatures) THEN "lane_done" ELSE "pair")
    /\ UNCHANGED <<weights, signatures, layers, pairs, native, installed>>

finish_lane ==
    /\ pc = "lane_done"
    /\ pc' = IF Len(lanes) = LaneCount THEN "install" ELSE "lane"
    /\ UNCHANGED held

----------------------------------------------------------------------------
\* Installation and release of what only the construction needed

install_execution ==
    /\ pc = "install"
    /\ native' = "installed"
    /\ installed' = captures
    /\ pc' = "release"
    /\ UNCHANGED <<weights, signatures, layers, lanes, pairs, captures>>

\* The first Lane that is not sealed yet.
Unsealed == {l \in DOMAIN lanes : ~lanes[l].sealed}

Next_unsealed == CHOOSE l \in Unsealed : \A m \in Unsealed : l <= m

\* release_capture_resources of one Lane: synchronise, reset the graphs one by
\* one, give the BLAS workspaces back and seal, keeping pool and stream.
reset_graph ==
    /\ pc = "release" /\ Unsealed # {}
    /\ lanes[Next_unsealed].graphs > 0
    /\ lanes' = [lanes EXCEPT ![Next_unsealed].graphs = @ - 1]
    /\ UNCHANGED <<pc, weights, signatures, layers, pairs, captures, native, installed>>

Sealed(lane) == [lane EXCEPT !.tensors = FALSE, !.sources = NewLane.sources, !.sealed = TRUE]

seal_lane ==
    /\ pc = "release" /\ Unsealed # {}
    /\ lanes[Next_unsealed].graphs = 0
    /\ lanes' = [lanes EXCEPT ![Next_unsealed] = Sealed(@)]
    /\ UNCHANGED <<pc, weights, signatures, layers, pairs, captures, native, installed>>

\* With every Lane sealed the probes go too, and the construction's locals.
release_capture_resources ==
    /\ pc = "release" /\ Unsealed = {}
    /\ pairs' = [b \in {} |-> None]
    /\ captures' = <<>>
    /\ pc' = "trim"
    /\ UNCHANGED <<weights, signatures, layers, lanes, native, installed>>

trim ==
    /\ pc = "trim"
    /\ pc' = "execution_ready"
    /\ UNCHANGED held

activate_fabric ==
    /\ pc = "execution_ready"
    /\ pc' = "active"
    /\ UNCHANGED held

----------------------------------------------------------------------------
\* Retirement

\* The coordinated shutdown: drained and finalised by all PEs.
finalize ==
    /\ pc = "active"
    /\ native' = "retired"
    /\ pc' = "stopped"
    /\ UNCHANGED <<weights, signatures, layers, lanes, pairs, captures, installed>>

\* Registry.close: the last Lane, which is sealed, loses its pool and its
\* stream, and only then leaves the list.
close_lane ==
    /\ pc = "stopped" /\ lanes # <<>>
    /\ lanes' = Front(lanes)
    /\ UNCHANGED <<pc, weights, signatures, layers, pairs, captures, native, installed>>

\* Destroying the stream raises: the pool is gone, and the Agent keeps the rest.
close_raises ==
    /\ pc = "stopped" /\ lanes # <<>>
    /\ lanes' = [lanes EXCEPT ![Len(lanes)].pool = FALSE]
    /\ pc' = "retained"
    /\ UNCHANGED <<weights, signatures, layers, pairs, captures, native, installed>>

close_role ==
    /\ pc = "stopped" /\ lanes = <<>>
    /\ weights' = None
    /\ pairs' = [b \in {} |-> None]
    /\ pc' = "exited"
    /\ UNCHANGED <<signatures, layers, lanes, captures, native, installed>>

\* An aborted generation ends with the process once every peer has drained,
\* without releasing anything first, or the Agent stays.
abort_stopped ==
    /\ pc = "aborting"
    /\ pc' = "exited"
    /\ weights' = None /\ lanes' = <<>> /\ pairs' = [b \in {} |-> None] /\ native' = None
    /\ UNCHANGED <<signatures, layers, captures, installed>>

retain ==
    /\ pc = "aborting"
    /\ pc' = "retained"
    /\ UNCHANGED held

Done ==
    /\ pc \in {"exited", "retained"}
    /\ UNCHANGED vars

Next ==
    \/ prejoin_fails \/ admit \/ prepare_fabric_join \/ join
    \/ raises \/ prepare_fabric_execution \/ construct_execution
    \/ append_lane \/ initialize_stream \/ initialize_pool \/ find_pair \/ allocate_placeholders
    \/ capture_primary \/ capture_control \/ finish_lane
    \/ install_execution \/ reset_graph \/ seal_lane \/ release_capture_resources
    \/ trim \/ activate_fabric
    \/ finalize \/ close_lane \/ close_raises \/ close_role \/ abort_stopped \/ retain
    \/ Done

Spec == Init /\ [][Next]_vars

----------------------------------------------------------------------------
\* Properties

\* What the native execution borrows outlives it: while it may run, the
\* Registry owns the service weights, and every Lane of the installed
\* descriptor has its pool and its stream (Registry.close runs only after the
\* coordinated shutdown, release_capture_resources keeps backing and stream).
BackingHeld ==
    native = "installed" =>
        /\ weights = "registry"
        /\ Len(lanes) = LaneCount
        /\ \A l \in DOMAIN lanes : lanes[l].pool = (signatures # <<>>) /\ lanes[l].stream = (signatures # <<>>)

\* Each installed layer runs the graph captured for its own layout at each of
\* its capacities, in increasing order, on every Lane; the weights lent to that
\* capture have the same layout (signature_indices, representatives and
\* capture_weight_pairs of construct_execution).
LayersBound ==
    native = "installed" =>
        \A l \in DOMAIN layers, lane \in 1 .. LaneCount :
            \A n \in DOMAIN layers[l].execution_signature_indices :
                \E i \in {layers[l].at[1]} :
                \E layout \in {Instances[i].layers[layers[l].at[2]].layout} :
                \E capture \in {installed[lane][layers[l].execution_signature_indices[n]]} :
                    /\ capture.signature = <<layout, derive_payload_row_capacities(Instances[i].rows)[n]>>
                    /\ Instances[capture.primary[1]].layers[capture.primary[2]].layout = layout
                    /\ Instances[capture.primary[1]].layers[capture.primary[2]].local

\* All graphs of a Lane use a source cache at one address, so that the backing
\* its pool keeps is the backing each of them needs
\* (snapshot_source_resources).
SourcesStable ==
    \A lane \in DOMAIN installed :
        \A m, n \in DOMAIN installed[lane] :
            \A k \in DOMAIN installed[lane][m].ranges \cap DOMAIN installed[lane][n].ranges :
                installed[lane][m].ranges[k] = installed[lane][n].ranges[k]
============================================================================
