---------------------------- MODULE FfnPlacement ----------------------------
(***************************************************************************)
(* The placement of FFN layers on FfnAgents under their memory.  Layers    *)
(* with equal per-rank resources form a class; the solver only counts, per *)
(* class, TP rank and agent, how many layers go there, and charges each    *)
(* resource an agent's layers share once.  The counts are then taken apart *)
(* into concrete TP groups, and the memory of the resulting plan is        *)
(* recomputed layer by layer and compared with the solver's.               *)
(*                                                                         *)
(* request holds the models (tp, the kinds of their layers, the payload    *)
(* row capacity) and the free bytes of the agents.  Sizes are small        *)
(* numbers: Width is the intermediate width, Quantum its encoding          *)
(* alignment, Segment the allocator's segment.  The solver is the external *)
(* CP-SAT: it answers any optimum, that there is none, or that its time is *)
(* over.                                                                   *)
(***************************************************************************)
EXTENDS Integers, FiniteSets, Sequences, FiniteSetsExt, SequencesExt, Functions, TLC

CONSTANTS Requests, Width, Quantum, Segment, Lanes, Margin, Calibrated

VARIABLES request, pc, solution, class, residual, groups, outcome

vars == <<request, pc, solution, class, residual, groups, outcome>>

AgentCount == Len(request.free)
Agents == 0 .. AgentCount - 1
Models == DOMAIN request.models
TpSize(m) == IF request.models[m].tp = 0 THEN AgentCount ELSE request.models[m].tp
Ranks(m) == 0 .. TpSize(m) - 1
Layers(m) == DOMAIN request.models[m].kinds

CeilTo(n, unit) == ((n + unit - 1) \div unit) * unit

(***************************************************************************)
(* Preparation of one layer for one TP rank.                               *)
(***************************************************************************)
Least(a, b) == IF a < b THEN a ELSE b

prepare_ffn_layer(kind, tp, rank) ==
  LET stride == IF kind = "dense" THEN Width \div tp ELSE CeilTo(Width, tp * Quantum) \div tp
      start == Least(rank * stride, Width)
  IN  [kind |-> kind, stride |-> stride, start |-> start,
       length |-> Least((rank + 1) * stride, Width) - start, router |-> kind = "moe" /\ rank = 0]

weight_allocation_bytes(layout) == 3 * layout.stride + IF layout.router THEN 1 ELSE 0

derive_payload_row_capacities(rows) == {c \in {1, 2, 4, 8} : c < rows} \cup {rows}

execution_signatures(layout, rows) ==
  {[kind |-> layout.kind, stride |-> layout.stride, router |-> layout.router, capacity |-> c] :
     c \in derive_payload_row_capacities(rows)}

capture_weight_pair_key(sig) == [sig EXCEPT !.capacity = 1]

allocator_reservation_bytes(bytes) == CeilTo(bytes, Segment)

RankRow(m, l, rank) ==
  LET layout == prepare_ffn_layer(request.models[m].kinds[l], TpSize(m), rank)
  IN  [weight |-> weight_allocation_bytes(layout),
       allowance |-> allocator_reservation_bytes(weight_allocation_bytes(layout)) - weight_allocation_bytes(layout),
       signatures |-> execution_signatures(layout, request.models[m].rows)]

ClassOf(m, l) == [model |-> m, rows |-> [r \in Ranks(m) |-> RankRow(m, l, r)]]
Classes == UNION {{ClassOf(m, l) : l \in Layers(m)} : m \in Models}
Members(c) == {l \in Layers(c.model) : ClassOf(c.model, l) = c}
LayerCount(c) == Cardinality(Members(c))

(***************************************************************************)
(* The memory of one agent: layers is the number of layers it holds,       *)
(* capacities the number of their signatures, sigs the set of signatures.  *)
(***************************************************************************)
capture_bytes(sig) == sig.capacity + 2
compute_workspace_bytes(sig) == sig.capacity * sig.stride
routers(sigs) == {s \in sigs : s.router}
denses(sigs) == {s \in sigs : s.kind = "dense"}

(* One backing per signature, and the declared ones some signature uses.   *)
ExecutionResourcePlan(sigs) ==
  {[key |-> <<"compute", s>>, bytes |-> compute_workspace_bytes(s), users |-> {s}] : s \in sigs}
  \cup {g \in {[key |-> <<"dense">>, bytes |-> Segment, users |-> denses(sigs)],
               [key |-> <<"moe_router">>, bytes |-> 2 * Segment, users |-> routers(sigs)]} : g.users # {}}

pool_reservation(g) == allocator_reservation_bytes(g.bytes)
capture_reservation(s) == allocator_reservation_bytes(capture_bytes(s))
probe_reservation(k) == allocator_reservation_bytes(k.stride)
Pairs(sigs) == {capture_weight_pair_key(s) : s \in sigs}

routing_record_buffer_bytes(sigs) == Max({0} \cup {s.capacity : s \in routers(sigs)})

execution_runtime_bytes(layers, capacities, count, agent) ==
  (IF agent = 0 THEN 2 ELSE 1) + layers + capacities + count

One(p) == IF p THEN 1 ELSE 0

(* FfnMemoryCalibrationCoefficients.evaluate, every coefficient one byte.  *)
evaluate(f) ==
  IF ~Calibrated THEN 0
  ELSE 1 + CeilTo(f.storage, Segment) \div Segment + f.captures + f.lanes + f.branches
       + One(f.dense) + One(f.moe) + One(f.joined)

Weights(weight) ==
  [storage |-> weight, captures |-> 0, lanes |-> 0, branches |-> 0, dense |-> FALSE, moe |-> FALSE, joined |-> FALSE]

Peak(stages) == Max(Range(stages))

(* The solver's side: sums over classes, ranks and their counts; a shared  *)
(* resource of the whole plan is charged where one of its users is.        *)
Slots == UNION {{<<c, r>> : r \in Ranks(c.model)} : c \in Classes}
AllSignatures == UNION {s[1].rows[s[2]].signatures : s \in Slots}
Weighted(n, a, Value(_)) == MapThenSumSet(LAMBDA s : n[s[1]][s[2]][a] * Value(s[1].rows[s[2]]), Slots)
SignaturesAt(n, a) == UNION {s[1].rows[s[2]].signatures : s \in {t \in Slots : n[t[1]][t[2]][a] >= 1}}
GroupsAt(sigs) == {g \in ExecutionResourcePlan(AllSignatures) : g.users \cap sigs # {}}

StageCosts(weight, allowance, native, sigs, pool, storage, capture) ==
  LET joined == weight + allowance + 1
      branches == Lanes * Cardinality(sigs)
      lane == [storage |-> weight + storage, captures |-> 0, lanes |-> Lanes, branches |-> branches,
               dense |-> denses(sigs) # {}, moe |-> sigs # denses(sigs), joined |-> TRUE]
      correction == evaluate([lane EXCEPT !.storage = @ + capture, !.captures = branches])
  IN  [weight_materialization |-> weight + allowance + evaluate(Weights(weight)),
       fabric_join |-> joined + evaluate([Weights(weight) EXCEPT !.joined = TRUE]),
       graph_capture |-> joined + pool + capture + correction,
       execution_installation |-> joined + pool + capture + native + correction,
       retained |-> joined + pool + native + evaluate(lane)]

solver_stages(n, a) ==
  LET sigs == SignaturesAt(n, a)
  IN  StageCosts(Weighted(n, a, LAMBDA row : row.weight), Weighted(n, a, LAMBDA row : row.allowance),
                 execution_runtime_bytes(Weighted(n, a, LAMBDA row : 1),
                   Weighted(n, a, LAMBDA row : Cardinality(row.signatures)), Cardinality(sigs), a)
                   + routing_record_buffer_bytes(sigs),
                 sigs,
                 Lanes * MapThenSumSet(pool_reservation, GroupsAt(sigs)),
                 Lanes * MapThenSumSet(LAMBDA g : g.bytes, GroupsAt(sigs)),
                 Lanes * MapThenSumSet(capture_reservation, sigs) + MapThenSumSet(probe_reservation, Pairs(sigs)))

(* The estimator's side: the layers of a plan whose group holds the agent, *)
(* charges that are summed point by point.                                 *)
Held(plan, a) == {k \in DOMAIN plan : a \in Range(plan[k])}
RankIn(group, a) == CHOOSE r \in DOMAIN group : group[r] = a
RowAt(plan, k, a) == RankRow(k[1], k[2], RankIn(plan[k], a))
LocalSignatures(plan, a) == UNION {RowAt(plan, k, a).signatures : k \in Held(plan, a)}
Total(plan, a, Value(_)) == MapThenSumSet(LAMBDA k : Value(RowAt(plan, k, a)), Held(plan, a))

Points(plan, a, sigs, local) ==
  LET weight == Total(plan, a, LAMBDA row : row.weight)
      storage == Lanes * MapThenSumSet(LAMBDA g : g.bytes, local)
      capture == Lanes * MapThenSumSet(capture_reservation, sigs) + MapThenSumSet(probe_reservation, Pairs(sigs))
      retained == [storage |-> weight + storage, captures |-> 0, lanes |-> Lanes,
                   branches |-> Lanes * Cardinality(sigs), dense |-> denses(sigs) # {},
                   moe |-> sigs # denses(sigs), joined |-> TRUE]
  IN  [weights |-> weight + Total(plan, a, LAMBDA row : row.allowance), fabric |-> 1,
       native |-> execution_runtime_bytes(Cardinality(Held(plan, a)),
                    Total(plan, a, LAMBDA row : Cardinality(row.signatures)), Cardinality(sigs), a)
                  + routing_record_buffer_bytes(sigs),
       pools |-> Lanes * MapThenSumSet(pool_reservation, local),
       construction |-> capture,
       weight_features |-> Weights(weight),
       capture_features |-> [retained EXCEPT !.storage = @ + capture, !.captures = Lanes * Cardinality(sigs)],
       retained_features |-> retained]

estimate_points(p) ==
  [weight_materialization |-> p.weights + evaluate(p.weight_features),
   fabric_join |-> p.weights + p.fabric + evaluate([p.weight_features EXCEPT !.joined = TRUE]),
   graph_capture |-> p.weights + p.fabric + p.pools + p.construction + evaluate(p.capture_features),
   execution_installation |->
     p.weights + p.fabric + p.native + p.pools + p.construction + evaluate(p.capture_features),
   retained |-> p.weights + p.fabric + p.native + p.pools + evaluate(p.retained_features)]

allocation_ledger_for_model_plans(plan, a) ==
  estimate_points(Points(plan, a, LocalSignatures(plan, a), ExecutionResourcePlan(LocalSignatures(plan, a))))

(***************************************************************************)
(* The solver's model.                                                     *)
(***************************************************************************)
AdmissionLimit(a) == request.free[a + 1] - Margin

RowTotal(row) == MapThenSumSet(LAMBDA a : row[a], DOMAIN row)
AgentTotal(rows, a) == MapThenSumSet(LAMBDA r : rows[r][a], DOMAIN rows)

(* Mutant: only the ranks' totals are bound, not the agents'.              *)
RegularByRank(rows, degree) == \A r \in DOMAIN rows : RowTotal(rows[r]) = degree

Regular(rows, degree) ==
  /\ \A r \in DOMAIN rows : RowTotal(rows[r]) = degree
  /\ \A a \in Agents : AgentTotal(rows, a) <= degree

Splits(c) ==
  {rows \in [Ranks(c.model) -> [Agents -> 0 .. LayerCount(c)]] : Regular(rows, LayerCount(c))}

Assignments == {n \in [Classes -> UNION {Splits(c) : c \in Classes}] : \A c \in Classes : n[c] \in Splits(c)}
Teams(m) == {g \in [Ranks(m) -> Agents] : IsInjective(g)}
Primaries == {p \in [Models -> UNION {Teams(m) : m \in Models}] : \A m \in Models : p[m] \in Teams(m)}

Residual(n, member, count, c) ==
  [r \in Ranks(c.model) |-> [a \in Agents |-> n[c][r][a] - IF member[c.model][r] = a THEN count[c] ELSE 0]]

PrimaryCounts(n, member) ==
  {count \in [Classes -> 0 .. Max({LayerCount(c) : c \in Classes})] :
     /\ \A c \in Classes :
          /\ count[c] <= LayerCount(c)
          /\ \A r \in Ranks(c.model) : Residual(n, member, count, c)[r][member[c.model][r]] >= 0
          /\ Regular(Residual(n, member, count, c), LayerCount(c) - count[c])
     /\ \A m \in Models : \E c \in Classes : c.model = m /\ count[c] >= 1}

Admitted(n) == \A a \in Agents : Peak(solver_stages(n, a)) <= AdmissionLimit(a)

(* The objectives in the order of their weight; smaller is better.         *)
SignatureTotal(n) == MapThenSumSet(LAMBDA a : Cardinality(SignaturesAt(n, a)), Agents)
Objective(s) ==
  <<SignatureTotal(s.n),
    0 - MapThenSumSet(LAMBDA c : s.count[c], Classes),
    0 - Min({AdmissionLimit(a) - Peak(solver_stages(s.n, a)) : a \in Agents}),
    MapThenSumSet(LAMBDA a : Peak(solver_stages(s.n, a)), Agents)>>

Before(v, w) == \E i \in DOMAIN v : v[i] < w[i] /\ \A j \in 1 .. i - 1 : v[j] = w[j]

(* Only assignments with the fewest signatures compete for the rest.       *)
FewestSignatures(ns) == {n \in ns : \A o \in ns : SignatureTotal(n) <= SignatureTotal(o)}
Candidates(ns) ==
  UNION {UNION {{[n |-> n, member |-> p, count |-> k] : k \in PrimaryCounts(n, p)} : p \in Primaries} :
           n \in FewestSignatures(ns)}
Optima(ns) == {s \in Candidates(ns) : \A o \in Candidates(ns) : ~Before(Objective(o), Objective(s))}

(***************************************************************************)
(* Actions.                                                                *)
(***************************************************************************)
Unsolved == [n |-> <<>>, member |-> <<>>, count |-> <<>>]

Init ==
  /\ request \in Requests
  /\ pc = "validate" /\ outcome = "open"
  /\ solution = Unsolved /\ class = {} /\ residual = <<>> /\ groups = <<>>

Ends(o) == pc' = "done" /\ outcome' = o

place_ffn_models ==
  /\ pc = "validate"
  /\ IF \/ \E a \in Agents : AdmissionLimit(a) <= 0
        \/ \E m \in Models : TpSize(m) > AgentCount \/ Width % TpSize(m) # 0
     THEN Ends("conflict")
     ELSE pc' = "solve" /\ UNCHANGED outcome
  /\ UNCHANGED <<request, solution, class, residual, groups>>

remaining_placement_seconds ==
  /\ pc \in {"solve", "project"}
  /\ Ends("not_ready")
  /\ UNCHANGED <<request, solution, class, residual, groups>>

solve_placement ==
  /\ pc = "solve"
  /\ \E ns \in {{n \in Assignments : Admitted(n)}} :
       IF ns = {} THEN Ends("conflict") /\ UNCHANGED <<solution, class>>
       ELSE /\ solution' \in Optima(ns)
            /\ class' = Classes
            /\ pc' = "project" /\ UNCHANGED outcome
  /\ UNCHANGED <<request, residual, groups>>

(* Dummy ranks fill every agent up to the degree of the graph.             *)
FillRow(deficit, degree) ==
  FoldLeft(LAMBDA acc, a : [row |-> [acc.row EXCEPT ![a] = Least(acc.left, deficit[a])],
                            left |-> acc.left - Least(acc.left, deficit[a])],
           [row |-> [a \in Agents |-> 0], left |-> degree],
           [i \in 1 .. AgentCount |-> i - 1])

Regularized(rows, degree) ==
  FoldLeft(LAMBDA acc, r :
             LET filled == FillRow([a \in Agents |-> degree - AgentTotal(acc.rows, a)], degree)
             IN  [rows |-> [q \in 0 .. r |-> IF q = r THEN filled.row ELSE acc.rows[q]],
                  ok |-> acc.ok /\ filled.left = 0],
           [rows |-> rows, ok |-> \A a \in Agents : AgentTotal(rows, a) <= degree],
           [i \in 1 .. AgentCount - Cardinality(DOMAIN rows) |-> Cardinality(DOMAIN rows) + i - 1])

(* Maximum flow over the ranks and agents the prefix leaves.               *)
perfect_matching_exists(counts, prefix) ==
  \E f \in [Agents -> Agents] :
    /\ IsInjective(f)
    /\ \A r \in Agents : counts[r][f[r]] # 0
    /\ \A i \in DOMAIN prefix : f[i - 1] = prefix[i]

Extend(counts, prefix) ==
  LET found == {a \in Agents : perfect_matching_exists(counts, Append(prefix, a))}
  IN  IF found = {} THEN prefix ELSE Append(prefix, Min(found))

FirstMatching(counts) ==
  FoldLeft(LAMBDA prefix, i : Extend(counts, prefix), <<>>, [i \in 1 .. AgentCount |-> i])

(* The layers of a class in order: the primary group's, then the rest.     *)
Ordered(c) == SetToSortSeq(Members(c), <)

begin_class ==
  /\ pc = "project" /\ residual = <<>> /\ class # {}
  /\ \E c \in {CHOOSE x \in class : TRUE} :
     \E full \in {Regularized(Residual(solution.n, solution.member, solution.count, c),
                              LayerCount(c) - solution.count[c])} :
       IF ~full.ok THEN Ends("error") /\ UNCHANGED <<residual, groups, class>>
       ELSE /\ residual' = [class |-> c, counts |-> full.rows, placed |-> solution.count[c]]
            /\ groups' = groups @@ [k \in {<<c.model, Ordered(c)[i]>> : i \in 1 .. solution.count[c]} |->
                                      solution.member[c.model]]
            /\ class' = class \ {c}
            /\ UNCHANGED <<pc, outcome>>
  /\ UNCHANGED <<request, solution>>

project_assignment_counts ==
  /\ pc = "project" /\ residual # <<>>
  /\ \E c \in {residual.class} :
       IF residual.placed = LayerCount(c)
       THEN /\ residual' = <<>>
            /\ IF \E r \in Agents : \E a \in Agents : residual.counts[r][a] # 0
               THEN Ends("error") ELSE UNCHANGED <<pc, outcome>>
            /\ UNCHANGED groups
       ELSE \E prefix \in {FirstMatching(residual.counts)} :
              IF Len(prefix) < AgentCount THEN Ends("error") /\ UNCHANGED <<residual, groups>>
              ELSE /\ groups' = groups @@ (<<c.model, Ordered(c)[residual.placed + 1]>> :>
                                             [r \in Ranks(c.model) |-> prefix[r + 1]])
                   /\ residual' = [residual EXCEPT !.placed = @ + 1,
                                                   !.counts = [r \in Agents |->
                                                      [@[r] EXCEPT ![prefix[r + 1]] = @ - 1]]]
                   /\ UNCHANGED <<pc, outcome>>
  /\ UNCHANGED <<request, solution, class>>

(* Counts and memory of the plan against the solver's values.              *)
projected_counts(c) ==
  [r \in Ranks(c.model) |-> [a \in Agents |-> Cardinality({l \in Members(c) : groups[<<c.model, l>>][r] = a})]]

audit ==
  /\ pc = "project" /\ residual = <<>> /\ class = {}
  /\ IF /\ \A c \in Classes : projected_counts(c) = solution.n[c]
        /\ \A a \in Agents :
             /\ allocation_ledger_for_model_plans(groups, a).retained = solver_stages(solution.n, a).retained
             /\ Peak(allocation_ledger_for_model_plans(groups, a)) = Peak(solver_stages(solution.n, a))
     THEN Ends("placed") ELSE Ends("error")
  /\ UNCHANGED <<request, solution, class, residual, groups>>

Next ==
  \/ place_ffn_models \/ remaining_placement_seconds \/ solve_placement
  \/ begin_class \/ project_assignment_counts \/ audit

Spec == Init /\ [][Next]_vars

(***************************************************************************)
(* What the counting must not lose.  Placements are the concrete choices   *)
(* of one TP group of different agents for every layer.                    *)
(***************************************************************************)
Coordinates == UNION {{<<m, l>> : l \in Layers(m)} : m \in Models}
Placements ==
  {p \in [Coordinates -> UNION {Teams(m) : m \in Models}] : \A k \in Coordinates : p[k] \in Teams(k[1])}
Fits(p) == \A a \in Agents : Peak(allocation_ledger_for_model_plans(p, a)) <= AdmissionLimit(a)
PlanSignatures(p) ==
  MapThenSumSet(LAMBDA a : Cardinality(LocalSignatures(p, a)), Agents)

(***************************************************************************)
(* The counts are exact: no internal error is ever met, a conflict means   *)
(* that no concrete placement fits the memory, and a placement gives every *)
(* layer a group of different agents, fits every agent at the peak of its  *)
(* startup and materializes no more signatures than any other that fits.   *)
(***************************************************************************)
PlacementExact ==
  /\ outcome # "error"
  /\ outcome = "conflict" /\ (\A m \in Models : TpSize(m) <= AgentCount /\ Width % TpSize(m) = 0)
       => \A p \in Placements : ~Fits(p)
  /\ outcome = "placed" =>
       /\ groups \in Placements /\ Fits(groups)
       /\ \A p \in Placements : Fits(p) => PlanSignatures(groups) <= PlanSignatures(p)
=============================================================================
