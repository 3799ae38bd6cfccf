---------------------------- MODULE WeightLoader ----------------------------
(***************************************************************************)
(* The checkpoint loader of one FfnAgent (ffnagent/loader.py): the shard   *)
(* of every weight that one tensor-parallel rank owns, bound to reads of   *)
(* checkpoint tensors, and the bounded pool of pinned slots through which  *)
(* reader threads hand those reads to the thread that owns the device.     *)
(*                                                                         *)
(* A weight is a set of units.  A unit is a row of a gate or up            *)
(* projection, a packed group of columns of a down projection, a scale     *)
(* group, or a bias; the axis no rank cuts is left out.  A read is a       *)
(* relation between units of the device tensor and units of the            *)
(* checkpoint tensor.                                                      *)
(***************************************************************************)
EXTENDS Integers, Sequences, FiniteSets, SequencesExt

CONSTANTS
  Requests,     \* layer specifications, each with a key view: for every
                \* projection, the shard that holds it
  Tp,           \* the tensor-parallel size
  Pack,         \* encoded columns that share one stored value (two FP4 values)
  Block,        \* columns that share one scale
  Parallelism   \* reader threads, and pinned slots

VARIABLES
  layer, rank, view, \* the request: a layer, the local rank and the key view
  pc,           \* the thread that owns the device
  work,         \* per shard the indices of the reads it serves
  reader,       \* per shard the state of its reader task
  slots,        \* the queue of free pinned slots
  content,      \* what each slot holds: the index of a read, or 0
  messages,     \* the queue from the readers to the owner
  copying,      \* the staged tensor the owner is copying
  copied,       \* per read, what was copied to its destination, or 0
  finished,     \* reader tasks the owner has seen finish
  failed,       \* the owner holds a first error
  cancelled     \* the cancellation event

vars == <<layer, rank, view, pc, work, reader, slots, content, messages,
          copying, copied, finished, failed, cancelled>>

Slots == 1..Parallelism
Shards == UNION {{q.view[p] : p \in DOMAIN q.view} : q \in Requests}
NoMessage == [kind |-> "none", read |-> 0, slot |-> 0]

-----------------------------------------------------------------------------
(* Preparation: which interval of the intermediate width a rank owns, and   *)
(* how wide its own tensors are.                                            *)

Minimum(a, b) == IF a < b THEN a ELSE b

\* The least common multiple of the slice alignments of the layer's sources:
\* only an encoded down projection is cut along its blocks.
slice_alignment(l) == IF l.quantized THEN Block ELSE 1

local_intermediate_size(l) ==
  ((l.width + Tp * slice_alignment(l) - 1) \div (Tp * slice_alignment(l)))
    * slice_alignment(l)

source_start(l, t) == Minimum(t * local_intermediate_size(l), l.width)

source_length(l, t) ==
  Minimum((t + 1) * local_intermediate_size(l), l.width) - source_start(l, t)

\* A specification that preparation and the encoding accept.
Preparable(l) ==
  /\ l.width % Tp = 0
  /\ l.quantized => l.kind # "dense" /\ l.width % Block = 0

\* Gate rows, then up rows, of an interval in a fused tensor of a given order.
row_slices(order, width, start, length) ==
  IF order = "concatenated"
    THEN << [k \in 0..(length - 1) |-> start + k],
            [k \in 0..(length - 1) |-> width + start + k] >>
    ELSE << [k \in 0..(length - 1) |-> 2 * (start + k)],
            [k \in 0..(length - 1) |-> 2 * (start + k) + 1] >>

-----------------------------------------------------------------------------
(* The reads that fill one rank's tensors.                                  *)

Read(part, map) == IF map = {} THEN <<>> ELSE <<[part |-> part, map |-> map]>>

Stored(l, what) == what = "values" \/ (what = "scales" /\ l.quantized)

\* Rows of an output axis: values, scales and bias are cut alike.
RowReads(l, part, at, from) ==
  FlattenSeq([n \in 1..3 |->
    LET what == <<"values", "scales", "bias">>[n]
    IN  IF Stored(l, what) \/ (what = "bias" /\ l.biased)
          THEN Read(part, {<< <<"gate_up", what, at.expert, at.rows[k]>>,
                              <<part, what, from.expert, from.rows[k]>> >> :
                           k \in DOMAIN at.rows})
          ELSE <<>>])

\* Columns of an input axis: packed values, scale groups, and an uncut bias.
ColumnReads(l, part, expert, source_expert, start, length, read_bias) ==
  LET per(what) == IF l.quantized
                     THEN IF what = "values" THEN Pack ELSE Block
                     ELSE 1
      Columns(what) ==
        {<< <<"down", what, expert, k>>,
            <<part, what, source_expert, start \div per(what) + k>> >> :
         k \in 0..(length \div per(what) - 1)}
  IN  Read(part, Columns("values"))
      \o (IF l.quantized THEN Read(part, Columns("scales")) ELSE <<>>)
      \o (IF l.biased /\ read_bias
            THEN Read(part, {<< <<"down", "bias", expert, 0>>,
                                <<part, "bias", source_expert, 0>> >>})
            ELSE <<>>)

TargetOrder(l) == IF l.kind = "dense" THEN "concatenated" ELSE l.target_order

\* Separate gate, up and down sources of one expert (or of a dense layer).
gated_descriptors(l, t, parts, expert, source_expert, start, read_bias) ==
  LET length == source_length(l, t)
      target == row_slices(TargetOrder(l), local_intermediate_size(l), 0, length)
      source == [k \in 0..(length - 1) |-> start + k]
  IN  RowReads(l, parts[1], [expert |-> expert, rows |-> target[1]],
                            [expert |-> source_expert, rows |-> source])
      \o RowReads(l, parts[2], [expert |-> expert, rows |-> target[2]],
                               [expert |-> source_expert, rows |-> source])
      \o ColumnReads(l, parts[3], expert, source_expert, start, length, read_bias)

\* Fused expert-major sources: one read of both halves where source and target
\* interleave alike, one read per half otherwise.
stacked_descriptors(l, t) ==
  LET length == source_length(l, t)
      source == row_slices(l.source_order, l.width, source_start(l, t), length)
      target == row_slices(l.target_order, local_intermediate_size(l), 0, length)
      Fused == [k \in 0..(2 * length - 1) |-> k]
      Rows(at, from) ==
        FlattenSeq([e \in 1..l.routed |->
          RowReads(l, "gate_up", [expert |-> e - 1, rows |-> at],
                                 [expert |-> e - 1, rows |-> from])])
  IN  (IF l.source_order = "interleaved" /\ l.target_order = "interleaved"
         THEN Rows(Fused, [k \in DOMAIN Fused |-> 2 * source_start(l, t) + k])
         ELSE Rows(target[1], source[1]) \o Rows(target[2], source[2]))
      \o FlattenSeq([e \in 1..l.routed |->
           ColumnReads(l, "down", e - 1, e - 1, source_start(l, t), length, t = 0)])

\* Mutant: every shared expert reads the down bias.
SharedBiasEach(l, t) ==
  FlattenSeq([n \in 1..l.shared |->
    gated_descriptors(l, t, <<"shared_gate", "shared_up", "shared_down">>,
                      l.routed + n - 1, 0,
                      (n - 1) * l.width + source_start(l, t), t = 0)])

shared_descriptors(l, t) ==
  FlattenSeq([n \in 1..l.shared |->
    gated_descriptors(l, t, <<"shared_gate", "shared_up", "shared_down">>,
                      l.routed + n - 1, 0,
                      (n - 1) * l.width + source_start(l, t), t = 0 /\ n = 1)])

router_descriptors(l, t) ==
  IF l.kind = "dense" \/ t # 0 THEN <<>>
  ELSE Read("router", {<< <<"router", "values", 0, 0>>,
                          <<"router", "values", 0, 0>> >>})
       \o (IF l.corrected
             THEN Read("router", {<< <<"router", "correction", 0, 0>>,
                                     <<"router", "correction", 0, 0>> >>})
             ELSE <<>>)

prepare_layer_weight_request(l, t) ==
  CASE l.kind = "dense" ->
         gated_descriptors(l, t, <<"gate", "up", "down">>, 0, 0,
                           source_start(l, t), t = 0)
    [] l.kind = "stacked" ->
         stacked_descriptors(l, t) \o shared_descriptors(l, t)
           \o router_descriptors(l, t)
    [] OTHER ->
         FlattenSeq([e \in 1..l.routed |->
           gated_descriptors(l, t, <<"gate", "up", "down">>, e - 1, e - 1,
                             source_start(l, t), t = 0)])
           \o shared_descriptors(l, t) \o router_descriptors(l, t)

-----------------------------------------------------------------------------
(* Loading.                                                                 *)

Init ==
  /\ \E q \in Requests : layer = q.layer /\ view = q.view
  /\ rank \in 0..(Tp - 1)
  /\ pc = "prepare"
  /\ work = [s \in Shards |-> <<>>]
  /\ reader = [s \in Shards |-> [pc |-> "idle", slot |-> 0]]
  /\ slots = <<>> /\ content = [p \in Slots |-> 0]
  /\ messages = <<>> /\ copying = NoMessage /\ copied = <<>>
  /\ finished = 0 /\ failed = FALSE /\ cancelled = FALSE

\* Neutral tensors, the reads by shard and the slots, or an early refusal.
materialize_local_layer_weights ==
  /\ pc = "prepare"
  /\ IF Preparable(layer)
       THEN \E reads \in {prepare_layer_weight_request(layer, rank)} :
              /\ copied' = [d \in 1..Len(reads) |-> 0]
              /\ work' = [s \in Shards |->
                           SelectSeq([d \in 1..Len(reads) |-> d],
                                     LAMBDA d : view[reads[d].part] = s)]
              /\ slots' = [n \in Slots |-> n]
              /\ pc' = IF reads = <<>> THEN "returned" ELSE "get"
              /\ reader' = [s \in Shards |->
                             [reader[s] EXCEPT !.pc = IF work'[s] = <<>>
                                                        THEN "idle" ELSE "queued"]]
       ELSE pc' = "refused" /\ UNCHANGED <<copied, work, slots, reader>>
  /\ UNCHANGED <<layer, rank, view, content, messages, copying, finished,
                 failed, cancelled>>

Tasks == {s \in Shards : reader[s].pc # "idle"}
Running == {s \in Shards : reader[s].pc \in {"run", "wait", "stage", "finish"}}

\* A worker of the executor takes up a queued shard.
stage_shard(s) ==
  /\ reader[s].pc = "queued" /\ Cardinality(Running) < Parallelism
  /\ reader' = [reader EXCEPT ![s].pc = "run"]
  /\ UNCHANGED <<layer, rank, view, pc, work, slots, content, messages,
                 copying, copied, finished, failed, cancelled>>

\* safe_open fails, before a slot is held.
open_fails(s) ==
  /\ reader[s].pc = "queued" /\ Cardinality(Running) < Parallelism
  /\ messages' = Append(messages, [NoMessage EXCEPT !.kind = "failure"])
  /\ cancelled' = TRUE
  /\ reader' = [reader EXCEPT ![s].pc = "finish"]
  /\ UNCHANGED <<layer, rank, view, pc, work, slots, content, copying, copied, finished, failed>>

\* Between two reads: stop at the end or when cancelled, else ask for a slot.
poll(s) ==
  /\ reader[s].pc = "run"
  /\ reader' = [reader EXCEPT ![s].pc =
                  IF work[s] = <<>> \/ cancelled THEN "finish" ELSE "wait"]
  /\ UNCHANGED <<layer, rank, view, pc, work, slots, content, messages,
                 copying, copied, finished, failed, cancelled>>

acquire_slot(s) ==
  /\ reader[s].pc = "wait" /\ slots # <<>>
  /\ slots' = Tail(slots)
  /\ reader' = [reader EXCEPT ![s] = [pc |-> "stage", slot |-> Head(slots)]]
  /\ UNCHANGED <<layer, rank, view, pc, work, content, messages, copying,
                 copied, finished, failed, cancelled>>

\* The bounded wait for a slot ends with none: look at the event again.
acquire_times_out(s) ==
  /\ reader[s].pc = "wait" /\ slots = <<>> /\ cancelled
  /\ reader' = [reader EXCEPT ![s].pc = "run"]
  /\ UNCHANGED <<layer, rank, view, pc, work, slots, content, messages,
                 copying, copied, finished, failed, cancelled>>

stage(s) ==
  /\ reader[s].pc = "stage"
  /\ content' = [content EXCEPT ![reader[s].slot] = Head(work[s])]
  /\ messages' = Append(messages, [kind |-> "staged", read |-> Head(work[s]),
                                   slot |-> reader[s].slot])
  /\ work' = [work EXCEPT ![s] = Tail(@)]
  /\ reader' = [reader EXCEPT ![s] = [pc |-> "run", slot |-> 0]]
  /\ UNCHANGED <<layer, rank, view, pc, slots, copying, copied, finished,
                 failed, cancelled>>

\* A tensor of another dtype or shape, or a read that fails, after the slot
\* may already hold part of it.
stage_raises(s) ==
  /\ reader[s].pc = "stage"
  /\ content' = [content EXCEPT ![reader[s].slot] = 0]
  /\ slots' = Append(slots, reader[s].slot)
  /\ messages' = Append(messages, [NoMessage EXCEPT !.kind = "failure"])
  /\ cancelled' = TRUE
  /\ reader' = [reader EXCEPT ![s] = [pc |-> "finish", slot |-> 0]]
  /\ UNCHANGED <<layer, rank, view, pc, work, copying, copied, finished, failed>>

reader_finished(s) ==
  /\ reader[s].pc = "finish"
  /\ messages' = Append(messages, [NoMessage EXCEPT !.kind = "finished"])
  /\ reader' = [reader EXCEPT ![s].pc = "done"]
  /\ UNCHANGED <<layer, rank, view, pc, work, slots, content, copying, copied,
                 finished, failed, cancelled>>

\* One message: a finished task, a failure, or a tensor to copy (or, after the
\* first error, only a slot to return).
copy_staged_tensors ==
  /\ pc = "get" /\ messages # <<>> /\ finished < Cardinality(Tasks)
  /\ messages' = Tail(messages)
  /\ LET m == Head(messages)
     IN  \/ /\ m.kind = "finished"
            /\ finished' = finished + 1
            /\ UNCHANGED <<pc, slots, copying, failed, cancelled>>
         \/ /\ m.kind = "failure"
            /\ failed' = TRUE /\ cancelled' = TRUE
            /\ UNCHANGED <<pc, slots, copying, finished>>
         \/ /\ m.kind = "staged" /\ ~failed
            /\ pc' = "copy" /\ copying' = m
            /\ UNCHANGED <<slots, finished, failed, cancelled>>
         \/ /\ m.kind = "staged" /\ failed
            /\ slots' = Append(slots, m.slot)
            /\ UNCHANGED <<pc, copying, finished, failed, cancelled>>
  /\ UNCHANGED <<layer, rank, view, work, reader, content, copied>>

\* The copy completes on the device stream before the slot goes back.
copy_from ==
  /\ pc = "copy"
  /\ copied' = [copied EXCEPT ![copying.read] = content[copying.slot]]
  /\ slots' = Append(slots, copying.slot)
  /\ copying' = NoMessage /\ pc' = "get"
  /\ UNCHANGED <<layer, rank, view, work, reader, content, messages, finished,
                 failed, cancelled>>

copy_raises ==
  /\ pc = "copy"
  /\ slots' = Append(slots, copying.slot)
  /\ failed' = TRUE /\ cancelled' = TRUE
  /\ copying' = NoMessage /\ pc' = "get"
  /\ UNCHANGED <<layer, rank, view, work, reader, content, messages, copied,
                 finished>>

copy_returns ==
  /\ pc = "get" /\ finished = Cardinality(Tasks)
  /\ pc' = IF failed THEN "raised" ELSE "returned"
  /\ UNCHANGED <<layer, rank, view, work, reader, slots, content, messages,
                 copying, copied, finished, failed, cancelled>>

Next ==
  \/ materialize_local_layer_weights
  \/ \E s \in Shards : \/ stage_shard(s) \/ open_fails(s) \/ poll(s) \/ acquire_slot(s)
                       \/ acquire_times_out(s) \/ stage(s) \/ stage_raises(s)
                       \/ reader_finished(s)
  \/ copy_staged_tensors \/ copy_from \/ copy_raises \/ copy_returns

Spec == Init /\ [][Next]_vars

-----------------------------------------------------------------------------
(* What the loaded shards must add up to.                                   *)

Parts(l, e) ==
  CASE e >= l.routed -> <<"shared_gate", "shared_up", "shared_down">>
    [] l.kind = "stacked" -> <<"gate_up", "gate_up", "down">>
    [] OTHER -> <<"gate", "up", "down">>

\* The checkpoint units of intermediate index i of expert e.
GateRow(l, e, i) ==
  IF e >= l.routed THEN << 0, (e - l.routed) * l.width + i >>
  ELSE << e, IF l.kind = "stacked" /\ l.source_order = "interleaved"
               THEN 2 * i ELSE i >>

UpRow(l, e, i) ==
  IF e >= l.routed \/ l.kind # "stacked" THEN GateRow(l, e, i)
  ELSE << e, IF l.source_order = "interleaved" THEN 2 * i + 1 ELSE l.width + i >>

DownColumn(l, e, i) ==
  IF e >= l.routed THEN << 0, (e - l.routed) * l.width + i >> ELSE << e, i >>

LocalGate(l, r) == IF TargetOrder(l) = "concatenated" THEN r ELSE 2 * r
LocalUp(l, r) ==
  IF TargetOrder(l) = "concatenated" THEN local_intermediate_size(l) + r
  ELSE 2 * r + 1

\* What rank t's tensors hold once every one of its reads was copied.
Memory(l, t) ==
  LET reads == prepare_layer_weight_request(l, t)
  IN  UNION {reads[d].map : d \in 1..Len(reads)}

\* Local index r of rank t computes intermediate index i of expert e: the same
\* index in all three projections, with its bias and in its own scale group.
Computes(l, m, e, r, i) ==
  LET parts == Parts(l, e)
      unit(what) == IF ~l.quantized THEN 1
                    ELSE IF what = "values" THEN Pack ELSE Block
      Row(part, local, source) ==
        \A what \in {"values", "scales", "bias"} :
          Stored(l, what) \/ (what = "bias" /\ l.biased)
            => << <<"gate_up", what, e, local>>,
                  <<part, what, source[1], source[2]>> >> \in m
      Column(source) ==
        \A what \in {"values", "scales"} : Stored(l, what) =>
          /\ << <<"down", what, e, r \div unit(what)>>,
                <<parts[3], what, source[1], source[2] \div unit(what)>> >> \in m
          /\ r % unit(what) = source[2] % unit(what)
  IN  /\ Row(parts[1], LocalGate(l, r), GateRow(l, e, i))
      /\ Row(parts[2], LocalUp(l, r), UpRow(l, e, i))
      /\ Column(DownColumn(l, e, i))

Experts(l) == 0..(l.routed + l.shared - 1)
Bound(m) == {pair[1] : pair \in m}

\* The ranks' shards add up to the layer: every index of every expert is
\* computed at one place, every other local place stays neutral, and every
\* down bias and router tensor is loaded by one rank and one expert only.
AddUp(l, memory) ==
  LET ranks == 0..(Tp - 1)
      local == 0..(local_intermediate_size(l) - 1)
      places == {p \in ranks \X local \X Experts(l) :
                   <<"gate_up", "values", p[3], LocalGate(l, p[2])>>
                     \in Bound(memory[p[1]])}
  IN  /\ \A t \in ranks : Cardinality(Bound(memory[t])) = Cardinality(memory[t])
      /\ \A e \in Experts(l), i \in 0..(l.width - 1) :
           Cardinality({p \in places : p[3] = e /\
                          Computes(l, memory[p[1]], e, p[2], i)}) = 1
      /\ Cardinality(places) = l.width * (l.routed + l.shared)
      /\ \A what \in {"bias", "values", "correction"} :
           \A u \in UNION {{pair[2] : pair \in memory[t]} : t \in ranks} :
             u[2] = what /\ (what = "bias" => u[1] \in {"down", "shared_down"})
               /\ (what # "bias" => u[1] = "router")
             => Cardinality(UNION {{<<t, pair[1]>> : pair \in
                              {q \in memory[t] : q[2] = u}} : t \in ranks}) = 1

\* A loader that returns has filled every destination from its own source, and
\* the shards of all ranks add up to the layer (materialize_local_layer_weights,
\* loader.py).
ShardsExact ==
  pc = "returned" =>
    /\ \A d \in DOMAIN copied : copied[d] = d
    /\ AddUp(layer, [t \in 0..(Tp - 1) |-> Memory(layer, t)])

\* The owner never waits for a message nobody will send: while tasks are
\* unfinished and the queue is empty, some reader can move (copy_staged_tensors
\* and acquire_slot, loader.py).
OwnerNeverStuck ==
  pc = "get" /\ messages = <<>> /\ finished < Cardinality(Tasks) =>
    \E s \in Tasks :
      \/ reader[s].pc \in {"run", "stage", "finish"}
      \/ reader[s].pc = "queued" /\ Cardinality(Running) < Parallelism
      \/ reader[s].pc = "wait" /\ (slots # <<>> \/ cancelled)

=============================================================================
