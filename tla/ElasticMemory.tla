--------------------------- MODULE ElasticMemory ----------------------------
(***************************************************************************)
(* One Instance's TP group scheduling under a byte grant: each pass of the *)
(* engine's scheduler first progresses the grant (begin_scheduling), then  *)
(* selects and allocates a Prefill batch, or else a Decode batch, and      *)
(* launches it.  The ranks run the same code and meet in collectives; a    *)
(* step of the model is what all ranks do up to the next decision of the   *)
(* engine, with the collectives' verdicts over their different memories.   *)
(* Devices run launched batches behind the scheduler; commands come from   *)
(* the daemon; the driver may refuse or fail to map and unmap.             *)
(***************************************************************************)
EXTENDS RankMemory, SequencesExt, TLC

CONSTANTS
  TpSize,
  Need,         \* pages of each request's input
  Shares,       \* the earlier request whose cached prefix it shares, or None
  ChunkLimit,   \* pages of a Prefill chunk
  Lookahead,    \* pages the forecast adds for output
  Window,       \* SWA pages of a window and the chunks around it
  MaxDecode,    \* pages a request may decode
  Depth,        \* launched batches the device may be behind
  Targets,      \* byte grants the daemon may command
  MaxCommands, MaxFaults

Ranks == 1 .. TpSize
Leader == 1

VARIABLES
  mem,          \* each rank's memory
  plan,         \* each rank's pending retirement: bundle ids and batches ahead
  work,         \* each rank's launched batches: the pages they use
  status, prefix, locks, swaLocks, rows, decodes,   \* the engine's requests
  phase,        \* where the scheduler is in its pass
  selected,     \* the Prefill selection: pages of this batch per request
  wants,        \* the Decode batch's requests that need a page
  order,        \* the Decode requests not yet retracted
  command,      \* the pending grant
  deferred,     \* resident pages that deferred evictions ask for
  commands, faults
vars == <<mem, plan, work, status, prefix, locks, swaLocks, rows, decodes, phase,
          selected, wants, order, command, deferred, commands, faults>>
engineVars == <<status, prefix, locks, swaLocks, rows, decodes>>
scheduleVars == <<selected, wants, order>>

Zeros == [c \in Comps |-> 0]
Vector(n) == [c \in Comps |-> n]
Active == {q \in Reqs : status[q] \in {"chunked", "running"}}
Running == {q \in Reqs : status[q] = "running"}
has_chunk_owner == \E q \in Reqs : status[q] = "chunked"
draining == command # None /\ \E r \in Ranks : command < mem[r].limit

Init ==
  /\ mem = [r \in Ranks |-> InitialMemory]
  /\ plan = [r \in Ranks |-> None] /\ work = [r \in Ranks |-> <<>>]
  /\ status = [q \in Reqs |-> "waiting"] /\ prefix = [q \in Reqs |-> None]
  /\ locks = [q \in Reqs |-> 0] /\ swaLocks = [q \in Reqs |-> 0]
  /\ rows = {} /\ decodes = [q \in Reqs |-> 0]
  /\ phase = "idle" /\ selected = <<>> /\ wants = {} /\ order = {}
  /\ command = None /\ deferred = [r \in Ranks |-> Zeros]
  /\ commands = 0 /\ faults = 0

-----------------------------------------------------------------------------
(* The radix cache: the node a request left hangs below its prefix. *)

Present(m, n) == m.cached[n][1] # {}
Up(n) == IF n = None THEN {} ELSE {n, prefix[n]} \ {None}
Path(n) == UNION {Up(x) : x \in Up(n)}
Leaf(m, n) == \A x \in Reqs : Present(m, x) => prefix[x] # n

(* A match needs the node's Full pages and its window's SWA pages.         *)
Matched(q) ==
  LET n == Shares[q]
  IN  IF n # None /\ \A c \in Comps : mem[Leader].cached[n][c] # {} THEN n ELSE None

Acquire(n) ==
  /\ locks' = [x \in Reqs |-> IF x \in Path(n) THEN locks[x] + 1 ELSE locks[x]]
  /\ swaLocks' = [x \in Reqs |-> IF x = n THEN swaLocks[x] + 1 ELSE swaLocks[x]]
Release(qs) ==
  /\ locks' = [x \in Reqs |-> locks[x] - Cardinality({q \in qs : x \in Path(prefix[q])})]
  /\ swaLocks' = [x \in Reqs |-> swaLocks[x] - Cardinality({q \in qs : x = prefix[q]})]

(* The window lock covers the last node only, Full locks the whole path;   *)
(* pin is the candidate's prefix, locked while it is being decided.        *)
Unlocked(n, c, pin) ==
  IF c = SWA THEN swaLocks[n] = 0 /\ n # pin ELSE locks[n] = 0 /\ n \notin Path(pin)

Evictable(m, pin) ==
  [c \in Comps |-> UNION {m.cached[n][c] : n \in {x \in Reqs : Unlocked(x, c, pin)}}]

(* The effect the leader selects: an unlocked leaf with all components, or *)
(* the window of an inner node.  The oldest node goes first.               *)
Oldest(S) == CHOOSE n \in S : \A x \in S : n <= x
FullLeaves(m, pin) == {n \in Reqs : Present(m, n) /\ Leaf(m, n) /\ Unlocked(n, 1, pin)}
Windows(m, pin) == {n \in Reqs : m.cached[n][SWA] # {} /\ Unlocked(n, SWA, pin)}
FullEffect(n) == [node |-> n, comps |-> Comps]
WindowEffect(n, leaves) == [node |-> n, comps |-> IF n \in leaves THEN Comps ELSE {SWA}]

select_cache_eviction(m, shortages, pin) ==
  IF 1 \in shortages /\ FullLeaves(m, pin) # {} THEN FullEffect(Oldest(FullLeaves(m, pin)))
  ELSE IF SWA \in shortages /\ Windows(m, pin) # {}
    THEN WindowEffect(Oldest(Windows(m, pin)), FullLeaves(m, pin))
  ELSE None

-----------------------------------------------------------------------------
(* capacity.py *)

Retirement(ids, r) ==
  IF \A c \in Comps : ids[c] = {} THEN None ELSE [ids |-> ids, ahead |-> Len(work[r])]

(***************************************************************************)
(* reclaim: each rank retires what is already empty; when no retirement is *)
(* pending anywhere, the ranks evict one common cache node for whatever    *)
(* any of them is short of, and retire what that empties.                  *)
(***************************************************************************)
RetireEmpty(mm, pending, ids) ==
  [mem |-> [r \in Ranks |-> Retire(mm[r], ids[r])],
   plan |-> [r \in Ranks |-> IF pending[r] # None THEN pending[r] ELSE Retirement(ids[r], r)]]

EmptyIds(mm, pending, freed) ==
  [r \in Ranks |-> IF pending[r] # None THEN [c \in Comps |-> {}]
                   ELSE empty_bundle_ids(mm[r], freed[r])]

Shortages(mm, freed, need) ==
  {c \in Comps : \E r \in Ranks : need[c] > Resident(mm[r], c) \/ freed[r] > 0}

Evict(mm, victim) == [r \in Ranks |-> apply_eviction(mm[r], victim.node, victim.comps)]
RetireEvicted(mm, pending, freed) ==
  RetireEmpty(mm, pending, EmptyIds(mm, pending, freed)) @@ [ok |-> TRUE]
EvictOne(s, freed, victim) ==
  IF (\E r \in Ranks : s.plan[r] # None) \/ victim = None
    THEN s @@ [ok |-> FALSE]
    ELSE RetireEvicted(Evict(s.mem, victim), s.plan, freed)

ReclaimAfter(s, freed, need, pin) ==
  EvictOne(s, freed, select_cache_eviction(s.mem[Leader], Shortages(s.mem, freed, need), pin))
ReclaimFreed(mm, pending, freed, need, pin) ==
  ReclaimAfter(RetireEmpty(mm, pending, EmptyIds(mm, pending, freed)), freed, need, pin)
reclaim(mm, pending, release, need, pin) ==
  ReclaimFreed(mm, pending, [r \in Ranks |-> IF has_chunk_owner THEN 0 ELSE release[r]],
               need, pin)

memory_ready(mm, forecast, need, pin) ==
  \A r \in Ranks :
    LET required == required_bytes(mm[r], forecast, Evictable(mm[r], pin))
        immediate == allocation_bytes(mm[r], need)
    IN  IF required = None \/ immediate = None THEN FALSE
        ELSE required <= mm[r].limit /\ immediate <= mm[r].limit

Over(m, price) == IF price = None THEN 0 ELSE IF price > m.limit THEN price - m.limit ELSE 0
Larger(a, b) == IF a > b THEN a ELSE b
Most(S) == CHOOSE k \in S : \A x \in S : x <= k

reclaim_requirement(mm, pending, forecast, resident, pin) ==
  LET release == [r \in Ranks |->
        Larger(Over(mm[r], required_bytes(mm[r], forecast, Evictable(mm[r], pin))),
               Over(mm[r], allocation_bytes(mm[r], resident)))]
  IN  reclaim(mm, pending, release, resident, pin)

(***************************************************************************)
(* A fault <<r, c, f>> of this step: the driver answers f on rank r.       *)
(***************************************************************************)
MapFaults == {None} \cup (IF faults < MaxFaults THEN Ranks \X Comps \X {Oom, 0, 1} ELSE {})
UnmapFaults == {None} \cup (IF faults < MaxFaults THEN Ranks \X Comps \X {0, 1} ELSE {})
At(fault, r) == IF fault # None /\ fault[1] = r THEN <<fault[2], fault[3]>> ELSE None
Count(fault) == faults' = IF fault = None THEN faults ELSE faults + 1
Idle(r) == plan[r] # None /\ plan[r].ahead = 0

Fail == phase' = "failed" /\ UNCHANGED <<engineVars, scheduleVars, command, deferred>>

(* Mutant: a smaller grant is adopted by the ranks whose charge fits it.   *)
AdoptAlone(mm, pending) ==
  \E r \in Ranks :
    /\ pending[r] = None /\ mm[r].charged <= command
    /\ ~(draining /\ has_chunk_owner)

CanAdopt(mm, pending) ==
  \A r \in Ranks :
    /\ pending[r] = None /\ mm[r].charged <= command
    /\ ~(draining /\ has_chunk_owner)

(* A commanded grant is adopted, or reclaimed for; then the evictions that *)
(* the engine asked for in an earlier pass are made.                       *)
FinishIdle(fault) ==
  [r \in Ranks |-> IF Idle(r) THEN finish_retirement(mem[r], plan[r].ids, At(fault, r)) ELSE mem[r]]
NotIdle == [r \in Ranks |-> IF Idle(r) THEN None ELSE plan[r]]
Excess(m, limit) == IF m.charged > limit THEN m.charged - limit ELSE 0

ProgressGrant(mm, pending) ==
  IF command = None THEN [mem |-> mm, plan |-> pending, adopted |-> FALSE]
  ELSE IF CanAdopt(mm, pending)
    THEN [mem |-> [r \in Ranks |-> [mm[r] EXCEPT !.limit = command]],
          plan |-> pending, adopted |-> TRUE]
  ELSE reclaim(mm, pending, [r \in Ranks |-> Excess(mm[r], command)], Zeros, None)
         @@ [adopted |-> FALSE]

Wanted == [c \in Comps |-> Most({deferred[r][c] : r \in Ranks})]
ServeDeferred(s) ==
  IF Wanted = Zeros THEN s @@ [ok |-> FALSE]
  ELSE reclaim(s.mem, s.plan, [r \in Ranks |-> 0], Wanted, None)

begin_scheduling ==
  /\ phase = "idle"
  /\ \E fault \in UnmapFaults :
       /\ fault # None => Idle(fault[1]) /\ plan[fault[1]].ids[fault[2]] # {}
       /\ Count(fault)
       /\ IF fault # None THEN mem' = FinishIdle(fault) /\ UNCHANGED plan /\ Fail
          ELSE \E first \in {ProgressGrant(FinishIdle(None), NotIdle)} :
               \E second \in {ServeDeferred(first)} :
                 /\ mem' = second.mem /\ plan' = second.plan
                 /\ deferred' = IF Wanted # Zeros /\ second.ok THEN [r \in Ranks |-> Zeros]
                                ELSE deferred
                 /\ command' = IF first.adopted THEN None ELSE command
                 /\ phase' = "select"
                 /\ UNCHANGED <<engineVars, scheduleVars>>
  /\ UNCHANGED <<work, commands>>

-----------------------------------------------------------------------------
(* admission.py: Prefill *)

Selected == DOMAIN selected
SumSelected == MapThenSumSet(LAMBDA q : selected[q], Selected)

Got(q) == Cardinality(mem[Leader].owned[q][1])
Remaining(q) == Need[q] + decodes[q] - Got(q)

(***************************************************************************)
(* proposal_for_admission: what a chunk of k pages acquires, what must be  *)
(* resident before its prefix is locked, and what is forecast.             *)
(***************************************************************************)
Proposal(q, k) ==
  LET acquired == SumSelected + k
      whole == SumSelected + Remaining(q)
      window == SumSelected + (IF Remaining(q) < Window THEN Remaining(q) ELSE Window) + 1
  IN  IF status[q] = "chunked"
        THEN [alloc |-> Vector(acquired), prep |-> Vector(acquired), forecast |-> Vector(acquired)]
      ELSE [alloc |-> Vector(acquired),
            prep |-> [c \in Comps |-> IF c = SWA THEN Larger(acquired, window) ELSE whole],
            forecast |-> [c \in Comps |-> IF c = SWA THEN Larger(acquired, window)
                                          ELSE whole + Lookahead]]

Chunks(q) == 1 .. (IF Remaining(q) < ChunkLimit THEN Remaining(q) ELSE ChunkLimit)
Ready(q, pin) == {k \in Chunks(q) : memory_ready(mem, Proposal(q, k).forecast, Proposal(q, k).alloc, pin)}

(* Mutant: the leader goes by its own allocation.                          *)
VerdictOfLeader(results) == results[Leader].status

Verdict(results) ==
  IF \E r \in Ranks : results[r].status = "failed" THEN "failed"
  ELSE IF \E r \in Ranks : results[r].status = "miss" THEN "miss"
  ELSE "ready"
Memories(results) == [r \in Ranks |-> results[r].m]

(* The engine offers the chunk owner first and alone, then waiting         *)
(* requests; while a smaller grant is pending it offers only the owner.    *)
Offered(q) ==
  IF has_chunk_owner THEN status[q] = "chunked" /\ q \notin Selected
  ELSE /\ status[q] = "waiting" /\ q \notin Selected /\ ~draining
       /\ \A x \in Selected : selected[x] = Remaining(x)

(***************************************************************************)
(* coordinate_prefill, add_one_req and add_chunked_req: the largest ready  *)
(* chunk is prepared on every rank and selected, with a lock on the prefix *)
(* of a new request, unless the ranks agree to delay it; a miss reclaims,  *)
(* once, when nothing is selected yet.                                     *)
(***************************************************************************)
Chunk(q, ready) == IF ready = {} THEN Most(Chunks(q)) ELSE Most(ready)
Prepared(proposal, ready, fault) ==
  [r \in Ranks |-> IF ready THEN prepare_allocation(mem[r], proposal.prep, At(fault, r))
                   ELSE [m |-> mem[r], status |-> "miss"]]

Select(q, k, pin) ==
  /\ selected' = [x \in Selected \cup {q} |-> IF x = q THEN k ELSE selected[x]]
  /\ IF status[q] = "chunked" THEN UNCHANGED <<prefix, locks, swaLocks>>
     ELSE prefix' = [prefix EXCEPT ![q] = pin] /\ Acquire(pin)
  /\ UNCHANGED <<plan, status, rows, decodes, phase, wants, order, command, deferred>>

(* The prefill delayer refuses: the selection ends without the request.    *)
Delay(q) ==
  /\ status[q] # "chunked" /\ phase' = "allocate"
  /\ UNCHANGED <<plan, engineVars, scheduleVars, command, deferred>>

GiveUp(mm, proposal, pin) ==
  /\ IF Selected # {} THEN mem' = mm /\ UNCHANGED plan
     ELSE \E s \in {reclaim_requirement(mm, plan, proposal.forecast, proposal.prep, pin)} :
            mem' = s.mem /\ plan' = s.plan
  /\ phase' = "allocate"
  /\ UNCHANGED <<engineVars, scheduleVars, command, deferred>>

add_req(q) ==
  /\ phase = "select" /\ Offered(q)
  /\ \E pin \in {IF status[q] = "chunked" THEN prefix[q] ELSE Matched(q)} :
     \E ready \in {Ready(q, pin)} :
     \E proposal \in {Proposal(q, Chunk(q, ready))} :
     \E fault \in IF ready = {} THEN {None} ELSE MapFaults :
     \E results \in {Prepared(proposal, ready # {}, fault)} :
       /\ Count(fault)
       /\ CASE Verdict(results) = "failed" -> mem' = Memories(results) /\ UNCHANGED plan /\ Fail
            [] Verdict(results) = "ready" ->
                 mem' = Memories(results) /\ (Select(q, Chunk(q, ready), pin) \/ Delay(q))
            [] OTHER -> GiveUp(Memories(results), proposal, pin)
  /\ UNCHANGED <<work, commands>>

(* The engine ends the selection, of its own policy or for lack of work.   *)
end_selection ==
  /\ phase = "select"
  /\ Selected # {} \/ \A q \in Reqs : ~Offered(q)
  /\ phase' = "allocate"
  /\ UNCHANGED <<mem, plan, work, engineVars, scheduleVars, command, deferred, commands, faults>>

-----------------------------------------------------------------------------
(* hooks/ecs.py and allocation.py: one matched verdict for an allocation *)

(* Pages for every request of the function pages, in the same count for    *)
(* every component, each allocation with a receipt in the journal.         *)
Acquisition(m, pages) ==
  LET Receipt(s, c, q, taken) == [m |-> alloc(s.m, c, q, pages[q], taken),
                                  journal |-> Append(s.journal, [comp |-> c, pages |-> taken])]
      Take(s, q) ==
        LET One(x, c) == Receipt(x, c, q, Lowest(Listed(x.m, c, pages[q]), pages[q]))
        IN  IF q \in DOMAIN pages THEN InOrder(One, s) ELSE s
  IN  FoldLeft(Take, [m |-> m, journal |-> <<>>], [i \in Reqs |-> i])

(* rollback: the receipts are consumed from the last one, and the requests *)
(* are put back to their checkpoint.                                       *)
rollback(checkpoint, s) ==
  LET Back(x, receipt) == free_page_ids(x, receipt.comp, receipt.pages)
  IN  [FoldLeft(Back, s.m, Reverse(s.journal)) EXCEPT !.owned = checkpoint]

RolledBack(results) == [r \in Ranks |-> rollback(mem[r].owned, results[r])]

Acquired(prepared, pages) ==
  IF prepared.status # "ready" THEN prepared @@ [journal |-> <<>>]
  ELSE Acquisition(prepared.m, pages) @@ [status |-> "ready"]
Allocated(pages, total, fault) ==
  [r \in Ranks |->
     Acquired(prepare_allocation(mem[r], Vector(total), At(fault, r)), pages)]

(***************************************************************************)
(* alloc_for_extend under complete_allocation.  Without a selection the    *)
(* pass goes on to Decode.                                                 *)
(***************************************************************************)
alloc_for_extend ==
  /\ phase = "allocate" /\ Selected # {}
  /\ \E fault \in MapFaults :
     \E results \in {Allocated(selected, SumSelected, fault)} :
       /\ Count(fault)
       /\ CASE Verdict(results) = "failed" -> mem' = Memories(results) /\ Fail
            [] Verdict(results) = "miss" ->
                 /\ mem' = RolledBack(results)
                 /\ Release({q \in Selected : status[q] = "waiting"})
                 /\ selected' = <<>> /\ phase' = "decode"
                 /\ UNCHANGED <<status, prefix, rows, decodes, wants, order, command, deferred>>
            [] OTHER ->
                 /\ mem' = Memories(results)
                 /\ rows' = rows \cup Selected
                 /\ status' = [q \in Reqs |-> IF q \notin Selected THEN status[q]
                                 ELSE IF selected[q] < Remaining(q) THEN "chunked"
                                 ELSE "running"]
                 /\ phase' = "launch"
                 /\ UNCHANGED <<prefix, locks, swaLocks, decodes, scheduleVars, command, deferred>>
  /\ UNCHANGED <<plan, work, commands>>

no_prefill ==
  /\ phase = "allocate" /\ Selected = {}
  /\ phase' = "decode"
  /\ UNCHANGED <<mem, plan, work, engineVars, scheduleVars, command, deferred, commands, faults>>

-----------------------------------------------------------------------------
(* admission.py: Decode *)

DecodeNeed(S) == Vector(Cardinality(wants \cap S))

(* coordinate_decode: ready, or ready after one reclaim.                   *)
ReadyAfter(s, need) == [s EXCEPT !.ok = @ /\ memory_ready(s.mem, need, need, None)]
coordinate_decode(need) ==
  IF memory_ready(mem, need, need, None) THEN [mem |-> mem, plan |-> plan, ok |-> TRUE]
  ELSE ReadyAfter(reclaim_requirement(mem, plan, need, need, None), need)

(* check_decode_mem: some running requests are at a page boundary.         *)
check_decode_mem ==
  /\ phase = "decode"
  /\ IF Running = {}
       THEN /\ phase' = "launch"
            /\ UNCHANGED <<mem, plan, wants, order>>
       ELSE \E S \in SUBSET {q \in Running : decodes[q] < MaxDecode} :
            \E decision \in {coordinate_decode(Vector(Cardinality(S)))} :
              /\ mem' = decision.mem /\ plan' = decision.plan
              /\ wants' = S /\ order' = Running
              /\ phase' = IF decision.ok THEN "stage"
                          ELSE IF Cardinality(Running) > 1 THEN "retract" ELSE "last"
  /\ UNCHANGED <<work, engineVars, selected, command, deferred, commands, faults>>

(* A released request frees its pages, row and lock and waits again; the   *)
(* engine then asks the cache for room for the requests that remain, left  *)
(* after the last of seq, which is deferred.                               *)
ReleaseRequests(mm, seq, left) ==
  LET qs == Range(seq)
      Out(m, n) == FoldLeft(ReleaseOwned, m, SubSeq(seq, 1, n))
      room(m, c, rest) == IF rest = 0 THEN 0 ELSE Resident(m, c) + rest
      rooms(m, c) == {room(Out(m, n), c, left + Len(seq) - n) : n \in DOMAIN seq}
  IN  /\ mem' = [r \in Ranks |-> Out(mm[r], Len(seq))]
      /\ deferred' = [r \in Ranks |-> [c \in Comps |-> Most(rooms(mm[r], c) \cup {deferred[r][c]})]]
      /\ status' = [q \in Reqs |-> IF q \in qs THEN "waiting" ELSE status[q]]
      /\ rows' = rows \ qs
      /\ Release(qs)
      /\ UNCHANGED <<prefix, decodes>>

(* The loop of retract_decode: a victim, then another while the rest does  *)
(* not fit; the last one only if it does not fit alone.                    *)
retract(q) ==
  /\ phase = "retract" /\ q \in order
  /\ ReleaseRequests(mem, <<q>>, Cardinality(order) - 1)
  /\ order' = order \ {q} /\ phase' = "again"
  /\ UNCHANGED <<plan, work, selected, wants, command, commands, faults>>

retract_again ==
  /\ phase = "again"
  /\ \E decision \in {coordinate_decode(DecodeNeed(order))} :
       /\ mem' = decision.mem /\ plan' = decision.plan
       /\ phase' = IF decision.ok THEN "stage"
                   ELSE IF Cardinality(order) > 1 THEN "retract" ELSE "last"
  /\ UNCHANGED <<work, engineVars, scheduleVars, command, deferred, commands, faults>>

retract_last ==
  /\ phase = "last"
  /\ \E decision \in {coordinate_decode(DecodeNeed(order))} :
       /\ plan' = decision.plan
       /\ IF decision.ok
            THEN /\ mem' = decision.mem /\ phase' = "stage"
                 /\ UNCHANGED <<engineVars, order, deferred>>
            ELSE /\ ReleaseRequests(decision.mem, SetToSeq(order), 0)
                 /\ order' = {} /\ phase' = "launch"
  /\ UNCHANGED <<work, selected, wants, command, commands, faults>>

(***************************************************************************)
(* prepare_for_decode: the remaining requests acquire their pages under    *)
(* one verdict; after a miss they are all released, in the engine's order. *)
(***************************************************************************)
prepare_for_decode ==
  /\ phase = "stage"
  /\ \E fault \in MapFaults :
     \E results \in {Allocated([q \in wants \cap order |-> 1],
                              Cardinality(wants \cap order), fault)} :
       /\ Count(fault)
       /\ CASE Verdict(results) = "failed" -> mem' = Memories(results) /\ Fail
            [] Verdict(results) = "miss" ->
                 /\ \E seq \in SetToSeqs(order) : ReleaseRequests(RolledBack(results), seq, 0)
                 /\ order' = {} /\ phase' = "launch"
                 /\ UNCHANGED <<selected, wants, command>>
            [] OTHER ->
                 /\ mem' = Memories(results)
                 /\ decodes' = [q \in Reqs |-> IF q \in wants \cap order
                                                 THEN decodes[q] + 1 ELSE decodes[q]]
                 /\ phase' = "launch"
                 /\ UNCHANGED <<status, prefix, locks, swaLocks, rows, scheduleVars,
                                command, deferred>>
  /\ UNCHANGED <<plan, work, commands>>

-----------------------------------------------------------------------------
(* The engine around the hooks, the device and the daemon (external). *)

Batch == IF Selected # {} THEN Selected ELSE order
Uses(m, q) ==
  UNION {{<<c, p>> : p \in m.owned[q][c] \cup UNION {m.cached[n][c] : n \in Path(prefix[q])}} :
           c \in Comps}

(* The batch is launched; a rank is at most Depth batches ahead of its     *)
(* device.                                                                 *)
launch ==
  /\ phase = "launch"
  /\ IF Batch = {} THEN UNCHANGED work
     ELSE /\ \A r \in Ranks : Len(work[r]) < Depth
          /\ work' = [r \in Ranks |-> Append(work[r], UNION {Uses(mem[r], q) : q \in Batch})]
  /\ selected' = <<>> /\ wants' = {} /\ order' = {}
  /\ phase' = "idle"
  /\ UNCHANGED <<mem, plan, engineVars, command, deferred, commands, faults>>

(* The device completes the oldest batch.  The scheduler looks only when   *)
(* it begins a pass or waits to launch, so completions are placed there.   *)
forward_completes(r) ==
  /\ phase \in {"idle", "launch"} /\ work[r] # <<>>
  /\ work' = [work EXCEPT ![r] = Tail(@)]
  /\ plan' = IF plan[r] # None /\ plan[r].ahead > 0 THEN [plan EXCEPT ![r].ahead = @ - 1] ELSE plan
  /\ UNCHANGED <<mem, engineVars, phase, scheduleVars, command, deferred, commands, faults>>

(* A request finishes: its pages go to its cache node, or are freed.  The  *)
(* overlapped next batch may still use them.                               *)
finish_request(q, keep) ==
  /\ phase = "idle" /\ status[q] = "running"
  /\ mem' = [r \in Ranks |->
       IF keep THEN [mem[r] EXCEPT !.cached[q] = mem[r].owned[q],
                                   !.owned[q] = [c \in Comps |-> {}]]
       ELSE ReleaseOwned(mem[r], q)]
  /\ status' = [status EXCEPT ![q] = "done"] /\ rows' = rows \ {q}
  /\ Release({q})
  /\ UNCHANGED <<plan, work, prefix, decodes, phase, scheduleVars, command, deferred,
                 commands, faults>>

(* A running request's oldest SWA page falls out of its window.            *)
free_swa_out_of_window_slots(q) ==
  /\ phase = "idle" /\ Len(Layouts) = 2 /\ status[q] = "running"
  /\ Cardinality(mem[Leader].owned[q][SWA]) > Window
  /\ mem' = [r \in Ranks |->
       LET out == Lowest(mem[r].owned[q][SWA], 1)
       IN  free_page_ids([mem[r] EXCEPT !.owned[q][SWA] = @ \ out], SWA, out)]
  /\ UNCHANGED <<plan, work, engineVars, phase, scheduleVars, command, deferred, commands, faults>>

(* A command of the daemon arrives with the request broadcast.             *)
accept_command(target) ==
  /\ phase = "idle" /\ command = None /\ commands < MaxCommands
  /\ command' = target /\ commands' = commands + 1
  /\ UNCHANGED <<mem, plan, work, engineVars, phase, scheduleVars, deferred, faults>>

close_state ==
  /\ phase = "idle" /\ \A q \in Reqs : status[q] = "done"
  /\ \A r \in Ranks : work[r] = <<>>
  /\ mem' = [r \in Ranks |-> close(mem[r])]
  /\ phase' = "closed"
  /\ UNCHANGED <<plan, work, engineVars, scheduleVars, command, deferred, commands, faults>>

Pass ==
  \/ begin_scheduling
  \/ (\E q \in Reqs : add_req(q)) \/ end_selection \/ alloc_for_extend \/ no_prefill
  \/ check_decode_mem \/ (\E q \in Reqs : retract(q)) \/ retract_again \/ retract_last
  \/ prepare_for_decode \/ launch
Device == \E r \in Ranks : forward_completes(r)
Engine ==
  \/ \E q \in Reqs, keep \in BOOLEAN : finish_request(q, keep)
  \/ \E q \in Reqs : free_swa_out_of_window_slots(q)
  \/ close_state
Next == Pass \/ Device \/ Engine \/ \E t \in Targets : accept_command(t)

Spec == Init /\ [][Next]_vars

-----------------------------------------------------------------------------
(***************************************************************************)
(* A page is in one place, and whatever the engine owns or may hand out    *)
(* has all its bundles mapped, on every rank and through every rollback,   *)
(* retirement and driver failure.  No bundle is unmapped under a batch the *)
(* device still has to run, even when the requests of the batch have       *)
(* finished and freed their pages.  No internal check of the code fires.   *)
(***************************************************************************)
PagesBacked ==
  phase # "closed" =>
    \A r \in Ranks :
      /\ ~mem[r].error
      /\ \A c \in Comps : Conserved(mem[r], c) /\ ExposedBacked(mem[r], c)
      /\ \A batch \in ToSet(work[r]) : \A u \in batch :
           span(u[1], u[2]) \subseteq mem[r].bundles[u[1]]

(***************************************************************************)
(* Whatever failed on the way, the quota's charge is exactly the bundles   *)
(* held, and it stays within the grant, which the ranks share.             *)
(***************************************************************************)
ChargesExact ==
  \A r \in Ranks :
    /\ ChargeExact(mem[r])
    /\ phase # "failed" => mem[r].limit = mem[Leader].limit

(***************************************************************************)
(* Between passes the cache locks and request rows are those of the        *)
(* requests that are running or chunked: what a pass acquired and did not  *)
(* commit is given back.  The ranks own the same number of pages for each  *)
(* request and cache the same nodes, although their memories differ.       *)
(***************************************************************************)
OwnersExact ==
  phase = "idle" =>
    /\ rows = Active
    /\ \A n \in Reqs :
         /\ locks[n] = Cardinality({q \in Active : n \in Path(prefix[q])})
         /\ swaLocks[n] = Cardinality({q \in Active : n = prefix[q]})
    /\ \A r \in Ranks, q \in Reqs, c \in Comps :
         /\ q \notin Active => mem[r].owned[q][c] = {}
         /\ Cardinality(mem[r].owned[q][c]) = Cardinality(mem[Leader].owned[q][c])
         /\ (mem[r].cached[q][c] = {}) = (mem[Leader].cached[q][c] = {})

(***************************************************************************)
(* What a selection has prepared on every rank stays resident until it is  *)
(* allocated.                                                              *)
(***************************************************************************)
PreparedSuffices ==
  phase \in {"select", "allocate"} =>
    \A r \in Ranks, c \in Comps : Resident(mem[r], c) >= SumSelected
=============================================================================
