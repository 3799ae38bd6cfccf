----------------------------- MODULE RankMemory -----------------------------
(***************************************************************************)
(* The context-state memory of one Instance rank: the byte quota, each     *)
(* component's physical bundles and the four places an unowned page may    *)
(* be in.  A memory is a record                                            *)
(*   bundles      ids whose handle the rank holds, per component;          *)
(*   charged, limit   the quota;                                           *)
(*   free, staged     unowned pages the engine may hand out now, or after  *)
(*                    it has merged and sorted its deferred frees;         *)
(*   unavailable, retiring   unowned pages that are withheld, and those    *)
(*                    among them whose bundles are being retired;          *)
(*   owned, cached    pages of a request, and of the cache node a finished *)
(*                    request left behind;                                 *)
(*   error        an internal check of the code has failed.                *)
(* Operators take a memory and return the one the code leaves behind.      *)
(* The upstream allocators run with need_sort: frees are deferred and      *)
(* allocation takes the lowest ids.                                        *)
(***************************************************************************)
EXTENDS KvLayout, Sequences

CONSTANTS Layouts,   \* the components' layouts: Full attention, then SWA
          Reqs,      \* requests, numbered in their order of arrival
          None

Comps == DOMAIN Layouts
SWA == 2
Oom == -1

Pages(c) == PageIds(Layouts[c])
bytes(c) == PoolProfile(Layouts[c]).bytes
floor(c) == 0 .. PoolProfile(Layouts[c]).floor - 1
span(c, p) == bundle_spans(Layouts[c], p)
Backed(m, c, p) == missing_bundle_counts(Layouts[c], m.bundles[c], p) = 0

(* Sum of f[c] over the components.                                        *)
Total(f) == IF Len(Layouts) = 1 THEN f[1] ELSE f[1] + f[2]
Lowest(S, n) == {x \in S : Cardinality({y \in S : y < x}) < n}

-----------------------------------------------------------------------------
(* vmm.py, and the quota of xpool/ecs.py *)

try_reserve(m, n) == n <= m.limit - m.charged

(***************************************************************************)
(* try_map: all that is missing is charged, then acquired bundle by        *)
(* bundle.  The fault is how the driver answers: None for success, Oom for *)
(* exhaustion after the first handle, or the number of handles held when   *)
(* another error is raised.  The charge of what was not reached is given   *)
(* back; what was acquired is closed again, with its charge, after         *)
(* exhaustion, and kept after a terminal error or a rollback that fails.   *)
(***************************************************************************)
Charge(m, c, n) == [m EXCEPT !.charged = @ + n * bytes(c)]
CloseBundles(m, c, ids) ==
  [m EXCEPT !.bundles[c] = @ \ ids, !.charged = @ - Cardinality(ids) * bytes(c)]

try_map(m, c, ids, fault) ==
  LET missing == ids \ m.bundles[c]
      n == Cardinality(missing)
      acquired == IF fault = None THEN missing ELSE Lowest(missing, IF fault = Oom THEN 1 ELSE fault)
      looped == [Charge(m, c, n) EXCEPT !.bundles[c] = @ \cup acquired]
      refunded == Charge(looped, c, Cardinality(acquired) - n)
  IN  IF ~try_reserve(m, n * bytes(c)) THEN [m |-> m, status |-> "miss"]
      ELSE IF fault = None \/ missing = {} THEN [m |-> looped, status |-> "ready"]
      ELSE IF fault = Oom THEN [m |-> CloseBundles(refunded, c, acquired), status |-> "miss"]
      ELSE [m |-> refunded, status |-> "failed"]

unmap(m, c, ids) ==
  LET held == ids \cap m.bundles[c]
  IN  [m EXCEPT !.bundles[c] = @ \ held,
                !.charged = @ - Cardinality(held) * bytes(c),
                !.error = @ \/ ids \cap floor(c) # {}]

-----------------------------------------------------------------------------
(* allocator.py *)

get_all_free_pages(m, c) == m.free[c] \cup m.staged[c]
Resident(m, c) == Cardinality(m.free[c]) + Cardinality(m.staged[c])
Candidates(m, c) == m.unavailable[c] \ m.retiring[c]

logical_free_pages(m, c) ==
  Resident(m, c) + Cardinality(m.unavailable[c]) - Cardinality(m.retiring[c])

free_page_ids(m, c, ps) == [m EXCEPT !.staged[c] = @ \cup ps]

(* The missing bundles of a realization of n pages, or None: resident      *)
(* pages first, then partially backed ones, then in virtual order.         *)
PartialFirst(candidates, partial, n) ==
  IF n <= Cardinality(partial) THEN Lowest(partial, n)
  ELSE partial \cup Lowest(candidates \ partial, n - Cardinality(partial))

plan_pages(m, c, n) ==
  LET short == n - Resident(m, c)
      partial == {p \in Candidates(m, c) : span(c, p) \cap m.bundles[c] # {}}
  IN  IF short <= 0 THEN {}
      ELSE IF Cardinality(Candidates(m, c)) < short THEN None
      ELSE UNION {span(c, p) : p \in PartialFirst(Candidates(m, c), partial, short)}
             \ m.bundles[c]

publish_pages(m, c, ps) ==
  LET pages == ps \cap m.unavailable[c]
      bad == pages \cap m.retiring[c] # {} \/ \E p \in pages : ~Backed(m, c, p)
  IN  IF bad THEN [m EXCEPT !.error = TRUE]
      ELSE free_page_ids([m EXCEPT !.unavailable[c] = @ \ pages], c, pages)

(* alloc: n pages of the sorted free list, merged first when it is short.  *)
Merges(m, c, n) == n > Cardinality(m.free[c])
Listed(m, c, n) == IF Merges(m, c, n) THEN get_all_free_pages(m, c) ELSE m.free[c]
alloc(m, c, q, n, taken) ==
  [m EXCEPT !.free[c] = Listed(m, c, n) \ taken,
            !.staged[c] = IF Merges(m, c, n) THEN {} ELSE @,
            !.owned[q][c] = @ \cup taken,
            !.error = @ \/ Cardinality(taken) < n]

Intersecting(c, ps, ids) == {p \in ps : span(c, p) \cap ids # {}}

(* Mutant: the deferred frees keep the pages that are withdrawn.           *)
RetireWithoutStaged(m, c, ids) ==
  LET exposed == get_all_free_pages(m, c)
      withdrawn == Intersecting(c, exposed, ids)
  IN  IF m.retiring[c] # {} THEN [m EXCEPT !.error = TRUE]
      ELSE [m EXCEPT !.retiring[c] = Intersecting(c, exposed \cup m.unavailable[c], ids),
                     !.unavailable[c] = @ \cup withdrawn,
                     !.free[c] = @ \ withdrawn]

begin_retirement(m, c, ids) ==
  LET exposed == get_all_free_pages(m, c)
      withdrawn == Intersecting(c, exposed, ids)
  IN  IF m.retiring[c] # {} THEN [m EXCEPT !.error = TRUE]
      ELSE [m EXCEPT !.retiring[c] = Intersecting(c, exposed \cup m.unavailable[c], ids),
                     !.unavailable[c] = @ \cup withdrawn,
                     !.free[c] = @ \ withdrawn,
                     !.staged[c] = @ \ withdrawn]

(* clear: the free list of a new allocator, split by what is backed.       *)
clear(bundles, c) ==
  {p \in Pages(c) : missing_bundle_counts(Layouts[c], bundles, p) = 0}

(* around_init_pools: the quota is the floor, and the floor is mapped.     *)
InitialMemory ==
  LET cost == Total([c \in Comps |-> Cardinality(floor(c)) * bytes(c)])
      nothing == [c \in Comps |-> {}]
  IN  [bundles |-> [c \in Comps |-> floor(c)], charged |-> cost, limit |-> cost,
       free |-> [c \in Comps |-> clear(floor(c), c)], staged |-> nothing,
       unavailable |-> [c \in Comps |-> Pages(c) \ clear(floor(c), c)],
       retiring |-> nothing,
       owned |-> [q \in Reqs |-> nothing], cached |-> [q \in Reqs |-> nothing],
       error |-> FALSE]

-----------------------------------------------------------------------------
(* state.py: joint operations on the components *)

InOrder(Op(_, _), m) == IF Len(Layouts) = 1 THEN Op(m, 1) ELSE Op(Op(m, 1), 2)

Complete(plans) == IF \E c \in Comps : plans[c] = None THEN None ELSE plans
plan_allocation(m, need) == Complete([c \in Comps |-> plan_pages(m, c, need[c])])

Price(m, plans) ==
  IF plans = None THEN None
  ELSE m.charged + Total([c \in Comps |-> Cardinality(plans[c]) * bytes(c)])

allocation_bytes(m, need) == Price(m, plan_allocation(m, need))

(* required_bytes: evictable pages of the same pool count as free.         *)
required_bytes(m, forecast, evictable) ==
  allocation_bytes(m, [c \in Comps |->
     LET n == forecast[c] - Cardinality(evictable[c]) IN IF n < 0 THEN 0 ELSE n])

(* Every unavailable page that is backed by now is published.              *)
PublishBacked(m, c) ==
  publish_pages(m, c, {p \in Candidates(m, c) : Backed(m, c, p)})

(***************************************************************************)
(* prepare_allocation: fault is None or <<c, f>>, the answer f of the      *)
(* driver to component c.  A miss at a later component keeps what the      *)
(* earlier ones mapped, and publishes nothing.                             *)
(***************************************************************************)
MapPlans(m, plans, fault) ==
  LET FaultOf(c) == IF fault # None /\ fault[1] = c THEN fault[2] ELSE None
      Map(s, c) == IF s.status = "ready" THEN try_map(s.m, c, plans[c], FaultOf(c)) ELSE s
  IN  IF plans = None \/ Price(m, plans) > m.limit THEN [m |-> m, status |-> "miss"]
      ELSE InOrder(Map, [m |-> m, status |-> "ready"])
Published(m, need) ==
  [m |-> m, status |-> IF \A c \in Comps : Resident(m, c) >= need[c] THEN "ready" ELSE "miss"]
PublishMapped(mapped, need) ==
  IF mapped.status # "ready" THEN mapped ELSE Published(InOrder(PublishBacked, mapped.m), need)
prepare_allocation(m, need, fault) ==
  PublishMapped(MapPlans(m, plan_allocation(m, need), fault), need)

(* Empty bundles, component by component, until enough bytes are found.    *)
EmptyBundles(m, c) ==
  empty_bundles(Layouts[c], m.bundles[c],
                (get_all_free_pages(m, c) \cup m.unavailable[c]) \ m.retiring[c])
TakeBundles(empty, release) ==
  LET Take(c, n) == IF n <= 0 THEN {} ELSE Lowest(empty[c], CeilDiv(n, bytes(c)))
      rest == release - Cardinality(Take(1, release)) * bytes(1)
  IN  [c \in Comps |-> Take(c, IF c = 1 THEN release ELSE rest)]
empty_bundle_ids(m, release) ==
  TakeBundles([c \in Comps |-> IF release = 0 THEN {} ELSE EmptyBundles(m, c)], release)

Retire(m, ids) ==
  LET Begin(n, c) == IF ids[c] = {} THEN n ELSE begin_retirement(n, c, ids[c])
  IN  InOrder(Begin, m)

(***************************************************************************)
(* finish_retirement: unmap, then end the exclusion.  A fault <<c, k>>     *)
(* raises after k bundles of component c.                                  *)
(***************************************************************************)
finish_retirement(m, ids, fault) ==
  LET Finish(n, c) ==
        IF ids[c] = {} \/ (fault # None /\ c > fault[1]) THEN n
        ELSE IF fault # None /\ c = fault[1] THEN unmap(n, c, Lowest(ids[c], fault[2]))
        ELSE [unmap(n, c, ids[c]) EXCEPT !.retiring[c] = {}]
  IN  InOrder(Finish, m)

ReleaseOwned(m, q) ==
  LET Free(n, c) == [free_page_ids(n, c, n.owned[q][c]) EXCEPT !.owned[q][c] = {}]
  IN  InOrder(Free, m)

(* A radix eviction frees a node's pages of the given components.          *)
apply_eviction(m, n, comps) ==
  LET Free(x, c) == IF c \notin comps THEN x
                    ELSE [free_page_ids(x, c, x.cached[n][c]) EXCEPT !.cached[n][c] = {}]
  IN  InOrder(Free, m)

close(m) ==
  [m EXCEPT !.bundles = [c \in Comps |-> {}],
            !.charged = @ - Total([c \in Comps |-> Cardinality(m.bundles[c]) * bytes(c)])]

-----------------------------------------------------------------------------
(* What every operation keeps. *)

PageSets(m, c) ==
  <<m.free[c], m.staged[c], m.unavailable[c]>> \o
  [i \in 1 .. 2 * Cardinality(Reqs) |->
     IF i % 2 = 1 THEN m.owned[(i + 1) \div 2][c] ELSE m.cached[i \div 2][c]]

(* Every page is in exactly one place.                                     *)
Conserved(m, c) ==
  LET sets == PageSets(m, c)
  IN  /\ UNION {sets[i] : i \in DOMAIN sets} = Pages(c)
      /\ \A i, j \in DOMAIN sets : i # j => sets[i] \cap sets[j] = {}
      /\ m.retiring[c] \subseteq m.unavailable[c]

(* A page that is owned or can be handed out is backed completely.         *)
ExposedBacked(m, c) ==
  \A p \in Pages(c) \ m.unavailable[c] : span(c, p) \subseteq m.bundles[c]

(* The charge is what is held, and within the grant.                       *)
ChargeExact(m) ==
  /\ m.charged = Total([c \in Comps |-> Cardinality(m.bundles[c]) * bytes(c)])
  /\ m.charged <= m.limit
=============================================================================
