------------------------------ MODULE KvLayout ------------------------------
(***************************************************************************)
(* Geometry of one component's compound KV storage on an Instance rank.    *)
(* A layout is a record of its row count, the bytes of a row, the tokens   *)
(* of a row and of a page, the mapping granularity in bytes and the number *)
(* of buffers that share a bundle (layers times buffers of a layer).       *)
(* Bundle b backs bytes b * granularity .. (b+1) * granularity - 1 of      *)
(* every buffer; page zero is dummy storage.                               *)
(***************************************************************************)
EXTENDS Integers, FiniteSets

CeilDiv(a, b) == (a + b - 1) \div b
Clamp(x, low, high) == IF x < low THEN low ELSE IF x > high THEN high ELSE x

token_capacity(l) == l.rows * l.tokens_per_row - l.page

KvVmmLayout(l) ==
  /\ \A f \in DOMAIN l : l[f] > 0
  /\ token_capacity(l) >= l.page

PoolProfile(l) ==
  [bytes |-> l.granularity * l.buffers,
   capacity |-> CeilDiv(l.rows * l.row_bytes, l.granularity),
   floor |-> CeilDiv(CeilDiv(l.page, l.tokens_per_row) * l.row_bytes, l.granularity)]

(* The upstream allocators number the usable pages from one.               *)
PageIds(l) == 1 .. token_capacity(l) \div l.page

span_start(l, p) == (((p * l.page) \div l.tokens_per_row) * l.row_bytes) \div l.granularity
span_end(l, p) ==
  CeilDiv(CeilDiv((p + 1) * l.page, l.tokens_per_row) * l.row_bytes, l.granularity)
bundle_spans(l, p) == span_start(l, p) .. span_end(l, p) - 1

(* Counting by differences of prefix sums over the bundles.                *)
Below(S, k) == Cardinality({b \in S : b < k})
missing_bundle_counts(l, held, p) ==
  LET missing == (0 .. PoolProfile(l).capacity - 1) \ held
  IN  Below(missing, span_end(l, p)) - Below(missing, span_start(l, p))

(* The pages a bundle can intersect form an interval; it is empty of       *)
(* owners when as many free pages cover it.                                *)
first_page(l, b) ==
  Clamp((((b * l.granularity) \div l.row_bytes) * l.tokens_per_row) \div l.page,
        1, token_capacity(l) \div l.page + 1)
past_page(l, b) ==
  LET rows == CeilDiv((b + 1) * l.granularity, l.row_bytes)
      past == IF rows > l.rows THEN l.rows ELSE rows
  IN  Clamp(CeilDiv(past * l.tokens_per_row, l.page), 1, token_capacity(l) \div l.page + 1)

empty_bundles(l, held, free) ==
  {b \in held :
     /\ b >= PoolProfile(l).floor
     /\ Cardinality({p \in free : span_start(l, p) <= b})
          - Cardinality({p \in free : span_end(l, p) <= b})
        = past_page(l, b) - first_page(l, b)}

(***************************************************************************)
(* What the two counts are for: the bundles of a page's bytes that are not *)
(* held, and the unpinned bundles that no owned page touches.              *)
(***************************************************************************)
PageBytes(l, p) ==
  ((p * l.page) \div l.tokens_per_row) * l.row_bytes
    .. CeilDiv((p + 1) * l.page, l.tokens_per_row) * l.row_bytes - 1
Touches(l, p, b) ==
  \E x \in PageBytes(l, p) : x \in b * l.granularity .. (b + 1) * l.granularity - 1
Unowned(l, held, free) ==
  {b \in held : /\ b >= PoolProfile(l).floor
                /\ \A p \in PageIds(l) : Touches(l, p, b) => p \in free}
=============================================================================
